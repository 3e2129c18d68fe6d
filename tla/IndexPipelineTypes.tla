------------------------ MODULE IndexPipelineTypes -------------------------
(***************************************************************************)
(* IndexPipeline is type correct, for every value of its constants; and    *)
(* the lemmas about its operators that the other proofs use too.           *)
(***************************************************************************)
EXTENDS IndexPipeline, FiniteSetTheorems, SequenceTheorems, TLAPS

LEMMA SeqnoType == /\ Seqno \subseteq Nat
                   /\ SeqnoLimit \in Nat \ {0}
                   /\ From \in Seqno /\ To \in Seqno
  BY SchedulerAssumption DEF Seqno

\* Sets of seqnos are finite.
LEMMA FiniteSeqnos ==
  ASSUME NEW S \in SUBSET Seqno
  PROVE  IsFiniteSet(S) /\ Cardinality(S) \in Nat
<1>1. IsFiniteSet(Seqno)
  BY FS_Interval, SchedulerAssumption DEF Seqno
<1>2. IsFiniteSet(S)
  BY <1>1, FS_Subset
<1> QED
  BY <1>2, FS_CardinalityType

\* A function on 1 .. n is a sequence.
LEMMA FunctionIsSeq ==
  ASSUME NEW S, NEW n \in Nat, NEW f \in [1 .. n -> S]
  PROVE  f \in Seq(S)
  BY SeqDef, Zenon

\* What Append does.
LEMMA Appended ==
  ASSUME NEW S, NEW q \in Seq(S), NEW e \in S
  PROVE  /\ Append(q, e) \in Seq(S)
         /\ Len(q) \in Nat /\ Len(Append(q, e)) = Len(q) + 1
         /\ \A i \in 1 .. Len(q) : q[i] \in S /\ Append(q, e)[i] = q[i]
         /\ Append(q, e)[Len(q) + 1] = e
<1>1. Append(q, e) \in Seq(S) /\ Len(q) \in Nat /\ Len(Append(q, e)) = Len(q) + 1
  BY AppendProperties, LenProperties
<1>2. \A i \in 1 .. Len(q) : q[i] \in S
  BY ElementOfSeq
<1>3. \A i \in 1 .. Len(q) : Append(q, e)[i] = q[i]
  BY AppendProperties
<1>4. Append(q, e)[Len(q) + 1] = e
  BY AppendProperties
<1> QED
  BY <1>1, <1>2, <1>3, <1>4

\* QueueState arithmetic stays in QueueState.
LEMMA QueueStateType ==
  ASSUME NEW l \in QueueState, NEW r \in QueueState
  PROVE  Plus(l, r) \in QueueState /\ Minus(l, r) \in QueueState
  BY DEF Plus, Minus, QueueState

LEMMA TaskStateType ==
  ASSUME NEW t \in Seqno
  PROVE  TaskState(t) \in QueueState
  BY WeightAssumption, PipelineAssumption DEF TaskState, QueueState

LEMMA LoadType ==
  ASSUME NEW n \in Nat
  PROVE  Load(1 .. n) \in QueueState /\ Load(1 .. n).mc_blocks = n
<1>1. Cardinality(1 .. n) = n
  BY FS_Interval
<1>2. /\ Total(Blocks, 1 .. n) \in Int
      /\ Total(Txs, 1 .. n) \in Int
      /\ Total(Msgs, 1 .. n) \in Int
  BY DEF Total
<1> QED
  BY <1>1, <1>2 DEF Load, QueueState

\* What cutting batches does, as far as the proofs need it: the first n tasks
\* leave the queue, and each of them is in one of the new batches.
LEMMA BatchesCut ==
  ASSUME TypeOK, NEW p \in Int, NEW actors \in SUBSET (SUBSET Seqno), NEW full,
         schedule_next_insert_batches(p, actors, full)
  PROVE  \E n \in 0 .. Len(insert_queue) :
           /\ insert_queue' \in Seq(Seqno)
           /\ insert_queue' = SubSeq(insert_queue, n + 1, Len(insert_queue))
           /\ Len(insert_queue') = Len(insert_queue) - n
           /\ \A i \in 1 .. Len(insert_queue) - n : insert_queue'[i] = insert_queue[n + i]
           /\ queue_state' \in QueueState
           /\ queue_state'.mc_blocks = queue_state.mc_blocks - n
           /\ parallel_insert_actors' \in Int
           /\ insert_actors' \subseteq SUBSET Seqno
           /\ (UNION insert_actors') = (UNION actors) \cup {insert_queue[i] : i \in 1 .. n}
<1>0. PICK n \in 0 .. Len(insert_queue) :
      \E number \in [1 .. n -> 1 .. MaxParallelInsertActors - p] :
        /\ insert_queue' = SubSeq(insert_queue, n + 1, Len(insert_queue))
        /\ queue_state' = Minus(queue_state, Load(1 .. n))
        /\ parallel_insert_actors' = p + (IF n = 0 THEN 0 ELSE number[n])
        /\ insert_actors' = actors \cup
             {{insert_queue[i] : i \in {j \in 1 .. n : number[j] = number[k]}} : k \in 1 .. n}
  BY DEF schedule_next_insert_batches
<1>1. PICK number \in [1 .. n -> 1 .. MaxParallelInsertActors - p] :
        /\ insert_queue' = SubSeq(insert_queue, n + 1, Len(insert_queue))
        /\ queue_state' = Minus(queue_state, Load(1 .. n))
        /\ parallel_insert_actors' = p + (IF n = 0 THEN 0 ELSE number[n])
        /\ insert_actors' = actors \cup
             {{insert_queue[i] : i \in {j \in 1 .. n : number[j] = number[k]}} : k \in 1 .. n}
  BY <1>0
<1>2. /\ insert_queue \in Seq(Seqno) /\ Len(insert_queue) \in Nat
      /\ \A i \in 1 .. Len(insert_queue) : insert_queue[i] \in Seqno
  BY LenProperties, ElementOfSeq DEF TypeOK
<1>3. /\ insert_queue' \in Seq(Seqno)
      /\ Len(insert_queue') = Len(insert_queue) - n
      /\ \A i \in 1 .. Len(insert_queue) - n : insert_queue'[i] = insert_queue[n + i]
  <2>1. \A i \in n + 1 .. Len(insert_queue) : insert_queue[i] \in Seqno
    BY <1>2
  <2>2. /\ insert_queue' \in Seq(Seqno)
        /\ Len(insert_queue') = IF n + 1 <= Len(insert_queue)
                                THEN Len(insert_queue) - (n + 1) + 1 ELSE 0
        /\ \A i \in 1 .. Len(insert_queue) - (n + 1) + 1 :
             insert_queue'[i] = insert_queue[n + 1 + i - 1]
    BY <1>1, <1>2, <2>1, SubSeqProperties
  <2> QED
    BY <1>2, <2>2
<1>4. queue_state' \in QueueState /\ queue_state'.mc_blocks = queue_state.mc_blocks - n
  <2>1. Load(1 .. n) \in QueueState /\ Load(1 .. n).mc_blocks = n
    BY LoadType
  <2>2. queue_state \in QueueState
    BY DEF TypeOK
  <2> QED
    BY <1>1, <2>1, <2>2, QueueStateType DEF Minus
<1>5. parallel_insert_actors' \in Int
  <2>1. CASE n = 0
    BY <1>1, <2>1
  <2>2. CASE n # 0
    <3>1. number[n] \in 1 .. MaxParallelInsertActors - p
      BY <2>2
    <3> QED
      BY <1>1, <2>2, <3>1
  <2> QED
    BY <2>1, <2>2
<1>6. insert_actors' \subseteq SUBSET Seqno
  BY <1>1, <1>2
<1>7. (UNION insert_actors') = (UNION actors) \cup {insert_queue[i] : i \in 1 .. n}
  <2> DEFINE batch(k) == {insert_queue[i] : i \in {j \in 1 .. n : number[j] = number[k]}}
  <2>1. insert_actors' = actors \cup {batch(k) : k \in 1 .. n}
    BY <1>1
  <2>2. \A k \in 1 .. n : insert_queue[k] \in batch(k)
    OBVIOUS
  <2>3. \A k \in 1 .. n : batch(k) \subseteq {insert_queue[i] : i \in 1 .. n}
    OBVIOUS
  <2> HIDE DEF batch
  <2> QED
    BY <2>1, <2>2, <2>3
<1> QED
  BY <1>1, <1>3, <1>4, <1>5, <1>6, <1>7

\* What scheduling the first n queued seqnos does.
LEMMA SeqnosScheduled ==
  ASSUME TypeOK, NEW n \in 0 .. Len(queued_seqnos), NEW p \in SUBSET Seqno,
         schedule_next_seqnos(n, p)
  PROVE  /\ queued_seqnos' \in Seq(Seqno)
         /\ Len(queued_seqnos') = Len(queued_seqnos) - n
         /\ \A i \in 1 .. Len(queued_seqnos) - n : queued_seqnos'[i] = queued_seqnos[n + i]
         /\ processing_seqnos' = p \cup {queued_seqnos[i] : i \in 1 .. n}
         /\ processing_seqnos' \subseteq Seqno
<1>1. /\ queued_seqnos \in Seq(Seqno) /\ Len(queued_seqnos) \in Nat
      /\ \A i \in 1 .. Len(queued_seqnos) : queued_seqnos[i] \in Seqno
  BY LenProperties, ElementOfSeq DEF TypeOK
<1>2. /\ queued_seqnos' = SubSeq(queued_seqnos, n + 1, Len(queued_seqnos))
      /\ processing_seqnos' = p \cup {queued_seqnos[i] : i \in 1 .. n}
  BY DEF schedule_next_seqnos
<1>3. \A i \in n + 1 .. Len(queued_seqnos) : queued_seqnos[i] \in Seqno
  BY <1>1
<1>4. /\ queued_seqnos' \in Seq(Seqno)
      /\ Len(queued_seqnos') = IF n + 1 <= Len(queued_seqnos)
                               THEN Len(queued_seqnos) - (n + 1) + 1 ELSE 0
      /\ \A i \in 1 .. Len(queued_seqnos) - (n + 1) + 1 :
           queued_seqnos'[i] = queued_seqnos[n + 1 + i - 1]
  BY <1>1, <1>2, <1>3, SubSeqProperties
<1> QED
  BY <1>1, <1>2, <1>4

\* Init has the types.
LEMMA TypeInit == Init => TypeOK
<1> SUFFICES ASSUME Init PROVE TypeOK
  OBVIOUS
<1>1. << >> \in Seq(Seqno) /\ << >> \in Seq(Message)
  BY EmptySeq
<1>2. 0 \in Seqno /\ 0 \in 0 .. MaxMcSeqno
  BY SchedulerAssumption, PipelineAssumption DEF Seqno
<1> QED
  BY <1>1, <1>2, PipelineAssumption, SchedulerAssumption
     DEF Init, TypeOK, schedInit, imInit, ZeroState, QueueState, Stage

LEMMA TypeStart == TypeOK /\ Start => TypeOK'
<1> SUFFICES ASSUME TypeOK, Start PROVE TypeOK'
  OBVIOUS
<1>1. PICK next \in 0 .. SeqnoLimit :
        \E last \in RestoredState(next) :
            /\ phase' = IF LoopEnds(last) THEN "run" ELSE "spinning"
            /\ existing_seqnos' = MarkedExisting(last)
            /\ expected_seqno' = (last + 1) % SeqnoLimit
  BY DEF Start
<1>2. PICK last \in RestoredState(next) :
            /\ phase' = IF LoopEnds(last) THEN "run" ELSE "spinning"
            /\ existing_seqnos' = MarkedExisting(last)
            /\ expected_seqno' = (last + 1) % SeqnoLimit
  BY <1>1
<1>3. last \in Seqno
  <2>1. FallbackState(next) \in Seqno
    BY SchedulerAssumption DEF FallbackState, Before, Seqno
  <2> QED
    BY <1>2, <2>1 DEF RestoredState, TypeOK
<1>4. expected_seqno' \in 0 .. SeqnoLimit
  BY <1>2, <1>3, SchedulerAssumption DEF Seqno
<1>5. existing_seqnos' \subseteq Seqno /\ phase' \in {"down", "run", "aborted", "spinning", "unstarted"}
  BY <1>2 DEF MarkedExisting
<1> QED
  BY <1>4, <1>5 DEF Start, TypeOK, imVars

LEMMA TypeStartError == TypeOK /\ StartError => TypeOK'
<1> SUFFICES ASSUME TypeOK, StartError PROVE TypeOK'
  OBVIOUS
<1>1. errors' \in 0 .. MaxErrors
  BY PipelineAssumption DEF StartError, TypeOK
<1> QED
  BY <1>1 DEF StartError, TypeOK, procVars, schedVars, imVars

LEMMA TypeCrash == TypeOK /\ Crash => TypeOK'
<1> SUFFICES ASSUME TypeOK, Crash PROVE TypeOK'
  OBVIOUS
<1>1. << >> \in Seq(Seqno) /\ << >> \in Seq(Message)
  BY EmptySeq
<1>2. 0 \in Seqno /\ 0 \in 0 .. SeqnoLimit
  BY SchedulerAssumption DEF Seqno
<1>3. crashes' \in 0 .. MaxCrashes
  BY PipelineAssumption DEF Crash, TypeOK
<1> QED
  BY <1>1, <1>2, <1>3 DEF Crash, TypeOK, ZeroState, QueueState, Stage

LEMMA TypeAlarm == TypeOK /\ Alarm => TypeOK'
  BY DEF Alarm, TypeOK, schedVars, imVars

LEMMA TypeChainGrows == TypeOK /\ ChainGrows => TypeOK'
<1> SUFFICES ASSUME TypeOK, ChainGrows PROVE TypeOK'
  OBVIOUS
<1>1. mc_seqno' \in 0 .. MaxMcSeqno
  BY PipelineAssumption, SeqnoType DEF ChainGrows, TypeOK
<1> QED
  BY <1>1 DEF ChainGrows, TypeOK, procVars, schedVars, imVars

LEMMA TypeQueueState == TypeOK /\ get_insert_queue_state => TypeOK'
<1> SUFFICES ASSUME TypeOK, get_insert_queue_state PROVE TypeOK'
  OBVIOUS
<1>1. [type |-> "state", seqno |-> 0, status |-> queue_state] \in Message
  <2>1. 0 \in Seqno
    BY SchedulerAssumption DEF Seqno
  <2>2. queue_state \in QueueState
    BY DEF TypeOK
  <2> QED
    BY <2>1, <2>2 DEF Message
<1>2. mailbox' \in Seq(Message)
  BY <1>1, AppendProperties DEF get_insert_queue_state, TypeOK
<1> QED
  BY <1>2 DEF get_insert_queue_state, TypeOK, schedVars, imVars

\* The answer to the alarm appends seqnos above the last known one.
LEMMA SeqnosLearnt ==
  ASSUME TypeOK, LastKnownSeqno
  PROVE  \/ UNCHANGED <<queued_seqnos, last_known_seqno>>
         \/ \E new \in Seq(Seqno) :
              /\ queued_seqnos' = queued_seqnos \o new
              /\ last_known_seqno' = mc_seqno
              /\ \A i \in 1 .. Len(new) :
                   /\ last_known_seqno < new[i] /\ new[i] <= mc_seqno
                   /\ NeedsWork(new[i])
                   /\ \A j \in 1 .. Len(new) : new[i] = new[j] => i = j
              /\ \A s \in last_known_seqno + 1 .. mc_seqno :
                   NeedsWork(s) => s \in Elements(new)
<1>1. CASE To > 0 /\ last_known_seqno > To
  BY <1>1 DEF LastKnownSeqno, got_last_known_seqno
<1>2. CASE ~ (To > 0 /\ last_known_seqno > To)
  <2> DEFINE W == {s \in last_known_seqno + 1 .. mc_seqno : NeedsWork(s)}
  <2>1. PICK new \in Upward(W) : queued_seqnos' = queued_seqnos \o new
    BY <1>2 DEF LastKnownSeqno, got_last_known_seqno
  <2>2. last_known_seqno' = mc_seqno
    BY <1>2 DEF LastKnownSeqno, got_last_known_seqno
  <2>3. W \subseteq Seqno
    BY SeqnoType, PipelineAssumption DEF TypeOK, Seqno
  <2>4. Cardinality(W) \in Nat
    BY <2>3, FiniteSeqnos
  <2>5. new \in [1 .. Cardinality(W) -> W]
    BY <2>1 DEF Upward
  <2>6. new \in Seq(Seqno) /\ Len(new) = Cardinality(W)
    <3>1. new \in [1 .. Cardinality(W) -> Seqno]
      BY <2>3, <2>5
    <3>2. new \in Seq(Seqno)
      BY <2>4, <3>1, FunctionIsSeq
    <3> QED
      BY <2>4, <2>5, <3>2, LenProperties
  <2>7. Elements(new) = W /\ \A i, j \in 1 .. Cardinality(W) : i < j => new[i] < new[j]
    BY <2>1 DEF Upward
  <2>8. \A i \in 1 .. Len(new) : new[i] \in W /\ new[i] \in Nat
    BY <2>5, <2>6, <2>3, SeqnoType
  <2>9. \A i, j \in 1 .. Len(new) : new[i] = new[j] => i = j
    BY <2>4, <2>6, <2>7, <2>8
  <2>10. \A i \in 1 .. Len(new) : last_known_seqno < new[i] /\ new[i] <= mc_seqno
    BY <2>8, SeqnoType DEF TypeOK
  <2>11. \A i \in 1 .. Len(new) : NeedsWork(new[i])
    BY <2>8
  <2>12. \A s \in last_known_seqno + 1 .. mc_seqno : NeedsWork(s) => s \in Elements(new)
    BY <2>7
  <2> QED
    BY <2>1, <2>2, <2>6, <2>9, <2>10, <2>11, <2>12
<1> QED
  BY <1>1, <1>2

LEMMA TypeLastKnownSeqno == TypeOK /\ LastKnownSeqno => TypeOK'
<1> SUFFICES ASSUME TypeOK, LastKnownSeqno PROVE TypeOK'
  OBVIOUS
<1>1. queued_seqnos' \in Seq(Seqno) /\ last_known_seqno' \in Seqno
  <2>1. CASE UNCHANGED <<queued_seqnos, last_known_seqno>>
    BY <2>1 DEF TypeOK
  <2>2. CASE \E new \in Seq(Seqno) : /\ queued_seqnos' = queued_seqnos \o new
                                      /\ last_known_seqno' = mc_seqno
    <3>1. queued_seqnos \in Seq(Seqno) /\ mc_seqno \in 0 .. MaxMcSeqno
      BY DEF TypeOK
    <3>2. mc_seqno \in Seqno
      BY <3>1, PipelineAssumption, SeqnoType DEF Seqno
    <3> QED
      BY <2>2, <3>1, <3>2, ConcatProperties
  <2> QED
    BY <2>1, <2>2, SeqnosLearnt
<1> QED
  BY <1>1 DEF LastKnownSeqno, TypeOK, imVars

LEMMA TypeLastKnownSeqnoError == TypeOK /\ LastKnownSeqnoError => TypeOK'
<1> SUFFICES ASSUME TypeOK, LastKnownSeqnoError PROVE TypeOK'
  OBVIOUS
<1>1. errors' \in 0 .. MaxErrors
  BY PipelineAssumption DEF LastKnownSeqnoError, TypeOK
<1> QED
  BY <1>1 DEF LastKnownSeqnoError, TypeOK, schedVars, imVars

\* The two ways a closure of the insert manager is handled, with the processing
\* set and the stages it starts from.
LEMMA MessageHandled ==
  ASSUME TypeOK, HandleMessage
  PROVE  LET m == Head(mailbox)
             p == IF m.type = "queued" THEN processing_seqnos \ {m.seqno} ELSE processing_seqnos
             st == IF m.type = "queued" THEN [stage EXCEPT ![m.seqno] = "idle"] ELSE stage
         IN  /\ m \in Message /\ mailbox' = Tail(mailbox) /\ mailbox # << >>
             /\ p \subseteq Seqno /\ st \in [Seqno -> Stage]
             /\ got_insert_queue_state(m.status, p, st)
<1>1. Head(mailbox) \in Message /\ mailbox # << >>
  BY HeadTailProperties DEF HandleMessage, TypeOK
<1> QED
  BY <1>1 DEF HandleMessage, TypeOK, Message, Stage

LEMMA TypeHandleMessage == TypeOK /\ HandleMessage => TypeOK'
<1> SUFFICES ASSUME TypeOK, HandleMessage PROVE TypeOK'
  OBVIOUS
<1> DEFINE m == Head(mailbox)
           p == IF m.type = "queued" THEN processing_seqnos \ {m.seqno} ELSE processing_seqnos
           st == IF m.type = "queued" THEN [stage EXCEPT ![m.seqno] = "idle"] ELSE stage
<1>1. /\ mailbox' = Tail(mailbox) /\ mailbox # << >>
      /\ p \subseteq Seqno /\ st \in [Seqno -> Stage]
      /\ got_insert_queue_state(m.status, p, st)
  BY MessageHandled
<1>2. mailbox' \in Seq(Message)
  BY <1>1, HeadTailProperties DEF TypeOK
<1> HIDE DEF m, p, st
<1>3. /\ queued_seqnos' \in Seq(Seqno) /\ processing_seqnos' \subseteq Seqno
      /\ stage' \in [Seqno -> Stage]
  <2>1. CASE Fits(m.status, MaxQueue)
    <3>1. PICK n \in 0 .. Len(queued_seqnos) :
            /\ schedule_next_seqnos(n, p)
            /\ stage' = [s \in Seqno |-> IF \E i \in 1 .. n : queued_seqnos[i] = s
                                         THEN "fetch" ELSE st[s]]
      BY <1>1, <2>1 DEF got_insert_queue_state
    <3>2. stage' \in [Seqno -> Stage]
      BY <1>1, <3>1 DEF Stage
    <3> QED
      BY <1>1, <3>1, <3>2, SeqnosScheduled
  <2>2. CASE ~ Fits(m.status, MaxQueue)
    BY <1>1, <2>2 DEF got_insert_queue_state, TypeOK
  <2> QED
    BY <2>1, <2>2
<1> QED
  BY <1>2, <1>3 DEF HandleMessage, TypeOK, imVars

LEMMA TypeMoved ==
  ASSUME TypeOK, NEW s \in Seqno, NEW from, NEW to \in Stage, Moved(s, from, to),
         imVars' = imVars, mailbox' = mailbox
  PROVE  TypeOK'
  BY DEF Moved, TypeOK, schedVars, imVars

LEMMA TypeParsed == ASSUME TypeOK, NEW s \in Seqno, seqno_parsed(s) PROVE TypeOK'
<1>1. CASE s < expected_seqno
  BY <1>1 DEF seqno_parsed, TypeOK, schedVars, imVars
<1>2. CASE ~ (s < expected_seqno)
  <2>1. PICK e \in expected_seqno .. SeqnoLimit :
            /\ expected_seqno' = e
            /\ stage' = [t \in Seqno |->
                           IF t \notin Waiting \cup {s} THEN stage[t]
                           ELSE IF t < e THEN "interfaces" ELSE "assembling"]
    BY <1>2 DEF seqno_parsed
  <2>2. stage' \in [Seqno -> Stage]
    BY <2>1 DEF TypeOK, Stage
  <2>3. expected_seqno' \in 0 .. SeqnoLimit
    BY <2>1, SchedulerAssumption DEF TypeOK
  <2> QED
    BY <1>2, <2>2, <2>3 DEF seqno_parsed, TypeOK, schedVars, imVars
<1> QED
  BY <1>1, <1>2

LEMMA TypeActionsProcessed ==
  ASSUME TypeOK, NEW s \in Seqno, seqno_actions_processed(s) PROVE TypeOK'
<1>1. queue_state' \in QueueState
  BY TaskStateType, QueueStateType DEF seqno_actions_processed, insert, TypeOK
<1>2. insert_queue' \in Seq(Seqno)
  BY AppendProperties DEF seqno_actions_processed, insert, TypeOK
<1>3. [type |-> "queued", seqno |-> s, status |-> queue_state'] \in Message
  BY <1>1 DEF Message
<1>4. mailbox' \in Seq(Message)
  BY <1>3, AppendProperties DEF seqno_actions_processed, TypeOK
<1>5. stage' \in [Seqno -> Stage]
  BY DEF seqno_actions_processed, Moved, TypeOK, Stage
<1> QED
  BY <1>1, <1>2, <1>4, <1>5 DEF seqno_actions_processed, Moved, insert, TypeOK, schedVars

LEMMA TypeWorkerError == ASSUME TypeOK, NEW s \in Seqno, WorkerError(s) PROVE TypeOK'
<1>1. queued_seqnos' \in Seq(Seqno)
  BY AppendProperties DEF WorkerError, reschedule_seqno, TypeOK
<1>2. errors' \in 0 .. MaxErrors
  BY PipelineAssumption DEF WorkerError, TypeOK
<1>3. stage' \in [Seqno -> Stage] /\ processing_seqnos' \subseteq Seqno
  BY DEF WorkerError, reschedule_seqno, TypeOK, Stage
<1> QED
  BY <1>1, <1>2, <1>3 DEF WorkerError, TypeOK, imVars

LEMMA TypeInsertAlarm == TypeOK /\ InsertAlarm => TypeOK'
<1> SUFFICES ASSUME TypeOK, InsertAlarm PROVE TypeOK'
  OBVIOUS
<1>1. schedule_next_insert_batches(parallel_insert_actors, insert_actors, FALSE)
  BY DEF InsertAlarm, imAlarm
<1>2. parallel_insert_actors \in Int /\ insert_actors \in SUBSET (SUBSET Seqno)
  BY DEF TypeOK
<1>3. /\ insert_queue' \in Seq(Seqno) /\ queue_state' \in QueueState
      /\ parallel_insert_actors' \in Int /\ insert_actors' \subseteq SUBSET Seqno
  BY <1>1, <1>2, BatchesCut
<1> QED
  BY <1>3 DEF InsertAlarm, TypeOK, schedVars

LEMMA TypeBatchInserted ==
  ASSUME TypeOK, NEW batch \in insert_actors, BatchInserted(batch) PROVE TypeOK'
<1> DEFINE p == parallel_insert_actors - 1
           actors == insert_actors \ {batch}
<1>1. schedule_next_insert_batches(p, actors, TRUE)
  BY DEF BatchInserted, insert_batch_finished
<1>2. p \in Int /\ actors \in SUBSET (SUBSET Seqno)
  BY DEF TypeOK
<1> HIDE DEF p, actors
<1>3. /\ insert_queue' \in Seq(Seqno) /\ queue_state' \in QueueState
      /\ parallel_insert_actors' \in Int /\ insert_actors' \subseteq SUBSET Seqno
  BY <1>1, <1>2, BatchesCut
<1>4. batch \subseteq Seqno
  BY DEF TypeOK
<1> QED
  BY <1>3, <1>4 DEF BatchInserted, seqno_inserted, TypeOK

LEMMA TypeStateFiles == TypeOK /\ (save_state \/ gc_states) => TypeOK'
<1> SUFFICES ASSUME TypeOK, save_state \/ gc_states PROVE TypeOK'
  OBVIOUS
<1>1. Before(expected_seqno) \in Seqno
  BY SchedulerAssumption DEF TypeOK, Before, Seqno
<1>2. tastates' \subseteq Seqno
  BY <1>1 DEF save_state, gc_states, TypeOK
<1> QED
  BY <1>2 DEF save_state, gc_states, TypeOK, procVars, schedVars, imVars

\* Every step preserves the types.
LEMMA TypeNext == TypeOK /\ [Next]_vars => TypeOK'
<1> SUFFICES ASSUME TypeOK, [Next]_vars PROVE TypeOK'
  OBVIOUS
<1>1. CASE Start BY <1>1, TypeStart
<1>2. CASE Crash BY <1>2, TypeCrash
<1>3. CASE ChainGrows BY <1>3, TypeChainGrows
<1>4. CASE Alarm BY <1>4, TypeAlarm
<1>5. CASE get_insert_queue_state BY <1>5, TypeQueueState
<1>6. CASE LastKnownSeqno BY <1>6, TypeLastKnownSeqno
<1>7. CASE LastKnownSeqnoError BY <1>7, TypeLastKnownSeqnoError
<1>8. CASE HandleMessage BY <1>8, TypeHandleMessage
<1>9. CASE \E s \in Seqno : Work(s) \/ WorkerError(s)
  <2>1. PICK s \in Seqno : Work(s) \/ WorkerError(s)
    BY <1>9
  <2>2. CASE seqno_fetched(s)
    BY <2>2, TypeMoved DEF seqno_fetched, Stage
  <2>3. CASE seqno_interfaces_processed(s)
    BY <2>3, TypeMoved DEF seqno_interfaces_processed, Stage
  <2> QED
    BY <2>1, <2>2, <2>3, TypeParsed, TypeActionsProcessed, TypeWorkerError DEF Work
<1>10. CASE InsertAlarm BY <1>10, TypeInsertAlarm
<1>11. CASE \E batch \in insert_actors : BatchInserted(batch)
  BY <1>11, TypeBatchInserted
<1>12. CASE save_state \/ gc_states BY <1>12, TypeStateFiles
<1>13. CASE UNCHANGED vars
  BY <1>13 DEF vars, procVars, schedVars, imVars, TypeOK
<1>14. CASE StartError BY <1>14, TypeStartError
<1> QED
  BY <1>1, <1>2, <1>3, <1>4, <1>5, <1>6, <1>7, <1>8, <1>9, <1>10, <1>11, <1>12, <1>13,
     <1>14 DEF Next

\* The indexer pipeline is type correct.
THEOREM TypeCorrect == Spec => []TypeOK
  BY TypeInit, TypeNext, PTL DEF Spec
=============================================================================
