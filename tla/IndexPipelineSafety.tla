------------------------ MODULE IndexPipelineSafety ------------------------
(***************************************************************************)
(* Two more theorems about IndexPipeline, on top of the scheduler's        *)
(* invariant of IndexPipelineBound: no wanted block is lost, and the       *)
(* trace assembler is never handed a block it has passed.                  *)
(***************************************************************************)
EXTENDS IndexPipelineBound

\* The elements of the queues are seqnos, and what the scheduler's part of
\* BoundInv says of them.
LEMMA QueuedFacts ==
  ASSUME TypeOK, BoundInv
  PROVE  /\ Len(queued_seqnos) \in Nat
         /\ \A i \in 1 .. Len(queued_seqnos) :
              /\ queued_seqnos[i] \in Seqno /\ stage[queued_seqnos[i]] = "idle"
         /\ \A s \in Seqno : s \in processing_seqnos <=> stage[s] # "idle"
         /\ \A s \in processing_seqnos : s <= last_known_seqno
<1>1. queued_seqnos \in Seq(Seqno)
  BY DEF TypeOK
<1>2. Len(queued_seqnos) \in Nat /\ \A i \in 1 .. Len(queued_seqnos) : queued_seqnos[i] \in Seqno
  BY <1>1, LenProperties, ElementOfSeq
<1> QED
  BY <1>2 DEF BoundInv, SchedulerInv

LEMMA DownStep == TypeOK /\ DownInv /\ [Next]_vars => DownInv'
<1> SUFFICES ASSUME TypeOK, DownInv, [Next]_vars, phase' = "down" PROVE DownInv'
  BY DEF DownInv
<1>1. CASE Crash
  BY <1>1 DEF Crash, DownInv
<1>2. CASE phase = "down" /\ UNCHANGED <<queued_seqnos, last_known_seqno, stage>>
  BY <1>2 DEF DownInv
<1>3. CASE Start
  BY <1>3 DEF Start
<1>4. CASE StartError
  BY <1>4 DEF StartError
<1>5. CASE ChainGrows
  BY <1>2, <1>5 DEF ChainGrows, procVars, schedVars
<1>6. CASE UNCHANGED vars
  BY <1>2, <1>6 DEF vars, procVars, schedVars
<1>7. CASE phase = "run" /\ phase' \in {"run", "aborted"}
  BY <1>7
<1>8. CASE \/ Alarm \/ get_insert_queue_state \/ LastKnownSeqno \/ LastKnownSeqnoError
           \/ HandleMessage \/ InsertAlarm \/ save_state \/ gc_states
  BY <1>7, <1>8 DEF Alarm, get_insert_queue_state, LastKnownSeqno, LastKnownSeqnoError,
                    HandleMessage, InsertAlarm, save_state, gc_states
<1>9. CASE \E s \in Seqno : Work(s) \/ WorkerError(s)
  BY <1>7, <1>9 DEF Work, WorkerError, seqno_fetched, seqno_parsed, seqno_interfaces_processed,
                    seqno_actions_processed, Moved
<1>10. CASE \E batch \in insert_actors : BatchInserted(batch)
  BY <1>7, <1>10 DEF BatchInserted
<1> QED
  BY <1>1, <1>3, <1>4, <1>5, <1>6, <1>8, <1>9, <1>10 DEF Next

----------------------------------------------------------------------------
(* No wanted block is lost *)

LEMMA ElementsAppend ==
  ASSUME NEW q \in Seq(Seqno), NEW s \in Seqno
  PROVE  Elements(Append(q, s)) = Elements(q) \cup {s}
<1>1. /\ Len(q) \in Nat /\ Len(Append(q, s)) = Len(q) + 1
      /\ \A i \in 1 .. Len(q) : Append(q, s)[i] = q[i]
      /\ Append(q, s)[Len(q) + 1] = s
  BY AppendProperties, LenProperties
<1>2. \A i : i \in 1 .. Len(q) + 1 <=> i \in 1 .. Len(q) \/ i = Len(q) + 1
  BY <1>1
<1> QED
  BY <1>1, <1>2 DEF Elements

\* A queue whose first n entries are taken off.
LEMMA ElementsCut ==
  ASSUME NEW q \in Seq(Seqno), NEW r, NEW n \in 0 .. Len(q),
         Len(r) = Len(q) - n, \A i \in 1 .. Len(q) - n : r[i] = q[n + i]
  PROVE  Elements(q) = {q[i] : i \in 1 .. n} \cup Elements(r)
<1>1. Len(q) \in Nat
  BY LenProperties
<1>2. \A i \in 1 .. Len(q) : i \in 1 .. n \/ (i - n \in 1 .. Len(q) - n /\ n + (i - n) = i)
  BY <1>1
<1>3. \A i \in 1 .. n : i \in 1 .. Len(q)
  BY <1>1
<1>4. \A i \in 1 .. Len(q) - n : n + i \in 1 .. Len(q)
  BY <1>1
<1>5. ASSUME NEW i \in 1 .. Len(q) PROVE q[i] \in {q[j] : j \in 1 .. n} \cup Elements(r)
  <2>1. CASE i \in 1 .. n
    BY <2>1
  <2>2. CASE i - n \in 1 .. Len(q) - n /\ n + (i - n) = i
    <3>1. r[i - n] = q[i] /\ i - n \in 1 .. Len(r)
      BY <2>2
    <3> QED
      BY <3>1 DEF Elements
  <2> QED
    BY <1>2, <2>1, <2>2
<1>6. ASSUME NEW i \in 1 .. Len(r) PROVE r[i] \in Elements(q)
  BY <1>4 DEF Elements
<1>7. ASSUME NEW i \in 1 .. n PROVE q[i] \in Elements(q)
  BY <1>3 DEF Elements
<1>8. /\ Elements(q) \subseteq {q[i] : i \in 1 .. n} \cup Elements(r)
      /\ {q[i] : i \in 1 .. n} \subseteq Elements(q)
  BY <1>5, <1>7 DEF Elements
<1>9. Elements(r) \subseteq Elements(q)
  <2>1. \A x \in Elements(r) : \E i \in 1 .. Len(r) : x = r[i]
    BY DEF Elements
  <2> QED
    BY <1>6, <2>1
<1> QED
  BY <1>8, <1>9

\* A step of the running process that drops nothing.
LEMMA CustodyKept ==
  ASSUME CustodyInv, phase = "run", last_known_seqno' = last_known_seqno,
         Elements(queued_seqnos) \cup processing_seqnos
           \subseteq Elements(queued_seqnos') \cup processing_seqnos'
                       \cup Inserting' \cup existing_seqnos',
         Inserting \cup existing_seqnos \subseteq Inserting' \cup existing_seqnos',
         \A s \in Seqno : stage'[s] = "queued"
            => stage[s] = "queued" \/ s \in Inserting' \cup existing_seqnos'
  PROVE  CustodyInv'
  BY DEF CustodyInv, NothingLost

LEMMA CustodyStart == DownInv /\ Start => CustodyInv'
<1> SUFFICES ASSUME DownInv, Start PROVE CustodyInv'
  OBVIOUS
<1>1. last_known_seqno' = 0 /\ \A s \in Seqno : stage'[s] = "idle"
  BY DEF Start, DownInv
<1> QED
  BY <1>1 DEF CustodyInv, NothingLost

LEMMA CustodyLastKnownSeqno ==
  TypeOK /\ TypeOK' /\ CustodyInv /\ LastKnownSeqno => CustodyInv'
<1> SUFFICES ASSUME TypeOK, TypeOK', CustodyInv, LastKnownSeqno PROVE CustodyInv'
  OBVIOUS
<1>1. /\ UNCHANGED <<processing_seqnos, existing_seqnos, stage, phase>>
      /\ UNCHANGED <<insert_queue, insert_actors>>
      /\ Inserting' = Inserting /\ phase = "run"
  BY DEF LastKnownSeqno, imVars, Inserting
<1>2. CASE UNCHANGED <<queued_seqnos, last_known_seqno>>
  BY <1>1, <1>2 DEF CustodyInv, NothingLost
<1>3. CASE \E new \in Seq(Seqno) :
             /\ queued_seqnos' = queued_seqnos \o new
             /\ last_known_seqno' = mc_seqno
             /\ \A s \in last_known_seqno + 1 .. mc_seqno :
                  NeedsWork(s) => s \in Elements(new)
  <2>1. PICK new \in Seq(Seqno) :
             /\ queued_seqnos' = queued_seqnos \o new
             /\ last_known_seqno' = mc_seqno
             /\ \A s \in last_known_seqno + 1 .. mc_seqno :
                  NeedsWork(s) => s \in Elements(new)
    BY <1>3
  <2>2. Elements(queued_seqnos') = Elements(queued_seqnos) \cup Elements(new)
    <3>1. queued_seqnos \in Seq(Seqno)
      BY DEF TypeOK
    <3> DEFINE k == Len(queued_seqnos)
               l == Len(new)
    <3>2. /\ k \in Nat /\ l \in Nat /\ Len(queued_seqnos') = k + l
          /\ \A i \in 1 .. k + l :
               queued_seqnos'[i] = IF i <= k THEN queued_seqnos[i] ELSE new[i - k]
      BY <2>1, <3>1, LenProperties, ConcatProperties
    <3>3. \A i \in 1 .. k : i \in 1 .. k + l /\ queued_seqnos'[i] = queued_seqnos[i]
      BY <3>2
    <3>4. \A i \in 1 .. l : k + i \in 1 .. k + l /\ queued_seqnos'[k + i] = new[i]
      BY <3>2
    <3>5. \A i \in 1 .. k + l : \/ i \in 1 .. k
                                \/ i - k \in 1 .. l /\ queued_seqnos'[i] = new[i - k]
      BY <3>2
    <3> HIDE DEF k, l
    <3>6. Elements(queued_seqnos') = {queued_seqnos'[i] : i \in 1 .. k + l}
      BY <3>2 DEF Elements
    <3>7. /\ Elements(queued_seqnos) = {queued_seqnos[i] : i \in 1 .. k}
          /\ Elements(new) = {new[i] : i \in 1 .. l}
      BY DEF Elements, k, l
    <3> QED
      BY <3>3, <3>4, <3>5, <3>6, <3>7
  <2>3. ASSUME NEW s \in 1 .. mc_seqno, InRange(s)
        PROVE  s \in Elements(queued_seqnos') \cup processing_seqnos
                       \cup Inserting \cup existing_seqnos
    <3>1. s \in 1 .. last_known_seqno \/ s \in last_known_seqno + 1 .. mc_seqno
      BY SeqnoType DEF TypeOK
    <3>2. CASE s \in 1 .. last_known_seqno
      BY <1>1, <2>2, <2>3, <3>2 DEF CustodyInv, NothingLost
    <3>3. CASE s \in last_known_seqno + 1 .. mc_seqno
      BY <2>1, <2>2, <2>3, <3>3 DEF NeedsWork
    <3> QED
      BY <3>1, <3>2, <3>3
  <2> QED
    BY <1>1, <2>1, <2>3 DEF CustodyInv, NothingLost
<1> QED
  BY <1>2, <1>3, SeqnosLearnt

LEMMA CustodyActionsProcessed ==
  ASSUME TypeOK, CustodyInv, NEW s \in Seqno, seqno_actions_processed(s)
  PROVE  CustodyInv'
<1>1. /\ phase = "run" /\ UNCHANGED <<queued_seqnos, processing_seqnos, existing_seqnos>>
      /\ UNCHANGED <<last_known_seqno, insert_actors>>
      /\ insert_queue' = Append(insert_queue, s) /\ insert_queue \in Seq(Seqno)
      /\ stage' = [stage EXCEPT ![s] = "queued"] /\ stage \in [Seqno -> Stage]
  BY DEF seqno_actions_processed, Moved, insert, schedVars, TypeOK
<1>2. Inserting' = Inserting \cup {s}
  BY <1>1, ElementsAppend DEF Inserting
<1> QED
  BY <1>1, <1>2, CustodyKept

LEMMA CustodyWorkerError ==
  ASSUME TypeOK, CustodyInv, NEW s \in Seqno, WorkerError(s)
  PROVE  CustodyInv'
<1>1. /\ phase = "run" /\ UNCHANGED <<last_known_seqno, existing_seqnos>>
      /\ UNCHANGED <<insert_queue, insert_actors>>
      /\ queued_seqnos' = Append(queued_seqnos, s) /\ queued_seqnos \in Seq(Seqno)
      /\ processing_seqnos' = processing_seqnos \ {s}
      /\ stage' = [stage EXCEPT ![s] = "idle"] /\ stage \in [Seqno -> Stage]
  BY DEF WorkerError, reschedule_seqno, imVars, TypeOK
<1>2. Inserting' = Inserting
  BY <1>1 DEF Inserting
<1>3. Elements(queued_seqnos') = Elements(queued_seqnos) \cup {s}
  BY <1>1, ElementsAppend
<1> QED
  BY <1>1, <1>2, <1>3, CustodyKept

\* Cutting batches moves tasks from the queue to the insert actors.
LEMMA InsertingKept ==
  ASSUME TypeOK, NEW p \in Int, NEW actors \in SUBSET (SUBSET Seqno), NEW full,
         schedule_next_insert_batches(p, actors, full)
  PROVE  Inserting' = Elements(insert_queue) \cup UNION actors
<1>1. PICK n \in 0 .. Len(insert_queue) :
           /\ Len(insert_queue') = Len(insert_queue) - n
           /\ \A i \in 1 .. Len(insert_queue) - n : insert_queue'[i] = insert_queue[n + i]
           /\ (UNION insert_actors') = (UNION actors) \cup {insert_queue[i] : i \in 1 .. n}
  BY BatchesCut
<1>2. insert_queue \in Seq(Seqno)
  BY DEF TypeOK
<1>3. Elements(insert_queue) = {insert_queue[i] : i \in 1 .. n} \cup Elements(insert_queue')
  BY <1>1, <1>2, ElementsCut
<1> QED
  BY <1>1, <1>3 DEF Inserting

LEMMA CustodyInsertAlarm == TypeOK /\ CustodyInv /\ InsertAlarm => CustodyInv'
<1> SUFFICES ASSUME TypeOK, CustodyInv, InsertAlarm PROVE CustodyInv'
  OBVIOUS
<1>1. /\ phase = "run" /\ UNCHANGED <<queued_seqnos, processing_seqnos, existing_seqnos>>
      /\ UNCHANGED <<last_known_seqno, stage>>
      /\ schedule_next_insert_batches(parallel_insert_actors, insert_actors, FALSE)
  BY DEF InsertAlarm, imAlarm, schedVars
<1>2. parallel_insert_actors \in Int /\ insert_actors \in SUBSET (SUBSET Seqno)
  BY DEF TypeOK
<1>3. Inserting' = Inserting
  BY <1>1, <1>2, InsertingKept DEF Inserting
<1> QED
  BY <1>1, <1>3, CustodyKept

LEMMA CustodyBatchInserted ==
  ASSUME TypeOK, CustodyInv, NEW batch \in insert_actors, BatchInserted(batch)
  PROVE  CustodyInv'
<1> DEFINE p == parallel_insert_actors - 1
           actors == insert_actors \ {batch}
<1>1. /\ phase = "run" /\ UNCHANGED <<queued_seqnos, processing_seqnos>>
      /\ UNCHANGED <<last_known_seqno, stage>>
      /\ existing_seqnos' = existing_seqnos \cup batch
      /\ schedule_next_insert_batches(p, actors, TRUE)
  BY DEF BatchInserted, insert_batch_finished, seqno_inserted
<1>2. p \in Int /\ actors \in SUBSET (SUBSET Seqno)
  BY DEF TypeOK
<1>3. (UNION insert_actors) \subseteq (UNION actors) \cup batch
  OBVIOUS
<1> HIDE DEF p, actors
<1>4. Inserting' = Elements(insert_queue) \cup UNION actors
  BY <1>1, <1>2, InsertingKept
<1>5. Inserting \subseteq Inserting' \cup batch
  BY <1>3, <1>4 DEF Inserting
<1> QED
  BY <1>1, <1>5, CustodyKept

LEMMA CustodyHandleMessage ==
  TypeOK /\ BoundInv /\ CustodyInv /\ HandleMessage => CustodyInv'
<1> SUFFICES ASSUME TypeOK, BoundInv, CustodyInv, HandleMessage PROVE CustodyInv'
  OBVIOUS
<1> DEFINE m == Head(mailbox)
           p == IF m.type = "queued" THEN processing_seqnos \ {m.seqno} ELSE processing_seqnos
           st == IF m.type = "queued" THEN [stage EXCEPT ![m.seqno] = "idle"] ELSE stage
<1>1. /\ m \in Message /\ mailbox # << >> /\ p \in SUBSET Seqno
      /\ got_insert_queue_state(m.status, p, st)
  BY MessageHandled
<1>2. /\ phase = "run" /\ UNCHANGED <<last_known_seqno, existing_seqnos>>
      /\ UNCHANGED <<insert_queue, insert_actors>> /\ Inserting' = Inserting
  BY DEF HandleMessage, imVars, Inserting
<1>3. m.type = "queued" => m.seqno \in Inserting \cup existing_seqnos
  <2>1. mailbox \in Seq(Message)
    BY DEF TypeOK
  <2>2. m = mailbox[1] /\ 1 \in 1 .. Len(mailbox)
    BY <1>1, <2>1, HeadTailProperties, LenProperties, EmptySeq
  <2>3. m.type = "queued" => stage[m.seqno] = "queued"
    BY <2>2 DEF BoundInv, MailboxInv, QueuedAfter
  <2>4. m.seqno \in Seqno
    BY <1>1 DEF Message
  <2> QED
    BY <1>2, <2>3, <2>4 DEF CustodyInv
<1>4. processing_seqnos \subseteq p \cup Inserting \cup existing_seqnos
  BY <1>3
<1>5. \A s \in Seqno : st[s] = "queued" => stage[s] = "queued"
  BY DEF TypeOK
<1> HIDE DEF m, p, st
<1>6. CASE ~ Fits(m.status, MaxQueue)
  <2>1. processing_seqnos' = p /\ stage' = st /\ queued_seqnos' = queued_seqnos
    BY <1>1, <1>6 DEF got_insert_queue_state
  <2> QED
    BY <1>2, <1>4, <1>5, <2>1, CustodyKept
<1>7. CASE Fits(m.status, MaxQueue)
  <2>1. PICK n \in 0 .. Len(queued_seqnos) :
          /\ schedule_next_seqnos(n, p)
          /\ stage' = [s \in Seqno |-> IF \E i \in 1 .. n : queued_seqnos[i] = s
                                       THEN "fetch" ELSE st[s]]
    BY <1>1, <1>7 DEF got_insert_queue_state
  <2>2. /\ Len(queued_seqnos') = Len(queued_seqnos) - n
        /\ \A i \in 1 .. Len(queued_seqnos) - n : queued_seqnos'[i] = queued_seqnos[n + i]
        /\ processing_seqnos' = p \cup {queued_seqnos[i] : i \in 1 .. n}
    BY <1>1, <2>1, SeqnosScheduled
  <2>3. queued_seqnos \in Seq(Seqno)
    BY DEF TypeOK
  <2>4. Elements(queued_seqnos)
          = {queued_seqnos[i] : i \in 1 .. n} \cup Elements(queued_seqnos')
    BY <2>2, <2>3, ElementsCut
  <2>5. \A s \in Seqno : stage'[s] = "queued" => stage[s] = "queued"
    BY <1>5, <2>1
  <2>6. Elements(queued_seqnos) \cup processing_seqnos
          \subseteq Elements(queued_seqnos') \cup processing_seqnos'
                      \cup Inserting' \cup existing_seqnos'
    BY <1>2, <1>4, <2>2, <2>4
  <2> QED
    BY <1>2, <2>5, <2>6, CustodyKept
<1> QED
  BY <1>6, <1>7

\* A step that changes nothing NothingLost is about.
LEMMA CustodyUnchanged ==
  ASSUME CustodyInv, phase' = "run" => phase = "run",
         UNCHANGED <<queued_seqnos, processing_seqnos, existing_seqnos, last_known_seqno>>,
         UNCHANGED <<insert_queue, insert_actors>>,
         \A s \in Seqno : stage'[s] = "queued" => stage[s] = "queued"
  PROVE  CustodyInv'
  BY DEF CustodyInv, NothingLost, Inserting

\* Every step preserves the custody of the wanted blocks.
LEMMA CustodyNext ==
  TypeOK /\ TypeOK' /\ BoundInv /\ DownInv /\ CustodyInv /\ [Next]_vars => CustodyInv'
<1> SUFFICES ASSUME TypeOK, TypeOK', BoundInv, DownInv, CustodyInv, [Next]_vars
             PROVE  CustodyInv'
  OBVIOUS
<1>1. CASE Start BY <1>1, CustodyStart
<1>2. CASE StartError \/ Crash
  BY <1>2 DEF StartError, Crash, CustodyInv, NothingLost
<1>3. CASE ChainGrows
  BY <1>3, CustodyUnchanged DEF ChainGrows, procVars, schedVars, imVars
<1>4. CASE Alarm \/ get_insert_queue_state \/ LastKnownSeqnoError
  BY <1>4, CustodyUnchanged DEF Alarm, get_insert_queue_state, LastKnownSeqnoError,
                                schedVars, imVars
<1>5. CASE LastKnownSeqno BY <1>5, CustodyLastKnownSeqno
<1>6. CASE HandleMessage BY <1>6, CustodyHandleMessage
<1>7. CASE \E s \in Seqno : Work(s) \/ WorkerError(s)
  <2>1. PICK s \in Seqno : Work(s) \/ WorkerError(s)
    BY <1>7
  <2>2. CASE seqno_fetched(s) \/ seqno_interfaces_processed(s)
    BY <2>2, CustodyUnchanged DEF seqno_fetched, seqno_interfaces_processed, Moved,
                                  schedVars, imVars, TypeOK
  <2>3. CASE seqno_parsed(s)
    <3>1. \A t \in Seqno : stage'[t] = "queued" => stage[t] = "queued"
      BY <2>3 DEF seqno_parsed
    <3> QED
      BY <2>3, <3>1, CustodyUnchanged DEF seqno_parsed, schedVars, imVars
  <2> QED
    BY <2>1, <2>2, <2>3, CustodyActionsProcessed, CustodyWorkerError DEF Work
<1>8. CASE InsertAlarm BY <1>8, CustodyInsertAlarm
<1>9. CASE \E batch \in insert_actors : BatchInserted(batch)
  BY <1>9, CustodyBatchInserted
<1>10. CASE save_state \/ gc_states
  BY <1>10, CustodyUnchanged DEF save_state, gc_states, procVars, schedVars, imVars
<1>11. CASE UNCHANGED vars
  BY <1>11, CustodyUnchanged DEF vars, procVars, schedVars, imVars
<1> QED
  BY <1>1, <1>2, <1>3, <1>4, <1>5, <1>6, <1>7, <1>8, <1>9, <1>10, <1>11 DEF Next

LEMMA SafetyInit == Init => DownInv /\ CustodyInv /\ FrontierInv
  BY DEF Init, schedInit, DownInv, CustodyInv, NothingLost, FrontierInv

\* While the process runs, every wanted seqno the scheduler has learnt of is
\* queued, in work, being inserted or done, whatever errors, batch cuts and
\* crashes happen.
THEOREM NothingIsLost == Spec => []NothingLost
<1>1. CustodyInv => NothingLost
  BY DEF CustodyInv
<1> QED
  BY <1>1, TypeInit, TypeNext, BoundInit, BoundNext, DownStep, SafetyInit, CustodyNext, PTL
     DEF Spec

----------------------------------------------------------------------------
(* The assembler is never handed a block it has passed *)

ToAssemble == {"fetch", "parse", "assembling"}

\* A step that brings no block before the assembler.
LEMMA FrontierUnchanged ==
  ASSUME FrontierInv, NoStaleAssemble, phase' = phase,
         UNCHANGED <<expected_seqno, last_known_seqno, queued_seqnos>>,
         existing_seqnos \subseteq existing_seqnos',
         \A s \in Seqno : stage'[s] \in ToAssemble => stage[s] \in ToAssemble
  PROVE  FrontierInv' /\ NoStaleAssemble'
  BY DEF FrontierInv, NoStaleAssemble, ToAssemble

LEMMA FrontierStart == TypeOK /\ DownInv /\ Start => FrontierInv' /\ NoStaleAssemble'
<1> SUFFICES ASSUME TypeOK, DownInv, Start PROVE FrontierInv' /\ NoStaleAssemble'
  OBVIOUS
<1>1. PICK next \in 0 .. SeqnoLimit :
        \E last \in RestoredState(next) :
            /\ phase' = IF LoopEnds(last) THEN "run" ELSE "spinning"
            /\ existing_seqnos' = MarkedExisting(last)
            /\ expected_seqno' = (last + 1) % SeqnoLimit
  BY DEF Start
<1>2. PICK last \in RestoredState(next) :
            /\ phase' = IF LoopEnds(last) THEN "run" ELSE "spinning"
            /\ existing_seqnos' = MarkedExisting(last)
            /\ expected_seqno' = (last + 1) % SeqnoLimit
  BY <1>1
<1>3. last \in Seqno
  <2>1. FallbackState(next) \in Seqno
    BY SchedulerAssumption DEF FallbackState, Before, Seqno
  <2> QED
    BY <1>2, <2>1 DEF RestoredState, TypeOK
<1>4. NoStaleAssemble'
  BY <1>2 DEF NoStaleAssemble
<1>5. ASSUME phase' = "run"
      PROVE  \A s \in Seqno : From <= s /\ s < expected_seqno' => s \in existing_seqnos'
  <2>1. last # SeqnoLimit - 1
    BY <1>2, <1>5 DEF LoopEnds
  <2>2. expected_seqno' = last + 1
    BY <1>2, <1>3, <2>1, SchedulerAssumption DEF Seqno
  <2> QED
    BY <1>2, <1>3, <2>2, SchedulerAssumption DEF MarkedExisting, Seqno
<1>6. Len(queued_seqnos') = 0 /\ \A s \in Seqno : stage'[s] = "idle"
  BY EmptySeq DEF Start, DownInv
<1> QED
  BY <1>4, <1>5, <1>6 DEF FrontierInv

\* Without --force, a seqno that needs work and was not known is not below the
\* assembler's expected one.
LEMMA FrontierLastKnownSeqno ==
  ASSUME TypeOK, TypeOK', BoundInv, FrontierInv, NoStaleAssemble, ~ ForceIndex, LastKnownSeqno
  PROVE  FrontierInv' /\ NoStaleAssemble'
<1>1. /\ phase = "run" /\ phase' = "run"
      /\ UNCHANGED <<existing_seqnos, stage, expected_seqno>>
  BY DEF LastKnownSeqno
<1>2. CASE UNCHANGED <<queued_seqnos, last_known_seqno>>
  BY <1>1, <1>2, FrontierUnchanged
<1>3. CASE \E new \in Seq(Seqno) :
             /\ queued_seqnos' = queued_seqnos \o new
             /\ last_known_seqno' = mc_seqno
             /\ \A i \in 1 .. Len(new) : last_known_seqno < new[i] /\ NeedsWork(new[i])
  <2>1. PICK new \in Seq(Seqno) :
             /\ queued_seqnos' = queued_seqnos \o new
             /\ last_known_seqno' = mc_seqno
             /\ \A i \in 1 .. Len(new) : last_known_seqno < new[i] /\ NeedsWork(new[i])
    BY <1>3
  <2>2. /\ expected_seqno \in Nat /\ last_known_seqno \in Nat /\ mc_seqno \in Nat
        /\ last_known_seqno <= mc_seqno /\ Seqno \subseteq Nat /\ From \in Nat
    BY SeqnoType, PipelineAssumption DEF TypeOK, BoundInv, SchedulerInv
  <2>3. ASSUME NEW i \in 1 .. Len(new) PROVE new[i] >= expected_seqno
    <3>1. new[i] \in Seqno /\ new[i] \in Nat
      BY <2>2, ElementOfSeq
    <3>2. From <= new[i] /\ new[i] \notin existing_seqnos /\ last_known_seqno < new[i]
      BY <2>1, <2>2, <3>1 DEF NeedsWork, InRange
    <3>3. ~ (new[i] < expected_seqno)
      BY <1>1, <2>2, <3>1, <3>2 DEF FrontierInv
    <3> QED
      BY <2>2, <3>1, <3>3
  <2>4. \A i \in 1 .. Len(queued_seqnos') : queued_seqnos'[i] >= expected_seqno
    <3>1. queued_seqnos \in Seq(Seqno)
      BY DEF TypeOK
    <3> DEFINE k == Len(queued_seqnos)
    <3>2. /\ k \in Nat /\ Len(new) \in Nat /\ Len(queued_seqnos') = k + Len(new)
          /\ \A i \in 1 .. k + Len(new) :
               queued_seqnos'[i] = IF i <= k THEN queued_seqnos[i] ELSE new[i - k]
      BY <2>1, <3>1, LenProperties, ConcatProperties
    <3>3. \A i \in 1 .. k : queued_seqnos[i] >= expected_seqno
      BY <1>1 DEF FrontierInv
    <3> HIDE DEF k
    <3>4. ASSUME NEW i \in 1 .. k + Len(new) PROVE queued_seqnos'[i] >= expected_seqno
      <4>1. CASE i <= k
        BY <3>2, <3>3, <4>1
      <4>2. CASE ~ (i <= k)
        <5>1. i - k \in 1 .. Len(new)
          BY <3>2, <4>2
        <5> QED
          BY <2>3, <3>2, <4>2, <5>1
      <4> QED
        BY <4>1, <4>2
    <3> QED
      BY <3>2, <3>4
  <2>5. \A s \in Seqno : s <= last_known_seqno => s <= last_known_seqno'
    BY <2>1, <2>2
  <2> QED
    BY <1>1, <2>4, <2>5 DEF FrontierInv, NoStaleAssemble
<1> QED
  BY <1>2, <1>3, SeqnosLearnt

LEMMA FrontierHandleMessage ==
  ASSUME TypeOK, FrontierInv, NoStaleAssemble, HandleMessage
  PROVE  FrontierInv' /\ NoStaleAssemble'
<1> DEFINE m == Head(mailbox)
           p == IF m.type = "queued" THEN processing_seqnos \ {m.seqno} ELSE processing_seqnos
           st == IF m.type = "queued" THEN [stage EXCEPT ![m.seqno] = "idle"] ELSE stage
<1>1. p \in SUBSET Seqno /\ got_insert_queue_state(m.status, p, st)
  BY MessageHandled
<1>2. /\ phase = "run" /\ phase' = phase
      /\ UNCHANGED <<last_known_seqno, existing_seqnos, expected_seqno>>
  BY DEF HandleMessage
<1>3. \A s \in Seqno : st[s] \in ToAssemble => stage[s] \in ToAssemble
  BY DEF TypeOK, ToAssemble
<1> HIDE DEF m, p, st
<1>4. CASE ~ Fits(m.status, MaxQueue)
  <2>1. stage' = st /\ queued_seqnos' = queued_seqnos
    BY <1>1, <1>4 DEF got_insert_queue_state
  <2> QED
    BY <1>2, <1>3, <2>1, FrontierUnchanged
<1>5. CASE Fits(m.status, MaxQueue)
  <2>1. PICK n \in 0 .. Len(queued_seqnos) :
          /\ schedule_next_seqnos(n, p)
          /\ stage' = [s \in Seqno |-> IF \E i \in 1 .. n : queued_seqnos[i] = s
                                       THEN "fetch" ELSE st[s]]
    BY <1>1, <1>5 DEF got_insert_queue_state
  <2>2. /\ Len(queued_seqnos') = Len(queued_seqnos) - n
        /\ \A i \in 1 .. Len(queued_seqnos) - n : queued_seqnos'[i] = queued_seqnos[n + i]
    BY <1>1, <2>1, SeqnosScheduled
  <2>3. Len(queued_seqnos) \in Nat
    BY LenProperties DEF TypeOK
  <2>4. \A i \in 1 .. Len(queued_seqnos) : queued_seqnos[i] >= expected_seqno
    BY <1>2 DEF FrontierInv
  <2>5. \A i \in 1 .. Len(queued_seqnos') : queued_seqnos'[i] >= expected_seqno
    BY <2>2, <2>3, <2>4
  <2>6. ASSUME NEW s \in Seqno, stage'[s] \in ToAssemble PROVE s >= expected_seqno
    <3>1. CASE \E i \in 1 .. n : queued_seqnos[i] = s
      BY <2>3, <2>4, <3>1
    <3>2. CASE ~ \E i \in 1 .. n : queued_seqnos[i] = s
      <4>1. st[s] \in ToAssemble
        BY <2>1, <2>6, <3>2
      <4> QED
        BY <1>2, <1>3, <4>1 DEF FrontierInv, ToAssemble
    <3> QED
      BY <3>1, <3>2
  <2> QED
    BY <1>2, <2>5, <2>6 DEF FrontierInv, NoStaleAssemble, ToAssemble
<1> QED
  BY <1>4, <1>5

\* process_queue moves the expected seqno over blocks that were waiting only.
LEMMA FrontierParsed ==
  ASSUME TypeOK, BoundInv, FrontierInv, NoStaleAssemble, NEW s \in Seqno, seqno_parsed(s)
  PROVE  FrontierInv' /\ NoStaleAssemble'
<1>1. /\ phase = "run" /\ stage[s] = "parse"
      /\ UNCHANGED <<queued_seqnos, existing_seqnos, last_known_seqno>>
      /\ stage \in [Seqno -> Stage]
  BY DEF seqno_parsed, schedVars, TypeOK
<1>2. expected_seqno \in Nat /\ last_known_seqno \in Nat /\ Seqno \subseteq Nat
  BY SeqnoType DEF TypeOK
<1>3. ~ (s < expected_seqno)
  BY <1>1, <1>2 DEF FrontierInv
<1>4. PICK e \in expected_seqno .. SeqnoLimit :
        /\ \A t \in expected_seqno .. e - 1 : t \in Waiting \cup {s}
        /\ expected_seqno' = e
        /\ stage' = [t \in Seqno |-> IF t \notin Waiting \cup {s} THEN stage[t]
                                     ELSE IF t < e THEN "interfaces" ELSE "assembling"]
        /\ phase' = phase
  BY <1>3 DEF seqno_parsed
<1>5. e \in Nat /\ expected_seqno <= e
  BY <1>2, <1>4, SchedulerAssumption
<1>6. ASSUME NEW t \in Seqno, expected_seqno <= t, t < e
      PROVE  t \in Waiting \cup {s} /\ stage[t] # "idle"
  <2>1. t \in expected_seqno .. e - 1
    BY <1>2, <1>5, <1>6
  <2> QED
    BY <1>1, <1>4, <2>1 DEF Waiting
<1>7. ASSUME NEW t \in Seqno, stage'[t] \in ToAssemble PROVE t >= e
  <2>1. t \in Nat
    BY <1>2
  <2>2. CASE t \in Waiting \cup {s}
    BY <1>4, <1>5, <1>7, <2>1, <2>2 DEF ToAssemble
  <2>3. CASE t \notin Waiting \cup {s}
    <3>1. stage[t] \in ToAssemble
      BY <1>4, <1>7, <2>3
    <3>2. t >= expected_seqno
      BY <1>1, <3>1 DEF FrontierInv, ToAssemble
    <3> QED
      BY <1>2, <1>5, <1>6, <2>1, <2>3, <3>2
  <2> QED
    BY <2>2, <2>3
<1>8. ASSUME NEW i \in 1 .. Len(queued_seqnos) PROVE queued_seqnos[i] >= e
  <2>1. queued_seqnos[i] \in Seqno /\ stage[queued_seqnos[i]] = "idle"
    BY QueuedFacts
  <2>2. queued_seqnos[i] >= expected_seqno
    BY <1>1 DEF FrontierInv
  <2> DEFINE t == queued_seqnos[i]
  <2>3. t \in Seqno /\ stage[t] = "idle" /\ expected_seqno <= t
    BY <1>2, <2>1, <2>2
  <2> HIDE DEF t
  <2>4. ~ (t < e)
    BY <1>6, <2>3
  <2>5. t >= e
    BY <1>2, <1>5, <2>3, <2>4
  <2> QED
    BY <2>5 DEF t
<1>9. ASSUME NEW t \in Seqno, From <= t, t < e
      PROVE  t \in existing_seqnos \/ t <= last_known_seqno
  <2>1. CASE t < expected_seqno
    BY <1>1, <1>9, <2>1 DEF FrontierInv
  <2>2. CASE expected_seqno <= t
    BY <1>6, <1>9, <2>2, QueuedFacts
  <2> QED
    BY <1>2, <2>1, <2>2
<1> QED
  BY <1>1, <1>4, <1>7, <1>8, <1>9 DEF FrontierInv, NoStaleAssemble, ToAssemble

\* A block is rescheduled only before it was assembled.
LEMMA FrontierWorkerError ==
  ASSUME TypeOK, FrontierInv, NoStaleAssemble, NEW s \in Seqno, WorkerError(s),
         "interfaces" \notin FailStages, "actions" \notin FailStages
  PROVE  FrontierInv' /\ NoStaleAssemble'
<1>1. /\ phase = "run" /\ phase' = phase
      /\ UNCHANGED <<existing_seqnos, last_known_seqno, expected_seqno>>
      /\ stage[s] \in FailStages /\ stage \in [Seqno -> Stage]
      /\ stage' = [stage EXCEPT ![s] = "idle"]
  BY DEF WorkerError, TypeOK
<1>2. stage[s] \in ToAssemble
  BY <1>1, PipelineAssumption DEF Stage, ToAssemble
<1>3. s >= expected_seqno
  BY <1>1, <1>2 DEF FrontierInv, ToAssemble
<1>4. \A i \in 1 .. Len(queued_seqnos') : queued_seqnos'[i] >= expected_seqno
  <2>1. queued_seqnos' = Append(queued_seqnos, s) /\ queued_seqnos \in Seq(Seqno)
    BY DEF WorkerError, reschedule_seqno, TypeOK
  <2>2. /\ Len(queued_seqnos) \in Nat /\ Len(queued_seqnos') = Len(queued_seqnos) + 1
        /\ \A i \in 1 .. Len(queued_seqnos) : queued_seqnos'[i] = queued_seqnos[i]
        /\ queued_seqnos'[Len(queued_seqnos) + 1] = s
    BY <2>1, AppendProperties, LenProperties
  <2>3. \A i \in 1 .. Len(queued_seqnos) : queued_seqnos[i] >= expected_seqno
    BY <1>1 DEF FrontierInv
  <2>4. \A i \in 1 .. Len(queued_seqnos') :
          i \in 1 .. Len(queued_seqnos) \/ i = Len(queued_seqnos) + 1
    BY <2>2
  <2> QED
    BY <1>3, <2>2, <2>3, <2>4
<1>5. \A t \in Seqno : stage'[t] \in ToAssemble => stage[t] \in ToAssemble
  BY <1>1 DEF ToAssemble
<1> QED
  BY <1>1, <1>4, <1>5 DEF FrontierInv, NoStaleAssemble, ToAssemble

\* Every step keeps what is still to be assembled at or above the frontier.
LEMMA FrontierNext ==
  ASSUME ~ ForceIndex, "interfaces" \notin FailStages, "actions" \notin FailStages
  PROVE  TypeOK /\ TypeOK' /\ BoundInv /\ DownInv /\ FrontierInv /\ NoStaleAssemble /\ [Next]_vars
           => FrontierInv' /\ NoStaleAssemble'
<1> SUFFICES ASSUME TypeOK, TypeOK', BoundInv, DownInv, FrontierInv, NoStaleAssemble, [Next]_vars
             PROVE  FrontierInv' /\ NoStaleAssemble'
  OBVIOUS
<1>1. CASE Start BY <1>1, FrontierStart
<1>2. CASE StartError \/ Crash
  BY <1>2 DEF StartError, Crash, FrontierInv, NoStaleAssemble
<1>3. CASE ChainGrows
  BY <1>3, FrontierUnchanged DEF ChainGrows, procVars, schedVars
<1>4. CASE Alarm \/ get_insert_queue_state \/ LastKnownSeqnoError
  BY <1>4, FrontierUnchanged DEF Alarm, get_insert_queue_state, LastKnownSeqnoError, schedVars
<1>5. CASE LastKnownSeqno BY <1>5, FrontierLastKnownSeqno
<1>6. CASE HandleMessage BY <1>6, FrontierHandleMessage
<1>7. CASE \E s \in Seqno : Work(s) \/ WorkerError(s)
  <2>1. PICK s \in Seqno : Work(s) \/ WorkerError(s)
    BY <1>7
  <2>2. ASSUME NEW from, NEW to, Moved(s, from, to),
               from \in ToAssemble \/ to \notin ToAssemble
        PROVE  FrontierInv' /\ NoStaleAssemble'
    BY <2>2, FrontierUnchanged DEF Moved, schedVars, TypeOK
  <2>3. CASE seqno_fetched(s)
    BY <2>2, <2>3 DEF seqno_fetched, ToAssemble
  <2>4. CASE seqno_interfaces_processed(s)
    BY <2>2, <2>4 DEF seqno_interfaces_processed, ToAssemble
  <2>5. CASE seqno_actions_processed(s)
    BY <2>2, <2>5 DEF seqno_actions_processed, ToAssemble
  <2> QED
    BY <2>1, <2>3, <2>4, <2>5, FrontierParsed, FrontierWorkerError DEF Work
<1>8. CASE InsertAlarm
  BY <1>8, FrontierUnchanged DEF InsertAlarm, schedVars
<1>9. CASE \E batch \in insert_actors : BatchInserted(batch)
  BY <1>9, FrontierUnchanged DEF BatchInserted, seqno_inserted
<1>10. CASE save_state \/ gc_states
  BY <1>10, FrontierUnchanged DEF save_state, gc_states, procVars, schedVars
<1>11. CASE UNCHANGED vars
  BY <1>11, FrontierUnchanged DEF vars, procVars, schedVars
<1> QED
  BY <1>1, <1>2, <1>3, <1>4, <1>5, <1>6, <1>7, <1>8, <1>9, <1>10, <1>11 DEF Next

\* Without --force, and when only fetching and parsing fail, the LOG(FATAL) of
\* TraceAssembler::assemble is never reached, across any number of restarts
\* from any readable state file.
THEOREM NeverStaleAssemble ==
  ASSUME ~ ForceIndex, "interfaces" \notin FailStages, "actions" \notin FailStages
  PROVE  Spec => []NoStaleAssemble
<1>1. Init => NoStaleAssemble
  BY DEF Init, NoStaleAssemble
<1> QED
  BY <1>1, TypeInit, TypeNext, BoundInit, BoundNext, DownStep, SafetyInit, FrontierNext, PTL
     DEF Spec
=============================================================================
