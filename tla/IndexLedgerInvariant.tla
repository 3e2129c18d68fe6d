----------------------- MODULE IndexLedgerInvariant ------------------------
(***************************************************************************)
(* The invariant IndexPipeline's implementation of IndexLedger rests on,   *)
(* for every value of the constants: the trace assembler passes wanted     *)
(* blocks in order, and what it has passed is in one place only.           *)
(***************************************************************************)
EXTENDS IndexPipelineLedger, IndexPipelineSafety

----------------------------------------------------------------------------
(* LedgerInv is inductive *)

LEMMA LedgerInit == Init => LedgerInv
<1> SUFFICES ASSUME Init PROVE LedgerInv
  OBVIOUS
<1>1. Len(<< >>) = 0
  BY EmptySeq
<1>2. /\ insert_queue = << >> /\ insert_actors = {} /\ queued_seqnos = << >>
      /\ db = {} /\ existing_seqnos = {} /\ phase = "down" /\ \A s \in Seqno : stage[s] = "idle"
  BY DEF Init, schedInit, imInit
<1>3. Elements(queued_seqnos) = {} /\ Elements(insert_queue) = {}
  BY <1>1, <1>2 DEF Elements
<1>4. Inserting = {} /\ Assembled = {}
  BY <1>2, <1>3 DEF Inserting, Assembled
<1> QED
  BY <1>1, <1>2, <1>3, <1>4 DEF LedgerInv, WantedInv, PassedInv, OnceInv, EmptyInv

\* A step of the scheduler and the workers that neither passes the assembler
\* nor reaches the insert manager.
LEMMA LedgerStages ==
  ASSUME LedgerInv, UNCHANGED <<phase, expected_seqno, existing_seqnos, db>>, UNCHANGED imVars,
         \A s \in Elements(queued_seqnos') : InRange(s),
         \A s \in Seqno : stage'[s] # "idle" => InRange(s),
         Assembled' \subseteq Assembled, Waiting' \subseteq Waiting
  PROVE  LedgerInv'
<1>1. Inserting' = Inserting
  BY DEF imVars, Inserting
<1> QED
  BY <1>1 DEF LedgerInv, WantedInv, PassedInv, OnceInv, EmptyInv, imVars

\* A step that leaves all of this alone.
LEMMA LedgerUnchanged ==
  ASSUME LedgerInv, UNCHANGED <<phase, expected_seqno, existing_seqnos, db, queued_seqnos, stage>>,
         UNCHANGED imVars
  PROVE  LedgerInv'
  BY LedgerStages DEF LedgerInv, WantedInv, Assembled, Waiting

LEMMA LedgerStartError == LedgerInv /\ StartError => LedgerInv'
<1> SUFFICES ASSUME LedgerInv, StartError PROVE LedgerInv'
  OBVIOUS
<1>1. /\ UNCHANGED <<expected_seqno, existing_seqnos, db, queued_seqnos, stage>>
      /\ UNCHANGED <<insert_queue, insert_actors>> /\ phase' = "unstarted"
  BY DEF StartError, procVars, schedVars, imVars
<1>2. Inserting' = Inserting /\ Assembled' = Assembled
  BY <1>1 DEF Inserting, Assembled
<1> QED
  BY <1>1, <1>2 DEF LedgerInv, WantedInv, PassedInv, OnceInv, EmptyInv

LEMMA LedgerCrash == LedgerInv /\ Crash => LedgerInv'
<1> SUFFICES ASSUME LedgerInv, Crash PROVE LedgerInv'
  OBVIOUS
<1>1. Len(<< >>) = 0
  BY EmptySeq
<1>2. /\ insert_queue' = << >> /\ insert_actors' = {} /\ queued_seqnos' = << >>
      /\ db' = db /\ existing_seqnos' = {} /\ phase' = "down"
      /\ \A s \in Seqno : stage'[s] = "idle"
  BY DEF Crash
<1>3. Elements(queued_seqnos') = {} /\ Elements(insert_queue') = {}
  BY <1>1, <1>2 DEF Elements
<1>4. Inserting' = {} /\ Assembled' = {}
  BY <1>2, <1>3 DEF Inserting, Assembled
<1> QED
  BY <1>1, <1>2, <1>3, <1>4 DEF LedgerInv, WantedInv, PassedInv, OnceInv, EmptyInv

\* A start chooses the seqno before its frontier, and takes as done what lies
\* below it.
LEMMA StartFacts ==
  ASSUME TypeOK, DownInv, LedgerInv, Start
  PROVE  /\ Inserting' = {} /\ Assembled' = {} /\ Waiting' = {}
         /\ UNCHANGED <<insert_queue, insert_actors, db, queued_seqnos, stage>>
         /\ phase' \in {"run", "spinning"}
         /\ \E next \in 0 .. SeqnoLimit :
              /\ IsNextSeqno(next, existing_db)
              /\ \E last \in RestoredState(next) :
                   /\ last \in Seqno
                   /\ phase' = "run" => last # SeqnoLimit - 1 /\ expected_seqno' = last + 1
                   /\ existing_seqnos' = MarkedExisting(last)
<1>1. /\ UNCHANGED <<insert_queue, insert_actors, db, queued_seqnos, stage>>
      /\ phase = "down" /\ phase' \in {"run", "spinning"}
  BY DEF Start, imVars
<1>2. Inserting' = {} /\ Assembled' = {} /\ Waiting' = {}
  BY <1>1 DEF DownInv, LedgerInv, EmptyInv, Inserting, Assembled, Waiting
<1>3. PICK next \in 0 .. SeqnoLimit :
        /\ IsNextSeqno(next, existing_db)
        /\ \E last \in RestoredState(next) :
             /\ phase' = IF LoopEnds(last) THEN "run" ELSE "spinning"
             /\ existing_seqnos' = MarkedExisting(last)
             /\ expected_seqno' = (last + 1) % SeqnoLimit
  BY DEF Start
<1>4. PICK last \in RestoredState(next) :
             /\ phase' = IF LoopEnds(last) THEN "run" ELSE "spinning"
             /\ existing_seqnos' = MarkedExisting(last)
             /\ expected_seqno' = (last + 1) % SeqnoLimit
  BY <1>3
<1>5. last \in Seqno
  <2>1. FallbackState(next) \in Seqno
    BY SchedulerAssumption DEF FallbackState, Before, Seqno
  <2> QED
    BY <1>4, <2>1 DEF RestoredState, TypeOK
<1>6. phase' = "run" => last # SeqnoLimit - 1 /\ expected_seqno' = last + 1
  BY <1>4, <1>5, SchedulerAssumption DEF LoopEnds, Seqno
<1> QED
  BY <1>1, <1>2, <1>3, <1>4, <1>5, <1>6

LEMMA LedgerStart == TypeOK /\ DownInv /\ LedgerInv /\ Start => LedgerInv'
<1> SUFFICES ASSUME TypeOK, DownInv, LedgerInv, Start PROVE LedgerInv'
  OBVIOUS
<1>1. /\ Inserting' = {} /\ Assembled' = {} /\ Waiting' = {}
      /\ UNCHANGED <<insert_queue, insert_actors, db, queued_seqnos, stage>>
      /\ phase' # "down"
  BY StartFacts
<1>2. phase' = "run" => \A s \in existing_seqnos' : s < expected_seqno'
  <2>1. PICK next \in 0 .. SeqnoLimit :
          \E last \in RestoredState(next) :
             /\ last \in Seqno
             /\ phase' = "run" => expected_seqno' = last + 1
             /\ existing_seqnos' = MarkedExisting(last)
    BY StartFacts
  <2>2. PICK last \in Seqno : /\ phase' = "run" => expected_seqno' = last + 1
                              /\ existing_seqnos' = MarkedExisting(last)
    BY <2>1
  <2> QED
    BY <2>2, SeqnoType DEF MarkedExisting
<1> QED
  BY <1>1, <1>2 DEF LedgerInv, WantedInv, PassedInv, OnceInv, EmptyInv

LEMMA LedgerLastKnownSeqno == TypeOK /\ LedgerInv /\ LastKnownSeqno => LedgerInv'
<1> SUFFICES ASSUME TypeOK, LedgerInv, LastKnownSeqno PROVE LedgerInv'
  OBVIOUS
<1>1. /\ UNCHANGED <<phase, expected_seqno, existing_seqnos, db, stage>> /\ UNCHANGED imVars
  BY DEF LastKnownSeqno
<1>2. \A s \in Elements(queued_seqnos') : InRange(s)
  <2>1. CASE queued_seqnos' = queued_seqnos
    BY <2>1 DEF LedgerInv, WantedInv
  <2>2. CASE \E new \in Seq(Seqno) : /\ queued_seqnos' = queued_seqnos \o new
                                      /\ \A i \in 1 .. Len(new) : NeedsWork(new[i])
    <3>1. PICK new \in Seq(Seqno) : /\ queued_seqnos' = queued_seqnos \o new
                                    /\ \A i \in 1 .. Len(new) : NeedsWork(new[i])
      BY <2>2
    <3>2. queued_seqnos \in Seq(Seqno)
      BY DEF TypeOK
    <3> DEFINE k == Len(queued_seqnos)
               l == Len(new)
    <3>3. /\ k \in Nat /\ l \in Nat /\ Len(queued_seqnos') = k + l
          /\ \A i \in 1 .. k + l :
               queued_seqnos'[i] = IF i <= k THEN queued_seqnos[i] ELSE new[i - k]
      BY <3>1, <3>2, LenProperties, ConcatProperties
    <3>4. \A i \in 1 .. k : InRange(queued_seqnos[i])
      BY DEF LedgerInv, WantedInv, Elements
    <3>5. \A i \in 1 .. l : InRange(new[i])
      BY <3>1 DEF NeedsWork
    <3> HIDE DEF k, l
    <3>6. ASSUME NEW i \in 1 .. k + l PROVE InRange(queued_seqnos'[i])
      <4>1. CASE i <= k
        BY <3>3, <3>4, <4>1
      <4>2. CASE ~ (i <= k)
        <5>1. i - k \in 1 .. l
          BY <3>3, <4>2
        <5> QED
          BY <3>3, <3>5, <4>2, <5>1
      <4> QED
        BY <4>1, <4>2
    <3> QED
      BY <3>3, <3>6 DEF Elements
  <2> QED
    BY <2>1, <2>2, SeqnosLearnt
<1>3. /\ \A s \in Seqno : stage'[s] # "idle" => InRange(s)
      /\ Assembled' \subseteq Assembled /\ Waiting' \subseteq Waiting
  BY <1>1 DEF LedgerInv, WantedInv, Assembled, Waiting
<1> QED
  BY <1>1, <1>2, <1>3, LedgerStages

LEMMA LedgerHandleMessage == TypeOK /\ LedgerInv /\ HandleMessage => LedgerInv'
<1> SUFFICES ASSUME TypeOK, LedgerInv, HandleMessage PROVE LedgerInv'
  OBVIOUS
<1> DEFINE m == Head(mailbox)
           p == IF m.type = "queued" THEN processing_seqnos \ {m.seqno} ELSE processing_seqnos
           st == IF m.type = "queued" THEN [stage EXCEPT ![m.seqno] = "idle"] ELSE stage
<1>1. p \in SUBSET Seqno /\ got_insert_queue_state(m.status, p, st)
  BY MessageHandled
<1>2. UNCHANGED <<phase, expected_seqno, existing_seqnos, db>> /\ UNCHANGED imVars
  BY DEF HandleMessage
<1>3. \A s \in Seqno : st[s] # "idle" => st[s] = stage[s]
  BY DEF TypeOK
<1> HIDE DEF m, p, st
<1>4. CASE ~ Fits(m.status, MaxQueue)
  <2>1. stage' = st /\ queued_seqnos' = queued_seqnos
    BY <1>1, <1>4 DEF got_insert_queue_state
  <2>2. \A s \in Elements(queued_seqnos') : InRange(s)
    BY <2>1 DEF LedgerInv, WantedInv
  <2>3. \A s \in Seqno : stage'[s] # "idle" => InRange(s)
    BY <1>3, <2>1 DEF LedgerInv, WantedInv
  <2>4. Assembled' \subseteq Assembled /\ Waiting' \subseteq Waiting
    BY <1>3, <2>1 DEF Assembled, Waiting
  <2> QED
    BY <1>2, <2>2, <2>3, <2>4, LedgerStages
<1>5. CASE Fits(m.status, MaxQueue)
  <2>1. PICK n \in 0 .. Len(queued_seqnos) :
          /\ schedule_next_seqnos(n, p)
          /\ stage' = [s \in Seqno |-> IF \E i \in 1 .. n : queued_seqnos[i] = s
                                       THEN "fetch" ELSE st[s]]
    BY <1>1, <1>5 DEF got_insert_queue_state
  <2>2. /\ Len(queued_seqnos') = Len(queued_seqnos) - n
        /\ \A i \in 1 .. Len(queued_seqnos) - n : queued_seqnos'[i] = queued_seqnos[n + i]
    BY <1>1, <2>1, SeqnosScheduled
  <2>3. queued_seqnos \in Seq(Seqno)
    BY DEF TypeOK
  <2>4. Elements(queued_seqnos)
          = {queued_seqnos[i] : i \in 1 .. n} \cup Elements(queued_seqnos')
    BY <2>2, <2>3, ElementsCut
  <2>5. \A s \in Elements(queued_seqnos') : InRange(s)
    BY <2>4 DEF LedgerInv, WantedInv
  <2>6. \A i \in 1 .. n : InRange(queued_seqnos[i])
    BY <2>4 DEF LedgerInv, WantedInv
  <2>7. \A s \in Seqno : st[s] # "idle" => InRange(s)
    BY <1>3 DEF LedgerInv, WantedInv
  <2>8. \A s \in Seqno : stage'[s] # "idle" => InRange(s)
    BY <2>1, <2>6, <2>7
  <2>9. Assembled' \subseteq Assembled /\ Waiting' \subseteq Waiting
    BY <1>3, <2>1 DEF Assembled, Waiting
  <2> QED
    BY <1>2, <2>5, <2>8, <2>9, LedgerStages
<1> QED
  BY <1>4, <1>5

LEMMA LedgerWorkerError ==
  ASSUME TypeOK, LedgerInv, NEW s \in Seqno, WorkerError(s)
  PROVE  LedgerInv'
<1>1. /\ UNCHANGED <<phase, expected_seqno, existing_seqnos, db>> /\ UNCHANGED imVars
      /\ stage[s] \in FailStages /\ stage' = [stage EXCEPT ![s] = "idle"]
      /\ queued_seqnos' = Append(queued_seqnos, s)
      /\ stage \in [Seqno -> Stage] /\ queued_seqnos \in Seq(Seqno)
  BY DEF WorkerError, reschedule_seqno, TypeOK
<1>2. stage[s] # "idle"
  BY <1>1, PipelineAssumption
<1>3. Elements(queued_seqnos') = Elements(queued_seqnos) \cup {s}
  BY <1>1, ElementsAppend
<1>4. \A t \in Elements(queued_seqnos') : InRange(t)
  BY <1>2, <1>3 DEF LedgerInv, WantedInv
<1>5. \A t \in Seqno : stage'[t] # "idle" => InRange(t)
  BY <1>1 DEF LedgerInv, WantedInv
<1>6. Assembled' \subseteq Assembled /\ Waiting' \subseteq Waiting
  BY <1>1 DEF Assembled, Waiting
<1> QED
  BY <1>1, <1>4, <1>5, <1>6, LedgerStages

\* What the assembler does with a block that is not behind it: the frontier
\* moves over some blocks in order, and they are the ones that leave it.
LEMMA ParsedFacts ==
  ASSUME TypeOK, LedgerInv, NEW s \in Seqno, seqno_parsed(s), ~ (s < expected_seqno)
  PROVE  /\ expected_seqno \in Nat /\ expected_seqno' \in Nat
         /\ expected_seqno <= expected_seqno'
         /\ phase = "run" /\ phase' = phase
         /\ expected_seqno .. expected_seqno' - 1 \subseteq Seqno
         /\ Assembled' = Assembled \cup (expected_seqno .. expected_seqno' - 1)
         /\ \A t \in Waiting' : t >= expected_seqno'
         /\ \A t \in Seqno : stage'[t] # "idle" => stage[t] # "idle"
<1>1. phase = "run" /\ stage[s] = "parse" /\ stage \in [Seqno -> Stage]
  BY DEF seqno_parsed, TypeOK
<1>2. expected_seqno \in Nat /\ SeqnoLimit \in Nat /\ Seqno \subseteq Nat
  BY SeqnoType DEF TypeOK
<1>3. PICK e \in expected_seqno .. SeqnoLimit :
        /\ \A t \in expected_seqno .. e - 1 : t \in Waiting \cup {s}
        /\ expected_seqno' = e
        /\ stage' = [t \in Seqno |-> IF t \notin Waiting \cup {s} THEN stage[t]
                                     ELSE IF t < e THEN "interfaces" ELSE "assembling"]
        /\ phase' = phase
  BY DEF seqno_parsed
<1>4. e \in Nat /\ expected_seqno <= e
  BY <1>2, <1>3
<1>5. Waiting \subseteq Seqno /\ \A t \in Waiting \cup {s} : t >= expected_seqno
  BY <1>1, <1>2 DEF LedgerInv, PassedInv, Waiting
<1>6. expected_seqno .. e - 1 \subseteq Seqno
  BY <1>3, <1>5
<1>7. \A t \in Waiting \cup {s} : t < e <=> t \in expected_seqno .. e - 1
  BY <1>2, <1>4, <1>5
<1>8. \A t \in Waiting \cup {s} : stage[t] \notin {"idle", "interfaces", "actions"}
  BY <1>1 DEF Waiting
<1>9. ASSUME NEW t \in Seqno
      PROVE  stage'[t] \in {"interfaces", "actions"}
               <=> stage[t] \in {"interfaces", "actions"} \/ t \in expected_seqno .. e - 1
  <2>1. CASE t \in Waiting \cup {s}
    BY <1>3, <1>7, <1>8, <2>1
  <2>2. CASE t \notin Waiting \cup {s}
    BY <1>3, <2>2
  <2> QED
    BY <2>1, <2>2
<1>10. Assembled' = Assembled \cup (expected_seqno .. e - 1)
  BY <1>6, <1>9 DEF Assembled
<1>11. ASSUME NEW t \in Seqno, stage'[t] = "assembling" PROVE t >= e
  <2>1. t \in Waiting \cup {s}
    BY <1>3, <1>11 DEF Waiting
  <2> QED
    BY <1>2, <1>3, <1>4, <1>11, <2>1
<1>12. \A t \in Waiting' : t >= e
  BY <1>11 DEF Waiting
<1>13. \A t \in Seqno : stage'[t] # "idle" => stage[t] # "idle"
  BY <1>3, <1>8
<1> QED
  BY <1>1, <1>2, <1>3, <1>4, <1>6, <1>10, <1>12, <1>13

LEMMA Between ==
  ASSUME NEW a \in Nat, NEW b \in Nat
  PROVE  \A t \in a .. b - 1 : t \in Nat /\ ~ (t < a) /\ t < b
  OBVIOUS

LEMMA LedgerParsed ==
  ASSUME TypeOK, LedgerInv, NEW s \in Seqno, seqno_parsed(s)
  PROVE  LedgerInv'
<1>1. /\ UNCHANGED <<queued_seqnos, existing_seqnos, db, insert_queue, insert_actors>>
      /\ phase = "run" /\ Inserting' = Inserting
  BY DEF seqno_parsed, schedVars, imVars, Inserting
<1>2. CASE s < expected_seqno
  <2>1. phase' = "aborted" /\ UNCHANGED <<stage, expected_seqno>>
    BY <1>2 DEF seqno_parsed
  <2>2. Assembled' = Assembled
    BY <2>1 DEF Assembled
  <2> QED
    BY <1>1, <2>1, <2>2 DEF LedgerInv, WantedInv, PassedInv, OnceInv, EmptyInv
<1>3. CASE ~ (s < expected_seqno)
  <2> DEFINE taken == expected_seqno .. expected_seqno' - 1
  <2>1. /\ expected_seqno \in Nat /\ expected_seqno' \in Nat
        /\ expected_seqno <= expected_seqno' /\ phase' = "run"
        /\ Assembled' = Assembled \cup taken
        /\ \A t \in Waiting' : t >= expected_seqno'
        /\ \A t \in Seqno : stage'[t] # "idle" => stage[t] # "idle"
    BY <1>3, ParsedFacts
  <2>2. \A t \in taken : t \in Nat /\ ~ (t < expected_seqno) /\ t < expected_seqno'
    <3>1. expected_seqno \in Nat /\ expected_seqno' \in Nat
      BY <2>1
    <3> QED
      BY <3>1, Between
  <2>3. /\ Assembled \subseteq Nat /\ Inserting \subseteq Nat /\ existing_seqnos \subseteq Nat
    <3>1. insert_queue \in Seq(Seqno)
      BY DEF TypeOK
    <3>2. \A i \in 1 .. Len(insert_queue) : insert_queue[i] \in Seqno
      BY <3>1, ElementOfSeq
    <3>3. Elements(insert_queue) \subseteq Seqno
      BY <3>2 DEF Elements
    <3>4. Inserting \subseteq Seqno
      BY <3>3 DEF Inserting, TypeOK
    <3>5. Assembled \subseteq Seqno /\ existing_seqnos \subseteq Seqno
      BY DEF Assembled, TypeOK
    <3> QED
      BY <3>4, <3>5, SeqnoType
  <2> HIDE DEF taken
  <2>4. \A t \in Assembled \cup Inserting \cup existing_seqnos : t < expected_seqno
    BY <1>1 DEF LedgerInv, PassedInv
  <2>5. WantedInv'
    BY <1>1, <2>1 DEF LedgerInv, WantedInv
  <2>6. PassedInv'
    BY <1>1, <2>1, <2>2, <2>3, <2>4 DEF PassedInv
  <2>7. taken \cap (Inserting \cup existing_seqnos) = {}
    BY <2>2, <2>4, Zenon
  <2>8. OnceInv'
    BY <1>1, <2>1, <2>7 DEF LedgerInv, OnceInv
  <2> QED
    BY <2>1, <2>5, <2>6, <2>8 DEF LedgerInv, EmptyInv
<1> QED
  BY <1>2, <1>3

LEMMA LedgerActionsProcessed ==
  ASSUME TypeOK, LedgerInv, NEW s \in Seqno, seqno_actions_processed(s)
  PROVE  LedgerInv' /\ Assembled' \cup Inserting' = Assembled \cup Inserting
<1>1. /\ UNCHANGED <<queued_seqnos, existing_seqnos, db, insert_actors, phase, expected_seqno>>
      /\ phase = "run" /\ stage[s] = "actions" /\ stage' = [stage EXCEPT ![s] = "queued"]
      /\ insert_queue' = Append(insert_queue, s)
      /\ stage \in [Seqno -> Stage] /\ insert_queue \in Seq(Seqno)
  BY DEF seqno_actions_processed, Moved, insert, schedVars, TypeOK
<1>2. Elements(insert_queue') = Elements(insert_queue) \cup {s}
  BY <1>1, ElementsAppend
<1>3. Inserting' = Inserting \cup {s}
  BY <1>1, <1>2 DEF Inserting
<1>4. Assembled' = Assembled \ {s} /\ s \in Assembled /\ Waiting' = Waiting
  BY <1>1 DEF Assembled, Waiting
<1>5. s \notin Inserting /\ s \notin existing_seqnos
  BY <1>4 DEF LedgerInv, OnceInv
<1>6. WantedInv'
  BY <1>1, <1>3 DEF LedgerInv, WantedInv
<1>7. PassedInv'
  BY <1>1, <1>3, <1>4 DEF LedgerInv, PassedInv
<1>8. \A i, j \in 1 .. Len(insert_queue') : insert_queue'[i] = insert_queue'[j] => i = j
  <2>1. /\ Len(insert_queue) \in Nat /\ Len(insert_queue') = Len(insert_queue) + 1
        /\ \A i \in 1 .. Len(insert_queue) : insert_queue'[i] = insert_queue[i]
        /\ insert_queue'[Len(insert_queue) + 1] = s
    BY <1>1, Appended
  <2>2. \A i \in 1 .. Len(insert_queue) : insert_queue[i] # s
    BY <1>5 DEF Inserting, Elements
  <2>3. \A i \in 1 .. Len(insert_queue') : i \in 1 .. Len(insert_queue) \/ i = Len(insert_queue) + 1
    BY <2>1
  <2>4. \A i, j \in 1 .. Len(insert_queue) : insert_queue[i] = insert_queue[j] => i = j
    BY DEF LedgerInv, OnceInv
  <2> QED
    BY <2>1, <2>2, <2>3, <2>4
<1>9. \A b \in insert_actors' : b \cap Elements(insert_queue') = {}
  <2>1. \A b \in insert_actors : s \notin b
    BY <1>5 DEF Inserting
  <2> QED
    BY <1>1, <1>2, <2>1 DEF LedgerInv, OnceInv
<1>10. OnceInv'
  BY <1>1, <1>3, <1>4, <1>5, <1>8, <1>9 DEF LedgerInv, OnceInv
<1> QED
  BY <1>1, <1>3, <1>4, <1>6, <1>7, <1>10 DEF LedgerInv, EmptyInv

\* Cutting batches from a queue without repetitions gives disjoint batches.
LEMMA BatchesDisjoint ==
  ASSUME TypeOK, OnceInv, NEW p \in Int, NEW actors \in SUBSET insert_actors, NEW full,
         schedule_next_insert_batches(p, actors, full)
  PROVE  /\ \A i, j \in 1 .. Len(insert_queue') : insert_queue'[i] = insert_queue'[j] => i = j
         /\ \A b \in insert_actors' : b \cap Elements(insert_queue') = {}
         /\ \A b, c \in insert_actors' : b # c => b \cap c = {}
<1>0. PICK n \in 0 .. Len(insert_queue) :
      \E number \in [1 .. n -> 1 .. MaxParallelInsertActors - p] :
        /\ insert_queue' = SubSeq(insert_queue, n + 1, Len(insert_queue))
        /\ insert_actors' = actors \cup
             {{insert_queue[i] : i \in {j \in 1 .. n : number[j] = number[k]}} : k \in 1 .. n}
  BY DEF schedule_next_insert_batches
<1>1. PICK number \in [1 .. n -> 1 .. MaxParallelInsertActors - p] :
        /\ insert_queue' = SubSeq(insert_queue, n + 1, Len(insert_queue))
        /\ insert_actors' = actors \cup
             {{insert_queue[i] : i \in {j \in 1 .. n : number[j] = number[k]}} : k \in 1 .. n}
  BY <1>0
<1>2. insert_queue \in Seq(Seqno) /\ Len(insert_queue) \in Nat
  BY LenProperties DEF TypeOK
<1>3. /\ Len(insert_queue') = Len(insert_queue) - n
      /\ \A i \in 1 .. Len(insert_queue) - n : insert_queue'[i] = insert_queue[n + i]
  <2>1. \A i \in n + 1 .. Len(insert_queue) : insert_queue[i] \in Seqno
    BY <1>2, ElementOfSeq
  <2>2. /\ Len(insert_queue') = IF n + 1 <= Len(insert_queue)
                                THEN Len(insert_queue) - (n + 1) + 1 ELSE 0
        /\ \A i \in 1 .. Len(insert_queue) - (n + 1) + 1 :
             insert_queue'[i] = insert_queue[n + 1 + i - 1]
    BY <1>1, <1>2, <2>1, SubSeqProperties
  <2> QED
    BY <1>2, <2>2
<1>4. /\ \A i, j \in 1 .. Len(insert_queue) : insert_queue[i] = insert_queue[j] => i = j
      /\ \A b \in actors : b \cap Elements(insert_queue) = {}
      /\ \A b, c \in actors : b # c => b \cap c = {}
  BY DEF OnceInv
<1>5. \A i, j \in 1 .. Len(insert_queue') : insert_queue'[i] = insert_queue'[j] => i = j
  <2>1. \A i \in 1 .. Len(insert_queue) - n : n + i \in 1 .. Len(insert_queue)
    BY <1>2
  <2>2. \A i, j \in 1 .. Len(insert_queue) - n : n + i = n + j => i = j
    BY <1>2
  <2>3. \A i, j \in 1 .. Len(insert_queue) - n :
          insert_queue[n + i] = insert_queue[n + j] => n + i = n + j
    BY <1>4, <2>1
  <2> QED
    BY <1>3, <2>2, <2>3
<1> DEFINE batch(k) == {insert_queue[i] : i \in {j \in 1 .. n : number[j] = number[k]}}
<1>6. /\ insert_actors' = actors \cup {batch(k) : k \in 1 .. n}
      /\ \A k \in 1 .. n : \A x \in batch(k) :
           \E i \in 1 .. n : number[i] = number[k] /\ insert_queue[i] = x
      /\ \A k, l \in 1 .. n : number[k] = number[l] => batch(k) = batch(l)
  BY <1>1
<1>7. 1 .. n \subseteq 1 .. Len(insert_queue)
  BY <1>2
<1>8. \A k \in 1 .. n : batch(k) \subseteq Elements(insert_queue)
  BY <1>6, <1>7 DEF Elements
<1>9. \A x \in Elements(insert_queue') :
        /\ x \in Elements(insert_queue)
        /\ \A i \in 1 .. n : insert_queue[i] # x
  <2>1. \A i \in 1 .. Len(insert_queue) - n :
          n + i \in 1 .. Len(insert_queue) /\ n + i \notin 1 .. n
    BY <1>2
  <2>2. \A i \in 1 .. Len(insert_queue) - n :
          /\ insert_queue[n + i] \in Elements(insert_queue)
          /\ \A j \in 1 .. n : insert_queue[j] # insert_queue[n + i]
    BY <1>4, <1>7, <2>1 DEF Elements
  <2>3. \A x \in Elements(insert_queue') :
          \E i \in 1 .. Len(insert_queue) - n : x = insert_queue[n + i]
    BY <1>3 DEF Elements
  <2> QED
    BY <2>2, <2>3
<1> HIDE DEF batch
<1>10. ASSUME NEW k \in 1 .. n, NEW l \in 1 .. n, batch(k) # batch(l)
       PROVE  batch(k) \cap batch(l) = {}
  <2>1. number[k] # number[l]
    BY <1>6, <1>10
  <2> SUFFICES ASSUME NEW x, x \in batch(k), x \in batch(l) PROVE FALSE
    OBVIOUS
  <2>2. PICK i \in 1 .. n : number[i] = number[k] /\ insert_queue[i] = x
    BY <1>6
  <2>3. PICK j \in 1 .. n : number[j] = number[l] /\ insert_queue[j] = x
    BY <1>6
  <2>4. i = j
    BY <1>4, <1>7, <2>2, <2>3
  <2> QED
    BY <2>1, <2>2, <2>3, <2>4
<1>11. \A k \in 1 .. n : batch(k) \cap Elements(insert_queue') = {}
  BY <1>6, <1>9
<1>12. \A b \in actors : b \cap Elements(insert_queue') = {}
  BY <1>4, <1>9
<1>13. \A b \in actors : \A k \in 1 .. n : b \cap batch(k) = {}
  BY <1>4, <1>8
<1>14. \A b \in insert_actors' : b \cap Elements(insert_queue') = {}
  BY <1>6, <1>11, <1>12
<1>15. \A b, c \in insert_actors' : b # c => b \cap c = {}
  BY <1>4, <1>6, <1>10, <1>13
<1> QED
  BY <1>5, <1>14, <1>15

LEMMA LedgerInsertAlarm ==
  TypeOK /\ LedgerInv /\ InsertAlarm => LedgerInv' /\ Inserting' = Inserting
<1> SUFFICES ASSUME TypeOK, LedgerInv, InsertAlarm PROVE LedgerInv' /\ Inserting' = Inserting
  OBVIOUS
<1>1. /\ UNCHANGED <<queued_seqnos, existing_seqnos, stage, phase, expected_seqno, db>>
      /\ schedule_next_insert_batches(parallel_insert_actors, insert_actors, FALSE)
  BY DEF InsertAlarm, imAlarm, schedVars
<1>2. /\ parallel_insert_actors \in Int /\ insert_actors \in SUBSET (SUBSET Seqno)
      /\ insert_actors \in SUBSET insert_actors
  BY DEF TypeOK
<1>3. Inserting' = Inserting
  BY <1>1, <1>2, InsertingKept DEF Inserting
<1>4. Assembled' = Assembled /\ Waiting' = Waiting
  BY <1>1 DEF Assembled, Waiting
<1>5. OnceInv
  BY DEF LedgerInv
<1>6. /\ \A i, j \in 1 .. Len(insert_queue') : insert_queue'[i] = insert_queue'[j] => i = j
      /\ \A b \in insert_actors' : b \cap Elements(insert_queue') = {}
      /\ \A b, c \in insert_actors' : b # c => b \cap c = {}
  BY <1>1, <1>2, <1>5, BatchesDisjoint
<1>7. OnceInv'
  BY <1>1, <1>3, <1>4, <1>5, <1>6 DEF OnceInv
<1> QED
  BY <1>1, <1>3, <1>4, <1>7 DEF LedgerInv, WantedInv, PassedInv, EmptyInv

LEMMA LedgerBatchInserted ==
  ASSUME TypeOK, LedgerInv, NEW batch \in insert_actors, BatchInserted(batch)
  PROVE  LedgerInv' /\ Inserting' = Inserting \ batch
<1> DEFINE p == parallel_insert_actors - 1
           actors == insert_actors \ {batch}
<1>1. /\ UNCHANGED <<queued_seqnos, stage, phase, expected_seqno>>
      /\ phase = "run" /\ db' = db \cup batch
      /\ existing_seqnos' = existing_seqnos \cup batch
      /\ schedule_next_insert_batches(p, actors, TRUE)
  BY DEF BatchInserted, insert_batch_finished, seqno_inserted
<1>2. p \in Int /\ actors \in SUBSET (SUBSET Seqno) /\ actors \in SUBSET insert_actors
  BY DEF TypeOK
<1>3. UNION insert_actors = (UNION actors) \cup batch
  OBVIOUS
<1>4. OnceInv
  BY DEF LedgerInv
<1>5. batch \cap UNION actors = {}
  BY <1>4 DEF OnceInv
<1> HIDE DEF p, actors
<1>6. Inserting' = Elements(insert_queue) \cup UNION actors
  BY <1>1, <1>2, InsertingKept
<1>7. batch \cap Elements(insert_queue) = {}
  BY <1>4 DEF OnceInv
<1>8. Inserting' = Inserting \ batch /\ batch \subseteq Inserting
  BY <1>3, <1>5, <1>6, <1>7 DEF Inserting
<1>9. Assembled' = Assembled /\ Waiting' = Waiting
  BY <1>1 DEF Assembled, Waiting
<1>10. /\ \A i, j \in 1 .. Len(insert_queue') : insert_queue'[i] = insert_queue'[j] => i = j
       /\ \A b \in insert_actors' : b \cap Elements(insert_queue') = {}
       /\ \A b, c \in insert_actors' : b # c => b \cap c = {}
  BY <1>1, <1>2, <1>4, BatchesDisjoint
<1>11. OnceInv'
  BY <1>1, <1>4, <1>8, <1>9, <1>10 DEF OnceInv
<1>12. WantedInv' /\ PassedInv' /\ EmptyInv'
  BY <1>1, <1>8, <1>9 DEF LedgerInv, WantedInv, PassedInv, EmptyInv
<1> QED
  BY <1>8, <1>11, <1>12 DEF LedgerInv

\* A hand-over between two workers on the same side of the assembler.
LEMMA LedgerMoved ==
  ASSUME TypeOK, LedgerInv, NEW s \in Seqno, seqno_fetched(s) \/ seqno_interfaces_processed(s)
  PROVE  LedgerInv' /\ Assembled' = Assembled
<1>1. /\ UNCHANGED <<phase, expected_seqno, existing_seqnos, db, queued_seqnos>>
      /\ UNCHANGED imVars /\ stage \in [Seqno -> Stage]
  BY DEF seqno_fetched, seqno_interfaces_processed, Moved, schedVars, TypeOK
<1>2. \/ stage[s] = "fetch" /\ stage' = [stage EXCEPT ![s] = "parse"]
      \/ stage[s] = "interfaces" /\ stage' = [stage EXCEPT ![s] = "actions"]
  BY DEF seqno_fetched, seqno_interfaces_processed, Moved
<1>3. Assembled' = Assembled /\ Waiting' = Waiting
  BY <1>1, <1>2 DEF Assembled, Waiting
<1>4. \A t \in Seqno : stage'[t] # "idle" => stage[t] # "idle"
  BY <1>1, <1>2
<1>5. /\ \A t \in Seqno : stage'[t] # "idle" => InRange(t)
      /\ \A t \in Elements(queued_seqnos') : InRange(t)
  BY <1>1, <1>4 DEF LedgerInv, WantedInv
<1> QED
  BY <1>1, <1>3, <1>5, LedgerStages

\* Every step keeps the assembler's passing of blocks orderly and single.
LEMMA LedgerNext == TypeOK /\ DownInv /\ LedgerInv /\ [Next]_vars => LedgerInv'
<1> SUFFICES ASSUME TypeOK, DownInv, LedgerInv, [Next]_vars PROVE LedgerInv'
  OBVIOUS
<1>1. CASE Start BY <1>1, LedgerStart
<1>2. CASE StartError BY <1>2, LedgerStartError
<1>3. CASE Crash BY <1>3, LedgerCrash
<1>4. CASE ChainGrows
  BY <1>4, LedgerUnchanged DEF ChainGrows, procVars, schedVars
<1>5. CASE Alarm \/ get_insert_queue_state \/ LastKnownSeqnoError
  BY <1>5, LedgerUnchanged DEF Alarm, get_insert_queue_state, LastKnownSeqnoError, schedVars
<1>6. CASE LastKnownSeqno BY <1>6, LedgerLastKnownSeqno
<1>7. CASE HandleMessage BY <1>7, LedgerHandleMessage
<1>8. CASE \E s \in Seqno : Work(s) \/ WorkerError(s)
  BY <1>8, LedgerMoved, LedgerParsed, LedgerActionsProcessed, LedgerWorkerError DEF Work
<1>9. CASE InsertAlarm BY <1>9, LedgerInsertAlarm
<1>10. CASE \E batch \in insert_actors : BatchInserted(batch)
  BY <1>10, LedgerBatchInserted
<1>11. CASE save_state \/ gc_states
  BY <1>11, LedgerUnchanged DEF save_state, gc_states, procVars, schedVars
<1>12. CASE UNCHANGED vars
  BY <1>12, LedgerUnchanged DEF vars, procVars, schedVars
<1> QED
  BY <1>1, <1>2, <1>3, <1>4, <1>5, <1>6, <1>7, <1>8, <1>9, <1>10, <1>11, <1>12 DEF Next

\* LedgerInv holds in every state, whatever fails and however often the process
\* restarts.
THEOREM LedgerInvariant == Spec => []LedgerInv
  BY TypeInit, TypeNext, SafetyInit, DownStep, LedgerInit, LedgerNext, PTL DEF Spec
=============================================================================
