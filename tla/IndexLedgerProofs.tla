------------------------- MODULE IndexLedgerProofs -------------------------
(***************************************************************************)
(* When only the start, fetching and parsing report errors, IndexPipeline  *)
(* implements IndexLedger and, without --force, holds no block in two      *)
(* places: for every value of the constants, and any number of crashes.    *)
(***************************************************************************)
EXTENDS IndexLedgerInvariant

----------------------------------------------------------------------------
(* The implementation of IndexLedger *)

\* What is pending for the ledger.
Pending == IF phase = "run" THEN Assembled \cup Inserting ELSE {}
Frontier == IF phase = "run" THEN expected_seqno ELSE 0

LEMMA InitMaps == Init => Ledger!Init
  BY DEF Init, Ledger!Init, Running

\* A step the ledger does not see.
LEMMA Stutters ==
  ASSUME UNCHANGED <<Running, Frontier, Pending, db>>
  PROVE  UNCHANGED Ledger!ledgerVars
  BY DEF Ledger!ledgerVars, Frontier, Pending

\* A start leaves no hole between the lowest stored block and its frontier.
LEMMA StartMaps ==
  ASSUME TypeOK, DownInv, LedgerInv, Start
  PROVE  [Ledger!Next]_(Ledger!ledgerVars)
<1>1. /\ Inserting' = {} /\ Assembled' = {} /\ db' = db
      /\ phase' \in {"run", "spinning"} /\ phase = "down"
  BY StartFacts DEF Start
<1>2. CASE phase' # "run"
  <2>1. UNCHANGED <<Running, Frontier, Pending, db>>
    BY <1>1, <1>2 DEF Running, Frontier, Pending
  <2> QED
    BY <2>1, Stutters
<1>3. CASE phase' = "run"
  <2>1. PICK next \in 0 .. SeqnoLimit :
          /\ IsNextSeqno(next, existing_db)
          /\ \E last \in RestoredState(next) :
               last \in Seqno /\ last # SeqnoLimit - 1 /\ expected_seqno' = last + 1
    BY <1>3, StartFacts
  <2>2. PICK last \in RestoredState(next) :
          last \in Seqno /\ last # SeqnoLimit - 1 /\ expected_seqno' = last + 1
    BY <2>1
  <2>3. last \in Nat /\ next \in Nat /\ SeqnoLimit \in Nat /\ db \subseteq Nat
    BY <2>2, SeqnoType DEF TypeOK
  <2>4. existing_db = db
    BY DEF existing_db, LedgerInv, WantedInv
  <2>5. ASSUME NEW s \in 0 .. expected_seqno' - 1, NEW low \in db, low <= s
        PROVE  s \in db
    <3>1. PICK lowest \in db : /\ \A t \in db : lowest <= t
                               /\ next > lowest
                               /\ \A t \in lowest .. next - 1 : t \in db
      BY <2>1, <2>4 DEF IsNextSeqno
    <3>2. lowest <= s /\ s <= last /\ s \in Nat /\ lowest \in Nat
      BY <2>2, <2>3, <2>5, <3>1
    <3>3. last <= next - 1
      <4>1. next - 1 \in Nat /\ next - 1 < SeqnoLimit
        BY <2>3, <3>1, <3>2
      <4>2. Before(next) = next - 1
        BY <2>3, <4>1 DEF Before
      <4>3. CASE last \in tastates /\ last <= Before(next)
        BY <4>2, <4>3
      <4>4. CASE last = FallbackState(next)
        <5> DEFINE x == IF next > From
                        THEN (IF From >= next - LookBack THEN From ELSE next - LookBack)
                        ELSE next
        <5>1. x \in Nat /\ x <= next /\ last = (x - 1) % SeqnoLimit
          BY <2>3, <4>4, SchedulerAssumption DEF FallbackState, Before
        <5>2. (0 - 1) % SeqnoLimit = SeqnoLimit - 1
          BY SchedulerAssumption
        <5>3. x # 0
          BY <2>2, <5>1, <5>2
        <5> HIDE DEF x
        <5>4. x - 1 \in 0 .. SeqnoLimit - 1
          BY <2>3, <5>1, <5>3
        <5>5. (x - 1) % SeqnoLimit = x - 1
          BY <2>3, <5>4
        <5> QED
          BY <5>1, <5>5, <2>3
      <4> QED
        BY <2>2, <4>3, <4>4 DEF RestoredState
    <3>4. s \in lowest .. next - 1
      BY <2>3, <3>2, <3>3
    <3> QED
      BY <3>1, <3>4
  <2>6. expected_seqno' \in Nat
    BY <2>2, <2>3
  <2>7. Ledger!Open
    BY <1>1, <1>3, <2>5, <2>6 DEF Ledger!Open, Running
  <2> QED
    BY <2>7 DEF Ledger!Next
<1> QED
  BY <1>2, <1>3

LEMMA ParsedMaps ==
  ASSUME TypeOK, LedgerInv, NEW s \in Seqno, seqno_parsed(s)
  PROVE  [Ledger!Next]_(Ledger!ledgerVars)
<1>1. UNCHANGED db /\ phase = "run" /\ Inserting' = Inserting
  BY DEF seqno_parsed, imVars, Inserting
<1>2. CASE s < expected_seqno
  <2>1. phase' = "aborted"
    BY <1>2 DEF seqno_parsed
  <2>2. Ledger!Close
    BY <1>1, <2>1 DEF Ledger!Close, Running
  <2> QED
    BY <2>2 DEF Ledger!Next
<1>3. CASE ~ (s < expected_seqno)
  <2>1. /\ expected_seqno \in Nat /\ expected_seqno' \in Nat
        /\ expected_seqno <= expected_seqno' /\ phase' = "run"
        /\ Assembled' = Assembled \cup (expected_seqno .. expected_seqno' - 1)
    BY <1>3, ParsedFacts
  <2>2. CASE expected_seqno' = expected_seqno
    <3>1. expected_seqno .. expected_seqno' - 1 = {}
      BY <2>1, <2>2
    <3>2. UNCHANGED <<Running, Frontier, Pending, db>>
      BY <1>1, <2>1, <2>2, <3>1 DEF Running, Frontier, Pending
    <3> QED
      BY <3>2, Stutters
  <2>3. CASE expected_seqno' # expected_seqno
    <3>1. expected_seqno' > expected_seqno
      BY <2>1, <2>3
    <3>2. Assembled' \cup Inserting'
            = (Assembled \cup Inserting) \cup (expected_seqno .. expected_seqno' - 1)
      BY <1>1, <2>1
    <3>3. Ledger!Take
      BY <1>1, <2>1, <3>1, <3>2 DEF Ledger!Take, Running
    <3> QED
      BY <3>3 DEF Ledger!Next
  <2> QED
    BY <2>2, <2>3
<1> QED
  BY <1>2, <1>3

LEMMA BatchMaps ==
  ASSUME TypeOK, LedgerInv, NEW batch \in insert_actors, BatchInserted(batch)
  PROVE  [Ledger!Next]_(Ledger!ledgerVars)
<1>1. /\ phase = "run" /\ UNCHANGED <<phase, expected_seqno>> /\ db' = db \cup batch
      /\ Assembled' = Assembled /\ Inserting' = Inserting \ batch
  BY LedgerBatchInserted DEF BatchInserted, Assembled
<1>2. batch \subseteq Inserting /\ batch \cap Assembled = {}
  BY DEF Inserting, LedgerInv, OnceInv
<1>3. /\ Assembled' \cup Inserting' = (Assembled \cup Inserting) \ batch
      /\ batch \subseteq Assembled \cup Inserting
  BY <1>1, <1>2
<1>4. Ledger!Commit(batch)
  BY <1>1, <1>3 DEF Ledger!Commit, Running
<1> QED
  BY <1>1, <1>3, <1>4 DEF Ledger!Next

\* The scheduler starts idle blocks and forgets queued ones.
LEMMA HandledMaps == TypeOK /\ BoundInv /\ HandleMessage => Assembled' = Assembled
<1> SUFFICES ASSUME TypeOK, BoundInv, HandleMessage PROVE Assembled' = Assembled
  OBVIOUS
<1> DEFINE m == Head(mailbox)
           p == IF m.type = "queued" THEN processing_seqnos \ {m.seqno} ELSE processing_seqnos
           st == IF m.type = "queued" THEN [stage EXCEPT ![m.seqno] = "idle"] ELSE stage
<1>1. m \in Message /\ mailbox # << >> /\ got_insert_queue_state(m.status, p, st)
  BY MessageHandled
<1>2. m.type = "queued" => stage[m.seqno] = "queued"
  <2>1. mailbox \in Seq(Message)
    BY DEF TypeOK
  <2>2. m = mailbox[1] /\ 1 \in 1 .. Len(mailbox)
    BY <1>1, <2>1, HeadTailProperties, LenProperties, EmptySeq
  <2> QED
    BY <2>2 DEF BoundInv, MailboxInv, QueuedAfter
<1>3. \A s \in Seqno : st[s] = stage[s] \/ (st[s] = "idle" /\ stage[s] = "queued")
  BY <1>2 DEF TypeOK
<1> HIDE DEF m, p, st
<1>4. CASE ~ Fits(m.status, MaxQueue)
  BY <1>1, <1>3, <1>4 DEF got_insert_queue_state, Assembled
<1>5. CASE Fits(m.status, MaxQueue)
  <2>1. PICK n \in 0 .. Len(queued_seqnos) :
          stage' = [s \in Seqno |-> IF \E i \in 1 .. n : queued_seqnos[i] = s
                                    THEN "fetch" ELSE st[s]]
    BY <1>1, <1>5 DEF got_insert_queue_state
  <2>2. \A i \in 1 .. n : stage[queued_seqnos[i]] = "idle"
    BY QueuedFacts
  <2> QED
    BY <1>3, <2>1, <2>2 DEF Assembled
<1> QED
  BY <1>4, <1>5

\* Every step of the indexer is a step of the ledger or changes nothing in it.
LEMMA NextMaps ==
  ASSUME "interfaces" \notin FailStages, "actions" \notin FailStages
  PROVE  TypeOK /\ BoundInv /\ DownInv /\ LedgerInv /\ [Next]_vars
           => [Ledger!Next]_(Ledger!ledgerVars)
<1> SUFFICES ASSUME TypeOK, BoundInv, DownInv, LedgerInv, [Next]_vars
             PROVE  [Ledger!Next]_(Ledger!ledgerVars)
  OBVIOUS
<1>1. CASE Start BY <1>1, StartMaps
<1>2. CASE StartError
  <2>1. UNCHANGED <<Running, Frontier, Pending, db>>
    BY <1>2 DEF StartError, Running, Frontier, Pending
  <2> QED
    BY <2>1, Stutters
<1>3. CASE Crash
  <2>1. phase' = "down" /\ db' = db
    BY <1>3 DEF Crash
  <2>2. CASE phase = "run"
    BY <2>1, <2>2 DEF Ledger!Next, Ledger!Close, Running
  <2>3. CASE phase # "run"
    <3>1. UNCHANGED <<Running, Frontier, Pending, db>>
      BY <2>1, <2>3 DEF Running, Frontier, Pending
    <3> QED
      BY <3>1, Stutters
  <2> QED
    BY <2>2, <2>3
<1>4. ASSUME UNCHANGED <<phase, expected_seqno, db>>,
             phase = "run" => Assembled' \cup Inserting' = Assembled \cup Inserting
      PROVE  [Ledger!Next]_(Ledger!ledgerVars)
  <2>1. UNCHANGED <<Running, Frontier, Pending, db>>
    BY <1>4 DEF Running, Frontier, Pending
  <2> QED
    BY <2>1, Stutters
<1>5. CASE UNCHANGED <<phase, expected_seqno, db, stage, insert_queue, insert_actors>>
  BY <1>4, <1>5 DEF Assembled, Inserting
<1>6. CASE ChainGrows \/ save_state \/ gc_states \/ UNCHANGED vars
  BY <1>5, <1>6 DEF ChainGrows, save_state, gc_states, vars, procVars, imVars
<1>7. CASE Alarm \/ get_insert_queue_state \/ LastKnownSeqno \/ LastKnownSeqnoError
  BY <1>5, <1>7 DEF Alarm, get_insert_queue_state, LastKnownSeqno, LastKnownSeqnoError, imVars
<1>8. CASE HandleMessage
  <2>1. UNCHANGED <<phase, expected_seqno, db>> /\ Inserting' = Inserting
    BY <1>8 DEF HandleMessage, imVars, Inserting
  <2> QED
    BY <1>4, <1>8, <2>1, HandledMaps
<1>9. CASE \E s \in Seqno : Work(s) \/ WorkerError(s)
  <2>1. PICK s \in Seqno : Work(s) \/ WorkerError(s)
    BY <1>9
  <2>2. CASE seqno_fetched(s) \/ seqno_interfaces_processed(s)
    <3>1. Assembled' = Assembled
      BY <2>2, LedgerMoved
    <3>2. UNCHANGED <<phase, expected_seqno, db>> /\ Inserting' = Inserting
      BY <2>2 DEF seqno_fetched, seqno_interfaces_processed, Moved, imVars, Inserting
    <3> QED
      BY <1>4, <3>1, <3>2
  <2>3. CASE seqno_parsed(s) BY <2>3, ParsedMaps
  <2>4. CASE seqno_actions_processed(s)
    <3>1. Assembled' \cup Inserting' = Assembled \cup Inserting
      BY <2>4, LedgerActionsProcessed
    <3>2. UNCHANGED <<phase, expected_seqno, db>>
      BY <2>4 DEF seqno_actions_processed, Moved
    <3> QED
      BY <1>4, <3>1, <3>2
  <2>5. CASE WorkerError(s)
    <3>1. /\ UNCHANGED <<phase, expected_seqno, db>> /\ Inserting' = Inserting
          /\ stage[s] \in FailStages /\ stage' = [stage EXCEPT ![s] = "idle"]
          /\ stage \in [Seqno -> Stage]
      BY <2>5 DEF WorkerError, imVars, Inserting, TypeOK
    <3>2. Assembled' = Assembled
      BY <3>1 DEF Assembled
    <3> QED
      BY <1>4, <3>1, <3>2
  <2> QED
    BY <2>1, <2>2, <2>3, <2>4, <2>5 DEF Work
<1>10. CASE InsertAlarm
  <2>1. UNCHANGED <<phase, expected_seqno, db, stage>> /\ Inserting' = Inserting
    BY <1>10, LedgerInsertAlarm DEF InsertAlarm
  <2> QED
    BY <1>4, <2>1 DEF Assembled
<1>11. CASE \E batch \in insert_actors : BatchInserted(batch)
  BY <1>11, BatchMaps
<1> QED
  BY <1>1, <1>2, <1>3, <1>6, <1>7, <1>8, <1>9, <1>10, <1>11 DEF Next

\* Every run of the process takes blocks in order from where its start left no
\* hole, and commits each at most once: the indexer implements the ledger.
THEOREM RefinesLedger ==
  ASSUME "interfaces" \notin FailStages, "actions" \notin FailStages
  PROVE  Spec => ImplementsLedger
  BY TypeInit, TypeNext, BoundInit, BoundNext, SafetyInit, DownStep, LedgerInit, LedgerNext,
     InitMaps, NextMaps, PTL DEF Spec, ImplementsLedger, Ledger!Spec

----------------------------------------------------------------------------
(* One place at a time *)

LEMMA HeldApart == TypeOK /\ BoundInv /\ LedgerInv /\ FrontierInv => HeldOnce
<1> SUFFICES ASSUME TypeOK, BoundInv, LedgerInv, FrontierInv, phase = "run" PROVE HeldOnce
  BY DEF HeldOnce
<1> DEFINE inWork == {s \in processing_seqnos : stage[s] # "queued"}
           queued == Elements(queued_seqnos)
<1>1. /\ Len(queued_seqnos) \in Nat
      /\ \A i \in 1 .. Len(queued_seqnos) :
           queued_seqnos[i] \in Seqno /\ stage[queued_seqnos[i]] = "idle"
      /\ \A s \in Seqno : s \in processing_seqnos <=> stage[s] # "idle"
  BY QueuedFacts
<1>2. \A i, j \in 1 .. Len(queued_seqnos) : queued_seqnos[i] = queued_seqnos[j] => i = j
  BY DEF BoundInv, SchedulerInv
<1>3. queued \cap processing_seqnos = {}
  BY <1>1 DEF Elements
<1>4. \A s \in Inserting \cup existing_seqnos : s < expected_seqno
  BY DEF LedgerInv, PassedInv
<1>5. expected_seqno \in Nat /\ Seqno \subseteq Nat
  BY SeqnoType DEF TypeOK
<1>6. \A s \in queued : s \in Nat /\ ~ (s < expected_seqno)
  <2>1. \A i \in 1 .. Len(queued_seqnos) :
          queued_seqnos[i] \in Nat /\ queued_seqnos[i] >= expected_seqno
    BY <1>1, <1>5 DEF FrontierInv
  <2>2. \A i \in 1 .. Len(queued_seqnos) :
          queued_seqnos[i] \in Nat /\ ~ (queued_seqnos[i] < expected_seqno)
    BY <1>5, <2>1
  <2> QED
    BY <2>2 DEF Elements
<1>7. \A s \in inWork : s \in Assembled \/ ~ (s < expected_seqno)
  <2> SUFFICES ASSUME NEW s \in inWork, s \notin Assembled PROVE ~ (s < expected_seqno)
    OBVIOUS
  <2>1. s \in Seqno /\ stage[s] \in Stage /\ stage[s] \notin {"idle", "queued"}
    BY <1>1 DEF TypeOK
  <2>2. stage[s] \in {"fetch", "parse", "assembling"}
    BY <2>1 DEF Stage, Assembled
  <2> QED
    BY <1>5, <2>1, <2>2 DEF FrontierInv
<1>8. Assembled \cap (Inserting \cup existing_seqnos) = {}
  BY DEF LedgerInv, OnceInv
<1> HIDE DEF inWork, queued
<1>9. (queued \cup inWork) \cap (Inserting \cup existing_seqnos) = {}
  BY <1>4, <1>6, <1>7, <1>8, Zenon
<1>10. /\ \A i, j \in 1 .. Len(insert_queue) : insert_queue[i] = insert_queue[j] => i = j
       /\ \A b \in insert_actors : b \cap Elements(insert_queue) = {}
       /\ \A b, c \in insert_actors : b # c => b \cap c = {}
       /\ existing_seqnos \cap Inserting = {}
  BY DEF LedgerInv, OnceInv
<1>11. \A b \in insert_actors : b \cap (Elements(insert_queue) \cup existing_seqnos) = {}
  BY <1>10 DEF Inserting
<1> QED
  BY <1>2, <1>3, <1>9, <1>10, <1>11 DEF HeldOnce, inWork, queued

\* Without --force, and when only fetching and parsing fail, no block is
\* processed or inserted twice in one run of the process.
THEOREM HeldOnceAlways ==
  ASSUME ~ ForceIndex, "interfaces" \notin FailStages, "actions" \notin FailStages
  PROVE  Spec => []HeldOnce
<1>1. Init => NoStaleAssemble
  BY DEF Init, NoStaleAssemble
<1> QED
  BY <1>1, TypeInit, TypeNext, BoundInit, BoundNext, SafetyInit, DownStep, FrontierNext,
     LedgerInit, LedgerNext, HeldApart, PTL DEF Spec
=============================================================================
