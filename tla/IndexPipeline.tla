--------------------------- MODULE IndexPipeline ---------------------------
(***************************************************************************)
(* The indexer ton-index-postgres-v2 as a whole: the IndexScheduler actor, *)
(* the workers a masterchain block passes through (fetch, parse, trace     *)
(* assembly, interface detection, action detection), the insert manager,   *)
(* the database and the assembler's state files, with crashes and          *)
(* restarts of the process.                                                *)
(*                                                                         *)
(* A worker answers by a closure that only makes the scheduler hand the    *)
(* block to the next worker; the answer and the hand-over are one step.    *)
(* The closures the insert manager sends to the scheduler carry the size   *)
(* of the insert queue at the time of sending, so they are kept in a FIFO  *)
(* mailbox and handled later.                                              *)
(***************************************************************************)
EXTENDS IndexScheduler, InsertManagerBase

CONSTANTS
  MaxQueue,     \* max_queue_, a QueueState
  KeepStates,   \* 100: assembler states kept by gc_states
  FailStages,   \* what may report an error: the read of stored seqnos and the workers
  MaxMcSeqno,   \* bound: how far the chain grows
  MaxErrors,    \* bound: errors reported by workers
  MaxCrashes    \* bound: crashes of the process

Stage == {"idle", "fetch", "parse", "assembling", "interfaces", "actions", "queued"}

ASSUME PipelineAssumption ==
  /\ Task = Seqno
  /\ MaxQueue \in [mc_blocks : Nat, blocks : Nat, txs : Nat, msgs : Nat]
  /\ KeepStates \in Nat \ {0}
  /\ FailStages \subseteq {"existing", "fetch", "parse", "interfaces", "actions"}
  /\ MaxMcSeqno \in Seqno
  /\ MaxErrors \in Nat
  /\ MaxCrashes \in Nat

VARIABLES
  phase,            \* "down", "run", "aborted" (LOG(FATAL)), "spinning" or "unstarted"
  stage,            \* where a block being processed is
  expected_seqno,   \* TraceAssembler::expected_seqno_
  mailbox,          \* closures of the insert manager the scheduler has not run
  asked,            \* requests of the last alarm without an answer
  db,               \* masterchain seqnos committed to PostgreSQL
  tastates,         \* seqnos of the .tastate files
  mc_seqno,         \* the last masterchain block of the node's database
  errors, crashes   \* what is spent of MaxErrors and MaxCrashes

procVars == <<schedVars, imVars, stage, expected_seqno, mailbox, asked>>
vars == <<procVars, phase, db, tastates, mc_seqno, errors, crashes>>

Message == [type : {"queued", "state"}, seqno : Seqno, status : QueueState]

\* TraceAssembler::queue_: blocks waiting for an earlier one.
Waiting == {s \in Seqno : stage[s] = "assembling"}

----------------------------------------------------------------------------
\* The process has not started; the database and the state directory are empty.
Init == /\ schedInit
        /\ imInit
        /\ stage = [s \in Seqno |-> "idle"]
        /\ expected_seqno = 0
        /\ mailbox = << >> /\ asked = {}
        /\ phase = "down"
        /\ db = {} /\ tastates = {}
        /\ mc_seqno = 0
        /\ errors = 0 /\ crashes = 0

----------------------------------------------------------------------------
(* Start-up: run, got_existing_seqnos, TraceAssembler::restore_state and     *)
(* got_trace_assembler_last_state_seqno; nothing else runs until they end.   *)

existing_db == {s \in db : InRange(s)}

\* A state file that cannot be read or unpacked is skipped, so any state that
\* is not newer than the one asked for may be the one restored, or none.
RestoredState(next) ==
  {f \in tastates : f <= Before(next)} \cup {FallbackState(next)}

Start ==
  /\ phase = "down"
  /\ \E next \in 0 .. SeqnoLimit : 
       /\ IsNextSeqno(next, existing_db)
       /\ \E last \in RestoredState(next) :
            /\ phase' = IF LoopEnds(last) THEN "run" ELSE "spinning"
            /\ existing_seqnos' = MarkedExisting(last)
            /\ expected_seqno' = (last + 1) % SeqnoLimit
  /\ UNCHANGED <<queued_seqnos, processing_seqnos, last_known_seqno, imVars, stage, mailbox,
                 asked, db, tastates, mc_seqno, errors, crashes>>

\* The stored seqnos could not be read: logged, and the scheduler never runs.
StartError ==
  /\ phase = "down"
  /\ "existing" \in FailStages
  /\ errors < MaxErrors
  /\ errors' = errors + 1
  /\ phase' = "unstarted"
  /\ UNCHANGED <<procVars, db, tastates, mc_seqno, crashes>>

\* Any failure of the process: its memory is gone, files and tables stay.
Crash ==
  /\ phase # "down"
  /\ crashes < MaxCrashes
  /\ crashes' = crashes + 1
  /\ phase' = "down"
  /\ queued_seqnos' = << >> /\ processing_seqnos' = {} /\ existing_seqnos' = {}
  /\ last_known_seqno' = 0
  /\ insert_queue' = << >> /\ queue_state' = ZeroState
  /\ parallel_insert_actors' = 0 /\ insert_actors' = {}
  /\ stage' = [s \in Seqno |-> "idle"] /\ expected_seqno' = 0
  /\ mailbox' = << >> /\ asked' = {}
  /\ UNCHANGED <<db, tastates, mc_seqno, errors>>

----------------------------------------------------------------------------
(* The alarm of the scheduler and the answers to its two requests *)

\* Bound: the next alarm waits until the answers to the previous one are handled.
Alarm ==
  /\ phase = "run"
  /\ asked = {}
  /\ \A i \in 1 .. Len(mailbox) : mailbox[i].type # "state"
  /\ asked' = {"queue", "seqno"}
  /\ UNCHANGED <<schedVars, imVars, stage, expected_seqno, mailbox, phase, db, tastates,
                 mc_seqno, errors, crashes>>

get_insert_queue_state ==
  /\ phase = "run"
  /\ "queue" \in asked
  /\ asked' = asked \ {"queue"}
  /\ mailbox' = Append(mailbox, [type |-> "state", seqno |-> 0, status |-> queue_state])
  /\ UNCHANGED <<schedVars, imVars, stage, expected_seqno, phase, db, tastates, mc_seqno,
                 errors, crashes>>

\* Nothing but this answer reads the end of the chain, so it is read when the
\* answer is handled.
LastKnownSeqno ==
  /\ phase = "run"
  /\ "seqno" \in asked
  /\ asked' = asked \ {"seqno"}
  /\ got_last_known_seqno(mc_seqno)
  /\ UNCHANGED <<processing_seqnos, existing_seqnos, imVars, stage, expected_seqno, mailbox,
                 phase, db, tastates, mc_seqno, errors, crashes>>

\* get_last_mc_seqno failed: logged, and asked again by the next alarm.
LastKnownSeqnoError ==
  /\ phase = "run"
  /\ "seqno" \in asked
  /\ errors < MaxErrors
  /\ errors' = errors + 1
  /\ asked' = asked \ {"seqno"}
  /\ UNCHANGED <<schedVars, imVars, stage, expected_seqno, mailbox, phase, db, tastates,
                 mc_seqno, crashes>>

ChainGrows ==
  /\ mc_seqno < MaxMcSeqno
  /\ mc_seqno' = mc_seqno + 1
  /\ UNCHANGED <<procVars, phase, db, tastates, errors, crashes>>

----------------------------------------------------------------------------
(* Closures of the insert manager run by the scheduler *)

\* Mutant of got_insert_queue_state: max_queue_ is not looked at.
got_insert_queue_state_always(status, p, st) ==
  \E n \in 0 .. Len(queued_seqnos) :
    /\ schedule_next_seqnos(n, p)
    /\ stage' = [s \in Seqno |-> IF \E i \in 1 .. n : queued_seqnos[i] = s
                                 THEN "fetch" ELSE st[s]]

\* got_insert_queue_state(status), entered with processing set p.
got_insert_queue_state(status, p, st) ==
  IF Fits(status, MaxQueue)
  THEN \E n \in 0 .. Len(queued_seqnos) :
         /\ schedule_next_seqnos(n, p)
         /\ stage' = [s \in Seqno |-> IF \E i \in 1 .. n : queued_seqnos[i] = s
                                      THEN "fetch" ELSE st[s]]
  ELSE /\ processing_seqnos' = p
       /\ stage' = st
       /\ UNCHANGED queued_seqnos

\* seqno_queued_to_insert, or the answer to the alarm's request.
HandleMessage ==
  /\ phase = "run"
  /\ mailbox # << >>
  /\ mailbox' = Tail(mailbox)
  /\ LET m == Head(mailbox)
     IN  IF m.type = "queued"
         THEN got_insert_queue_state(m.status, processing_seqnos \ {m.seqno},
                                     [stage EXCEPT ![m.seqno] = "idle"])
         ELSE got_insert_queue_state(m.status, processing_seqnos, stage)
  /\ UNCHANGED <<existing_seqnos, last_known_seqno, imVars, expected_seqno, asked, phase, db,
                 tastates, mc_seqno, errors, crashes>>

----------------------------------------------------------------------------
(* The workers *)

Moved(s, from, to) ==
  /\ phase = "run"
  /\ stage[s] = from
  /\ stage' = [stage EXCEPT ![s] = to]
  /\ UNCHANGED <<schedVars, expected_seqno, asked, phase, db, tastates, mc_seqno, errors, crashes>>

seqno_fetched(s) == Moved(s, "fetch", "parse") /\ UNCHANGED <<imVars, mailbox>>

\* seqno_parsed hands the block to TraceAssembler::assemble, which aborts the
\* process on a seqno it has passed, and otherwise processes every block that
\* is now in turn (process_queue).
seqno_parsed(s) ==
  /\ phase = "run"
  /\ stage[s] = "parse"
  /\ IF s < expected_seqno
     THEN /\ phase' = "aborted"
          /\ UNCHANGED <<stage, expected_seqno>>
     ELSE \E e \in expected_seqno .. SeqnoLimit :
            /\ \A t \in expected_seqno .. e - 1 : t \in Waiting \cup {s}
            /\ e \notin Waiting \cup {s}
            /\ expected_seqno' = e
            /\ stage' = [t \in Seqno |->
                           IF t \notin Waiting \cup {s} THEN stage[t]
                           ELSE IF t < e THEN "interfaces" ELSE "assembling"]
            /\ UNCHANGED phase
  /\ UNCHANGED <<schedVars, imVars, mailbox, asked, db, tastates, mc_seqno, errors, crashes>>

seqno_interfaces_processed(s) ==
  Moved(s, "interfaces", "actions") /\ UNCHANGED <<imVars, mailbox>>

\* seqno_actions_processed hands the block to InsertManagerBase::insert, which
\* answers with the new size of its queue.
seqno_actions_processed(s) ==
  /\ Moved(s, "actions", "queued")
  /\ insert(s)
  /\ mailbox' = Append(mailbox, [type |-> "queued", seqno |-> s, status |-> queue_state'])

WorkerError(s) ==
  /\ phase = "run"
  /\ stage[s] \in FailStages
  /\ errors < MaxErrors
  /\ errors' = errors + 1
  /\ reschedule_seqno(s)
  /\ stage' = [stage EXCEPT ![s] = "idle"]
  /\ UNCHANGED <<existing_seqnos, last_known_seqno, imVars, expected_seqno, mailbox, asked,
                 phase, db, tastates, mc_seqno, crashes>>

----------------------------------------------------------------------------
(* The insert manager and the database *)

InsertAlarm ==
  /\ phase = "run"
  /\ imAlarm
  /\ UNCHANGED <<schedVars, stage, expected_seqno, mailbox, asked, phase, db, tastates,
                 mc_seqno, errors, crashes>>

\* An insert actor commits its batch, then keeps its promises: seqno_inserted
\* for each task, insert_batch_finished for the batch.
BatchInserted(batch) ==
  /\ phase = "run"
  /\ insert_batch_finished(batch)
  /\ db' = db \cup batch
  /\ seqno_inserted(batch)
  /\ UNCHANGED <<queued_seqnos, processing_seqnos, last_known_seqno, stage, expected_seqno,
                 mailbox, asked, phase, tastates, mc_seqno, errors, crashes>>

----------------------------------------------------------------------------
(* The alarm of the trace assembler: two delayed actions.  The files are only *)
(* read by a later start, so they are left alone when no crash may follow.   *)

save_state ==
  /\ phase = "run" /\ crashes < MaxCrashes
  /\ expected_seqno # 0
  /\ tastates' = tastates \cup {Before(expected_seqno)}
  /\ UNCHANGED <<procVars, phase, db, mc_seqno, errors, crashes>>

gc_states ==
  /\ phase = "run" /\ crashes < MaxCrashes
  /\ expected_seqno # 0
  /\ tastates' = {f \in tastates : /\ f <= expected_seqno
                                   /\ Cardinality({g \in tastates : f < g /\ g <= expected_seqno})
                                        < KeepStates}
  /\ UNCHANGED <<procVars, phase, db, mc_seqno, errors, crashes>>

----------------------------------------------------------------------------
Work(s) == \/ seqno_fetched(s)
           \/ seqno_parsed(s)
           \/ seqno_interfaces_processed(s)
           \/ seqno_actions_processed(s)

Next == \/ Start \/ StartError \/ Crash \/ ChainGrows
        \/ Alarm \/ get_insert_queue_state \/ LastKnownSeqno \/ LastKnownSeqnoError
        \/ HandleMessage
        \/ \E s \in Seqno : Work(s) \/ WorkerError(s)
        \/ InsertAlarm
        \/ \E batch \in insert_actors : BatchInserted(batch)
        \/ save_state \/ gc_states

\* Actors run every closure they are sent, timers fire, and an insert actor
\* retries until its transaction commits.
Fairness == /\ WF_vars(Start)
            /\ WF_vars(Alarm)
            /\ WF_vars(get_insert_queue_state)
            /\ WF_vars(LastKnownSeqno)
            /\ WF_vars(HandleMessage)
            /\ \A s \in 1 .. MaxMcSeqno : WF_vars(Work(s))
            /\ WF_vars(InsertAlarm)
            /\ WF_vars(\E batch \in insert_actors : BatchInserted(batch))

Spec == Init /\ [][Next]_vars
FairSpec == Spec /\ Fairness

----------------------------------------------------------------------------
(* Properties *)

\* Every variable has its type.
TypeOK ==
  /\ queued_seqnos \in Seq(Seqno)
  /\ processing_seqnos \subseteq Seqno
  /\ existing_seqnos \subseteq Seqno
  /\ last_known_seqno \in Seqno
  /\ insert_queue \in Seq(Seqno)
  /\ queue_state \in QueueState
  /\ parallel_insert_actors \in Int
  /\ insert_actors \subseteq SUBSET Seqno
  /\ phase \in {"down", "run", "aborted", "spinning", "unstarted"}
  /\ stage \in [Seqno -> Stage]
  /\ expected_seqno \in 0 .. SeqnoLimit
  /\ mailbox \in Seq(Message)
  /\ asked \subseteq {"queue", "seqno"}
  /\ db \subseteq Seqno
  /\ tastates \subseteq Seqno
  /\ mc_seqno \in 0 .. MaxMcSeqno
  /\ errors \in 0 .. MaxErrors
  /\ crashes \in 0 .. MaxCrashes

\* The assembler is never handed a block it has already passed, so its
\* LOG(FATAL) in TraceAssembler::assemble is never reached: a block that a
\* worker failed on is rescheduled only before it was assembled, and a restart
\* never queues a seqno below the restored state.
NoStaleAssemble == phase # "aborted"

\* The insert queue never exceeds max_queue by more than the blocks that were
\* in work when the last report below the limit was sent, although the
\* scheduler acts on reports that are old when it handles them.
QueueBound == Len(insert_queue) <= MaxQueue.mc_blocks + MaxActiveTasks

Inserting == Elements(insert_queue) \cup UNION insert_actors

\* Every wanted seqno the scheduler has learnt of is queued, in work, waiting
\* for insertion, being inserted or done; a reschedule, a batch cut or a
\* refused report never drops one.
NothingLost ==
  phase = "run" =>
    \A s \in 1 .. last_known_seqno :
      InRange(s) => s \in Elements(queued_seqnos) \cup processing_seqnos
                          \cup Inserting \cup existing_seqnos

\* ... and in one place only: no block is processed or inserted twice in one
\* run of the process.
HeldOnce ==
  phase = "run" =>
    LET inWork == {s \in processing_seqnos : stage[s] # "queued"}
        queued == Elements(queued_seqnos)
    IN  /\ \A i, j \in 1 .. Len(queued_seqnos) : queued_seqnos[i] = queued_seqnos[j] => i = j
        /\ queued \cap processing_seqnos = {}
        /\ (queued \cup inWork) \cap (Inserting \cup existing_seqnos) = {}
        /\ \A i, j \in 1 .. Len(insert_queue) : insert_queue[i] = insert_queue[j] => i = j
        /\ \A b \in insert_actors :
             /\ b \cap (Elements(insert_queue) \cup existing_seqnos) = {}
             /\ \A c \in insert_actors : b # c => b \cap c = {}

\* queue_state_ is the size of what is in insert_queue_, across every batch
\* that schedule_next_insert_batches cuts from it.
SizeMatchesQueue == queue_state = Load(1 .. Len(insert_queue))

\* A restart resumes inside or right after the contiguous run of stored blocks:
\* of the seqnos it takes as done, those from the lowest stored one on are in
\* the database, whatever batches a crash left uncommitted.
ResumeLeavesNoHole ==
  phase = "run" =>
    \A s \in existing_seqnos : (\E low \in existing_db : low <= s) => s \in db

\* Every seqno taken as done is in the database.  It does not hold: after a crash
\* that left an early batch uncommitted, a restart takes the seqnos below the
\* lowest stored one as done (README, section 5).
DoneIsStored == phase = "run" => existing_seqnos \subseteq db

\* Every place of processing_seqnos_ is taken by a block that waits in the
\* assembler, and the block they wait for waits in the queue for a place: a block
\* a worker failed on is queued behind the later ones.
Starved ==
  /\ phase = "run"
  /\ Cardinality(processing_seqnos) >= MaxActiveTasks
  /\ processing_seqnos = Waiting
  /\ expected_seqno \in Elements(queued_seqnos)

\* Every wanted block of the chain is eventually in the database, unless the process
\* never came to its first alarm or the indexer is starved: nothing else stops
\* a block, whatever errors, refused reports and unfilled batches come before.
EventuallyIndexed ==
  \A s \in 1 .. MaxMcSeqno :
    InRange(s) => (mc_seqno >= s ~> s \in db \/ Starved \/ phase \in {"unstarted", "spinning"})

----------------------------------------------------------------------------
(* The inductive invariants *)

\* Blocks the insert manager has not been given yet.
InWork == {s \in processing_seqnos : stage[s] # "queued"}

\* Announcements of inserts behind message i of the mailbox.
QueuedAfter(i) == {j \in i + 1 .. Len(mailbox) : mailbox[j].type = "queued"}

\* What the scheduler holds: the processing set is exactly the blocks some
\* worker has, a queued seqno is idle and queued once, and nothing beyond the
\* last known seqno is held.
SchedulerInv ==
  /\ last_known_seqno <= mc_seqno
  /\ \A s \in Seqno : s \in processing_seqnos <=> stage[s] # "idle"
  /\ \A s \in processing_seqnos : 0 < s /\ s <= last_known_seqno
  /\ \A i \in 1 .. Len(queued_seqnos) :
       /\ 0 < queued_seqnos[i] /\ queued_seqnos[i] <= last_known_seqno
       /\ stage[queued_seqnos[i]] = "idle"
       /\ \A j \in 1 .. Len(queued_seqnos) : queued_seqnos[i] = queued_seqnos[j] => i = j
  /\ Cardinality(processing_seqnos) <= MaxActiveTasks

\* A block in stage "queued" has exactly one announcement in the mailbox.
MailboxInv ==
  /\ \A i \in QueuedAfter(0) :
       /\ stage[mailbox[i].seqno] = "queued"
       /\ \A j \in QueuedAfter(0) : mailbox[i].seqno = mailbox[j].seqno => i = j
  /\ \A s \in Seqno : stage[s] = "queued" => \E i \in QueuedAfter(0) : mailbox[i].seqno = s

\* A report is too low only by the inserts announced behind it.
ReportInv ==
  /\ queue_state.mc_blocks = Len(insert_queue)
  /\ \A i \in 1 .. Len(mailbox) :
       Len(insert_queue) <= mailbox[i].status.mc_blocks + Cardinality(QueuedAfter(i))

\* The insert queue and the blocks still to come fit in the two limits together.
LoadInv ==
  Len(insert_queue) + Cardinality(InWork) <= MaxQueue.mc_blocks + MaxActiveTasks

BoundInv == SchedulerInv /\ MailboxInv /\ ReportInv /\ LoadInv

\* A process that is not running holds nothing.
DownInv ==
  phase = "down" => /\ queued_seqnos = << >>
                    /\ last_known_seqno = 0
                    /\ \A s \in Seqno : stage[s] = "idle"

\* Everything the assembler has still to see is at or above its expected seqno;
\* everything below was taken as done or has been learnt of already.
FrontierInv ==
  phase = "run" =>
    /\ \A s \in Seqno : stage[s] \in {"fetch", "parse", "assembling"} => s >= expected_seqno
    /\ \A i \in 1 .. Len(queued_seqnos) : queued_seqnos[i] >= expected_seqno
    /\ \A s \in Seqno : From <= s /\ s < expected_seqno
                          => s \in existing_seqnos \/ s <= last_known_seqno

\* A block that left the workers is with the insert manager or done.
CustodyInv ==
  /\ NothingLost
  /\ phase = "run" =>
       \A s \in Seqno : stage[s] = "queued" => s \in Inserting \cup existing_seqnos
=============================================================================
