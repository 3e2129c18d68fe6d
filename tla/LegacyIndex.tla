---------------------------- MODULE LegacyIndex ----------------------------
(***************************************************************************)
(* The first indexer, ton-index-postgres: its IndexScheduler, the workers, *)
(* EventProcessor, the insert manager and the insert actors of             *)
(* ton-index-postgres/src/InsertManagerPostgres.cpp, with failures,        *)
(* crashes and restarts.                                                   *)
(*                                                                         *)
(* Insert actors run in parallel.  One message is in the blocks of its     *)
(* sender and of its receiver, and two transactions that insert the same   *)
(* messages in different orders deadlock; so a batch leaves out what is in *)
(* messages_in_progress, and the bodies that are in                        *)
(* msg_bodies_in_progress, here one set.                                   *)
(*                                                                         *)
(* The queue of seqnos is that of IndexScheduler, with no upper end and no *)
(* forced indexing.  The chain does not grow while the process runs; that  *)
(* it does is in IndexPipeline.                                            *)
(***************************************************************************)
EXTENDS IndexScheduler, InsertManagerBase, EventProcessor

CONSTANTS
  MaxQueue,      \* max_queue_, a QueueState
  MessagesOf,    \* the messages of a block's transactions
  BodiesOf,      \* the body and the init state of a message
  McSeqno,       \* the last masterchain block of the node's database
  MaxErrors,     \* bound: errors of workers and of inserts
  MaxCrashes,    \* bound: crashes of the process
  MaxFailures    \* bound: errors and crashes together

ASSUME LegacyAssumption ==
  /\ Task = Seqno /\ Block = Seqno
  /\ To = 0 /\ ~ ForceIndex
  /\ \A b \in Block : MessagesOf[b] # {} /\ MessagesOf[b] \subseteq DOMAIN BodiesOf
  /\ \A m \in DOMAIN BodiesOf : BodiesOf[m] \cap DOMAIN BodiesOf = {}
  /\ McSeqno \in Seqno
  /\ MaxErrors \in Nat /\ MaxCrashes \in Nat /\ MaxFailures \in Nat

VARIABLES
  phase,                  \* "down", "run" or "unstarted"
  stage,                  \* the worker that has a block in work
  messages,               \* what the insert actors that have started collected:
                          \* messages, and bodies
  releasing,              \* the same, of actors that have answered their tasks
  messages_in_progress,   \* the two static sets that all insert actors share
  failed_marks, dropped,  \* history: what failed batches have not stored and not yet
                          \* unmarked; what was left to a batch that did not store it
  blocks, db_messages,    \* rows of tables blocks, and messages and message_contents
  links,                  \* the blocks with their rows of transaction_messages
  account_states,         \* rows of table account_states: <<account, state>>
  latest_account_states,  \* the state of an account's row of that table
  entities,               \* the states of the rows of the tables of contracts
  db_events,              \* the rows of the tables of transfers and burns
  errors, crashes         \* what is spent of MaxErrors and MaxCrashes

batchVars == <<messages, releasing, messages_in_progress, failed_marks, dropped>>
dbVars == <<blocks, db_messages, links, account_states, latest_account_states, entities, db_events>>
procVars == <<schedVars, imVars, eventVars, stage, batchVars>>
vars == <<procVars, dbVars, phase, errors, crashes>>

NoBatch == [b \in {} |-> {}]

Init == /\ schedInit /\ imInit /\ eventInit
        /\ phase = "down"
        /\ stage = [s \in Seqno |-> "idle"]
        /\ messages = NoBatch /\ releasing = {} /\ messages_in_progress = {}
        /\ failed_marks = {} /\ dropped = {}
        /\ blocks = {} /\ db_messages = {} /\ links = {} /\ db_events = {}
        /\ account_states = {} /\ latest_account_states = [a \in Account |-> Never]
        /\ entities = [k \in Kind |-> [a \in Account |-> Never]]
        /\ errors = 0 /\ crashes = 0

----------------------------------------------------------------------------
(* Start, crash *)

\* run, get_existing_seqnos, got_existing_seqnos.  The constructor has set
\* last_known_seqno_ to from_seqno_.
Start ==
  /\ phase = "down"
  /\ phase' = "run"
  /\ existing_seqnos' = {s \in blocks : s >= From}
  /\ last_known_seqno' = From
  /\ UNCHANGED <<queued_seqnos, processing_seqnos, imVars, eventVars, stage, batchVars, dbVars,
                 errors, crashes>>

MayFail == errors + crashes < MaxFailures

\* The select failed: logged, and the alarm is never set.
StartError ==
  /\ phase = "down"
  /\ MayFail /\ errors < MaxErrors /\ errors' = errors + 1
  /\ phase' = "unstarted"
  /\ UNCHANGED <<procVars, dbVars, crashes>>

Crash ==
  /\ phase # "down"
  /\ MayFail /\ crashes < MaxCrashes /\ crashes' = crashes + 1
  /\ phase' = "down"
  /\ queued_seqnos' = << >> /\ processing_seqnos' = {} /\ existing_seqnos' = {}
  /\ last_known_seqno' = 0
  /\ insert_queue' = << >> /\ queue_state' = ZeroState
  /\ parallel_insert_actors' = 0 /\ insert_actors' = {}
  /\ eventRestart
  /\ stage' = [s \in Seqno |-> "idle"]
  /\ messages' = NoBatch /\ releasing' = {} /\ messages_in_progress' = {}
  /\ failed_marks' = {}
  /\ UNCHANGED <<dropped, dbVars, errors>>

----------------------------------------------------------------------------
(* The scheduler and its workers *)

LastKnownSeqno ==
  /\ phase = "run"
  /\ got_last_known_seqno(McSeqno)
  /\ UNCHANGED <<processing_seqnos, existing_seqnos, imVars, eventVars, stage, batchVars, dbVars,
                 phase, errors, crashes>>

\* got_insert_queue_state and the schedule_next_seqnos it sends, entered with
\* processing set p and workers st.
got_insert_queue_state(status, p, st) ==
  IF Fits(status, MaxQueue)
  THEN \E n \in 0 .. Len(queued_seqnos) :
         /\ schedule_next_seqnos(n, p)
         /\ stage' = [s \in Seqno |-> IF \E i \in 1 .. n : queued_seqnos[i] = s
                                      THEN "fetch" ELSE st[s]]
  ELSE /\ processing_seqnos' = p
       /\ stage' = st
       /\ UNCHANGED queued_seqnos

Alarm ==
  /\ phase = "run"
  /\ got_insert_queue_state(queue_state, processing_seqnos, stage)
  /\ UNCHANGED <<existing_seqnos, last_known_seqno, imVars, eventVars, batchVars, dbVars, phase,
                 errors, crashes>>

Moved(s, from, to) ==
  /\ phase = "run"
  /\ stage[s] = from
  /\ stage' = [stage EXCEPT ![s] = to]
  /\ UNCHANGED <<schedVars, imVars, batchVars, dbVars, phase, errors, crashes>>

seqno_fetched(s) == Moved(s, "fetch", "parse") /\ UNCHANGED eventVars

seqno_parsed(s) == Moved(s, "parse", "states") /\ process(s)

StatesProcessed(s) == Moved(s, "states", "transactions") /\ process_transactions(s)

Detect ==
  /\ phase = "run"
  /\ Detection
  /\ UNCHANGED <<schedVars, imVars, stage, batchVars, dbVars, phase, errors, crashes>>

\* EventProcessor::process is done: the block goes to the insert manager, whose
\* answer runs seqno_queued_to_insert.
seqno_interfaces_processed(s) ==
  /\ phase = "run"
  /\ stage[s] = "transactions" /\ CallsOf(s) = {}
  /\ insert(s)
  /\ got_insert_queue_state(queue_state', processing_seqnos \ {s}, [stage EXCEPT ![s] = "idle"])
  /\ UNCHANGED <<existing_seqnos, last_known_seqno, eventVars, batchVars, dbVars, phase, errors,
                 crashes>>

\* EventProcessor itself never fails.
WorkerError(s) ==
  /\ phase = "run"
  /\ stage[s] \in {"fetch", "parse"}
  /\ MayFail /\ errors < MaxErrors /\ errors' = errors + 1
  /\ reschedule_seqno(s)
  /\ stage' = [stage EXCEPT ![s] = "idle"]
  /\ UNCHANGED <<existing_seqnos, last_known_seqno, imVars, eventVars, batchVars, dbVars, phase,
                 crashes>>

----------------------------------------------------------------------------
(* The insert actors: InsertBatchPostgres::start_up *)

InsertAlarm ==
  /\ phase = "run"
  /\ imAlarm
  /\ UNCHANGED <<schedVars, eventVars, stage, batchVars, dbVars, phase, errors, crashes>>

\* The messages of a block, in and out, and their bodies.
Contents(b) == MessagesOf[b] \cup UNION {BodiesOf[m] : m \in MessagesOf[b]}
ContentsOf(batch) == UNION {Contents(b) : b \in batch}

\* What the loop under messages_in_progress_mutex puts into messages and msg_bodies.
Collected(batch) == ContentsOf(batch) \ messages_in_progress

\* A batch holds m only for blocks that are stored: their insert was reported as
\* failed and is repeated.
HeldByRepetition(m) ==
  \E c \in DOMAIN messages : m \in messages[c] /\ \A t \in c \ blocks : m \notin Contents(t)

Collect(batch) ==
  /\ phase = "run"
  /\ batch \in insert_actors \ DOMAIN messages
  /\ messages' = [b \in DOMAIN messages \cup {batch} |->
                    IF b = batch THEN Collected(batch) ELSE messages[b]]
  /\ messages_in_progress' = messages_in_progress \cup Collected(batch)
  /\ dropped' = dropped \cup {m \in ContentsOf(batch) \ db_messages :
                              m \in failed_marks \/ HeldByRepetition(m)}
  /\ UNCHANGED <<schedVars, imVars, eventVars, stage, releasing, failed_marks, dbVars, phase,
                 errors, crashes>>

\* Mutant of insert_messsages: it returns unless the batch has all its messages.
insert_messsages_whole(batch) ==
  IF messages[batch] # ContentsOf(batch)
  THEN UNCHANGED <<db_messages, links>>
  ELSE /\ db_messages' = db_messages \cup messages[batch]
       /\ links' = links \cup batch

Messageless(batch) == messages[batch] \cap DOMAIN BodiesOf = {}

\* With no message to insert it returns before insert_messages_contents, which
\* has the bodies, and insert_messages_txs.
insert_messsages(batch) ==
  IF Messageless(batch)
  THEN UNCHANGED <<db_messages, links>>
  ELSE /\ db_messages' = db_messages \cup messages[batch]
       /\ links' = links \cup batch

\* A row is named by its hash; one that is there is kept.
insert_account_states(batch) ==
  account_states' = account_states \cup {<<a, s>> \in Account \X batch : a \in StatesOf[s]}

\* The latest of a batch's states of an account replaces an older row.
insert_latest_account_states(batch) ==
  latest_account_states' = [a \in Account |->
    Max({s \in batch : a \in StatesOf[s]} \cup {latest_account_states[a]})]

\* The states the blocks of a batch have of a contract, as found.
Versions(batch, k, a) == {f[3] : f \in {g \in UNION {found[s] : s \in batch} :
                                          g[1] = k /\ g[2] = a}}

\* insert_jetton_masters, ...wallets, insert_nft_collections, ...items: one row
\* of the batch for a contract, which replaces an older one.
insert_entities(batch) ==
  entities' = [k \in Kind |-> [a \in Account |->
                 Max(Versions(batch, k, a) \cup {entities[k][a]})]]

\* insert_jetton_transfers, insert_jetton_burns, insert_nft_transfers.
insert_events(batch) ==
  db_events' = db_events \cup UNION {{<<s, e[1], e[2]>> : e \in events[s]} : s \in batch}

\* The rows of a block and its transactions, which no other batch writes.
insert_blocks(batch) == blocks' = blocks \cup batch

\* The transaction, under latest_account_states_update_mutex.
Committed(batch) ==
  /\ insert_blocks(batch)
  /\ insert_messsages(batch)
  /\ insert_account_states(batch)
  /\ insert_events(batch)
  /\ insert_latest_account_states(batch)
  /\ insert_entities(batch)

\* The tasks and the manager are answered; the marks go later.
Answered(batch) ==
  /\ insert_batch_finished(batch)
  /\ messages' = [b \in DOMAIN messages \ {batch} |-> messages[b]]
  /\ releasing' = releasing \cup ({messages[batch]} \ {{}})
  /\ dropped' = IF Messageless(batch) /\ batch \subseteq blocks'
                THEN dropped \cup (messages[batch] \ db_messages)
                ELSE dropped
  /\ UNCHANGED messages_in_progress

Commit(batch) ==
  /\ phase = "run"
  /\ batch \in DOMAIN messages
  /\ Committed(batch)
  /\ seqno_inserted(batch)
  /\ Answered(batch)
  /\ UNCHANGED <<queued_seqnos, processing_seqnos, last_known_seqno, eventVars, stage,
                 failed_marks, phase, errors, crashes>>

\* Mutant of Failed: the tasks are not answered.
FailedSilently(batch) == UNCHANGED <<queued_seqnos, processing_seqnos>>

\* The tasks of the batch are answered with an error: reschedule_seqno.
Failed(batch) ==
  /\ \E again \in Upward(batch) : queued_seqnos' = queued_seqnos \o again
  /\ processing_seqnos' = processing_seqnos \ batch

\* An exception; if it comes from commit(), the transaction may be in force.
Throw(batch) ==
  /\ phase = "run"
  /\ batch \in DOMAIN messages
  /\ MayFail /\ errors < MaxErrors /\ errors' = errors + 1
  /\ Committed(batch) \/ UNCHANGED dbVars
  /\ Failed(batch)
  /\ Answered(batch)
  /\ failed_marks' = failed_marks \cup (messages[batch] \ db_messages')
  /\ UNCHANGED <<existing_seqnos, last_known_seqno, eventVars, stage, phase, crashes>>

Release(marks) ==
  /\ phase = "run"
  /\ releasing' = releasing \ {marks}
  /\ messages_in_progress' = messages_in_progress \ marks
  /\ failed_marks' = failed_marks \ marks
  /\ UNCHANGED <<schedVars, imVars, eventVars, stage, messages, dropped, dbVars, phase, errors,
                 crashes>>

----------------------------------------------------------------------------
Work(s) == \/ seqno_fetched(s) \/ seqno_parsed(s)
           \/ StatesProcessed(s) \/ seqno_interfaces_processed(s)

\* The process was never started, and stays so.
Stopped == phase = "unstarted" /\ UNCHANGED vars

Next == \/ Start \/ StartError \/ Crash
        \/ LastKnownSeqno \/ Alarm \/ Detect \/ InsertAlarm
        \/ \E s \in Seqno : Work(s) \/ WorkerError(s)
        \/ \E b \in insert_actors : Collect(b) \/ Commit(b) \/ Throw(b)
        \/ \E m \in releasing : Release(m)
        \/ Stopped

\* Actors run what they are sent and timers fire; none of these steps can be
\* repeated for ever.
Progress == \/ Start \/ LastKnownSeqno \/ Alarm \/ Detect \/ InsertAlarm
            \/ \E s \in Seqno : Work(s)
            \/ \E b \in insert_actors : Collect(b) \/ Commit(b)
            \/ \E m \in releasing : Release(m)

Spec == Init /\ [][Next]_vars

\* Weak fairness of Progress, with what enables it written out.
Busy == \/ phase = "down"
        \/ /\ phase = "run"
           /\ \/ last_known_seqno # McSeqno \/ queued_seqnos # << >> \/ insert_queue # << >>
              \/ insert_actors # {} \/ releasing # {}
              \/ \E s \in Seqno : stage[s] # "idle"
FairSpec == Spec /\ ([]<>~Busy \/ []<><<Progress>>_vars)

----------------------------------------------------------------------------
(* Properties *)

\* Every variable has its type.
TypeOK ==
  /\ phase \in {"down", "run", "unstarted"}
  /\ stage \in [Seqno -> {"idle", "fetch", "parse", "states", "transactions"}]
  /\ DOMAIN messages \subseteq insert_actors
  /\ calls \subseteq [block : Block, account : Account, kind : Kind,
                      at : {"check", "continue", "impl", "verify", "shard", "add", "parse"}]
  /\ entities \in [Kind -> [Account -> Block \cup {Never}]]
  /\ blocks \subseteq Seqno /\ links \subseteq blocks

\* No two insert actors hold the same message, so no two open transactions can
\* wait for each other's messages.
SingleWriter ==
  \A b, c \in DOMAIN messages : b # c => messages[b] \cap messages[c] = {}

\* Whatever becomes of a batch, its marks do not stay: a message is marked
\* exactly as long as some actor still has to insert it or to take its mark off.
MarksAreHeld ==
  messages_in_progress = UNION {messages[b] : b \in DOMAIN messages} \cup UNION releasing

\* Leaving out what other batches are inserting loses nothing, through failed
\* inserts and crashes: a message of a stored block, or its body, is stored, or a
\* block that is not stored yet still brings it.  There are three exceptions: a
\* batch left it to one that had failed and whose marks were not taken off yet, to
\* one that repeated the insert of stored blocks and can fail, or to one that had
\* claimed the body but no message, and then inserts nothing.
MessagesKept ==
  \A s \in blocks : \A m \in Contents(s) \ dropped :
    m \in db_messages \/ \E t \in 1 .. McSeqno : t \notin blocks /\ m \in Contents(t)

\* As long as no insert fails, a stored block lacks its rows of
\* transaction_messages only if each of its messages is in another block too.
LinksMissOnlyShared ==
  errors = 0 => \A s \in blocks \ links : \A m \in MessagesOf[s] :
                  \E t \in Seqno \ {s} : m \in MessagesOf[t]

AlwaysAnswers(k, a) ==
  \A x \in Account : CodeOf[x] = CodeOf[a] => \A b \in Block : Method[k][x][b] = "ok"

\* Account a of block b is a contract beyond doubt: all accounts with its code
\* answer the get method in every state, and so does the parent, which is in the
\* block's shards and always recognises it.
Undoubted(k, a, b) ==
  /\ AlwaysAnswers(k, a)
  /\ k \in DOMAIN ParentKind =>
       \A v \in Block :
         /\ Parent[a][v] # Nobody
         /\ AlwaysAnswers(ParentKind[k], Parent[a][v])
         /\ StatesUpTo(Parent[a][v], b) # {}
         /\ \A t \in Block : a \in Recognises[Parent[a][v]][t]

\* A stored block has left the row of every contract it changed at least as new
\* as the block's own state, up to states with the same data: neither the caches
\* that blocks worked on out of order have filled, nor a later insert of an older
\* block, nor a crash hide or undo a newer state.
RowsCurrent ==
  \A b \in blocks : \A a \in StatesOf[b] : \A k \in Kind :
    \/ entities[k][a] >= b
    \/ /\ k \in DOMAIN ParentKind /\ entities[k][a] # Never
       /\ DataOf[a][entities[k][a]] = DataOf[a][b]
    \/ ~ Undoubted(k, a, b)

\* The latest state of an account is the newest of those that are stored, in
\* whatever order, and however often, blocks were inserted.
LatestIsNewest ==
  \A a \in Account :
    latest_account_states[a] = Max({r[2] : r \in {r \in account_states : r[1] = a}} \cup {Never})

\* A stored block has the event of every transfer of a contract that it has
\* itself reported: transactions are looked at after all interfaces are known.
TransfersOfFound ==
  \A s \in Elements(insert_queue) \cup UNION insert_actors : \A t \in TransfersOf[s] :
    (\E v \in Block : <<t[2], t[1], v>> \in found[s])
      => \E v \in Block : <<t[2], t[1], v>> \in events[s]

\* Every seqno the scheduler knows of is queued, in work, with the insert
\* manager or done, also after a batch that failed.
NothingLost ==
  phase = "run" =>
    \A s \in From + 1 .. last_known_seqno :
      s \in Elements(queued_seqnos) \cup processing_seqnos \cup existing_seqnos
            \cup Elements(insert_queue) \cup UNION insert_actors

\* Every block after From is eventually stored, through errors and crashes,
\* unless the process never got to its first alarm.
EventuallyStored == <>(phase = "unstarted" \/ From + 1 .. McSeqno \subseteq blocks)
=============================================================================
