--------------------------- MODULE ClickhouseIndex ---------------------------
(***************************************************************************)
(* The indexer ton-index-clickhouse: its IndexScheduler, the workers, the  *)
(* insert manager and the insert actors, which write a batch table by      *)
(* table without a transaction, with failures, crashes and restarts, and   *)
(* the end of the process at --to.                                         *)
(*                                                                         *)
(* The scheduler's handlers of the seqno queue are those of IndexScheduler *)
(* and the insert manager is InsertManagerBase.  A report of the insert    *)
(* queue's size is handled when it is sent (module IndexPipeline has late  *)
(* ones), together with the closure got_insert_queue_state sends to itself.*)
(***************************************************************************)
EXTENDS IndexScheduler, InsertManagerBase, ClickhouseColumns

CONSTANTS
  MaxQueue,      \* max_queue_, a QueueState
  TxsOf,         \* the transactions of a masterchain block and its shard blocks
  MaxMcSeqno,    \* bound: how far the chain grows
  MaxErrors,     \* bound: errors of workers and of inserts
  MaxCrashes     \* bound: crashes of the process

ASSUME ClickhouseAssumption ==
  /\ Task = Seqno
  /\ TxsOf \in [Seqno -> Seq(Transaction)]
  /\ MaxMcSeqno \in Seqno
  /\ MaxErrors \in Nat /\ MaxCrashes \in Nat

\* The tables, in the groups of the insert_... functions.  A table of entities
\* keeps the row with the highest version of a key (ReplacingMergeTree).
MessageTables == <<"messages", "message_contents">>
AccountTables == <<"account_states", "latest_account_states">>
NftTables == <<"nft_collections", "nft_items", "nft_transfers">>
JettonTables == <<"jetton_masters", "jetton_wallets", "jetton_transfers", "jetton_burns">>

EntityTable == {"latest_account_states", "nft_collections", "nft_items", "jetton_masters",
                "jetton_wallets"}
Table == {"transactions", "shard_state", "blocks"} \cup Elements(MessageTables)
         \cup Elements(AccountTables) \cup Elements(NftTables) \cup Elements(JettonTables)

VARIABLES
  phase,            \* "down", "run", "unstarted" or "ended"
  stage,            \* the worker that has a block in work
  pc,               \* the insert_... function a live insert actor is in
  rows,             \* the masterchain blocks whose rows a table has
  newest,           \* the version an entity table returns, of an entity of every block
  tx_rows,          \* the rows of table transactions
  mc_seqno,         \* the last masterchain block of the node's database
  errors, crashes   \* what is spent of MaxErrors and MaxCrashes

dbVars == <<rows, newest, tx_rows>>
procVars == <<schedVars, imVars, stage, pc>>
vars == <<procVars, dbVars, phase, mc_seqno, errors, crashes>>

Init == /\ schedInit /\ imInit
        /\ phase = "down"
        /\ stage = [s \in Seqno |-> "idle"]
        /\ pc = [b \in {} |-> ""]
        /\ rows = [t \in Table |-> {}]
        /\ newest = [t \in EntityTable |-> 0]
        /\ tx_rows = {}
        /\ mc_seqno = 0
        /\ errors = 0 /\ crashes = 0

----------------------------------------------------------------------------
(* Start, crash, end *)

\* get_existing_seqnos, got_existing_seqnos: the blocks of table blocks.
Start ==
  /\ phase = "down"
  /\ phase' = "run"
  /\ existing_seqnos' = {s \in rows["blocks"] : InRange(s)}
  /\ UNCHANGED <<queued_seqnos, processing_seqnos, last_known_seqno, imVars, stage, pc, dbVars,
                 mc_seqno, errors, crashes>>

\* The select failed: logged, and the alarm is never set.
StartError ==
  /\ phase = "down"
  /\ errors < MaxErrors /\ errors' = errors + 1
  /\ phase' = "unstarted"
  /\ UNCHANGED <<procVars, dbVars, mc_seqno, crashes>>

MemoryLost ==
  /\ queued_seqnos' = << >> /\ processing_seqnos' = {} /\ existing_seqnos' = {}
  /\ last_known_seqno' = 0
  /\ insert_queue' = << >> /\ queue_state' = ZeroState
  /\ parallel_insert_actors' = 0 /\ insert_actors' = {}
  /\ stage' = [s \in Seqno |-> "idle"]
  /\ pc' = [b \in {} |-> ""]

Crash ==
  /\ phase # "down"
  /\ crashes < MaxCrashes /\ crashes' = crashes + 1
  /\ phase' = "down"
  /\ MemoryLost
  /\ UNCHANGED <<dbVars, mc_seqno, errors>>

ChainGrows ==
  /\ mc_seqno < MaxMcSeqno
  /\ mc_seqno' = mc_seqno + 1
  /\ UNCHANGED <<procVars, dbVars, phase, errors, crashes>>

----------------------------------------------------------------------------
(* The scheduler *)

LastKnownSeqno ==
  /\ phase = "run"
  /\ got_last_known_seqno(mc_seqno)
  /\ UNCHANGED <<processing_seqnos, existing_seqnos, imVars, stage, pc, dbVars, phase, mc_seqno,
                 errors, crashes>>

\* schedule_next_seqnos, last statement: stop(), and the watcher that goes with
\* the actor ends the process.
Ends(left) == To > 0 /\ last_known_seqno > To /\ left = << >>

\* got_insert_queue_state and the schedule_next_seqnos it sends, entered with
\* processing set p and workers st.
got_insert_queue_state(status, p, st) ==
  IF Fits(status, MaxQueue)
  THEN \E n \in 0 .. Len(queued_seqnos) :
         /\ schedule_next_seqnos(n, p)
         /\ phase' = IF Ends(queued_seqnos') THEN "ended" ELSE "run"
         /\ stage' = [s \in Seqno |-> IF \E i \in 1 .. n : queued_seqnos[i] = s
                                      THEN "fetch" ELSE st[s]]
  ELSE /\ processing_seqnos' = p
       /\ stage' = st
       /\ UNCHANGED <<queued_seqnos, phase>>

Alarm ==
  /\ phase = "run"
  /\ got_insert_queue_state(queue_state, processing_seqnos, stage)
  /\ UNCHANGED <<existing_seqnos, last_known_seqno, imVars, pc, dbVars, mc_seqno, errors, crashes>>

Moved(s, from, to) ==
  /\ phase = "run"
  /\ stage[s] = from
  /\ stage' = [stage EXCEPT ![s] = to]
  /\ UNCHANGED <<schedVars, imVars, pc, dbVars, phase, mc_seqno, errors, crashes>>

seqno_fetched(s) == Moved(s, "fetch", "parse")
seqno_parsed(s) == Moved(s, "parse", "events")

\* EventProcessor::process is done: the block goes to the insert manager, whose
\* answer runs seqno_queued_to_insert.
seqno_interfaces_processed(s) ==
  /\ phase = "run"
  /\ stage[s] = "events"
  /\ insert(s)
  /\ got_insert_queue_state(queue_state', processing_seqnos \ {s}, [stage EXCEPT ![s] = "idle"])
  /\ UNCHANGED <<existing_seqnos, last_known_seqno, pc, dbVars, mc_seqno, errors, crashes>>

WorkerError(s) ==
  /\ phase = "run"
  /\ stage[s] # "idle"
  /\ errors < MaxErrors /\ errors' = errors + 1
  /\ reschedule_seqno(s)
  /\ stage' = [stage EXCEPT ![s] = "idle"]
  /\ UNCHANGED <<existing_seqnos, last_known_seqno, imVars, pc, dbVars, phase, mc_seqno, crashes>>

----------------------------------------------------------------------------
(* The insert actors: InsertBatchClickhouse::start_up calls the insert_...   *)
(* functions in this order.                                                  *)

First == "transactions"

\* The insert actors after the manager has cut new batches: a new one starts at
\* the first function.
Continued == [b \in insert_actors' |-> IF b \in DOMAIN pc THEN pc[b] ELSE First]

InsertAlarm ==
  /\ phase = "run"
  /\ imAlarm
  /\ pc' = Continued
  /\ UNCHANGED <<schedVars, stage, dbVars, phase, mc_seqno, errors, crashes>>

\* insert_nfts, insert_jettons and insert_account_states send the newest
\* version of each entity of a batch; a later block has a higher version.
NewestOf(batch) == Max(batch)

\* The tables ts have got the rows of batch; ReplacingMergeTree keeps the
\* highest version.
Sent(batch, ts) ==
  /\ rows' = [t \in Table |-> IF t \in ts THEN rows[t] \cup batch ELSE rows[t]]
  /\ newest' = [t \in EntityTable |->
                  IF t \in ts THEN Max({newest[t], NewestOf(batch)}) ELSE newest[t]]

\* Mutant of Failed: the tasks are not answered.
FailedSilently(batch) == UNCHANGED <<queued_seqnos, processing_seqnos>>

\* The exception reaches start_up: every task of the batch is answered with an
\* error, which reschedules its seqno.
Failed(batch) ==
  /\ \E again \in Upward(batch) : queued_seqnos' = queued_seqnos \o again
  /\ processing_seqnos' = processing_seqnos \ batch

\* InsertManagerBase goes on after a batch that has failed as after any other.
Finished(batch) ==
  /\ insert_batch_finished(batch)
  /\ pc' = Continued

\* The function at pc[batch] has inserted all its tables, ts; the actor goes on
\* with the next one.
InsertsAll(batch, at, ts, next) ==
  /\ phase = "run"
  /\ pc[batch] = at
  /\ Sent(batch, Elements(ts))
  /\ pc' = [pc EXCEPT ![batch] = next]
  /\ UNCHANGED <<schedVars, imVars, stage, phase, mc_seqno, errors, crashes>>

\* The function has thrown after it sent the first k of its tables; the last of
\* them may have arrived although the client got no answer.
InsertsSome(batch, at, ts) ==
  /\ phase = "run"
  /\ pc[batch] = at
  /\ errors < MaxErrors /\ errors' = errors + 1
  /\ \E k \in 0 .. Len(ts) : Sent(batch, {ts[i] : i \in 1 .. k})
  /\ Failed(batch) /\ Finished(batch)
  /\ UNCHANGED <<existing_seqnos, last_known_seqno, stage, phase, mc_seqno, crashes>>

\* What insert_transactions makes of every batch: the block of columns the
\* client is given, if it can be put together, and its rows.
TransactionBlocks ==
  {LET order == CHOOSE q \in Upward(batch) : TRUE
       columns == Columns(FlattenSeq([i \in 1 .. Len(order) |-> TxsOf[order[i]]]))
       aligned == Aligned(columns)
   IN  [batch |-> batch, aligned |-> aligned,
        rows |-> IF aligned THEN RowsSent(columns) ELSE {}] : batch \in SUBSET Seqno}

TransactionBlock(batch) == CHOOSE block \in TransactionBlocks : block.batch = batch

\* Misaligned columns make the client throw before anything is sent.
insert_transactions(batch) ==
  IF TransactionBlock(batch).aligned
  THEN /\ InsertsAll(batch, "transactions", <<"transactions">>, "messages")
       /\ tx_rows' = tx_rows \cup TransactionBlock(batch).rows
  ELSE /\ phase = "run" /\ pc[batch] = "transactions"
       /\ Failed(batch) /\ Finished(batch)
       /\ UNCHANGED <<existing_seqnos, last_known_seqno, stage, dbVars, phase, mc_seqno, errors,
                      crashes>>

insert_transactions_throws(batch) ==
  /\ TransactionBlock(batch).aligned
  /\ InsertsSome(batch, "transactions", <<"transactions">>)
  /\ tx_rows' = IF batch \subseteq rows'["transactions"]
                THEN tx_rows \cup TransactionBlock(batch).rows ELSE tx_rows

insert_messages(batch) == InsertsAll(batch, "messages", MessageTables, "account_states")

insert_account_states(batch) ==
  InsertsAll(batch, "account_states", AccountTables, "shard_state")

insert_shard_state(batch) == InsertsAll(batch, "shard_state", <<"shard_state">>, "nfts")

\* Mutant of insert_nfts: the jettons are written after the blocks.
insert_nfts_late(batch) == InsertsAll(batch, "nfts", NftTables, "blocks")

insert_nfts(batch) == InsertsAll(batch, "nfts", NftTables, "jettons")

insert_jettons(batch) == InsertsAll(batch, "jettons", JettonTables, "blocks")

insert_throws(batch) ==
  /\ \/ InsertsSome(batch, "messages", MessageTables)
     \/ InsertsSome(batch, "account_states", AccountTables)
     \/ InsertsSome(batch, "shard_state", <<"shard_state">>)
     \/ InsertsSome(batch, "nfts", NftTables)
     \/ InsertsSome(batch, "jettons", JettonTables)
     \/ InsertsSome(batch, "blocks", <<"blocks">>)
  /\ UNCHANGED tx_rows

\* insert_blocks is the last one: the tasks and the manager are answered.
insert_blocks(batch) ==
  /\ phase = "run"
  /\ pc[batch] = "blocks"
  /\ Sent(batch, {"blocks"})
  /\ seqno_inserted(batch)
  /\ Finished(batch)
  /\ UNCHANGED <<queued_seqnos, processing_seqnos, last_known_seqno, stage, tx_rows, phase,
                 mc_seqno, errors, crashes>>

----------------------------------------------------------------------------
Work(s) == seqno_fetched(s) \/ seqno_parsed(s) \/ seqno_interfaces_processed(s)

Insert(batch) ==
  \/ insert_transactions(batch)
  \/ /\ \/ insert_messages(batch) \/ insert_account_states(batch) \/ insert_shard_state(batch)
        \/ insert_nfts(batch) \/ insert_jettons(batch)
     /\ UNCHANGED tx_rows
  \/ insert_blocks(batch)

\* The process has ended, or was never started, and stays so.
Stopped == phase \in {"ended", "unstarted"} /\ UNCHANGED vars

Next == \/ Start \/ StartError \/ Crash \/ ChainGrows
        \/ LastKnownSeqno \/ Alarm
        \/ \E s \in Seqno : Work(s) \/ WorkerError(s)
        \/ InsertAlarm
        \/ \E b \in insert_actors : Insert(b) \/ insert_transactions_throws(b) \/ insert_throws(b)
        \/ Stopped

\* Actors run what they are sent and timers fire; how often the workers and the
\* database fail is bounded.  The process as a whole going on is enough: none of
\* these steps can be repeated forever.
Progress == \/ Start
            \/ \E s \in Seqno : Work(s)
            \/ \E b \in insert_actors : Insert(b)
            \/ LastKnownSeqno \/ Alarm \/ InsertAlarm

Fairness == WF_vars(Progress)

Spec == Init /\ [][Next]_vars
FairSpec == Spec /\ Fairness

----------------------------------------------------------------------------
(* Properties *)

\* Every variable has its type; every live insert actor is in a function.
TypeOK ==
  /\ Elements(queued_seqnos) \cup processing_seqnos \cup existing_seqnos \subseteq Seqno
  /\ phase \in {"down", "run", "unstarted", "ended"}
  /\ stage \in [Seqno -> {"idle", "fetch", "parse", "events"}]
  /\ DOMAIN pc = insert_actors
  /\ rows \in [Table -> SUBSET Seqno] /\ newest \in [EntityTable -> Seqno]

\* A block that table blocks has, and that a restart therefore skips, has its
\* rows in every other table: no insert that fails, no crash between two
\* tables and no second attempt leaves a block half written for good.
CompleteBlocks == \A t \in Table : rows["blocks"] \subseteq rows[t]

\* Every row of table transactions is the row of one transaction, with a NULL
\* exactly where its description has nothing: no combination of descriptions
\* in a batch shifts a value into the row of another transaction.
ExactRows ==
  \A r \in tx_rows :
    \E s \in Seqno : \E tx \in Elements(TxsOf[s]) : r["hash"] = tx.id /\ IsRowOf(r, tx)

\* An entity table returns the newest version it was ever sent, although
\* batches are written out of order and again after a failure.
NewestKept == \A t \in EntityTable : newest[t] = Max(rows[t] \cup {0})

\* Every wanted seqno the scheduler knows of is queued, in work, with the
\* insert manager or done, also after a batch that failed half-way.
NothingLost ==
  phase = "run" =>
    \A s \in 1 .. last_known_seqno :
      InRange(s) => s \in Elements(queued_seqnos) \cup processing_seqnos \cup existing_seqnos
                          \cup Elements(insert_queue) \cup UNION insert_actors

\* Without an end every block of the chain is eventually complete in the
\* database; with one, the process ends.
IndexedOrEnded ==
  \A s \in 1 .. MaxMcSeqno :
    InRange(s) /\ mc_seqno >= s ~> s \in rows["blocks"] \/ phase \in {"ended", "unstarted"}
=============================================================================
