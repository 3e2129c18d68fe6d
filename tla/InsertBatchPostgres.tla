------------------------ MODULE InsertBatchPostgres -------------------------
(***************************************************************************)
(* The insert actors of ton-index-postgres-v2 at work on one PostgreSQL    *)
(* database (InsertManagerPostgres.cpp): every actor writes its batch of   *)
(* masterchain blocks in one transaction, again and again until it is      *)
(* committed.  The actors share the set msg_bodies_in_progress and the     *)
(* mutex latest_account_states_update_mutex.                               *)
(*                                                                         *)
(* Three kinds of rows are told apart.  The rows of the tables blocks,     *)
(* shard_state, transactions, messages, account_states, traces and the     *)
(* transfers belong to one block each.  Message bodies are shared by       *)
(* blocks.  Entities (latest_account_states and the tables of the detected *)
(* interfaces, dns_entries excepted) have a row per address that the       *)
(* newest version replaces.                                                *)
(*                                                                         *)
(* PostgreSQL is external: a transaction takes effect at commit, and a     *)
(* statement waits while another transaction holds a row with its key.     *)
(***************************************************************************)
EXTENDS Integers, FiniteSets

CONSTANTS
  Batch,         \* insert actors
  NoBatch,
  Block,         \* masterchain blocks
  Tasks,         \* Tasks[b]: the blocks of batch b
  Body,
  Bodies,        \* Bodies[k]: bodies and init states of the messages of block k
  Entity,
  Version,       \* Version[k][e]: lt of entity e in block k, 0 when k has none
  StoredBefore,  \* blocks an earlier process has committed
  MaxFailures    \* bound on lost connections and other errors

ASSUME BatchAssumption ==
  /\ NoBatch \notin Batch
  /\ Tasks \in [Batch -> SUBSET Block]
  /\ \A b, c \in Batch : b # c => Tasks[b] \cap Tasks[c] = {}
  /\ Bodies \in [Block -> SUBSET Body]
  /\ Version \in [Block -> [Entity -> Nat]]
  /\ StoredBefore \subseteq Block
  /\ MaxFailures \in Nat

\* A batch is finite and not empty, so one of its blocks has the newest version.
ASSUME NewestAssumption ==
  \A b \in Batch, e \in Entity :
    \E k \in Tasks[b] : \A j \in Tasks[b] : Version[j][e] <= Version[k][e]

\* The versions of entities and the bodies an earlier process has left.
ASSUME BeforeAssumption ==
  \A e \in Entity : StoredBefore = {}
    \/ \E k \in StoredBefore : \A j \in StoredBefore : Version[j][e] <= Version[k][e]

VARIABLES
  pc,                      \* where alarm() of the actor is
  with_copy,               \* with_copy_
  msg_bodies,              \* local vector of insert_messages, to be unlocked
  todo,                    \* bodies the running statement has still to insert
  written, upserted,       \* bodies and entities whose rows the transaction holds
  msg_bodies_in_progress,
  states_mutex,            \* owner of latest_account_states_update_mutex
  stored, contents, latest,   \* committed: blocks, message_contents, entities
  failures

local == <<msg_bodies, todo, written, upserted>>
shared == <<msg_bodies_in_progress, states_mutex>>
database == <<stored, contents, latest>>
vars == <<pc, with_copy, local, shared, database, failures>>

\* v is the newest version of e in the blocks K.
IsNewest(v, e, K) ==
  IF K = {} THEN v = 0
  ELSE (\E k \in K : v = Version[k][e]) /\ \A k \in K : Version[k][e] <= v

\* The row of e a batch writes: the newest version in its blocks, if any.
Newest(b, e) ==
  CHOOSE v \in {Version[k][e] : k \in Tasks[b]} : \A k \in Tasks[b] : Version[k][e] <= v

BodiesOf(K) == UNION {Bodies[k] : k \in K}

Init ==
  /\ pc = [b \in Batch |-> "insert_blocks"]
  /\ with_copy = [b \in Batch |-> TRUE]
  /\ msg_bodies = [b \in Batch |-> {}]
  /\ todo = [b \in Batch |-> {}]
  /\ written = [b \in Batch |-> {}]
  /\ upserted = [b \in Batch |-> {}]
  /\ msg_bodies_in_progress = {}
  /\ states_mutex = NoBatch
  /\ stored = StoredBefore
  /\ contents = BodiesOf(StoredBefore)
  /\ latest = [e \in Entity |-> CHOOSE v \in {0} \cup {Version[k][e] : k \in StoredBefore} :
                                  IsNewest(v, e, StoredBefore)]
  /\ failures = 0

----------------------------------------------------------------------------
(* One attempt *)

\* The transaction is rolled back and its locals are gone; what the actor has
\* put into msg_bodies_in_progress stays.
RolledBack(b) ==
  /\ pc' = [pc EXCEPT ![b] = "insert_blocks"]
  /\ msg_bodies' = [msg_bodies EXCEPT ![b] = {}]
  /\ todo' = [todo EXCEPT ![b] = {}]
  /\ written' = [written EXCEPT ![b] = {}]
  /\ upserted' = [upserted EXCEPT ![b] = {}]

\* Mutant of conflict: COPY is tried again.
conflict_copies(b) ==
  /\ pc[b] = "insert_blocks" /\ with_copy[b] /\ Tasks[b] \cap stored # {}
  /\ RolledBack(b)
  /\ UNCHANGED <<with_copy, shared, database, failures>>

\* COPY meets a row that exists: integrity_constraint_violation.  The tables of
\* a block are committed together, so the first one, blocks, reports it.
conflict(b) ==
  /\ pc[b] = "insert_blocks" /\ with_copy[b] /\ Tasks[b] \cap stored # {}
  /\ with_copy' = [with_copy EXCEPT ![b] = FALSE]
  /\ RolledBack(b)
  /\ UNCHANGED <<shared, database, failures>>

\* PopulateTableStream writes the rows of the blocks of b to one table: COPY of
\* rows that are new, or INSERT ... ON CONFLICT DO NOTHING.
Populate(b, table, next) ==
  /\ pc[b] = table
  /\ with_copy[b] => Tasks[b] \cap stored = {}
  /\ pc' = [pc EXCEPT ![b] = next]
  /\ UNCHANGED <<with_copy, local, shared, database, failures>>

insert_blocks(b) == Populate(b, "insert_blocks", "insert_shard_state")

insert_shard_state(b) == Populate(b, "insert_shard_state", "insert_transactions")

insert_transactions(b) == Populate(b, "insert_transactions", "lock_msg_bodies")

\* Mutant of lock_msg_bodies: every actor writes all its bodies.
lock_msg_bodies_all(b) ==
  /\ pc[b] = "lock_msg_bodies"
  /\ LET mine == BodiesOf(Tasks[b])
     IN  /\ msg_bodies' = [msg_bodies EXCEPT ![b] = mine]
         /\ todo' = [todo EXCEPT ![b] = mine]
         /\ msg_bodies_in_progress' = msg_bodies_in_progress \cup mine
  /\ pc' = [pc EXCEPT ![b] = "insert_messages"]
  /\ UNCHANGED <<with_copy, written, upserted, states_mutex, database, failures>>

\* insert_messages under messages_in_progress_mutex: the actor takes the bodies
\* that no other one is inserting.
lock_msg_bodies(b) ==
  /\ pc[b] = "lock_msg_bodies"
  /\ LET mine == BodiesOf(Tasks[b]) \ msg_bodies_in_progress
     IN  /\ msg_bodies' = [msg_bodies EXCEPT ![b] = mine]
         /\ todo' = [todo EXCEPT ![b] = mine]
         /\ msg_bodies_in_progress' = msg_bodies_in_progress \cup mine
  /\ pc' = [pc EXCEPT ![b] = "insert_messages"]
  /\ UNCHANGED <<with_copy, written, upserted, states_mutex, database, failures>>

insert_messages(b) == Populate(b, "insert_messages", "insert_bodies")

\* The statement on message_contents inserts one row; an existing row is left
\* alone, a row of a running transaction is waited for.
insert_body(b, m) ==
  /\ pc[b] = "insert_bodies"
  /\ m \in todo[b]
  /\ \A c \in Batch \ {b} : m \notin written[c]
  /\ todo' = [todo EXCEPT ![b] = @ \ {m}]
  /\ written' = [written EXCEPT ![b] = IF m \in contents THEN @ ELSE @ \cup {m}]
  /\ UNCHANGED <<pc, with_copy, msg_bodies, upserted, shared, database, failures>>

\* Mutant of unlock_msg_bodies: the statement is not finished.
unlock_msg_bodies_unfinished(b) ==
  /\ pc[b] = "insert_bodies"
  /\ todo' = [todo EXCEPT ![b] = {}]
  /\ msg_bodies_in_progress' = msg_bodies_in_progress \ msg_bodies[b]
  /\ msg_bodies' = [msg_bodies EXCEPT ![b] = {}]
  /\ pc' = [pc EXCEPT ![b] = "insert_account_states"]
  /\ UNCHANGED <<with_copy, written, upserted, states_mutex, database, failures>>

\* The end of insert_messages, before the transaction is committed.
unlock_msg_bodies(b) ==
  /\ pc[b] = "insert_bodies"
  /\ todo[b] = {}
  /\ msg_bodies_in_progress' = msg_bodies_in_progress \ msg_bodies[b]
  /\ msg_bodies' = [msg_bodies EXCEPT ![b] = {}]
  /\ pc' = [pc EXCEPT ![b] = "insert_account_states"]
  /\ UNCHANGED <<with_copy, todo, written, upserted, states_mutex, database, failures>>

insert_account_states(b) == Populate(b, "insert_account_states", "insert_jetton_transfers")

insert_jetton_transfers(b) == Populate(b, "insert_jetton_transfers", "insert_jetton_burns")

insert_jetton_burns(b) == Populate(b, "insert_jetton_burns", "insert_nft_transfers")

insert_nft_transfers(b) == Populate(b, "insert_nft_transfers", "insert_traces")

\* A trace is written with the block that completes it.
insert_traces(b) == Populate(b, "insert_traces", "lock_states")

----------------------------------------------------------------------------
(* The newest versions *)

\* lock_guard on latest_account_states_update_mutex.
lock_states(b) ==
  /\ pc[b] = "lock_states"
  /\ states_mutex = NoBatch
  /\ states_mutex' = b
  /\ pc' = [pc EXCEPT ![b] = "upsert"]
  /\ UNCHANGED <<with_copy, local, msg_bodies_in_progress, database, failures>>

\* The entities insert_under_mutex_query has a row for.
Upserts(b) == {e \in Entity : Newest(b, e) > 0}

\* exec0 of insert_under_mutex_query locks one row.
upsert_row(b, e) ==
  /\ pc[b] = "upsert"
  /\ e \in Upserts(b) \ upserted[b]
  /\ \A c \in Batch \ {b} : e \notin upserted[c]
  /\ upserted' = [upserted EXCEPT ![b] = @ \cup {e}]
  /\ UNCHANGED <<pc, with_copy, msg_bodies, todo, written, shared, database, failures>>

\* Mutant of Replaced: the last writer wins.
ReplacedAlways(b, old) ==
  [e \in Entity |-> IF Newest(b, e) > 0 THEN Newest(b, e) ELSE old[e]]

\* ON CONFLICT DO UPDATE ... WHERE last_trans_lt < EXCLUDED.last_trans_lt.
Replaced(b, old) ==
  [e \in Entity |-> IF old[e] < Newest(b, e) THEN Newest(b, e) ELSE old[e]]

\* The transaction takes effect and the guard releases the mutex.
Committed(b) ==
  /\ pc[b] = "upsert"
  /\ Upserts(b) \subseteq upserted[b]
  /\ stored' = stored \cup Tasks[b]
  /\ contents' = contents \cup written[b]
  /\ latest' = Replaced(b, latest)
  /\ states_mutex' = IF states_mutex = b THEN NoBatch ELSE states_mutex
  /\ UNCHANGED <<with_copy, msg_bodies_in_progress>>

\* commit() returns; the promises are kept and the actor stops.
commit(b) ==
  /\ Committed(b)
  /\ pc' = [pc EXCEPT ![b] = "done"]
  /\ written' = [written EXCEPT ![b] = {}]
  /\ upserted' = [upserted EXCEPT ![b] = {}]
  /\ UNCHANGED <<msg_bodies, todo, failures>>

\* The connection is lost after the server has committed.
commit_in_doubt(b) ==
  /\ failures < MaxFailures
  /\ failures' = failures + 1
  /\ Committed(b)
  /\ RolledBack(b)

\* Any other exception: the attempt is repeated a second later.
exception(b) ==
  /\ failures < MaxFailures
  /\ failures' = failures + 1
  /\ pc[b] # "done"
  /\ RolledBack(b)
  /\ states_mutex' = IF states_mutex = b THEN NoBatch ELSE states_mutex
  /\ UNCHANGED <<with_copy, msg_bodies_in_progress, database>>

\* alarm() of the actor goes on.
Attempt(b) ==
  \/ conflict(b) \/ insert_blocks(b) \/ insert_shard_state(b) \/ insert_transactions(b)
  \/ lock_msg_bodies(b) \/ insert_messages(b)
  \/ \E m \in Body : insert_body(b, m)
  \/ unlock_msg_bodies(b)
  \/ insert_account_states(b) \/ insert_jetton_transfers(b) \/ insert_jetton_burns(b)
  \/ insert_nft_transfers(b) \/ insert_traces(b)
  \/ lock_states(b)
  \/ \E e \in Entity : upsert_row(b, e)
  \/ commit(b)

\* All actors have stopped.
Finished == (\A b \in Batch : pc[b] = "done") /\ UNCHANGED vars

Next == \/ \E b \in Batch : Attempt(b) \/ commit_in_doubt(b) \/ exception(b)
        \/ Finished

Spec == Init /\ [][Next]_vars

\* Actors run, alarms fire and PostgreSQL answers.
FairSpec == Spec /\ \A b \in Batch : WF_vars(Attempt(b))

----------------------------------------------------------------------------
(* Properties *)

\* An attempt up to message_contents, the statements after it, and the rest.
First == {"insert_blocks", "insert_shard_state", "insert_transactions",
          "lock_msg_bodies", "insert_messages", "insert_bodies"}
Second == {"insert_account_states", "insert_jetton_transfers", "insert_jetton_burns",
           "insert_nft_transfers", "insert_traces", "lock_states"}
Third == {"upsert", "done"}

\* Every variable has its type.
TypeOK ==
  /\ pc \in [Batch -> First \cup Second \cup Third]
  /\ with_copy \in [Batch -> BOOLEAN]
  /\ msg_bodies \in [Batch -> SUBSET Body]
  /\ todo \in [Batch -> SUBSET Body]
  /\ written \in [Batch -> SUBSET Body]
  /\ upserted \in [Batch -> SUBSET Entity]
  /\ msg_bodies_in_progress \subseteq Body
  /\ states_mutex \in Batch \cup {NoBatch}
  /\ stored \subseteq Block
  /\ contents \subseteq Body
  /\ latest \in [Entity -> Nat]
  /\ failures \in 0 .. MaxFailures

Part(stage) == IF stage \in First THEN 1 ELSE IF stage \in Second THEN 2 ELSE 3

\* Actor b may have to wait for actor c: for a row or for the mutex.
Waits(b, c) ==
  \/ pc[b] = "insert_bodies" /\ todo[b] \cap written[c] # {}
  \/ pc[b] = "lock_states" /\ states_mutex = c
  \/ pc[b] = "upsert" /\ (Upserts(b) \ upserted[b]) \cap upserted[c] # {}

\* Whoever waits, waits for an actor in a later part of its attempt, so the
\* actors never wait for each other in a circle: PostgreSQL detects no deadlock, as the
\* comment on msg_bodies_in_progress says, and the mutex adds none.
WaitsForward ==
  \A b, c \in Batch : b # c /\ Waits(b, c) => Part(pc[c]) > Part(pc[b])

\* The tables of newest versions hold the newest version in all committed
\* blocks, in whatever order the batches are committed and repeated.
LatestIsNewest ==
  \A e \in Entity :
    /\ \A k \in stored : Version[k][e] <= latest[e]
    /\ latest[e] = 0 \/ \E k \in stored : latest[e] = Version[k][e]

\* The body of a stored message is stored, or an actor that has not finished
\* will insert it, or it is marked as being inserted.
BodiesAccounted ==
  \A m \in BodiesOf(stored) :
    \/ m \in contents
    \/ m \in msg_bodies_in_progress
    \/ \E b \in Batch : pc[b] # "done" /\ m \in BodiesOf(Tasks[b])

\* Every batch is committed and reported in the end, whatever was stored before.
EventuallyInserted == <>(\A b \in Batch : pc[b] = "done" /\ Tasks[b] \subseteq stored)

\* When all actors have stopped the bodies of all stored messages are stored:
\* the lock only "prevent[s] multiple parallel queries for the same message", as
\* the comment on lock_msg_body says.  It does not hold: an attempt that throws
\* keeps its locks, and its repetition skips the bodies (README, section 5).
BodiesStored == (\A b \in Batch : pc[b] = "done") => BodiesOf(stored) \subseteq contents
=============================================================================
