# Verification of the TON index worker

TLA+ specifications of the programs in `src/`, the TLC configurations that
check them on small instances, and TLAPS proofs of the most important
properties for every value of the constants. `PROJECT.json` lists the runs,
the source lines every definition stands for, the hazards and the findings.

## 1. The system

The worker reads a TON node's database, parses every masterchain block with
its shard blocks, and writes the result to PostgreSQL (or ClickHouse). All
programs are built from actors: an actor handles one closure at a time, from a
FIFO mailbox, and answers through promises, alarms and delayed actions.

| Part | Source | Status |
| --- | --- | --- |
| IndexScheduler: which block is where | `ton-index-postgres-v2/src/IndexScheduler.*` | `IndexScheduler`, `IndexPipeline` |
| DbScanner, IndexQuery: read a masterchain block and its shard blocks | `tondb-scanner/src/DbScanner.*` | `IndexQuery`; a worker of `IndexPipeline` |
| ParseManager, DataParser: cells to rows | `tondb-scanner/src/DataParser.*` | a worker of `IndexPipeline`; the conversion is not modelled |
| TraceAssembler: groups transactions into traces | `tondb-scanner/src/TraceAssembler.*` | `TraceAssembler`, `TraceRecovery` |
| BlockInterfaceProcessor, ActionDetector: tokens and their actions | `BlockInterfacesDetector.h` | workers of `IndexPipeline` |
| InsertManagerBase: queue and batches | `tondb-scanner/src/InsertManagerBase.*`, `queue_state.*` | `InsertManagerBase` |
| InsertBatchPostgres: one batch, one transaction | `ton-index-postgres-v2/src/InsertManagerPostgres.*` | `InsertBatchPostgres`, `InsertBatchProofs` |
| ton-index-postgres, the first indexer | `ton-index-postgres/src/` | `LegacyIndex` |
| EventProcessor and its detectors, used by the first indexer | `EventProcessor.*`, `InterfaceDetectors.hpp` | `EventProcessor` |
| ton-index-clickhouse | `ton-index-clickhouse/src/` | `ClickhouseIndex`, `ClickhouseColumns` |
| ton-integrity-checker | `ton-integrity-checker/src/` | `IntegrityChecker` |
| ton-smc-scanner | `ton-smc-scanner/src/` | `SmcScanner` |
| ton-trace-emulator | `ton-trace-emulator/src/` | `ChainFollower`, `TraceTree`, `TraceBlocks` |
| ton-trace-task-emulator | `ton-trace-task-emulator/src/` | `ChainFollower`, `TraceTree`, `TraceTask` |
| celldb-migrate, ton-emulate-go, pgton, scripts | | not modelled (section 7) |

## 2. Modules

`InsertManagerBase`  the insert manager. `insert_queue`, `queue_state`,
`parallel_insert_actors` are the members of the same name; `insert_actors` is
the set of batches some insert actor holds. `insert`, `imAlarm` and
`insert_batch_finished` are the three handlers that change them. The two nested
loops of `schedule_next_insert_batches` are described by what they produce: the
number of tasks popped and the batch each goes to.

`IndexScheduler`  the state of the scheduler and what its handlers do to it.
Seqnos are unsigned: `SeqnoLimit` stands for 2^32.

`IndexPipeline`  the indexer as a whole. It extends the two modules above and
adds the workers (`stage` says which one has a block), the assembler's queue
and `expected_seqno_`, the mailbox of closures the insert manager sends to the
scheduler (they carry the size of the queue when they were sent, and are old
when they are handled), the committed blocks `db`, the state files `tastates`,
errors of workers, crashes and restarts. Start-up is one action: until it ends
no other handler runs. A worker's answer and the scheduler's hand-over to the
next worker are one step, because the hand-over reads and changes nothing else.

`TraceAssembler`  the assembler's data: `pending_traces_`, `pending_edges_`,
the objects behind the shared pointers (`heap`), the delayed saves and the state
files. `process_transaction` and `process_block` are functions from maps to
maps. A trace is named by its first transaction; of an edge only the trace it
belongs to is kept.

`TraceRecovery`  the assembler between a chain and the tables `transactions`
and `traces`, with crashes. It defines, without the assembler, which traces a
chain has (`Root`, `Tree`, `Whole`, `TrueRow`), and compares the tables with it.

`InsertBatchPostgres`  the insert actors at one database. `pc` is the next
statement of `alarm()`; `written` and `upserted` are the rows an open transaction
holds, which other transactions wait for. The rows of a statement are written one
by one and in any order, because the order in which a batch lists its bodies and
addresses is arbitrary. Rows that belong to one block only are not kept apart:
they are committed together, so `stored` is a set of blocks. The set
`msg_bodies_in_progress` outlives an attempt; the vector `msg_bodies` does not.

`IndexQuery`  one query of the node's database: the generations of the walk, the
joins of `MultiPromise` and of `GetBlockDataState`. A join is done when all reads
are answered and the messages that hold their promises are handled.

`IntegrityChecker`  start-up with and without a checkpoint and its failures (an
unreadable checkpoint ends the process, an unreadable seqno leaves it waiting for
ever, phase "stalled"), the binary search for
the oldest block with a state, the fetch and parse loops with their limits, the
delayed call that resumes fetching, the alarm that saves the checkpoint, exits
and restarts.

`IndexLedger`  the abstract specification: a run of the process takes the blocks
in order from a frontier its start has chosen and commits each block it has taken
at most once; a start leaves no hole above the lowest stored block.
`IndexPipelineLedger` maps the pipeline's state to it: `frontier` is
`expected_seqno_`, `pending` what has left the assembler and is not committed.

`ClickhouseIndex`  the indexer for ClickHouse. It shares the handlers of
`IndexScheduler` and `InsertManagerBase`; its batch writes table after table without
a transaction, `blocks` last, so `pc` is the `insert_...` function a batch is in and
what it wrote stays when it fails. `ClickhouseColumns` is `insert_transactions`
column by column: every `Append` of every branch, and the rows that result.

`LegacyIndex`  the first indexer: the scheduler without an assembler, insert actors in
one transaction each, the static sets `messages_in_progress` and
`msg_bodies_in_progress` they share (one set of messages and bodies here), and the rows
of its tables. `failed_marks` and `dropped` are history: what failed batches have left
marked, and what was left to a batch that did not store it. It extends `EventProcessor`,
in which a request to a detector is a record that moves from handler to handler
(`detect`, `detect_continue`, `detect_impl`, `verify_belonging`, `detect_from_shard`,
`add_to_cache`, `parse_event`), so that requests of two blocks interleave at the caches
they share. What a get method answers in a state is a constant.

`SmcScanner`  the scanners of the shards with their batches, the parsers, the
insert manager with its checkpoints, failed queries, crashes, and an indexer that
writes to the same tables.

`ChainFollower`  the part the two emulators have in common: which blocks are known,
asked for and fetched. `TraceTree`  emulation of a trace by an actor for each
account: the messages in each mailbox, the stack of states of an account, the
promises of a node for its children, errors. `emulate` is one step although the lock
of `emulated_accounts_` is released inside it: an address has one actor in a trace
(`emulator_actors_`), and only that actor touches the entries of the address.
`TraceBlocks`  the emulator of whole
blocks: emulators of consecutive blocks share `interblock_trace_ids_`, which they read
and write one transaction at a time (`process_tx`), two listeners bring external
messages, and `TraceInserter` looks up what it replaces in Redis with one read at a
time (`delete_db_subtree`), outside its transaction; `unseen` is history: what others
wrote meanwhile. The sorted sets by address are written in the same Redis transaction
as the hash of a trace and name the same nodes, so they are not a variable.
`TraceTask`  the emulator of single tasks, from the
Redis list to the published answer.

`MCIndexPipeline`, `MCTraceRecovery`, `MCInsertBatch`, `MCIndexQuery`,
`MCIntegrityChecker`, `MCSmcScanner`, `MCClickhouseIndex`, `MCTraceBlocks`,
`MCTraceTask`, `MCLegacyIndex`  instances for TLC.

`IndexPipelineTypes`, `IndexPipelineBoundSteps`, `IndexPipelineBound`,
`IndexPipelineSafety`, `IndexLedgerInvariant`, `IndexLedgerProofs`,
`InsertBatchProofs`  theorems and proofs.

## 3. Runs

| Run | Expect | What it shows |
| --- | --- | --- |
| `pipeline_crash` | pass | A worker or a read fails and the process crashes, anywhere. No block is lost (`NothingLost`), in two places (`HeldOnce`) or assembled late (`NoStaleAssemble`); the insert queue is bounded (`QueueBound`) and its running size exact (`SizeMatchesQueue`); the pipeline implements the ledger (`ImplementsLedger`), by which a restart leaves no hole inside the stored range. |
| `pipeline_live` | pass | With two active tasks and one error every wanted block is eventually stored, unless later blocks fill all places and wait for it (`Starved`) or the start loops (`EventuallyIndexed`, section 5); states are well typed (`TypeOK`). |
| `trace_recovery` | pass | Table `traces` holds exactly the whole traces of the chain and every transaction the right trace id, across a crash. |
| `trace_snapshot` | violation | A state file packed after the next block was assembled loses a trace after a restart. |
| `insert_batch` | pass | Three actors with common bodies and entities, a block stored before, a failure anywhere: waits go forward only (`WaitsForward`), newest versions win (`LatestIsNewest`), no body is forgotten (`BodiesAccounted`), every batch is committed in the end. |
| `index_query` | pass | Every masterchain block of a chain with a zero state, an idle block, a split and a merge is answered exactly (`AnswerIsExact`), whatever the order of answers and whichever read fails (`EventuallyAnswered`). |
| `integrity` | pass | The search brackets the oldest state (`SearchBrackets`), success means that all blocks were fetched (`SuccessMeansFetched`), the checkpoint never passes a block the process has not verified (`CheckpointBelowGap`), and the check ends (`Terminates`). |
| `clickhouse` | pass | Every kind of transaction description, an insert or a worker fails, the process crashes or ends: a block that counts as done has its rows in every table (`CompleteBlocks`), no value gets into another transaction's row (`ExactRows`; `hash_before` is left out, section 5), every block is indexed unless the process has ended (`IndexedOrEnded`). |
| `smc_scanner` | pass | Two shards, a failed query, a crash, restart from the checkpoints, an indexer writing meanwhile: only accounts that were under way when something failed can be missing (`NothingSkipped`), an account and its interface have one version (`SameVersion`), the scan ends (`ScanEnds`). |
| `trace_blocks` | pass | Consecutive blocks share a trace while both listeners bring messages: blocks are emulated in order, each once (`EmulatedInOrder`), no transaction gets into another trace (`RightTrace`), what emulation expected wrongly goes when the real transaction comes, unless it was written during the look-ups (`StaleOnlyByRace`), no trace stays in progress (`TraceEnds`), emulation catches up with the chain (`CatchesUp`). |
| `trace_task` | pass | Traces that visit an account twice while the chain grows: an answer is the whole tree (`DeliveredIsWhole`), its interfaces come from a state no older than the block it names (`DetectionNotOlder`), messages to one account see each other's effects (`NoLostUpdate`), every task is answered or lost by a failure, never left waiting (`TaskEnds`). |
| `legacy` | pass | Two blocks that share a message, an account and its collection: what one insert actor leaves out another writes, with the exceptions of section 5 (`MessagesKept`), the row of a contract is as new as the stored blocks (`RowsCurrent`), reported contracts are recognised (`OnlyRecognised`), every block is stored (`EventuallyStored`). |

`pipeline_crash` covers errors and crashes together, on three blocks. With `SeqnoLimit = 6`,
`MaxMcSeqno = 4` and `MaxCrashes = 0` it passes as well (52,142 states).

The runs keep the properties that need several steps to break. The modules state more,
which TLC finds to hold on the same instances when they are added to the configuration:
the type invariants; `ResumeLeavesNoHole`, `BoundInv`, `LedgerInv` of the pipeline;
`PendingCounted` of `TraceRecovery`; `WalkStaysNear` of `IndexQuery`; `InOnePlace`,
`ParseQueueBound`, `CheckpointGrows` of `IntegrityChecker`; `NewestKept` and
`NothingLost` of `ClickhouseIndex`; `NeverOlder` of `SmcScanner`; `FinishedIsDone`,
`InsertedOnce`, `DeliveredIsWhole` of `TraceBlocks`; `StateNeverOlder` of `TraceTask`;
`SingleWriter`, `MarksAreHeld`, `LinksMissOnlyShared`, `TransfersOfFound`,
`NothingLost`, `LatestIsNewest` of `LegacyIndex`.

### Bounds

Three to five masterchain blocks (`MaxMcSeqno`), because every hazard found
needs a block, one before it that is late and one behind that takes its place.
One error or one crash (`MaxErrors`, `MaxCrashes`): a second one starts from a
state that one already reaches. The next alarm of the scheduler waits until the
answers to the previous one are handled; more reports of the same queue only
repeat what one does. State files are written only when a crash may follow.
`LookBack` and `KeepStates` are 1 or 2 instead of 50 and 100. In `TraceRecovery`
blocks are committed in order (out of order commits are the subject of
`IndexPipeline`), at most one save is delayed, and no trace of the chain lasts
for more than `LookBack` blocks, which is what the source assumes.
In `InsertBatchPostgres` two actors
share two bodies and an entity, the least that can wait in a circle; a third one
meets a stored block. `PromptSave` says that the delayed save runs before the next block is
assembled; `trace_recovery` assumes it, `trace_snapshot` does not.

The instances of the other programs are as small as their hazards allow. The chain
of `trace_blocks` has a trace that two blocks continue and that emulation predicts
wrongly; in `trace_task` every account gets two messages and one message is too deep
to follow. `clickhouse` has all seven descriptions, both compute phases and all
bounce phases. `legacy` uses the two NFT kinds only: the jetton detectors have the
same handlers (a wallet must name a master, an item may have no collection, which
`ResultOf` distinguishes) and would only multiply the states. Its item has the same
data in both blocks, so that the cache answers by data as well as by lt. Its two
blocks are too few for a batch that claims a body without its message (section 5).
One failure, an error or a crash, is enough there (`MaxFailures`): a crash clears what an
error left, because nothing of a failed transaction is in the tables. With
`MaxFailures = 2` it passes as well (580,680 states). `smc_scanner` has one shard with two batches and one with a batch that is not full.

Deadlock is not checked where the system may stop: after a failed read of the stored
seqnos (`pipeline_crash`, `pipeline_live`), at the end of the bounded chain
(`TraceRecovery`), in `IntegrityChecker`, whose program ends, and in `trace_blocks`,
when all is emulated. In `insert_batch` and `index_query` it is checked: an actor that
has stopped may stutter, anything else that cannot go on is an error.

### Fairness

`FairSpec` of `IndexPipeline` assumes weak fairness of start-up, of the alarms,
of the handling of every message and of every worker, and of the insert actors:
actors run what they are sent, timers fire, and an insert actor retries its
transaction until it commits. Errors, crashes and the growth of the chain are
not fair. `FairSpec` of `InsertBatchPostgres` is weak fairness of every actor: a
transaction that waits for a row goes on when the holder ends. In `IndexQuery` and
`IntegrityChecker` the database answers every read, and alarms and delayed calls
come. `SmcScanner` and `TraceTask` assume weak fairness of each actor's handlers.
`ClickhouseIndex`, `LegacyIndex` and `TraceBlocks` assume less: as long as the process
has something to do, some step of it is taken (`Progress`), whichever it is.

## 4. Proofs

All theorems hold for every value of the constants allowed by the named
assumptions (`WeightAssumption`, `SchedulerAssumption`, `PipelineAssumption`;
`BatchAssumption`, `NewestAssumption`, `BeforeAssumption` for the insert actors:
batches are disjoint, finite and not empty).

* `TypeCorrect`: `Spec => []TypeOK`.
* `QueueIsBounded`: `Spec => []QueueBound`. The bound alone is not inductive.
  `BoundInv` adds: the processing set is exactly the blocks some worker has; a
  block in stage "queued" has exactly one announcement in the mailbox; a report
  in the mailbox is too low by at most the announcements behind it; and the queue
  together with the blocks still to come fits in `MaxQueue + MaxActiveTasks`.
  A report that is accepted was at most `MaxQueue`; the inserts it does not know
  of are announced behind it and still occupy places of the processing set.
* `NothingIsLost`: `Spec => []NothingLost`, with `CustodyInv` (a block that left
  the workers is with the insert manager or done) and `DownInv`.
* `NeverStaleAssemble`: `Spec => []NoStaleAssemble` without `--force` and without
  errors behind the assembler, with `FrontierInv`: everything the assembler has
  still to see is at or above `expected_seqno`, and everything below was taken as
  done or has been learnt of already. Both hypotheses are needed:
  with `ForceIndex` and a restart TLC shows a behaviour that aborts (section 5).
* `LedgerInvariant`: `Spec => []LedgerInv`, as long as no worker behind the assembler
  fails: `expected_seqno` separates what waits for the assembler from what it has
  passed (`PassedInv`), and what it has passed is in one place (`OnceInv`).
* `RefinesLedger`: `Spec => ImplementsLedger` under the same hypothesis. The proof maps
  every action to `Open`, `Take`, `Commit`, `Close` or a stutter. `Commit` needs
  `OnceInv`: a batch is pending and not also with a worker. The hypothesis is needed:
  a block that fails behind the assembler is queued again below the frontier.
* `HeldOnceAlways`: `Spec => []HeldOnce`, without `--force` and under the same
  hypothesis, from `LedgerInv`, `BoundInv` and `FrontierInv`.
* `NoCircleOfWaits`, `NewestVersions`, `NoBodyForgotten` of `InsertBatchProofs`,
  from the inductive invariant `Inv`. `LockInv` says that a body is in the
  `msg_bodies` of one actor at most and that, before the unlock, only this actor has
  a row for it; so who waits for a row waits for an actor behind its unlock, which
  waits for nothing but the mutex, whose owner waits for nothing. `BodyInv` says who
  answers for a body that is neither stored nor marked: an actor that has not yet
  reached its lock or has the row in its transaction. The weaker "some actor that
  has not finished" is not inductive: two actors could rely on each other.

Only model-checked: liveness (`EventuallyIndexed`, `EventuallyInserted`,
`EventuallyAnswered`, `Terminates`, `IndexedOrEnded`, `ScanEnds`, `TraceEnds`,
`CatchesUp`, `TaskEnds`, `EventuallyStored`), which is out of the prover's reach;
`SizeMatchesQueue`, `RowsExact`, `TraceIdIsRoot`, `NoTraceMissed` and
`DeliveredIsWhole`, which need induction over sums, sequences or trees; and all
properties of `IndexQuery`, `IntegrityChecker`, `SmcScanner`, `ClickhouseIndex`,
`TraceBlocks`, `TraceTask` and `LegacyIndex`.

## 5. Findings

`trace_snapshot` refutes what the repository says; see `findings` in `PROJECT.json`.
It is `trace_recovery` without the assumption that a state file is packed before the
next block is assembled.

More disagreements follow from the same models with a change of a configuration:

* `pipeline_live` reaches `Starved`, in which the indexer stays for ever: a failed
  block is queued behind later ones, which take all places and wait for it in the
  assembler. `EventuallyIndexed` without that disjunct is violated. The indexer only
  goes on for certain when it has more places than there are later blocks to fill them.
* `integrity.cfg` with the invariant `ResumesBehindVerified` is violated. The comment at
  `IntegrityChecker.cpp:224` ("Save to checkpoint last seqno up to which we have verified
  the DB") and the message at line 25 ("Last verified seqno") say that the checkpoint is
  verified, and `got_oldest_mc_seqno_with_state` (line 118) goes on behind it. The value
  saved is the first seqno that is not verified: each restart leaves one block out.
* `pipeline_crash.cfg` with the invariant `DoneIsStored` is violated: a crash between
  commits of parallel batches loses the blocks below the lowest stored one.
* `insert_batch.cfg` with the invariant `BodiesStored` is violated: an attempt that
  throws in `insert_messages` keeps its locks, and its repetition skips the bodies.
* `pipeline_live.cfg` with `From = 0` (the default of `--from`, `main.cpp:36`; the
  README of the repository uses 1) ends every start on an empty database in phase
  "spinning", which `EventuallyIndexed` excepts: `next_seqno - 1` is the largest
  unsigned number, and the loop of `got_trace_assembler_last_state_seqno` does not end.
* `pipeline_crash.cfg` with `ForceIndex = TRUE` violates `NoStaleAssemble`: `--force`,
  described as "Ignore existing seqnos and force reindex", queues the blocks before the
  restored assembler state after a restart, and the assembler aborts on the first.

Observations made while modelling, which the models contain unless said otherwise:

* Integrity checker: when the first or last seqno cannot be read the error is logged and
  nothing follows; the process neither ends nor fails.
* SMC scanner: the checkpoint is sent before the batch is stored (`SmcScanner.cpp:59`),
  so accounts under way at a crash are missed; `NothingSkipped` says that no others
  are. `checkpoint_reset` does not commit its transaction.
* ClickHouse: `account_state_hash_before` gets the hash after
  (`InsertManagerClickhouse.cpp:849`) and `want_split` the value of `after_split`
  (line 531, not modelled). With `--to` the scheduler stops when its queue is empty,
  whatever is still in work (`IndexScheduler.cpp:226`).
* Trace emulator: a block without traces, or whose last trace ends by an error, never
  answers, because only `trace_finished` looks whether it was the last. A block that
  reaches `process_txs` before its predecessor skips the transactions whose trace ids it
  does not find. The first fetched block is not emulated. Of a trace id, only the first
  tail in a block is emulated. `TraceInserter` reads what it replaces outside its Redis
  transaction: a trace that a listener writes between these reads and the transaction
  leaves messages that were never sent in the hash (the run reaches this; without
  `unseen`, `StaleOnlyByRace` is violated), and a listener that writes last puts the
  emulated transactions back. `interblock_trace_ids_` is accessed without a lock, and so
  is `emulator_actors_` at `TraceEmulator.cpp:163` and `BlockEmulator.cpp:119`; beyond
  an entry that is not found, what C++ may do then is not modelled. `known_ext_msgs_`
  and `interblock_trace_ids_` only grow, as their comments say.
* Trace task emulator: the answer names the block the trace was emulated on
  (`mc_block_id`), but interfaces are detected on the states the listener has when the
  trace is ready (`RedisListener.cpp:89`), which may be newer. `DetectionNotOlder` says
  that they are never older.
* First indexer: `insert_messsages` returns early when all messages of a batch are being
  inserted by others, and leaves out the batch's rows of `transaction_messages`
  (`InsertManagerPostgres.cpp:581`). A failed batch answers its tasks before it takes
  its marks off, so its repetition can skip its own messages, which are then lost; the
  run reaches this, and `MessagesKept` excepts it by `dropped`. A batch can claim a body
  whose message another batch holds; with no message of its own it inserts nothing, and
  who left the body to it does not either (the second exception). The third takes two
  errors, more than the run allows: a commit that is in force is reported as failed, its
  batch is inserted again, another batch leaves a message to the repetition, and that one
  fails. `parse_burn` lacks a return behind an error other than "not found" (`InterfaceDetectors.hpp:544`); the
  cache it asks answers with no other error, so the branch is not modelled.

## 6. Where the project could go on

1. Proofs for `IntegrityChecker` (queue, search, checkpoint) and for the set of messages
   in progress of `LegacyIndex`.
2. The parsers of `DataParser`, as functions on small inputs.

## 7. Not modelled

* Conversion of cells to rows (`DataParser`, `IndexData`), of rows to SQL or MessagePack
  text (`Serializer.hpp`), and `parse_token_data`: pure functions of their input, whose
  data the properties do not tell apart.
* The detectors of `smc-interfaces` (`Tokens.cpp`, `NftSale.cpp`, `execute-smc.cpp`): they
  run get methods in the TON virtual machine, which is not part of this repository.
* The choice of the newest state of an account in `BlockInterfaceProcessor`: a pure
  function of a block.
* `celldb-migrate`: a copy of key ranges, whose one handler exits the process.
* `ton-emulate-go`: an HTTP handler that pushes a task and waits for its answer; `pgton`:
  SQL types that parse and print single values.
* The branch `!c.is_open()` of the first indexer's insert actor: the constructor of the
  connection throws instead.
* Statistics, logging, command lines, schema creation and migrations, scripts.
