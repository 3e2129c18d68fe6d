------------------------- MODULE InsertManagerBase -------------------------
(***************************************************************************)
(* The insert manager actor (tondb-scanner/src/InsertManagerBase.cpp): a   *)
(* FIFO queue of parsed masterchain blocks, the running size of that queue *)
(* and the insert actors that write batches cut from its front.            *)
(*                                                                         *)
(* A task is named by its masterchain seqno; what the manager looks at in  *)
(* it is its weight (blocks, transactions, messages), a constant function. *)
(* The fifth counter, traces_, is only ever printed and is left out.       *)
(***************************************************************************)
EXTENDS Integers, Sequences, FiniteSets, FiniteSetsExt

CONSTANTS
  Task,                     \* what can be inserted: masterchain seqnos
  Blocks, Txs, Msgs,        \* weight of a task: [Task -> Nat]
  BatchSize,                \* batch_size_, a QueueState
  MaxParallelInsertActors   \* max_parallel_insert_actors_

ASSUME WeightAssumption ==
  /\ Blocks \in [Task -> Nat] /\ Txs \in [Task -> Nat] /\ Msgs \in [Task -> Nat]
  /\ BatchSize \in [mc_blocks : Nat, blocks : Nat, txs : Nat, msgs : Nat]
  /\ MaxParallelInsertActors \in Nat \ {0}

VARIABLES
  insert_queue,             \* insert_queue_: tasks waiting, oldest first
  queue_state,              \* queue_state_: the running size of insert_queue_
  parallel_insert_actors,   \* parallel_insert_actors_
  insert_actors             \* the sets of tasks of the live insert actors

imVars == <<insert_queue, queue_state, parallel_insert_actors, insert_actors>>

----------------------------------------------------------------------------
(* QueueState arithmetic *)

QueueState == [mc_blocks : Int, blocks : Int, txs : Int, msgs : Int]

ZeroState == [mc_blocks |-> 0, blocks |-> 0, txs |-> 0, msgs |-> 0]

Plus(l, r) == [mc_blocks |-> l.mc_blocks + r.mc_blocks, blocks |-> l.blocks + r.blocks,
               txs |-> l.txs + r.txs, msgs |-> l.msgs + r.msgs]

Minus(l, r) == [mc_blocks |-> l.mc_blocks - r.mc_blocks, blocks |-> l.blocks - r.blocks,
                txs |-> l.txs - r.txs, msgs |-> l.msgs - r.msgs]

\* operator<, which is "at most in every counter".
Fits(l, r) == /\ l.mc_blocks <= r.mc_blocks
              /\ l.blocks <= r.blocks
              /\ l.txs <= r.txs
              /\ l.msgs <= r.msgs

\* InsertTaskStruct::get_queue_state: every task is one masterchain block.
TaskState(t) == [mc_blocks |-> 1, blocks |-> Blocks[t], txs |-> Txs[t], msgs |-> Msgs[t]]

\* The sum of a weight over the tasks at a set of positions of insert_queue_.
\* The sum is a natural number; saying so gives it a type without an induction.
Total(weight, positions) ==
  LET sum == MapThenSumSet(LAMBDA i : weight[insert_queue[i]], positions)
  IN  IF sum \in Nat THEN sum ELSE 0

\* The sum of TaskState over the tasks at these positions.
Load(positions) ==
  [mc_blocks |-> Cardinality(positions), blocks |-> Total(Blocks, positions),
   txs |-> Total(Txs, positions), msgs |-> Total(Msgs, positions)]

check_batch_size(state) == Fits(state, BatchSize)

----------------------------------------------------------------------------
(***************************************************************************)
(* schedule_next_insert_batches pops the first n tasks and puts task i     *)
(* into batch number[i]; batches are numbered from 1 in the order of their *)
(* creation.  The nested loops allow exactly one n and one numbering.      *)
(***************************************************************************)

\* Mutant of FilledBatches: the batch is checked without the task it took last.
FilledBatchesLate(n, number) ==
  \A i \in 1 .. n :
    LET held == Load({j \in 1 .. i - 1 : number[j] = number[i]})
    IN  IF i < n /\ number[i + 1] = number[i]
        THEN check_batch_size(held)
        ELSE i = Len(insert_queue) \/ ~ check_batch_size(held)

\* The inner loop: a batch takes the next task as long as what it holds passes
\* check_batch_size, and ends when it does not or the queue is empty.
FilledBatches(n, number) ==
  \A i \in 1 .. n :
    LET held == Load({j \in 1 .. i : number[j] = number[i]})
    IN  IF i < n /\ number[i + 1] = number[i]
        THEN check_batch_size(held)
        ELSE i = Len(insert_queue) \/ ~ check_batch_size(held)

\* The outer loop, entered with p actors running: where a batch ends, the next
\* one is started if and only if the loop goes on.
StartedBatches(n, number, p, full_batch) ==
  LET started(i) == IF i = 0 THEN 0 ELSE number[i]
      goesOn(i) == /\ i < Len(insert_queue)
                   /\ p + started(i) < MaxParallelInsertActors
                   /\ ~ (check_batch_size(Minus(queue_state, Load(1 .. i))) /\ full_batch)
  IN  /\ \A i \in 1 .. n : number[i] - started(i - 1) \in {0, 1}
      /\ n > 0 => number[1] = 1
      /\ \A i \in 0 .. n :
           i = n \/ started(i + 1) # started(i) => (goesOn(i) <=> i < n)

schedule_next_insert_batches(p, actors, full_batch) ==
  \E n \in 0 .. Len(insert_queue) :
    \E number \in [1 .. n -> 1 .. MaxParallelInsertActors - p] :
      /\ FilledBatches(n, number)
      /\ StartedBatches(n, number, p, full_batch)
      /\ insert_queue' = SubSeq(insert_queue, n + 1, Len(insert_queue))
      /\ queue_state' = Minus(queue_state, Load(1 .. n))
      /\ parallel_insert_actors' = p + (IF n = 0 THEN 0 ELSE number[n])
      /\ insert_actors' = actors \cup
           {{insert_queue[i] : i \in {j \in 1 .. n : number[j] = number[k]}} : k \in 1 .. n}

----------------------------------------------------------------------------
imInit == /\ insert_queue = << >>
          /\ queue_state = ZeroState
          /\ parallel_insert_actors = 0
          /\ insert_actors = {}

\* Mutant of insert: queue_state_ is not updated.
insert_unsized(t) == /\ insert_queue' = Append(insert_queue, t)
                     /\ UNCHANGED <<queue_state, parallel_insert_actors, insert_actors>>

insert(t) == /\ insert_queue' = Append(insert_queue, t)
             /\ queue_state' = Plus(queue_state, TaskState(t))
             /\ UNCHANGED <<parallel_insert_actors, insert_actors>>

\* Mutant of imAlarm: only full batches are cut.
imAlarmFull == schedule_next_insert_batches(parallel_insert_actors, insert_actors, TRUE)

\* The closure the handler sends to itself is taken in the same step: whatever
\* the actor could handle in between leads to the same batches.
imAlarm == schedule_next_insert_batches(parallel_insert_actors, insert_actors, FALSE)

insert_batch_finished(batch) ==
  /\ batch \in insert_actors
  /\ schedule_next_insert_batches(parallel_insert_actors - 1, insert_actors \ {batch}, TRUE)
=============================================================================
