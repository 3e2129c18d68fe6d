------------------------ MODULE IndexPipelineLedger ------------------------
(***************************************************************************)
(* How IndexPipeline implements IndexLedger: what a state of the indexer   *)
(* means as a state of the ledger, and the invariant the implementation    *)
(* rests on.                                                               *)
(***************************************************************************)
EXTENDS IndexPipeline

\* Blocks that have left the trace assembler and are not with the insert manager.
Assembled == {s \in Seqno : stage[s] \in {"interfaces", "actions"}}

Running == phase = "run"

Ledger == INSTANCE IndexLedger
            WITH up <- Running,
                 frontier <- IF phase = "run" THEN expected_seqno ELSE 0,
                 pending <- IF phase = "run" THEN Assembled \cup Inserting ELSE {},
                 stored <- db

\* Every run of the process takes blocks in the order of their seqnos and
\* commits each at most once, whatever the workers, the scheduler and the
\* insert actors do in between; a start leaves no hole above the lowest stored
\* block.
ImplementsLedger == Ledger!Spec

----------------------------------------------------------------------------
(* The inductive invariant *)

\* Only wanted blocks are worked on and stored.
WantedInv ==
  /\ \A s \in Elements(queued_seqnos) \cup Inserting \cup db : InRange(s)
  /\ \A s \in Seqno : stage[s] # "idle" => InRange(s)

\* The expected seqno separates what waits for the assembler from what it has
\* passed, ...
PassedInv ==
  phase = "run" =>
    /\ \A s \in Waiting : s >= expected_seqno
    /\ \A s \in Assembled \cup Inserting \cup existing_seqnos : s < expected_seqno

\* ... and what it has passed is with one worker, at one place of the insert
\* queue, in one batch or done.
OnceInv ==
  /\ \A i, j \in 1 .. Len(insert_queue) : insert_queue[i] = insert_queue[j] => i = j
  /\ \A b \in insert_actors : b \cap Elements(insert_queue) = {}
  /\ \A b, c \in insert_actors : b # c => b \cap c = {}
  /\ Assembled \cap Inserting = {}
  /\ existing_seqnos \cap (Assembled \cup Inserting) = {}

\* A process that is not running has nothing to insert.
EmptyInv == phase = "down" => Inserting = {}

\* What a block's place says about its seqno, in every state: the assembler passes
\* wanted blocks in order and each is handed to the insert manager once.
LedgerInv == WantedInv /\ PassedInv /\ OnceInv /\ EmptyInv
=============================================================================
