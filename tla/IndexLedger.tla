---------------------------- MODULE IndexLedger ----------------------------
(***************************************************************************)
(* What the indexer ton-index-postgres-v2 promises about the order and the *)
(* number of times blocks are worked on, without its queues, workers and   *)
(* messages.  One run of the process takes the blocks in the order of      *)
(* their seqnos, from a frontier that its start has chosen, and commits    *)
(* each block it has taken at most once, in any order and in any groups.   *)
(* Modules MCIndexPipeline and IndexLedgerProofs show that IndexPipeline   *)
(* implements this specification as long as no worker behind the trace     *)
(* assembler fails.                                                        *)
(***************************************************************************)
EXTENDS Integers

VARIABLES
  up,         \* a process is running
  frontier,   \* the next block its trace assembler takes
  pending,    \* the blocks it has taken and not committed
  stored      \* the blocks in the database

ledgerVars == <<up, frontier, pending, stored>>

Init == /\ up = FALSE
        /\ frontier = 0
        /\ pending = {}
        /\ stored = {}

\* A start may choose any frontier that leaves no block above the lowest stored
\* one behind.
Open == /\ ~ up
        /\ up' = TRUE
        /\ frontier' \in Nat
        /\ \A s \in 0 .. frontier' - 1 : (\E low \in stored : low <= s) => s \in stored
        /\ pending' = {}
        /\ UNCHANGED stored

Take == /\ up
        /\ frontier' \in Nat /\ frontier' > frontier
        /\ pending' = pending \cup (frontier .. frontier' - 1)
        /\ UNCHANGED <<up, stored>>

Commit(blocks) ==
  /\ up
  /\ blocks \subseteq pending
  /\ pending' = pending \ blocks
  /\ stored' = stored \cup blocks
  /\ UNCHANGED <<up, frontier>>

Close == /\ up
         /\ up' = FALSE
         /\ frontier' = 0
         /\ pending' = {}
         /\ UNCHANGED stored

Next == Open \/ Take \/ Close \/ \E blocks \in SUBSET pending : Commit(blocks)

Spec == Init /\ [][Next]_ledgerVars
=============================================================================
