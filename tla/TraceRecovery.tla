--------------------------- MODULE TraceRecovery ---------------------------
(***************************************************************************)
(* The trace assembler between the chain and the database, with crashes:   *)
(* blocks are assembled in order, written to PostgreSQL some time later,   *)
(* and a restart resumes from a state file or re-reads the last blocks.    *)
(* The scheduling of the blocks is in module IndexPipeline; here blocks    *)
(* reach the assembler and the database in order.                          *)
(***************************************************************************)
EXTENDS TraceAssembler

CONSTANTS
  Layouts,      \* the chains considered: which block a transaction is in
  LastBlock,    \* bound: length of the chain; blocks are numbered from 1
  LookBack,     \* 50: blocks re-read when no state file is found
  PromptSave,   \* TRUE: a delayed save_state runs before the next block is assembled
  MaxCrashes    \* bound

ASSUME RecoveryAssumption ==
  /\ Layouts \subseteq [Tx -> 1 .. LastBlock]
  /\ \A t, u \in Tx : In[u] \in Outs[t] => Lt[t] < Lt[u]
  /\ \A t, u \in Tx : t # u => /\ In[t] = In[u] => In[t] = NoMsg
                               /\ Outs[t] \cap Outs[u] = {}
  /\ \A l \in Layouts : \A t, u \in Tx : In[u] \in Outs[t] => l[t] <= l[u]

VARIABLES
  layout,       \* the chain of this behaviour
  running,      \* whether the process is up
  assembled,    \* blocks that left the assembler and are not committed, in order
  stored,       \* masterchain blocks 1 .. stored are in the database
  tx_rows,      \* transactions.trace_id: transaction -> trace
  trace_rows,   \* table traces: trace -> row
  crashes

vars == <<taVars, layout, running, assembled, stored, tx_rows, trace_rows, crashes>>

Init == /\ taInit
        /\ layout \in Layouts
        /\ running = FALSE
        /\ assembled = << >>
        /\ stored = 0
        /\ tx_rows = << >> /\ trace_rows = << >>
        /\ crashes = 0

\* The error branch of the promise given to restore_state, From = 1.
FallbackState(next) == IF next > 1 THEN Larger(1, next - LookBack) - 1 ELSE 0

\* A state file that is newer than the last stored block is not used; one that
\* cannot be read is skipped.
Start ==
  /\ ~ running
  /\ running' = TRUE
  /\ \/ \E f \in DOMAIN tastates : /\ f <= stored
                                   /\ Restored(tastates[f])
                                   /\ expected_seqno' = f + 1
     \/ /\ Restored(EmptyState)
        /\ expected_seqno' = FallbackState(stored + 1) + 1
  /\ UNCHANGED <<saving, gc_due, tastates, layout, assembled, stored, tx_rows, trace_rows, crashes>>

Crash ==
  /\ running
  /\ crashes < MaxCrashes
  /\ crashes' = crashes + 1
  /\ running' = FALSE
  /\ expected_seqno' = 0
  /\ pending_traces' = {} /\ pending_edges' = << >> /\ heap' = << >>
  /\ saving' = {} /\ gc_due' = FALSE
  /\ assembled' = << >>
  /\ UNCHANGED <<tastates, layout, stored, tx_rows, trace_rows>>

Assemble ==
  /\ running
  /\ expected_seqno <= LastBlock
  /\ PromptSave => saving = {}
  /\ LET txs == {t \in Tx : layout[t] = expected_seqno}
     IN  /\ process_queue(txs)
         /\ assembled' = Append(assembled, process_block(expected_seqno, txs).block)
  /\ UNCHANGED <<layout, running, stored, tx_rows, trace_rows, crashes>>

\* Mutant of Inserted: traces that are still pending are inserted, too.
InsertedAny(traces) == DOMAIN traces

\* insert_traces: complete traces only; a row is replaced by one that ends later.
Inserted(traces) ==
  {id \in DOMAIN traces : /\ traces[id].state = "complete"
                          /\ id \in DOMAIN trace_rows => trace_rows[id].end_lt < traces[id].end_lt}

\* The oldest assembled block is committed; insert_transactions leaves rows that
\* exist alone.
Commit ==
  /\ running
  /\ assembled # << >>
  /\ LET block == Head(assembled)
     IN  /\ stored' = Larger(stored, block.seqno)
         /\ tx_rows' = tx_rows @@ block.ids
         /\ trace_rows' = Restrict(block.traces, Inserted(block.traces)) @@ trace_rows
  /\ assembled' = Tail(assembled)
  /\ UNCHANGED <<taVars, layout, running, crashes>>

\* Bound: the state is saved only when a crash may follow.
Alarm == /\ running /\ crashes < MaxCrashes
         /\ taAlarm
         /\ UNCHANGED <<layout, running, assembled, stored, tx_rows, trace_rows, crashes>>

Save == /\ running
        /\ \E copy \in saving : save_state(copy)
        /\ UNCHANGED <<layout, running, assembled, stored, tx_rows, trace_rows, crashes>>

CollectStates == /\ running
                 /\ gc_states
                 /\ UNCHANGED <<layout, running, assembled, stored, tx_rows, trace_rows, crashes>>

Next == Start \/ Crash \/ Assemble \/ Commit \/ Alarm \/ Save \/ CollectStates

Spec == Init /\ [][Next]_vars

----------------------------------------------------------------------------
(* What the traces of the chain are, without the assembler *)

\* The transaction a message came from, and the one a trace starts with.
Sender(tx) == {t \in Tx : In[tx] \in Outs[t]}
Root[tx \in Tx] == IF Sender(tx) = {} THEN tx ELSE Root[CHOOSE t \in Sender(tx) : TRUE]
Tree(root) == {t \in Tx : Root[t] = root}

\* The trace is whole: it starts on the chain and all its messages arrived.
Whole(root) == /\ Root[root] = root
               /\ In[root] = NoMsg \/ Source[In[root]] # "ord"
               /\ \A t \in Tree(root) : \A o \in Outs[t] : \E u \in Tx : In[u] = o

TrueRow(root) ==
  [mc_seqno_start |-> layout[root],
   mc_seqno_end |-> Max({layout[t] : t \in Tree(root)}),
   end_lt |-> Max({Lt[t] : t \in Tree(root)}),
   state |-> "complete", pending_edges |-> 0,
   edges |-> Cardinality(Tree(root)) - (IF In[root] = NoMsg THEN 1 ELSE 0)
               + MapThenSumSet(LAMBDA t : Logs[t], Tree(root)),
   nodes |-> Cardinality(Tree(root))]

----------------------------------------------------------------------------
(* Properties *)

\* A row of table traces describes one whole trace of the chain, with exactly
\* its blocks, nodes and edges, whatever was re-read after a restart.
RowsExact == \A id \in DOMAIN trace_rows : Whole(id) /\ trace_rows[id] = TrueRow(id)

\* No trace is missed: when the blocks of a whole trace are stored, so is the
\* trace, also when the process was restarted in the middle of it.
NoTraceMissed ==
  \A root \in Tx : Whole(root) /\ (\A t \in Tree(root) : layout[t] <= stored)
                     => root \in DOMAIN trace_rows

\* A stored transaction has the trace id of the first transaction of its trace,
\* also when it is stored before the trace is complete.
TraceIdIsRoot == \A t \in DOMAIN tx_rows : tx_rows[t] = Root[t]

\* pending_edges of a pending trace counts its entries in pending_edges_, so a
\* trace is completed exactly when no message of it is on its way.
PendingCounted ==
  \A id \in pending_traces :
    heap[id].pending_edges = Cardinality({o \in DOMAIN pending_edges : pending_edges[o] = id})
=============================================================================
