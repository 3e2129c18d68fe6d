--------------------------- MODULE TraceAssembler ---------------------------
(***************************************************************************)
(* The trace assembler (tondb-scanner/src/TraceAssembler.cpp): it groups   *)
(* the transactions of consecutive masterchain blocks into traces by       *)
(* following messages, and saves what is unfinished to state files.        *)
(*                                                                         *)
(* Traces are shared pointers: pending_traces is the set of keys of        *)
(* pending_traces_, heap the objects they point to.  A copy of the map     *)
(* shares the objects; edges are values and are copied.  A trace is named  *)
(* by its first transaction (trace_id is its hash).  Of an edge only the   *)
(* trace it belongs to is kept: an edge is incomplete as long as it is in  *)
(* pending_edges_, and the list of a block's edges is written by no table. *)
(***************************************************************************)
EXTENDS Integers, Sequences, FiniteSets, TLC, SequencesExt

CONSTANTS
  Tx, Msg, NoMsg,   \* transactions, messages between accounts, absence of one
  In,               \* in_msg of a transaction: [Tx -> Msg \cup {NoMsg}]
  Source,           \* [Msg -> {"ext", "sys", "ord"}]: no source, the zero address, other
  Outs,             \* out_msgs with a destination: [Tx -> SUBSET Msg]
  Logs,             \* number of out_msgs without one: [Tx -> Nat]
  Lt, Account,      \* [Tx -> Nat]
  SizeLimit,        \* size_t is unsigned: arithmetic is modulo this (2^64)
  KeepStates        \* 100: states kept by gc_states

VARIABLES
  expected_seqno,   \* expected_seqno_
  pending_traces,   \* keys of pending_traces_
  pending_edges,    \* pending_edges_: message -> trace_id
  heap,             \* the TraceImpl objects some map still points to
  saving,           \* save_state calls that are delayed: at most one is (bound)
  gc_due,           \* a gc_states call is delayed
  tastates          \* .tastate files: seqno -> content

taVars == <<expected_seqno, pending_traces, pending_edges, heap, saving, gc_due, tastates>>

Larger(a, b) == IF a > b THEN a ELSE b

----------------------------------------------------------------------------
\* The constructor TraceImpl(seqno, tx); trace_id is the key of the object.
TraceImpl(seqno, tx) ==
  [mc_seqno_start |-> seqno, mc_seqno_end |-> seqno, end_lt |-> Lt[tx],
   state |-> "pending", pending_edges |-> 0, edges |-> 0, nodes |-> 1]

\* The message of tx comes from an account, but its sending was not seen.
Unseen(m, tx) == In[tx] # NoMsg /\ In[tx] \notin DOMAIN m.edges /\ Source[In[tx]] = "ord"

\* A trace that starts with tx: broken when the sending of its message was not
\* seen, or was seen in a trace that is gone.
NewTrace(seqno, m, tx) ==
  [TraceImpl(seqno, tx) EXCEPT
     !.edges = IF In[tx] = NoMsg \/ Unseen(m, tx) THEN 0 ELSE 1,
     !.pending_edges = IF Unseen(m, tx) THEN 1 ELSE 0,
     !.state = IF Unseen(m, tx) \/ In[tx] \in DOMAIN m.edges THEN "broken" ELSE "pending"]

\* pending_edges_ after tx: the edge of its message is used up, or waits for a
\* sender when that was not seen; the messages it sends are pending.
EdgesAfter(m, tx, trace_id) ==
  [o \in Outs[tx] |-> trace_id] @@ (IF Unseen(m, tx) THEN In[tx] :> tx ELSE << >>)
    @@ Restrict(m.edges, DOMAIN m.edges \ {In[tx]})

\* The effect of tx on m, which holds the two maps, the objects and the trace
\* ids given to the block's transactions so far.
process_transaction(seqno, m, tx) ==
  LET announced == In[tx] \in DOMAIN m.edges
      found == announced /\ m.edges[In[tx]] \in m.traces
      trace_id == IF found THEN m.edges[In[tx]] ELSE tx
      trace == IF found THEN m.heap[trace_id] ELSE NewTrace(seqno, m, tx)
      used == IF announced THEN 1 ELSE 0
  IN  [traces |-> m.traces \cup {trace_id},
       edges |-> EdgesAfter(m, tx, trace_id),
       heap |-> trace_id :> [trace EXCEPT
                  !.pending_edges = (@ - used + Cardinality(Outs[tx])) % SizeLimit,
                  !.edges = @ + used + Logs[tx],
                  !.nodes = @ + used,
                  !.mc_seqno_end = Larger(@, seqno),
                  !.end_lt = Larger(@, Lt[tx])] @@ m.heap,
       ids |-> tx :> trace_id @@ m.ids]

\* Mutant of Earlier: transactions are sorted by account before lt.
EarlierByAccount(t, u) == \/ Account[t] < Account[u]
                          \/ Account[t] = Account[u] /\ Lt[t] < Lt[u]

\* The order in which a block's transactions are processed.
Earlier(t, u) == \/ Lt[t] < Lt[u]
                 \/ Lt[t] = Lt[u] /\ Account[t] < Account[u]

\* A trace without pending edges is complete unless it is broken.  The count is
\* unsigned, so the branch for a negative one is never taken.
Closed(trace) ==
  IF trace.pending_edges = 0 /\ trace.state # "broken"
  THEN [trace EXCEPT !.state = "complete"] ELSE trace

\* What the transactions txs of block seqno do to the maps and objects, and the
\* block as it leaves: its transactions' trace ids and the traces touched.
process_block(seqno, txs) ==
  LET m == FoldLeft(LAMBDA n, tx : process_transaction(seqno, n, tx),
                    [traces |-> pending_traces, edges |-> pending_edges, heap |-> heap,
                     ids |-> << >>],
                    SetToSortSeq(txs, Earlier))
      updated == {m.ids[tx] : tx \in txs}
      closed == [id \in updated |-> Closed(m.heap[id])]
  IN  [traces |-> m.traces \ {id \in updated : closed[id].pending_edges = 0},
       edges |-> m.edges,
       heap |-> closed @@ m.heap,
       block |-> [seqno |-> seqno, ids |-> m.ids, traces |-> closed]]

\* Objects live as long as pending_traces_ or a copy of it refers to them.
Reachable(traces, copies) == traces \cup UNION {c.traces : c \in copies}

----------------------------------------------------------------------------
taInit == /\ expected_seqno = 0
          /\ pending_traces = {} /\ pending_edges = << >> /\ heap = << >>
          /\ saving = {} /\ gc_due = FALSE
          /\ tastates = << >>

\* process_queue for the block in turn, whose transactions are txs.
process_queue(txs) ==
  LET m == process_block(expected_seqno, txs)
  IN  /\ expected_seqno' = expected_seqno + 1
      /\ pending_traces' = m.traces
      /\ pending_edges' = m.edges
      /\ heap' = Restrict(m.heap, Reachable(m.traces, saving))
      /\ UNCHANGED <<saving, gc_due, tastates>>

\* The alarm copies the two maps and delays two actions.
taAlarm ==
  /\ expected_seqno # 0
  /\ saving = {} /\ ~ gc_due
  /\ saving' = {[seqno |-> expected_seqno - 1, traces |-> pending_traces,
                 edges |-> pending_edges]}
  /\ gc_due' = TRUE
  /\ UNCHANGED <<expected_seqno, pending_traces, pending_edges, heap, tastates>>

\* The delayed save packs the objects as they are when it runs.
save_state(copy) ==
  /\ copy \in saving
  /\ saving' = saving \ {copy}
  /\ tastates' = copy.seqno :> [traces |-> Restrict(heap, copy.traces), edges |-> copy.edges]
                   @@ tastates
  /\ heap' = Restrict(heap, Reachable(pending_traces, saving'))
  /\ UNCHANGED <<expected_seqno, pending_traces, pending_edges, gc_due>>

gc_states ==
  /\ gc_due
  /\ gc_due' = FALSE
  /\ tastates' = LET kept == {f \in DOMAIN tastates : f <= expected_seqno}
                 IN  Restrict(tastates,
                       {f \in kept : Cardinality({g \in kept : g > f}) < KeepStates})
  /\ UNCHANGED <<expected_seqno, pending_traces, pending_edges, heap, saving>>

\* Mutant of Restored: the second map is not read.
RestoredWithoutEdges(state) ==
  /\ pending_traces' = DOMAIN state.traces
  /\ heap' = state.traces
  /\ pending_edges' = << >>

\* restore_state installs the content of a file.
Restored(state) ==
  /\ pending_traces' = DOMAIN state.traces
  /\ heap' = state.traces
  /\ pending_edges' = state.edges

EmptyState == [traces |-> << >>, edges |-> << >>]
=============================================================================
