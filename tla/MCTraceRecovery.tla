-------------------------- MODULE MCTraceRecovery --------------------------
(***************************************************************************)
(* TraceRecovery for TLC.  Trace a -> b -> {c, d} starts with an external  *)
(* message; s has no message; x -> y starts with a message sent            *)
(* before the first block.  y sends a message that does not arrive.        *)
(***************************************************************************)
EXTENDS TraceRecovery

MCTx == {"a", "b", "c", "d", "s", "x", "y"}
MCMsg == {"ext", "ab", "bc", "bd", "wx", "xy", "yz"}

MCIn == [a |-> "ext", b |-> "ab", c |-> "bc", d |-> "bd", s |-> "none", x |-> "wx", y |-> "xy"]
MCSource == [o \in MCMsg |-> IF o = "ext" THEN "ext" ELSE "ord"]
MCOuts == [a |-> {"ab"}, b |-> {"bc", "bd"}, c |-> {}, d |-> {}, s |-> {}, x |-> {"xy"},
           y |-> {"yz"}]
MCLogs == [t \in MCTx |-> IF t \in {"c", "s"} THEN 1 ELSE 0]
MCLt == [a |-> 1, b |-> 2, c |-> 3, d |-> 4, s |-> 3, x |-> 1, y |-> 2]
MCAccount == [a |-> 3, b |-> 2, c |-> 2, d |-> 1, s |-> 1, x |-> 2, y |-> 1]

\* Every way to spread the transactions over the blocks in which no trace lasts
\* for more than LookBack blocks and c is with b or with d; the others stay.
MCLayouts ==
  {l \in [MCTx -> 1 .. LastBlock] :
     /\ l["s"] = 2 /\ l["x"] = 1 /\ l["y"] = 2
     /\ l["a"] <= l["b"] /\ l["b"] <= l["d"] /\ l["d"] - l["a"] <= LookBack
     /\ l["c"] \in {l["b"], l["d"]}}
=============================================================================
