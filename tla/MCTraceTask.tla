----------------------------- MODULE MCTraceTask -----------------------------
(* Instance of TraceTask for TLC.  In trace "t" the accounts A, B and C get two *)
(* messages each, c can be emulated after a child of b has failed, and g is     *)
(* too deep to be followed.                                                     *)
EXTENDS TraceTask

MCRoot == [t |-> "a", u |-> "f"]
MCReal == [tr \in Trace |-> {}]
MCOut == [a |-> <<"b", "x">>, b |-> <<"d", "h">>, x |-> <<"c">>, c |-> <<"e">>, d |-> << >>,
          h |-> << >>, e |-> <<"g">>, g |-> << >>, f |-> << >>]
MCDest == [a |-> "A", b |-> "B", x |-> "C", c |-> "B", d |-> "A", h |-> "C", e |-> "A",
           g |-> "C", f |-> "A"]
=============================================================================
