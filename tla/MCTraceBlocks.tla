---------------------------- MODULE MCTraceBlocks ----------------------------
(* Instance of TraceBlocks for TLC.  Block 3 holds a and its child b, block 4   *)
(* the other child c and the external message f; emulation expects a to create  *)
(* z alone, in place of b and c.                                                *)
EXTENDS TraceBlocks

MCOut == [a |-> <<"z">>, b |-> << >>, c |-> << >>, z |-> << >>, f |-> << >>]
MCRealOut == [MCOut EXCEPT !.a = <<"b", "c">>]
MCDest == [a |-> "A", b |-> "B", c |-> "B", z |-> "B", f |-> "A"]
MCLt == [a |-> 1, b |-> 2, c |-> 3, z |-> 3, f |-> 4]
MCShardTxs == [s \in 2 .. 4 |-> CASE s = 2 -> <<{}>>
                                  [] s = 3 -> <<{"b"}, {"a"}>>
                                  [] s = 4 -> <<{"c", "f"}>>]
MCTrace == {<<3, "a">>, <<4, "a">>, <<4, "f">>, <<0, "a">>, <<-1, "f">>}
MCReal == [tr \in MCTrace |-> IF tr[1] = 3 THEN {"a", "b"}
                              ELSE IF tr[1] = 4 THEN {"c", "f"} ELSE {}]
=============================================================================
