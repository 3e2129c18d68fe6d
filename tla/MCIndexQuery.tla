---------------------------- MODULE MCIndexQuery ----------------------------
(***************************************************************************)
(* A chain for TLC: the zero state z is the top of masterchain block 1;    *)
(* block 2 brings a1 to a3, block 3 nothing, block 4 the two halves of a   *)
(* split, block 5 two blocks of the left half, block 6 their merge.        *)
(***************************************************************************)
EXTENDS IndexQuery, TLC

CONSTANTS z, a1, a2, a3, l4, r4, l5, l6, m7

MCPrev == (a1 :> {z}) @@ (a2 :> {a1}) @@ (a3 :> {a2}) @@ (l4 :> {a3}) @@ (r4 :> {a3})
          @@ (l5 :> {l4}) @@ (l6 :> {l5}) @@ (m7 :> {l6, r4})
MCRef == (a1 :> 2) @@ (a2 :> 2) @@ (a3 :> 2) @@ (l4 :> 4) @@ (r4 :> 4) @@ (l5 :> 5)
         @@ (l6 :> 5) @@ (m7 :> 6)
MCTops == <<{z}, {a3}, {a3}, {l4, r4}, {l6, r4}, {m7}>>
=============================================================================
