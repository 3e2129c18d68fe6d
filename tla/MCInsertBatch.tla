--------------------------- MODULE MCInsertBatch ----------------------------
(***************************************************************************)
(* Three insert actors for TLC: two share two bodies and an entity, the    *)
(* third one has a block that is already stored.                           *)
(***************************************************************************)
EXTENDS InsertBatchPostgres, TLC

CONSTANTS b1, b2, b3, x, y, owner, wallet

MCTasks == (b1 :> {1}) @@ (b2 :> {2}) @@ (b3 :> {3, 4})
MCBodies == <<{x, y}, {x, y}, {x}, {y}>>
MCVersion == << (owner :> 1) @@ (wallet :> 0), (owner :> 2) @@ (wallet :> 1),
                (owner :> 0) @@ (wallet :> 0), (owner :> 0) @@ (wallet :> 2) >>
=============================================================================
