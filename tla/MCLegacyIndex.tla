--------------------------- MODULE MCLegacyIndex ---------------------------
(***************************************************************************)
(* An instance of LegacyIndex for TLC.  Two collections, c and d, exist    *)
(* before the first block.  Both blocks change i, an item of c, but not    *)
(* its data; block 2 changes c, which from then on also answers like an    *)
(* item of d, and d does not recognise it.  Message m is sent in block 1   *)
(* and received in block 2; it has the same body as n.                     *)
(***************************************************************************)
EXTENDS LegacyIndex

MCTask == 0 .. SeqnoLimit - 1
MCOnes == [t \in MCTask |-> 1]
MCSize == [mc_blocks |-> 0, blocks |-> 4, txs |-> 4, msgs |-> 4]
MCMaxQueue == [mc_blocks |-> 2, blocks |-> 4, txs |-> 4, msgs |-> 4]

MCAccount == {"c", "d", "i"}
MCKind == {"NFT_COLLECTION", "NFT_ITEM"}
MCStatesOf == [b \in MCTask |-> CASE b = 0 -> {"c", "d"} [] b = 1 -> {"i"} [] OTHER -> {"c", "i"}]
MCTransfersOf == [b \in MCTask |-> IF b = 1 THEN {<<"i", "NFT_ITEM">>} ELSE {}]
MCCodeOf == [c |-> "collection", d |-> "collection", i |-> "item"]
MCDataOf == [a \in MCAccount |-> [b \in MCTask |-> IF a = "i" THEN 0 ELSE b]]
MCMethod == [k \in MCKind |-> [a \in MCAccount |-> [b \in MCTask |->
               IF k = "NFT_ITEM" \/ a # "i" THEN "ok" ELSE "fails"]]]
MCParent == [a \in MCAccount |-> [b \in MCTask |->
               CASE a = "i" -> "c" [] a = "c" /\ b = 2 -> "d" [] OTHER -> "nobody"]]
MCRecognises == [a \in MCAccount |-> [b \in MCTask |-> IF a = "c" THEN {"i"} ELSE {}]]
MCMessagesOf == [b \in MCTask |-> IF b = 1 THEN {"m", "n"} ELSE {"m"}]
MCBodiesOf == [m |-> {"x"}, n |-> {"x"}]
=============================================================================
