------------------------- MODULE MCIntegrityChecker -------------------------
(* An instance of IntegrityChecker for TLC: the newest block is damaged. *)
EXTENDS IntegrityChecker

MCDamaged == {MaxMcSeqno}
=============================================================================
