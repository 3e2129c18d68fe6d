---------------------------- MODULE MCSmcScanner ----------------------------
(***************************************************************************)
(* Two shards for TLC: one needs two batches, the other one batch that is  *)
(* not full.  The indexer updates the token meanwhile.                     *)
(***************************************************************************)
EXTENDS SmcScanner, TLC

CONSTANTS west, east

MCAccounts == (west :> {1, 2, 3}) @@ (east :> {4})
MCKind == <<"token", "contract", "bare", "none">>
=============================================================================
