-------------------------- MODULE ClickhouseColumns --------------------------
(***************************************************************************)
(* How InsertBatchClickhouse::insert_transactions turns transactions into  *)
(* columns (InsertManagerClickhouse.cpp).  The client takes a table column *)
(* by column; every transaction has to append one value to each column,    *)
(* whatever its description, or the values of later transactions move to   *)
(* the rows of earlier ones.                                               *)
(*                                                                         *)
(* A transaction is a record of its description and of the optional parts  *)
(* it has; a value is the name of the transaction it comes from, or Null.  *)
(* Columns that every branch of the code appends to together are one       *)
(* column here.                                                            *)
(***************************************************************************)
EXTENDS Integers, Sequences, FiniteSets, SequencesExt

CONSTANT Null

Column == {"hash", "hash_before", "descr", "aborted", "destroyed", "credit_first", "is_tock",
           "installed", "storage_ph", "credit_ph", "compute_ph", "skipped_reason", "vm",
           "action", "bounce", "msg_size", "req_fwd_fees", "bounce_fees", "split_info"}

Transaction ==
  [id : STRING,
   descr : {"ord", "storage", "tick_tock", "split_prepare", "split_install", "merge_prepare",
            "merge_install"},
   storage_ph : BOOLEAN, credit_ph : BOOLEAN, compute_ph : {"skipped", "vm"},
   action : BOOLEAN, bounce : {"none", "negfunds", "nofunds", "ok"}]

----------------------------------------------------------------------------
(* The calls of Append, in order: pairs of a column and a value *)

Some(column, tx) == <<column, tx.id>>
None(column) == <<column, Null>>

store_storage_ph(tx) == <<Some("storage_ph", tx)>>
store_empty_storage_ph == <<None("storage_ph")>>

store_credit_ph(tx) == <<Some("credit_ph", tx)>>
store_empty_credit_ph == <<None("credit_ph")>>

store_compute_ph(tx) ==
  IF tx.compute_ph = "skipped"
  THEN <<Some("compute_ph", tx), Some("skipped_reason", tx), None("vm")>>
  ELSE <<Some("compute_ph", tx), None("skipped_reason"), Some("vm", tx)>>
store_empty_compute_ph == <<None("compute_ph"), None("skipped_reason"), None("vm")>>

store_action_ph(tx) == <<Some("action", tx)>>
store_empty_action_ph == <<None("action")>>

\* Mutant of store_bounce_ph: the size of the message is left out of one variant.
store_bounce_ph_short(tx) ==
  <<Some("bounce", tx)>> \o
  CASE tx.bounce = "negfunds" -> <<None("msg_size"), None("req_fwd_fees"), None("bounce_fees")>>
    [] tx.bounce = "nofunds" -> <<Some("req_fwd_fees", tx), None("bounce_fees")>>
    [] tx.bounce = "ok" -> <<Some("msg_size", tx), None("req_fwd_fees"), Some("bounce_fees", tx)>>

store_bounce_ph(tx) ==
  <<Some("bounce", tx)>> \o
  CASE tx.bounce = "negfunds" -> <<None("msg_size"), None("req_fwd_fees"), None("bounce_fees")>>
    [] tx.bounce = "nofunds" -> <<Some("msg_size", tx), Some("req_fwd_fees", tx), None("bounce_fees")>>
    [] tx.bounce = "ok" -> <<Some("msg_size", tx), None("req_fwd_fees"), Some("bounce_fees", tx)>>
store_empty_bounce_ph ==
  <<None("bounce"), None("msg_size"), None("req_fwd_fees"), None("bounce_fees")>>

store_split_info(tx) == <<Some("split_info", tx)>>
store_empty_split_info == <<None("split_info")>>

\* The optional parts.
StorageOrEmpty(tx) == IF tx.storage_ph THEN store_storage_ph(tx) ELSE store_empty_storage_ph
CreditOrEmpty(tx) == IF tx.credit_ph THEN store_credit_ph(tx) ELSE store_empty_credit_ph
ActionOrEmpty(tx) == IF tx.action THEN store_action_ph(tx) ELSE store_empty_action_ph
BounceOrEmpty(tx) == IF tx.bounce # "none" THEN store_bounce_ph(tx) ELSE store_empty_bounce_ph

\* The columns of the description itself: those in flags get a value.
Flags(tx, flags) ==
  LET all == <<"aborted", "destroyed", "credit_first", "is_tock", "installed">>
  IN  <<Some("descr", tx)>> \o
      [i \in 1 .. 5 |-> IF all[i] \in flags THEN Some(all[i], tx) ELSE None(all[i])]

StoreOrd(tx) ==
  Flags(tx, {"aborted", "destroyed", "credit_first"}) \o StorageOrEmpty(tx) \o CreditOrEmpty(tx)
  \o store_compute_ph(tx) \o ActionOrEmpty(tx) \o BounceOrEmpty(tx) \o store_empty_split_info

StoreStorage(tx) ==
  Flags(tx, {}) \o store_storage_ph(tx) \o store_empty_credit_ph \o store_empty_compute_ph
  \o store_empty_action_ph \o store_empty_bounce_ph \o store_empty_split_info

StoreTickTock(tx) ==
  Flags(tx, {"aborted", "destroyed", "is_tock"}) \o store_storage_ph(tx) \o store_empty_credit_ph
  \o store_compute_ph(tx) \o ActionOrEmpty(tx) \o store_empty_bounce_ph \o store_empty_split_info

StoreSplitPrepare(tx) ==
  Flags(tx, {"aborted", "destroyed"}) \o StorageOrEmpty(tx) \o store_empty_credit_ph
  \o store_compute_ph(tx) \o ActionOrEmpty(tx) \o store_empty_bounce_ph \o store_split_info(tx)

StoreSplitInstall(tx) ==
  Flags(tx, {"installed"}) \o store_empty_storage_ph \o store_empty_credit_ph
  \o store_empty_compute_ph \o store_empty_action_ph \o store_empty_bounce_ph
  \o store_split_info(tx)

StoreMergePrepare(tx) ==
  Flags(tx, {"aborted"}) \o store_storage_ph(tx) \o store_empty_credit_ph
  \o store_empty_compute_ph \o store_empty_action_ph \o store_empty_bounce_ph
  \o store_split_info(tx)

\* Mutant of StoreMergeInstall: the credit phase is not stored.
StoreMergeInstallUncredited(tx) ==
  Flags(tx, {"aborted", "destroyed"}) \o StorageOrEmpty(tx) \o store_empty_credit_ph
  \o store_compute_ph(tx) \o ActionOrEmpty(tx) \o store_empty_bounce_ph \o store_split_info(tx)

StoreMergeInstall(tx) ==
  Flags(tx, {"aborted", "destroyed"}) \o StorageOrEmpty(tx) \o CreditOrEmpty(tx)
  \o store_compute_ph(tx) \o ActionOrEmpty(tx) \o store_empty_bounce_ph \o store_split_info(tx)

\* One turn of the loop.  The hash of the state before the transaction is not
\* stored: its column gets the hash of the state after it.
Appends(tx) ==
  <<Some("hash", tx), <<"hash_before", <<"after", tx.id>> >> >> \o
  CASE tx.descr = "ord" -> StoreOrd(tx)
    [] tx.descr = "storage" -> StoreStorage(tx)
    [] tx.descr = "tick_tock" -> StoreTickTock(tx)
    [] tx.descr = "split_prepare" -> StoreSplitPrepare(tx)
    [] tx.descr = "split_install" -> StoreSplitInstall(tx)
    [] tx.descr = "merge_prepare" -> StoreMergePrepare(tx)
    [] tx.descr = "merge_install" -> StoreMergeInstall(tx)

----------------------------------------------------------------------------
\* The columns of a sequence of transactions.
Columns(txs) ==
  LET appends == FlattenSeq([i \in 1 .. Len(txs) |-> Appends(txs[i])])
      of(column) == SelectSeq(appends, LAMBDA a : a[1] = column)
  IN  [c \in Column |-> LET cells == of(c) IN [i \in 1 .. Len(cells) |-> cells[i][2]]]

\* Block::AppendColumn throws unless all columns have the same length.
Aligned(columns) == \A c \in Column : Len(columns[c]) = Len(columns["hash"])

\* The rows the client sends.
RowsSent(columns) ==
  {[c \in Column |-> columns[c][i]] : i \in 1 .. Len(columns["hash"])}

----------------------------------------------------------------------------
\* What a description holds (IndexData.h): the columns that are not NULL.
Holds(tx) ==
  {"hash", "descr"}
  \cup (IF tx.descr \notin {"storage", "split_install"} THEN {"aborted"} ELSE {})
  \cup (IF tx.descr \in {"ord", "tick_tock", "split_prepare", "merge_install"}
        THEN {"destroyed"} ELSE {})
  \cup (IF tx.descr = "ord" THEN {"credit_first"} ELSE {})
  \cup (IF tx.descr = "tick_tock" THEN {"is_tock"} ELSE {})
  \cup (IF tx.descr = "split_install" THEN {"installed"} ELSE {})
  \cup (IF tx.storage_ph THEN {"storage_ph"} ELSE {})
  \cup (IF tx.credit_ph THEN {"credit_ph"} ELSE {})
  \cup (IF tx.descr \in {"ord", "tick_tock", "split_prepare", "merge_install"}
        THEN {"compute_ph", IF tx.compute_ph = "vm" THEN "vm" ELSE "skipped_reason"} ELSE {})
  \cup (IF tx.action THEN {"action"} ELSE {})
  \cup (IF tx.bounce # "none" THEN {"bounce"} ELSE {})
  \cup (IF tx.bounce \in {"nofunds", "ok"} THEN {"msg_size"} ELSE {})
  \cup (IF tx.bounce = "nofunds" THEN {"req_fwd_fees"} ELSE {})
  \cup (IF tx.bounce = "ok" THEN {"bounce_fees"} ELSE {})
  \cup (IF tx.descr \in {"split_prepare", "split_install", "merge_prepare", "merge_install"}
        THEN {"split_info"} ELSE {})

\* The row is the one of the transaction; hash_before is not looked at.
IsRowOf(row, tx) ==
  LET stored == {c \in Column \ {"hash_before"} : row[c] # Null}
  IN  stored = Holds(tx) /\ \A c \in stored : row[c] = tx.id
=============================================================================
