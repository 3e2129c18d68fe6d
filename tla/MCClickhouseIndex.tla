------------------------- MODULE MCClickhouseIndex -------------------------
(* Instances of ClickhouseIndex for TLC. *)
EXTENDS ClickhouseIndex

MCTask == 0 .. SeqnoLimit - 1
MCOnes == [t \in MCTask |-> 1]
MCBatchSize == [mc_blocks |-> 1, blocks |-> 4, txs |-> 4, msgs |-> 4]
MCMaxQueue == [mc_blocks |-> 1, blocks |-> 4, txs |-> 4, msgs |-> 4]

Tx(id, descr, storage, credit, compute, action, bounce) ==
  [id |-> id, descr |-> descr, storage_ph |-> storage, credit_ph |-> credit,
   compute_ph |-> compute, action |-> action, bounce |-> bounce]

\* All descriptions, all compute and bounce phases, optional parts both ways.
MCTxsOf ==
  [t \in MCTask |->
     CASE t = 1 -> <<Tx("a", "ord", TRUE, FALSE, "vm", TRUE, "nofunds"),
                     Tx("b", "storage", TRUE, FALSE, "vm", FALSE, "none"),
                     Tx("c", "merge_install", FALSE, TRUE, "skipped", FALSE, "none"),
                     Tx("d", "tick_tock", TRUE, FALSE, "vm", TRUE, "none")>>
       [] t = 2 -> <<Tx("e", "split_install", FALSE, FALSE, "skipped", FALSE, "none"),
                     Tx("f", "ord", FALSE, TRUE, "skipped", FALSE, "negfunds"),
                     Tx("g", "split_prepare", TRUE, FALSE, "vm", FALSE, "none"),
                     Tx("h", "merge_prepare", TRUE, FALSE, "vm", FALSE, "none"),
                     Tx("i", "ord", TRUE, TRUE, "vm", TRUE, "ok")>>
       [] OTHER -> <<Tx("j", "ord", TRUE, TRUE, "vm", TRUE, "none")>>]
=============================================================================
