-------------------------- MODULE MCIndexPipeline --------------------------
(* Instances of IndexPipeline for TLC. *)
EXTENDS IndexPipelineLedger

MCTask == 0 .. SeqnoLimit - 1

\* Blocks differ in weight, so that batches of one size hold one or two of them.
MCBlocks == [t \in MCTask |-> 1 + 2 * (t % 2)]
MCOnes == [t \in MCTask |-> 1]

MCBatchSize == [mc_blocks |-> 1, blocks |-> 2, txs |-> 2, msgs |-> 2]
MCMaxQueue == [mc_blocks |-> 0, blocks |-> 4, txs |-> 4, msgs |-> 4]
=============================================================================
