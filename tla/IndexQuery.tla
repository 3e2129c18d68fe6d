----------------------------- MODULE IndexQuery -----------------------------
(***************************************************************************)
(* The actor IndexQuery of DbScanner.cpp reads one masterchain block and   *)
(* the shard blocks that belong to it: it walks from the shard tops of the *)
(* masterchain state down the predecessors, one generation at a time, and  *)
(* then reads data and state of every block it has kept.  Reads are        *)
(* answered in any order, and each of them may fail.                       *)
(*                                                                         *)
(* The node's database RootDb, and what it says about the chain, are       *)
(* external.  A handle is identified with the block it describes.          *)
(***************************************************************************)
EXTENDS Integers, Sequences, FiniteSets, SequencesExt

CONSTANTS
  Block,        \* shard blocks with a seqno above 0
  ZeroState,    \* shard states with seqno 0
  Prev,         \* Prev[b]: predecessors of b
  Ref,          \* Ref[b]: masterchain_ref_block of b
  Tops,         \* Tops[n]: shard tops in the state of masterchain block n
  McBlock,      \* the masterchain block itself in an answer
  MaxErrors     \* bound on reads that fail

McSeqno == DOMAIN Tops

ASSUME ChainAssumption ==
  /\ Prev \in [Block -> SUBSET (Block \cup ZeroState)]
  /\ \A n \in McSeqno : Tops[n] \subseteq Block \cup ZeroState
  /\ McBlock \notin Block \cup ZeroState
  /\ MaxErrors \in Nat

\* A block that came with masterchain block n is a top of n or the predecessor
\* of a block that came with n.
ASSUME RefAssumption ==
  \A b \in Block : \/ b \in Tops[Ref[b]]
                   \/ \E c \in Block : b \in Prev[c] /\ Ref[c] = Ref[b]

VARIABLES
  mc_seqno,              \* mc_seqno_
  phase,                 \* what the query waits for, or how it was answered
  mc_reads,              \* outstanding reads of the masterchain block
  blocks_queue,          \* blocks_queue_
  requests,              \* numbered reads of handles at the database
  arrived,               \* calls of add_block_handle in the mailbox
  shard_block_handles,   \* shard_block_handles_
  reads,                 \* reads[b]: outstanding reads of GetBlockDataState
  ready,                 \* calls of got_shard_block in the mailbox
  shard_blocks, shard_blocks_diff,   \* result_
  asked,                 \* history: all blocks whose handle was asked for
  errors

vars == <<mc_seqno, phase, mc_reads, blocks_queue, requests, arrived, shard_block_handles,
          reads, ready, shard_blocks, shard_blocks_diff, asked, errors>>

Parts == {"data", "state"}

Init ==
  /\ mc_seqno \in McSeqno
  /\ phase = "handle"
  /\ mc_reads = {}
  /\ blocks_queue = << >>
  /\ requests = {} /\ arrived = {}
  /\ shard_block_handles = {}
  /\ reads = [b \in Block |-> {}]
  /\ ready = {}
  /\ shard_blocks = << >> /\ shard_blocks_diff = << >>
  /\ asked = {}
  /\ errors = 0

----------------------------------------------------------------------------
(* The masterchain block *)

got_mc_block_handle ==
  /\ phase = "handle"
  /\ phase' = "mc"
  /\ mc_reads' = Parts
  /\ UNCHANGED <<mc_seqno, blocks_queue, requests, arrived, shard_block_handles, reads, ready,
                 shard_blocks, shard_blocks_diff, asked, errors>>

\* The ids whose handles exist; an id with seqno 0 is skipped.
Walkable(ids) == SetToSeq(ids \ ZeroState)

\* got_mc_block_data and got_mc_block_state; the second of the two goes on with
\* check_pending and fetch_shard_blocks.
got_mc_block_part(part) ==
  /\ phase = "mc"
  /\ part \in mc_reads
  /\ mc_reads' = mc_reads \ {part}
  /\ IF mc_reads' # {}
     THEN UNCHANGED <<phase, blocks_queue, shard_blocks, shard_blocks_diff>>
     ELSE /\ phase' = "walk"
          /\ blocks_queue' = Walkable(Tops[mc_seqno])
          /\ shard_blocks' = <<McBlock>>
          /\ shard_blocks_diff' = <<McBlock>>
  /\ UNCHANGED <<mc_seqno, requests, arrived, shard_block_handles, reads, ready, asked, errors>>

----------------------------------------------------------------------------
(* The walk *)

\* Mutant of AllResolved: the promise is kept before add_block_handle has run.
AllResolvedEarly == requests = {}

\* The MultiPromise of a generation: every read is answered, and the call of
\* add_block_handle that holds its promise is done.
AllResolved == requests = {} /\ arrived = {}

\* The whole queue is asked for at once.
fetch_block_handles ==
  /\ phase = "walk"
  /\ AllResolved
  /\ blocks_queue # << >>
  /\ requests' = {[n |-> i, id |-> blocks_queue[i]] : i \in 1 .. Len(blocks_queue)}
  /\ asked' = asked \cup ToSet(blocks_queue)
  /\ blocks_queue' = << >>
  /\ UNCHANGED <<mc_seqno, phase, mc_reads, arrived, shard_block_handles, reads, ready,
                 shard_blocks, shard_blocks_diff, errors>>

\* A handle is kept when its block came with mc_seqno or is a shard top.
Belongs(b) == Ref[b] = mc_seqno \/ b \in Tops[mc_seqno]

got_block_handle(r) ==
  /\ phase = "walk"
  /\ r \in requests
  /\ requests' = requests \ {r}
  /\ arrived' = IF Belongs(r.id) THEN arrived \cup {r} ELSE arrived
  /\ UNCHANGED <<mc_seqno, phase, mc_reads, blocks_queue, shard_block_handles, reads, ready,
                 shard_blocks, shard_blocks_diff, asked, errors>>

add_block_handle(r) ==
  /\ phase = "walk"
  /\ r \in arrived
  /\ arrived' = arrived \ {r}
  /\ shard_block_handles' = shard_block_handles \cup {r.id}
  /\ blocks_queue' = IF r.id \in shard_block_handles THEN blocks_queue
                     ELSE blocks_queue \o Walkable(Prev[r.id])
  /\ UNCHANGED <<mc_seqno, phase, mc_reads, requests, reads, ready, shard_blocks,
                 shard_blocks_diff, asked, errors>>

----------------------------------------------------------------------------
(* The blocks *)

\* fetch_block_handles with an empty queue: a GetBlockDataState for each handle.
fetch_block_data_states ==
  /\ phase = "walk"
  /\ AllResolved
  /\ blocks_queue = << >>
  /\ phase' = "data"
  /\ reads' = [b \in Block |-> IF b \in shard_block_handles THEN Parts ELSE {}]
  /\ UNCHANGED <<mc_seqno, mc_reads, blocks_queue, requests, arrived, shard_block_handles, ready,
                 shard_blocks, shard_blocks_diff, asked, errors>>

\* check_return of GetBlockDataState: both reads are there.
Complete(left) == left = {}

\* got_block_data and got_block_state of GetBlockDataState.
got_block_part(b, part) ==
  /\ phase = "data"
  /\ part \in reads[b]
  /\ reads' = [reads EXCEPT ![b] = @ \ {part}]
  /\ ready' = IF Complete(reads'[b]) THEN ready \cup {b} ELSE ready
  /\ UNCHANGED <<mc_seqno, phase, mc_reads, blocks_queue, requests, arrived, shard_block_handles,
                 shard_blocks, shard_blocks_diff, asked, errors>>

\* Mutant of got_shard_block: the call, and its promise, is dropped.
got_shard_block_dropped(b) == phase = "data" /\ b \in ready /\ UNCHANGED vars

got_shard_block(b) ==
  /\ phase = "data"
  /\ b \in ready
  /\ ready' = ready \ {b}
  /\ shard_blocks' = IF b \in Tops[mc_seqno] THEN Append(shard_blocks, b) ELSE shard_blocks
  /\ shard_blocks_diff' = IF Ref[b] = mc_seqno THEN Append(shard_blocks_diff, b)
                          ELSE shard_blocks_diff
  /\ UNCHANGED <<mc_seqno, phase, mc_reads, blocks_queue, requests, arrived, shard_block_handles,
                 reads, asked, errors>>

finish ==
  /\ phase = "data"
  /\ ready = {} /\ \A b \in Block : reads[b] = {}
  /\ phase' = "value"
  /\ UNCHANGED <<mc_seqno, mc_reads, blocks_queue, requests, arrived, shard_block_handles, reads,
                 ready, shard_blocks, shard_blocks_diff, asked, errors>>

\* A read fails, or the shard configuration cannot be unpacked: the promise gets
\* the error and the actor stops; answers that are still to come find nobody.
error ==
  /\ errors < MaxErrors
  /\ errors' = errors + 1
  /\ \/ phase \in {"handle", "mc"}
     \/ phase = "walk" /\ requests # {}
     \/ phase = "data" /\ \E b \in Block : reads[b] # {}
  /\ phase' = "error"
  /\ UNCHANGED <<mc_seqno, mc_reads, blocks_queue, requests, arrived, shard_block_handles, reads,
                 ready, shard_blocks, shard_blocks_diff, asked>>

\* The actor has stopped.
Stopped == phase \in {"value", "error"} /\ UNCHANGED vars

Step == \/ got_mc_block_handle
        \/ \E part \in Parts : got_mc_block_part(part)
        \/ fetch_block_handles
        \/ \E r \in requests : got_block_handle(r)
        \/ \E r \in arrived : add_block_handle(r)
        \/ fetch_block_data_states
        \/ \E b \in Block, part \in Parts : got_block_part(b, part)
        \/ \E b \in Block : got_shard_block(b)
        \/ finish

Next == Step \/ error \/ Stopped

Spec == Init /\ [][Next]_vars

\* The actor runs and the database answers every read.
FairSpec == Spec /\ WF_vars(Step)

----------------------------------------------------------------------------
(* Properties *)

\* Every variable has its type; only blocks above seqno 0 are ever asked for.
TypeOK ==
  /\ mc_seqno \in McSeqno
  /\ phase \in {"handle", "mc", "walk", "data", "value", "error"}
  /\ mc_reads \subseteq Parts
  /\ blocks_queue \in Seq(Block)
  /\ requests \cup arrived \subseteq [n : Nat, id : Block]
  /\ shard_block_handles \subseteq Block
  /\ reads \in [Block -> SUBSET Parts]
  /\ ready \subseteq Block
  /\ shard_blocks \in Seq(Block \cup {McBlock})
  /\ shard_blocks_diff \in Seq(Block \cup {McBlock})
  /\ asked \subseteq Block
  /\ errors \in 0 .. MaxErrors

\* An answer has the shard tops in shard_blocks_ and exactly the blocks that
\* came with the masterchain block in shard_blocks_diff_, each of them once: a
\* shard block is indexed with one masterchain block and with no other.
AnswerIsExact ==
  phase = "value" =>
    /\ ToSet(shard_blocks) = {McBlock} \cup (Tops[mc_seqno] \ ZeroState)
    /\ ToSet(shard_blocks_diff) = {McBlock} \cup {b \in Block : Ref[b] = mc_seqno}
    /\ IsInjective(shard_blocks) /\ IsInjective(shard_blocks_diff)

\* The walk ends where the masterchain block ends: a block is asked for only if
\* it belongs to mc_seqno or is the predecessor of one that does.
WalkStaysNear ==
  LET near == {b \in Block : Ref[b] = mc_seqno} \cup Tops[mc_seqno]
  IN  \A b \in asked : b \in near \/ \E c \in near \cap asked : b \in Prev[c]

\* Every query is answered, with a value or with an error.
EventuallyAnswered == <>(phase \in {"value", "error"})
=============================================================================
