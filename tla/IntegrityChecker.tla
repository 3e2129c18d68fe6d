-------------------------- MODULE IntegrityChecker --------------------------
(***************************************************************************)
(* ton-integrity-checker: fetches every masterchain block from the oldest  *)
(* one that has a state up to the newest, several at a time, and records   *)
(* its progress in a checkpoint file (src/IntegrityChecker.cpp).           *)
(*                                                                         *)
(* queued_seqnos_ always holds an interval that ends with to_seqno_, so it *)
(* is represented by its front.  The node's database is external: blocks   *)
(* from Oldest on exist, those from OldestState on have a state, and those *)
(* in Damaged cannot be fetched.                                           *)
(***************************************************************************)
EXTENDS Integers, Sequences, FiniteSets

CONSTANTS
  Oldest, OldestState,   \* the node's oldest block, and its oldest one with a state
  Damaged,               \* blocks that cannot be fetched
  FetchParallelism,      \* fetch_parallelism_
  ParseParallelism,      \* parse_parallelism_
  QueueMaxSize,          \* blocks_to_parse_queue_max_size_
  FirstMcSeqno,          \* the end of the chain at the first start
  MaxMcSeqno,            \* bound: how far the chain grows
  MaxRestarts            \* bound

ASSUME CheckerAssumption ==
  /\ Oldest \in Nat /\ OldestState \in Nat /\ Oldest <= OldestState
  /\ FetchParallelism \in Nat \ {0} /\ ParseParallelism \in Nat \ {0}
  /\ QueueMaxSize \in Nat
  /\ FirstMcSeqno \in Nat \ {0} /\ MaxMcSeqno \in Nat
  /\ OldestState <= FirstMcSeqno /\ FirstMcSeqno <= MaxMcSeqno
  /\ MaxRestarts \in Nat

VARIABLES
  phase,              \* "down", "search", "run", "stalled", "stopped" (success) or "exited"
  search,             \* arguments of the pending find_oldest_seqno_with_state
  from_seqno, to_seqno,
  queued,             \* queued_seqnos_ holds queued .. to_seqno
  seqnos_fetching, seqnos_parsing, seqnos_processed,
  blocks_to_parse,    \* seqnos of blocks_to_parse_, oldest first
  delayed,            \* fetch_next_seqnos calls delayed by a second
  checkpoint_seqno,   \* checkpoint_seqno_
  checkpoint,         \* content of the checkpoint file, 0 when there is none
  mc_seqno,           \* the newest block of the node's database
  restarts,
  verified            \* history: all seqnos any process has verified

work == <<queued, seqnos_fetching, seqnos_parsing, seqnos_processed, blocks_to_parse, delayed>>
range == <<from_seqno, to_seqno>>
vars == <<phase, search, range, work, checkpoint_seqno, checkpoint, mc_seqno, restarts, verified>>

Elements(s) == {s[i] : i \in 1 .. Len(s)}
Larger(a, b) == IF a > b THEN a ELSE b

Idle == /\ from_seqno = 0 /\ to_seqno = 0
        /\ queued = 1
        /\ seqnos_fetching = {} /\ seqnos_parsing = {} /\ seqnos_processed = {}
        /\ blocks_to_parse = << >> /\ delayed = 0
        /\ checkpoint_seqno = 0
        /\ search = [min |-> 0, max |-> 0]

Init == /\ Idle
        /\ phase = "down"
        /\ checkpoint = 0
        /\ mc_seqno = FirstMcSeqno
        /\ restarts = 0 /\ verified = {}

----------------------------------------------------------------------------
(* The two loops *)

\* How many elements a loop takes that stops at a limit or an empty queue.
Taken(length, busy, limit) ==
  IF busy >= limit THEN 0 ELSE IF length < limit - busy THEN length ELSE limit - busy

\* fetch_next_seqnos, with the set of seqnos being fetched on entry.
fetch_next_seqnos(to, front, fetching, later) ==
  IF Len(blocks_to_parse) > QueueMaxSize
  THEN /\ delayed' = later + 1
       /\ queued' = front
       /\ seqnos_fetching' = fetching
  ELSE LET n == Taken(Larger(0, to + 1 - front), Cardinality(fetching), FetchParallelism)
       IN  /\ delayed' = later
           /\ queued' = front + n
           /\ seqnos_fetching' = fetching \cup front .. front + n - 1

\* parse_next_seqnos, with the queue and the set of seqnos being parsed on entry.
parse_next_seqnos(blocks, parsing) ==
  LET n == Taken(Len(blocks), Cardinality(parsing), ParseParallelism)
  IN  /\ blocks_to_parse' = SubSeq(blocks, n + 1, Len(blocks))
      /\ seqnos_parsing' = parsing \cup {blocks[i] : i \in 1 .. n}

----------------------------------------------------------------------------
(* Start-up *)

\* Mutant of got_oldest_mc_seqno_with_state: starts with the block that was found.
got_oldest_mc_seqno_with_state_itself(oldest, to) ==
  LET from == Larger(3, oldest)
  IN  /\ phase' = "run"
      /\ from_seqno' = from
      /\ checkpoint_seqno' = from
      /\ fetch_next_seqnos(to, from, {}, delayed)
      /\ UNCHANGED <<seqnos_parsing, seqnos_processed, blocks_to_parse>>

got_oldest_mc_seqno_with_state(oldest, to) ==
  LET from == Larger(3, oldest + 1)
  IN  /\ phase' = "run"
      /\ from_seqno' = from
      /\ checkpoint_seqno' = from
      /\ fetch_next_seqnos(to, from, {}, delayed)
      /\ UNCHANGED <<seqnos_parsing, seqnos_processed, blocks_to_parse>>

\* start_up, got_last_mc_seqno and got_min_mc_seqno: resume behind the
\* checkpoint, or look for the oldest block with a state.
Start ==
  /\ phase = "down"
  /\ to_seqno' = mc_seqno
  /\ IF checkpoint # 0
     THEN got_oldest_mc_seqno_with_state(checkpoint, mc_seqno) /\ UNCHANGED search
     ELSE /\ phase' = "search"
          /\ search' = [min |-> Oldest, max |-> mc_seqno]
          /\ UNCHANGED <<from_seqno, checkpoint_seqno, work>>
  /\ UNCHANGED <<checkpoint, mc_seqno, restarts, verified>>

\* The checkpoint file cannot be read; or a seqno cannot be had from the node's
\* database, which is logged and leaves a process that does nothing.
StartFails ==
  /\ phase = "down"
  /\ \/ checkpoint # 0 /\ phase' = "exited" /\ UNCHANGED to_seqno
     \/ phase' = "stalled" /\ UNCHANGED to_seqno
     \/ checkpoint = 0 /\ phase' = "stalled" /\ to_seqno' = mc_seqno
  /\ UNCHANGED <<search, from_seqno, work, checkpoint_seqno, checkpoint, mc_seqno, restarts,
                 verified>>

Middle(min, max) == min + (max - min) \div 2

\* One round of the binary search.
find_oldest_seqno_with_state ==
  /\ phase = "search"
  /\ LET mid == Middle(search.min, search.max)
     IN  IF search.min > search.max
         THEN phase' = "exited" /\ UNCHANGED <<search, from_seqno, checkpoint_seqno, work>>
         ELSE IF mid >= OldestState
         THEN IF search.min = mid
              THEN got_oldest_mc_seqno_with_state(mid, to_seqno) /\ UNCHANGED search
              ELSE /\ search' = [search EXCEPT !.max = mid]
                   /\ UNCHANGED <<phase, from_seqno, checkpoint_seqno, work>>
         ELSE /\ search' = [search EXCEPT !.min = mid + 1]
              /\ UNCHANGED <<phase, from_seqno, checkpoint_seqno, work>>
  /\ UNCHANGED <<to_seqno, checkpoint, mc_seqno, restarts, verified>>

----------------------------------------------------------------------------
(* Fetching and parsing *)

\* The size of blocks_to_parse_ is looked at before the new block is added.
seqno_fetched(s) ==
  /\ phase = "run"
  /\ s \in seqnos_fetching
  /\ s \notin Damaged
  /\ fetch_next_seqnos(to_seqno, queued, seqnos_fetching \ {s}, delayed)
  /\ parse_next_seqnos(Append(blocks_to_parse, s), seqnos_parsing)
  /\ UNCHANGED <<phase, search, range, seqnos_processed, checkpoint_seqno, checkpoint,
                 mc_seqno, restarts, verified>>

fetch_error(s) ==
  /\ phase = "run"
  /\ s \in seqnos_fetching
  /\ s \in Damaged
  /\ phase' = "exited"
  /\ UNCHANGED <<search, range, work, checkpoint_seqno, checkpoint, mc_seqno, restarts, verified>>

\* Mutant of DelayedFetch: the delayed call is forgotten.
DelayedFetchLost ==
  /\ phase = "run"
  /\ delayed > 0
  /\ delayed' = delayed - 1
  /\ UNCHANGED <<queued, seqnos_fetching, seqnos_parsing, seqnos_processed, blocks_to_parse,
                 phase, search, range, checkpoint_seqno, checkpoint, mc_seqno, restarts, verified>>

\* The delayed action runs fetch_next_seqnos once more.
DelayedFetch ==
  /\ phase = "run"
  /\ delayed > 0
  /\ fetch_next_seqnos(to_seqno, queued, seqnos_fetching, delayed - 1)
  /\ UNCHANGED <<seqnos_parsing, seqnos_processed, blocks_to_parse, phase, search, range,
                 checkpoint_seqno, checkpoint, mc_seqno, restarts, verified>>

\* Mutant of AllFetched: seqnos being fetched are not waited for.
AllFetchedButLast == blocks_to_parse = << >> /\ queued > to_seqno

\* The condition for stop(): seqnos being parsed are not waited for.
AllFetched == blocks_to_parse = << >> /\ queued > to_seqno /\ seqnos_fetching = {}

\* The parser is a stub that never fails.
seqno_parsed(s) ==
  /\ phase = "run"
  /\ s \in seqnos_parsing
  /\ seqnos_processed' = seqnos_processed \cup {s}
  /\ verified' = verified \cup {s}
  /\ IF AllFetched
     THEN /\ phase' = "stopped"
          /\ seqnos_parsing' = seqnos_parsing \ {s}
          /\ UNCHANGED blocks_to_parse
     ELSE parse_next_seqnos(blocks_to_parse, seqnos_parsing \ {s}) /\ UNCHANGED phase
  /\ UNCHANGED <<search, range, queued, seqnos_fetching, delayed, checkpoint_seqno, checkpoint,
                 mc_seqno, restarts>>

----------------------------------------------------------------------------
(* The alarm *)

\* Mutant of IsNextCheckpoint: stops at the highest processed seqno.
IsNextCheckpointHighest(next, processed) ==
  next >= checkpoint_seqno /\ \A s \in processed : s < next

\* The loop advances the checkpoint to the first gap, and leaves it where it is
\* when there is no processed seqno behind a gap.
IsNextCheckpoint(next, processed) ==
  \/ /\ next >= checkpoint_seqno
     /\ next \notin processed
     /\ \A s \in checkpoint_seqno .. next - 1 : s \in processed
     /\ \E s \in processed : s > next
  \/ /\ next = checkpoint_seqno
     /\ \A s \in processed : \A t \in checkpoint_seqno .. s : t \in processed

alarm ==
  /\ phase = "run"
  /\ \E next \in checkpoint_seqno .. Larger(checkpoint_seqno, to_seqno) :
       /\ IsNextCheckpoint(next, seqnos_processed)
       /\ checkpoint_seqno' = next
       /\ checkpoint' = next
  /\ UNCHANGED <<phase, search, range, work, mc_seqno, restarts, verified>>

\* fail_if_low_memory, before the checkpoint is written; a block handle that
\* the search cannot read; or any other end.
Exit ==
  /\ phase \in {"search", "run", "stalled"}
  /\ phase' = "exited"
  /\ UNCHANGED <<search, range, work, checkpoint_seqno, checkpoint, mc_seqno, restarts, verified>>

\* The program is started again; its memory starts empty.
Restart ==
  /\ phase \in {"exited", "stopped"}
  /\ restarts < MaxRestarts
  /\ restarts' = restarts + 1
  /\ phase' = "down"
  /\ from_seqno' = 0 /\ to_seqno' = 0 /\ queued' = 1
  /\ seqnos_fetching' = {} /\ seqnos_parsing' = {} /\ seqnos_processed' = {}
  /\ blocks_to_parse' = << >> /\ delayed' = 0
  /\ checkpoint_seqno' = 0 /\ search' = [min |-> 0, max |-> 0]
  /\ UNCHANGED <<checkpoint, mc_seqno, verified>>

ChainGrows ==
  /\ mc_seqno < MaxMcSeqno
  /\ mc_seqno' = mc_seqno + 1
  /\ UNCHANGED <<phase, search, range, work, checkpoint_seqno, checkpoint, restarts, verified>>

Next == \/ Start \/ StartFails \/ find_oldest_seqno_with_state
        \/ \E s \in seqnos_fetching : seqno_fetched(s) \/ fetch_error(s)
        \/ \E s \in seqnos_parsing : seqno_parsed(s)
        \/ DelayedFetch \/ alarm \/ Exit \/ Restart \/ ChainGrows

Spec == Init /\ [][Next]_vars

\* Closures are run, timers fire and the node's database answers.
FairSpec == /\ Spec
            /\ WF_vars(Start) /\ WF_vars(find_oldest_seqno_with_state)
            /\ WF_vars(\E s \in seqnos_fetching : seqno_fetched(s) \/ fetch_error(s))
            /\ WF_vars(\E s \in seqnos_parsing : seqno_parsed(s))
            /\ WF_vars(DelayedFetch)

----------------------------------------------------------------------------
(* Properties *)

\* Every variable has its type.
TypeOK ==
  /\ phase \in {"down", "search", "run", "stalled", "stopped", "exited"}
  /\ search \in [min : Nat, max : Nat]
  /\ from_seqno \in Nat /\ to_seqno \in 0 .. MaxMcSeqno
  /\ queued \in Nat
  /\ seqnos_fetching \subseteq 0 .. MaxMcSeqno
  /\ seqnos_parsing \subseteq 0 .. MaxMcSeqno
  /\ seqnos_processed \subseteq 0 .. MaxMcSeqno
  /\ blocks_to_parse \in Seq(0 .. MaxMcSeqno)
  /\ delayed \in Nat
  /\ checkpoint_seqno \in Nat /\ checkpoint \in Nat
  /\ mc_seqno \in 0 .. MaxMcSeqno
  /\ restarts \in 0 .. MaxRestarts
  /\ verified \subseteq 0 .. MaxMcSeqno

\* Every seqno of the range is in exactly one place, so none is skipped or
\* checked twice however fetches and parses overtake each other.
InOnePlace ==
  phase \in {"run", "stopped"} =>
    LET places == <<queued .. to_seqno, seqnos_fetching, Elements(blocks_to_parse),
                    seqnos_parsing, seqnos_processed>>
    IN  /\ from_seqno .. to_seqno = UNION {places[i] : i \in 1 .. 5}
        /\ \A i, j \in 1 .. 5 : i # j => places[i] \cap places[j] = {}
        /\ \A i, j \in 1 .. Len(blocks_to_parse) :
             blocks_to_parse[i] = blocks_to_parse[j] => i = j

\* The checker reports success only when every block of the range was fetched:
\* it has been parsed or has been handed to the parser.
SuccessMeansFetched ==
  phase = "stopped" => from_seqno .. to_seqno = seqnos_processed \cup seqnos_parsing

\* blocks_to_parse_ exceeds its limit by at most one block and the fetches in
\* flight, although its size is looked at before a block is added.
ParseQueueBound ==
  Len(blocks_to_parse) + Cardinality(seqnos_fetching) <= QueueMaxSize + 1 + FetchParallelism

\* The binary search keeps the oldest block with a state between its ends and
\* the check starts behind it.
SearchBrackets ==
  /\ phase = "search" => search.min <= OldestState /\ OldestState <= search.max
  /\ phase = "run" /\ search.max # 0 => from_seqno = Larger(3, OldestState + 1)

\* The checkpoint never passes a seqno of this process that is not processed,
\* although seqnos are processed out of order.
CheckpointBelowGap ==
  phase = "run" => \A s \in from_seqno .. checkpoint_seqno - 1 : s \in seqnos_processed

\* The checkpoint file never goes back, across restarts.
CheckpointGrows == [][checkpoint' >= checkpoint]_vars

\* A check that has something to do ends.
Terminates == (phase = "run" /\ from_seqno <= to_seqno) ~> phase \in {"stopped", "exited"}

\* What lies below the first seqno of a process has been verified by an earlier
\* one.  It does not hold: the checkpoint names the first block that is not verified,
\* and a restart begins behind it (README, section 5).
ResumesBehindVerified ==
  phase \in {"run", "stopped"} =>
    (Larger(3, OldestState + 1) .. from_seqno - 1) \subseteq verified
=============================================================================
