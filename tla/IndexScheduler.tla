--------------------------- MODULE IndexScheduler ---------------------------
(***************************************************************************)
(* The state of the IndexScheduler actor of ton-index-postgres-v2 and what *)
(* its handlers do to it (ton-index-postgres-v2/src/IndexScheduler.cpp).   *)
(* The workers it drives are in module IndexPipeline.                      *)
(***************************************************************************)
EXTENDS Integers, Sequences, FiniteSets

CONSTANTS
  SeqnoLimit,       \* BlockSeqno is unsigned: arithmetic is modulo this (2^32)
  From, To,         \* from_seqno_, to_seqno_; To = 0 means no upper end
  ForceIndex,       \* force_index_
  MaxActiveTasks,   \* max_active_tasks_
  LookBack          \* 50: blocks re-read when no assembler state is found

ASSUME SchedulerAssumption ==
  /\ SeqnoLimit \in Nat \ {0}
  /\ From \in 0 .. SeqnoLimit - 1
  /\ To \in 0 .. SeqnoLimit - 1
  /\ ForceIndex \in BOOLEAN
  /\ MaxActiveTasks \in Nat \ {0}
  /\ LookBack \in Nat

VARIABLES
  queued_seqnos,      \* queued_seqnos_: FIFO of seqnos not yet scheduled
  processing_seqnos,  \* processing_seqnos_
  existing_seqnos,    \* existing_seqnos_: seqnos that need no work
  last_known_seqno    \* last_known_seqno_

schedVars == <<queued_seqnos, processing_seqnos, existing_seqnos, last_known_seqno>>

Seqno == 0 .. SeqnoLimit - 1

Elements(s) == {s[i] : i \in 1 .. Len(s)}

\* seqno - 1 in unsigned arithmetic.
Before(seqno) == (seqno - 1) % SeqnoLimit

InRange(seqno) == /\ From <= 0 \/ seqno >= From
                  /\ To <= 0 \/ seqno <= To

----------------------------------------------------------------------------
(* Start: which seqnos are taken as done *)

\* Mutant of IsNextSeqno: resumes after the highest stored seqno.
IsNextSeqnoAfterLast(next, existing_db) ==
  IF existing_db = {} THEN next = From
  ELSE next - 1 \in existing_db /\ \A s \in existing_db : s < next

\* got_existing_seqnos: the end of the contiguous run that starts at the lowest
\* seqno the database returned, or From when it returned none.
IsNextSeqno(next, existing_db) ==
  IF existing_db = {} THEN next = From
  ELSE \E low \in existing_db :
         /\ \A s \in existing_db : low <= s
         /\ next > low /\ next \notin existing_db
         /\ \A s \in low .. next - 1 : s \in existing_db

\* The promise handed to TraceAssembler::restore_state, error branch.
FallbackState(next) ==
  Before(IF next > From THEN (IF From >= next - LookBack THEN From ELSE next - LookBack)
         ELSE next)

\* got_trace_assembler_last_state_seqno: everything up to the restored state.
MarkedExisting(last_state) == {s \in Seqno : From <= s /\ s <= last_state}

\* The loop of got_trace_assembler_last_state_seqno compares a signed counter,
\* converted, with an unsigned bound: it cannot end when the bound is the
\* largest unsigned value.
LoopEnds(last_state) == last_state # SeqnoLimit - 1

----------------------------------------------------------------------------
(* Handlers *)

schedInit == /\ queued_seqnos = << >>
             /\ processing_seqnos = {}
             /\ existing_seqnos = {}
             /\ last_known_seqno = 0

\* The one sequence that lists the set W of seqnos upwards.
Upward(W) == {q \in [1 .. Cardinality(W) -> W] :
                /\ Elements(q) = W
                /\ \A i, j \in 1 .. Cardinality(W) : i < j => q[i] < q[j]}

NeedsWork(seqno) == /\ ForceIndex \/ seqno \notin existing_seqnos
                    /\ InRange(seqno)

\* Mutants of got_last_known_seqno: the loop runs one too far, ...
got_last_known_seqno_past(seqno) ==
  /\ \E new \in Upward({s \in last_known_seqno + 1 .. seqno + 1 : NeedsWork(s)}) :
       queued_seqnos' = queued_seqnos \o new
  /\ last_known_seqno' = seqno

\* ... or starts at the seqno it ended with.
got_last_known_seqno_again(seqno) ==
  /\ \E new \in Upward({s \in last_known_seqno .. seqno : NeedsWork(s)}) :
       queued_seqnos' = queued_seqnos \o new
  /\ last_known_seqno' = seqno

got_last_known_seqno(seqno) ==
  IF To > 0 /\ last_known_seqno > To
  THEN UNCHANGED <<queued_seqnos, last_known_seqno>>
  ELSE /\ \E new \in Upward({s \in last_known_seqno + 1 .. seqno : NeedsWork(s)}) :
            queued_seqnos' = queued_seqnos \o new
       /\ last_known_seqno' = seqno

\* schedule_next_seqnos pops the first n queued seqnos, starting from a
\* processing set p: the loop stops at the first n where its condition fails.
IsScheduled(n, p) ==
  LET busy(k) == Cardinality(p \cup {queued_seqnos[i] : i \in 1 .. k})
  IN  /\ \A k \in 0 .. n - 1 : busy(k) < MaxActiveTasks
      /\ n = Len(queued_seqnos) \/ busy(n) >= MaxActiveTasks

schedule_next_seqnos(n, p) ==
  /\ IsScheduled(n, p)
  /\ processing_seqnos' = p \cup {queued_seqnos[i] : i \in 1 .. n}
  /\ queued_seqnos' = SubSeq(queued_seqnos, n + 1, Len(queued_seqnos))

\* Mutants of reschedule_seqno: one of its two statements is missing.
reschedule_seqno_forgets(seqno) ==
  processing_seqnos' = processing_seqnos \ {seqno} /\ UNCHANGED queued_seqnos

reschedule_seqno_keeps(seqno) ==
  queued_seqnos' = Append(queued_seqnos, seqno) /\ UNCHANGED processing_seqnos

reschedule_seqno(seqno) ==
  /\ processing_seqnos' = processing_seqnos \ {seqno}
  /\ queued_seqnos' = Append(queued_seqnos, seqno)

seqno_inserted(seqnos) == existing_seqnos' = existing_seqnos \cup seqnos
=============================================================================
