---------------------------- MODULE ChainFollower ----------------------------
(***************************************************************************)
(* How TraceEmulatorScheduler and TraceTaskScheduler follow the chain      *)
(* (TraceScheduler.cpp, TraceTaskScheduler.cpp): the last masterchain      *)
(* seqno is asked for at every alarm, all blocks since the previous answer *)
(* are fetched in parallel, and a block that cannot be fetched yet is      *)
(* asked for again.                                                        *)
(***************************************************************************)
EXTENDS Integers

CONSTANT MaxMcSeqno     \* bound: how far the chain grows

VARIABLES
  mc_seqno,             \* the last masterchain block of the node's database
  last_known_seqno,     \* last_known_seqno_
  last_fetched_seqno,   \* last_fetched_seqno_
  seqnos_to_fetch,      \* seqnos_to_fetch_
  fetching              \* blocks DbScanner was asked for

followVars == <<last_known_seqno, last_fetched_seqno, seqnos_to_fetch, fetching>>

followStart == /\ last_known_seqno = 0 /\ last_fetched_seqno = 0
               /\ seqnos_to_fetch = {} /\ fetching = {}

followRestart == /\ last_known_seqno' = 0 /\ last_fetched_seqno' = 0
                 /\ seqnos_to_fetch' = {} /\ fetching' = {}

NewSeqnos == last_known_seqno + 1 .. mc_seqno

\* The first answer only says where to start: that block is never fetched.
got_last_mc_seqno ==
  /\ last_known_seqno # mc_seqno
  /\ last_known_seqno' = mc_seqno
  /\ IF last_known_seqno = 0
     THEN last_fetched_seqno' = mc_seqno /\ UNCHANGED seqnos_to_fetch
     ELSE seqnos_to_fetch' = seqnos_to_fetch \cup NewSeqnos /\ UNCHANGED last_fetched_seqno
  /\ UNCHANGED <<fetching, mc_seqno>>

fetch_seqnos ==
  /\ seqnos_to_fetch # {}
  /\ fetching' = fetching \cup seqnos_to_fetch
  /\ seqnos_to_fetch' = {}
  /\ UNCHANGED <<last_known_seqno, last_fetched_seqno, mc_seqno>>

\* Mutant of fetch_error: the block is given up.
fetch_error_dropped(s) ==
  /\ s \in fetching
  /\ fetching' = fetching \ {s}
  /\ UNCHANGED <<last_known_seqno, last_fetched_seqno, mc_seqno, seqnos_to_fetch>>

fetch_error(s) ==
  /\ s \in fetching
  /\ fetching' = fetching \ {s}
  /\ seqnos_to_fetch' = seqnos_to_fetch \cup {s}
  /\ UNCHANGED <<last_known_seqno, last_fetched_seqno, mc_seqno>>

\* Mutant of IsNewest: the block that arrives last counts as the newest.
IsNewestAlways(s) == TRUE

IsNewest(s) == s > last_fetched_seqno

\* seqno_fetched: the newest state is remembered.
fetched(s) ==
  /\ s \in fetching
  /\ fetching' = fetching \ {s}
  /\ last_fetched_seqno' = IF IsNewest(s) THEN s ELSE last_fetched_seqno
  /\ UNCHANGED <<last_known_seqno, seqnos_to_fetch, mc_seqno>>

grow == /\ mc_seqno < MaxMcSeqno
        /\ mc_seqno' = mc_seqno + 1
        /\ UNCHANGED followVars
=============================================================================
