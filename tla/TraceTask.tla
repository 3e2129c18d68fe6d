------------------------------ MODULE TraceTask ------------------------------
(***************************************************************************)
(* The program ton-trace-task-emulator: TraceTaskScheduler follows the     *)
(* chain and hands the newest state to RedisListener, which pops tasks     *)
(* from a Redis list, has their traces emulated (TraceTree) and interfaces *)
(* detected; a TaskResultInserter publishes the answer.                    *)
(*                                                                         *)
(* A task is named by its trace.  The loop of RedisListener::alarm is one  *)
(* step per task: the list can be empty between any two of them.           *)
(***************************************************************************)
EXTENDS TraceTree, ChainFollower

CONSTANTS
  Root,               \* [Trace -> messages]: the message of a task
  DetectInterfaces,   \* the tasks with detect_interfaces
  MaxCrashes          \* bound: ends of the process

VARIABLES
  mc_data_state,      \* RedisListener: the block its state is of; 0 is none
  task,               \* where a task is
  detected_on,        \* the block whose state its interfaces are detected on
  res,                \* TraceEmulationResult: what is to be published
  published,          \* what was published on a task's channel
  crashes             \* what is spent of MaxCrashes

chainVars == <<followVars, mc_data_state>>
taskVars == <<task, detected_on, res, published>>
vars == <<treeVars, chainVars, taskVars, mc_seqno, crashes>>

NoResult == [status |-> "none", mc_block_id |-> 0]

Init == /\ treeInit
        /\ mc_seqno = 1
        /\ followStart
        /\ mc_data_state = 0
        /\ task = [t \in Trace |-> "unsent"]
        /\ detected_on = [t \in Trace |-> 0]
        /\ res = [t \in Trace |-> NoResult]
        /\ published = [t \in Trace |-> << >>]
        /\ crashes = 0

----------------------------------------------------------------------------
(* TraceTaskScheduler *)

ChainGrows ==
  /\ grow
  /\ UNCHANGED <<treeVars, mc_data_state, taskVars, crashes>>

\* The two halves of TraceTaskScheduler::alarm.
LastMcSeqno ==
  /\ got_last_mc_seqno
  /\ UNCHANGED <<treeVars, mc_data_state, taskVars, crashes>>

FetchSeqnos ==
  /\ fetch_seqnos
  /\ UNCHANGED <<treeVars, mc_data_state, taskVars, crashes>>

FetchError(s) ==
  /\ fetch_error(s)
  /\ failures < MaxFailures /\ failures' = failures + 1
  /\ UNCHANGED <<root, mail, accounts, promises, result, mc_data_state, taskVars, crashes>>

\* seqno_fetched and RedisListener::set_mc_data_state.
seqno_fetched(s) ==
  /\ fetched(s)
  /\ mc_data_state' = IF IsNewest(s) THEN s ELSE mc_data_state
  /\ UNCHANGED <<treeVars, taskVars, crashes>>

----------------------------------------------------------------------------
(* RedisListener *)

\* A client puts a task on the list.
Push(t) ==
  /\ task[t] = "unsent"
  /\ task' = [task EXCEPT ![t] = "queued"]
  /\ UNCHANGED <<treeVars, chainVars, detected_on, res, published, mc_seqno, crashes>>

\* trace_processor_ is called with a result.
Inserting(t, status, mc_block_id) ==
  /\ task' = [task EXCEPT ![t] = "inserting"]
  /\ res' = [res EXCEPT ![t] = [status |-> status, mc_block_id |-> mc_block_id]]

\* A task is popped; without a state it is answered with an error.
alarm(t) ==
  /\ task[t] = "queued"
  /\ IF mc_data_state = 0
     THEN /\ Inserting(t, "error", mc_data_state)
          /\ UNCHANGED treeVars
     ELSE /\ start_trace(t, Root[t])
          /\ task' = [task EXCEPT ![t] = "emulating"]
          /\ res' = [res EXCEPT ![t].mc_block_id = mc_data_state]
  /\ UNCHANGED <<chainVars, detected_on, published, mc_seqno, crashes>>

\* The task cannot be unpacked, and nobody is told; or its message cannot be
\* decoded, which is answered.
alarm_undecodable(t) ==
  /\ task[t] = "queued"
  /\ failures < MaxFailures /\ failures' = failures + 1
  /\ \/ task' = [task EXCEPT ![t] = "lost"] /\ UNCHANGED res
     \/ Inserting(t, "error", mc_data_state)
  /\ UNCHANGED <<root, mail, accounts, promises, result, chainVars, detected_on, published,
                 mc_seqno, crashes>>

trace_error(t) ==
  /\ task[t] = "emulating"
  /\ result[t].state = "error"
  /\ Inserting(t, "error", res[t].mc_block_id)
  /\ UNCHANGED <<treeVars, chainVars, detected_on, published, mc_seqno, crashes>>

\* trace_received, and finish_processing when no interfaces are asked for.  The
\* detector gets the shard states and the config the listener has now, not the
\* ones the trace was emulated on, which the result names.
trace_received(t) ==
  /\ task[t] = "emulating"
  /\ Delivered(t)
  /\ IF t \in DetectInterfaces
     THEN /\ task' = [task EXCEPT ![t] = "detecting"]
          /\ detected_on' = [detected_on EXCEPT ![t] = mc_data_state]
          /\ UNCHANGED res
     ELSE Inserting(t, "success", res[t].mc_block_id) /\ UNCHANGED detected_on
  /\ UNCHANGED <<treeVars, chainVars, published, mc_seqno, crashes>>

\* TraceInterfaceDetector is done: finish_processing.
interfaces_detected(t) ==
  /\ task[t] = "detecting"
  /\ Inserting(t, "success", res[t].mc_block_id)
  /\ UNCHANGED <<treeVars, chainVars, detected_on, published, mc_seqno, crashes>>

trace_interfaces_error(t) ==
  /\ task[t] = "detecting"
  /\ failures < MaxFailures /\ failures' = failures + 1
  /\ Inserting(t, "error", res[t].mc_block_id)
  /\ UNCHANGED <<root, mail, accounts, promises, result, chainVars, detected_on, published,
                 mc_seqno, crashes>>

----------------------------------------------------------------------------
(* TaskResultInserter *)

\* One MULTI ... EXEC writes the result and publishes it.
insert_result(t) ==
  /\ task[t] = "inserting"
  /\ task' = [task EXCEPT ![t] = "answered"]
  /\ published' = [published EXCEPT ![t] = Append(@, res[t])]
  /\ UNCHANGED <<treeVars, chainVars, detected_on, res, mc_seqno, crashes>>

\* A transaction or an account cannot be parsed, or Redis fails, perhaps after
\* it ran the transaction: logged, not tried again.
insert_result_fails(t) ==
  /\ task[t] = "inserting"
  /\ failures < MaxFailures /\ failures' = failures + 1
  /\ task' = [task EXCEPT ![t] = "lost"]
  /\ published' \in {published, [published EXCEPT ![t] = Append(@, res[t])]}
  /\ UNCHANGED <<root, mail, accounts, promises, result, chainVars, detected_on, res,
                 mc_seqno, crashes>>

----------------------------------------------------------------------------
\* The process ends, as it does by _Exit(2) when the last seqno cannot be read,
\* and is started again: what was popped is gone.
Exit ==
  /\ crashes < MaxCrashes /\ crashes' = crashes + 1
  /\ mail' = [a \in Actor |-> << >>] /\ promises' = [a \in Actor |-> << >>]
  /\ accounts' = [k \in DOMAIN accounts |-> << >>]
  /\ result' = [t \in Trace |-> [state |-> IF result[t].state = "none" THEN "none" ELSE "error",
                              trees |-> {}]]
  /\ followRestart /\ mc_data_state' = 0
  /\ task' = [t \in Trace |-> IF task[t] \in {"unsent", "queued", "answered"} THEN task[t]
                              ELSE "lost"]
  /\ UNCHANGED <<root, failures, detected_on, res, published, mc_seqno>>

Chain == \/ LastMcSeqno \/ FetchSeqnos
         \/ \E s \in fetching : seqno_fetched(s)

Listen(t) == \/ alarm(t) \/ trace_error(t) \/ trace_received(t) \/ interfaces_detected(t)
             \/ insert_result(t)

Emulation == treeNext /\ UNCHANGED <<chainVars, taskVars, mc_seqno, crashes>>

Done == /\ \A t \in Trace : task[t] \in {"answered", "lost"}
        /\ UNCHANGED vars

Next == \/ Chain \/ ChainGrows \/ Exit
        \/ \E s \in fetching : FetchError(s)
        \/ \E t \in Trace : \/ Push(t) \/ Listen(t) \/ alarm_undecodable(t)
                            \/ trace_interfaces_error(t) \/ insert_result_fails(t)
        \/ Emulation
        \/ Done

Spec == Init /\ [][Next]_vars

\* Actors handle what they are sent, and the alarms go off.
EmulationGoesOn == /\ \E tr \in Trace : finish(tr)
                                         \/ \E a \in Actor : a[1] = tr /\ Step(a)
                   /\ UNCHANGED <<chainVars, taskVars, mc_seqno, crashes>>
FairSpec == /\ Spec
            /\ WF_vars(EmulationGoesOn)
            /\ WF_vars(\E t \in Trace : Listen(t))

----------------------------------------------------------------------------
(* Properties *)

\* Every variable has its type.
TypeOK ==
  /\ last_known_seqno \in 0 .. mc_seqno /\ last_fetched_seqno \in 0 .. mc_seqno
  /\ seqnos_to_fetch \cup fetching \subseteq 1 .. mc_seqno
  /\ mc_data_state \in 0 .. mc_seqno
  /\ task \in [Trace -> {"unsent", "queued", "emulating", "detecting", "inserting", "answered",
                         "lost"}]

\* The interfaces of an answer come from a state that is not older than the
\* block the answer names: they may be detected on a newer one, which came while
\* the trace was emulated, but an old block that is fetched late never takes the
\* listener back.
DetectionNotOlder ==
  \A t \in DetectInterfaces : \A i \in 1 .. Len(published[t]) :
    published[t][i].status = "success" => published[t][i].mc_block_id <= detected_on[t]

\* The listener never goes back to an older state, in whatever order the blocks
\* arrive, as long as the process runs.
StateNeverOlder == [][mc_data_state' >= mc_data_state \/ crashes' # crashes]_vars

\* Every task on the list is eventually answered, the ones that come before the
\* first state included, or has been lost by something that failed: no failure
\* of one message leaves the emulation of its trace waiting.
TaskEnds ==
  \A t \in Trace : task[t] = "queued" ~>
    task[t] = "answered" \/ (task[t] = "lost" /\ failures + crashes > 0)
=============================================================================
