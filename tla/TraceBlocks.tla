----------------------------- MODULE TraceBlocks -----------------------------
(***************************************************************************)
(* ton-trace-emulator: TraceEmulatorScheduler follows the chain and starts *)
(* an McBlockEmulator for every block, several at a time; each assigns its *)
(* transactions to traces through a map all of them share, emulates what   *)
(* is still to come of every trace and inserts it into Redis.              *)
(* OverlayListener and RedisListener emulate whole traces of external      *)
(* messages that are in no block yet and insert them into the same Redis.  *)
(***************************************************************************)
EXTENDS TraceTree, ChainFollower

CONSTANTS
  ShardTxs,      \* [seqnos -> sequences of sets]: the in-messages of the ordinary
                 \* transactions of every block of shard_blocks_diff_
  Lt,            \* [Message -> Nat]: the lt of the transaction of a message
  IsFirst,       \* the external messages: is_first
  Broadcast,     \* the external messages the overlay hears of
  Listed,        \* the external messages on the list of RedisListener
  Configured,    \* the sets of listeners that may be configured
  MaxBroadcasts  \* bound: how often the overlay hears of one message

Seqno == DOMAIN ShardTxs
Overlay(m) == <<0, m>>      \* the trace OverlayListener emulates for m
FromList(m) == <<-1, m>>    \* the trace RedisListener emulates for m
None == "none"

VARIABLES
  mc_data_state,        \* the state the listeners have; 0 is none
  last_emulated_seqno,  \* last_emulated_seqno_
  blocks_to_emulate,    \* blocks_to_emulate_
  emulator,             \* McBlockEmulator by seqno: its state, the blocks it has
                        \* still to parse, the transactions it has found and
                        \* their trace ids
  started,              \* the seqnos an emulator was created for, in order
  in_progress,          \* trace_ids_in_progress_ by seqno
  interblock,           \* interblock_trace_ids_, shared by all emulators
  known_ext_msgs,       \* known_ext_msgs_
  broadcasts, list,     \* what the listeners are still to hear of
  stage,                \* what is being done with a trace
  to_read, keys,        \* TraceInserter: nodes still to look up, keys to delete
  unseen,               \* the nodes others wrote while an inserter looked up its own
  hash,                 \* Redis: the hash of a trace id, by in-message; the sorted
                        \* sets by address are written with it and name the same nodes
  inserts               \* how often a trace was written

schedVars == <<followVars, mc_seqno, mc_data_state, last_emulated_seqno, blocks_to_emulate>>
blockVars == <<emulator, started, in_progress, interblock>>
listenVars == <<known_ext_msgs, broadcasts, list>>
redisVars == <<to_read, keys, unseen, hash, inserts>>
vars == <<treeVars, schedVars, blockVars, listenVars, stage, redisVars>>

Init ==
  /\ treeInit /\ followStart /\ mc_seqno = 1
  /\ mc_data_state = 0 /\ last_emulated_seqno = 0 /\ blocks_to_emulate = {}
  /\ emulator = [s \in Seqno |-> [state |-> "none", left |-> {}, txs |-> << >>, ids |-> << >>]]
  /\ started = << >>
  /\ in_progress = [s \in Seqno |-> {}]
  /\ interblock = [m \in Message |-> None]
  /\ known_ext_msgs = {}
  /\ \E on \in Configured :
       /\ broadcasts = [m \in Broadcast |-> IF "overlay" \in on THEN MaxBroadcasts ELSE 0]
       /\ list = IF "list" \in on THEN Listed ELSE {}
  /\ stage = [tr \in Trace |-> "idle"]
  /\ to_read = [tr \in Trace |-> << >>] /\ keys = [tr \in Trace |-> {}]
  /\ unseen = [tr \in Trace |-> {}]
  /\ hash = [id \in IsFirst |-> [m \in Message |-> None]]
  /\ inserts = [tr \in Trace |-> 0]

Fails == failures < MaxFailures /\ failures' = failures + 1
treeRest == <<root, mail, accounts, promises, result>>

----------------------------------------------------------------------------
(* TraceEmulatorScheduler *)

ChainGrows == grow /\ UNCHANGED <<treeVars, mc_data_state, last_emulated_seqno,
                                  blocks_to_emulate, blockVars, listenVars, stage, redisVars>>

LastMcSeqno == got_last_mc_seqno /\ UNCHANGED <<treeVars, mc_data_state, last_emulated_seqno,
                                  blocks_to_emulate, blockVars, listenVars, stage, redisVars>>

FetchSeqnos == fetch_seqnos /\ UNCHANGED <<treeVars, mc_data_state, last_emulated_seqno,
                                  blocks_to_emulate, blockVars, listenVars, stage, redisVars>>

FetchError(s) == fetch_error(s) /\ Fails
                 /\ UNCHANGED <<treeRest, mc_data_state, last_emulated_seqno,
                                blocks_to_emulate, blockVars, listenVars, stage, redisVars>>

\* Mutant of EmulateUpTo: up to the newest block, over holes.
EmulateUpToNewest(last, blocks) ==
  CHOOSE s \in {last} \cup blocks : \A b \in {last} \cup blocks : b <= s

\* emulate_blocks: every block that follows the last one without a hole.
EmulateUpTo(last, blocks) ==
  CHOOSE s \in {last} \cup blocks :
    last + 1 .. s \subseteq blocks /\ s >= last /\ s + 1 \notin blocks

\* The first block that arrives only says where to start.
FirstEmulated(s) ==
  IF last_emulated_seqno # 0 THEN last_emulated_seqno
  ELSE IF IsNewest(s) THEN s ELSE last_fetched_seqno

\* seqno_fetched, and McBlockEmulator::start_up of the blocks it starts.
seqno_fetched(s) ==
  /\ fetched(s)
  /\ mc_data_state' = IF IsNewest(s) THEN s ELSE mc_data_state
  /\ \E last \in {FirstEmulated(s)} :
     \E upto \in {EmulateUpTo(last, blocks_to_emulate \cup {s})} :
       /\ last_emulated_seqno' = upto
       /\ blocks_to_emulate' = (blocks_to_emulate \cup {s}) \ (last + 1 .. upto)
       /\ started' = started \o [i \in 1 .. upto - last |-> last + i]
       /\ emulator' = [b \in Seqno |->
                         IF b \in last + 1 .. upto
                         THEN [state |-> "parsing", left |-> DOMAIN ShardTxs[b], txs |-> << >>,
                               ids |-> << >>]
                         ELSE emulator[b]]
  /\ UNCHANGED <<treeVars, in_progress, interblock, listenVars, stage, redisVars>>

----------------------------------------------------------------------------
(* McBlockEmulator *)

\* BlockParser: the transactions of one block, in some order.
Parsed(s, b) == SetToSortSeq(ShardTxs[s][b], LAMBDA x, y : Lt[x] < Lt[y])

parse_error(s) ==
  /\ emulator[s].state = "parsing" /\ Fails
  /\ emulator' = [emulator EXCEPT ![s].state = "failed", ![s].left = {}]
  /\ UNCHANGED <<treeRest, schedVars, started, in_progress, interblock, listenVars, stage,
                 redisVars>>

Sorted(txs) == SortSeq(txs, LAMBDA x, y : Lt[x] < Lt[y])

\* initial_msg_hash: the branch for a parent in the same block is never taken
\* because the copies it looks at were made before any hash was set, and the
\* shared map already has what earlier transactions of the block created.
TraceIdOf(ids, m) == IF m \in IsFirst THEN m ELSE ids[m]

\* Mutant of Tails: the last transaction of a trace starts it.
TailsLast(txs, ids) ==
  {i \in DOMAIN txs : ids[i] # None /\ \A j \in i + 1 .. Len(txs) : ids[j] # ids[i]}

\* emulate_traces: the first transaction of every trace id starts a tail.
Tails(txs, ids) ==
  {i \in DOMAIN txs : ids[i] # None /\ \A j \in 1 .. i - 1 : ids[j] # ids[i]}

\* block_parsed; with the last block process_txs begins.
block_parsed(s, b) ==
  /\ b \in emulator[s].left
  /\ LET txs == emulator[s].txs \o Parsed(s, b)
     IN  emulator' = [emulator EXCEPT ![s] =
           IF @.left = {b}
           THEN [state |-> "assigning", left |-> {}, txs |-> Sorted(txs), ids |-> << >>]
           ELSE [@ EXCEPT !.left = @ \ {b}, !.txs = txs]]
  /\ UNCHANGED <<treeVars, schedVars, started, in_progress, interblock, listenVars, stage,
                 redisVars>>

\* The loop of process_txs, one transaction: other emulators look up and write
\* ids in between.
process_tx(s) ==
  /\ emulator[s].state = "assigning" /\ Len(emulator[s].ids) < Len(emulator[s].txs)
  /\ LET m == emulator[s].txs[Len(emulator[s].ids) + 1]
         id == TraceIdOf(interblock, m)
     IN  /\ emulator' = [emulator EXCEPT ![s].ids = Append(@, id)]
         /\ interblock' = [x \in Message |->
                             IF id # None /\ \E i \in DOMAIN RealOut[m] : RealOut[m][i] = x
                             THEN id ELSE interblock[x]]
  /\ UNCHANGED <<treeVars, schedVars, started, in_progress, listenVars, stage, redisVars>>

emulate_traces(s) ==
  /\ emulator[s].state = "assigning" /\ Len(emulator[s].ids) = Len(emulator[s].txs)
  /\ LET txs == emulator[s].txs
         ids == emulator[s].ids
         new == {<<s, ids[i]>> : i \in Tails(txs, ids)}
     IN  /\ in_progress' = [in_progress EXCEPT ![s] = {tr[2] : tr \in new}]
         /\ stage' = [tr \in Trace |-> IF tr \in new THEN "emulating" ELSE stage[tr]]
         /\ start_traces([tr \in new |-> txs[CHOOSE i \in Tails(txs, ids) : ids[i] = tr[2]]])
  /\ emulator' = [emulator EXCEPT ![s].state = "running"]
  /\ UNCHANGED <<schedVars, started, interblock, listenVars, redisVars>>

Erased(tr) == in_progress' = IF tr[1] > 0 THEN [in_progress EXCEPT ![tr[1]] = @ \ {tr[2]}]
                             ELSE in_progress

Stage(tr, next) == stage' = [stage EXCEPT ![tr] = next]

\* Mutant of trace_error: the trace stays in progress.
trace_error_kept(tr) ==
  /\ tr[1] > 0 /\ stage[tr] = "emulating" /\ result[tr].state = "error"
  /\ Stage(tr, "ended")
  /\ UNCHANGED <<treeVars, schedVars, blockVars, listenVars, redisVars>>

\* McBlockEmulator::trace_error: the block is not finished by it.
trace_error(tr) ==
  /\ tr[1] > 0 /\ stage[tr] = "emulating" /\ result[tr].state = "error"
  /\ Stage(tr, "ended") /\ Erased(tr)
  /\ UNCHANGED <<treeVars, schedVars, emulator, started, interblock, listenVars, redisVars>>

\* trace_received of the emulator and of both listeners.
trace_received(tr) ==
  /\ stage[tr] = "emulating" /\ Delivered(tr)
  /\ Stage(tr, "detecting")
  /\ UNCHANGED <<treeVars, schedVars, blockVars, listenVars, redisVars>>

\* trace_interfaces_error: a message of the overlay stays known.
trace_interfaces_error(tr) ==
  /\ stage[tr] = "detecting" /\ Fails
  /\ Stage(tr, "ended") /\ Erased(tr)
  /\ UNCHANGED <<treeRest, schedVars, emulator, started, interblock, listenVars, redisVars>>

\* McBlockEmulator::trace_finished; the listeners only log.
trace_finished(tr) ==
  /\ Erased(tr)
  /\ emulator' = IF tr[1] > 0 /\ in_progress'[tr[1]] = {}
                 THEN [emulator EXCEPT ![tr[1]].state = "finished"] ELSE emulator
  /\ UNCHANGED <<started, interblock>>

----------------------------------------------------------------------------
(* OverlayListener and RedisListener *)

IsKnown(m) == m \in known_ext_msgs

\* process_external_message.
process_external_message(m) ==
  /\ broadcasts[m] > 0
  /\ broadcasts' = [broadcasts EXCEPT ![m] = @ - 1]
  /\ IF mc_data_state = 0 \/ IsKnown(m)
     THEN UNCHANGED <<treeVars, known_ext_msgs, stage>>
     ELSE /\ known_ext_msgs' = known_ext_msgs \cup {m}
          /\ start_trace(Overlay(m), m)
          /\ Stage(Overlay(m), "emulating")
  /\ UNCHANGED <<schedVars, blockVars, list, redisVars>>

\* OverlayListener::trace_error: the message may be tried again.
overlay_trace_error(m) ==
  /\ stage[Overlay(m)] = "emulating" /\ result[Overlay(m)].state = "error"
  /\ known_ext_msgs' = known_ext_msgs \ {m}
  /\ Stage(Overlay(m), "idle")
  /\ result' = [result EXCEPT ![Overlay(m)].state = "none"]
  /\ UNCHANGED <<root, mail, accounts, promises, failures, schedVars, blockVars, broadcasts,
                 list, redisVars>>

\* RedisListener::alarm: nothing is popped before there is a state.
list_alarm(m) ==
  /\ m \in list /\ mc_data_state # 0
  /\ list' = list \ {m}
  /\ start_trace(FromList(m), m)
  /\ Stage(FromList(m), "emulating")
  /\ UNCHANGED <<schedVars, blockVars, known_ext_msgs, broadcasts, redisVars>>

list_trace_error(m) ==
  /\ stage[FromList(m)] = "emulating" /\ result[FromList(m)].state = "error"
  /\ Stage(FromList(m), "ended")
  /\ UNCHANGED <<treeVars, schedVars, blockVars, listenVars, redisVars>>

----------------------------------------------------------------------------
(* TraceInserter *)

NodesOf(tr) == Reached[tr, root[tr], MaxDepth]

\* The nodes of the trace that are in the block, as the queue of start_up has
\* them: level by level.
RealNodes(tr) ==
  LET level[d \in 0 .. MaxDepth] ==
        IF d = 0 THEN SelectSeq(<<root[tr]>>, LAMBDA m : m \in Real[tr])
        ELSE FlattenSeq([i \in 1 .. Len(level[d - 1]) |->
               SelectSeq(RealOut[level[d - 1][i]], LAMBDA m : m \in Real[tr])])
  IN  FlattenSeq([d \in 1 .. MaxDepth + 1 |-> level[d - 1]])

\* trace_emulated, finish_processing: a TraceInserter is created.
trace_emulated(tr) ==
  /\ stage[tr] = "detecting"
  /\ Stage(tr, "inserting")
  /\ to_read' = [to_read EXCEPT ![tr] = RealNodes(tr)]
  /\ UNCHANGED <<treeVars, schedVars, blockVars, listenVars, keys, unseen, hash, inserts>>

\* Mutant of Below: only the node itself is looked up.
BelowNot(node, m) == << >>

\* The out-messages of the stored transaction of m.
Below(node, m) == IF node = "real" THEN RealOut[m] ELSE Out[m]

\* One hget of delete_db_subtree, and its calls for the out-messages: others
\* insert between any two of them.
delete_db_subtree(tr) ==
  /\ stage[tr] = "inserting" /\ to_read[tr] # << >>
  /\ LET m == Head(to_read[tr])
         node == hash[tr[2]][m]
     IN  IF node = None
         THEN to_read' = [to_read EXCEPT ![tr] = Tail(@)] /\ UNCHANGED keys
         ELSE /\ to_read' = [to_read EXCEPT ![tr] = Below(node, m) \o Tail(@)]
              /\ keys' = [keys EXCEPT ![tr] = @ \cup {m}]
  /\ UNCHANGED <<treeVars, schedVars, blockVars, listenVars, stage, unseen, hash, inserts>>

\* MULTI ... EXEC: the nodes found go and those of the trace come.
Written(tr) ==
  /\ hash' = [hash EXCEPT ![tr[2]] =
                [m \in Message |-> IF m \in NodesOf(tr)
                                   THEN IF m \in Real[tr] THEN "real" ELSE "emulated"
                                   ELSE IF m \in keys[tr] THEN None ELSE @[m]]]
  /\ unseen' = [x \in Trace |->
                  IF x # tr /\ x[2] = tr[2] /\ stage[x] = "inserting"
                  THEN unseen[x] \cup NodesOf(tr) ELSE unseen[x]]
  /\ inserts' = [inserts EXCEPT ![tr] = @ + 1]

exec(tr) ==
  /\ stage[tr] = "inserting" /\ to_read[tr] = << >>
  /\ Written(tr)
  /\ keys' = [keys EXCEPT ![tr] = {}]
  /\ Stage(tr, "ended") /\ trace_finished(tr)
  /\ result' = [result EXCEPT ![tr] = [state |-> "none", trees |-> {}]]
  /\ UNCHANGED <<root, mail, accounts, promises, failures, schedVars, listenVars, to_read>>

\* A transaction cannot be parsed, or Redis fails, perhaps after it ran the
\* transaction.
insert_fails(tr) ==
  /\ stage[tr] = "inserting" /\ Fails
  /\ \/ UNCHANGED <<hash, unseen, inserts>>
     \/ to_read[tr] = << >> /\ Written(tr)
  /\ keys' = [keys EXCEPT ![tr] = {}] /\ to_read' = [to_read EXCEPT ![tr] = << >>]
  /\ Stage(tr, "ended") /\ trace_finished(tr)
  /\ UNCHANGED <<treeRest, schedVars, listenVars>>

----------------------------------------------------------------------------
Chain == LastMcSeqno \/ FetchSeqnos \/ \E s \in fetching : seqno_fetched(s)

Emulation == treeNext /\ UNCHANGED <<schedVars, blockVars, listenVars, stage, redisVars>>

Blocks == \E s \in Seqno : \/ \E b \in emulator[s].left : block_parsed(s, b)
                           \/ process_tx(s) \/ emulate_traces(s)

Traces == \E tr \in Trace : \/ trace_error(tr) \/ trace_received(tr) \/ trace_emulated(tr)
                            \/ delete_db_subtree(tr) \/ exec(tr)

Listeners == \/ \E m \in Broadcast : process_external_message(m) \/ overlay_trace_error(m)
             \/ \E m \in Listed : list_alarm(m) \/ list_trace_error(m)

Failures == \/ \E s \in fetching : FetchError(s)
            \/ \E s \in Seqno : parse_error(s)
            \/ \E tr \in Trace : trace_interfaces_error(tr) \/ insert_fails(tr)

Next == Chain \/ ChainGrows \/ Blocks \/ Traces \/ Listeners \/ Emulation \/ Failures

Spec == Init /\ [][Next]_vars

\* Actors handle what they are sent, and the alarm of the scheduler goes off.
Progress ==
  \/ Chain \/ Blocks
  \/ /\ \/ \E tr \in Trace : finish(tr)
        \/ \E a \in Actor : Step(a)
     /\ UNCHANGED <<schedVars, blockVars, listenVars, stage, redisVars>>
  \/ Traces

\* Weak fairness of Progress, with what enables it written out.
Busy == \/ last_known_seqno # mc_seqno \/ seqnos_to_fetch \cup fetching # {}
        \/ \E s \in Seqno : emulator[s].left # {} \/ emulator[s].state = "assigning"
        \/ \E a \in Actor : mail[a] # << >>
        \/ \E tr \in Trace : \/ stage[tr] \in {"detecting", "inserting"}
                             \/ stage[tr] = "emulating" /\ Delivered(tr)
                             \/ stage[tr] = "emulating" /\ result[tr].state = "error" /\ tr[1] > 0
FairSpec == Spec /\ ([]<>~Busy \/ []<><<Progress>>_vars)

----------------------------------------------------------------------------
(* Properties *)

\* Every variable has its type.
TypeOK ==
  /\ last_emulated_seqno \in 0 .. mc_seqno /\ blocks_to_emulate \subseteq 1 .. mc_seqno
  /\ mc_data_state \in 0 .. mc_seqno
  /\ \A s \in Seqno : emulator[s].state \in {"none", "parsing", "assigning", "running",
                                               "finished", "failed"}
  /\ \A s \in Seqno : in_progress[s] \subseteq Message
  /\ interblock \in [Message -> Message \cup {None}]
  /\ stage \in [Trace -> {"idle", "emulating", "detecting", "inserting", "ended"}]

\* However the blocks arrive, they are emulated in the order of the chain, each
\* once, none left out after the first, and none before it was fetched.
EmulatedInOrder ==
  /\ \A i \in 1 .. Len(started) - 1 : started[i + 1] = started[i] + 1
  /\ \A i \in 1 .. Len(started) : started[i] \notin seqnos_to_fetch \cup fetching

\* The external message at the start of the chain of messages of m.
Origin[m \in Message] ==
  LET parents == {x \in Message : \E i \in DOMAIN RealOut[x] : RealOut[x][i] = m}
  IN  IF parents = {} THEN m ELSE Origin[CHOOSE x \in parents : TRUE]

\* Emulators of several blocks share the map of trace ids without a lock and in
\* any order: a transaction may go without a trace, but it never gets into the
\* trace of another external message, and a trace whose external message is in
\* the block starts from it.
RightTrace ==
  /\ \A m \in Message : interblock[m] \in {None, Origin[m]}
  /\ \A s \in Seqno : \A id \in in_progress[s] :
       /\ id \in IsFirst /\ Origin[root[<<s, id>>]] = id
       /\ id \in Real[<<s, id>>] => root[<<s, id>>] = id

\* A block whose emulator has answered has no trace under way.
FinishedIsDone ==
  \A s \in Seqno : emulator[s].state = "finished" =>
    \A tr \in Trace : tr[1] = s => stage[tr] \in {"idle", "ended"}

\* The overlay's repetitions of a message are emulated and written once.
InsertedOnce == \A m \in Broadcast : inserts[Overlay(m)] <= 1

\* The messages of the emulated subtree of m that are not of its real one.
Unexpected(m) ==
  LET below[x \in Message] == {x} \cup UNION {below[Out[x][i]] : i \in DOMAIN Out[x]}
      really[x \in Message] == {x} \cup UNION {really[RealOut[x][i]] : i \in DOMAIN RealOut[x]}
  IN  below[m] \ really[m]

\* Once the transaction of a message is in the hash from a block, the messages
\* that emulation expected it to create in place of the real ones are gone with
\* all below them, except those that another insert wrote while the inserter of
\* the block was looking up what to delete.
StaleOnlyByRace ==
  \A id \in IsFirst : \A m \in Message :
    hash[id][m] = "real" =>
      \E tr \in Trace :
        /\ tr[2] = id /\ m \in Real[tr] /\ inserts[tr] > 0
        /\ {x \in Unexpected(m) : hash[id][x] # None} \subseteq unseen[tr]

\* Again and again no block has a trace in progress: whatever fails, the trace
\* is dropped from its block.
TraceEnds == []<>(\A s \in Seqno : in_progress[s] = {})

\* Once a block was fetched, emulation catches up with the chain, whatever is
\* fetched late or only at a second try.
CatchesUp == []<>(last_emulated_seqno \in {0, last_known_seqno})
=============================================================================
