------------------------------ MODULE TraceTree ------------------------------
(***************************************************************************)
(* The emulation of traces (ton-trace-emulator: TraceEmulator.cpp, and the *)
(* TraceTailEmulator of BlockEmulator.cpp).  A trace is a tree of          *)
(* messages.  Every account of a trace has an actor, TraceEmulatorImpl,    *)
(* that emulates the messages sent to it one at a time, sends the messages *)
(* this creates to their destinations' actors and keeps the node until all *)
(* children have answered.  A message that a transaction of the block has  *)
(* consumed already is not emulated but taken from the block, by the actor *)
(* that owns the trace.                                                    *)
(*                                                                         *)
(* A node waiting for its children is known to them by its address in      *)
(* memory.  When a child fails the node is freed, and a node created later *)
(* may get its address while other children still have to answer.          *)
(***************************************************************************)
EXTENDS Integers, Sequences, FiniteSets, SequencesExt

CONSTANTS
  Trace,         \* the traces that are emulated
  Account,       \* the accounts messages go to
  Out,           \* [messages -> sequences of messages]: what emulation creates
  RealOut,       \* the same for the transaction of the block
  Dest,          \* [messages -> Account]
  Real,          \* [Trace -> sets of messages]: consumed by a transaction of the block
  MaxDepth,      \* 20: how deep messages are followed
  MaxFailures    \* bound: emulations that fail

Message == DOMAIN Out

ASSUME TreeAssumption ==
  /\ Out \in [Message -> Seq(Message)]
  /\ RealOut \in [Message -> Seq(Message)]
  /\ Dest \in [Message -> Account]
  /\ Real \in [Trace -> SUBSET Message]
  /\ MaxDepth \in Nat /\ MaxFailures \in Nat

VARIABLES
  root,         \* the message a trace starts from
  mail,         \* what an actor has been sent and has not handled, in order
  accounts,     \* emulated_accounts_: the states of an account, oldest first
  promises,     \* result_promises_: the nodes that wait for children
  result,       \* what the owner of a trace has answered: a state and a set of trees
  failures      \* what is spent of MaxFailures

treeVars == <<root, mail, accounts, promises, result, failures>>

\* TraceEmulator or TraceTailEmulator owns a trace; the rest is per account.
Actor == Trace \X (Account \cup {"owner"})
Owner(tr) == <<tr, "owner">>
Created(tr, m) == IF m \in Real[tr] THEN RealOut[m] ELSE Out[m]
ActorOf(tr, m) == IF m \in Real[tr] THEN Owner(tr) ELSE <<tr, Dest[m]>>

RootReply(tr) == [to |-> Owner(tr), addr |-> "root", ind |-> 1]

treeInit == /\ root = [tr \in Trace |-> CHOOSE m \in Message : TRUE]
            /\ mail = [a \in Actor |-> << >>]
            /\ accounts = [k \in Trace \X Account |-> << >>]
            /\ promises = [a \in Actor |-> << >>]
            /\ result = [tr \in Trace |-> [state |-> "none", trees |-> {}]]
            /\ failures = 0

----------------------------------------------------------------------------
(* Letters *)

Has(actor, type) == mail[actor] # << >> /\ Head(mail[actor]).type = type

\* Actor takes the first letter and the letters of post are sent in order.
Posted(actor, post) ==
  mail' = [a \in Actor |->
             (IF a = actor THEN Tail(mail[a]) ELSE mail[a])
             \o LET mine == SelectSeq(post, LAMBDA p : p[1] = a)
                IN  [i \in 1 .. Len(mine) |-> mine[i][2]]]

Emulated(reply, node) == <<reply.to, [type |-> "emulated", reply |-> reply, node |-> node]>>

\* The promise of a node of the block passes an error on to its parent's at
\* once; the first that is not a MultiPromise is the owner's.
Failed(reply) ==
  <<reply.to, [type |-> "error",
               reply |-> IF reply.to[2] = "owner" THEN RootReply(reply.to[1]) ELSE reply]>>

\* The letters to the first k children of the node at address addr.
ToChildren(actor, letter, addr, k) ==
  [i \in 1 .. k |->
     LET child == Created(actor[1], letter.msg)[i]
     IN  <<ActorOf(actor[1], child),
           [type |-> "emulate", msg |-> child,
            depth |-> IF letter.msg \in Real[actor[1]] THEN MaxDepth ELSE letter.depth - 1,
            reply |-> [to |-> actor, addr |-> addr, ind |-> i]]>>]

\* Addresses of freed nodes that somebody will still answer to.
RepliesIn(letters) == {letters[i].reply : i \in 1 .. Len(letters)}
Dangling(actor) ==
  {r.addr : r \in {r \in UNION {RepliesIn(mail[a]) : a \in Actor}
                         \cup UNION {{promises[a][p].reply : p \in DOMAIN promises[a]} :
                                     a \in Actor} : r.to = actor}} \ DOMAIN promises[actor]

\* A new node of actor gets its own address, or one that has been freed; the
\* nodes of the block are held by weak pointers.
AddressOf(actor, m) == IF actor[2] = "owner" THEN {m} ELSE {m} \cup Dangling(actor)

----------------------------------------------------------------------------
(* The owner *)

\* TraceEmulator::start_up, TraceTailEmulator::start_up for every trace of first,
\* a function from traces to the messages they start from.
start_traces(first) ==
  /\ \A tr \in DOMAIN first : result[tr].state = "none"
  /\ result' = [tr \in Trace |-> IF tr \in DOMAIN first THEN [state |-> "running", trees |-> {}]
                                ELSE result[tr]]
  /\ root' = [tr \in Trace |-> IF tr \in DOMAIN first THEN first[tr] ELSE root[tr]]
  /\ accounts' = [k \in DOMAIN accounts |-> IF k[1] \in DOMAIN first THEN << >> ELSE accounts[k]]
  /\ mail' = [a \in Actor |->
                IF a[1] \in DOMAIN first /\ a = ActorOf(a[1], first[a[1]])
                THEN Append(mail[a], [type |-> "emulate", msg |-> first[a[1]],
                                      depth |-> MaxDepth, reply |-> RootReply(a[1])])
                ELSE mail[a]]
  /\ UNCHANGED <<promises, failures>>

start_trace(tr, m) == start_traces([x \in {tr} |-> m])

\* TraceEmulator::finish, trace_root_received, trace_error: the owner answers
\* and stops, and all actors of the trace go with it.
finish(tr) ==
  /\ mail[Owner(tr)] # << >>
  /\ LET letter == Head(mail[Owner(tr)])
     IN  /\ letter.type # "emulate"
         /\ letter.reply = RootReply(tr)
         /\ result' = [result EXCEPT ![tr] =
                        IF letter.type = "error" THEN [state |-> "error", trees |-> {}]
                        ELSE [state |-> "done", trees |-> {letter.node}]]
  /\ mail' = [a \in Actor |-> IF a[1] = tr THEN << >> ELSE mail[a]]
  /\ promises' = [a \in Actor |-> IF a[1] = tr THEN << >> ELSE promises[a]]
  /\ UNCHANGED <<root, accounts, failures>>

----------------------------------------------------------------------------
(* TraceEmulatorImpl, and TraceTailEmulator for the nodes of the block *)

\* Mutant of LastState: the oldest state of the account is used.
LastStateOldest(states) == Head(states)

\* emulate: the state the last message left, std::prev(range.second).
LastState(states) == Last(states)

\* The states of an account once its state was read from the shard.
Loaded(key) == IF accounts[key] = << >> THEN << << >> >> ELSE accounts[key]

\* emulate_transaction leaves a state: the messages it has seen so far.
Emulate(actor, m) ==
  accounts' = IF m \in Real[actor[1]] THEN accounts
              ELSE [accounts EXCEPT ![actor] =
                      Append(Loaded(actor), Append(LastState(Loaded(actor)), m))]

\* Children are followed down to depth 0.
NumChildren(actor, letter) ==
  IF letter.msg \in Real[actor[1]] \/ letter.depth > 0
  THEN Len(Created(actor[1], letter.msg)) ELSE 0

\* emulate and emulate_transaction, or emulate_tx.  The lock of
\* emulated_accounts_ is released between the read of the account's last state
\* and the write of the next one, but an address has one actor in a trace, which
\* alone reads and writes the entries of that address and handles one message at
\* a time: nobody can tell the two halves from one step.
emulate(actor) ==
  /\ Has(actor, "emulate")
  /\ LET letter == Head(mail[actor])
         n == NumChildren(actor, letter)
     IN  /\ Emulate(actor, letter.msg)
         /\ IF n = 0
            THEN /\ Posted(actor, <<Emulated(letter.reply, <<letter.msg, << >> >>)>>)
                 /\ UNCHANGED promises
            ELSE \E addr \in AddressOf(actor, letter.msg) :
                   /\ Posted(actor, ToChildren(actor, letter, addr, n))
                   /\ promises' = [promises EXCEPT ![actor] =
                        [p \in DOMAIN @ \cup {addr} |->
                           IF p = addr
                           THEN [msg |-> letter.msg, reply |-> letter.reply,
                                 children |-> [i \in 1 .. n |-> {}]]
                           ELSE @[p]]]
  /\ UNCHANGED <<root, result, failures>>

\* The account's state cannot be read, the emulation fails or does not accept
\* the message, or one of the messages it creates cannot be read: those before
\* it have been sent.
emulate_fails(actor) ==
  /\ Has(actor, "emulate")
  /\ failures < MaxFailures /\ failures' = failures + 1
  /\ LET letter == Head(mail[actor])
     IN  /\ letter.msg \notin Real[actor[1]]
         /\ \/ /\ Posted(actor, <<Failed(letter.reply)>>)
               /\ accounts' \in {accounts, [accounts EXCEPT ![actor] = Loaded(actor)]}
            \/ \E k \in 0 .. NumChildren(actor, letter) - 1 :
                 /\ Posted(actor, Append(ToChildren(actor, letter, letter.msg, k),
                                         Failed(letter.reply)))
                 /\ Emulate(actor, letter.msg)
  /\ UNCHANGED <<root, promises, result>>

Without(actor, addr) ==
  [promises EXCEPT ![actor] = [p \in DOMAIN @ \ {addr} |-> @[p]]]

\* Mutant of Complete: one child is enough.
CompleteAny(children) == \E i \in 1 .. Len(children) : children[i] # {}

Complete(children) == \A i \in 1 .. Len(children) : children[i] # {}

\* child_emulated, child_node_emulated.  A node that is gone had a child that
\* failed.  A write behind the end of children (undefined in C++) has no effect
\* that shows, or it ends the process.
child_emulated(actor) ==
  /\ Has(actor, "emulated")
  /\ LET letter == Head(mail[actor])
         addr == letter.reply.addr
     IN  /\ addr # "root"
         /\ IF addr \notin DOMAIN promises[actor]
            THEN Posted(actor, << >>) /\ UNCHANGED promises
            ELSE LET entry == promises[actor][addr]
                     children == [i \in 1 .. Len(entry.children) |->
                                    IF i = letter.reply.ind THEN {letter.node}
                                    ELSE entry.children[i]]
                 IN  IF Complete(children)
                     THEN /\ Posted(actor, <<Emulated(entry.reply, <<entry.msg, children>>)>>)
                          /\ promises' = Without(actor, addr)
                     ELSE /\ Posted(actor, << >>)
                          /\ promises' = [promises EXCEPT ![actor][addr].children = children]
  /\ UNCHANGED <<root, accounts, result, failures>>

\* Mutant of child_error: the node is dropped without an answer.
child_error_silent(actor) ==
  /\ Has(actor, "error")
  /\ Head(mail[actor]).reply.addr # "root"
  /\ Posted(actor, << >>)
  /\ promises' = Without(actor, Head(mail[actor]).reply.addr)
  /\ UNCHANGED <<root, accounts, result, failures>>

child_error(actor) ==
  /\ Has(actor, "error")
  /\ LET addr == Head(mail[actor]).reply.addr
     IN  /\ addr # "root"
         /\ IF addr \notin DOMAIN promises[actor]
            THEN Posted(actor, << >>) /\ UNCHANGED promises
            ELSE /\ Posted(actor, <<Failed(promises[actor][addr].reply)>>)
                 /\ promises' = Without(actor, addr)
  /\ UNCHANGED <<root, accounts, result, failures>>

Step(actor) == emulate(actor) \/ child_emulated(actor) \/ child_error(actor)

treeNext == \/ \E tr \in Trace : finish(tr)
            \/ \E a \in Actor : Step(a) \/ emulate_fails(a)

----------------------------------------------------------------------------
(* What a finished trace is *)

Delivered(tr) == result[tr].state = "done"

\* The tree of a message that may be followed depth levels further.
Tree[tr \in Trace, m \in Message, depth \in 0 .. MaxDepth] ==
  <<m, IF m \in Real[tr] \/ depth > 0
       THEN [i \in 1 .. Len(Created(tr, m)) |->
               {Tree[tr, Created(tr, m)[i], IF m \in Real[tr] THEN MaxDepth ELSE depth - 1]}]
       ELSE << >> >>

\* A trace that is answered without an error is the whole tree, each child in
\* its place, although children answer in any order, another part of the trace
\* may have failed, and the address of a freed node may have been taken by
\* another one that then gets the late answers.
DeliveredIsWhole ==
  \A tr \in Trace : Delivered(tr) => result[tr].trees = {Tree[tr, root[tr], MaxDepth]}

\* The messages of the tree of a message.
Reached[tr \in Trace, m \in Message, depth \in 0 .. MaxDepth] ==
  {m} \cup IF m \in Real[tr] \/ depth > 0
           THEN UNION {Reached[tr, Created(tr, m)[i],
                               IF m \in Real[tr] THEN MaxDepth ELSE depth - 1] :
                       i \in 1 .. Len(Created(tr, m))}
           ELSE {}

\* The states an account went through form one line, and the last one has seen
\* every message of a delivered trace that was emulated on the account.
NoLostUpdate ==
  \A k \in DOMAIN accounts :
    /\ \A i \in 1 .. Len(accounts[k]) - 1 : Front(accounts[k][i + 1]) = accounts[k][i]
    /\ Delivered(k[1]) =>
         \A m \in Reached[k[1], root[k[1]], MaxDepth] \ Real[k[1]] :
           Dest[m] = k[2] => \E i \in 1 .. Len(Last(accounts[k])) : Last(accounts[k])[i] = m
=============================================================================
