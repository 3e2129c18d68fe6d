--------------------------- MODULE EventProcessor ---------------------------
(***************************************************************************)
(* EventProcessor and the detectors it owns                                *)
(* (tondb-scanner/src/EventProcessor.cpp, InterfaceDetectors.hpp): which   *)
(* of the accounts a block has changed are jetton masters and wallets, NFT *)
(* collections and items, and which of its transactions are transfers.     *)
(*                                                                         *)
(* The detectors are actors shared by all blocks in work; each has a cache *)
(* of the contracts it has accepted, and one InterfaceManager remembers    *)
(* the code hashes that were rejected.  A request is at the handler that   *)
(* will take it next; requests overtake each other freely.                 *)
(*                                                                         *)
(* The state of an account is named by the block that produced it, which   *)
(* is also its last_transaction_lt; what its get methods answer in a state *)
(* is given by constants.                                                  *)
(***************************************************************************)
EXTENDS Integers, FiniteSets, FiniteSetsExt

CONSTANTS
  Block,         \* masterchain blocks; what precedes the first one indexed included
  Account,
  Kind,          \* SmcInterface: the interfaces asked for
  StatesOf,      \* the accounts with a state in a block
  TransfersOf,   \* <<account, kind>> of the well-formed transfers and burns of a block
  CodeOf,        \* the code hash of an account
  DataOf,        \* the data hash of a state
  Method,        \* what get_..._data returns: "fails", "malformed" or "ok"
  Parent,        \* the master or collection a state names; addr_none is Nobody
  Nobody,
  Recognises     \* whom a master's or collection's get method confirms, by its state

\* A wallet is confirmed by its master and an item by its collection.
ParentKind == [JETTON_WALLET |-> "JETTON_MASTER", NFT_ITEM |-> "NFT_COLLECTION"]

ASSUME EventAssumption ==
  /\ Block \subseteq Nat
  /\ Kind \subseteq {"JETTON_MASTER", "JETTON_WALLET", "NFT_COLLECTION", "NFT_ITEM"}
  /\ StatesOf \in [Block -> SUBSET Account]
  /\ TransfersOf \in [Block -> SUBSET (Account \X (Kind \cap DOMAIN ParentKind))]
  /\ Method \in [Kind -> [Account -> [Block -> {"fails", "malformed", "ok"}]]]
  /\ Parent \in [Account -> [Block -> Account \cup {Nobody}]] /\ Nobody \notin Account
  /\ Recognises \in [Account -> [Block -> SUBSET Account]]

VARIABLES
  calls,         \* the requests to the detectors that are not answered yet
  no_interface,  \* InterfaceManager::cache_; only false is stored
  storage,       \* storage_ of each detector: the state an entry was made from
  found,         \* found_interfaces of a block: <<kind, account, state>>
  events         \* the events of a block: <<kind, account, state of the contract>>

detectorVars == <<no_interface, storage>>
eventVars == <<calls, detectorVars, found, events>>

Never == -1

eventInit == /\ calls = {}
             /\ no_interface = {}
             /\ storage = [k \in Kind |-> [a \in Account |-> Never]]
             /\ found = [b \in Block |-> {}]
             /\ events = [b \in Block |-> {}]

\* EventProcessor and the detectors go with the process.
eventRestart == /\ calls' = {}
                /\ no_interface' = {}
                /\ storage' = [k \in Kind |-> [a \in Account |-> Never]]
                /\ found' = [b \in Block |-> {}]
                /\ events' = [b \in Block |-> {}]

CallsOf(b) == {c \in calls : c.block = b}

----------------------------------------------------------------------------
(* EventProcessor *)

\* process and process_states: every detector is asked about every state.
process(b) ==
  /\ calls' = calls \cup [block : {b}, account : StatesOf[b], kind : Kind, at : {"check"}]
  /\ found' = [found EXCEPT ![b] = {}]
  /\ events' = [events EXCEPT ![b] = {}]
  /\ UNCHANGED detectorVars

\* All promises of process_states are answered.
process_transactions(b) ==
  /\ CallsOf(b) = {}
  /\ calls' = {[block |-> b, account |-> t[1], kind |-> t[2], at |-> "parse"] :
                 t \in TransfersOf[b]} \cup calls
  /\ UNCHANGED <<detectorVars, found, events>>

MovesTo(c, handler) ==
  /\ calls' = (calls \ {c}) \cup {[c EXCEPT !.at = handler]}
  /\ UNCHANGED found

\* An error is an empty answer: EventProcessor ignores it.
Answers(c, result) ==
  /\ calls' = calls \ {c}
  /\ found' = [found EXCEPT ![c.block] = @ \cup result]

Cached(c) == storage[c.kind][c.account]

\* The master or collection the get method names in the state asked about.
ParentOf(c) == Parent[c.account][c.block]

Accepted(c) ==
  /\ storage' = [storage EXCEPT ![c.kind][c.account] = c.block]
  /\ Answers(c, {<<c.kind, c.account, c.block>>})

----------------------------------------------------------------------------
(* The detectors *)

\* detect, and the answer of check_interface.
detect(c) ==
  /\ c.at = "check"
  /\ IF <<CodeOf[c.account], c.kind>> \in no_interface
     THEN Answers(c, {})
     ELSE MovesTo(c, "continue")
  /\ UNCHANGED <<detectorVars, events>>

\* Mutant of IsActual: any cached entry will do.
IsActualAny(c) == Cached(c) # Never

\* The entry was made from the same code and data, or from a later state.  The
\* detectors of masters and collections do not fill in code_hash.
IsActual(c) ==
  /\ Cached(c) # Never
  /\ \/ c.kind \in DOMAIN ParentKind /\ DataOf[c.account][c.block] = DataOf[c.account][Cached(c)]
     \/ c.block < Cached(c)

detect_continue(c) ==
  /\ c.at = "continue"
  /\ IF IsActual(c)
     THEN Answers(c, {<<c.kind, c.account, Cached(c)>>})
     ELSE MovesTo(c, "impl")
  /\ UNCHANGED <<detectorVars, events>>

\* The get method failed: set_interface marks the code hash, for every account
\* that has it.  A request that overtakes the message counts as an earlier one.
Rejects(c, kind, account, result) ==
  /\ no_interface' = no_interface \cup (IF result = "fails" THEN {<<CodeOf[account], kind>>} ELSE {})
  /\ Answers(c, {})
  /\ UNCHANGED storage

\* The answer of the get method.  The address of a wallet's master has to be
\* parsed, which addr_none cannot; an item may have no collection.
ResultOf(c) ==
  IF c.kind = "JETTON_WALLET" /\ ParentOf(c) = Nobody /\ Method[c.kind][c.account][c.block] = "ok"
  THEN "malformed"
  ELSE Method[c.kind][c.account][c.block]

detect_impl(c) ==
  /\ c.at = "impl"
  /\ LET result == ResultOf(c)
     IN  \/ /\ result # "ok"
            /\ Rejects(c, c.kind, c.account, result)
         \/ /\ result = "ok"
            /\ c.kind \in DOMAIN ParentKind /\ ParentOf(c) # Nobody
            /\ MovesTo(c, "verify")
            /\ UNCHANGED detectorVars
         \/ /\ result = "ok"
            /\ c.kind \notin DOMAIN ParentKind \/ ParentOf(c) = Nobody
            /\ Accepted(c)
            /\ UNCHANGED no_interface
  /\ UNCHANGED events

\* Mutant of Confirmed: the parent's answer is not compared.
ConfirmedAlways(c, state) == MovesTo(c, "add")

\* get_wallet_address_impl and the check of verify_belonging_to_master;
\* verify_belonging_to_collection.
Confirmed(c, state) ==
  IF c.account \in Recognises[ParentOf(c)][state]
  THEN MovesTo(c, "add")
  ELSE Answers(c, {})

\* get_wallet_address, get_from_cache_or_shard: a cached parent is asked
\* whatever state it was cached in.
verify_belonging(c) ==
  /\ c.at = "verify"
  /\ LET state == storage[ParentKind[c.kind]][ParentOf(c)]
     IN  IF state = Never THEN MovesTo(c, "shard") ELSE Confirmed(c, state)
  /\ UNCHANGED <<detectorVars, events>>

\* FetchAccountFromShard: the states of an account up to a block; the last one is
\* that in the block's shards.
StatesUpTo(account, b) == {t \in Block : t <= b /\ account \in StatesOf[t]}

\* detect_from_shard and the parent's detect_impl, which ask no code hash.
detect_from_shard(c) ==
  /\ c.at = "shard"
  /\ LET parent == ParentOf(c)
         kind == ParentKind[c.kind]
         state == Max(StatesUpTo(parent, c.block))
         result == IF StatesUpTo(parent, c.block) = {} THEN "not found"
                   ELSE Method[kind][parent][state]
     IN  IF result # "ok"
         THEN Rejects(c, kind, parent, result)
         ELSE /\ storage' = [storage EXCEPT ![kind][parent] = state]
              /\ Confirmed(c, state)
              /\ UNCHANGED no_interface
  /\ UNCHANGED events

add_to_cache(c) ==
  /\ c.at = "add"
  /\ Accepted(c)
  /\ UNCHANGED <<no_interface, events>>

\* parse_transfer, parse_burn: an event only if the contract is in the cache.
parse_event(c) ==
  /\ c.at = "parse"
  /\ calls' = calls \ {c}
  /\ events' = IF Cached(c) = Never THEN events
               ELSE [events EXCEPT ![c.block] = @ \cup {<<c.kind, c.account, Cached(c)>>}]
  /\ UNCHANGED <<detectorVars, found>>

Detection ==
  \E c \in calls : \/ detect(c) \/ detect_continue(c) \/ detect_impl(c)
                   \/ verify_belonging(c) \/ detect_from_shard(c) \/ add_to_cache(c)
                   \/ parse_event(c)

----------------------------------------------------------------------------
(* Properties *)

\* No contract is reported, or left in a cache, as a wallet or an item unless
\* the parent it names in the state reported has recognised it in some state;
\* only an item may name none.
OnlyRecognised ==
  \A k \in Kind \cap DOMAIN ParentKind : \A a \in Account : \A v \in Block :
    storage[k][a] = v \/ (\E b \in Block : <<k, a, v>> \in found[b])
      => IF Parent[a][v] = Nobody THEN k = "NFT_ITEM"
         ELSE \E b \in Block : a \in Recognises[Parent[a][v]][b]
=============================================================================
