----------------------------- MODULE SmcScanner -----------------------------
(***************************************************************************)
(* ton-smc-scanner: one ShardStateScanner per shard walks the accounts of  *)
(* a shard state in the order of their addresses and cuts them into        *)
(* batches, a StateBatchParser per batch detects the interfaces of its     *)
(* contracts, and the insert manager writes the rows to PostgreSQL and     *)
(* keeps the checkpoint of every shard there (SmcScanner.cpp,              *)
(* PostgreSQLInserter.cpp).  The process may end anywhere and be started   *)
(* again, with or without --force.                                         *)
(*                                                                         *)
(* An account is named by its address.  All accounts are read from one     *)
(* shard state, so a row the scanner writes has version 1; the indexer     *)
(* that runs beside it may have written a newer one, version 2.            *)
(***************************************************************************)
EXTENDS Integers, Sequences, FiniteSets, FiniteSetsExt

CONSTANTS
  Shard,
  Accounts,         \* Accounts[s]: addresses of the accounts of shard s, from 1 on
  Kind,             \* Kind[a]: see below
  BatchSize,        \* batch_size_, of the scanners and of the insert manager
  IndexInterfaces,  \* index_interfaces_
  Indexed,          \* bound: the accounts the indexer updates meanwhile
  MaxFailures,      \* bound: queries PostgreSQL refuses
  MaxCrashes        \* bound: ends of the process

Address == UNION {Accounts[s] : s \in Shard}

\* What parse_account makes of an account: a contract with a detected interface,
\* a contract without, a state without code or data, or nothing (account_none,
\* or a state that cannot be parsed).
Kinds == {"token", "contract", "bare", "none"}

ASSUME ScannerAssumption ==
  /\ Accounts \in [Shard -> SUBSET (Nat \ {0})]
  /\ \A s, t \in Shard : s # t => Accounts[s] \cap Accounts[t] = {}
  /\ Kind \in [Address -> Kinds]
  /\ BatchSize \in Nat \ {0}
  /\ IndexInterfaces \in BOOLEAN
  /\ Indexed \subseteq Address
  /\ MaxFailures \in Nat /\ MaxCrashes \in Nat

VARIABLES
  scanner,      \* ShardStateScanner of a shard
  parsers,      \* live StateBatchParser actors
  mail,         \* mail[s]: addresses of the checkpoint messages sent for shard s
  queue,        \* queue_ of the insert manager
  inserters,    \* the rows of the live PostgreSQLInserter actors
  version,      \* the database: version of a row, 0 when there is none
  checkpoints,  \* table _ton_smc_scanner: cur_addr of a shard, 0 when there is none
  dropped,      \* history: accounts whose rows a failed insert or a crash has lost
  failures, crashes

process == <<scanner, parsers, mail, queue, inserters>>
database == <<version, checkpoints>>
vars == <<process, database, dropped, failures, crashes>>

\* InsertData: a row of latest_account_states, or of the table of an interface.
Row == [table : {"state", "interface"}, account : Address]

RowsOf(a) ==
  {r \in Row : /\ r.account = a /\ Kind[a] # "none"
               /\ r.table = "interface" => Kind[a] = "token" /\ IndexInterfaces}

\* Accounts that have a row.
Wanted(s) == {a \in Accounts[s] : Kind[a] # "none"}

Down == [state |-> "down", cur_addr |-> 0, allow_same |-> TRUE]

Init == /\ scanner = [s \in Shard |-> Down]
        /\ parsers = {} /\ mail = [s \in Shard |-> << >>]
        /\ queue = {} /\ inserters = {}
        /\ version = [r \in Row |-> 0]
        /\ checkpoints = [s \in Shard |-> 0]
        /\ dropped = {}
        /\ failures = 0 /\ crashes = 0

----------------------------------------------------------------------------
(* ShardStateScanner *)

\* The scanner's state after got_checkpoint(addr).
got_checkpoint(addr) == [state |-> "scanning", cur_addr |-> addr, allow_same |-> TRUE]

\* start_up with from_checkpoint: checkpoint_read fails when there is no row, and
\* may fail when there is one; the scan then starts at the zero address.
checkpoint_read(s) ==
  /\ scanner[s].state = "down"
  /\ \/ /\ scanner' = [scanner EXCEPT ![s] = got_checkpoint(checkpoints[s])]
        /\ UNCHANGED failures
     \/ /\ failures < MaxFailures
        /\ failures' = failures + 1
        /\ scanner' = [scanner EXCEPT ![s] = got_checkpoint(0)]
  /\ UNCHANGED <<parsers, mail, queue, inserters, database, dropped, crashes>>

\* start_up with --force: checkpoint_reset deletes the row in a transaction that
\* it does not commit, so the row stays.
checkpoint_reset(s) ==
  /\ scanner[s].state = "down"
  /\ scanner' = [scanner EXCEPT ![s] = got_checkpoint(0)]
  /\ UNCHANGED <<parsers, mail, queue, inserters, database, dropped, failures, crashes>>

\* lookup_nearest_key and the loop around it: the accounts not yet visited, ...
Ahead(s) == {a \in Accounts[s] : \/ a > scanner[s].cur_addr
                                 \/ scanner[s].allow_same /\ a = scanner[s].cur_addr}

\* ... of which a batch holds the nearest ones.
IsBatch(s, batch) ==
  /\ batch \subseteq Ahead(s)
  /\ \A a \in batch, b \in Ahead(s) \ batch : a < b
  /\ Cardinality(batch) = IF Cardinality(Ahead(s)) < BatchSize
                          THEN Cardinality(Ahead(s)) ELSE BatchSize

\* StateBatchParser::start_up: the contracts whose interfaces are to be detected.
Detecting(batch) ==
  {a \in batch : Kind[a] \in {"token", "contract"} /\ IndexInterfaces}

\* Mutant of Scanned: the address of the next account is looked up before the
\* size of the batch is compared.
ScannedPast(s, batch) ==
  LET next == {a \in Ahead(s) \ batch : \A b \in Ahead(s) \ batch : a <= b}
  IN  Max(batch \cup next \cup {scanner[s].cur_addr})

\* cur_addr_ after the loop.
Scanned(s, batch) == Max(batch \cup {scanner[s].cur_addr})

\* The loop sees the end only when it looks for one account more.
schedule_next(s) ==
  /\ scanner[s].state = "scanning"
  /\ \E batch \in SUBSET Ahead(s) :
       /\ IsBatch(s, batch)
       /\ LET cur_addr == Scanned(s, batch)
              finished == Cardinality(batch) < BatchSize
          IN  /\ scanner' = [scanner EXCEPT ![s] =
                   [state |-> IF finished THEN "finished" ELSE "scanning",
                    cur_addr |-> cur_addr,
                    allow_same |-> @.allow_same /\ batch = {}]]
              /\ parsers' = parsers \cup
                   {[shard |-> s, batch |-> batch, detecting |-> Detecting(batch)]}
              /\ mail' = [mail EXCEPT ![s] = Append(@, cur_addr)]
  /\ UNCHANGED <<queue, inserters, database, dropped, failures, crashes>>

----------------------------------------------------------------------------
(* StateBatchParser *)

\* interfaces_detected: one detector has answered; all its errors count as
\* answers without an interface.
interfaces_detected(p, a) ==
  /\ a \in p.detecting
  /\ parsers' = (parsers \ {p}) \cup {[p EXCEPT !.detecting = @ \ {a}]}
  /\ UNCHANGED <<scanner, mail, queue, inserters, database, dropped, failures, crashes>>

\* The rows of check_queue's next inserter, when the queue holds rows: all of
\* them or, as long as there are few and nothing forces the insert, none.
check_queue(rows, force) ==
  IF force \/ Cardinality(rows) > BatchSize
  THEN queue' = {} /\ inserters' = inserters \cup {rows}
  ELSE queue' = rows /\ UNCHANGED inserters

\* Mutant of processing_finished: the first answer of a detector ends the wait.
processing_finished_early(p) ==
  /\ p.detecting # Detecting(p.batch) \/ p.detecting = {}
  /\ parsers' = parsers \ {p}
  /\ check_queue(queue \cup {r \in UNION {RowsOf(a) : a \in p.batch} :
                               r.table = "interface" => r.account \notin p.detecting}, FALSE)
  /\ UNCHANGED <<scanner, mail, database, dropped, failures, crashes>>

\* processing_finished, once all promises of the MultiPromise are kept, and
\* insert_data of the insert manager.
processing_finished(p) ==
  /\ p.detecting = {}
  /\ parsers' = parsers \ {p}
  /\ check_queue(queue \cup UNION {RowsOf(a) : a \in p.batch}, FALSE)
  /\ UNCHANGED <<scanner, mail, database, dropped, failures, crashes>>

----------------------------------------------------------------------------
(* PostgreSQLInsertManager and PostgreSQLInserter *)

\* Mutant of alarm: only a full batch is inserted.
alarm_unforced ==
  /\ queue # {}
  /\ check_queue(queue, FALSE)
  /\ UNCHANGED <<scanner, parsers, mail, database, dropped, failures, crashes>>

\* Bound: an alarm that finds nothing in the queue starts an inserter without
\* rows and is left out.
alarm ==
  /\ queue # {}
  /\ check_queue(queue, TRUE)
  /\ UNCHANGED <<scanner, parsers, mail, database, dropped, failures, crashes>>

\* An error is logged and the row stays as it was.
checkpoint(s) ==
  /\ mail[s] # << >>
  /\ mail' = [mail EXCEPT ![s] = Tail(@)]
  /\ \/ /\ checkpoints' = [checkpoints EXCEPT ![s] = Head(mail[s])]
        /\ UNCHANGED failures
     \/ /\ failures < MaxFailures
        /\ failures' = failures + 1
        /\ UNCHANGED checkpoints
  /\ UNCHANGED <<scanner, parsers, queue, inserters, version, dropped, crashes>>

\* insert_latest_account_states: ON CONFLICT DO UPDATE ... WHERE last_trans_lt <=
\* EXCLUDED.last_trans_lt.
StatesReplaced(rows) == {r \in rows : r.table = "state" /\ version[r] <= 1}

\* insert_jetton_masters, ..., insert_nft_items.  The tables of NFTs compare with
\* <, which makes no difference to a row of the same version.
InterfacesReplaced(rows) == {r \in rows : r.table = "interface" /\ version[r] <= 1}

Upserted(rows) ==
  [r \in Row |-> IF r \in StatesReplaced(rows) \cup InterfacesReplaced(rows) THEN 1 ELSE version[r]]

\* The inserter writes all its rows in one transaction; when that fails the
\* manager only logs it.
insert_done(rows) ==
  /\ inserters' = inserters \ {rows}
  /\ \/ /\ version' = Upserted(rows)
        /\ UNCHANGED <<dropped, failures>>
     \/ /\ failures < MaxFailures
        /\ failures' = failures + 1
        /\ dropped' = dropped \cup {r.account : r \in rows}
        /\ UNCHANGED version
  /\ UNCHANGED <<scanner, parsers, mail, queue, checkpoints, crashes>>

----------------------------------------------------------------------------
(* The surroundings *)

\* The indexer has seen a newer transaction of the account.
IndexerUpdates(a) ==
  /\ \A r \in RowsOf(a) : version[r] < 2
  /\ RowsOf(a) # {}
  /\ version' = [r \in Row |-> IF r \in RowsOf(a) THEN 2 ELSE version[r]]
  /\ UNCHANGED <<process, checkpoints, dropped, failures, crashes>>

\* Accounts some actor of the process has still to bring to the database.
InFlight == UNION {p.batch : p \in parsers}
            \cup {r.account : r \in queue \cup UNION inserters}

Crash ==
  /\ crashes < MaxCrashes
  /\ crashes' = crashes + 1
  /\ dropped' = dropped \cup InFlight
  /\ scanner' = [s \in Shard |-> Down]
  /\ parsers' = {} /\ mail' = [s \in Shard |-> << >>]
  /\ queue' = {} /\ inserters' = {}
  /\ UNCHANGED <<database, failures>>

----------------------------------------------------------------------------
Scan(s) == checkpoint_read(s) \/ checkpoint_reset(s) \/ schedule_next(s)

Parse == \E p \in parsers : \/ processing_finished(p)
                            \/ \E a \in p.detecting : interfaces_detected(p, a)

Insert == \E rows \in inserters : insert_done(rows)

\* The process goes on running when everything is done.
Idle == /\ \A s \in Shard : scanner[s].state = "finished" /\ mail[s] = << >>
        /\ parsers = {} /\ queue = {} /\ inserters = {}
        /\ UNCHANGED vars

Next == \/ \E s \in Shard : Scan(s) \/ checkpoint(s)
        \/ Parse \/ alarm \/ Insert
        \/ \E a \in Indexed : IndexerUpdates(a)
        \/ Crash \/ Idle

Spec == Init /\ [][Next]_vars

\* Alarms fire, actors handle their messages and queries are answered.
FairSpec == /\ Spec
            /\ \A s \in Shard : WF_vars(Scan(s)) /\ WF_vars(checkpoint(s))
            /\ WF_vars(Parse) /\ WF_vars(alarm) /\ WF_vars(Insert)

----------------------------------------------------------------------------
(* Properties *)

\* Every variable has its type.
TypeOK ==
  /\ \A s \in Shard : /\ scanner[s].state \in {"down", "scanning", "finished"}
                      /\ scanner[s].cur_addr \in Accounts[s] \cup {0}
                      /\ scanner[s].allow_same \in BOOLEAN
                      /\ checkpoints[s] \in Accounts[s] \cup {0}
                      /\ mail[s] \in Seq(Accounts[s] \cup {0})
  /\ parsers \subseteq [shard : Shard, batch : SUBSET Address, detecting : SUBSET Address]
  /\ queue \subseteq Row /\ inserters \subseteq SUBSET Row
  /\ version \in [Row -> 0 .. 2]
  /\ dropped \subseteq Address
  /\ failures \in 0 .. MaxFailures /\ crashes \in 0 .. MaxCrashes

Stored(a) == \A r \in RowsOf(a) : version[r] > 0

\* Behind the checkpoint of a shard, which is written before the accounts are,
\* and behind its scanner every account is stored or on its way, except for those
\* that a failed insert or a crash has dropped: the walk over the accounts,
\* its batches and the resumption from a checkpoint skip none.
NothingSkipped ==
  \A s \in Shard : \A a \in Wanted(s) :
    a <= checkpoints[s] \/ scanner[s].state = "finished" \/ a <= scanner[s].cur_addr
      => Stored(a) \/ a \in InFlight \cup dropped

\* The row of a contract's state and the row of its interface come from the same
\* version of the account: the parser waits for all its detectors, the rows of
\* a batch share a transaction, and both replace older rows only.
SameVersion ==
  \A r, q \in Row : r.account = q.account /\ r \in RowsOf(r.account) /\ q \in RowsOf(r.account)
                      => version[r] = version[q]

\* No row is ever replaced by an older version, or lost.
NeverOlder == [][\A r \in Row : version'[r] >= version[r]]_vars

\* The scan ends, with every account stored or dropped: no row stays in the
\* insert manager's queue, also when the last ones do not fill a batch.
ScanEnds ==
  <>[](\A s \in Shard : /\ scanner[s].state = "finished"
                        /\ \A a \in Wanted(s) : Stored(a) \/ a \in dropped)
=============================================================================
