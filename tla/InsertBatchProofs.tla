------------------------- MODULE InsertBatchProofs --------------------------
(***************************************************************************)
(* The insert actors of ton-index-postgres-v2, for any number of batches,  *)
(* blocks, bodies, entities and failures: no actor waits for another one   *)
(* in a circle, the tables of newest versions are right, and no message    *)
(* body is forgotten while nothing is left marked as being inserted.       *)
(***************************************************************************)
EXTENDS InsertBatchPostgres, TLAPS

\* Who holds which lock.  A body is in the msg_bodies of one actor at most, and
\* until it is unlocked only that actor has a row for it in its transaction; the
\* mutex is held exactly in the last part.
LockInv ==
  /\ \A b \in Batch :
       /\ todo[b] \subseteq msg_bodies[b]
       /\ msg_bodies[b] \subseteq msg_bodies_in_progress
       /\ pc[b] \notin {"insert_messages", "insert_bodies"} => msg_bodies[b] = {}
       /\ pc[b] \in First => written[b] \subseteq msg_bodies[b]
       /\ states_mutex = b <=> pc[b] = "upsert"
       /\ pc[b] # "upsert" => upserted[b] = {}
  /\ \A b, c \in Batch : b # c => msg_bodies[b] \cap msg_bodies[c] = {}

BeforeLock == {"insert_blocks", "insert_shard_state", "insert_transactions", "lock_msg_bodies"}

\* Actor b has not yet decided about body m, or has inserted it.
Keeps(b, m) == m \in BodiesOf(Tasks[b]) /\ (pc[b] \in BeforeLock \/ m \in written[b])

\* A body of a batch or of a stored block is stored, marked, or kept by an actor.
BodyInv ==
  /\ \A b \in Batch : /\ msg_bodies[b] \subseteq todo[b] \cup written[b] \cup contents
                      /\ msg_bodies[b] \subseteq BodiesOf(Tasks[b])
                      /\ pc[b] = "done" => written[b] = {}
  /\ \A m \in Body : m \in BodiesOf(stored) \/ (\E b \in Batch : m \in BodiesOf(Tasks[b]))
       => \/ m \in contents \/ m \in msg_bodies_in_progress
          \/ \E b \in Batch : Keeps(b, m)

Inv == TypeOK /\ LockInv /\ BodyInv /\ LatestIsNewest

----------------------------------------------------------------------------
(* Operators *)

\* The row a batch writes is a version of one of its blocks, and the newest.
LEMMA NewestIs ==
  ASSUME NEW b \in Batch, NEW e \in Entity
  PROVE  /\ Newest(b, e) \in Nat
         /\ \E k \in Tasks[b] : Newest(b, e) = Version[k][e]
         /\ \A k \in Tasks[b] : Version[k][e] <= Newest(b, e)
<1>1. PICK k \in Tasks[b] : \A j \in Tasks[b] : Version[j][e] <= Version[k][e]
  BY NewestAssumption
<1>2. \E v \in {Version[j][e] : j \in Tasks[b]} : \A j \in Tasks[b] : Version[j][e] <= v
  BY <1>1
<1>3. /\ Newest(b, e) \in {Version[j][e] : j \in Tasks[b]}
      /\ \A j \in Tasks[b] : Version[j][e] <= Newest(b, e)
  BY <1>2 DEF Newest
<1>4. \A j \in Tasks[b] : Version[j][e] \in Nat
  BY BatchAssumption
<1> QED
  BY <1>3, <1>4

LEMMA BodiesOfType ==
  ASSUME NEW K \in SUBSET Block
  PROVE  BodiesOf(K) \subseteq Body
  BY BatchAssumption DEF BodiesOf

LEMMA BodiesOfUnion ==
  ASSUME NEW K, NEW L, NEW m, m \in BodiesOf(K \cup L)
  PROVE  m \in BodiesOf(K) \/ m \in BodiesOf(L)
  BY DEF BodiesOf

LEMMA TasksType ==
  ASSUME NEW b \in Batch
  PROVE  Tasks[b] \in SUBSET Block /\ BodiesOf(Tasks[b]) \subseteq Body
  BY BatchAssumption, BodiesOfType

----------------------------------------------------------------------------
(* The initial states *)

LEMMA InitInv == Init => Inv
<1> SUFFICES ASSUME Init PROVE Inv
  OBVIOUS
<1>1. \A e \in Entity : \E v \in {0} \cup {Version[k][e] : k \in StoredBefore} :
                          IsNewest(v, e, StoredBefore)
  BY BeforeAssumption DEF IsNewest
<1>2. \A e \in Entity : /\ latest[e] \in {0} \cup {Version[k][e] : k \in StoredBefore}
                        /\ IsNewest(latest[e], e, StoredBefore)
  BY <1>1 DEF Init
<1>3. \A e \in Entity, k \in StoredBefore : Version[k][e] \in Nat
  BY BatchAssumption
<1>4. latest \in [Entity -> Nat]
  <2>1. \A e \in Entity : latest[e] \in Nat
    BY <1>2, <1>3
  <2>2. latest = [e \in Entity |-> latest[e]]
    BY DEF Init
  <2> QED
    BY <2>1, <2>2
<1>5. TypeOK
  <2>1. BodiesOf(StoredBefore) \subseteq Body
    BY BatchAssumption, BodiesOfType
  <2>2. /\ pc \in [Batch -> First \cup Second \cup Third] /\ with_copy \in [Batch -> BOOLEAN]
        /\ msg_bodies \in [Batch -> SUBSET Body] /\ todo \in [Batch -> SUBSET Body]
        /\ written \in [Batch -> SUBSET Body] /\ upserted \in [Batch -> SUBSET Entity]
    BY DEF Init, First
  <2>3. /\ msg_bodies_in_progress \subseteq Body /\ states_mutex \in Batch \cup {NoBatch}
        /\ stored \subseteq Block /\ contents \subseteq Body
    BY <2>1, BatchAssumption DEF Init
  <2>4. failures \in 0 .. MaxFailures
    BY BatchAssumption DEF Init
  <2> QED
    BY <1>4, <2>2, <2>3, <2>4 DEF TypeOK
<1>6. LockInv
  BY BatchAssumption DEF Init, LockInv
<1>7. BodyInv
  BY DEF Init, BodyInv, Keeps, BeforeLock
<1>8. LatestIsNewest
  BY <1>2 DEF Init, LatestIsNewest, IsNewest
<1> QED
  BY <1>5, <1>6, <1>7, <1>8 DEF Inv

----------------------------------------------------------------------------
(* The steps of an attempt *)

\* A statement on a table of block rows: only the place of the actor changes.
LEMMA PopulateInv ==
  ASSUME Inv, NEW b \in Batch, NEW t \in First \cup Second, NEW n \in First \cup Second,
         Populate(b, t, n),
         t \in BeforeLock <=> n \in BeforeLock,
         n \in First => t \in First,
         t \in {"insert_messages", "insert_bodies"} => n \in {"insert_messages", "insert_bodies"}
  PROVE  Inv'
<1>1. /\ pc \in [Batch -> First \cup Second \cup Third] /\ pc[b] = t
      /\ pc' = [pc EXCEPT ![b] = n]
      /\ UNCHANGED <<with_copy, msg_bodies, todo, written, upserted, msg_bodies_in_progress,
                     states_mutex, stored, contents, latest, failures>>
  BY DEF Inv, TypeOK, Populate, local, shared, database
<1>2. TypeOK'
  BY <1>1 DEF Inv, TypeOK
<1>3. t # "upsert" /\ n # "upsert" /\ n # "done"
  BY DEF First, Second
<1>4. LockInv'
  BY <1>1, <1>3 DEF Inv, LockInv
<1>5. BodyInv'
  <2>1. \A c \in Batch, m \in Body : Keeps(c, m) => Keeps(c, m)'
    BY <1>1 DEF Keeps
  <2> QED
    BY <1>1, <1>3, <2>1 DEF Inv, BodyInv
<1>6. LatestIsNewest'
  BY <1>1 DEF Inv, LatestIsNewest
<1> QED
  BY <1>2, <1>4, <1>5, <1>6 DEF Inv

\* What a roll back of b leaves of the invariant, given the new database.
LEMMA RolledBackInv ==
  ASSUME Inv, NEW b \in Batch, RolledBack(b), with_copy' \in [Batch -> BOOLEAN],
         msg_bodies_in_progress' = msg_bodies_in_progress,
         states_mutex' = IF states_mutex = b THEN NoBatch ELSE states_mutex,
         failures' \in 0 .. MaxFailures
  PROVE  LockInv' /\ (UNCHANGED database => Inv')
<1>1. /\ pc \in [Batch -> First \cup Second \cup Third]
      /\ pc' = [pc EXCEPT ![b] = "insert_blocks"]
      /\ msg_bodies' = [msg_bodies EXCEPT ![b] = {}] /\ todo' = [todo EXCEPT ![b] = {}]
      /\ written' = [written EXCEPT ![b] = {}] /\ upserted' = [upserted EXCEPT ![b] = {}]
      /\ msg_bodies \in [Batch -> SUBSET Body] /\ todo \in [Batch -> SUBSET Body]
      /\ written \in [Batch -> SUBSET Body] /\ upserted \in [Batch -> SUBSET Entity]
  BY DEF Inv, TypeOK, RolledBack
<1>2. LockInv'
  BY <1>1, BatchAssumption DEF Inv, LockInv
<1>3. ASSUME UNCHANGED database PROVE Inv'
  <2>1. stored' = stored /\ contents' = contents /\ latest' = latest
    BY <1>3 DEF database
  <2>2. TypeOK'
    BY <1>1, <2>1 DEF Inv, TypeOK, First
  <2>3. BodyInv'
    <3>1. \A c \in Batch, m \in Body : Keeps(c, m) => Keeps(c, m)'
      BY <1>1 DEF Keeps, BeforeLock
    <3> QED
      BY <1>1, <2>1, <3>1 DEF Inv, BodyInv
  <2>4. LatestIsNewest'
    BY <2>1 DEF Inv, LatestIsNewest
  <2> QED
    BY <1>2, <2>2, <2>3, <2>4 DEF Inv
<1> QED
  BY <1>2, <1>3

\* The actor takes bodies nobody else has.
LEMMA LockBodiesInv ==
  ASSUME Inv, NEW b \in Batch, lock_msg_bodies(b)
  PROVE  Inv'
<1> DEFINE mine == BodiesOf(Tasks[b]) \ msg_bodies_in_progress
<1>1. /\ pc \in [Batch -> First \cup Second \cup Third] /\ pc[b] = "lock_msg_bodies"
      /\ pc' = [pc EXCEPT ![b] = "insert_messages"]
      /\ msg_bodies \in [Batch -> SUBSET Body] /\ todo \in [Batch -> SUBSET Body]
      /\ msg_bodies' = [msg_bodies EXCEPT ![b] = mine] /\ todo' = [todo EXCEPT ![b] = mine]
      /\ msg_bodies_in_progress' = msg_bodies_in_progress \cup mine
      /\ UNCHANGED <<with_copy, written, upserted, states_mutex, stored, contents, latest, failures>>
  BY DEF Inv, TypeOK, lock_msg_bodies, database
<1>2. mine \subseteq BodiesOf(Tasks[b]) /\ mine \cap msg_bodies_in_progress = {} /\ mine \subseteq Body
  BY TasksType
<1>3. \A m : m \in BodiesOf(Tasks[b]) => m \in msg_bodies_in_progress'
  BY <1>1
<1> HIDE DEF mine
<1>4. TypeOK'
  BY <1>1, <1>2 DEF Inv, TypeOK, First
<1>5. LockInv'
  <2>1. msg_bodies[b] = {} /\ written[b] = {}
    BY <1>1 DEF Inv, LockInv, First
  <2>2. ASSUME NEW c \in Batch
        PROVE  /\ todo'[c] \subseteq msg_bodies'[c]
               /\ msg_bodies'[c] \subseteq msg_bodies_in_progress'
               /\ pc'[c] \notin {"insert_messages", "insert_bodies"} => msg_bodies'[c] = {}
               /\ pc'[c] \in First => written'[c] \subseteq msg_bodies'[c]
               /\ states_mutex' = c <=> pc'[c] = "upsert"
               /\ pc'[c] # "upsert" => upserted'[c] = {}
    BY <1>1, <2>1 DEF Inv, LockInv
  <2>3. ASSUME NEW c \in Batch, NEW d \in Batch, c # d
        PROVE  msg_bodies'[c] \cap msg_bodies'[d] = {}
    BY <1>1, <1>2, <2>3 DEF Inv, LockInv
  <2> QED
    BY <2>2, <2>3 DEF LockInv
<1>6. BodyInv'
  <2>1. ASSUME NEW c \in Batch
        PROVE  /\ msg_bodies'[c] \subseteq todo'[c] \cup written'[c] \cup contents'
               /\ msg_bodies'[c] \subseteq BodiesOf(Tasks[c])
               /\ pc'[c] = "done" => written'[c] = {}
    BY <1>1, <1>2 DEF Inv, BodyInv
  <2>2. ASSUME NEW m \in Body,
               m \in BodiesOf(stored) \/ (\E c \in Batch : m \in BodiesOf(Tasks[c]))
        PROVE  m \in contents' \/ m \in msg_bodies_in_progress' \/ \E c \in Batch : Keeps(c, m)'
    <3>1. m \in contents \/ m \in msg_bodies_in_progress \/ \E c \in Batch : Keeps(c, m)
      BY <2>2 DEF Inv, BodyInv
    <3>2. ASSUME NEW c \in Batch, Keeps(c, m), c # b PROVE Keeps(c, m)'
      BY <1>1, <3>2 DEF Keeps
    <3>3. ASSUME Keeps(b, m) PROVE m \in msg_bodies_in_progress'
      BY <1>3, <3>3 DEF Keeps
    <3> QED
      BY <1>1, <3>1, <3>2, <3>3
  <2> QED
    BY <1>1, <2>1, <2>2 DEF BodyInv
<1>7. LatestIsNewest'
  BY <1>1 DEF Inv, LatestIsNewest
<1> QED
  BY <1>4, <1>5, <1>6, <1>7 DEF Inv

LEMMA InsertBodyInv ==
  ASSUME Inv, NEW b \in Batch, NEW x \in Body, insert_body(b, x)
  PROVE  Inv'
<1>1. /\ pc[b] = "insert_bodies" /\ x \in todo[b]
      /\ todo \in [Batch -> SUBSET Body] /\ written \in [Batch -> SUBSET Body]
      /\ todo' = [todo EXCEPT ![b] = todo[b] \ {x}]
      /\ written' = [written EXCEPT ![b] = IF x \in contents THEN written[b] ELSE written[b] \cup {x}]
      /\ UNCHANGED <<pc, with_copy, msg_bodies, upserted, msg_bodies_in_progress, states_mutex,
                     stored, contents, latest, failures>>
  BY DEF Inv, TypeOK, insert_body, shared, database
<1>2. TypeOK'
  BY <1>1 DEF Inv, TypeOK
<1>3. LockInv'
  BY <1>1 DEF Inv, LockInv
<1>4. BodyInv'
  <2>1. \A c \in Batch, m \in Body : Keeps(c, m) => Keeps(c, m)'
    BY <1>1 DEF Keeps
  <2>2. \A c \in Batch : /\ msg_bodies'[c] \subseteq todo'[c] \cup written'[c] \cup contents'
                         /\ pc'[c] = "done" => written'[c] = {}
    BY <1>1 DEF Inv, BodyInv
  <2> QED
    BY <1>1, <2>1, <2>2 DEF Inv, BodyInv
<1>5. LatestIsNewest'
  BY <1>1 DEF Inv, LatestIsNewest
<1> QED
  BY <1>2, <1>3, <1>4, <1>5 DEF Inv

\* The bodies of b are unlocked when they are stored or in its transaction.
LEMMA UnlockBodiesInv ==
  ASSUME Inv, NEW b \in Batch, unlock_msg_bodies(b)
  PROVE  Inv'
<1>1. /\ pc \in [Batch -> First \cup Second \cup Third] /\ pc[b] = "insert_bodies"
      /\ pc' = [pc EXCEPT ![b] = "insert_account_states"]
      /\ todo[b] = {} /\ msg_bodies \in [Batch -> SUBSET Body]
      /\ msg_bodies' = [msg_bodies EXCEPT ![b] = {}]
      /\ msg_bodies_in_progress' = msg_bodies_in_progress \ msg_bodies[b]
      /\ UNCHANGED <<with_copy, todo, written, upserted, states_mutex, stored, contents, latest, failures>>
  BY DEF Inv, TypeOK, unlock_msg_bodies, database
<1>2. TypeOK'
  BY <1>1 DEF Inv, TypeOK, Second
<1>3. LockInv'
  BY <1>1 DEF Inv, LockInv, First
<1>4. BodyInv'
  <2>1. \A c \in Batch, m \in Body : Keeps(c, m) => Keeps(c, m)'
    BY <1>1 DEF Keeps, BeforeLock
  <2>2. \A m \in msg_bodies[b] : m \in contents' \/ Keeps(b, m)'
    BY <1>1 DEF Inv, BodyInv, Keeps
  <2>3. \A c \in Batch : /\ msg_bodies'[c] \subseteq todo'[c] \cup written'[c] \cup contents'
                         /\ msg_bodies'[c] \subseteq BodiesOf(Tasks[c])
                         /\ pc'[c] = "done" => written'[c] = {}
    BY <1>1 DEF Inv, BodyInv
  <2> QED
    BY <1>1, <2>1, <2>2, <2>3 DEF Inv, BodyInv
<1>5. LatestIsNewest'
  BY <1>1 DEF Inv, LatestIsNewest
<1> QED
  BY <1>2, <1>3, <1>4, <1>5 DEF Inv

LEMMA LockStatesInv ==
  ASSUME Inv, NEW b \in Batch, lock_states(b)
  PROVE  Inv'
<1>1. /\ pc \in [Batch -> First \cup Second \cup Third] /\ pc[b] = "lock_states"
      /\ pc' = [pc EXCEPT ![b] = "upsert"]
      /\ states_mutex = NoBatch /\ states_mutex' = b
      /\ UNCHANGED <<with_copy, msg_bodies, todo, written, upserted, msg_bodies_in_progress,
                     stored, contents, latest, failures>>
  BY DEF Inv, TypeOK, lock_states, local, database
<1>2. TypeOK'
  BY <1>1 DEF Inv, TypeOK, Third
<1>3. LockInv'
  BY <1>1, BatchAssumption DEF Inv, LockInv, First
<1>4. BodyInv'
  <2>1. \A c \in Batch, m \in Body : Keeps(c, m) => Keeps(c, m)'
    BY <1>1 DEF Keeps, BeforeLock
  <2> QED
    BY <1>1, <2>1 DEF Inv, BodyInv
<1>5. LatestIsNewest'
  BY <1>1 DEF Inv, LatestIsNewest
<1> QED
  BY <1>2, <1>3, <1>4, <1>5 DEF Inv

LEMMA UpsertRowInv ==
  ASSUME Inv, NEW b \in Batch, NEW e \in Entity, upsert_row(b, e)
  PROVE  Inv'
<1>1. /\ pc[b] = "upsert" /\ upserted \in [Batch -> SUBSET Entity]
      /\ upserted' = [upserted EXCEPT ![b] = upserted[b] \cup {e}]
      /\ UNCHANGED <<pc, with_copy, msg_bodies, todo, written, msg_bodies_in_progress, states_mutex,
                     stored, contents, latest, failures>>
  BY DEF Inv, TypeOK, upsert_row, shared, database
<1>2. TypeOK'
  BY <1>1 DEF Inv, TypeOK
<1>3. LockInv'
  BY <1>1 DEF Inv, LockInv
<1>4. BodyInv'
  BY <1>1 DEF Inv, BodyInv, Keeps
<1>5. LatestIsNewest'
  BY <1>1 DEF Inv, LatestIsNewest
<1> QED
  BY <1>2, <1>3, <1>4, <1>5 DEF Inv

\* A commit keeps the newest versions newest, in whatever order batches commit.
LEMMA CommittedLatest ==
  ASSUME Inv, NEW b \in Batch, Committed(b)
  PROVE  latest' \in [Entity -> Nat] /\ LatestIsNewest'
<1>1. /\ stored' = stored \cup Tasks[b] /\ latest \in [Entity -> Nat] /\ stored \subseteq Block
      /\ latest' = [e \in Entity |-> IF latest[e] < Newest(b, e) THEN Newest(b, e) ELSE latest[e]]
  BY DEF Inv, TypeOK, Committed, Replaced
<1>2. ASSUME NEW e \in Entity
      PROVE  /\ latest'[e] \in Nat /\ latest[e] <= latest'[e] /\ Newest(b, e) <= latest'[e]
             /\ latest'[e] = latest[e] \/ latest'[e] = Newest(b, e)
  <2>1. Newest(b, e) \in Nat
    BY NewestIs
  <2> QED
    BY <1>1, <2>1
<1>3. latest' \in [Entity -> Nat]
  BY <1>1, <1>2
<1>4. ASSUME NEW e \in Entity
      PROVE  /\ \A k \in stored' : Version[k][e] <= latest'[e]
             /\ latest'[e] = 0 \/ \E k \in stored' : latest'[e] = Version[k][e]
  <2>1. Newest(b, e) \in Nat /\ latest[e] \in Nat
    BY <1>1, NewestIs
  <2>2. \A k \in Tasks[b] : Version[k][e] <= Newest(b, e)
    BY NewestIs
  <2>3. \E k \in Tasks[b] : Newest(b, e) = Version[k][e]
    BY NewestIs
  <2>4. /\ \A k \in stored : Version[k][e] <= latest[e]
        /\ latest[e] = 0 \/ \E k \in stored : latest[e] = Version[k][e]
    BY DEF Inv, LatestIsNewest
  <2>5. \A k \in stored' : Version[k][e] \in Nat
    BY <1>1, TasksType, BatchAssumption
  <2>6. \A k \in stored' : Version[k][e] <= latest'[e]
    BY <1>1, <1>2, <2>1, <2>2, <2>4, <2>5
  <2>7. latest'[e] = 0 \/ \E k \in stored' : latest'[e] = Version[k][e]
    BY <1>1, <1>2, <2>3, <2>4
  <2> QED
    BY <2>6, <2>7
<1> QED
  BY <1>3, <1>4 DEF LatestIsNewest

\* The transaction of b has ended, with its effect; b is at its start or done.
LEMMA CommittedInv ==
  ASSUME Inv, NEW b \in Batch, Committed(b), NEW n \in {"insert_blocks", "done"},
         pc' = [pc EXCEPT ![b] = n],
         written' = [written EXCEPT ![b] = {}], upserted' = [upserted EXCEPT ![b] = {}],
         msg_bodies' = msg_bodies, todo' = todo, failures' \in 0 .. MaxFailures
  PROVE  Inv'
<1>1. /\ pc \in [Batch -> First \cup Second \cup Third] /\ pc[b] = "upsert"
      /\ written \in [Batch -> SUBSET Body] /\ upserted \in [Batch -> SUBSET Entity]
      /\ stored' = stored \cup Tasks[b] /\ contents' = contents \cup written[b]
      /\ states_mutex' = (IF states_mutex = b THEN NoBatch ELSE states_mutex)
      /\ with_copy' = with_copy /\ msg_bodies_in_progress' = msg_bodies_in_progress
  BY DEF Inv, TypeOK, Committed
<1>2. TypeOK'
  <2>1. latest' \in [Entity -> Nat]
    BY CommittedLatest
  <2>2. stored' \subseteq Block /\ contents' \subseteq Body
    BY <1>1, TasksType DEF Inv, TypeOK
  <2> QED
    BY <1>1, <2>1, <2>2 DEF Inv, TypeOK, First, Third
<1>3. LockInv'
  <2>1. msg_bodies[b] = {}
    BY <1>1 DEF Inv, LockInv
  <2> QED
    BY <1>1, <2>1, BatchAssumption DEF Inv, LockInv
<1>4. BodyInv'
  <2>1. ASSUME NEW c \in Batch
        PROVE  /\ msg_bodies'[c] \subseteq todo'[c] \cup written'[c] \cup contents'
               /\ msg_bodies'[c] \subseteq BodiesOf(Tasks[c])
               /\ pc'[c] = "done" => written'[c] = {}
    BY <1>1 DEF Inv, BodyInv
  <2>2. ASSUME NEW m \in Body,
               m \in BodiesOf(stored') \/ (\E c \in Batch : m \in BodiesOf(Tasks[c]))
        PROVE  m \in contents' \/ m \in msg_bodies_in_progress' \/ \E c \in Batch : Keeps(c, m)'
    <3>1. m \in BodiesOf(stored) \/ (\E c \in Batch : m \in BodiesOf(Tasks[c]))
      <4>1. CASE m \in BodiesOf(stored')
        BY <1>1, <4>1, BodiesOfUnion
      <4> QED
        BY <2>2, <4>1
    <3>2. m \in contents \/ m \in msg_bodies_in_progress \/ \E c \in Batch : Keeps(c, m)
      BY <3>1 DEF Inv, BodyInv
    <3>3. ASSUME NEW c \in Batch, Keeps(c, m), c # b PROVE Keeps(c, m)'
      BY <1>1, <3>3 DEF Keeps
    <3>4. ASSUME Keeps(b, m) PROVE m \in contents'
      BY <1>1, <3>4 DEF Keeps, BeforeLock
    <3> QED
      BY <1>1, <3>2, <3>3, <3>4
  <2> QED
    BY <2>1, <2>2 DEF BodyInv
<1>5. LatestIsNewest'
  BY CommittedLatest
<1> QED
  BY <1>2, <1>3, <1>4, <1>5 DEF Inv

----------------------------------------------------------------------------
(* Theorems *)

LEMMA AttemptInv ==
  ASSUME Inv, NEW b \in Batch, Attempt(b)
  PROVE  Inv'
<1> USE DEF First, Second, BeforeLock
<1>1. CASE conflict(b)
  <2>1. /\ RolledBack(b) /\ with_copy' \in [Batch -> BOOLEAN] /\ UNCHANGED database
        /\ failures' \in 0 .. MaxFailures
        /\ msg_bodies_in_progress' = msg_bodies_in_progress /\ states_mutex' = states_mutex
    BY <1>1 DEF conflict, shared, Inv, TypeOK
  <2>2. states_mutex # b
    BY <1>1 DEF conflict, Inv, LockInv
  <2>3. states_mutex' = IF states_mutex = b THEN NoBatch ELSE states_mutex
    BY <2>1, <2>2
  <2> QED
    BY <2>1, <2>3, RolledBackInv
<1>2. CASE insert_blocks(b) BY <1>2, PopulateInv DEF insert_blocks
<1>3. CASE insert_shard_state(b) BY <1>3, PopulateInv DEF insert_shard_state
<1>4. CASE insert_transactions(b) BY <1>4, PopulateInv DEF insert_transactions
<1>5. CASE lock_msg_bodies(b) BY <1>5, LockBodiesInv
<1>6. CASE insert_messages(b) BY <1>6, PopulateInv DEF insert_messages
<1>7. CASE \E m \in Body : insert_body(b, m) BY <1>7, InsertBodyInv
<1>8. CASE unlock_msg_bodies(b) BY <1>8, UnlockBodiesInv
<1>9. CASE insert_account_states(b) BY <1>9, PopulateInv DEF insert_account_states
<1>10. CASE insert_jetton_transfers(b) BY <1>10, PopulateInv DEF insert_jetton_transfers
<1>11. CASE insert_jetton_burns(b) BY <1>11, PopulateInv DEF insert_jetton_burns
<1>12. CASE insert_nft_transfers(b) BY <1>12, PopulateInv DEF insert_nft_transfers
<1>13. CASE insert_traces(b) BY <1>13, PopulateInv DEF insert_traces
<1>14. CASE lock_states(b) BY <1>14, LockStatesInv
<1>15. CASE \E e \in Entity : upsert_row(b, e) BY <1>15, UpsertRowInv
<1>16. CASE commit(b)
  <2>1. failures' \in 0 .. MaxFailures
    BY <1>16 DEF commit, Inv, TypeOK
  <2> QED
    BY <1>16, <2>1, CommittedInv DEF commit
<1> QED
  BY <1>1, <1>2, <1>3, <1>4, <1>5, <1>6, <1>7, <1>8, <1>9, <1>10, <1>11, <1>12, <1>13, <1>14,
     <1>15, <1>16 DEF Attempt

LEMMA NextInv == Inv /\ [Next]_vars => Inv'
<1> SUFFICES ASSUME Inv, [Next]_vars PROVE Inv'
  OBVIOUS
<1>1. ASSUME NEW b \in Batch, Attempt(b) PROVE Inv'
  BY <1>1, AttemptInv
<1>2. ASSUME failures < MaxFailures, failures' = failures + 1 PROVE failures' \in 0 .. MaxFailures
  BY <1>2, BatchAssumption DEF Inv, TypeOK
<1>3. ASSUME NEW b \in Batch, commit_in_doubt(b) PROVE Inv'
  <2>1. failures' \in 0 .. MaxFailures /\ Committed(b) /\ RolledBack(b)
    BY <1>2, <1>3 DEF commit_in_doubt
  <2>2. /\ msg_bodies \in [Batch -> SUBSET Body] /\ todo \in [Batch -> SUBSET Body]
        /\ msg_bodies[b] = {} /\ todo[b] = {}
    BY <2>1 DEF Committed, Inv, TypeOK, LockInv
  <2>3. msg_bodies' = msg_bodies /\ todo' = todo
    BY <2>1, <2>2 DEF RolledBack
  <2> QED
    BY <2>1, <2>3, CommittedInv DEF RolledBack
<1>4. ASSUME NEW b \in Batch, exception(b) PROVE Inv'
  <2>1. failures' \in 0 .. MaxFailures
    BY <1>2, <1>4 DEF exception
  <2>2. with_copy' \in [Batch -> BOOLEAN]
    BY <1>4 DEF exception, Inv, TypeOK
  <2> QED
    BY <1>4, <2>1, <2>2, RolledBackInv DEF exception
<1>5. CASE UNCHANGED vars
  <2>1. UNCHANGED <<pc, with_copy, msg_bodies, todo, written, upserted, msg_bodies_in_progress,
                    states_mutex, stored, contents, latest, failures>>
    BY <1>5 DEF vars, local, shared, database
  <2>2. TypeOK'
    BY <2>1 DEF Inv, TypeOK
  <2>3. LockInv'
    BY <2>1 DEF Inv, LockInv
  <2>4. BodyInv'
    BY <2>1 DEF Inv, BodyInv, Keeps
  <2>5. LatestIsNewest'
    BY <2>1 DEF Inv, LatestIsNewest
  <2> QED
    BY <2>2, <2>3, <2>4, <2>5 DEF Inv
<1> QED
  BY <1>1, <1>3, <1>4, <1>5 DEF Next, Finished

\* The inductive invariant holds in every reachable state.
THEOREM InvHolds == Spec => []Inv
<1> QED
  BY InitInv, NextInv, PTL DEF Spec

\* No circle of insert actors that wait for rows or for the mutex, for every
\* number of batches, blocks, bodies, entities and failures.
THEOREM NoCircleOfWaits == Spec => []WaitsForward
<1>1. Inv => WaitsForward
  <2> SUFFICES ASSUME Inv, NEW b \in Batch, NEW c \in Batch, b # c, Waits(b, c)
               PROVE  Part(pc[c]) > Part(pc[b])
    BY DEF WaitsForward
  <2>1. CASE pc[b] = "insert_bodies" /\ todo[b] \cap written[c] # {}
    <3>1. pc[c] \notin First
      BY <2>1 DEF Inv, LockInv
    <3> QED
      BY <2>1, <3>1 DEF Part, First
  <2>2. CASE pc[b] = "lock_states" /\ states_mutex = c
    BY <2>2 DEF Inv, LockInv, Part, First, Second
  <2>3. CASE pc[b] = "upsert" /\ (Upserts(b) \ upserted[b]) \cap upserted[c] # {}
    BY <2>3 DEF Inv, LockInv
  <2> QED
    BY <2>1, <2>2, <2>3 DEF Waits
<1> QED
  BY <1>1, InvHolds, PTL

\* The tables of newest versions are right for every order of commits, repeated
\* commits included (setConflictDoUpdate with the condition on the lt).
THEOREM NewestVersions == Spec => []LatestIsNewest
<1>1. Inv => LatestIsNewest
  BY DEF Inv
<1> QED
  BY <1>1, InvHolds, PTL

\* A body of a stored message is stored, marked as being inserted, or still to
\* be inserted by an actor (insert_messages and the retries of alarm).
THEOREM NoBodyForgotten == Spec => []BodiesAccounted
<1>1. Inv => BodiesAccounted
  <2> SUFFICES ASSUME Inv, NEW m \in BodiesOf(stored), m \notin contents,
                      m \notin msg_bodies_in_progress
               PROVE  \E b \in Batch : pc[b] # "done" /\ m \in BodiesOf(Tasks[b])
    BY DEF BodiesAccounted
  <2>1. m \in Body
    BY BodiesOfType DEF Inv, TypeOK
  <2>2. PICK b \in Batch : Keeps(b, m)
    BY <2>1 DEF Inv, BodyInv
  <2>3. pc[b] # "done"
    BY <2>2 DEF Inv, BodyInv, Keeps, BeforeLock
  <2> QED
    BY <2>2, <2>3 DEF Keeps
<1> QED
  BY <1>1, InvHolds, PTL
=============================================================================
