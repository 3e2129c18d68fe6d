---------------------- MODULE IndexPipelineBoundSteps ----------------------
(***************************************************************************)
(* What the actions of IndexPipeline do to BoundInv, the inductive         *)
(* invariant behind the bound on the insert queue: all but HandleMessage,  *)
(* which is in module IndexPipelineBound.                                  *)
(***************************************************************************)
EXTENDS IndexPipelineTypes

----------------------------------------------------------------------------
(* The bound on the insert queue *)

\* Positions of announcements behind position i in a mailbox mb.
Announced(mb, i) == {j \in i + 1 .. Len(mb) : mb[j].type = "queued"}

LEMMA MessageFields ==
  ASSUME NEW mb \in Seq(Message)
  PROVE  /\ Len(mb) \in Nat
         /\ \A i \in 1 .. Len(mb) : mb[i].seqno \in Seqno /\ mb[i].status.mc_blocks \in Int
<1>1. \A i \in 1 .. Len(mb) : mb[i] \in Message
  BY ElementOfSeq
<1>2. \A m \in Message : m.seqno \in Seqno /\ m.status.mc_blocks \in Int
  BY DEF Message, QueueState
<1> QED
  BY <1>1, <1>2, LenProperties

LEMMA AnnouncedFinite ==
  ASSUME NEW mb \in Seq(Message), NEW i \in Nat
  PROVE  IsFiniteSet(Announced(mb, i)) /\ Cardinality(Announced(mb, i)) \in Nat
<1>1. Len(mb) \in Nat
  BY LenProperties
<1>2. IsFiniteSet(i + 1 .. Len(mb))
  BY <1>1, FS_Interval
<1>3. IsFiniteSet(Announced(mb, i))
  BY <1>2, FS_Subset DEF Announced
<1> QED
  BY <1>3, FS_CardinalityType

\* A message put at the end of the mailbox.
LEMMA AnnouncedAppend ==
  ASSUME NEW mb \in Seq(Message), NEW m \in Message, NEW i \in 0 .. Len(mb)
  PROVE  /\ m.type = "queued" =>
              /\ Announced(Append(mb, m), i) = Announced(mb, i) \cup {Len(mb) + 1}
              /\ Cardinality(Announced(Append(mb, m), i)) = Cardinality(Announced(mb, i)) + 1
         /\ m.type # "queued" => Announced(Append(mb, m), i) = Announced(mb, i)
<1>1. /\ Len(mb) \in Nat /\ Len(Append(mb, m)) = Len(mb) + 1
      /\ \A j \in 1 .. Len(mb) : Append(mb, m)[j] = mb[j]
      /\ Append(mb, m)[Len(mb) + 1] = m
  BY Appended
<1>2. \A j \in i + 1 .. Len(mb) + 1 :
        j \in Announced(Append(mb, m), i)
          <=> j \in Announced(mb, i) \/ (j = Len(mb) + 1 /\ m.type = "queued")
  BY <1>1 DEF Announced
<1>3. /\ Announced(Append(mb, m), i) \subseteq i + 1 .. Len(mb) + 1
      /\ Announced(mb, i) \subseteq i + 1 .. Len(mb)
  BY <1>1 DEF Announced
<1> DEFINE A == Announced(mb, i)
           B == Announced(Append(mb, m), i)
           k == Len(mb) + 1
<1>4. k \in i + 1 .. k /\ \A j \in i + 1 .. Len(mb) : j \in i + 1 .. k /\ j # k
  BY <1>1
<1>5. IsFiniteSet(A)
  BY AnnouncedFinite
<1>6. \A j : j \in B <=> j \in A \/ (j = k /\ m.type = "queued")
  BY <1>2, <1>3, <1>4
<1>7. k \notin A
  BY <1>3, <1>4
<1> HIDE DEF A, B, k
<1>8. m.type # "queued" => B = A
  BY <1>6
<1>9. m.type = "queued" => B = A \cup {k}
  BY <1>6
<1>10. Cardinality(A \cup {k}) = Cardinality(A) + 1
  BY <1>5, <1>7, FS_AddElement
<1> QED
  BY <1>8, <1>9, <1>10 DEF A, B, k

\* The first message taken out of the mailbox.
LEMMA AnnouncedTail ==
  ASSUME NEW mb \in Seq(Message), mb # << >>, NEW i \in Nat
  PROVE  /\ \A j \in Nat : j \in Announced(Tail(mb), i) <=> j + 1 \in Announced(mb, i + 1)
         /\ Cardinality(Announced(Tail(mb), i)) = Cardinality(Announced(mb, i + 1))
<1>1. /\ Len(mb) \in Nat /\ Len(Tail(mb)) = Len(mb) - 1
      /\ \A j \in 1 .. Len(mb) - 1 : Tail(mb)[j] = mb[j + 1]
  BY HeadTailProperties, LenProperties
<1>2. \A j \in Nat : j \in Announced(Tail(mb), i) <=> j + 1 \in Announced(mb, i + 1)
  BY <1>1 DEF Announced
<1> DEFINE S == Announced(Tail(mb), i)
           T == Announced(mb, i + 1)
           f == [j \in S |-> j + 1]
<1>3. S \subseteq Nat /\ T \subseteq Nat /\ \A k \in T : k - 1 \in Nat
  BY <1>1 DEF Announced
<1>4. f \in Bijection(S, T)
  <2>1. f \in [S -> T]
    BY <1>2, <1>3
  <2>2. \A a, b \in S : f[a] = f[b] => a = b
    BY <1>3
  <2>3. \A t \in T : \E a \in S : f[a] = t
    <3> SUFFICES ASSUME NEW t \in T PROVE \E a \in S : f[a] = t
      OBVIOUS
    <3>1. t - 1 \in Nat /\ (t - 1) + 1 = t
      BY <1>3
    <3>2. t - 1 \in S
      BY <1>2, <3>1
    <3> QED
      BY <3>1, <3>2
  <2> QED
    BY <2>1, <2>2, <2>3 DEF Bijection, Injection, IsInjective, Surjection
<1>5. IsFiniteSet(S)
  BY HeadTailProperties, AnnouncedFinite
<1> QED
  BY <1>2, <1>4, <1>5, FS_Bijection DEF ExistsBijection

\* A block in stage "queued" has one announcement, so the blocks in work are
\* the processing set less the announcements.
LEMMA InWorkCount ==
  ASSUME NEW mb \in Seq(Message), NEW st \in [Seqno -> Stage], NEW proc \in SUBSET Seqno,
         \A s \in Seqno : s \in proc <=> st[s] # "idle",
         \A i \in Announced(mb, 0) :
            /\ st[mb[i].seqno] = "queued"
            /\ \A j \in Announced(mb, 0) : mb[i].seqno = mb[j].seqno => i = j,
         \A s \in Seqno : st[s] = "queued" => \E i \in Announced(mb, 0) : mb[i].seqno = s
  PROVE  Cardinality({s \in proc : st[s] # "queued"})
           = Cardinality(proc) - Cardinality(Announced(mb, 0))
<1> DEFINE S == Announced(mb, 0)
           T == {s \in proc : st[s] = "queued"}
           W == {s \in proc : st[s] # "queued"}
           f == [i \in S |-> mb[i].seqno]
<1>1. \A i \in S : mb[i].seqno \in Seqno
  <2>1. \A i \in 1 .. Len(mb) : mb[i] \in Message
    BY ElementOfSeq
  <2> QED
    BY <2>1 DEF Announced, Message
<1>2. f \in Bijection(S, T)
  <2>1. f \in [S -> T]
    BY <1>1
  <2>2. \A a, b \in S : f[a] = f[b] => a = b
    OBVIOUS
  <2>3. \A t \in T : \E a \in S : f[a] = t
    OBVIOUS
  <2> QED
    BY <2>1, <2>2, <2>3 DEF Bijection, Injection, IsInjective, Surjection
<1>3. IsFiniteSet(S) /\ Cardinality(S) \in Nat
  BY AnnouncedFinite
<1>4. Cardinality(T) = Cardinality(S)
  BY <1>2, <1>3, FS_Bijection DEF ExistsBijection
<1>5. /\ IsFiniteSet(T) /\ IsFiniteSet(W) /\ IsFiniteSet(proc)
      /\ Cardinality(W) \in Nat /\ Cardinality(proc) \in Nat
  <2>1. T \in SUBSET Seqno /\ W \in SUBSET Seqno
    OBVIOUS
  <2> QED
    BY <2>1, FiniteSeqnos
<1>6. proc = W \cup T /\ W \cap T = {}
  OBVIOUS
<1> HIDE DEF S, T, W, f
<1>7. Cardinality(W \cup T) = Cardinality(W) + Cardinality(T) - Cardinality(W \cap T)
  BY <1>5, FS_Union
<1>8. Cardinality(W \cap T) = 0
  BY <1>6, FS_EmptySet
<1>9. Cardinality(W) = Cardinality(proc) - Cardinality(S)
  BY <1>3, <1>4, <1>5, <1>6, <1>7, <1>8
<1> QED
  BY <1>9 DEF W, S

\* QueuedAfter is Announced of the mailbox, now and after a step.
LEMMA QueuedAfterIs ==
  ASSUME NEW i
  PROVE  /\ QueuedAfter(i) = Announced(mailbox, i)
         /\ QueuedAfter(i)' = Announced(mailbox', i)
  BY DEF QueuedAfter, Announced

\* The messages that announce a block name one.
LEMMA QueuedSeqnos ==
  ASSUME TypeOK
  PROVE  \A i \in QueuedAfter(0) : i \in 1 .. Len(mailbox) /\ mailbox[i].seqno \in Seqno
<1>1. mailbox \in Seq(Message)
  BY DEF TypeOK
<1>2. \A i \in 1 .. Len(mailbox) : mailbox[i].seqno \in Seqno
  BY <1>1, MessageFields
<1>3. \A i \in QueuedAfter(0) : i \in 1 .. Len(mailbox)
  BY DEF QueuedAfter
<1> QED
  BY <1>2, <1>3

\* An empty process satisfies the invariant.
LEMMA BoundEmpty ==
  ASSUME queued_seqnos = << >>, processing_seqnos = {}, last_known_seqno = 0,
         insert_queue = << >>, queue_state = ZeroState,
         stage = [s \in Seqno |-> "idle"], mailbox = << >>, mc_seqno \in Nat
  PROVE  BoundInv
<1>1. Len(queued_seqnos) = 0 /\ Len(insert_queue) = 0 /\ Len(mailbox) = 0
  BY EmptySeq
<1>2. QueuedAfter(0) = {}
  BY <1>1 DEF QueuedAfter
<1>3. InWork = {} /\ Cardinality({}) = 0
  BY FS_EmptySet DEF InWork
<1>4. SchedulerInv
  BY <1>1, <1>3, SchedulerAssumption DEF SchedulerInv
<1>5. MailboxInv
  BY <1>2 DEF MailboxInv
<1>6. ReportInv
  BY <1>1 DEF ReportInv, ZeroState
<1>7. LoadInv
  BY <1>1, <1>3, SchedulerAssumption, PipelineAssumption DEF LoadInv
<1> QED
  BY <1>4, <1>5, <1>6, <1>7 DEF BoundInv

LEMMA BoundInit == Init => BoundInv
  BY BoundEmpty DEF Init, schedInit, imInit

LEMMA BoundCrash == TypeOK /\ Crash => BoundInv'
<1> SUFFICES ASSUME TypeOK, Crash PROVE BoundInv'
  OBVIOUS
<1>1. Len(<< >>) = 0
  BY EmptySeq
<1>2. QueuedAfter(0)' = {}
  BY <1>1 DEF Crash, QueuedAfter
<1>3. InWork' = {} /\ Cardinality({}) = 0
  BY FS_EmptySet DEF InWork, Crash
<1>4. SchedulerInv'
  BY <1>1, <1>3, SchedulerAssumption DEF SchedulerInv, Crash, TypeOK
<1>5. MailboxInv'
  BY <1>2 DEF MailboxInv, Crash
<1>6. ReportInv'
  BY <1>1 DEF ReportInv, ZeroState, Crash
<1>7. LoadInv'
  BY <1>1, <1>3, SchedulerAssumption, PipelineAssumption DEF LoadInv, Crash
<1> QED
  BY <1>4, <1>5, <1>6, <1>7 DEF BoundInv

\* A step that only moves blocks between stages before "queued".
LEMMA BoundStages ==
  ASSUME TypeOK, TypeOK', BoundInv,
         UNCHANGED <<queued_seqnos, processing_seqnos, last_known_seqno, insert_queue,
                     queue_state, mailbox>>,
         mc_seqno <= mc_seqno',
         \A s \in Seqno : /\ stage'[s] = "idle" <=> stage[s] = "idle"
                          /\ stage'[s] = "queued" <=> stage[s] = "queued"
  PROVE  BoundInv'
<1>1. \A i : QueuedAfter(i)' = QueuedAfter(i)
  BY DEF QueuedAfter
<1>2. \A i \in QueuedAfter(0) : mailbox[i].seqno \in Seqno
  BY QueuedSeqnos
<1>3. \A i \in 1 .. Len(queued_seqnos) : queued_seqnos[i] \in Seqno
  BY ElementOfSeq DEF TypeOK
<1>4. InWork' = InWork
  BY DEF InWork, TypeOK
<1>5. SchedulerInv'
  <2>1. last_known_seqno' <= mc_seqno'
    BY SeqnoType, PipelineAssumption DEF BoundInv, SchedulerInv, TypeOK
  <2> QED
    BY <1>3, <2>1 DEF BoundInv, SchedulerInv
<1>6. MailboxInv'
  BY <1>1, <1>2 DEF BoundInv, MailboxInv
<1>7. ReportInv' /\ LoadInv'
  BY <1>1, <1>4 DEF BoundInv, ReportInv, LoadInv
<1> QED
  BY <1>5, <1>6, <1>7 DEF BoundInv

\* A step that only shortens the insert queue.
LEMMA BoundShorter ==
  ASSUME TypeOK, TypeOK', BoundInv,
         UNCHANGED <<queued_seqnos, processing_seqnos, last_known_seqno, stage, mailbox, mc_seqno>>,
         NEW n \in Nat,
         Len(insert_queue') = Len(insert_queue) - n,
         queue_state'.mc_blocks = queue_state.mc_blocks - n
  PROVE  BoundInv'
<1>0. Len(insert_queue) \in Nat /\ Len(insert_queue') \in Nat
  BY LenProperties DEF TypeOK
<1>1. \A i : QueuedAfter(i)' = QueuedAfter(i)
  BY DEF QueuedAfter
<1>2. InWork' = InWork
  BY DEF InWork
<1>3. SchedulerInv' /\ MailboxInv'
  <2>1. SchedulerInv /\ MailboxInv
    BY DEF BoundInv
  <2>2. SchedulerInv'
    BY <2>1 DEF SchedulerInv
  <2>3. MailboxInv'
    BY <1>1, <2>1 DEF MailboxInv
  <2> QED
    BY <2>2, <2>3
<1>4. ReportInv'
  <2>1. \A i \in 1 .. Len(mailbox) : /\ mailbox[i].status.mc_blocks \in Int
                                      /\ Cardinality(QueuedAfter(i)) \in Nat
    <3>1. \A i \in 1 .. Len(mailbox) : mailbox[i].status.mc_blocks \in Int
      BY MessageFields DEF TypeOK
    <3>2. ASSUME NEW i \in 1 .. Len(mailbox) PROVE Cardinality(QueuedAfter(i)) \in Nat
      <4>1. mailbox \in Seq(Message) /\ i \in Nat
        BY DEF TypeOK
      <4>2. Cardinality(Announced(mailbox, i)) \in Nat
        BY <4>1, AnnouncedFinite
      <4> QED
        BY <4>2, QueuedAfterIs
    <3> QED
      BY <3>1, <3>2
  <2> QED
    BY <1>0, <1>1, <2>1 DEF BoundInv, ReportInv
<1>5. LoadInv'
  <2>1. Cardinality(InWork) \in Nat
    <3>1. InWork \in SUBSET Seqno
      BY DEF InWork, TypeOK
    <3> QED
      BY <3>1, FiniteSeqnos
  <2> QED
    BY <1>0, <1>2, <2>1, PipelineAssumption, SchedulerAssumption DEF BoundInv, LoadInv
<1> QED
  BY <1>3, <1>4, <1>5 DEF BoundInv

LEMMA BoundQueueState == TypeOK /\ TypeOK' /\ BoundInv /\ get_insert_queue_state => BoundInv'
<1> SUFFICES ASSUME TypeOK, TypeOK', BoundInv, get_insert_queue_state PROVE BoundInv'
  OBVIOUS
<1> DEFINE m == [type |-> "state", seqno |-> 0, status |-> queue_state]
<1>1. m \in Message /\ m.type = "state" /\ m.status = queue_state
  <2>1. 0 \in Seqno
    BY SchedulerAssumption DEF Seqno
  <2>2. queue_state \in QueueState
    BY DEF TypeOK
  <2> QED
    BY <2>1, <2>2 DEF Message
<1>2. mailbox' = Append(mailbox, m) /\ mailbox \in Seq(Message)
  BY DEF get_insert_queue_state, TypeOK
<1> HIDE DEF m
<1>3. /\ Len(mailbox) \in Nat /\ Len(mailbox') = Len(mailbox) + 1
      /\ \A j \in 1 .. Len(mailbox) : mailbox'[j] = mailbox[j]
      /\ mailbox'[Len(mailbox) + 1] = m
  BY <1>1, <1>2, AppendProperties, LenProperties
<1>4. \A i \in 0 .. Len(mailbox) : QueuedAfter(i)' = QueuedAfter(i)
  BY <1>1, <1>2, AnnouncedAppend, QueuedAfterIs
<1>5. UNCHANGED <<queued_seqnos, processing_seqnos, last_known_seqno, stage, insert_queue,
                  queue_state, mc_seqno>>
  BY DEF get_insert_queue_state, schedVars, imVars
<1>6. SchedulerInv' /\ LoadInv'
  BY <1>5 DEF BoundInv, SchedulerInv, LoadInv, InWork
<1>7. MailboxInv'
  <2>1. QueuedAfter(0)' = QueuedAfter(0) /\ QueuedAfter(0) \subseteq 1 .. Len(mailbox)
    BY <1>3, <1>4 DEF QueuedAfter
  <2> QED
    BY <1>3, <1>5, <2>1 DEF BoundInv, MailboxInv
<1>8. ReportInv'
  <2>1. queue_state'.mc_blocks = Len(insert_queue')
    BY <1>5 DEF BoundInv, ReportInv
  <2>2. ASSUME NEW i \in 1 .. Len(mailbox')
        PROVE  Len(insert_queue') <= mailbox'[i].status.mc_blocks + Cardinality(QueuedAfter(i)')
    <3>1. CASE i \in 1 .. Len(mailbox)
      BY <1>3, <1>4, <1>5, <3>1 DEF BoundInv, ReportInv
    <3>2. CASE i = Len(mailbox) + 1
      <4>1. Cardinality(QueuedAfter(i)') \in Nat
        <5>1. i \in Nat /\ mailbox' \in Seq(Message)
          BY <1>3 DEF TypeOK
        <5> QED
          BY <5>1, AnnouncedFinite, QueuedAfterIs
      <4>2. Len(insert_queue) \in Nat /\ queue_state.mc_blocks = Len(insert_queue)
        BY LenProperties DEF BoundInv, ReportInv, TypeOK
      <4> QED
        BY <1>1, <1>3, <1>5, <3>2, <4>1, <4>2
    <3> QED
      BY <1>3, <3>1, <3>2
  <2> QED
    BY <2>1, <2>2 DEF ReportInv
<1> QED
  BY <1>6, <1>7, <1>8 DEF BoundInv

LEMMA BoundLastKnownSeqno == TypeOK /\ TypeOK' /\ BoundInv /\ LastKnownSeqno => BoundInv'
<1> SUFFICES ASSUME TypeOK, TypeOK', BoundInv, LastKnownSeqno PROVE BoundInv'
  OBVIOUS
<1>1. UNCHANGED <<processing_seqnos, stage, insert_queue, queue_state, mailbox, mc_seqno>>
  BY DEF LastKnownSeqno, imVars
<1>2. MailboxInv' /\ ReportInv' /\ LoadInv'
  <2>1. MailboxInv /\ ReportInv /\ LoadInv
    BY DEF BoundInv
  <2>2. \A i : QueuedAfter(i)' = QueuedAfter(i)
    BY <1>1 DEF QueuedAfter
  <2>3. InWork' = InWork
    BY <1>1 DEF InWork
  <2>4. MailboxInv'
    BY <1>1, <2>1, <2>2 DEF MailboxInv
  <2>5. ReportInv'
    BY <1>1, <2>1, <2>2 DEF ReportInv
  <2>6. LoadInv'
    BY <1>1, <2>1, <2>3 DEF LoadInv
  <2> QED
    BY <2>4, <2>5, <2>6
<1>3. SchedulerInv'
  <2>1. CASE UNCHANGED <<queued_seqnos, last_known_seqno>>
    BY <1>1, <2>1 DEF BoundInv, SchedulerInv
  <2>2. CASE \E new \in Seq(Seqno) :
              /\ queued_seqnos' = queued_seqnos \o new
              /\ last_known_seqno' = mc_seqno
              /\ \A i \in 1 .. Len(new) :
                   /\ last_known_seqno < new[i] /\ new[i] <= mc_seqno
                   /\ \A j \in 1 .. Len(new) : new[i] = new[j] => i = j
    <3>1. PICK new \in Seq(Seqno) :
              /\ queued_seqnos' = queued_seqnos \o new
              /\ last_known_seqno' = mc_seqno
              /\ \A i \in 1 .. Len(new) :
                   /\ last_known_seqno < new[i] /\ new[i] <= mc_seqno
                   /\ \A j \in 1 .. Len(new) : new[i] = new[j] => i = j
      BY <2>2
    <3> DEFINE k == Len(queued_seqnos)
    <3>2. /\ Len(new) \in Nat /\ k \in Nat /\ Len(queued_seqnos') = k + Len(new)
          /\ \A i \in 1 .. k + Len(new) :
               queued_seqnos'[i] = IF i <= k THEN queued_seqnos[i] ELSE new[i - k]
          /\ \A i \in 1 .. Len(new) : new[i] \in Seqno
          /\ \A i \in 1 .. k : queued_seqnos[i] \in Seqno
      <4>1. queued_seqnos \in Seq(Seqno)
        BY DEF TypeOK
      <4>2. Len(new) \in Nat /\ k \in Nat
        BY <4>1, LenProperties
      <4>3. /\ Len(queued_seqnos') = k + Len(new)
            /\ \A i \in 1 .. k + Len(new) :
                 queued_seqnos'[i] = IF i <= k THEN queued_seqnos[i] ELSE new[i - k]
        BY <3>1, <4>1, ConcatProperties
      <4>4. /\ \A i \in 1 .. Len(new) : new[i] \in Seqno
            /\ \A i \in 1 .. k : queued_seqnos[i] \in Seqno
        BY <4>1, ElementOfSeq
      <4> QED
        BY <4>2, <4>3, <4>4
    <3>3. /\ last_known_seqno \in Nat /\ mc_seqno \in Nat /\ last_known_seqno <= mc_seqno
          /\ Seqno \subseteq Nat
      BY SeqnoType, PipelineAssumption DEF BoundInv, SchedulerInv, TypeOK
    <3>4. \A i \in 1 .. Len(new) : stage[new[i]] = "idle" /\ 0 < new[i]
      <4> SUFFICES ASSUME NEW i \in 1 .. Len(new) PROVE stage[new[i]] = "idle" /\ 0 < new[i]
        OBVIOUS
      <4>1. new[i] \in Nat /\ new[i] \in Seqno /\ last_known_seqno < new[i]
        BY <3>1, <3>2, <3>3
      <4>2. new[i] \notin processing_seqnos
        BY <3>3, <4>1 DEF BoundInv, SchedulerInv
      <4> QED
        BY <3>3, <4>1, <4>2 DEF BoundInv, SchedulerInv
    <3>5. \A i \in 1 .. k : /\ 0 < queued_seqnos[i] /\ queued_seqnos[i] <= last_known_seqno
                            /\ stage[queued_seqnos[i]] = "idle"
                            /\ \A j \in 1 .. k : queued_seqnos[i] = queued_seqnos[j] => i = j
      BY DEF BoundInv, SchedulerInv
    <3>6. \A s \in processing_seqnos : 0 < s /\ s <= mc_seqno
      BY <3>3 DEF BoundInv, SchedulerInv, TypeOK
    <3>9. k \in Nat /\ Len(new) \in Nat
      BY <3>2
    <3> HIDE DEF k
    <3>7. \A i \in 1 .. Len(queued_seqnos') :
            /\ 0 < queued_seqnos'[i] /\ queued_seqnos'[i] <= mc_seqno
            /\ stage[queued_seqnos'[i]] = "idle"
      <4> SUFFICES ASSUME NEW i \in 1 .. k + Len(new)
                   PROVE  /\ 0 < queued_seqnos'[i] /\ queued_seqnos'[i] <= mc_seqno
                          /\ stage[queued_seqnos'[i]] = "idle"
        BY <3>2
      <4>1. CASE i <= k
        <5>1. i \in 1 .. k
          BY <4>1, <3>9
        <5>2. queued_seqnos'[i] = queued_seqnos[i] /\ queued_seqnos[i] \in Nat
          BY <3>2, <3>3, <4>1, <5>1
        <5> QED
          BY <3>3, <3>5, <5>1, <5>2
      <4>2. CASE ~ (i <= k)
        <5>1. i - k \in 1 .. Len(new)
          BY <3>2, <4>2
        <5> QED
          BY <3>1, <3>2, <3>4, <4>2, <5>1
      <4> QED
        BY <4>1, <4>2
    <3>8. \A i, j \in 1 .. Len(queued_seqnos') : queued_seqnos'[i] = queued_seqnos'[j] => i = j
      <4> SUFFICES ASSUME NEW i \in 1 .. k + Len(new), NEW j \in 1 .. k + Len(new),
                          queued_seqnos'[i] = queued_seqnos'[j]
                   PROVE  i = j
        BY <3>2
      <4>1. CASE i <= k /\ j <= k
        BY <3>2, <3>5, <4>1
      <4>2. CASE i <= k /\ ~ (j <= k)
        <5>1. j - k \in 1 .. Len(new)
          BY <3>2, <4>2
        <5>2. /\ queued_seqnos'[j] = new[j - k] /\ queued_seqnos'[i] = queued_seqnos[i]
              /\ new[j - k] \in Nat /\ queued_seqnos[i] \in Nat
          BY <3>2, <3>3, <4>2, <5>1
        <5>3. new[j - k] > last_known_seqno /\ queued_seqnos[i] <= last_known_seqno
          BY <3>1, <3>2, <3>5, <4>2, <5>1
        <5> QED
          BY <3>3, <5>2, <5>3
      <4>3. CASE ~ (i <= k) /\ j <= k
        <5>1. i - k \in 1 .. Len(new)
          BY <3>2, <4>3
        <5>2. /\ queued_seqnos'[i] = new[i - k] /\ queued_seqnos'[j] = queued_seqnos[j]
              /\ new[i - k] \in Nat /\ queued_seqnos[j] \in Nat
          BY <3>2, <3>3, <4>3, <5>1
        <5>3. new[i - k] > last_known_seqno /\ queued_seqnos[j] <= last_known_seqno
          BY <3>1, <3>2, <3>5, <4>3, <5>1
        <5>4. new[i - k] # queued_seqnos[j]
          BY <3>3, <5>2, <5>3
        <5> QED
          BY <5>2, <5>4
      <4>4. CASE ~ (i <= k) /\ ~ (j <= k)
        <5>1. i - k \in 1 .. Len(new) /\ j - k \in 1 .. Len(new)
          BY <3>2, <4>4
        <5>2. i - k = j - k
          BY <3>1, <3>2, <4>4, <5>1
        <5> QED
          BY <3>9, <5>2
      <4> QED
        BY <4>1, <4>2, <4>3, <4>4
    <3> QED
      BY <1>1, <3>1, <3>3, <3>6, <3>7, <3>8 DEF BoundInv, SchedulerInv
  <2> QED
    BY <2>1, <2>2, SeqnosLearnt
<1> QED
  BY <1>2, <1>3 DEF BoundInv

LEMMA BoundActionsProcessed ==
  ASSUME TypeOK, TypeOK', BoundInv, NEW s \in Seqno, seqno_actions_processed(s)
  PROVE  BoundInv'
<1> DEFINE m == [type |-> "queued", seqno |-> s, status |-> queue_state']
           L == Len(mailbox)
<1>1. m \in Message /\ m.type = "queued" /\ m.status = queue_state' /\ m.seqno = s
  BY DEF TypeOK, Message
<1>2. mailbox' = Append(mailbox, m) /\ mailbox \in Seq(Message)
  BY DEF seqno_actions_processed, TypeOK
<1> HIDE DEF m
<1>3. /\ L \in Nat /\ Len(mailbox') = L + 1
      /\ \A j \in 1 .. L : mailbox'[j] = mailbox[j]
      /\ mailbox'[L + 1] = m
  <2>1. m \in Message /\ mailbox \in Seq(Message) /\ mailbox' = Append(mailbox, m)
    BY <1>1, <1>2
  <2>2. L \in Nat
    BY <2>1, LenProperties
  <2> QED
    BY <2>1, <2>2, AppendProperties
<1>4. \A i \in 0 .. L : /\ QueuedAfter(i)' = QueuedAfter(i) \cup {L + 1}
                        /\ Cardinality(QueuedAfter(i)') = Cardinality(QueuedAfter(i)) + 1
  BY <1>1, <1>2, AnnouncedAppend, QueuedAfterIs
<1>5. /\ UNCHANGED <<queued_seqnos, processing_seqnos, last_known_seqno, mc_seqno>>
      /\ stage[s] = "actions" /\ stage' = [stage EXCEPT ![s] = "queued"]
      /\ stage \in [Seqno -> Stage]
  BY DEF seqno_actions_processed, Moved, schedVars, TypeOK
<1>6. /\ Len(insert_queue) \in Nat /\ Len(insert_queue') = Len(insert_queue) + 1
      /\ queue_state'.mc_blocks = queue_state.mc_blocks + 1
  <2>1. insert_queue' = Append(insert_queue, s) /\ insert_queue \in Seq(Seqno)
    BY DEF seqno_actions_processed, insert, TypeOK
  <2>2. queue_state'.mc_blocks = queue_state.mc_blocks + 1
    BY DEF seqno_actions_processed, insert, Plus, TaskState
  <2> QED
    BY <2>1, <2>2, AppendProperties, LenProperties
<1>7. SchedulerInv'
  <2>1. \A i \in 1 .. Len(queued_seqnos) : queued_seqnos[i] \in Seqno
    BY ElementOfSeq DEF TypeOK
  <2> QED
    BY <1>5, <2>1 DEF BoundInv, SchedulerInv
<1>8. MailboxInv'
  <2>1. \A i \in QueuedAfter(0) : /\ i \in 1 .. L /\ mailbox'[i] = mailbox[i]
                                  /\ mailbox[i].seqno \in Seqno
                                  /\ stage[mailbox[i].seqno] = "queued"
    <3>1. MailboxInv
      BY DEF BoundInv
    <3> QED
      BY <1>3, <3>1, QueuedSeqnos DEF MailboxInv
  <2>2. QueuedAfter(0)' = QueuedAfter(0) \cup {L + 1} /\ mailbox'[L + 1].seqno = s
    BY <1>1, <1>3, <1>4
  <2>3. \A i \in QueuedAfter(0) : mailbox[i].seqno # s
    BY <1>5, <2>1
  <2>4. \A i \in QueuedAfter(0)' : stage'[mailbox'[i].seqno] = "queued"
    BY <1>5, <2>1, <2>2
  <2>5. \A i, j \in QueuedAfter(0)' : mailbox'[i].seqno = mailbox'[j].seqno => i = j
    BY <2>1, <2>2, <2>3 DEF BoundInv, MailboxInv
  <2>6. \A t \in Seqno : stage'[t] = "queued"
                           => \E i \in QueuedAfter(0)' : mailbox'[i].seqno = t
    BY <1>5, <2>1, <2>2 DEF BoundInv, MailboxInv
  <2> QED
    BY <2>4, <2>5, <2>6 DEF MailboxInv
<1>9. ReportInv'
  <2>1. queue_state.mc_blocks = Len(insert_queue)
    BY DEF BoundInv, ReportInv
  <2>2. ASSUME NEW i \in 1 .. Len(mailbox')
        PROVE  Len(insert_queue') <= mailbox'[i].status.mc_blocks + Cardinality(QueuedAfter(i)')
    <3>1. CASE i \in 1 .. L
      <4>1. Len(insert_queue) <= mailbox[i].status.mc_blocks + Cardinality(QueuedAfter(i))
        BY <3>1 DEF BoundInv, ReportInv
      <4>2. mailbox[i].status.mc_blocks \in Int /\ Cardinality(QueuedAfter(i)) \in Nat
        <5>1. mailbox \in Seq(Message)
          BY <1>2
        <5>2. mailbox[i].status.mc_blocks \in Int
          BY <3>1, <5>1, MessageFields
        <5>3. i \in Nat
          BY <1>3, <3>1
        <5>4. Cardinality(Announced(mailbox, i)) \in Nat
          BY <5>1, <5>3, AnnouncedFinite
        <5>5. QueuedAfter(i) = Announced(mailbox, i)
          BY QueuedAfterIs
        <5> QED
          BY <5>2, <5>4, <5>5
      <4>3. Cardinality(QueuedAfter(i)') = Cardinality(QueuedAfter(i)) + 1
        BY <1>3, <1>4, <3>1
      <4>4. mailbox'[i] = mailbox[i]
        BY <1>3, <3>1
      <4> QED
        BY <1>6, <4>1, <4>2, <4>3, <4>4
    <3>2. CASE i = L + 1
      <4>1. Cardinality(QueuedAfter(i)') \in Nat
        <5>1. i \in Nat /\ mailbox' \in Seq(Message)
          BY <1>3 DEF TypeOK
        <5> QED
          BY <5>1, AnnouncedFinite, QueuedAfterIs
      <4>2. mailbox'[i].status.mc_blocks = queue_state'.mc_blocks
        BY <1>1, <1>3, <3>2
      <4>3. queue_state'.mc_blocks = Len(insert_queue')
        BY <1>6, <2>1
      <4> QED
        BY <1>6, <4>1, <4>2, <4>3
    <3> QED
      BY <1>3, <3>1, <3>2
  <2> QED
    BY <1>6, <2>1, <2>2 DEF ReportInv
<1>10. LoadInv'
  <2>1. s \in InWork /\ InWork \in SUBSET Seqno
    BY <1>5 DEF InWork, BoundInv, SchedulerInv, TypeOK
  <2>2. InWork' = InWork \ {s}
    BY <1>5 DEF InWork, TypeOK
  <2>3. IsFiniteSet(InWork) /\ Cardinality(InWork) \in Nat
    BY <2>1, FiniteSeqnos
  <2>4. Cardinality(InWork') = Cardinality(InWork) - 1
    BY <2>1, <2>2, <2>3, FS_RemoveElement
  <2> QED
    BY <1>6, <2>3, <2>4 DEF BoundInv, LoadInv
<1> QED
  BY <1>7, <1>8, <1>9, <1>10 DEF BoundInv

LEMMA BoundWorkerError ==
  ASSUME TypeOK, TypeOK', BoundInv, NEW s \in Seqno, WorkerError(s)
  PROVE  BoundInv'
<1> DEFINE k == Len(queued_seqnos)
<1>1. /\ UNCHANGED <<last_known_seqno, insert_queue, queue_state, mailbox, mc_seqno>>
      /\ processing_seqnos' = processing_seqnos \ {s}
      /\ stage' = [stage EXCEPT ![s] = "idle"] /\ stage \in [Seqno -> Stage]
      /\ stage[s] # "idle" /\ stage[s] # "queued"
  BY PipelineAssumption DEF WorkerError, reschedule_seqno, imVars, TypeOK
<1>2. /\ k \in Nat /\ Len(queued_seqnos') = k + 1
      /\ \A i \in 1 .. k : queued_seqnos'[i] = queued_seqnos[i] /\ queued_seqnos[i] \in Seqno
      /\ queued_seqnos'[k + 1] = s
  <2>1. queued_seqnos' = Append(queued_seqnos, s) /\ queued_seqnos \in Seq(Seqno)
    BY DEF WorkerError, reschedule_seqno, TypeOK
  <2> QED
    BY <2>1, Appended
<1>3. s \in processing_seqnos /\ 0 < s /\ s <= last_known_seqno
  BY <1>1 DEF BoundInv, SchedulerInv
<1>4. \A i \in 1 .. k : queued_seqnos[i] # s
  BY <1>1 DEF BoundInv, SchedulerInv
<1>5. InWork' = InWork \ {s}
  BY <1>1 DEF InWork, TypeOK
<1>6. SchedulerInv'
  <2>1. Cardinality(processing_seqnos') <= MaxActiveTasks
    <3>1. /\ IsFiniteSet(processing_seqnos) /\ Cardinality(processing_seqnos) \in Nat
          /\ Cardinality(processing_seqnos) <= MaxActiveTasks
      BY FiniteSeqnos DEF TypeOK, BoundInv, SchedulerInv
    <3>2. s \in processing_seqnos /\ IsFiniteSet(processing_seqnos)
      BY <1>3, <3>1
    <3>3. Cardinality(processing_seqnos \ {s}) = Cardinality(processing_seqnos) - 1
      BY <3>2, FS_RemoveElement
    <3> QED
      BY <1>1, <3>1, <3>3, SchedulerAssumption
  <2>2. /\ last_known_seqno' <= mc_seqno'
        /\ \A t \in Seqno : t \in processing_seqnos' <=> stage'[t] # "idle"
        /\ \A t \in processing_seqnos' : 0 < t /\ t <= last_known_seqno'
    BY <1>1 DEF BoundInv, SchedulerInv
  <2>3. ASSUME NEW i \in 1 .. Len(queued_seqnos')
        PROVE  /\ 0 < queued_seqnos'[i] /\ queued_seqnos'[i] <= last_known_seqno'
               /\ stage'[queued_seqnos'[i]] = "idle"
    <3>1. CASE i \in 1 .. k
      BY <1>1, <1>2, <1>4, <3>1 DEF BoundInv, SchedulerInv
    <3>2. CASE i = k + 1
      BY <1>1, <1>2, <1>3, <3>2
    <3> QED
      BY <1>2, <3>1, <3>2
  <2>4. \A i, j \in 1 .. Len(queued_seqnos') : queued_seqnos'[i] = queued_seqnos'[j] => i = j
    <3>1. \A i \in 1 .. Len(queued_seqnos') : i \in 1 .. k \/ i = k + 1
      BY <1>2
    <3> QED
      BY <1>2, <1>4, <3>1 DEF BoundInv, SchedulerInv
  <2> QED
    BY <2>1, <2>2, <2>3, <2>4 DEF SchedulerInv
<1>7. \A i : QueuedAfter(i)' = QueuedAfter(i)
  BY <1>1 DEF QueuedAfter
<1>8. MailboxInv' /\ ReportInv'
  <2>1. \A i \in QueuedAfter(0) : mailbox[i].seqno \in Seqno
    BY QueuedSeqnos
  <2>2. mailbox' = mailbox /\ MailboxInv /\ ReportInv
    BY <1>1 DEF BoundInv
  <2>3. \A t \in Seqno : stage'[t] = "queued" <=> stage[t] = "queued"
    BY <1>1, <1>3
  <2>4. \A i \in QueuedAfter(0)' : stage'[mailbox'[i].seqno] = "queued"
    BY <1>7, <2>1, <2>2, <2>3 DEF MailboxInv
  <2>5. \A i, j \in QueuedAfter(0)' : mailbox'[i].seqno = mailbox'[j].seqno => i = j
    BY <1>7, <2>2 DEF MailboxInv
  <2>6. \A t \in Seqno : stage'[t] = "queued"
                           => \E i \in QueuedAfter(0)' : mailbox'[i].seqno = t
    BY <1>7, <2>2, <2>3 DEF MailboxInv
  <2>7. MailboxInv'
    BY <2>4, <2>5, <2>6 DEF MailboxInv
  <2> QED
    BY <1>1, <1>7, <2>2, <2>7 DEF ReportInv
<1>9. LoadInv'
  <2>1. s \in InWork /\ InWork \in SUBSET Seqno
    BY <1>1, <1>3 DEF InWork, TypeOK
  <2>2. IsFiniteSet(InWork) /\ Cardinality(InWork) \in Nat
    BY <2>1, FiniteSeqnos
  <2>3. Cardinality(InWork') = Cardinality(InWork) - 1
    BY <1>5, <2>1, <2>2, FS_RemoveElement
  <2>4. Len(insert_queue) \in Nat
    BY LenProperties DEF TypeOK
  <2> QED
    BY <1>1, <2>2, <2>3, <2>4, PipelineAssumption, SchedulerAssumption DEF BoundInv, LoadInv
<1> QED
  BY <1>6, <1>8, <1>9 DEF BoundInv
=============================================================================
