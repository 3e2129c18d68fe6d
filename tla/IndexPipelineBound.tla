------------------------ MODULE IndexPipelineBound -------------------------
(***************************************************************************)
(* The insert queue is bounded, for every value of the constants.  The     *)
(* theorems that rest on BoundInv are in module IndexPipelineSafety.       *)
(***************************************************************************)
EXTENDS IndexPipelineBoundSteps

\* Scheduling adds seqnos one by one and stops at max_active_tasks_.
LEMMA ScheduledAtMost ==
  ASSUME TypeOK, NEW n \in 0 .. Len(queued_seqnos), NEW p \in SUBSET Seqno,
         IsScheduled(n, p), Cardinality(p) <= MaxActiveTasks
  PROVE  Cardinality(p \cup {queued_seqnos[i] : i \in 1 .. n}) <= MaxActiveTasks
<1>1. Len(queued_seqnos) \in Nat /\ \A i \in 1 .. Len(queued_seqnos) : queued_seqnos[i] \in Seqno
  BY LenProperties, ElementOfSeq DEF TypeOK
<1> DEFINE N == p \cup {queued_seqnos[i] : i \in 1 .. n}
<1> SUFFICES Cardinality(N) <= MaxActiveTasks
  OBVIOUS
<1>2. CASE n = 0
  <2>1. N = p
    BY <1>2
  <2> HIDE DEF N
  <2> QED
    BY <2>1
<1>3. CASE n > 0
  <2> DEFINE P == p \cup {queued_seqnos[i] : i \in 1 .. n - 1}
  <2>1. n - 1 \in 0 .. n - 1
    BY <1>3
  <2>2. Cardinality(P) < MaxActiveTasks
    BY <2>1 DEF IsScheduled
  <2>3. P \in SUBSET Seqno
    BY <1>1
  <2>4. IsFiniteSet(P) /\ Cardinality(P) \in Nat
    BY <2>3, FiniteSeqnos
  <2>5. N = P \cup {queued_seqnos[n]}
    <3>1. \A i : i \in 1 .. n <=> i \in 1 .. n - 1 \/ i = n
      BY <1>3
    <3> QED
      BY <3>1
  <2> DEFINE q == queued_seqnos[n]
  <2> HIDE DEF N, P, q
  <2>6. Cardinality(P \cup {q}) = IF q \in P THEN Cardinality(P) ELSE Cardinality(P) + 1
    BY <2>4, FS_AddElement
  <2> QED
    BY <2>2, <2>4, <2>5, <2>6, SchedulerAssumption DEF q
<1> QED
  BY <1>2, <1>3

LEMMA BoundHandleMessage == TypeOK /\ TypeOK' /\ BoundInv /\ HandleMessage => BoundInv'
<1> SUFFICES ASSUME TypeOK, TypeOK', BoundInv, HandleMessage PROVE BoundInv'
  OBVIOUS
<1> DEFINE m == Head(mailbox)
           p == IF m.type = "queued" THEN processing_seqnos \ {m.seqno} ELSE processing_seqnos
           st == IF m.type = "queued" THEN [stage EXCEPT ![m.seqno] = "idle"] ELSE stage
<1>1. /\ m \in Message /\ mailbox' = Tail(mailbox) /\ mailbox # << >>
      /\ p \subseteq Seqno /\ st \in [Seqno -> Stage]
      /\ got_insert_queue_state(m.status, p, st)
  BY MessageHandled
<1>2. /\ mailbox \in Seq(Message) /\ Len(mailbox) \in Nat /\ m = mailbox[1]
      /\ 1 \in 1 .. Len(mailbox) /\ Len(mailbox') = Len(mailbox) - 1
      /\ \A j \in 1 .. Len(mailbox) - 1 : mailbox'[j] = mailbox[j + 1]
  <2>1. mailbox \in Seq(Message)
    BY DEF TypeOK
  <2>2. Len(mailbox) \in Nat /\ Len(mailbox) # 0
    BY <1>1, <2>1, LenProperties, EmptySeq
  <2>3. /\ m = mailbox[1] /\ Len(mailbox') = Len(mailbox) - 1
        /\ \A j \in 1 .. Len(mailbox) - 1 : mailbox'[j] = mailbox[j + 1]
    BY <1>1, <2>1, HeadTailProperties
  <2> QED
    BY <2>1, <2>2, <2>3
<1>3. UNCHANGED <<last_known_seqno, insert_queue, queue_state, mc_seqno>>
  BY DEF HandleMessage, imVars
<1>4. ASSUME NEW i \in Nat
      PROVE  Cardinality(QueuedAfter(i)') = Cardinality(QueuedAfter(i + 1))
  <2>1. Cardinality(Announced(Tail(mailbox), i)) = Cardinality(Announced(mailbox, i + 1))
    BY <1>1, <1>2, AnnouncedTail
  <2>2. QueuedAfter(i)' = Announced(Tail(mailbox), i)
    BY <1>1 DEF QueuedAfter, Announced
  <2>3. QueuedAfter(i + 1) = Announced(mailbox, i + 1)
    BY DEF QueuedAfter, Announced
  <2> QED
    BY <2>1, <2>2, <2>3
<1>5. m.seqno \in Seqno /\ m.status.mc_blocks \in Int
  BY <1>1 DEF Message, QueueState
<1>6. m.type = "queued" => 1 \in QueuedAfter(0) /\ stage[m.seqno] = "queued"
  BY <1>2 DEF QueuedAfter, BoundInv, MailboxInv
<1>7. \A j \in QueuedAfter(0)' : /\ j \in Nat /\ j + 1 \in QueuedAfter(0) /\ j + 1 # 1
                                 /\ mailbox'[j] = mailbox[j + 1]
                                 /\ mailbox[j + 1].seqno \in Seqno
  <2> SUFFICES ASSUME NEW j \in QueuedAfter(0)'
               PROVE  /\ j \in Nat /\ j + 1 \in QueuedAfter(0) /\ j + 1 # 1
                      /\ mailbox'[j] = mailbox[j + 1]
                      /\ mailbox[j + 1].seqno \in Seqno
    OBVIOUS
  <2>1. j \in 1 .. Len(mailbox) - 1
    BY <1>2 DEF QueuedAfter
  <2>2. mailbox'[j] = mailbox[j + 1] /\ j + 1 \in 1 .. Len(mailbox)
    BY <1>2, <2>1
  <2>3. j + 1 \in QueuedAfter(0)
    BY <2>1, <2>2 DEF QueuedAfter
  <2>4. mailbox[j + 1].seqno \in Seqno
    BY <1>2, <2>2, MessageFields
  <2> QED
    BY <2>1, <2>2, <2>3, <2>4
<1>8. \A t \in Seqno : t \in p <=> st[t] # "idle"
  BY <1>5 DEF BoundInv, SchedulerInv, TypeOK
<1>9. /\ {t \in p : st[t] # "queued"} = InWork
      /\ p \subseteq processing_seqnos /\ Cardinality(p) <= MaxActiveTasks
  <2>1. {t \in p : st[t] # "queued"} = InWork
    <3>1. CASE m.type = "queued"
      BY <1>5, <1>6, <3>1 DEF InWork, TypeOK
    <3>2. CASE m.type # "queued"
      BY <3>2 DEF InWork
    <3> QED
      BY <3>1, <3>2
  <2>2. p \subseteq processing_seqnos
    OBVIOUS
  <2> HIDE DEF p, st
  <2>3. Cardinality(p) <= Cardinality(processing_seqnos)
    <3>1. IsFiniteSet(processing_seqnos)
      BY FiniteSeqnos DEF TypeOK
    <3> QED
      BY <2>2, <3>1, FS_Subset
  <2>4. Cardinality(processing_seqnos) <= MaxActiveTasks
    BY DEF BoundInv, SchedulerInv
  <2>5. Cardinality(p) \in Nat /\ Cardinality(processing_seqnos) \in Nat
    BY <1>1, FiniteSeqnos DEF TypeOK
  <2> QED
    BY <2>1, <2>2, <2>3, <2>4, <2>5, SchedulerAssumption
<1>10. \A i \in QueuedAfter(0)' :
         /\ st[mailbox'[i].seqno] = "queued"
         /\ \A j \in QueuedAfter(0)' : mailbox'[i].seqno = mailbox'[j].seqno => i = j
  <2>1. \A i, j \in QueuedAfter(0)' : mailbox'[i].seqno = mailbox'[j].seqno => i = j
    <3>1. \A i, j \in QueuedAfter(0) : mailbox[i].seqno = mailbox[j].seqno => i = j
      BY DEF BoundInv, MailboxInv
    <3> QED
      BY <1>7, <3>1
  <2>2. \A i \in QueuedAfter(0)' : stage[mailbox'[i].seqno] = "queued"
    <3>1. \A i \in QueuedAfter(0) : stage[mailbox[i].seqno] = "queued"
      BY DEF BoundInv, MailboxInv
    <3> QED
      BY <1>7, <3>1
  <2>3. m.type = "queued" => \A i \in QueuedAfter(0)' : mailbox'[i].seqno # m.seqno
    <3>1. \A i, j \in QueuedAfter(0) : mailbox[i].seqno = mailbox[j].seqno => i = j
      BY DEF BoundInv, MailboxInv
    <3>2. m = mailbox[1]
      BY <1>2
    <3> QED
      BY <1>6, <1>7, <3>1, <3>2
  <2>4. \A i \in QueuedAfter(0)' : st[mailbox'[i].seqno] = stage[mailbox'[i].seqno]
    <3>1. \A t \in Seqno : (m.type = "queued" => t # m.seqno) => st[t] = stage[t]
      BY DEF TypeOK
    <3>2. \A i \in QueuedAfter(0)' : mailbox'[i].seqno \in Seqno
      BY <1>7
    <3> HIDE DEF m, st
    <3> QED
      BY <2>3, <3>1, <3>2
  <2> QED
    BY <2>1, <2>2, <2>4
<1>11. \A t \in Seqno : st[t] = "queued" => \E i \in QueuedAfter(0)' : mailbox'[i].seqno = t
  <2> SUFFICES ASSUME NEW t \in Seqno, st[t] = "queued"
               PROVE  \E i \in QueuedAfter(0)' : mailbox'[i].seqno = t
    OBVIOUS
  <2>1. stage[t] = "queued" /\ (m.type = "queued" => t # m.seqno)
    BY <1>5 DEF TypeOK
  <2>2. PICK j \in QueuedAfter(0) : mailbox[j].seqno = t
    BY <2>1 DEF BoundInv, MailboxInv
  <2>3. j \in 1 .. Len(mailbox) /\ mailbox[j].type = "queued"
    BY <1>2 DEF QueuedAfter
  <2>4. j # 1
    BY <1>2, <2>1, <2>2, <2>3
  <2>5. j - 1 \in 1 .. Len(mailbox) - 1 /\ (j - 1) + 1 = j
    BY <1>2, <2>3, <2>4
  <2>6. mailbox'[j - 1] = mailbox[j]
    BY <1>2, <2>5
  <2>7. j - 1 \in QueuedAfter(0)'
    BY <1>2, <2>3, <2>5, <2>6 DEF QueuedAfter
  <2> QED
    BY <2>2, <2>6, <2>7
<1>12. ReportInv'
  <2> SUFFICES ASSUME NEW i \in 1 .. Len(mailbox')
               PROVE  Len(insert_queue')
                        <= mailbox'[i].status.mc_blocks + Cardinality(QueuedAfter(i)')
    BY <1>3 DEF BoundInv, ReportInv
  <2>1. i \in Nat /\ i + 1 \in 1 .. Len(mailbox) /\ mailbox'[i] = mailbox[i + 1]
    BY <1>2
  <2>2. Cardinality(QueuedAfter(i)') = Cardinality(QueuedAfter(i + 1))
    BY <1>4, <2>1
  <2> QED
    BY <1>3, <2>1, <2>2 DEF BoundInv, ReportInv
<1>13. Len(insert_queue) <= m.status.mc_blocks + Cardinality(QueuedAfter(0)')
  <2>1. Cardinality(QueuedAfter(0)') = Cardinality(QueuedAfter(1))
    BY <1>4
  <2> QED
    BY <1>2, <2>1 DEF BoundInv, ReportInv
<1>14. \A i \in 1 .. Len(queued_seqnos) :
         /\ queued_seqnos[i] \in Seqno /\ 0 < queued_seqnos[i]
         /\ queued_seqnos[i] <= last_known_seqno /\ st[queued_seqnos[i]] = "idle"
         /\ \A j \in 1 .. Len(queued_seqnos) : queued_seqnos[i] = queued_seqnos[j] => i = j
  <2>1. \A i \in 1 .. Len(queued_seqnos) : queued_seqnos[i] \in Seqno
    BY ElementOfSeq DEF TypeOK
  <2>2. \A t \in Seqno : stage[t] = "idle" => st[t] = "idle"
    BY <1>5 DEF TypeOK
  <2> QED
    BY <2>1, <2>2 DEF BoundInv, SchedulerInv
<1>15. \A t \in p : 0 < t /\ t <= last_known_seqno
  BY <1>9 DEF BoundInv, SchedulerInv
<1>16. last_known_seqno <= mc_seqno
  BY DEF BoundInv, SchedulerInv
<1> HIDE DEF m, p, st
<1>17. CASE ~ Fits(m.status, MaxQueue)
  <2>1. processing_seqnos' = p /\ stage' = st /\ queued_seqnos' = queued_seqnos
    BY <1>1, <1>17 DEF got_insert_queue_state
  <2>2. SchedulerInv'
    BY <1>3, <1>8, <1>9, <1>14, <1>15, <1>16, <2>1 DEF SchedulerInv
  <2>3. MailboxInv'
    BY <1>10, <1>11, <2>1 DEF MailboxInv
  <2>4. InWork' = InWork
    BY <1>9, <2>1 DEF InWork
  <2>5. LoadInv'
    BY <1>3, <2>4 DEF BoundInv, LoadInv
  <2> QED
    BY <1>12, <2>2, <2>3, <2>5 DEF BoundInv
<1>18. CASE Fits(m.status, MaxQueue)
  <2>1. PICK n \in 0 .. Len(queued_seqnos) :
          /\ schedule_next_seqnos(n, p)
          /\ stage' = [s \in Seqno |-> IF \E i \in 1 .. n : queued_seqnos[i] = s
                                       THEN "fetch" ELSE st[s]]
    BY <1>1, <1>18 DEF got_insert_queue_state
  <2>2. /\ Len(queued_seqnos) \in Nat /\ Len(queued_seqnos') = Len(queued_seqnos) - n
        /\ \A i \in 1 .. Len(queued_seqnos) - n : queued_seqnos'[i] = queued_seqnos[n + i]
        /\ processing_seqnos' = p \cup {queued_seqnos[i] : i \in 1 .. n}
    <3>1. Len(queued_seqnos) \in Nat
      BY LenProperties DEF TypeOK
    <3>2. schedule_next_seqnos(n, p) /\ p \in SUBSET Seqno
      BY <1>1, <2>1
    <3> QED
      BY <3>1, <3>2, SeqnosScheduled
  <2>3. Cardinality(processing_seqnos') <= MaxActiveTasks
    BY <1>1, <1>9, <2>1, <2>2, ScheduledAtMost DEF schedule_next_seqnos
  <2>4. \A t \in Seqno : t \in processing_seqnos' <=> stage'[t] # "idle"
    <3> SUFFICES ASSUME NEW t \in Seqno
                 PROVE  t \in processing_seqnos' <=> stage'[t] # "idle"
      OBVIOUS
    <3>1. CASE \E i \in 1 .. n : queued_seqnos[i] = t
      <4>1. t \in processing_seqnos'
        BY <2>2, <3>1
      <4>2. stage'[t] = "fetch"
        BY <2>1, <3>1
      <4> QED
        BY <4>1, <4>2
    <3>2. CASE ~ \E i \in 1 .. n : queued_seqnos[i] = t
      <4>1. t \in processing_seqnos' <=> t \in p
        BY <2>2, <3>2
      <4>2. stage'[t] = st[t]
        BY <2>1, <3>2
      <4> QED
        BY <1>8, <4>1, <4>2
    <3> QED
      BY <3>1, <3>2
  <2>5. \A t \in processing_seqnos' : 0 < t /\ t <= last_known_seqno
    BY <1>14, <1>15, <2>2
  <2>6. \A i \in 1 .. Len(queued_seqnos') :
          /\ n + i \in 1 .. Len(queued_seqnos) /\ n + i \notin 1 .. n
          /\ queued_seqnos'[i] = queued_seqnos[n + i]
    <3>1. /\ n \in Nat /\ n <= Len(queued_seqnos) /\ Len(queued_seqnos) \in Nat
          /\ Len(queued_seqnos') = Len(queued_seqnos) - n
      BY <2>2
    <3>2. \A i \in 1 .. Len(queued_seqnos') : queued_seqnos'[i] = queued_seqnos[n + i]
      BY <2>2
    <3>3. \A i \in 1 .. Len(queued_seqnos') : n + i \in 1 .. Len(queued_seqnos) /\ n + i \notin 1 .. n
      BY <3>1
    <3> QED
      BY <3>2, <3>3
  <2>7. \A i \in 1 .. n : i \in 1 .. Len(queued_seqnos)
    BY <2>2
  <2>8. \A i \in 1 .. Len(queued_seqnos') : stage'[queued_seqnos'[i]] = "idle"
    BY <1>14, <2>1, <2>6, <2>7
  <2>9. \A i, j \in 1 .. Len(queued_seqnos') : queued_seqnos'[i] = queued_seqnos'[j] => i = j
    <3> SUFFICES ASSUME NEW i \in 1 .. Len(queued_seqnos'), NEW j \in 1 .. Len(queued_seqnos'),
                        queued_seqnos'[i] = queued_seqnos'[j]
                 PROVE  i = j
      OBVIOUS
    <3>1. n + i = n + j
      BY <1>14, <2>6
    <3> QED
      BY <3>1
  <2>10. SchedulerInv'
    <3>1. \A i \in 1 .. Len(queued_seqnos') :
            0 < queued_seqnos'[i] /\ queued_seqnos'[i] <= last_known_seqno
      BY <1>14, <2>6
    <3> QED
      BY <1>3, <1>16, <2>3, <2>4, <2>5, <2>8, <2>9, <3>1 DEF SchedulerInv
  <2>11. \A t \in Seqno : stage'[t] = "queued" <=> st[t] = "queued"
    BY <1>14, <2>1, <2>7
  <2>12. MailboxInv'
    <3>1. \A i \in QueuedAfter(0)' : stage'[mailbox'[i].seqno] = "queued"
      BY <1>7, <1>10, <2>11
    <3> QED
      BY <1>10, <1>11, <2>11, <3>1 DEF MailboxInv
  <2>13. LoadInv'
    <3> DEFINE c == Cardinality(Announced(mailbox', 0))
    <3>1. Cardinality(InWork') = Cardinality(processing_seqnos') - c
      <4>1. /\ mailbox' \in Seq(Message) /\ stage' \in [Seqno -> Stage]
            /\ processing_seqnos' \in SUBSET Seqno
        BY DEF TypeOK
      <4>2. /\ \A i \in Announced(mailbox', 0) :
                 /\ stage'[mailbox'[i].seqno] = "queued"
                 /\ \A j \in Announced(mailbox', 0) :
                      mailbox'[i].seqno = mailbox'[j].seqno => i = j
            /\ \A s \in Seqno : stage'[s] = "queued"
                                  => \E i \in Announced(mailbox', 0) : mailbox'[i].seqno = s
        <5>1. QueuedAfter(0)' = Announced(mailbox', 0)
          BY QueuedAfterIs
        <5> QED
          BY <2>12, <5>1 DEF MailboxInv
      <4>3. Cardinality({s \in processing_seqnos' : stage'[s] # "queued"})
              = Cardinality(processing_seqnos') - c
        BY <2>4, <4>1, <4>2, InWorkCount
      <4> QED
        BY <4>3 DEF InWork
    <3>2. c \in Nat /\ c = Cardinality(QueuedAfter(0)')
      BY AnnouncedFinite, QueuedAfterIs DEF TypeOK
    <3>3. m.status.mc_blocks <= MaxQueue.mc_blocks /\ MaxQueue.mc_blocks \in Nat
      BY <1>18, PipelineAssumption DEF Fits
    <3>4. Len(insert_queue) \in Nat /\ Cardinality(processing_seqnos') \in Nat
      <4>1. processing_seqnos' \in SUBSET Seqno /\ insert_queue \in Seq(Seqno)
        BY DEF TypeOK
      <4>2. Cardinality(processing_seqnos') \in Nat
        BY <4>1, FiniteSeqnos
      <4> QED
        BY <4>1, <4>2, LenProperties
    <3>5. Len(insert_queue) + Cardinality(InWork') <= MaxQueue.mc_blocks + MaxActiveTasks
      <4> DEFINE q == Len(insert_queue)
                 r == m.status.mc_blocks
                 w == Cardinality(processing_seqnos')
      <4>1. q \in Nat /\ r \in Int /\ w \in Nat /\ c \in Nat
        BY <1>5, <3>2, <3>4
      <4>2. q <= r + c /\ r <= MaxQueue.mc_blocks /\ w <= MaxActiveTasks
        BY <1>13, <2>3, <3>2, <3>3
      <4>3. MaxQueue.mc_blocks \in Nat /\ MaxActiveTasks \in Nat
        BY <3>3, SchedulerAssumption
      <4>4. Cardinality(InWork') = w - c
        BY <3>1
      <4> HIDE DEF c, q, r, w
      <4>5. q + (w - c) <= MaxQueue.mc_blocks + MaxActiveTasks
        BY <4>1, <4>2, <4>3
      <4> QED
        BY <4>4, <4>5 DEF q
    <3> QED
      BY <1>3, <3>5 DEF LoadInv
  <2> QED
    BY <1>12, <2>10, <2>12, <2>13 DEF BoundInv
<1> QED
  BY <1>17, <1>18

\* Every step preserves the bound's inductive invariant.
LEMMA BoundNext == TypeOK /\ TypeOK' /\ BoundInv /\ [Next]_vars => BoundInv'
<1> SUFFICES ASSUME TypeOK, TypeOK', BoundInv, [Next]_vars PROVE BoundInv'
  OBVIOUS
<1>0. mc_seqno \in Nat
  BY DEF TypeOK
<1>1. CASE Start
  <2>1. /\ UNCHANGED <<queued_seqnos, processing_seqnos, last_known_seqno, insert_queue,
                       queue_state, mailbox, stage>>
        /\ mc_seqno <= mc_seqno'
    BY <1>0, <1>1 DEF Start, imVars
  <2> QED
    BY <2>1, BoundStages
<1>2. CASE Crash BY <1>2, BoundCrash
<1>3. CASE ChainGrows
  <2>1. /\ UNCHANGED <<queued_seqnos, processing_seqnos, last_known_seqno, insert_queue,
                       queue_state, mailbox, stage>>
        /\ mc_seqno <= mc_seqno'
    BY <1>0, <1>3 DEF ChainGrows, procVars, schedVars, imVars
  <2> QED
    BY <2>1, BoundStages
<1>4. CASE Alarm
  <2>1. /\ UNCHANGED <<queued_seqnos, processing_seqnos, last_known_seqno, insert_queue,
                       queue_state, mailbox, stage>>
        /\ mc_seqno <= mc_seqno'
    BY <1>0, <1>4 DEF Alarm, schedVars, imVars
  <2> QED
    BY <2>1, BoundStages
<1>5. CASE get_insert_queue_state BY <1>5, BoundQueueState
<1>6. CASE LastKnownSeqno BY <1>6, BoundLastKnownSeqno
<1>7. CASE LastKnownSeqnoError
  <2>1. /\ UNCHANGED <<queued_seqnos, processing_seqnos, last_known_seqno, insert_queue,
                       queue_state, mailbox, stage>>
        /\ mc_seqno <= mc_seqno'
    BY <1>0, <1>7 DEF LastKnownSeqnoError, schedVars, imVars
  <2> QED
    BY <2>1, BoundStages
<1>8. CASE HandleMessage BY <1>8, BoundHandleMessage
<1>9. CASE \E s \in Seqno : Work(s) \/ WorkerError(s)
  <2>1. PICK s \in Seqno : Work(s) \/ WorkerError(s)
    BY <1>9
  <2>2. CASE seqno_fetched(s)
    <3>1. \A t \in Seqno : /\ stage'[t] = "idle" <=> stage[t] = "idle"
                           /\ stage'[t] = "queued" <=> stage[t] = "queued"
      BY <2>2 DEF seqno_fetched, Moved, TypeOK
    <3>2. /\ UNCHANGED <<queued_seqnos, processing_seqnos, last_known_seqno, insert_queue,
                         queue_state, mailbox>>
          /\ mc_seqno <= mc_seqno'
      BY <1>0, <2>2 DEF seqno_fetched, Moved, schedVars, imVars
    <3> QED
      BY <3>1, <3>2, BoundStages
  <2>3. CASE seqno_parsed(s)
    <3>1. \A t \in Seqno : /\ stage'[t] = "idle" <=> stage[t] = "idle"
                           /\ stage'[t] = "queued" <=> stage[t] = "queued"
      BY <2>3 DEF seqno_parsed, Waiting
    <3>2. /\ UNCHANGED <<queued_seqnos, processing_seqnos, last_known_seqno, insert_queue,
                         queue_state, mailbox>>
          /\ mc_seqno <= mc_seqno'
      BY <1>0, <2>3 DEF seqno_parsed, schedVars, imVars
    <3> QED
      BY <3>1, <3>2, BoundStages
  <2>4. CASE seqno_interfaces_processed(s)
    <3>1. \A t \in Seqno : /\ stage'[t] = "idle" <=> stage[t] = "idle"
                           /\ stage'[t] = "queued" <=> stage[t] = "queued"
      BY <2>4 DEF seqno_interfaces_processed, Moved, TypeOK
    <3>2. /\ UNCHANGED <<queued_seqnos, processing_seqnos, last_known_seqno, insert_queue,
                         queue_state, mailbox>>
          /\ mc_seqno <= mc_seqno'
      BY <1>0, <2>4 DEF seqno_interfaces_processed, Moved, schedVars, imVars
    <3> QED
      BY <3>1, <3>2, BoundStages
  <2>5. CASE seqno_actions_processed(s) BY <2>5, BoundActionsProcessed
  <2>6. CASE WorkerError(s) BY <2>6, BoundWorkerError
  <2> QED
    BY <2>1, <2>2, <2>3, <2>4, <2>5, <2>6 DEF Work
<1>10. CASE InsertAlarm
  <2>1. schedule_next_insert_batches(parallel_insert_actors, insert_actors, FALSE)
    BY <1>10 DEF InsertAlarm, imAlarm
  <2>2. parallel_insert_actors \in Int /\ insert_actors \in SUBSET (SUBSET Seqno)
    BY DEF TypeOK
  <2>3. PICK n \in 0 .. Len(insert_queue) :
          /\ Len(insert_queue') = Len(insert_queue) - n
          /\ queue_state'.mc_blocks = queue_state.mc_blocks - n
    BY <2>1, <2>2, BatchesCut
  <2> QED
    BY <1>10, <2>3, BoundShorter DEF InsertAlarm, schedVars
<1>11. CASE \E batch \in insert_actors : BatchInserted(batch)
  <2>1. PICK batch \in insert_actors : BatchInserted(batch)
    BY <1>11
  <2> DEFINE p == parallel_insert_actors - 1
             actors == insert_actors \ {batch}
  <2>2. schedule_next_insert_batches(p, actors, TRUE)
    BY <2>1 DEF BatchInserted, insert_batch_finished
  <2>3. p \in Int /\ actors \in SUBSET (SUBSET Seqno)
    BY DEF TypeOK
  <2> HIDE DEF p, actors
  <2>4. PICK n \in 0 .. Len(insert_queue) :
          /\ Len(insert_queue') = Len(insert_queue) - n
          /\ queue_state'.mc_blocks = queue_state.mc_blocks - n
    BY <2>2, <2>3, BatchesCut
  <2> QED
    BY <2>1, <2>4, BoundShorter DEF BatchInserted
<1>12. CASE save_state \/ gc_states
  BY <1>0, <1>12, BoundStages DEF save_state, gc_states, procVars, schedVars, imVars
<1>13. CASE UNCHANGED vars
  BY <1>0, <1>13, BoundStages DEF vars, procVars, schedVars, imVars
<1>14. CASE StartError
  BY <1>0, <1>14, BoundStages DEF StartError, procVars, schedVars, imVars
<1> QED
  BY <1>1, <1>2, <1>3, <1>4, <1>5, <1>6, <1>7, <1>8, <1>9, <1>10, <1>11, <1>12, <1>13,
     <1>14 DEF Next

\* The insert queue is bounded by max_queue_ plus max_active_tasks_, for all
\* limits, weights and numbers of blocks, errors and crashes, although the
\* scheduler acts on reports of the queue's size that are stale.
THEOREM QueueIsBounded == Spec => []QueueBound
<1>1. TypeOK /\ BoundInv => QueueBound
  <2> SUFFICES ASSUME TypeOK, BoundInv PROVE QueueBound
    OBVIOUS
  <2>1. InWork \in SUBSET Seqno
    BY DEF InWork, TypeOK
  <2>2. Cardinality(InWork) \in Nat
    BY <2>1, FiniteSeqnos
  <2>3. Len(insert_queue) \in Nat
    BY LenProperties DEF TypeOK
  <2> QED
    BY <2>2, <2>3, PipelineAssumption, SchedulerAssumption DEF BoundInv, LoadInv, QueueBound
<1> QED
  BY <1>1, TypeCorrect, BoundInit, BoundNext, PTL DEF Spec
=============================================================================
