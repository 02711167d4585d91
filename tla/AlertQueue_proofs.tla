------------------------- MODULE AlertQueue_proofs -------------------------
(***************************************************************************)
(* The alert queue's invariants for any set of producers, any capacity and *)
(* any number of alerts.                                                   *)
(***************************************************************************)
EXTENDS AlertQueue, SequenceTheorems, FiniteSetTheorems, TLAPS

\* A producer is between the count and the push only while it has an alert to push.
CountedPending == \A p \in counted : pending[p] # <<>>

Typed == TypeOK /\ CountedPending

\* What one push does to the queue, whichever of its branches it takes: one more alert is
\* queued or dropped, the new one comes last, and the others are the newest of the old.
LEMMA EnqueueEffect ==
    ASSUME TypeOK, NEW a \in Alerts, Enqueue(a)
    PROVE  /\ queue' \in Seq(Alerts) /\ Len(queue') <= Capacity /\ dropped' \in Nat
           /\ Len(queue') + dropped' = Len(queue) + dropped + 1
           /\ Len(queue') \in 1..Len(queue) + 1
           /\ queue'[Len(queue')] = a
           /\ \A i \in 1..Len(queue') - 1 : queue'[i] = queue[Len(queue) - Len(queue') + 1 + i]
<1>1. CASE Len(queue) = Capacity
  <2>1. queue # <<>> /\ queue \in Seq(Alerts) /\ Len(queue) \in Nat
    BY <1>1, QueueAssumption, EmptySeq DEF TypeOK
  <2>2. /\ Tail(queue) \in Seq(Alerts) /\ Len(Tail(queue)) = Len(queue) - 1
        /\ \A i \in 1..Len(Tail(queue)) : Tail(queue)[i] = queue[i + 1]
    BY <2>1, HeadTailProperties
  <2>3. queue' = Append(Tail(queue), a) /\ dropped' = dropped + 1
    BY <1>1 DEF Enqueue
  <2>4. /\ queue' \in Seq(Alerts) /\ Len(queue') = Len(queue)
        /\ \A i \in 1..Len(queue) - 1 : queue'[i] = queue[i + 1]
        /\ queue'[Len(queue)] = a
    BY <2>1, <2>2, <2>3, AppendProperties
  <2>5. Len(queue') + dropped' = Len(queue) + dropped + 1 /\ dropped' \in Nat
    BY <2>1, <2>3, <2>4 DEF TypeOK
  <2>6. Len(queue') \in 1..Len(queue) + 1 /\ Len(queue') <= Capacity
    BY <1>1, <2>1, <2>4, QueueAssumption
  <2>7. ASSUME NEW i \in 1..Len(queue') - 1
        PROVE  queue'[i] = queue[Len(queue) - Len(queue') + 1 + i]
    <3>1. i \in 1..Len(queue) - 1 /\ Len(queue) - Len(queue') + 1 + i = i + 1
      BY <2>1, <2>4
    <3>. QED BY <2>4, <3>1
  <2>. QED BY <2>4, <2>5, <2>6, <2>7
<1>2. CASE Len(queue) # Capacity
  <2>1. queue' = Append(queue, a) /\ dropped' = dropped
    BY <1>2 DEF Enqueue
  <2>2. /\ queue' \in Seq(Alerts) /\ Len(queue') = Len(queue) + 1
        /\ \A i \in 1..Len(queue) : queue'[i] = queue[i]
        /\ queue'[Len(queue) + 1] = a
    BY <2>1, AppendProperties DEF TypeOK
  <2>3. Len(queue) \in Nat BY DEF TypeOK
  <2>. QED BY <1>2, <2>1, <2>2, <2>3, QueueAssumption DEF TypeOK
<1>. QED BY <1>1, <1>2

\* The alert a push takes, and what it leaves of the frame's alerts.
LEMMA NextAlert ==
    ASSUME Typed, NEW p \in counted
    PROVE  /\ p \in Producers /\ pending[p] \in Seq(Alerts) /\ pending[p] # <<>>
           /\ NextOf(pending[p]) = pending[p][1] /\ NextOf(pending[p]) \in Alerts
           /\ Tail(pending[p]) \in Seq(Alerts) /\ Len(Tail(pending[p])) = Len(pending[p]) - 1
           /\ \A i \in 1..Len(pending[p]) - 1 : Tail(pending[p])[i] = pending[p][i + 1]
<1>1. p \in Producers /\ pending[p] \in Seq(Alerts) /\ pending[p] # <<>>
  BY DEF Typed, TypeOK, CountedPending
<1>. QED BY <1>1, HeadTailProperties DEF NextOf

LEMMA TypedInit == Init => Typed
BY QueueAssumption, EmptySeq DEF Init, Typed, TypeOK, CountedPending

LEMMA TypedNext == Typed /\ [Next]_vars => Typed'
<1> SUFFICES ASSUME Typed, [Next]_vars PROVE Typed'
  OBVIOUS
<1>1. ASSUME NEW p \in Producers, Ingest(p) PROVE Typed'
  <2>1. PICK k \in 1..PerFrame :
           /\ raised + k <= MaxAlerts /\ raised' = raised + k
           /\ pending' = [pending EXCEPT ![p] = [i \in 1..k |-> [by |-> p, n |-> raised + i]]]
    BY <1>1 DEF Ingest
  <2>2. k \in Nat /\ raised \in Nat /\ MaxAlerts \in Nat
    BY <2>1, QueueAssumption DEF Typed, TypeOK
  <2>3. \A i \in 1..k : [by |-> p, n |-> raised + i] \in Alerts
    BY <2>1, <2>2 DEF Alerts
  <2>4. [i \in 1..k |-> [by |-> p, n |-> raised + i]] \in Seq(Alerts)
    BY <2>2, <2>3, IsASeq
  <2>5. pending' \in [Producers -> Seq(Alerts)] /\ raised' \in 0..MaxAlerts
    <3>1. raised' \in 0..MaxAlerts BY <2>1, <2>2
    <3>2. DEFINE new == [i \in 1..k |-> [by |-> p, n |-> raised + i]]
    <3>3. pending' = [pending EXCEPT ![p] = new] BY <2>1
    <3>4. new \in Seq(Alerts) BY <2>4
    <3> HIDE DEF new
    <3>. QED BY <3>1, <3>3, <3>4 DEF Typed, TypeOK
  <2>6. p \notin counted
    BY <1>1 DEF Ingest, Typed, CountedPending
  <2>7. CountedPending'
    BY <1>1, <2>1, <2>6 DEF Ingest, Typed, TypeOK, CountedPending
  <2>. QED BY <1>1, <2>5, <2>7 DEF Ingest, Typed, TypeOK, Alerts
<1>2. ASSUME NEW p \in Producers, Count(p) PROVE Typed'
  <2>1. TypeOK' BY <1>2 DEF Count, Typed, TypeOK
  <2>2. CountedPending' BY <1>2 DEF Count, Typed, CountedPending
  <2>. QED BY <2>1, <2>2 DEF Typed
<1>3. ASSUME NEW p \in Producers, Push(p) PROVE Typed'
  <2>1. p \in counted /\ Enqueue(NextOf(pending[p])) BY <1>3 DEF Push
  <2>2. queue' \in Seq(Alerts) /\ Len(queue') <= Capacity /\ dropped' \in Nat
    BY <2>1, NextAlert, EnqueueEffect DEF Typed
  <2>3. pushed' \in Seq(Alerts)
    BY <1>3, <2>1, NextAlert, AppendProperties DEF Push, Typed, TypeOK
  <2>4. pending' \in [Producers -> Seq(Alerts)]
    BY <1>3, <2>1, NextAlert DEF Push, Typed, TypeOK
  <2>5. CountedPending'
    BY <1>3 DEF Push, Typed, TypeOK, CountedPending
  <2>. QED BY <1>3, <2>2, <2>3, <2>4, <2>5 DEF Push, Typed, TypeOK, Alerts
<1>4. ASSUME Pop PROVE Typed'
  <2>1. Tail(queue) \in Seq(Alerts) /\ Len(Tail(queue)) = Len(queue) - 1 /\ Len(queue) \in Nat
    BY <1>4, HeadTailProperties DEF Pop, Typed, TypeOK
  <2>. QED BY <1>4, <2>1, QueueAssumption DEF Pop, Typed, TypeOK, CountedPending, Alerts
<1>5. ASSUME UNCHANGED vars PROVE Typed'
  BY <1>5 DEF vars, Typed, TypeOK, CountedPending, Alerts
<1>. QED BY <1>1, <1>2, <1>3, <1>4, <1>5 DEF Next

LEMMA TypedAlways == Spec => []Typed
BY TypedInit, TypedNext, PTL DEF Spec

\* Every variable of the queue keeps its type, and the queue its capacity.
THEOREM TypeCorrect == Spec => []TypeOK
<1>1. Typed => TypeOK BY DEF Typed
<1>. QED BY <1>1, TypedAlways, PTL

-----------------------------------------------------------------------------
LEMMA AccountedInit == Init => Accounted
BY FS_EmptySet, EmptySeq DEF Init, Accounted

LEMMA AccountedNext == Typed /\ Accounted /\ [Next]_vars => Accounted'
<1> SUFFICES ASSUME Typed, Accounted, [Next]_vars PROVE Accounted'
  OBVIOUS
<1>0. /\ IsFiniteSet(counted) /\ Cardinality(counted) \in Nat
      /\ total \in Nat /\ popped \in Nat /\ dropped \in Nat /\ Len(queue) \in Nat
  BY QueueAssumption, FS_Subset, FS_CardinalityType DEF Typed, TypeOK
<1>1. ASSUME NEW p \in Producers, Ingest(p) PROVE Accounted'
  BY <1>1 DEF Ingest, Accounted
<1>2. ASSUME NEW p \in Producers, Count(p) PROVE Accounted'
  <2>1. Cardinality(counted') = Cardinality(counted) + 1
    BY <1>0, <1>2, FS_AddElement DEF Count
  <2>. QED BY <1>0, <1>2, <2>1 DEF Count, Accounted
<1>3. ASSUME NEW p \in Producers, Push(p) PROVE Accounted'
  <2>1. Cardinality(counted') = Cardinality(counted) - 1
    BY <1>0, <1>3, FS_RemoveElement DEF Push
  <2>2. Len(queue') + dropped' = Len(queue) + dropped + 1 /\ dropped' \in Nat
    BY <1>3, NextAlert, EnqueueEffect DEF Push, Typed
  <2>3. Len(queue') \in Nat
    BY <1>3, NextAlert, EnqueueEffect DEF Push, Typed
  <2>4. total' = total /\ popped' = popped BY <1>3 DEF Push
  <2>. QED BY <1>0, <2>1, <2>2, <2>3, <2>4 DEF Accounted
<1>4. ASSUME Pop PROVE Accounted'
  <2>1. Len(Tail(queue)) = Len(queue) - 1
    BY <1>4, HeadTailProperties DEF Pop, Typed, TypeOK
  <2>. QED BY <1>0, <1>4, <2>1 DEF Pop, Accounted
<1>5. ASSUME UNCHANGED vars PROVE Accounted'
  BY <1>5 DEF vars, Accounted
<1>. QED BY <1>1, <1>2, <1>3, <1>4, <1>5 DEF Next

\* At every moment the total the host reads accounts for every alert: handed out, queued,
\* dropped, or counted and about to be queued.
THEOREM AlertsAccounted == Spec => []Accounted
BY AccountedInit, AccountedNext, TypedAlways, PTL DEF Spec

-----------------------------------------------------------------------------
\* NewestKept, element by element.
Suffix ==
    /\ Len(queue) <= Len(pushed)
    /\ \A i \in 1..Len(queue) : queue[i] = pushed[Len(pushed) - Len(queue) + i]

LEMMA SuffixIsNewest == ASSUME TypeOK, Suffix PROVE NewestKept
<1> DEFINE last == SubSeq(pushed, Len(pushed) - Len(queue) + 1, Len(pushed))
<1>1. queue \in Seq(Alerts) /\ pushed \in Seq(Alerts) BY DEF TypeOK
<1>2. Len(queue) \in Nat /\ Len(pushed) \in Nat /\ Len(queue) <= Len(pushed)
  BY <1>1, LenProperties DEF Suffix
<1>3. \A i \in Len(pushed) - Len(queue) + 1..Len(pushed) : pushed[i] \in Alerts
  BY <1>1, <1>2, ElementOfSeq
<1>4. /\ last \in Seq(Alerts) /\ Len(last) = Len(queue)
      /\ \A i \in 1..Len(queue) : last[i] = pushed[Len(pushed) - Len(queue) + i]
  <2>1. Len(pushed) - Len(queue) + 1 \in Int /\ Len(pushed) \in Int BY <1>2
  <2>2. /\ last \in Seq(Alerts)
        /\ Len(last) = IF Len(pushed) - Len(queue) + 1 <= Len(pushed)
                       THEN Len(pushed) - (Len(pushed) - Len(queue) + 1) + 1 ELSE 0
        /\ \A i \in 1..Len(pushed) - (Len(pushed) - Len(queue) + 1) + 1 :
              last[i] = pushed[(Len(pushed) - Len(queue) + 1) + i - 1]
    BY <1>3, <2>1, SubSeqProperties
  <2>3. Len(last) = Len(queue) BY <1>2, <2>2
  <2>4. ASSUME NEW i \in 1..Len(queue)
        PROVE  last[i] = pushed[Len(pushed) - Len(queue) + i]
    <3>1. /\ i \in 1..Len(pushed) - (Len(pushed) - Len(queue) + 1) + 1
          /\ (Len(pushed) - Len(queue) + 1) + i - 1 = Len(pushed) - Len(queue) + i
      BY <1>2
    <3>. QED BY <2>2, <3>1
  <2>. QED BY <2>2, <2>3, <2>4
<1>5. \A i \in 1..Len(queue) : queue[i] = last[i] BY <1>4 DEF Suffix
<1> HIDE DEF last
<1>6. queue = last BY <1>1, <1>4, <1>5, SeqEqual
<1>. QED BY <1>2, <1>6 DEF NewestKept, last

LEMMA SuffixInit == Init => Suffix
BY EmptySeq DEF Init, Suffix

LEMMA SuffixNext == Typed /\ Suffix /\ [Next]_vars => Suffix'
<1> SUFFICES ASSUME Typed, Suffix, [Next]_vars PROVE Suffix'
  OBVIOUS
<1>0. /\ queue \in Seq(Alerts) /\ pushed \in Seq(Alerts)
      /\ Len(queue) \in Nat /\ Len(pushed) \in Nat
  BY LenProperties DEF Typed, TypeOK
<1>1. ASSUME NEW p \in Producers, Ingest(p) PROVE Suffix'
  BY <1>1 DEF Ingest, Suffix
<1>2. ASSUME NEW p \in Producers, Count(p) PROVE Suffix'
  BY <1>2 DEF Count, Suffix
<1>3. ASSUME NEW p \in Producers, Push(p) PROVE Suffix'
  <2> DEFINE a == NextOf(pending[p])
  <2>1. a \in Alerts /\ Enqueue(a) /\ TypeOK BY <1>3, NextAlert DEF Push, Typed
  <2>2. pushed' = Append(pushed, a) BY <1>3 DEF Push
  <2> HIDE DEF a
  <2>3. /\ Len(pushed') = Len(pushed) + 1 /\ pushed'[Len(pushed) + 1] = a
        /\ \A i \in 1..Len(pushed) : pushed'[i] = pushed[i]
    BY <1>0, <2>1, <2>2, AppendProperties
  <2>4. /\ Len(queue') \in 1..Len(queue) + 1 /\ queue'[Len(queue')] = a
        /\ \A i \in 1..Len(queue') - 1 : queue'[i] = queue[Len(queue) - Len(queue') + 1 + i]
    BY <2>1, EnqueueEffect
  <2>5. ASSUME NEW i \in 1..Len(queue')
        PROVE  queue'[i] = pushed'[Len(pushed') - Len(queue') + i]
    <3>1. CASE i = Len(queue')
      BY <1>0, <2>3, <2>4, <3>1
    <3>2. CASE i # Len(queue')
      <4> DEFINE j == Len(queue) - Len(queue') + 1 + i
      <4>1. i \in 1..Len(queue') - 1 /\ j \in 1..Len(queue) BY <1>0, <2>4, <3>2
      <4>2. queue'[i] = queue[j] BY <2>4, <4>1
      <4>3. queue[j] = pushed[Len(pushed) - Len(queue) + j] BY <4>1 DEF Suffix
      <4>4. /\ Len(pushed) - Len(queue) + j \in 1..Len(pushed)
            /\ Len(pushed) - Len(queue) + j = Len(pushed') - Len(queue') + i
        BY <1>0, <2>3, <2>4, <4>1 DEF Suffix
      <4>. QED BY <2>3, <4>2, <4>3, <4>4
    <3>. QED BY <3>1, <3>2
  <2>6. Len(queue') <= Len(pushed') BY <1>0, <2>3, <2>4 DEF Suffix
  <2>. QED BY <2>5, <2>6 DEF Suffix
<1>4. ASSUME Pop PROVE Suffix'
  <2>1. Tail(queue) \in Seq(Alerts) BY <1>0, <1>4, HeadTailProperties DEF Pop
  <2>2. Len(queue') = Len(queue) - 1 /\ Len(queue') \in Nat /\ pushed' = pushed
    BY <1>0, <1>4, <2>1, HeadTailProperties, LenProperties DEF Pop
  <2>3. \A i \in 1..Len(queue') : queue'[i] = queue[i + 1]
    BY <1>0, <1>4, HeadTailProperties DEF Pop
  <2>4. ASSUME NEW i \in 1..Len(queue')
        PROVE  queue'[i] = pushed'[Len(pushed') - Len(queue') + i]
    <3>1. i + 1 \in 1..Len(queue) BY <1>0, <2>2
    <3>2. Len(pushed) - Len(queue) + (i + 1) = Len(pushed) - Len(queue') + i
      BY <1>0, <2>2
    <3>3. queue[i + 1] = pushed[Len(pushed) - Len(queue) + (i + 1)] BY <3>1 DEF Suffix
    <3>. QED BY <2>2, <2>3, <3>2, <3>3
  <2>5. Len(queue') <= Len(pushed') BY <1>0, <2>2 DEF Suffix
  <2>. QED BY <2>4, <2>5 DEF Suffix
<1>5. ASSUME UNCHANGED vars PROVE Suffix'
  BY <1>5 DEF vars, Suffix
<1>. QED BY <1>1, <1>2, <1>3, <1>4, <1>5 DEF Next

\* The queue always holds exactly the newest alerts pushed, in push order.
THEOREM QueueKeepsNewest == Spec => []NewestKept
<1>1. Spec => []Suffix BY SuffixInit, SuffixNext, TypedAlways, PTL DEF Spec
<1>2. TypeOK /\ Suffix => NewestKept BY SuffixIsNewest
<1>. QED BY <1>1, <1>2, TypeCorrect, PTL

-----------------------------------------------------------------------------
(* The order of one producer's alerts: what waits in pending is newer than what the       *)
(* producer has pushed, and nothing is newer than raised.                                  *)

PendingOrdered ==
    \A p \in Producers : \A i \in 1..Len(pending[p]) :
        /\ pending[p][i].by = p /\ pending[p][i].n <= raised
        /\ \A j \in 1..Len(pending[p]) : i < j => pending[p][i].n < pending[p][j].n

PushedOlder ==
    \A i \in 1..Len(pushed) :
        /\ pushed[i].n <= raised
        /\ \A p \in Producers : pushed[i].by = p =>
              \A j \in 1..Len(pending[p]) : pushed[i].n < pending[p][j].n

PushedOrdered ==
    \A i, j \in 1..Len(pushed) :
        i < j /\ pushed[i].by = pushed[j].by => pushed[i].n < pushed[j].n

Ordered == PendingOrdered /\ PushedOlder /\ PushedOrdered

LEMMA OrderedInit == Init => Ordered
BY EmptySeq DEF Init, Ordered, PendingOrdered, PushedOlder, PushedOrdered

LEMMA IngestOrdered ==
    ASSUME Typed, Ordered, NEW p \in Producers, Ingest(p) PROVE Ordered'
<1>1. PICK k \in 1..PerFrame :
         /\ raised + k <= MaxAlerts /\ raised' = raised + k
         /\ pending' = [pending EXCEPT ![p] = [i \in 1..k |-> [by |-> p, n |-> raised + i]]]
  BY DEF Ingest
<1>2. k \in Nat /\ raised \in Nat /\ raised' \in Nat /\ raised <= raised' /\ pushed' = pushed
  BY <1>1, QueueAssumption DEF Typed, TypeOK, Ingest
<1> DEFINE new == [i \in 1..k |-> [by |-> p, n |-> raised + i]]
<1>3. pending' = [pending EXCEPT ![p] = new] BY <1>1
<1>4. pending'[p] = new /\ \A q \in Producers \ {p} : pending'[q] = pending[q]
  BY <1>3 DEF Typed, TypeOK
<1>5. Len(new) = k /\ \A i \in 1..k : new[i].by = p /\ new[i].n = raised + i
  BY <1>2
<1> HIDE DEF new
<1>6. ASSUME NEW q \in Producers, NEW i \in 1..Len(pending[q]) PROVE pending[q][i].n \in Nat
  <2>1. pending[q] \in Seq(Alerts) BY DEF Typed, TypeOK
  <2>2. pending[q][i] \in Alerts BY <2>1, ElementOfSeq
  <2>. QED BY <2>2 DEF Alerts
<1>7. ASSUME NEW i \in 1..Len(pushed) PROVE pushed[i].n \in Nat
  <2>1. pushed \in Seq(Alerts) BY DEF Typed, TypeOK
  <2>2. pushed[i] \in Alerts BY <2>1, ElementOfSeq
  <2>. QED BY <2>2 DEF Alerts
<1>8. PendingOrdered'
  <2>1. ASSUME NEW q \in Producers, NEW i \in 1..Len(pending'[q])
        PROVE  /\ pending'[q][i].by = q /\ pending'[q][i].n <= raised'
               /\ \A j \in 1..Len(pending'[q]) : i < j => pending'[q][i].n < pending'[q][j].n
    <3>1. CASE q = p
      <4>1. pending'[q] = new BY <1>4, <3>1
      <4>2. i \in 1..k BY <1>5, <2>1, <4>1
      <4>. QED BY <1>1, <1>2, <1>5, <3>1, <4>1, <4>2
    <3>2. CASE q # p
      <4>1. pending'[q] = pending[q] BY <1>4, <3>2
      <4>2. pending[q][i].n \in Nat BY <1>6, <2>1, <4>1
      <4>. QED BY <1>2, <2>1, <4>1, <4>2 DEF Ordered, PendingOrdered
    <3>. QED BY <3>1, <3>2
  <2>. QED BY <2>1 DEF PendingOrdered
<1>9. PushedOlder'
  <2>1. ASSUME NEW i \in 1..Len(pushed)
        PROVE  pushed[i].n <= raised /\ pushed[i].n \in Nat
    BY <1>7 DEF Ordered, PushedOlder
  <2>2. ASSUME NEW i \in 1..Len(pushed), NEW q \in Producers, pushed[i].by = q,
               NEW j \in 1..Len(pending'[q])
        PROVE  pushed[i].n < pending'[q][j].n
    <3>1. CASE q = p
      <4>1. j \in 1..k /\ pending'[q][j].n = raised + j BY <1>4, <1>5, <2>2, <3>1
      <4>. QED BY <1>2, <2>1, <4>1
    <3>2. CASE q # p
      <4>1. pending'[q] = pending[q] BY <1>4, <3>2
      <4>. QED BY <2>2, <4>1 DEF Ordered, PushedOlder
    <3>. QED BY <3>1, <3>2
  <2>. QED BY <1>2, <2>1, <2>2 DEF PushedOlder
<1>10. PushedOrdered'
  BY <1>2 DEF Ordered, PushedOrdered
<1>. QED BY <1>8, <1>9, <1>10 DEF Ordered

LEMMA PushOrdered ==
    ASSUME Typed, Ordered, NEW p \in Producers, Push(p) PROVE Ordered'
<1> DEFINE a == pending[p][1]
<1>1. p \in counted /\ raised' = raised BY DEF Push
<1>2. /\ a \in Alerts /\ pushed' = Append(pushed, a)
      /\ pending' = [pending EXCEPT ![p] = Tail(pending[p])]
      /\ Len(pending[p]) \in Nat /\ Len(Tail(pending[p])) = Len(pending[p]) - 1
      /\ \A i \in 1..Len(pending[p]) - 1 : Tail(pending[p])[i] = pending[p][i + 1]
      /\ 1 \in 1..Len(pending[p])
  <2>1. pending[p] \in Seq(Alerts) /\ pending[p] # <<>> /\ NextOf(pending[p]) = a
    BY <1>1, NextAlert
  <2>2. Len(pending[p]) \in Nat \ {0} BY <2>1, EmptySeq
  <2>3. a \in Alerts BY <1>1, <2>1, NextAlert
  <2>. QED BY <1>1, <2>1, <2>2, <2>3, NextAlert DEF Push
<1>3. pending'[p] = Tail(pending[p]) /\ \A q \in Producers \ {p} : pending'[q] = pending[q]
  BY <1>2 DEF Typed, TypeOK
<1>4. a.by = p /\ a.n <= raised /\ a.n \in Nat /\ raised \in Nat
  BY <1>2 DEF Ordered, PendingOrdered, Typed, TypeOK, Alerts
<1>5. \A j \in 1..Len(pending[p]) - 1 : a.n < pending[p][j + 1].n
  BY <1>2 DEF Ordered, PendingOrdered
<1> HIDE DEF a
<1>6. /\ Len(pushed) \in Nat /\ Len(pushed') = Len(pushed) + 1 /\ pushed'[Len(pushed) + 1] = a
      /\ \A i \in 1..Len(pushed) : pushed'[i] = pushed[i]
  BY <1>2, AppendProperties, LenProperties DEF Typed, TypeOK
<1>7. PendingOrdered'
  BY <1>1, <1>2, <1>3 DEF Ordered, PendingOrdered
<1>8. \A i \in 1..Len(pushed) : pushed[i].by = p => pushed[i].n < a.n
  BY <1>2 DEF Ordered, PushedOlder, a
<1>9. PushedOlder'
  <2>1. ASSUME NEW i \in 1..Len(pushed), NEW q \in Producers, pushed[i].by = q,
               NEW j \in 1..Len(pending'[q])
        PROVE  pushed[i].n < pending'[q][j].n
    <3>1. CASE q # p BY <1>3, <2>1, <3>1 DEF Ordered, PushedOlder
    <3>2. CASE q = p
      <4>1. j \in 1..Len(Tail(pending[p])) BY <1>3, <2>1, <3>2
      <4>2. j \in 1..Len(pending[p]) - 1 /\ j + 1 \in 1..Len(pending[p]) BY <1>2, <4>1
      <4>3. pending'[q][j] = pending[p][j + 1] BY <1>2, <1>3, <3>2, <4>2
      <4>. QED BY <2>1, <3>2, <4>2, <4>3 DEF Ordered, PushedOlder
    <3>. QED BY <3>1, <3>2
  <2>2. ASSUME NEW j \in 1..Len(pending'[p]) PROVE a.n < pending'[p][j].n
    BY <1>2, <1>3, <1>5
  <2>3. \A i \in 1..Len(pushed) : pushed[i].n <= raised BY DEF Ordered, PushedOlder
  <2>4. ASSUME NEW i \in 1..Len(pushed')
        PROVE  /\ pushed'[i].n <= raised'
               /\ \A q \in Producers : pushed'[i].by = q =>
                     \A j \in 1..Len(pending'[q]) : pushed'[i].n < pending'[q][j].n
    <3>1. CASE i \in 1..Len(pushed) BY <1>1, <1>6, <2>1, <2>3, <3>1
    <3>2. CASE i = Len(pushed) + 1 BY <1>1, <1>4, <1>6, <2>2, <3>2
    <3>. QED BY <1>6, <3>1, <3>2
  <2>. QED BY <2>4 DEF PushedOlder
<1>10. PushedOrdered'
  <2>1. ASSUME NEW i \in 1..Len(pushed'), NEW j \in 1..Len(pushed'),
               i < j, pushed'[i].by = pushed'[j].by
        PROVE  pushed'[i].n < pushed'[j].n
    <3>1. i \in 1..Len(pushed) BY <1>6, <2>1
    <3>2. CASE j \in 1..Len(pushed) BY <1>6, <2>1, <3>1, <3>2 DEF Ordered, PushedOrdered
    <3>3. CASE j = Len(pushed) + 1 BY <1>4, <1>6, <1>8, <2>1, <3>1, <3>3
    <3>. QED BY <1>6, <3>2, <3>3
  <2>. QED BY <2>1 DEF PushedOrdered
<1>. QED BY <1>7, <1>9, <1>10 DEF Ordered

LEMMA OrderedNext == Typed /\ Ordered /\ [Next]_vars => Ordered'
<1> SUFFICES ASSUME Typed, Ordered, [Next]_vars PROVE Ordered'
  OBVIOUS
<1> USE DEF Ordered, PendingOrdered, PushedOlder, PushedOrdered
<1>1. ASSUME NEW p \in Producers, Ingest(p) PROVE Ordered' BY <1>1, IngestOrdered
<1>2. ASSUME NEW p \in Producers, Count(p) PROVE Ordered' BY <1>2 DEF Count
<1>3. ASSUME NEW p \in Producers, Push(p) PROVE Ordered' BY <1>3, PushOrdered
<1>4. ASSUME Pop PROVE Ordered' BY <1>4 DEF Pop
<1>5. ASSUME UNCHANGED vars PROVE Ordered' BY <1>5 DEF vars
<1>. QED BY <1>1, <1>2, <1>3, <1>4, <1>5 DEF Next

\* The alerts of one producer enter the queue in the order they were raised, none twice.
THEOREM ProducerOrder == Spec => []OwnOrder
<1>1. Spec => []Ordered BY OrderedInit, OrderedNext, TypedAlways, PTL DEF Spec
<1>2. TypeOK /\ Ordered => OwnOrder
  BY LenProperties DEF TypeOK, Ordered, PushedOrdered, OwnOrder
<1>. QED BY <1>1, <1>2, TypeCorrect, PTL
=============================================================================
