------------------------ MODULE AnalyticsLink_proofs ------------------------
(***************************************************************************)
(* The accounts and the order of batches and scores, for any capacities,   *)
(* any number of batches and any number of broken streams.                 *)
(***************************************************************************)
EXTENDS AnalyticsLink, SequenceTheorems, TLAPS

\* The stream the worker holds has been broken, and the worker has not noticed yet.
Unnoticed == worker \in {"opening", "streaming", "forward"} /\ ~alive

Known == sent + dropped + Len(queue) + Len(hand)

\* A break can cost one batch, and a break that is unnoticed has not cost one yet.
Counting ==
    /\ exporter \in {"offer", "send"} => batchId >= 1
    /\ Known <= Offered
    /\ Offered <= Known + breaks
    /\ Unnoticed => Offered + 1 <= Known + breaks

Below(s, t) == \A i \in DOMAIN s, j \in DOMAIN t : s[i] < t[j]
UpTo(s, n) == \A i \in DOMAIN s : s[i] <= n

\* The batches read, in the stream, in forward's hands and queued, each in order and each
\* before the next.
Piped ==
    /\ Increasing(received) /\ Increasing(wire) /\ Increasing(hand) /\ Increasing(queue)
    /\ Below(received, wire) /\ Below(received, hand) /\ Below(received, queue)
    /\ Below(wire, hand) /\ Below(wire, queue) /\ Below(hand, queue)
    /\ UpTo(received, Offered) /\ UpTo(wire, Offered) /\ UpTo(hand, Offered) /\ UpTo(queue, Offered)

\* A score is of a batch that was read.
Of(s, t) == \A i \in DOMAIN s : \E j \in DOMAIN t : s[i] = t[j]

Returned ==
    /\ Increasing(drained) /\ Increasing(scores) /\ Increasing(responses)
    /\ Below(drained, scores) /\ Below(drained, responses) /\ Below(scores, responses)
    /\ Of(drained, received) /\ Of(scores, received) /\ Of(responses, received)

IInv == TypeOK /\ Counting /\ Piped /\ Returned

-----------------------------------------------------------------------------
(* Sequences.                                                               *)

\* What Append and Tail do, index by index.
LEMMA AppendAt ==
    ASSUME NEW S, NEW s \in Seq(S), NEW x \in S
    PROVE  /\ Append(s, x) \in Seq(S) /\ Len(Append(s, x)) = Len(s) + 1
           /\ DOMAIN Append(s, x) = 1..Len(s) + 1 /\ DOMAIN s = 1..Len(s) /\ Len(s) \in Nat
           /\ \A i \in 1..Len(s) : Append(s, x)[i] = s[i]
           /\ Append(s, x)[Len(s) + 1] = x
  BY AppendProperties, LenProperties

LEMMA TailAt ==
    ASSUME NEW S, NEW s \in Seq(S), s # <<>>
    PROVE  /\ Tail(s) \in Seq(S) /\ Len(Tail(s)) = Len(s) - 1 /\ Len(s) \in Nat \ {0}
           /\ DOMAIN Tail(s) = 1..Len(s) - 1 /\ DOMAIN s = 1..Len(s)
           /\ \A i \in 1..Len(s) - 1 : Tail(s)[i] = s[i + 1]
           /\ Head(s) = s[1] /\ Head(s) \in S
<1>1. Len(s) \in Nat \ {0}
  BY EmptySeq
<1>2. /\ Tail(s) \in Seq(S) /\ Len(Tail(s)) = Len(s) - 1
      /\ \A i \in 1..Len(Tail(s)) : Tail(s)[i] = s[i + 1]
      /\ Head(s) = s[1] /\ Head(s) \in S
  BY HeadTailProperties
<1>3. DOMAIN Tail(s) = 1..Len(Tail(s)) /\ DOMAIN s = 1..Len(s)
  BY <1>2, LenProperties
<1> QED
  BY <1>1, <1>2, <1>3

LEMMA ConcatAt ==
    ASSUME NEW S, NEW s \in Seq(S), NEW t \in Seq(S)
    PROVE  /\ s \o t \in Seq(S) /\ DOMAIN (s \o t) = 1..Len(s) + Len(t)
           /\ DOMAIN s = 1..Len(s) /\ DOMAIN t = 1..Len(t) /\ Len(s) \in Nat /\ Len(t) \in Nat
           /\ \A i \in 1..Len(s) : (s \o t)[i] = s[i]
           /\ \A i \in Len(s) + 1..Len(s) + Len(t) : (s \o t)[i] = t[i - Len(s)]
<1>1. /\ s \o t \in Seq(S) /\ Len(s \o t) = Len(s) + Len(t)
      /\ \A i \in 1..Len(s) + Len(t) : (s \o t)[i] = IF i <= Len(s) THEN s[i] ELSE t[i - Len(s)]
  BY ConcatProperties
<1>2. /\ DOMAIN (s \o t) = 1..Len(s \o t) /\ DOMAIN s = 1..Len(s) /\ DOMAIN t = 1..Len(t)
      /\ Len(s) \in Nat /\ Len(t) \in Nat
  BY <1>1, LenProperties
<1>3. ASSUME NEW i \in 1..Len(s) PROVE (s \o t)[i] = s[i]
  BY <1>1, <1>2
<1>4. ASSUME NEW i \in Len(s) + 1..Len(s) + Len(t) PROVE (s \o t)[i] = t[i - Len(s)]
  BY <1>1, <1>2
<1> QED
  BY <1>1, <1>2, <1>3, <1>4

\* An empty sequence is in order, and before and after everything.
LEMMA EmptyOrdered ==
    ASSUME NEW s, NEW n
    PROVE  /\ Increasing(<<>>) /\ Below(<<>>, s) /\ Below(s, <<>>) /\ UpTo(<<>>, n)
           /\ Of(<<>>, s)
<1>1. DOMAIN << >> = {}
  OBVIOUS
<1> QED
  BY <1>1 DEF Increasing, Below, UpTo, Of

\* Two sequences in order, the one before the other, make one in order, and the other way.
LEMMA JoinIncreasing ==
    ASSUME NEW s \in Seq(Nat), NEW t \in Seq(Nat), Increasing(s), Increasing(t), Below(s, t)
    PROVE  Increasing(s \o t)
<1>. DEFINE u == s \o t
<1>1. /\ DOMAIN u = 1..Len(s) + Len(t)
      /\ DOMAIN s = 1..Len(s) /\ DOMAIN t = 1..Len(t) /\ Len(s) \in Nat /\ Len(t) \in Nat
      /\ \A i \in 1..Len(s) : u[i] = s[i]
      /\ \A i \in Len(s) + 1..Len(s) + Len(t) : u[i] = t[i - Len(s)]
  BY ConcatAt
<1>. HIDE DEF u
<1>2. ASSUME NEW i \in DOMAIN u, NEW j \in DOMAIN u, i < j PROVE u[i] < u[j]
  <2>1. CASE j <= Len(s)
    BY <1>1, <1>2, <2>1 DEF Increasing
  <2>2. CASE i <= Len(s) /\ j > Len(s)
    <3>1. i \in DOMAIN s /\ j - Len(s) \in DOMAIN t
      BY <1>1, <2>2
    <3>2. u[i] = s[i] /\ u[j] = t[j - Len(s)]
      BY <1>1, <2>2
    <3> QED
      BY <3>1, <3>2 DEF Below
  <2>3. CASE i > Len(s)
    <3>1. i - Len(s) \in DOMAIN t /\ j - Len(s) \in DOMAIN t /\ i - Len(s) < j - Len(s)
      BY <1>1, <1>2, <2>3
    <3>2. i \in Len(s) + 1..Len(s) + Len(t) /\ j \in Len(s) + 1..Len(s) + Len(t)
      BY <1>1, <1>2, <2>3
    <3>3. u[i] = t[i - Len(s)] /\ u[j] = t[j - Len(s)]
      BY <1>1, <3>2
    <3> QED
      BY <3>1, <3>3 DEF Increasing
  <2> QED
    BY <1>1, <2>1, <2>2, <2>3
<1> QED
  BY <1>2 DEF Increasing, u

LEMMA JoinBelow ==
    ASSUME NEW s \in Seq(Nat), NEW t \in Seq(Nat), NEW u
    PROVE  /\ Below(s, u) /\ Below(t, u) => Below(s \o t, u)
           /\ Below(u, s) /\ Below(u, t) => Below(u, s \o t)
           /\ Of(s, u) /\ Of(t, u) => Of(s \o t, u)
           /\ \A n : UpTo(s, n) /\ UpTo(t, n) => UpTo(s \o t, n)
<1>. DEFINE v == s \o t
<1>1. \A i \in DOMAIN v : \/ i \in DOMAIN s /\ v[i] = s[i]
                          \/ i - Len(s) \in DOMAIN t /\ v[i] = t[i - Len(s)]
  <2>1. /\ DOMAIN v = 1..Len(s) + Len(t)
        /\ DOMAIN s = 1..Len(s) /\ DOMAIN t = 1..Len(t) /\ Len(s) \in Nat /\ Len(t) \in Nat
        /\ \A i \in 1..Len(s) : v[i] = s[i]
        /\ \A i \in Len(s) + 1..Len(s) + Len(t) : v[i] = t[i - Len(s)]
    BY ConcatAt
  <2>. HIDE DEF v
  <2>2. ASSUME NEW i \in DOMAIN v
        PROVE  \/ i \in DOMAIN s /\ v[i] = s[i]
               \/ i - Len(s) \in DOMAIN t /\ v[i] = t[i - Len(s)]
    <3>1. CASE i <= Len(s)
      BY <2>1, <3>1
    <3>2. CASE i > Len(s)
      <4>1. i \in Len(s) + 1..Len(s) + Len(t) /\ i - Len(s) \in 1..Len(t)
        BY <2>1, <3>2
      <4> QED
        BY <2>1, <4>1
    <3> QED
      BY <2>1, <3>1, <3>2
  <2> QED
    BY <2>2
<1>. HIDE DEF v
<1>2. Below(s, u) /\ Below(t, u) => Below(v, u)
  BY <1>1 DEF Below
<1>3. Below(u, s) /\ Below(u, t) => Below(u, v)
  BY <1>1 DEF Below
<1>4. Of(s, u) /\ Of(t, u) => Of(v, u)
  BY <1>1 DEF Of
<1>5. \A n : UpTo(s, n) /\ UpTo(t, n) => UpTo(v, n)
  BY <1>1 DEF UpTo
<1> QED
  BY <1>2, <1>3, <1>4, <1>5 DEF v

\* The rest of a sequence is as well ordered as the sequence, and behind its head.
LEMMA RestOrdered ==
    ASSUME NEW s \in Seq(Nat), s # <<>>, Increasing(s)
    PROVE  /\ Increasing(Tail(s)) /\ \A j \in DOMAIN Tail(s) : Head(s) < Tail(s)[j]
           /\ \A t : Below(s, t) => Below(Tail(s), t) /\ \A j \in DOMAIN t : Head(s) < t[j]
           /\ \A t : Below(t, s) => Below(t, Tail(s)) /\ \A j \in DOMAIN t : t[j] < Head(s)
           /\ \A n : UpTo(s, n) => UpTo(Tail(s), n) /\ Head(s) <= n
           /\ \A t : Of(s, t) => Of(Tail(s), t)
<1>1. /\ Tail(s) \in Seq(Nat) /\ Len(s) \in Nat \ {0}
      /\ DOMAIN Tail(s) = 1..Len(s) - 1 /\ DOMAIN s = 1..Len(s)
      /\ \A i \in 1..Len(s) - 1 : Tail(s)[i] = s[i + 1]
      /\ Head(s) = s[1]
  BY TailAt
<1>2. \A i \in DOMAIN Tail(s) : i + 1 \in DOMAIN s /\ Tail(s)[i] = s[i + 1] /\ 1 < i + 1
  BY <1>1
<1>3. 1 \in DOMAIN s
  BY <1>1
<1>4. Increasing(Tail(s))
  <2>1. ASSUME NEW i \in DOMAIN Tail(s), NEW j \in DOMAIN Tail(s), i < j
        PROVE  Tail(s)[i] < Tail(s)[j]
    <3>1. i + 1 < j + 1
      BY <1>1, <2>1
    <3> QED
      BY <1>2, <3>1 DEF Increasing
  <2> QED
    BY <2>1 DEF Increasing
<1>5. \A j \in DOMAIN Tail(s) : Head(s) < Tail(s)[j]
  BY <1>1, <1>2, <1>3 DEF Increasing
<1>6. \A t : Below(s, t) => Below(Tail(s), t) /\ \A j \in DOMAIN t : Head(s) < t[j]
  BY <1>1, <1>2, <1>3 DEF Below
<1>7. \A t : Below(t, s) => Below(t, Tail(s)) /\ \A j \in DOMAIN t : t[j] < Head(s)
  BY <1>1, <1>2, <1>3 DEF Below
<1>8. \A n : UpTo(s, n) => UpTo(Tail(s), n) /\ Head(s) <= n
  BY <1>1, <1>2, <1>3 DEF UpTo
<1>9. \A t : Of(s, t) => Of(Tail(s), t)
  BY <1>2 DEF Of
<1> QED
  BY <1>4, <1>5, <1>6, <1>7, <1>8, <1>9

\* A number above all of a sequence extends it.
LEMMA ExtendOrdered ==
    ASSUME NEW s \in Seq(Nat), NEW n \in Nat
    PROVE  /\ Increasing(s) /\ (\A i \in DOMAIN s : s[i] < n) => Increasing(Append(s, n))
           /\ \A t : Below(s, t) /\ (\A j \in DOMAIN t : n < t[j]) => Below(Append(s, n), t)
           /\ \A t : Below(t, s) /\ (\A j \in DOMAIN t : t[j] < n) => Below(t, Append(s, n))
           /\ \A m : UpTo(s, m) /\ n <= m => UpTo(Append(s, n), m)
           /\ \A t : Of(s, t) /\ (\E j \in DOMAIN t : n = t[j]) => Of(Append(s, n), t)
           /\ \A t : Of(t, s) => Of(t, Append(s, n))
           /\ \E j \in DOMAIN Append(s, n) : n = Append(s, n)[j]
<1>1. /\ DOMAIN Append(s, n) = 1..Len(s) + 1 /\ DOMAIN s = 1..Len(s) /\ Len(s) \in Nat
      /\ \A i \in 1..Len(s) : Append(s, n)[i] = s[i]
      /\ Append(s, n)[Len(s) + 1] = n
  BY AppendAt
<1>2. \A i \in DOMAIN Append(s, n) : \/ i \in DOMAIN s /\ Append(s, n)[i] = s[i]
                                     \/ i = Len(s) + 1 /\ Append(s, n)[i] = n
  BY <1>1
<1>3. ASSUME Increasing(s), \A i \in DOMAIN s : s[i] < n PROVE Increasing(Append(s, n))
  <2>1. ASSUME NEW i \in DOMAIN Append(s, n), NEW j \in DOMAIN Append(s, n), i < j
        PROVE  Append(s, n)[i] < Append(s, n)[j]
    <3>1. i \in DOMAIN s /\ Append(s, n)[i] = s[i]
      BY <1>1, <2>1
    <3>2. CASE j \in DOMAIN s /\ Append(s, n)[j] = s[j]
      BY <1>3, <2>1, <3>1, <3>2 DEF Increasing
    <3>3. CASE Append(s, n)[j] = n
      BY <1>3, <3>1, <3>3
    <3> QED
      BY <1>2, <3>2, <3>3
  <2> QED
    BY <2>1 DEF Increasing
<1>4. \A t : Below(s, t) /\ (\A j \in DOMAIN t : n < t[j]) => Below(Append(s, n), t)
  BY <1>2 DEF Below
<1>5. \A t : Below(t, s) /\ (\A j \in DOMAIN t : t[j] < n) => Below(t, Append(s, n))
  BY <1>2 DEF Below
<1>6. \A m : UpTo(s, m) /\ n <= m => UpTo(Append(s, n), m)
  BY <1>2 DEF UpTo
<1>7. \A t : Of(s, t) /\ (\E j \in DOMAIN t : n = t[j]) => Of(Append(s, n), t)
  BY <1>2 DEF Of
<1>8. \A t : Of(t, s) => Of(t, Append(s, n))
  <2>1. \A i \in DOMAIN s : i \in DOMAIN Append(s, n) /\ Append(s, n)[i] = s[i]
    BY <1>1
  <2> QED
    BY <2>1 DEF Of
<1>9. \E j \in DOMAIN Append(s, n) : n = Append(s, n)[j]
  <2>1. Len(s) + 1 \in DOMAIN Append(s, n)
    BY <1>1
  <2> QED
    BY <1>1, <2>1
<1> QED
  BY <1>3, <1>4, <1>5, <1>6, <1>7, <1>8, <1>9

\* Batch numbers are numbers.
LEMMA Numbers ==
    ASSUME NEW s \in Seq(Batches)
    PROVE  s \in Seq(Nat) /\ Len(s) \in Nat /\ DOMAIN s = 1..Len(s)
           /\ \A i \in DOMAIN s : s[i] \in Nat
<1>1. Batches \subseteq Nat
  BY LinkAssumption DEF Batches
<1>2. Len(s) \in Nat /\ DOMAIN s = 1..Len(s) /\ \A i \in 1..Len(s) : s[i] \in Batches
  BY LenProperties, ElementOfSeq
<1>3. s \in Seq(Nat)
  BY <1>1, SeqMonotonic
<1> QED
  BY <1>1, <1>2, <1>3

LEMMA Numbered ==
    ASSUME TypeOK
    PROVE  /\ received \in Seq(Nat) /\ wire \in Seq(Nat) /\ hand \in Seq(Nat) /\ queue \in Seq(Nat)
           /\ drained \in Seq(Nat) /\ scores \in Seq(Nat) /\ responses \in Seq(Nat)
  BY Numbers DEF TypeOK, DataTypes

-----------------------------------------------------------------------------
(* The invariant.                                                           *)

LEMMA Initially == Init => IInv
<1>. SUFFICES ASSUME Init PROVE IInv
  OBVIOUS
<1>1. << >> \in Seq(Batches) /\ Len(<< >>) = 0
  BY EmptySeq
<1>2. TypeOK
  <2>1. DataTypes
    BY <1>1, LinkAssumption DEF Init, DataTypes
  <2>2. FlagTypes
    BY DEF Init, FlagTypes
  <2> QED
    BY <2>1, <2>2 DEF TypeOK
<1>3. Counting
  BY <1>1 DEF Init, Counting, Known, Offered, Unnoticed
<1>4. Piped
  BY EmptyOrdered DEF Init, Piped
<1>5. Returned
  BY EmptyOrdered DEF Init, Returned
<1> QED
  BY <1>2, <1>3, <1>4, <1>5 DEF IInv

\* The wait between two attempts stays within its limits.
LEMMA LongerStays == ASSUME NEW b \in 1..MaxBackoff PROVE Longer(b) \in 1..MaxBackoff
  BY LinkAssumption DEF Longer


LEMMA DataStep ==
    ASSUME DataTypes, Counting, Next PROVE DataTypes'
<1>. USE DEF feed, handed, stream, service
<1>0. /\ Len(queue) \in Nat /\ Len(wire) \in Nat /\ Len(hand) \in Nat
      /\ << >> \in Seq(Batches) /\ Len(<< >>) = 0 /\ BatchQueue \in Nat
  BY LenProperties, EmptySeq, LinkAssumption DEF DataTypes
<1>1. CASE Wake
  BY <1>1 DEF Wake, DataTypes
<1>2. CASE Export
  BY <1>2, LinkAssumption DEF Export, DataTypes
<1>3. CASE OfferCheck
  BY <1>3 DEF OfferCheck, DataTypes
<1>4. CASE TrySend
  <2>1. batchId \in Batches
    BY <1>4, LinkAssumption DEF TrySend, Counting, DataTypes, Batches
  <2>2. Append(queue, batchId) \in Seq(Batches) /\ Len(Append(queue, batchId)) = Len(queue) + 1
    BY <2>1, AppendAt DEF DataTypes
  <2>3. /\ exporter' = "drain" /\ dropped' \in Nat
        /\ queue' \in Seq(Batches) /\ Len(queue') <= BatchQueue
    <3>1. CASE Len(queue) < BatchQueue /\ worker # "done"
      <4>1. queue' = Append(queue, batchId) /\ dropped' = dropped
        BY <1>4, <3>1 DEF TrySend
      <4> QED
        BY <1>0, <1>4, <2>2, <3>1, <4>1 DEF TrySend, DataTypes
    <3>2. CASE ~(Len(queue) < BatchQueue /\ worker # "done")
      <4>1. queue' = queue /\ dropped' = dropped + 1
        BY <1>4, <3>2 DEF TrySend, Reject
      <4> QED
        BY <1>4, <4>1 DEF TrySend, DataTypes
    <3> QED
      BY <3>1, <3>2
  <2> QED
    BY <1>4, <2>3 DEF TrySend, DataTypes
<1>5. CASE DrainScores
  <2>1. drained \o scores \in Seq(Batches)
    BY ConcatAt DEF DataTypes
  <2> QED
    BY <1>0, <1>5, <2>1 DEF DrainScores, DrainTakes, DataTypes
<1>6. CASE StopExporter \/ SignalShutdown \/ JoinWorker
  BY <1>6 DEF StopExporter, SignalShutdown, JoinWorker, DataTypes
<1>7. CASE ConnectOk
  BY <1>0, <1>7, LinkAssumption DEF ConnectOk, DataTypes
<1>8. CASE ConnectFails
  BY <1>8 DEF ConnectFails, DataTypes
<1>9. CASE LoseStream \/ ForwardFails
  <2>1. /\ worker' = "wait" /\ state' = "Disconnected"
        /\ hand' = << >> /\ wire' = << >> /\ responses' = << >>
        /\ UNCHANGED <<owner, exporter, batchId, sent, dropped, queue, resume, backoff, breaks,
                       received, scores, drained>>
    BY <1>9 DEF LoseStream, ForwardFails, Lost
  <2> QED
    BY <1>0, <2>1 DEF DataTypes
<1>10. CASE StreamStarts
  BY <1>10 DEF StreamStarts, DataTypes
<1>11. CASE TakeBatch
  <2>1. /\ Tail(queue) \in Seq(Batches) /\ Len(Tail(queue)) = Len(queue) - 1
        /\ Head(queue) \in Batches
    BY <1>11, TailAt DEF TakeBatch, DataTypes
  <2>2. <<Head(queue)>> \in Seq(Batches) /\ Len(<<Head(queue)>>) = 1
    BY <2>1
  <2>3. /\ queue' \in Seq(Batches) /\ Len(queue') <= BatchQueue
        /\ hand' \in Seq(Batches) /\ Len(hand') = 1
        /\ worker' = "forward" /\ resume' \in {"opening", "streaming"}
    BY <1>0, <1>11, <2>1, <2>2 DEF TakeBatch, Dequeue, Forwarding, DataTypes
  <2> QED
    BY <1>11, <2>3 DEF TakeBatch, DataTypes
<1>12. CASE ForwardOk
  <2>1. wire \o hand \in Seq(Batches) /\ Len(wire \o hand) = Len(wire) + 1
    <3>1. Len(hand) = 1
      BY <1>12 DEF ForwardOk, DataTypes
    <3>2. wire \o hand \in Seq(Batches) /\ Len(wire \o hand) = Len(wire) + Len(hand)
      BY ConcatProperties DEF DataTypes
    <3> QED
      BY <3>1, <3>2
  <2>2. /\ wire' \in Seq(Batches) /\ Len(wire') <= BatchQueue
        /\ hand' = << >> /\ sent' \in Nat /\ worker' \in {"opening", "streaming"}
    BY <1>0, <1>12, <2>1 DEF ForwardOk, DataTypes
  <2> QED
    BY <1>0, <1>12, <2>2 DEF ForwardOk, DataTypes
<1>13. CASE TakeScore
  <2>1. Tail(responses) \in Seq(Batches) /\ Head(responses) \in Batches
    BY <1>13, TailAt DEF TakeScore, DataTypes
  <2>2. Append(scores, Head(responses)) \in Seq(Batches)
    BY <2>1, AppendAt DEF DataTypes
  <2> QED
    BY <1>13, <2>1, <2>2 DEF TakeScore, DataTypes
<1>14. CASE DropQueued
  <2>1. Tail(queue) \in Seq(Batches) /\ Len(Tail(queue)) = Len(queue) - 1
    BY <1>14, TailAt DEF DropQueued, DataTypes
  <2> QED
    BY <1>0, <1>14, <2>1 DEF DropQueued, Dequeue, DataTypes
<1>15. CASE BackoffOver
  BY <1>15, LongerStays DEF BackoffOver, TryAgain, DataTypes
<1>16. CASE SeeShutdown
  BY <1>0, <1>16 DEF SeeShutdown, Listening, DataTypes
<1>17. CASE ServiceReads
  <2>1. /\ Tail(wire) \in Seq(Batches) /\ Len(Tail(wire)) = Len(wire) - 1
        /\ Head(wire) \in Batches
    BY <1>17, TailAt DEF ServiceReads, DataTypes
  <2>2. /\ Append(received, Head(wire)) \in Seq(Batches)
        /\ Append(responses, Head(wire)) \in Seq(Batches)
    BY <2>1, AppendAt DEF DataTypes
  <2> QED
    <3>1. /\ received' = Append(received, Head(wire)) /\ wire' = Tail(wire)
          /\ responses' = responses \/ responses' = Append(responses, Head(wire))
          /\ UNCHANGED <<owner, exporter, batchId, state, sent, dropped, queue, worker, hand,
                         resume, backoff, breaks, scores, drained>>
      BY <1>17 DEF ServiceReads
    <3>2. /\ received' \in Seq(Batches) /\ wire' \in Seq(Batches) /\ Len(wire') <= BatchQueue
      BY <1>0, <2>1, <2>2, <3>1 DEF DataTypes
    <3>3. responses' \in Seq(Batches)
      BY <2>2, <3>1 DEF DataTypes
    <3> QED
      BY <3>1, <3>2, <3>3 DEF DataTypes
<1>18. CASE ServiceBreaks
  BY <1>18, LinkAssumption DEF ServiceBreaks, DataTypes
<1>19. CASE ServiceRestarts
  <2>1. stream' = stream
    BY <1>19 DEF ServiceRestarts
  <2>2. wire' = wire /\ received' = received /\ responses' = responses
    BY <2>1
  <2>3. UNCHANGED <<owner, exporter, batchId, state, sent, dropped, queue, worker, hand,
                    resume, backoff, breaks, scores, drained>>
    BY <1>19 DEF ServiceRestarts
  <2> QED
    BY <2>2, <2>3 DEF DataTypes
<1> QED
  BY <1>1, <1>2, <1>3, <1>4, <1>5, <1>6, <1>7, <1>8, <1>9, <1>10, <1>11, <1>12, <1>13, <1>14,
     <1>15, <1>16, <1>17, <1>18, <1>19 DEF Next, ExporterStep, WorkerStep

LEMMA FlagStep ==
    ASSUME FlagTypes, Next PROVE FlagTypes'
<1>. USE DEF feed, handed, stream, service
<1>1. CASE Wake \/ Export \/ OfferCheck \/ TrySend \/ DrainScores
  BY <1>1 DEF Wake, Export, OfferCheck, TrySend, DrainScores, FlagTypes
<1>2. CASE StopExporter \/ SignalShutdown \/ JoinWorker
  BY <1>2 DEF StopExporter, SignalShutdown, JoinWorker, FlagTypes
<1>3. CASE ConnectOk \/ ConnectFails
  BY <1>3 DEF ConnectOk, ConnectFails, FlagTypes
<1>4. CASE LoseStream \/ ForwardFails
  BY <1>4 DEF LoseStream, ForwardFails, Lost, FlagTypes
<1>5. CASE StreamStarts \/ TakeBatch \/ ForwardOk \/ TakeScore
  BY <1>5 DEF StreamStarts, TakeBatch, ForwardOk, TakeScore, FlagTypes
<1>6. CASE DropQueued \/ BackoffOver
  BY <1>6 DEF DropQueued, BackoffOver, FlagTypes
<1>7. CASE SeeShutdown
  BY <1>7 DEF SeeShutdown, FlagTypes
<1>8. CASE ServiceReads
  BY <1>8 DEF ServiceReads, FlagTypes
<1>9. CASE ServiceBreaks
  BY <1>9 DEF ServiceBreaks, FlagTypes
<1>10. CASE ServiceRestarts
  BY <1>10 DEF ServiceRestarts, FlagTypes
<1> QED
  BY <1>1, <1>2, <1>3, <1>4, <1>5, <1>6, <1>7, <1>8, <1>9, <1>10
  DEF Next, ExporterStep, WorkerStep

LEMMA TypeStep ==
    ASSUME TypeOK, Counting, Next PROVE TypeOK'
<1>1. DataTypes' /\ FlagTypes'
  BY DataStep, FlagStep DEF TypeOK
<1> QED
  BY <1>1 DEF TypeOK

LEMMA CountingStep ==
    ASSUME TypeOK, Counting, Next PROVE Counting'
<1>. USE DEF feed, handed, stream, service
<1>0. /\ Len(queue) \in Nat /\ Len(wire) \in Nat /\ Len(hand) \in Nat /\ Len(hand) = (IF worker = "forward" THEN 1 ELSE 0)
      /\ Len(<< >>) = 0 /\ batchId \in Nat /\ sent \in Nat /\ dropped \in Nat /\ breaks \in Nat
  BY LenProperties, EmptySeq, LinkAssumption DEF TypeOK, DataTypes
<1>a. Len(queue) \in Nat /\ Len(hand) \in Nat /\ sent \in Nat /\ dropped \in Nat
  BY <1>0
<1>1. CASE Wake \/ DrainScores
  BY <1>0, <1>1 DEF Wake, DrainScores, Counting, Known, Offered, Unnoticed
<1>2. CASE Export
  <2>1. Known' = Known /\ (Unnoticed' <=> Unnoticed) /\ breaks' = breaks
    BY <1>2 DEF Export, Known, Unnoticed
  <2>2. Offered' = Offered /\ (exporter' \in {"offer", "send"} => batchId' >= 1)
    BY <1>0, <1>2 DEF Export, Offered
  <2> QED
    BY <2>1, <2>2 DEF Counting
<1>3. CASE OfferCheck
  <2>1. (Unnoticed' <=> Unnoticed) /\ breaks' = breaks /\ batchId' = batchId
    BY <1>3 DEF OfferCheck, Unnoticed
  <2>2. \/ Known' = Known /\ Offered' = Offered
        \/ Known' = Known + 1 /\ Offered' = Offered + 1
    <3>1. /\ sent' = sent /\ queue' = queue /\ hand' = hand /\ batchId' = batchId
          /\ exporter = "offer"
          /\ \/ exporter' = "send" /\ dropped' = dropped
             \/ exporter' = "drain" /\ dropped' = dropped + 1
      BY <1>3 DEF OfferCheck
    <3>2. CASE exporter' = "send" /\ dropped' = dropped
      BY <3>1, <3>2 DEF Offered, Known
    <3>3. CASE exporter' = "drain" /\ dropped' = dropped + 1
      <4>1. Known' = Known + 1
        BY <1>a, <3>1, <3>3 DEF Known
      <4>2. Offered' = Offered + 1
        BY <1>0, <3>1, <3>3 DEF Offered
      <4> QED
        BY <4>1, <4>2
    <3> QED
      BY <3>1, <3>2, <3>3
  <2>3. exporter = "offer" /\ Known \in Nat /\ Offered \in Int
    BY <1>0, <1>3 DEF OfferCheck, Known, Offered
  <2> QED
    BY <1>0, <2>1, <2>2, <2>3 DEF Counting
<1>4. CASE TrySend
  <2>1. Known' = Known + 1
    <3>1. CASE Len(queue) < BatchQueue /\ worker # "done"
      <4>1. batchId \in Batches
        BY <1>4, LinkAssumption DEF TrySend, Counting, TypeOK, DataTypes, Batches
      <4>2. Len(Append(queue, batchId)) = Len(queue) + 1
        BY <4>1, AppendAt DEF TypeOK, DataTypes
      <4>3. queue' = Append(queue, batchId) /\ dropped' = dropped /\ sent' = sent /\ hand' = hand
        BY <1>4, <3>1 DEF TrySend
      <4> QED
        BY <1>a, <4>2, <4>3 DEF Known
    <3>2. CASE ~(Len(queue) < BatchQueue /\ worker # "done")
      <4>1. queue' = queue /\ dropped' = dropped + 1 /\ sent' = sent /\ hand' = hand
        BY <1>4, <3>2 DEF TrySend, Reject
      <4> QED
        BY <1>a, <4>1 DEF Known
    <3> QED
      BY <3>1, <3>2
  <2>2. Offered' = Offered + 1
    BY <1>0, <1>4 DEF TrySend, Offered
  <2>3. (Unnoticed' <=> Unnoticed) /\ breaks' = breaks /\ exporter' = "drain"
    BY <1>4 DEF TrySend, Unnoticed
  <2>4. Known \in Nat /\ Offered \in Int
    BY <1>0 DEF Known, Offered
  <2> QED
    BY <1>0, <2>1, <2>2, <2>3, <2>4 DEF Counting
<1>5. CASE StopExporter \/ SignalShutdown \/ JoinWorker
  BY <1>0, <1>5 DEF StopExporter, SignalShutdown, JoinWorker, Counting, Known, Offered, Unnoticed
<1>6. CASE ConnectOk
  BY <1>0, <1>6 DEF ConnectOk, Counting, Known, Offered, Unnoticed
<1>7. CASE ConnectFails
  BY <1>0, <1>7 DEF ConnectFails, Counting, Known, Offered, Unnoticed
<1>8. CASE LoseStream \/ ForwardFails
  BY <1>0, <1>8 DEF LoseStream, ForwardFails, Lost, Counting, Known, Offered, Unnoticed
<1>9. CASE StreamStarts
  BY <1>0, <1>9 DEF StreamStarts, Counting, Known, Offered, Unnoticed
<1>10. CASE TakeBatch
  <2>1. Len(Tail(queue)) = Len(queue) - 1 /\ Len(<<Head(queue)>>) = 1
    BY <1>10, TailAt DEF TakeBatch, TypeOK
  <2>2. Known' = Known
    BY <1>0, <1>10, <2>1 DEF TakeBatch, Dequeue, Forwarding, Known
  <2> QED
    BY <1>0, <1>10, <2>2 DEF TakeBatch, Forwarding, Counting, Offered, Unnoticed
<1>11. CASE ForwardOk
  BY <1>0, <1>11 DEF ForwardOk, Counting, Known, Offered, Unnoticed
<1>12. CASE TakeScore
  BY <1>0, <1>12 DEF TakeScore, Counting, Known, Offered, Unnoticed
<1>13. CASE DropQueued
  <2>1. Len(Tail(queue)) = Len(queue) - 1
    BY <1>13, TailAt DEF DropQueued, TypeOK
  <2> QED
    BY <1>0, <1>13, <2>1 DEF DropQueued, Dequeue, Counting, Known, Offered, Unnoticed
<1>14. CASE BackoffOver
  BY <1>0, <1>14 DEF BackoffOver, TryAgain, Counting, Known, Offered, Unnoticed
<1>15. CASE SeeShutdown
  BY <1>0, <1>15 DEF SeeShutdown, Listening, Counting, Known, Offered, Unnoticed
<1>16. CASE ServiceReads
  BY <1>0, <1>16 DEF ServiceReads, Counting, Known, Offered, Unnoticed
<1>17. CASE ServiceBreaks
  <2>1. /\ Known' = Known /\ Offered' = Offered /\ breaks' = breaks + 1
        /\ exporter' = exporter /\ batchId' = batchId
    BY <1>17 DEF ServiceBreaks, Known, Offered
  <2>2. Known \in Nat /\ Offered \in Int
    BY <1>0 DEF Known, Offered
  <2> QED
    BY <1>0, <2>1, <2>2 DEF Counting
<1>18. CASE ServiceRestarts
  BY <1>0, <1>18 DEF ServiceRestarts, Counting, Known, Offered, Unnoticed
<1> QED
  BY <1>1, <1>2, <1>3, <1>4, <1>5, <1>6, <1>7, <1>8, <1>9, <1>10, <1>11, <1>12, <1>13, <1>14,
     <1>15, <1>16, <1>17, <1>18 DEF Next, ExporterStep, WorkerStep

-----------------------------------------------------------------------------
(* Batches stay in order.                                                   *)

LEMMA UpToMore ==
    ASSUME NEW s \in Seq(Nat), NEW m \in Int, NEW n \in Int, m <= n, UpTo(s, m)
    PROVE  UpTo(s, n)
<1>1. \A i \in DOMAIN s : s[i] \in Nat
  BY LenProperties, ElementOfSeq
<1> QED
  BY <1>1 DEF UpTo

\* One batch on its own.
LEMMA OneOrdered ==
    ASSUME NEW n \in Nat
    PROVE  /\ Increasing(<<n>>)
           /\ \A t : (\A j \in DOMAIN t : n < t[j]) => Below(<<n>>, t)
           /\ \A t : (\A j \in DOMAIN t : t[j] < n) => Below(t, <<n>>)
           /\ \A m : n <= m => UpTo(<<n>>, m)
<1>1. DOMAIN <<n>> = {1} /\ <<n>>[1] = n
  OBVIOUS
<1> QED
  BY <1>1 DEF Increasing, Below, UpTo

LEMMA OfferedNumber == ASSUME TypeOK PROVE Offered \in Int
  BY LinkAssumption DEF TypeOK, DataTypes, Offered

\* Nothing moves in the pipe.
LEMMA PipeRests ==
    ASSUME TypeOK, TypeOK', Piped, Offered <= Offered',
           received' = received, wire' = wire, hand' = hand, queue' = queue
    PROVE  Piped'
<1>1. Offered \in Int /\ Offered' \in Int
  <2>1. Offered \in Int
    BY OfferedNumber
  <2>2. Offered' \in Int
    BY LinkAssumption DEF TypeOK, DataTypes, Offered
  <2> QED
    BY <2>1, <2>2
<1>2. /\ received \in Seq(Nat) /\ wire \in Seq(Nat) /\ hand \in Seq(Nat) /\ queue \in Seq(Nat)
  BY Numbered
<1>3. /\ UpTo(received, Offered') /\ UpTo(wire, Offered')
      /\ UpTo(hand, Offered') /\ UpTo(queue, Offered')
  BY <1>1, <1>2, UpToMore DEF Piped
<1> QED
  BY <1>3 DEF Piped

\* The stream is gone, with what forward held or without.
LEMMA PipeLosesStream ==
    ASSUME Piped, Offered' = Offered, received' = received, queue' = queue,
           wire' = <<>>, hand' = hand \/ hand' = <<>>
    PROVE  Piped'
<1>1. \A t : Below(<<>>, t) /\ Below(t, <<>>)
  BY EmptyOrdered
<1>2. Increasing(<<>>) /\ UpTo(<<>>, Offered)
  BY EmptyOrdered
<1>3. CASE hand' = hand
  BY <1>1, <1>2, <1>3 DEF Piped
<1>4. CASE hand' = <<>>
  BY <1>1, <1>2, <1>4 DEF Piped
<1> QED
  BY <1>3, <1>4

LEMMA PipedStep ==
    ASSUME TypeOK, Counting, Piped, Next PROVE Piped'
<1>. USE DEF feed, handed, stream, service
<1>0. /\ received \in Seq(Nat) /\ wire \in Seq(Nat) /\ hand \in Seq(Nat) /\ queue \in Seq(Nat)
      /\ TypeOK' /\ Offered \in Int /\ batchId \in Nat
  BY Numbered, TypeStep, OfferedNumber, LinkAssumption DEF TypeOK, DataTypes
<1>1. CASE Wake \/ DrainScores
  <2>1. Offered' = Offered
    BY <1>1 DEF Wake, DrainScores, Offered
  <2>2. received' = received /\ wire' = wire /\ hand' = hand /\ queue' = queue
    BY <1>1 DEF Wake, DrainScores
  <2> QED
    BY <1>0, <2>1, <2>2, PipeRests
<1>2. CASE Export
  <2>1. Offered' = Offered
    BY <1>0, <1>2 DEF Export, Offered
  <2>2. received' = received /\ wire' = wire /\ hand' = hand /\ queue' = queue
    BY <1>2 DEF Export
  <2> QED
    BY <1>0, <2>1, <2>2, PipeRests
<1>3. CASE OfferCheck
  <2>1. Offered <= Offered'
    <3>1. exporter = "offer" /\ exporter' \in {"send", "drain"} /\ batchId' = batchId
      BY <1>3 DEF OfferCheck
    <3> QED
      BY <1>0, <3>1 DEF Offered
  <2>2. received' = received /\ wire' = wire /\ hand' = hand /\ queue' = queue
    BY <1>3 DEF OfferCheck
  <2> QED
    BY <1>0, <2>1, <2>2, PipeRests
<1>4. CASE TrySend
  <2>1. Offered = batchId - 1 /\ Offered' = batchId
    BY <1>4 DEF TrySend, Offered
  <2>2. received' = received /\ wire' = wire /\ hand' = hand
    BY <1>4 DEF TrySend
  <2>3. CASE queue' = queue
    BY <1>0, <2>1, <2>2, <2>3, PipeRests
  <2>4. CASE queue' = Append(queue, batchId)
    <3>1. \A t \in Seq(Nat) : UpTo(t, Offered) => UpTo(t, batchId) /\ \A i \in DOMAIN t : t[i] < batchId
      <4>1. ASSUME NEW t \in Seq(Nat), UpTo(t, Offered)
            PROVE  UpTo(t, batchId) /\ \A i \in DOMAIN t : t[i] < batchId
        <5>1. \A i \in DOMAIN t : t[i] \in Nat
          BY LenProperties, ElementOfSeq
        <5> QED
          BY <1>0, <2>1, <4>1, <5>1 DEF UpTo
      <4> QED
        BY <4>1
    <3>2. /\ UpTo(received, batchId) /\ UpTo(wire, batchId) /\ UpTo(hand, batchId)
          /\ UpTo(queue, batchId) /\ \A i \in DOMAIN queue : queue[i] < batchId
          /\ \A i \in DOMAIN received : received[i] < batchId
          /\ \A i \in DOMAIN wire : wire[i] < batchId
          /\ \A i \in DOMAIN hand : hand[i] < batchId
      BY <1>0, <3>1 DEF Piped
    <3>3. /\ Increasing(queue') /\ UpTo(queue', batchId)
          /\ Below(received, queue') /\ Below(wire, queue') /\ Below(hand, queue')
      <4>1. Increasing(Append(queue, batchId))
        BY <1>0, <3>2, ExtendOrdered DEF Piped
      <4>2. batchId <= batchId
        BY <1>0
      <4>3. UpTo(Append(queue, batchId), batchId)
        BY <1>0, <3>2, <4>2, ExtendOrdered
      <4>4. /\ Below(received, Append(queue, batchId)) /\ Below(wire, Append(queue, batchId))
            /\ Below(hand, Append(queue, batchId))
        BY <1>0, <3>2, ExtendOrdered DEF Piped
      <4> QED
        BY <2>4, <4>1, <4>3, <4>4
    <3> QED
      BY <2>1, <2>2, <3>2, <3>3 DEF Piped
  <2> QED
    BY <1>4, <2>3, <2>4 DEF TrySend, Reject
<1>5. CASE StopExporter \/ SignalShutdown \/ JoinWorker
  <2>1. Offered' = Offered
    BY <1>5 DEF StopExporter, SignalShutdown, JoinWorker, Offered
  <2>2. received' = received /\ wire' = wire /\ hand' = hand /\ queue' = queue
    BY <1>5 DEF StopExporter, SignalShutdown, JoinWorker
  <2> QED
    BY <1>0, <2>1, <2>2, PipeRests
<1>6. CASE ConnectOk \/ LoseStream \/ ForwardFails \/ SeeShutdown
  <2>1. Offered' = Offered
    BY <1>6 DEF ConnectOk, LoseStream, ForwardFails, Lost, SeeShutdown, Offered
  <2>2. received' = received /\ queue' = queue /\ wire' = <<>> /\ (hand' = hand \/ hand' = <<>>)
    BY <1>6 DEF ConnectOk, LoseStream, ForwardFails, Lost, SeeShutdown
  <2> QED
    BY <2>1, <2>2, PipeLosesStream
<1>7. CASE ConnectFails \/ StreamStarts \/ TakeScore \/ BackoffOver
  <2>1. Offered' = Offered
    BY <1>7 DEF ConnectFails, StreamStarts, TakeScore, BackoffOver, Offered
  <2>2. received' = received /\ wire' = wire /\ hand' = hand /\ queue' = queue
    BY <1>7 DEF ConnectFails, StreamStarts, TakeScore, BackoffOver
  <2> QED
    BY <1>0, <2>1, <2>2, PipeRests
<1>8. CASE TakeBatch
  <2>1. Offered' = Offered
    BY <1>8 DEF TakeBatch, Offered
  <2>2. /\ received' = received /\ wire' = wire /\ hand' = <<Head(queue)>>
        /\ queue # <<>> /\ queue' = Tail(queue)
    BY <1>8 DEF TakeBatch, Dequeue
  <2>3. /\ Increasing(Tail(queue)) /\ UpTo(Tail(queue), Offered) /\ Head(queue) <= Offered
        /\ Below(received, Tail(queue)) /\ Below(wire, Tail(queue))
        /\ \A j \in DOMAIN Tail(queue) : Head(queue) < Tail(queue)[j]
        /\ \A j \in DOMAIN received : received[j] < Head(queue)
        /\ \A j \in DOMAIN wire : wire[j] < Head(queue)
    BY <1>0, <2>2, RestOrdered DEF Piped
  <2>4. Head(queue) \in Nat
    BY <1>0, <2>2, TailAt
  <2>5. /\ Increasing(<<Head(queue)>>) /\ UpTo(<<Head(queue)>>, Offered)
        /\ Below(received, <<Head(queue)>>) /\ Below(wire, <<Head(queue)>>)
        /\ Below(<<Head(queue)>>, Tail(queue))
    BY <2>3, <2>4, OneOrdered
  <2> QED
    BY <2>1, <2>2, <2>3, <2>5 DEF Piped
<1>9. CASE ForwardOk
  <2>1. Offered' = Offered
    BY <1>9 DEF ForwardOk, Offered
  <2>2. received' = received /\ wire' = wire \o hand /\ hand' = <<>> /\ queue' = queue
    BY <1>9 DEF ForwardOk
  <2>3. /\ Increasing(wire \o hand) /\ UpTo(wire \o hand, Offered)
        /\ Below(received, wire \o hand) /\ Below(wire \o hand, queue)
    <3>1. Increasing(wire \o hand)
      BY <1>0, JoinIncreasing DEF Piped
    <3>2. UpTo(wire \o hand, Offered)
      BY <1>0, JoinBelow DEF Piped
    <3>3. Below(received, wire \o hand) /\ Below(wire \o hand, queue)
      BY <1>0, JoinBelow DEF Piped
    <3> QED
      BY <3>1, <3>2, <3>3
  <2>4. /\ Increasing(<<>>) /\ UpTo(<<>>, Offered)
        /\ Below(received, <<>>) /\ Below(wire \o hand, <<>>) /\ Below(<<>>, queue)
    BY EmptyOrdered
  <2> QED
    BY <2>1, <2>2, <2>3, <2>4 DEF Piped
<1>10. CASE DropQueued
  <2>1. Offered' = Offered
    BY <1>10 DEF DropQueued, Offered
  <2>2. /\ received' = received /\ wire' = wire /\ hand' = hand
        /\ queue # <<>> /\ queue' = Tail(queue)
    BY <1>10 DEF DropQueued, Dequeue
  <2>3. /\ Increasing(Tail(queue)) /\ UpTo(Tail(queue), Offered)
        /\ Below(received, Tail(queue)) /\ Below(wire, Tail(queue)) /\ Below(hand, Tail(queue))
    BY <1>0, <2>2, RestOrdered DEF Piped
  <2> QED
    BY <2>1, <2>2, <2>3 DEF Piped
<1>11. CASE ServiceReads
  <2>1. Offered' = Offered
    BY <1>11 DEF ServiceReads, Offered
  <2>2. /\ hand' = hand /\ queue' = queue /\ wire # <<>>
        /\ wire' = Tail(wire) /\ received' = Append(received, Head(wire))
    BY <1>11 DEF ServiceReads
  <2>3. /\ Increasing(Tail(wire)) /\ UpTo(Tail(wire), Offered) /\ Head(wire) <= Offered
        /\ Below(received, Tail(wire)) /\ Below(Tail(wire), hand) /\ Below(Tail(wire), queue)
        /\ \A j \in DOMAIN Tail(wire) : Head(wire) < Tail(wire)[j]
        /\ \A j \in DOMAIN received : received[j] < Head(wire)
        /\ \A j \in DOMAIN hand : Head(wire) < hand[j]
        /\ \A j \in DOMAIN queue : Head(wire) < queue[j]
    BY <1>0, <2>2, RestOrdered DEF Piped
  <2>4. Head(wire) \in Nat
    BY <1>0, <2>2, TailAt
  <2>5. /\ Increasing(received') /\ UpTo(received', Offered) /\ Below(received', Tail(wire))
        /\ Below(received', hand) /\ Below(received', queue)
    BY <1>0, <2>2, <2>3, <2>4, ExtendOrdered DEF Piped
  <2> QED
    BY <2>1, <2>2, <2>3, <2>5 DEF Piped
<1>12. CASE ServiceBreaks \/ ServiceRestarts
  <2>1. Offered' = Offered
    BY <1>12 DEF ServiceBreaks, ServiceRestarts, Offered
  <2>2. received' = received /\ wire' = wire /\ hand' = hand /\ queue' = queue
    BY <1>12 DEF ServiceBreaks, ServiceRestarts
  <2> QED
    BY <1>0, <2>1, <2>2, PipeRests
<1> QED
  BY <1>1, <1>2, <1>3, <1>4, <1>5, <1>6, <1>7, <1>8, <1>9, <1>10, <1>11, <1>12
  DEF Next, ExporterStep, WorkerStep

-----------------------------------------------------------------------------
(* Scores come back in order, each for a batch that was read.               *)

\* What was read stays read.
LEMMA OfMore ==
    ASSUME NEW t \in Seq(Nat), NEW n \in Nat, NEW s, Of(s, t)
    PROVE  Of(s, Append(t, n))
  BY ExtendOrdered

\* A score of a batch already read is of a batch before the next one.
LEMMA OfBefore ==
    ASSUME NEW s, NEW t, NEW n, Of(s, t), \A j \in DOMAIN t : t[j] < n
    PROVE  \A i \in DOMAIN s : s[i] < n
  BY DEF Of

LEMMA ReturnedStep ==
    ASSUME TypeOK, Piped, Returned, Next PROVE Returned'
<1>. USE DEF feed, handed, stream, service
<1>0. /\ received \in Seq(Nat) /\ wire \in Seq(Nat) /\ drained \in Seq(Nat)
      /\ scores \in Seq(Nat) /\ responses \in Seq(Nat)
  BY Numbered
<1>1. CASE Wake \/ Export \/ OfferCheck \/ TrySend \/ StopExporter \/ SignalShutdown \/ JoinWorker
  <2>1. UNCHANGED <<drained, scores, responses, received>>
    BY <1>1 DEF Wake, Export, OfferCheck, TrySend, StopExporter, SignalShutdown, JoinWorker
  <2> QED
    BY <2>1 DEF Returned
<1>2. CASE \/ ConnectFails \/ StreamStarts \/ TakeBatch \/ ForwardOk \/ DropQueued \/ BackoffOver
           \/ ServiceBreaks \/ ServiceRestarts
  <2>1. UNCHANGED <<drained, scores, responses, received>>
    BY <1>2 DEF ConnectFails, StreamStarts, TakeBatch, ForwardOk, DropQueued, BackoffOver,
                ServiceBreaks, ServiceRestarts
  <2> QED
    BY <2>1 DEF Returned
<1>3. CASE ConnectOk \/ LoseStream \/ ForwardFails \/ SeeShutdown
  <2>1. drained' = drained /\ scores' = scores /\ received' = received /\ responses' = <<>>
    BY <1>3 DEF ConnectOk, LoseStream, ForwardFails, Lost, SeeShutdown
  <2>2. /\ Increasing(<<>>) /\ Below(drained, <<>>) /\ Below(scores, <<>>)
        /\ Of(<<>>, received)
    BY EmptyOrdered
  <2> QED
    BY <2>1, <2>2 DEF Returned
<1>4. CASE DrainScores
  <2>1. /\ drained' = drained \o scores /\ scores' = <<>>
        /\ received' = received /\ responses' = responses
    BY <1>4 DEF DrainScores, DrainTakes
  <2>2. Increasing(drained \o scores)
    BY <1>0, JoinIncreasing DEF Returned
  <2>3. Below(drained \o scores, responses) /\ Of(drained \o scores, received)
    BY <1>0, JoinBelow DEF Returned
  <2>4. /\ Increasing(<<>>) /\ Below(drained \o scores, <<>>) /\ Below(<<>>, responses)
        /\ Of(<<>>, received)
    BY EmptyOrdered
  <2> QED
    BY <2>1, <2>2, <2>3, <2>4 DEF Returned
<1>5. CASE TakeScore
  <2>1. /\ responses # <<>> /\ responses' = Tail(responses)
        /\ scores' = Append(scores, Head(responses))
        /\ drained' = drained /\ received' = received
    BY <1>5 DEF TakeScore
  <2>2. /\ Increasing(Tail(responses)) /\ Of(Tail(responses), received)
        /\ Below(drained, Tail(responses)) /\ Below(scores, Tail(responses))
        /\ \A j \in DOMAIN Tail(responses) : Head(responses) < Tail(responses)[j]
        /\ \A j \in DOMAIN drained : drained[j] < Head(responses)
        /\ \A j \in DOMAIN scores : scores[j] < Head(responses)
    BY <1>0, <2>1, RestOrdered DEF Returned
  <2>3. Head(responses) \in Nat /\ \E j \in DOMAIN received : Head(responses) = received[j]
    <3>1. Head(responses) \in Nat /\ 1 \in DOMAIN responses /\ Head(responses) = responses[1]
      BY <1>0, <2>1, TailAt
    <3> QED
      BY <3>1 DEF Returned, Of
  <2>4. Increasing(scores')
    BY <1>0, <2>1, <2>2, <2>3, ExtendOrdered DEF Returned
  <2>5. Below(drained, scores') /\ Below(scores', Tail(responses))
    BY <1>0, <2>1, <2>2, <2>3, ExtendOrdered DEF Returned
  <2>6. Of(scores', received)
    BY <1>0, <2>1, <2>3, ExtendOrdered DEF Returned
  <2> QED
    BY <2>1, <2>2, <2>4, <2>5, <2>6 DEF Returned
<1>6. CASE ServiceReads
  <2>1. /\ wire # <<>> /\ received' = Append(received, Head(wire))
        /\ drained' = drained /\ scores' = scores
        /\ \/ responses' = responses
           \/ responses' = Append(responses, Head(wire))
    BY <1>6 DEF ServiceReads
  <2>2. Head(wire) \in Nat
    BY <1>0, <2>1, TailAt
  <2>3. \A j \in DOMAIN received : received[j] < Head(wire)
    BY <1>0, <2>1, RestOrdered DEF Piped
  <2>4. Of(drained, received') /\ Of(scores, received') /\ Of(responses, received')
    BY <1>0, <2>1, <2>2, OfMore DEF Returned
  <2>5. CASE responses' = responses
    BY <2>1, <2>4, <2>5 DEF Returned
  <2>6. CASE responses' = Append(responses, Head(wire))
    <3>1. \A i \in DOMAIN drained : drained[i] < Head(wire)
      BY <2>3, OfBefore DEF Returned
    <3>2. \A i \in DOMAIN scores : scores[i] < Head(wire)
      BY <2>3, OfBefore DEF Returned
    <3>3. \A i \in DOMAIN responses : responses[i] < Head(wire)
      BY <2>3, OfBefore DEF Returned
    <3>4. Increasing(responses')
      BY <1>0, <2>2, <2>6, <3>3, ExtendOrdered DEF Returned
    <3>5. Below(drained, responses') /\ Below(scores, responses')
      BY <1>0, <2>2, <2>6, <3>1, <3>2, ExtendOrdered DEF Returned
    <3>6. Of(responses', received')
      <4>1. \E j \in DOMAIN received' : Head(wire) = received'[j]
        BY <1>0, <2>1, <2>2, ExtendOrdered
      <4> QED
        BY <1>0, <2>2, <2>4, <2>6, <4>1, ExtendOrdered
    <3> QED
      BY <2>1, <2>4, <3>4, <3>5, <3>6 DEF Returned
  <2> QED
    BY <2>1, <2>5, <2>6
<1> QED
  BY <1>1, <1>2, <1>3, <1>4, <1>5, <1>6 DEF Next, ExporterStep, WorkerStep

-----------------------------------------------------------------------------
(* The theorems.                                                            *)

LEMMA Stutter == ASSUME IInv, UNCHANGED vars PROVE IInv'
<1>. USE DEF vars, feed, handed, stream, service
<1>1. TypeOK'
  BY DEF IInv, TypeOK, DataTypes, FlagTypes
<1>2. Counting'
  BY DEF IInv, Counting, Known, Offered, Unnoticed
<1>3. Piped'
  BY DEF IInv, Piped, Offered
<1>4. Returned'
  BY DEF IInv, Returned
<1> QED
  BY <1>1, <1>2, <1>3, <1>4 DEF IInv

\* The invariant holds in every state the link reaches.
THEOREM LinkInvariant == Spec => []IInv
<1>1. Init => IInv
  BY Initially
<1>2. IInv /\ [Next]_vars => IInv'
  <2>1. ASSUME IInv, Next PROVE IInv'
    BY <2>1, TypeStep, CountingStep, PipedStep, ReturnedStep DEF IInv
  <2> QED
    BY <2>1, Stutter
<1> QED
  BY <1>1, <1>2, PTL DEF Spec

\* Both channels of the link stay within their capacity, the backoff within its limits, and
\* the worker holds a batch exactly while it is in forward (link.rs).
THEOREM LinkTypeCorrect == Spec => []TypeOK
<1>1. IInv => TypeOK
  BY DEF IInv
<1> QED
  BY <1>1, LinkInvariant, PTL

\* Every batch the exporter offered is counted as sent, counted as dropped or still on its
\* way, except at most one for each stream that broke (link.rs, offer, forward and wait).
THEOREM EveryBatchAccounted == Spec => []Accounted
<1>1. IInv => Accounted
  BY DEF IInv, Counting, Known, Accounted
<1> QED
  BY <1>1, LinkInvariant, PTL

\* However often the worker reconnects, no batch reaches the service twice or out of order,
\* and no score reaches the exporter twice, out of order or for a batch never read (link.rs).
THEOREM BatchesAndScoresOnce == Spec => []AtMostOnce
<1>1. ASSUME IInv PROVE BatchesOnce
  <2>0. /\ received \in Seq(Nat) /\ wire \in Seq(Nat) /\ hand \in Seq(Nat) /\ queue \in Seq(Nat)
        /\ Piped
    BY <1>1, Numbered DEF IInv
  <2>1. /\ received \o wire \in Seq(Nat) /\ Increasing(received \o wire)
        /\ Below(received \o wire, hand) /\ Below(received \o wire, queue)
    <3>1. received \o wire \in Seq(Nat)
      BY <2>0, ConcatAt
    <3>2. Increasing(received \o wire)
      BY <2>0, JoinIncreasing DEF Piped
    <3>3. Below(received \o wire, hand) /\ Below(received \o wire, queue)
      BY <2>0, JoinBelow DEF Piped
    <3> QED
      BY <3>1, <3>2, <3>3
  <2>. DEFINE p == received \o wire
  <2>. HIDE DEF p
  <2>2. p \in Seq(Nat) /\ Increasing(p) /\ Below(p, hand) /\ Below(p, queue)
    BY <2>1 DEF p
  <2>3. p \o hand \in Seq(Nat) /\ Increasing(p \o hand) /\ Below(p \o hand, queue)
    <3>1. p \o hand \in Seq(Nat)
      BY <2>0, <2>2, ConcatAt
    <3>2. Increasing(p \o hand)
      BY <2>0, <2>2, JoinIncreasing DEF Piped
    <3>3. Below(p \o hand, queue)
      BY <2>0, <2>2, JoinBelow DEF Piped
    <3> QED
      BY <3>1, <3>2, <3>3
  <2>4. Increasing((p \o hand) \o queue)
    BY <2>0, <2>3, JoinIncreasing DEF Piped
  <2> QED
    BY <2>4 DEF p, BatchesOnce
<1>2. ASSUME IInv PROVE ScoresOnce
  <2>0. /\ drained \in Seq(Nat) /\ scores \in Seq(Nat) /\ responses \in Seq(Nat)
        /\ received \in Seq(Nat) /\ Returned
    BY <1>2, Numbered DEF IInv
  <2>1. drained \o scores \in Seq(Nat)
    BY <2>0, ConcatAt
  <2>2. Increasing(drained \o scores)
    BY <2>0, JoinIncreasing DEF Returned
  <2>3. Below(drained \o scores, responses) /\ Of(drained \o scores, received)
    BY <2>0, JoinBelow DEF Returned
  <2>. DEFINE d == drained \o scores
  <2>. HIDE DEF d
  <2>4. d \in Seq(Nat) /\ Increasing(d) /\ Below(d, responses) /\ Of(d, received)
    BY <2>1, <2>2, <2>3 DEF d
  <2>5. Increasing(d \o responses)
    BY <2>0, <2>4, JoinIncreasing DEF Returned
  <2>6. Of(d \o responses, received)
    BY <2>0, <2>4, JoinBelow DEF Returned
  <2>7. ToSet(d \o responses) \subseteq ToSet(received)
    BY <2>6 DEF ToSet, Of
  <2> QED
    BY <2>5, <2>7 DEF d, ScoresOnce
<1>3. IInv => AtMostOnce
  BY <1>1, <1>2 DEF AtMostOnce
<1> QED
  BY <1>3, LinkInvariant, PTL

=============================================================================
