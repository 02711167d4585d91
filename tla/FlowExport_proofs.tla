------------------------- MODULE FlowExport_proofs -------------------------
(***************************************************************************)
(* The flow table's books, what expiry takes, what the exporter misses and *)
(* which flows are on top, for any number of endpoints, any capacity and   *)
(* timeout and timestamps in any order.                                    *)
(***************************************************************************)
EXTENDS FlowExport, SequenceTheorems, FiniteSetTheorems, TLAPS

FlowStats == [first : Nat, last : Nat, packets : [1..2 -> Nat]]

Distinct(s) == \A i, j \in DOMAIN s : i # j => s[i] # s[j]

\* t is what is left of s when some of it is taken away.
Sub(t, s) ==
    /\ t \in Seq(Keys) /\ Len(t) <= Len(s) /\ ToSet(t) \subseteq ToSet(s)
    /\ \A i, j \in DOMAIN t :
          i < j => \E a, b \in DOMAIN s : a < b /\ t[i] = s[a] /\ t[j] = s[b]

\* The table: each flow once, none in the future.
Table(s, st, now) ==
    /\ s \in Seq(Keys) /\ Len(s) <= MaxFlows /\ Distinct(s)
    /\ st \in [ToSet(s) -> FlowStats]
    /\ \A k \in ToSet(s) : st[k].first <= st[k].last /\ st[k].last <= now

\* The order of use is the order of the timestamps.
InUseOrder(s, st) == \A i, j \in DOMAIN s : i < j => st[s[i]].last <= st[s[j]].last

CountedIn(st, keys, src, dst) ==
    IF Canonical(src, dst) \in keys THEN st[Canonical(src, dst)].packets[Direction(src, dst)]
                                    ELSE 0

\* Once a batch of this capture has been built its end is the watermark, and a flow that has
\* a change at or before it which no accepted batch has shown is excused.
Watermark ==
    /\ lastExport \in Nat /\ window \in Nat \cup {None} /\ unsent \subseteq Active
    /\ window # None =>
          /\ window = lastExport /\ window <= lastTs
          /\ \A k \in unsent : stats[k].last <= window => k \in excused \/ stats[k].last = 0

IInv == TypeOK /\ Accounted /\ (inOrder => InUseOrder(lru, stats)) /\ Watermark

-----------------------------------------------------------------------------
(* Sequences.                                                               *)

\* A set of numbers has a least one: the intervals that end in them are finite sets, and
\* strict inclusion is well-founded on those.
LEMMA Least ==
    ASSUME NEW T, T \subseteq Nat, T # {}
    PROVE  \E x \in T : \A y \in T : x <= y
<1>. DEFINE R == StrictSubsetOrdering(Nat)
            F == FiniteSubsetsOf(Nat)
            G == {0..n : n \in T}
<1>1. IsWellFoundedOn(R, F)
  BY FS_StrictSubsetOrderingWellFounded
<1>2. \A n \in T : 0..n \in F
  BY FS_Interval DEF FiniteSubsetsOf
<1>3. G \subseteq F /\ G # {}
  BY <1>2
<1>. HIDE DEF R, F
<1>4. PICK s \in G : \A t \in G : ~(<<t, s>> \in R)
  <2>. HIDE DEF G
  <2>. QED BY <1>1, <1>3, WFMin
<1>5. PICK x \in T : s = 0..x
  OBVIOUS
<1>6. ASSUME NEW y \in T, y < x PROVE FALSE
  <2>1. 0..y \in G
    OBVIOUS
  <2>2. <<0..y, 0..x>> \notin R
    BY <1>4, <1>5, <2>1
  <2>3. 0..y \subseteq 0..x /\ 0..y # 0..x
    BY <1>6, x \in Nat, y \in Nat
  <2>. QED BY <2>2, <2>3 DEF R, StrictSubsetOrdering
<1>. QED BY <1>6

LEMMA SeqBasics ==
    ASSUME NEW s \in Seq(Keys)
    PROVE  /\ Len(s) \in Nat /\ DOMAIN s = 1..Len(s) /\ \A i \in 1..Len(s) : s[i] \in Keys
           /\ ToSet(s) = {s[i] : i \in 1..Len(s)} /\ ToSet(s) \subseteq Keys
BY LenProperties, ElementOfSeq DEF ToSet

\* What is left when the first n are taken.
LEMMA SuffixIsSub ==
    ASSUME NEW s \in Seq(Keys), NEW n \in 0..Len(s)
    PROVE  LET t == SubSeq(s, n + 1, Len(s)) IN
           /\ Sub(t, s) /\ Len(t) = Len(s) - n
           /\ \A i \in 1..Len(s) - n : t[i] = s[n + i]
           /\ ToSet(t) = {s[i] : i \in n + 1..Len(s)}
<1>. DEFINE t == SubSeq(s, n + 1, Len(s))
<1>0. Len(s) \in Nat /\ DOMAIN s = 1..Len(s) /\ \A i \in 1..Len(s) : s[i] \in Keys
  BY SeqBasics
<1>1. t \in Seq(Keys) /\ Len(t) = Len(s) - n /\ \A i \in 1..Len(s) - n : t[i] = s[n + i]
  <2>1. \A i \in n + 1..Len(s) : s[i] \in Keys
    BY <1>0
  <2>2. /\ t \in Seq(Keys)
        /\ Len(t) = IF n + 1 <= Len(s) THEN Len(s) - (n + 1) + 1 ELSE 0
        /\ \A i \in 1..Len(s) - (n + 1) + 1 : t[i] = s[n + 1 + i - 1]
    BY <1>0, <2>1, SubSeqProperties
  <2>3. Len(t) = Len(s) - n
    <3>1. n \in Nat /\ n <= Len(s) /\ Len(s) \in Nat BY <1>0
    <3>2. Len(t) = IF n + 1 <= Len(s) THEN Len(s) - (n + 1) + 1 ELSE 0 BY <2>2
    <3>. QED BY <3>1, <3>2
  <2>4. \A i \in 1..Len(s) - n : i \in 1..Len(s) - (n + 1) + 1 /\ n + 1 + i - 1 = n + i
    BY <1>0
  <2>5. \A i \in 1..Len(s) - n : t[i] = s[n + i]
    BY <2>2, <2>4
  <2>. QED BY <2>2, <2>3, <2>5
<1>. HIDE DEF t
<1>2. DOMAIN t = 1..Len(s) - n
  BY <1>1, SeqBasics
<1>3. \A i \in 1..Len(s) - n : n + i \in n + 1..Len(s) /\ n + i \in 1..Len(s)
  BY <1>0
<1>4. ToSet(t) = {s[i] : i \in n + 1..Len(s)}
  <2>1. ToSet(t) \subseteq {s[i] : i \in n + 1..Len(s)}
    BY <1>1, <1>2, <1>3 DEF ToSet
  <2>2. \A i \in n + 1..Len(s) : i - n \in 1..Len(s) - n /\ n + (i - n) = i
    BY <1>0
  <2>3. \A i \in n + 1..Len(s) : s[i] \in ToSet(t)
    BY <1>1, <1>2, <2>2 DEF ToSet
  <2>. QED BY <2>1, <2>3
<1>5. ToSet(t) \subseteq ToSet(s)
  <2>1. \A i \in n + 1..Len(s) : i \in DOMAIN s
    BY <1>0
  <2>. QED BY <1>4, <2>1 DEF ToSet
<1>6. ASSUME NEW i \in DOMAIN t, NEW j \in DOMAIN t, i < j
      PROVE  \E a, b \in DOMAIN s : a < b /\ t[i] = s[a] /\ t[j] = s[b]
  <2>1. n + i < n + j BY <1>2, <1>6
  <2>2. n + i \in DOMAIN s /\ n + j \in DOMAIN s BY <1>0, <1>2, <1>3
  <2>3. t[i] = s[n + i] /\ t[j] = s[n + j] BY <1>1, <1>2
  <2>. QED BY <2>1, <2>2, <2>3
<1>7. Len(t) <= Len(s)
  BY <1>0, <1>1
<1>8. Sub(t, s)
  BY <1>1, <1>5, <1>6, <1>7 DEF Sub
<1>. QED BY <1>1, <1>4, <1>8 DEF t

LEMMA SubTransitive ==
    ASSUME NEW r, NEW s \in Seq(Keys), NEW t, Sub(t, s), Sub(s, r), Len(r) \in Nat,
           \A a, b \in DOMAIN r : a < b \/ b <= a
    PROVE  Sub(t, r)
<1>1. Len(t) \in Nat /\ Len(s) \in Nat
  BY SeqBasics DEF Sub
<1>. QED BY <1>1 DEF Sub

\* What is left when the oldest is taken.
LEMMA TailIsSub ==
    ASSUME NEW s \in Seq(Keys), s # <<>>, Distinct(s)
    PROVE  /\ Sub(Tail(s), s) /\ Len(Tail(s)) = Len(s) - 1
           /\ Head(s) = s[1] /\ 1 \in DOMAIN s
           /\ ToSet(Tail(s)) = ToSet(s) \ {Head(s)}
<1>. DEFINE t == SubSeq(s, 1 + 1, Len(s))
<1>1. Tail(s) = t /\ Head(s) = s[1] /\ Len(s) \in Nat /\ Len(s) >= 1 /\ DOMAIN s = 1..Len(s)
  BY TailIsSubSeq, HeadTailProperties, SeqBasics, EmptySeq
<1>2. 1 \in 0..Len(s)
  BY <1>1
<1>3. Sub(t, s) /\ Len(t) = Len(s) - 1 /\ ToSet(t) = {s[i] : i \in 1 + 1..Len(s)}
  BY <1>2, SuffixIsSub
<1>4. \A i \in 1..Len(s) : i # 1 <=> i \in 1 + 1..Len(s)
  BY <1>1
<1>5. {s[i] : i \in 1 + 1..Len(s)} = ToSet(s) \ {s[1]}
  BY <1>1, <1>4 DEF ToSet, Distinct
<1>6. ToSet(t) = ToSet(s) \ {Head(s)}
  BY <1>1, <1>3, <1>5
<1>7. 1 \in DOMAIN s
  BY <1>1
<1>. QED BY <1>1, <1>3, <1>6, <1>7

\* What is left when one is taken from anywhere.
LEMMA RemoveIsSub ==
    ASSUME NEW s \in Seq(Keys), Distinct(s), NEW p \in DOMAIN s
    PROVE  /\ Sub(RemoveAt(s, p), s) /\ Len(RemoveAt(s, p)) = Len(s) - 1
           /\ ToSet(RemoveAt(s, p)) = ToSet(s) \ {s[p]}
<1>. DEFINE u == SubSeq(s, 1, p - 1)
            v == SubSeq(s, p + 1, Len(s))
            t == u \o v
<1>0. /\ Len(s) \in Nat /\ DOMAIN s = 1..Len(s) /\ \A i \in 1..Len(s) : s[i] \in Keys
      /\ p \in 1..Len(s) /\ RemoveAt(s, p) = t
  BY SeqBasics DEF RemoveAt
<1>1. u \in Seq(Keys) /\ Len(u) = p - 1 /\ \A i \in 1..p - 1 : u[i] = s[i]
  <2>1. \A i \in 1..p - 1 : s[i] \in Keys
    BY <1>0
  <2>2. /\ u \in Seq(Keys) /\ Len(u) = IF 1 <= p - 1 THEN p - 1 - 1 + 1 ELSE 0
        /\ \A i \in 1..p - 1 - 1 + 1 : u[i] = s[1 + i - 1]
    BY <1>0, <2>1, SubSeqProperties
  <2>. QED BY <1>0, <2>2
<1>2. /\ v \in Seq(Keys) /\ Len(v) = Len(s) - p
      /\ \A i \in 1..Len(s) - p : v[i] = s[p + i]
  BY <1>0, p \in 0..Len(s), SuffixIsSub DEF Sub
<1>. HIDE DEF u, v
<1>3. /\ t \in Seq(Keys) /\ Len(t) = Len(s) - 1
      /\ \A i \in 1..Len(s) - 1 : t[i] = IF i < p THEN s[i] ELSE s[i + 1]
  <2>1. /\ t \in Seq(Keys) /\ Len(t) = Len(u) + Len(v)
        /\ \A i \in 1..Len(u) + Len(v) : t[i] = IF i <= Len(u) THEN u[i] ELSE v[i - Len(u)]
    BY <1>1, <1>2, ConcatProperties
  <2>2. ASSUME NEW i \in 1..Len(s) - 1 PROVE t[i] = IF i < p THEN s[i] ELSE s[i + 1]
    <3>1. CASE i < p
      BY <1>0, <1>1, <1>2, <2>1, <3>1
    <3>2. CASE i >= p
      <4>1. i - (p - 1) \in 1..Len(s) - p /\ p + (i - (p - 1)) = i + 1
        BY <1>0, <3>2
      <4>2. t[i] = v[i - (p - 1)] BY <1>0, <1>1, <1>2, <2>1, <3>2
      <4>3. v[i - (p - 1)] = s[p + (i - (p - 1))] BY <1>2, <4>1
      <4>4. v[i - (p - 1)] = s[i + 1] BY <4>1, <4>3, Zenon
      <4>5. ~(i < p) BY <1>0, <3>2
      <4>. QED BY <4>2, <4>4, <4>5
    <3>3. i < p \/ i >= p BY <1>0
    <3>. QED BY <3>1, <3>2, <3>3, Zenon
  <2>. QED BY <1>0, <1>1, <1>2, <2>1, <2>2
<1>. HIDE DEF t
<1>4. DOMAIN t = 1..Len(s) - 1
  BY <1>3, SeqBasics
<1>. DEFINE at(i) == IF i < p THEN i ELSE i + 1
<1>5. \A i \in DOMAIN t : at(i) \in DOMAIN s /\ at(i) # p /\ t[i] = s[at(i)]
  BY <1>0, <1>3, <1>4
<1>6. \A i, j \in DOMAIN t : i < j => at(i) < at(j)
  BY <1>0, <1>4
<1>7. \A i \in DOMAIN s : i # p => \E j \in DOMAIN t : at(j) = i
  <2>1. SUFFICES ASSUME NEW i \in DOMAIN s, i # p PROVE \E j \in DOMAIN t : at(j) = i
    OBVIOUS
  <2>2. CASE i < p
    <3>1. i \in DOMAIN t /\ at(i) = i BY <1>0, <1>4, <2>2
    <3>. QED BY <3>1
  <2>3. CASE i > p
    <3>1. i - 1 \in DOMAIN t /\ at(i - 1) = i BY <1>0, <1>4, <2>3
    <3>. QED BY <3>1
  <2>. QED BY <1>0, <2>1, <2>2, <2>3
<1>. HIDE DEF at
<1>8. ToSet(t) = ToSet(s) \ {s[p]}
  <2>1. ToSet(t) \subseteq ToSet(s) \ {s[p]}
    BY <1>5 DEF ToSet, Distinct
  <2>2. ASSUME NEW x \in ToSet(s) \ {s[p]} PROVE x \in ToSet(t)
    <3>1. PICK i \in DOMAIN s : x = s[i] BY DEF ToSet
    <3>2. PICK j \in DOMAIN t : at(j) = i BY <1>7, <2>2, <3>1
    <3>. QED BY <1>5, <3>1, <3>2 DEF ToSet
  <2>. QED BY <2>1, <2>2
<1>9. ASSUME NEW i \in DOMAIN t, NEW j \in DOMAIN t, i < j
      PROVE  \E a, b \in DOMAIN s : a < b /\ t[i] = s[a] /\ t[j] = s[b]
  BY <1>5, <1>6, <1>9
<1>. QED BY <1>0, <1>3, <1>8, <1>9 DEF Sub

-----------------------------------------------------------------------------
(* The table.                                                               *)

LEMMA KeyTypes ==
    ASSUME NEW src \in Endpoints, NEW dst \in Endpoints
    PROVE  /\ Canonical(src, dst) \in Keys /\ Direction(src, dst) \in 1..2
           /\ \A s, d \in Endpoints :
                 Canonical(s, d) = Canonical(src, dst) /\ Direction(s, d) = Direction(src, dst)
                    => s = src /\ d = dst
BY FlowAssumption DEF Canonical, Direction, Keys

\* What the helpers of update return.
LEMMA FlowTypes ==
    ASSUME NEW ts \in Nat, NEW d \in 1..2
    PROVE  /\ NewFlow(ts, d) \in FlowStats
           /\ NewFlow(ts, d).first = ts /\ NewFlow(ts, d).last = ts
           /\ \A e \in 1..2 : NewFlow(ts, d).packets[e] = IF e = d THEN 1 ELSE 0
           /\ Total(NewFlow(ts, d)) = 1
           /\ \A s \in FlowStats :
                 /\ Touched(s, ts, d) \in FlowStats
                 /\ Touched(s, ts, d).first = s.first
                 /\ Touched(s, ts, d).last = Later(s.last, ts)
                 /\ \A e \in 1..2 :
                       Touched(s, ts, d).packets[e] = s.packets[e] + (IF e = d THEN 1 ELSE 0)
<1>1. /\ NewFlow(ts, d) \in FlowStats
      /\ NewFlow(ts, d).first = ts /\ NewFlow(ts, d).last = ts
      /\ \A e \in 1..2 : NewFlow(ts, d).packets[e] = IF e = d THEN 1 ELSE 0
  BY DEF NewFlow, FlowStats
<1>2. Total(NewFlow(ts, d)) = 1
  BY <1>1 DEF Total
<1>3. ASSUME NEW s \in FlowStats
      PROVE  /\ Touched(s, ts, d) \in FlowStats
             /\ Touched(s, ts, d).first = s.first
             /\ Touched(s, ts, d).last = Later(s.last, ts)
             /\ \A e \in 1..2 :
                   Touched(s, ts, d).packets[e] = s.packets[e] + (IF e = d THEN 1 ELSE 0)
  <2>. DEFINE p == [s.packets EXCEPT ![d] = @ + 1]
  <2>1. s.first \in Nat /\ s.last \in Nat /\ s.packets \in [1..2 -> Nat]
    BY DEF FlowStats
  <2>2. LastSeen(s, ts) \in Nat /\ LastSeen(s, ts) = Later(s.last, ts)
    BY <2>1 DEF LastSeen, Later
  <2>3. /\ p \in [1..2 -> Nat]
        /\ \A e \in 1..2 : p[e] = s.packets[e] + (IF e = d THEN 1 ELSE 0)
    BY <2>1
  <2>4. Touched(s, ts, d) = [[s EXCEPT !.last = LastSeen(s, ts)] EXCEPT !.packets = p]
    BY DEF Touched, FlowStats
  <2>. HIDE DEF p
  <2>. QED BY <2>1, <2>2, <2>3, <2>4 DEF FlowStats
<1>. QED BY <1>1, <1>2, <1>3

\* A flow goes to the recently used end of what is left of the table.
LEMMA EnterTable ==
    ASSUME NEW s, NEW st, NEW now \in Nat, Table(s, st, now), NEW base, Sub(base, s),
           Len(base) < MaxFlows, NEW k \in Keys, k \notin ToSet(base),
           NEW st2 \in [ToSet(base) \cup {k} -> FlowStats],
           \A x \in ToSet(base) : st2[x] = st[x],
           NEW now2 \in Nat, now <= now2, st2[k].first <= st2[k].last, st2[k].last <= now2
    PROVE  /\ Table(Append(base, k), st2, now2)
           /\ ToSet(Append(base, k)) = ToSet(base) \cup {k}
           /\ Len(Append(base, k)) = Len(base) + 1
           /\ InUseOrder(s, st) /\ st2[k].last = now2 => InUseOrder(Append(base, k), st2)
<1>. DEFINE t == Append(base, k)
<1>0. /\ base \in Seq(Keys) /\ Len(base) \in Nat /\ DOMAIN base = 1..Len(base)
      /\ s \in Seq(Keys) /\ DOMAIN s = 1..Len(s) /\ Len(s) \in Nat /\ MaxFlows \in Nat
  BY SeqBasics, FlowAssumption DEF Sub, Table
<1>1. /\ t \in Seq(Keys) /\ Len(t) = Len(base) + 1 /\ DOMAIN t = 1..Len(base) + 1
      /\ \A i \in 1..Len(base) : t[i] = base[i]
      /\ t[Len(base) + 1] = k
  BY <1>0, AppendProperties, LenProperties
<1>. HIDE DEF t
<1>2. \A i \in DOMAIN t : \/ i \in DOMAIN base /\ t[i] = base[i]
                          \/ i = Len(base) + 1 /\ t[i] = k
  BY <1>0, <1>1
<1>3. \A i, j \in DOMAIN t : i < j => i \in DOMAIN base /\ t[i] = base[i]
  BY <1>0, <1>1
<1>4. ToSet(t) = ToSet(base) \cup {k}
  <2>1. ToSet(t) \subseteq ToSet(base) \cup {k} BY <1>2 DEF ToSet
  <2>2. k \in ToSet(t)
    <3>1. Len(base) + 1 \in DOMAIN t BY <1>0, <1>1
    <3>. QED BY <1>1, <3>1 DEF ToSet
  <2>3. \A i \in DOMAIN base : i \in DOMAIN t /\ t[i] = base[i] BY <1>0, <1>1
  <2>. QED BY <2>1, <2>2, <2>3 DEF ToSet
<1>5. \A i, j \in DOMAIN t : i < j => t[i] # t[j]
  <2>1. SUFFICES ASSUME NEW i \in DOMAIN t, NEW j \in DOMAIN t, i < j PROVE t[i] # t[j]
    OBVIOUS
  <2>2. i \in DOMAIN base /\ t[i] = base[i] BY <1>3, <2>1
  <2>3. CASE j \in DOMAIN base /\ t[j] = base[j]
    <3>1. PICK a, b \in DOMAIN s : a < b /\ base[i] = s[a] /\ base[j] = s[b]
      BY <2>1, <2>2, <2>3 DEF Sub
    <3>2. a # b BY <1>0, <3>1
    <3>. QED BY <2>2, <2>3, <3>1, <3>2 DEF Table, Distinct
  <2>4. CASE t[j] = k
    BY <2>2, <2>4 DEF ToSet
  <2>. QED BY <1>2, <2>3, <2>4
<1>6. Distinct(t)
  <2>1. \A i, j \in DOMAIN t : i # j => i < j \/ j < i BY <1>0, <1>1
  <2>. QED BY <1>5, <2>1 DEF Distinct
<1>7. \A x \in ToSet(t) : st2[x].first <= st2[x].last /\ st2[x].last <= now2
  <2>1. SUFFICES ASSUME NEW x \in ToSet(base)
                 PROVE  st2[x].first <= st2[x].last /\ st2[x].last <= now2
    BY <1>4
  <2>2. x \in ToSet(s) /\ st2[x] = st[x] BY DEF Sub
  <2>3. st[x] \in FlowStats /\ st[x].first <= st[x].last /\ st[x].last <= now
    BY <2>2 DEF Table
  <2>. QED BY <2>2, <2>3 DEF FlowStats
<1>8. ASSUME InUseOrder(s, st), st2[k].last = now2 PROVE InUseOrder(t, st2)
  <2>1. SUFFICES ASSUME NEW i \in DOMAIN t, NEW j \in DOMAIN t, i < j
                 PROVE  st2[t[i]].last <= st2[t[j]].last
    BY DEF InUseOrder
  <2>2. i \in DOMAIN base /\ t[i] = base[i] BY <1>3, <2>1
  <2>3. CASE j \in DOMAIN base /\ t[j] = base[j]
    <3>1. PICK a, b \in DOMAIN s : a < b /\ base[i] = s[a] /\ base[j] = s[b]
      BY <2>1, <2>2, <2>3 DEF Sub
    <3>2. st[s[a]].last <= st[s[b]].last BY <1>8, <3>1 DEF InUseOrder
    <3>3. st2[base[i]] = st[s[a]] /\ st2[base[j]] = st[s[b]]
      BY <2>2, <2>3, <3>1 DEF ToSet
    <3>. QED BY <2>2, <2>3, <3>2, <3>3
  <2>4. CASE t[j] = k
    <3>1. t[i] \in ToSet(t) BY <2>1 DEF ToSet
    <3>. QED BY <1>7, <1>8, <2>4, <3>1
  <2>. QED BY <1>2, <2>3, <2>4
<1>9. Table(t, st2, now2)
  BY <1>0, <1>1, <1>4, <1>6, <1>7 DEF Table
<1>. QED BY <1>1, <1>4, <1>8, <1>9 DEF t

\* What is left of the table is a table.
LEMMA SubTable ==
    ASSUME NEW s, NEW st, NEW now \in Nat, Table(s, st, now), NEW base, Sub(base, s),
           NEW now2 \in Nat, now <= now2
    PROVE  LET st2 == [k \in ToSet(base) |-> st[k]] IN
           Table(base, st2, now2) /\ (InUseOrder(s, st) => InUseOrder(base, st2))
<1>. DEFINE st2 == [k \in ToSet(base) |-> st[k]]
<1>0. /\ base \in Seq(Keys) /\ Len(base) \in Nat /\ DOMAIN base = 1..Len(base)
      /\ s \in Seq(Keys) /\ DOMAIN s = 1..Len(s) /\ Len(s) \in Nat /\ MaxFlows \in Nat
  BY SeqBasics, FlowAssumption DEF Sub, Table
<1>1. \A k \in ToSet(base) :
         /\ st2[k] = st[k] /\ st[k] \in FlowStats
         /\ st[k].first <= st[k].last /\ st[k].last <= now
  BY DEF Sub, Table
<1>2. st2 \in [ToSet(base) -> FlowStats]
  BY <1>1
<1>3. \A k \in ToSet(base) : st2[k].first <= st2[k].last /\ st2[k].last <= now2
  BY <1>1 DEF FlowStats
<1>4. \A i, j \in DOMAIN base : i < j =>
         /\ base[i] # base[j]
         /\ InUseOrder(s, st) => st2[base[i]].last <= st2[base[j]].last
  <2>1. SUFFICES ASSUME NEW i \in DOMAIN base, NEW j \in DOMAIN base, i < j
                 PROVE  /\ base[i] # base[j]
                        /\ InUseOrder(s, st) => st2[base[i]].last <= st2[base[j]].last
    OBVIOUS
  <2>2. PICK a, b \in DOMAIN s : a < b /\ base[i] = s[a] /\ base[j] = s[b]
    BY <2>1 DEF Sub
  <2>3. a # b BY <1>0, <2>2
  <2>4. base[i] # base[j] BY <2>2, <2>3 DEF Table, Distinct
  <2>5. st2[base[i]] = st[s[a]] /\ st2[base[j]] = st[s[b]]
    BY <2>1, <2>2 DEF ToSet
  <2>. QED BY <2>2, <2>4, <2>5 DEF InUseOrder
<1>. HIDE DEF st2
<1>5. Distinct(base)
  <2>1. \A i, j \in DOMAIN base : i # j => i < j \/ j < i BY <1>0
  <2>. QED BY <1>4, <2>1 DEF Distinct
<1>6. Len(base) <= MaxFlows
  BY <1>0 DEF Sub, Table
<1>7. Table(base, st2, now2)
  BY <1>0, <1>2, <1>3, <1>5, <1>6 DEF Table
<1>8. InUseOrder(s, st) => InUseOrder(base, st2)
  BY <1>4 DEF InUseOrder
<1>. QED BY <1>7, <1>8 DEF st2

\* The books: what the flows that are left and the flows that are gone have counted is what
\* all have counted, and one packet more of src to dst is counted once more.
OneMore(st, st2, K, src, dst) ==
    LET k == Canonical(src, dst) IN
    /\ st2 \in [K \cup {k} -> FlowStats]
    /\ \A x \in K \ {k} : st2[x] = st[x]
    /\ \A e \in 1..2 :
          st2[k].packets[e] = (IF k \in K THEN st[k].packets[e] ELSE 0)
                                 + (IF e = Direction(src, dst) THEN 1 ELSE 0)

LEMMA Books ==
    ASSUME NEW st, NEW S, st \in [S -> FlowStats], NEW K \in SUBSET S, NEW st2,
           NEW src \in Endpoints, NEW dst \in Endpoints, OneMore(st, st2, K, src, dst),
           NEW a \in Endpoints, NEW b \in Endpoints
    PROVE  CountedIn(st2, K \cup {Canonical(src, dst)}, a, b) + CountedIn(st, S \ K, a, b)
              = CountedIn(st, S, a, b) + (IF a = src /\ b = dst THEN 1 ELSE 0)
<1>. DEFINE k == Canonical(src, dst)
            d == Direction(src, dst)
            x == Canonical(a, b)
            e == Direction(a, b)
<1>1. /\ k \in Keys /\ d \in 1..2 /\ x \in Keys /\ e \in 1..2
      /\ x = k /\ e = d => a = src /\ b = dst
  BY KeyTypes
<1>2. \A y \in S : st[y].packets[e] \in Nat
  BY <1>1 DEF FlowStats
<1>5. /\ \A y \in K \ {k} : st2[y] = st[y]
      /\ st2[k].packets[e] = (IF k \in K THEN st[k].packets[e] ELSE 0) + (IF e = d THEN 1 ELSE 0)
  BY <1>1 DEF OneMore
<1>3. CASE x = k
  <2>1. CountedIn(st2, K \cup {k}, a, b) = st2[k].packets[e]
    BY <1>3 DEF CountedIn
  <2>2. st2[k].packets[e] =
           (IF k \in K THEN st[k].packets[e] ELSE 0) + (IF e = d THEN 1 ELSE 0)
    BY <1>5
  <2>3. (IF e = d THEN 1 ELSE 0) = (IF a = src /\ b = dst THEN 1 ELSE 0)
    BY <1>1, <1>3
  <2>4. CountedIn(st, S \ K, a, b) = IF k \in S \ K THEN st[k].packets[e] ELSE 0
    BY <1>3 DEF CountedIn
  <2>5. CountedIn(st, S, a, b) = IF k \in S THEN st[k].packets[e] ELSE 0
    BY <1>3 DEF CountedIn
  <2>. HIDE DEF k, d, x, e
  <2>6. (IF a = src /\ b = dst THEN 1 ELSE 0) \in Nat
    OBVIOUS
  <2>. QED BY <1>2, <2>1, <2>2, <2>3, <2>4, <2>5, <2>6 DEF k
<1>4. CASE x # k
  <2>1. CountedIn(st2, K \cup {k}, a, b) = IF x \in K THEN st[x].packets[e] ELSE 0
    BY <1>4, <1>5 DEF CountedIn
  <2>2. ~(a = src /\ b = dst)
    BY <1>4
  <2>3. CountedIn(st, S \ K, a, b) = IF x \in S \ K THEN st[x].packets[e] ELSE 0
    BY DEF CountedIn
  <2>4. CountedIn(st, S, a, b) = IF x \in S THEN st[x].packets[e] ELSE 0
    BY DEF CountedIn
  <2>. HIDE DEF x, e
  <2>. QED BY <1>2, <2>1, <2>2, <2>3, <2>4
<1>. QED BY <1>3, <1>4

\* And a packet of no flow changes nothing but where they are counted.
LEMMA BooksUntracked ==
    ASSUME NEW st, NEW S, st \in [S -> FlowStats], NEW K \in SUBSET S,
           NEW a \in Endpoints, NEW b \in Endpoints
    PROVE  CountedIn([k \in K |-> st[k]], K, a, b) + CountedIn(st, S \ K, a, b)
              = CountedIn(st, S, a, b)
<1>1. Canonical(a, b) \in Keys /\ Direction(a, b) \in 1..2
  BY KeyTypes
<1>2. \A y \in S : st[y].packets[Direction(a, b)] \in Nat
  BY <1>1 DEF FlowStats
<1>. QED BY <1>2 DEF CountedIn

-----------------------------------------------------------------------------
(* What a frame does to the table.                                          *)

LEMMA TableNow ==
    ASSUME TypeOK
    PROVE  /\ Table(lru, stats, lastTs) /\ lastTs \in Nat /\ Len(lru) \in Nat
           /\ DOMAIN lru = 1..Len(lru) /\ DOMAIN stats = ToSet(lru)
BY SeqBasics DEF TypeOK, Table, Distinct, FlowStats

\* expire takes the idle flows at the least recently used end, and no others.
LEMMA Expires ==
    ASSUME TypeOK, NEW now
    PROVE  /\ Expiring(now) \in 0..Len(lru)
           /\ \A i \in 1..Expiring(now) : Idle(stats[lru[i]], now)
           /\ Due(now) /\ Expiring(now) < Len(lru) => ~Idle(stats[lru[Expiring(now) + 1]], now)
           /\ ~Due(now) => Expiring(now) = 0
<1>. DEFINE kept == {i \in DOMAIN lru : ~Idle(stats[lru[i]], now)}
            least == CHOOSE i \in kept : \A j \in kept : i <= j
<1>0. Len(lru) \in Nat /\ DOMAIN lru = 1..Len(lru)
  BY TableNow
<1>1. CASE ~Due(now)
  BY <1>0, <1>1 DEF Expiring
<1>2. CASE Due(now) /\ kept = {}
  <2>1. Expiring(now) = Len(lru) BY <1>2 DEF Expiring, IdleCount
  <2>. QED BY <1>0, <1>2, <2>1
<1>3. CASE Due(now) /\ kept # {}
  <2>1. Expiring(now) = least - 1 BY <1>3 DEF Expiring, IdleCount
  <2>2. least \in kept /\ \A j \in kept : least <= j
    <3>1. kept \subseteq Nat BY <1>0
    <3>2. \E i \in kept : \A j \in kept : i <= j
      <4>. HIDE DEF kept
      <4>. QED BY <1>3, <3>1, Least
    <3>. HIDE DEF kept
    <3>. QED BY <3>2
  <2>3. least \in 1..Len(lru) /\ ~Idle(stats[lru[least]], now)
    BY <1>0, <2>2
  <2>4. \A i \in 1..Len(lru) : i < least => Idle(stats[lru[i]], now)
    <3>1. SUFFICES ASSUME NEW i \in 1..Len(lru), i < least, i \in kept PROVE FALSE
      BY <1>0
    <3>2. least <= i BY <2>2, <3>1
    <3>. HIDE DEF least, kept
    <3>. QED BY <1>0, <2>3, <3>1, <3>2
  <2>. HIDE DEF least, kept
  <2>5. Expiring(now) \in 0..Len(lru) /\ Expiring(now) + 1 = least
    BY <1>0, <2>1, <2>3
  <2>6. \A i \in 1..Expiring(now) : i \in 1..Len(lru) /\ i < least
    BY <1>0, <2>1, <2>3
  <2>. QED BY <1>3, <2>3, <2>4, <2>5, <2>6
<1>. QED BY <1>1, <1>2, <1>3

\* Expiry leaves a table, takes idle flows only, and none that is idle stays if they are in
\* the order of their timestamps.
LEMMA Leaves ==
    ASSUME TypeOK, NEW ts \in Nat
    PROVE  LET now == Later(lastTs, ts)
               left == Remaining(ts)
           IN  /\ left \in Seq(Keys) /\ Sub(left, lru) /\ Len(left) = Len(lru) - Expiring(now)
               /\ Expiring(now) \in 0..Len(lru)
               /\ \A x \in ToSet(lru) \ ToSet(left) : Idle(stats[x], now)
               /\ Due(now) /\ InUseOrder(lru, stats) => \A x \in ToSet(left) : ~Idle(stats[x], now)
               /\ Len(left) = Len(lru) => ToSet(left) = ToSet(lru) /\ left = lru
<1>. DEFINE now == Later(lastTs, ts)
            left == Remaining(ts)
            n == Expiring(now)
<1>0. /\ Len(lru) \in Nat /\ DOMAIN lru = 1..Len(lru) /\ lru \in Seq(Keys) /\ lastTs \in Nat
      /\ Table(lru, stats, lastTs)
  BY TableNow DEF TypeOK
<1>1. /\ n \in 0..Len(lru) /\ \A i \in 1..n : Idle(stats[lru[i]], now)
      /\ Due(now) /\ n < Len(lru) => ~Idle(stats[lru[n + 1]], now)
  BY Expires
<1>2. left = SubSeq(lru, n + 1, Len(lru))
  BY DEF Remaining
<1>. HIDE DEF n, left, now
<1>3. /\ Sub(left, lru) /\ Len(left) = Len(lru) - n
      /\ ToSet(left) = {lru[i] : i \in n + 1..Len(lru)}
  BY <1>0, <1>1, <1>2, SuffixIsSub
<1>4. ASSUME NEW x \in ToSet(lru) \ ToSet(left) PROVE Idle(stats[x], now)
  <2>1. PICK i \in 1..Len(lru) : x = lru[i] BY <1>0 DEF ToSet
  <2>2. i \notin n + 1..Len(lru) BY <1>3, <1>4, <2>1
  <2>3. i \in 1..n BY <1>0, <1>1, <2>2
  <2>. QED BY <1>1, <2>1, <2>3
<1>5. ASSUME Due(now), InUseOrder(lru, stats), NEW x \in ToSet(left) PROVE ~Idle(stats[x], now)
  <2>1. PICK i \in n + 1..Len(lru) : x = lru[i] BY <1>3
  <2>2. n < Len(lru) /\ n + 1 \in DOMAIN lru /\ i \in DOMAIN lru /\ (n + 1 = i \/ n + 1 < i)
    BY <1>0, <1>1
  <2>3. ~Idle(stats[lru[n + 1]], now) BY <1>1, <1>5, <2>2
  <2>4. stats[lru[n + 1]].last <= stats[x].last
    <3>1. lru[n + 1] \in ToSet(lru) BY <2>2 DEF ToSet
    <3>2. stats[lru[n + 1]].last \in Nat BY <1>0, <3>1 DEF Table, FlowStats
    <3>. QED BY <1>5, <2>1, <2>2, <3>2 DEF InUseOrder
  <2>5. stats[lru[n + 1]].last \in Nat /\ stats[x].last \in Nat
    <3>1. lru[n + 1] \in ToSet(lru) /\ x \in ToSet(lru) BY <2>1, <2>2 DEF ToSet
    <3>. QED BY <1>0, <3>1 DEF Table, FlowStats
  <2>6. now \in Nat BY <1>0 DEF now, Later
  <2>. QED BY <2>3, <2>4, <2>5, <2>6, FlowAssumption DEF Idle
<1>6. ASSUME Len(left) = Len(lru) PROVE ToSet(left) = ToSet(lru) /\ left = lru
  <2>1. n = 0 BY <1>0, <1>1, <1>3, <1>6
  <2>2. left = lru BY <1>0, <1>2, <2>1, SubSeqFull
  <2>. QED BY <2>2
<1>. QED BY <1>1, <1>3, <1>4, <1>5, <1>6 DEF n, left, now, Sub

\* The clock.
LEMMA Clock ==
    ASSUME TypeOK, NEW ts \in Nat, Advance(ts)
    PROVE  /\ lastTs' = Later(lastTs, ts) /\ lastTs' \in Nat /\ lastTs <= lastTs' /\ ts <= lastTs'
           /\ expired' = expired + Expiring(Later(lastTs, ts)) /\ expired' \in Nat
           /\ nextExpiry' \in Nat /\ inOrder' \in BOOLEAN
           /\ inOrder' => inOrder /\ lastTs' = ts
<1>1. lastTs \in Nat /\ expired \in Nat /\ nextExpiry \in Nat /\ ExpiryInterval \in Nat
  BY FlowAssumption DEF TypeOK
<1>2. lastTs' = Later(lastTs, ts) /\ lastTs' \in Nat /\ lastTs <= lastTs' /\ ts <= lastTs'
  BY <1>1 DEF Advance, Later
<1>3. /\ expired' = expired + Expiring(Later(lastTs, ts))
      /\ Expiring(Later(lastTs, ts)) \in Nat
  BY Expires, TableNow DEF Advance
<1>4. nextExpiry' \in Nat
  BY <1>1, <1>2 DEF Advance
<1>5. inOrder' = (inOrder /\ ts >= lastTs)
  BY DEF Advance
<1>6. inOrder' \in BOOLEAN /\ (inOrder' => inOrder /\ ts >= lastTs)
  BY <1>5, Zenon
<1>7. ts >= lastTs => lastTs' = ts
  BY <1>1, <1>2 DEF Later
<1>. QED BY <1>2, <1>3, <1>1, <1>4, <1>6, <1>7

\* What process does with a tracked frame, in one form for a known flow, a new one and a new
\* one in a full table: of the flows of K the others stay as they are, in their order (base).
Effect(ts, src, dst, base, K) ==
    LET k == Canonical(src, dst) IN
    /\ Sub(base, lru) /\ Len(base) < MaxFlows /\ k \notin ToSet(base)
    /\ K \in SUBSET ToSet(lru) /\ ToSet(base) = K \ {k} /\ lru' = Append(base, k)
    /\ stats' \in [K \cup {k} -> FlowStats]
    /\ \A x \in K \ {k} : stats'[x] = stats[x]
    /\ stats'[k].first <= stats'[k].last /\ stats'[k].last <= lastTs' /\ ts <= stats'[k].last
    /\ inOrder' => stats'[k].last = lastTs'
    /\ \A e \in 1..2 :
          stats'[k].packets[e] = (IF k \in K THEN stats[k].packets[e] ELSE 0)
                                    + (IF e = Direction(src, dst) THEN 1 ELSE 0)
    /\ k \notin K => stats'[k].first = ts /\ Total(stats'[k]) = 1
    /\ created' \in Nat /\ evicted' \in Nat
    /\ created + (Len(base) + 1 + evicted' + expired') = created' + (Len(lru) + evicted + expired)
    /\ retired' = [p \in Pairs |-> retired[p] + CountedIn(stats, ToSet(lru) \ K, p[1], p[2])]
    /\ K \subseteq ToSet(Remaining(ts))
    /\ \A x \in ToSet(lru) \ K :
          \/ Idle(stats[x], lastTs')
          \/ evicted' = evicted + 1 /\ Len(base) + 1 = MaxFlows /\ x = lru[1]

\* What the three cases of update start from.
LEMMA UpdateStart ==
    ASSUME TypeOK, NEW ts \in Nat, Advance(ts)
    PROVE  LET left == Remaining(ts)
           IN  /\ left \in Seq(Keys) /\ Sub(left, lru) /\ Distinct(left) /\ Len(left) \in Nat
               /\ ToSet(left) \in SUBSET ToSet(lru) /\ Len(left) <= MaxFlows
               /\ expired' + Len(left) = expired + Len(lru)
               /\ \A x \in ToSet(left) : stats[x] \in FlowStats /\ stats[x].first <= stats[x].last
                                            /\ stats[x].last <= lastTs
               /\ \A x \in ToSet(lru) \ ToSet(left) : Idle(stats[x], lastTs')
               /\ Len(left) = Len(lru) => ToSet(left) = ToSet(lru) /\ left = lru
               /\ \A x : Contains(left, x) <=> x \in ToSet(left)
<1>. DEFINE left == Remaining(ts)
<1>1. /\ left \in Seq(Keys) /\ Sub(left, lru) /\ Len(left) = Len(lru) - Expiring(Later(lastTs, ts))
      /\ Expiring(Later(lastTs, ts)) \in 0..Len(lru)
      /\ \A x \in ToSet(lru) \ ToSet(left) : Idle(stats[x], Later(lastTs, ts))
      /\ Len(left) = Len(lru) => ToSet(left) = ToSet(lru) /\ left = lru
  BY Leaves
<1>2. /\ lastTs' = Later(lastTs, ts) /\ lastTs' \in Nat /\ lastTs <= lastTs'
      /\ expired' = expired + Expiring(Later(lastTs, ts))
  BY Clock
<1>3. Table(lru, stats, lastTs) /\ lastTs \in Nat /\ Len(lru) \in Nat /\ Len(left) \in Nat
      /\ DOMAIN left = 1..Len(left) /\ Len(lru) <= MaxFlows /\ MaxFlows \in Nat
      /\ expired \in Nat
  BY <1>1, TableNow, SeqBasics, FlowAssumption DEF TypeOK
<1>. HIDE DEF left
<1>4. Distinct(left)
  <2>1. Table(left, [k \in ToSet(left) |-> stats[k]], lastTs')
    BY <1>1, <1>2, <1>3, SubTable
  <2>. QED BY <2>1 DEF Table
<1>5. \A x \in ToSet(left) :
         stats[x] \in FlowStats /\ stats[x].first <= stats[x].last /\ stats[x].last <= lastTs
  BY <1>1, <1>3 DEF Table, Sub
<1>6. expired' + Len(left) = expired + Len(lru)
  BY <1>1, <1>2, <1>3
<1>7. \A x : Contains(left, x) <=> x \in ToSet(left)
  BY <1>3 DEF Contains, ToSet
<1>8. Len(left) <= MaxFlows
  BY <1>1, <1>3
<1>. QED BY <1>1, <1>2, <1>3, <1>4, <1>5, <1>6, <1>7, <1>8 DEF left, Sub

\* A packet of a flow that is known.
LEMMA TouchEffect ==
    ASSUME TypeOK, NEW ts \in Nat, NEW src \in Endpoints, NEW dst \in Endpoints, Advance(ts),
           Contains(Remaining(ts), Canonical(src, dst)),
           lru' = MostRecent(Remaining(ts), Canonical(src, dst)),
           stats' = [StatsOf(Remaining(ts)) EXCEPT
                        ![Canonical(src, dst)] = Touched(@, ts, Direction(src, dst))],
           Retire(ToSet(lru) \ ToSet(Remaining(ts))), UNCHANGED <<evicted, created>>
    PROVE  \E base, K : Effect(ts, src, dst, base, K)
<1>. DEFINE k == Canonical(src, dst)
            d == Direction(src, dst)
            left == Remaining(ts)
            K == ToSet(left)
            p == CHOOSE i \in DOMAIN left : left[i] = k
            base == RemoveAt(left, p)
<1>1. /\ left \in Seq(Keys) /\ Sub(left, lru) /\ Distinct(left) /\ Len(left) \in Nat
      /\ K \in SUBSET ToSet(lru) /\ Len(left) <= MaxFlows
      /\ expired' + Len(left) = expired + Len(lru)
      /\ \A x \in K : stats[x] \in FlowStats /\ stats[x].first <= stats[x].last
                                   /\ stats[x].last <= lastTs
      /\ \A x \in ToSet(lru) \ K : Idle(stats[x], lastTs')
      /\ \A x : Contains(left, x) <=> x \in ToSet(left)
  BY UpdateStart
<1>2. k \in Keys /\ d \in 1..2 /\ k \in K
  BY <1>1, KeyTypes
<1>3. /\ lastTs \in Nat /\ lastTs' \in Nat /\ lastTs <= lastTs' /\ ts <= lastTs'
      /\ inOrder' => lastTs' = ts
  BY Clock, TableNow
<1>4. lru' = Append(base, k)
  BY DEF MostRecent
<1>5. p \in DOMAIN left /\ left[p] = k
  BY <1>2 DEF ToSet
<1>6. stats' = [x \in K |-> IF x = k THEN Touched(stats[k], ts, d) ELSE stats[x]]
  BY <1>2 DEF StatsOf
<1>7. retired' = [q \in Pairs |-> retired[q] + CountedIn(stats, ToSet(lru) \ K, q[1], q[2])]
  BY DEF Retire, Counted, CountedIn
<1>. HIDE DEF p
<1>8. /\ Sub(base, left) /\ Len(base) = Len(left) - 1
      /\ ToSet(base) = K \ {k}
  BY <1>1, <1>5, RemoveIsSub
<1>. HIDE DEF base, left, k, d
<1>9. Sub(base, lru)
  BY <1>1, <1>8, TableNow, SubTransitive
<1>10. /\ Touched(stats[k], ts, d) \in FlowStats
       /\ Touched(stats[k], ts, d).first = stats[k].first
       /\ Touched(stats[k], ts, d).last = Later(stats[k].last, ts)
       /\ \A e \in 1..2 : Touched(stats[k], ts, d).packets[e]
                             = stats[k].packets[e] + (IF e = d THEN 1 ELSE 0)
  BY <1>1, <1>2, FlowTypes
<1>11. /\ stats' \in [K \cup {k} -> FlowStats] /\ stats'[k] = Touched(stats[k], ts, d)
       /\ \A x \in K \ {k} : stats'[x] = stats[x]
  <2>1. K \cup {k} = K BY <1>2
  <2>. HIDE DEF K
  <2>2. \A x \in K : stats[x] \in FlowStats BY <1>1
  <2>. QED BY <1>2, <1>6, <1>10, <2>1, <2>2
<1>12. /\ stats[k].first \in Nat /\ stats[k].last \in Nat
       /\ stats[k].first <= stats[k].last /\ stats[k].last <= lastTs
  BY <1>1, <1>2 DEF FlowStats
<1>13. /\ stats'[k].first <= stats'[k].last /\ stats'[k].last <= lastTs' /\ ts <= stats'[k].last
       /\ inOrder' => stats'[k].last = lastTs'
  <2>1. stats'[k].first = stats[k].first /\ stats'[k].last = Later(stats[k].last, ts)
    BY <1>10, <1>11
  <2>2. inOrder' => stats[k].last <= ts
    BY <1>3, <1>12
  <2>. QED BY <1>3, <1>12, <2>1, <2>2 DEF Later
<1>14. Len(base) < MaxFlows
  BY <1>1, <1>8, FlowAssumption
<1>15. /\ created' \in Nat /\ evicted' \in Nat
       /\ created + (Len(base) + 1 + evicted' + expired')
             = created' + (Len(lru) + evicted + expired)
  <2>1. /\ created \in Nat /\ evicted \in Nat /\ expired \in Nat /\ Len(lru) \in Nat
        /\ expired' \in Nat
    BY TableNow, Clock DEF TypeOK
  <2>2. created' = created /\ evicted' = evicted
    OBVIOUS
  <2>3. expired' + Len(left) = expired + Len(lru) /\ Len(left) \in Nat
    BY <1>1
  <2>4. Len(base) = Len(left) - 1
    BY <1>8
  <2>5. Len(lru) \in Nat /\ Len(left) \in Nat /\ created \in Nat /\ evicted \in Nat /\ expired \in Nat
    BY <2>1, <2>3
  <2>6. ASSUME NEW y \in Nat, y + Len(left) = expired + Len(lru)
        PROVE  created + (Len(base) + 1 + evicted + y) = created + (Len(lru) + evicted + expired)
    BY <2>4, <2>5, <2>6
  <2>7. created + (Len(base) + 1 + evicted + expired') = created + (Len(lru) + evicted + expired)
    BY <2>1, <2>3, <2>6, Zenon
  <2>. QED BY <2>1, <2>2, <2>7, Zenon
<1>16. k \notin ToSet(base) /\ K \subseteq ToSet(Remaining(ts))
  BY <1>8 DEF left
<1>17. \A e \in 1..2 : stats'[k].packets[e] = (IF k \in K THEN stats[k].packets[e] ELSE 0)
                                   + (IF e = d THEN 1 ELSE 0)
  BY <1>2, <1>10, <1>11
<1>. HIDE DEF K
<1>18. Effect(ts, src, dst, base, K)
  BY <1>1, <1>2, <1>4, <1>7, <1>8, <1>9, <1>11, <1>13, <1>14, <1>15, <1>16, <1>17 DEF Effect, k, d
<1>. QED BY <1>18

\* A new flow, into what expiry has left (base is all of it) or into a full table (all but its
\* oldest).
LEMMA EnterEffect ==
    ASSUME TypeOK, NEW ts \in Nat, NEW src \in Endpoints, NEW dst \in Endpoints, Advance(ts),
           NEW base, Sub(base, lru), Len(base) < MaxFlows, Canonical(src, dst) \notin ToSet(base),
           ToSet(base) \subseteq ToSet(Remaining(ts)),
           \A x \in ToSet(lru) \ ToSet(base) :
              \/ Idle(stats[x], lastTs')
              \/ evicted' = evicted + 1 /\ Len(base) + 1 = MaxFlows /\ x = lru[1],
           evicted' \in Nat, evicted' + expired' + Len(base) = evicted + expired + Len(lru),
           created' = created + 1,
           lru' = Append(base, Canonical(src, dst)),
           stats' = Entered(base, Canonical(src, dst), ts, Direction(src, dst)),
           Retire(ToSet(lru) \ ToSet(base))
    PROVE  Effect(ts, src, dst, base, ToSet(base))
<1>. DEFINE k == Canonical(src, dst)
            d == Direction(src, dst)
            K == ToSet(base)
<1>1. k \in Keys /\ d \in 1..2
  BY KeyTypes
<1>2. /\ lastTs \in Nat /\ lastTs' \in Nat /\ lastTs <= lastTs' /\ ts <= lastTs'
      /\ inOrder' => lastTs' = ts
  BY Clock, TableNow
<1>3. K \in SUBSET ToSet(lru) /\ \A x \in K : stats[x] \in FlowStats
  BY TableNow DEF Sub, Table
<1>4. /\ stats' \in [K \cup {k} -> FlowStats]
      /\ \A x \in K : stats'[x] = stats[x]
      /\ stats'[k] = NewFlow(ts, d)
  <2>1. stats' = Entered(base, k, ts, d) /\ k \notin ToSet(base)
    OBVIOUS
  <2>2. /\ Entered(base, k, ts, d) \in [ToSet(base) \cup {k} -> FlowStats]
        /\ \A x \in ToSet(base) : Entered(base, k, ts, d)[x] = stats[x]
        /\ Entered(base, k, ts, d)[k] = NewFlow(ts, d)
    <3>. HIDE DEF k, d
    <3>1. \A x \in ToSet(base) : stats[x] \in FlowStats BY <1>3
    <3>. QED BY <1>1, <2>1, <3>1, FlowTypes DEF Entered
  <2>. HIDE DEF k, d
  <2>. QED BY <2>1, <2>2
<1>5. /\ stats'[k].first = ts /\ stats'[k].last = ts /\ Total(stats'[k]) = 1
      /\ \A e \in 1..2 : stats'[k].packets[e] = IF e = d THEN 1 ELSE 0
  BY <1>1, <1>4, FlowTypes
<1>6. retired' = [q \in Pairs |-> retired[q] + CountedIn(stats, ToSet(lru) \ K, q[1], q[2])]
  BY DEF Retire, Counted, CountedIn
<1>. HIDE DEF k, d
<1>7. k \notin K /\ lru' = Append(base, k) /\ K = K \ {k}
  BY DEF k
<1>8. \A e \in 1..2 : stats'[k].packets[e] = (IF k \in K THEN stats[k].packets[e] ELSE 0)
                                                + (IF e = d THEN 1 ELSE 0)
  BY <1>5, <1>7
<1>9. /\ created' \in Nat
      /\ created + (Len(base) + 1 + evicted' + expired')
            = created' + (Len(lru) + evicted + expired)
  <2>1. /\ created \in Nat /\ evicted \in Nat /\ expired \in Nat /\ Len(lru) \in Nat
        /\ expired' \in Nat /\ Len(base) \in Nat
    BY TableNow, Clock, SeqBasics DEF TypeOK, Sub
  <2>2. created' = created + 1 /\ evicted' + expired' + Len(base) = evicted + expired + Len(lru)
    OBVIOUS
  <2>3. evicted' \in Nat OBVIOUS
  <2>. HIDE DEF k, d, K
  <2>. QED
    <3>1. created' \in Nat BY <2>1, <2>2
    <3>2. created + (Len(base) + 1 + evicted' + expired')
             = created + 1 + (evicted' + expired' + Len(base))
      BY <2>1, <2>3
    <3>3. created + (Len(base) + 1 + evicted' + expired')
             = created + 1 + (evicted + expired + Len(lru))
      BY <2>2, <3>2
    <3>. QED BY <2>1, <2>2, <3>1, <3>3
<1>10. /\ stats'[k].first <= stats'[k].last /\ stats'[k].last <= lastTs' /\ ts <= stats'[k].last
       /\ inOrder' => stats'[k].last = lastTs'
  BY <1>2, <1>5
<1>11. K \subseteq ToSet(Remaining(ts))
  OBVIOUS
<1>12. \A x \in ToSet(lru) \ K :
          \/ Idle(stats[x], lastTs')
          \/ evicted' = evicted + 1 /\ Len(base) + 1 = MaxFlows /\ x = lru[1]
  OBVIOUS
<1>. HIDE DEF K
<1>13. Effect(ts, src, dst, base, K)
  BY <1>3, <1>4, <1>5, <1>6, <1>7, <1>8, <1>9, <1>10, <1>11, <1>12 DEF Effect, k, d, K
<1>. QED BY <1>13 DEF K

LEMMA UpdateEffect ==
    ASSUME TypeOK, NEW ts \in Nat, NEW src \in Endpoints, NEW dst \in Endpoints, Advance(ts),
           Update(ts, src, dst)
    PROVE  \E base, K : Effect(ts, src, dst, base, K)
<1>. DEFINE k == Canonical(src, dst)
            d == Direction(src, dst)
            left == Remaining(ts)
<1>1. /\ left \in Seq(Keys) /\ Sub(left, lru) /\ Distinct(left) /\ Len(left) \in Nat
      /\ ToSet(left) \in SUBSET ToSet(lru) /\ Len(left) <= MaxFlows
      /\ expired' + Len(left) = expired + Len(lru)
      /\ \A x \in ToSet(lru) \ ToSet(left) : Idle(stats[x], lastTs')
      /\ Len(left) = Len(lru) => ToSet(left) = ToSet(lru) /\ left = lru
      /\ \A x : Contains(left, x) <=> x \in ToSet(left)
  BY UpdateStart
<1>2. /\ Len(lru) \in Nat /\ MaxFlows \in Nat \ {0} /\ Len(lru) <= MaxFlows /\ evicted \in Nat
      /\ expired \in Nat /\ expired' \in Nat /\ DOMAIN lru = 1..Len(lru)
  BY TableNow, Clock, FlowAssumption DEF TypeOK
<1>3. CASE /\ Contains(left, k) /\ lru' = MostRecent(left, k)
           /\ stats' = [StatsOf(left) EXCEPT ![k] = Touched(@, ts, d)]
           /\ Retire(ToSet(lru) \ ToSet(left)) /\ UNCHANGED <<evicted, created>>
  BY <1>3, TouchEffect
<1>4. CASE /\ ~Contains(left, k) /\ Len(left) < MaxFlows
           /\ lru' = Append(left, k) /\ stats' = Entered(left, k, ts, d)
           /\ created' = created + 1 /\ Retire(ToSet(lru) \ ToSet(left)) /\ UNCHANGED evicted
  <2>1. evicted' \in Nat /\ evicted' + expired' + Len(left) = evicted + expired + Len(lru)
    <3>. HIDE DEF left
    <3>1. evicted' = evicted BY <1>4
    <3>2. expired' + Len(left) = expired + Len(lru) /\ Len(left) \in Nat BY <1>1
    <3>. QED BY <1>2, <3>1, <3>2
  <2>2. k \notin ToSet(left) BY <1>1, <1>4
  <2>3. Effect(ts, src, dst, left, ToSet(left))
    BY <1>1, <1>4, <2>1, <2>2, EnterEffect
  <2>. QED BY <2>3
<1>5. CASE /\ ~Contains(left, k) /\ Len(left) = MaxFlows
           /\ lru' = Append(Tail(left), k) /\ stats' = Entered(Tail(left), k, ts, d)
           /\ CountEviction /\ created' = created + 1
           /\ Retire(ToSet(lru) \ ToSet(Tail(left)))
  <2>0. left = lru /\ ToSet(left) = ToSet(lru) /\ left # <<>>
    <3>1. Len(left) = Len(lru)
      <4>1. Len(left) <= Len(lru) BY <1>1 DEF Sub
      <4>2. Len(left) = MaxFlows BY <1>5
      <4>3. Len(lru) \in Nat /\ MaxFlows \in Nat /\ Len(lru) <= MaxFlows BY <1>2
      <4>. HIDE DEF left
      <4>. QED BY <4>1, <4>2, <4>3
    <3>2. Len(left) # 0 BY <1>2, <1>5
    <3>. QED BY <1>1, <3>1, <3>2
  <2>1. /\ Sub(Tail(left), left) /\ Len(Tail(left)) = Len(left) - 1
        /\ Head(left) = left[1] /\ ToSet(Tail(left)) = ToSet(left) \ {Head(left)}
    <3>. HIDE DEF left
    <3>. QED BY <1>1, <2>0, TailIsSub
  <2>. HIDE DEF left
  <2>2. Sub(Tail(left), lru) BY <2>0, <2>1
  <2>3. evicted' = evicted + 1 BY <1>5 DEF CountEviction
  <2>4. Len(Tail(left)) < MaxFlows /\ Len(Tail(left)) + 1 = MaxFlows
    <3>1. Len(left) = MaxFlows BY <1>5
    <3>2. Len(Tail(left)) = Len(left) - 1 BY <2>1
    <3>. QED BY <1>2, <3>1, <3>2
  <2>5. /\ evicted' \in Nat
        /\ evicted' + expired' + Len(Tail(left)) = evicted + expired + Len(lru)
    <3>1. expired' + Len(left) = expired + Len(lru) /\ Len(left) \in Nat BY <1>1
    <3>2. Len(Tail(left)) = Len(left) - 1 BY <2>1
    <3>3. evicted \in Nat /\ expired \in Nat /\ expired' \in Nat BY <1>2
    <3>4. Len(lru) \in Nat BY <1>2
    <3>5. ASSUME NEW l \in Nat, NEW m \in Nat, NEW n, n = m - 1
          PROVE  \A f, y : y \in Nat /\ f = evicted + 1 /\ y + m = expired + l
                    => f \in Nat /\ f + y + n = evicted + expired + l
      BY <3>3, <3>5
    <3>6. \A f, y : y \in Nat /\ f = evicted + 1 /\ y + Len(left) = expired + Len(lru)
             => f \in Nat /\ f + y + Len(Tail(left)) = evicted + expired + Len(lru)
      BY <3>1, <3>2, <3>4, <3>5, Zenon
    <3>. QED BY <2>3, <3>1, <3>3, <3>6, Zenon
  <2>6. k \notin ToSet(Tail(left)) /\ ToSet(Tail(left)) \subseteq ToSet(Remaining(ts))
    BY <1>1, <1>5, <2>1 DEF left
  <2>7. \A x \in ToSet(lru) \ ToSet(Tail(left)) :
           \/ Idle(stats[x], lastTs')
           \/ evicted' = evicted + 1 /\ Len(Tail(left)) + 1 = MaxFlows /\ x = lru[1]
    BY <2>0, <2>1, <2>3, <2>4
  <2>8. Effect(ts, src, dst, Tail(left), ToSet(Tail(left)))
    BY <1>5, <2>2, <2>4, <2>5, <2>6, <2>7, EnterEffect
  <2>. QED BY <2>8
<1>. QED BY <1>3, <1>4, <1>5 DEF Update

\* What process does with a frame of no flow.
LEMMA UntrackedEffect ==
    ASSUME TypeOK, NEW ts \in Nat, ProcessUntracked(ts)
    PROVE  LET K == ToSet(Remaining(ts)) IN
           /\ Sub(lru', lru) /\ ToSet(lru') = K /\ K \in SUBSET ToSet(lru)
           /\ stats' = [x \in K |-> stats[x]]
           /\ retired' = [p \in Pairs |-> retired[p] + CountedIn(stats, ToSet(lru) \ K, p[1], p[2])]
           /\ Len(lru') + expired' = Len(lru) + expired
           /\ \A x \in ToSet(lru) \ K : Idle(stats[x], lastTs')
           /\ UNCHANGED <<evicted, created, seen>> /\ packets' = packets + 1 /\ Advance(ts)
<1>. DEFINE left == Remaining(ts)
            K == ToSet(left)
<1>1. /\ Advance(ts) /\ lru' = left /\ stats' = [x \in K |-> stats[x]]
      /\ UNCHANGED <<evicted, created, seen>> /\ packets' = packets + 1
      /\ Retire(ToSet(lru) \ K)
  BY DEF ProcessUntracked, StatsOf
<1>2. /\ Sub(left, lru) /\ K \in SUBSET ToSet(lru) /\ Len(left) \in Nat
      /\ expired' + Len(left) = expired + Len(lru)
      /\ \A x \in ToSet(lru) \ K : Idle(stats[x], lastTs')
  BY <1>1, UpdateStart
<1>3. retired' = [p \in Pairs |-> retired[p] + CountedIn(stats, ToSet(lru) \ K, p[1], p[2])]
  BY <1>1 DEF Retire, Counted, CountedIn
<1>. HIDE DEF left
<1>4. Len(lru') + expired' = Len(lru) + expired
  <2>1. expired \in Nat /\ expired' \in Nat /\ Len(lru) \in Nat
    BY <1>1, Clock, TableNow DEF TypeOK
  <2>2. Len(lru') = Len(left) BY <1>1
  <2>3. expired' + Len(left) = expired + Len(lru) /\ Len(left) \in Nat BY <1>2
  <2>. QED BY <2>1, <2>2, <2>3
<1>. QED BY <1>1, <1>2, <1>3, <1>4 DEF left

-----------------------------------------------------------------------------
(* The invariant.                                                           *)

\* What a frame keeps, and what the exporter's invariant needs to know of it.
Frame(ts, k) ==
    /\ TypeOK' /\ Accounted' /\ (inOrder' => InUseOrder(lru', stats'))
    /\ lastTs <= lastTs'
    /\ \A x \in ToSet(lru') \ {k} : x \in ToSet(lru) /\ stats'[x] = stats[x]
    /\ k \in ToSet(lru') => ts <= stats'[k].last

LEMMA CountedTypes ==
    ASSUME NEW S, NEW st \in [S -> FlowStats], NEW T \in SUBSET S
    PROVE  \A p \in Pairs : CountedIn(st, T, p[1], p[2]) \in Nat
<1>1. \A p \in Pairs : p[1] \in Endpoints /\ p[2] \in Endpoints
  BY DEF Pairs
<1>2. \A a, b \in Endpoints : Direction(a, b) \in 1..2
  BY KeyTypes
<1>. QED BY <1>1, <1>2 DEF CountedIn, FlowStats

LEMMA TrackedFrame ==
    ASSUME TypeOK, Accounted, inOrder => InUseOrder(lru, stats),
           NEW ts \in Nat, NEW src \in Endpoints, NEW dst \in Endpoints,
           ProcessTracked(ts, src, dst)
    PROVE  Frame(ts, Canonical(src, dst)) /\ NoIdleLeft /\ OnlyIdleOrOldest
<1>. DEFINE k == Canonical(src, dst)
            d == Direction(src, dst)
<1>1. /\ Advance(ts) /\ packets' = packets + 1 /\ seen' = [seen EXCEPT ![<<src, dst>>] = @ + 1]
  BY DEF ProcessTracked
<1>2. PICK base, K : Effect(ts, src, dst, base, K)
  BY <1>1, UpdateEffect DEF ProcessTracked
<1>3. /\ lastTs' = Later(lastTs, ts) /\ lastTs' \in Nat /\ lastTs <= lastTs' /\ ts <= lastTs'
      /\ expired' \in Nat /\ nextExpiry' \in Nat /\ inOrder' \in BOOLEAN
      /\ inOrder' => inOrder /\ lastTs' = ts
  BY <1>1, Clock
<1>4. /\ Table(lru, stats, lastTs) /\ lastTs \in Nat /\ Len(lru) \in Nat
      /\ DOMAIN lru = 1..Len(lru) /\ DOMAIN stats = ToSet(lru)
  BY TableNow
<1>5. k \in Keys /\ d \in 1..2
  BY KeyTypes
<1>6. /\ Sub(base, lru) /\ Len(base) < MaxFlows /\ k \notin ToSet(base)
      /\ K \in SUBSET ToSet(lru) /\ ToSet(base) = K \ {k} /\ lru' = Append(base, k)
      /\ stats' \in [K \cup {k} -> FlowStats]
      /\ \A x \in K \ {k} : stats'[x] = stats[x]
  BY <1>2 DEF Effect
<1>7. /\ stats'[k].first <= stats'[k].last /\ stats'[k].last <= lastTs' /\ ts <= stats'[k].last
      /\ inOrder' => stats'[k].last = lastTs'
      /\ k \notin K => stats'[k].first = ts /\ Total(stats'[k]) = 1
  BY <1>2 DEF Effect
<1>8. /\ \A e \in 1..2 :
            stats'[k].packets[e] = (IF k \in K THEN stats[k].packets[e] ELSE 0)
                                      + (IF e = d THEN 1 ELSE 0)
      /\ retired' = [p \in Pairs |-> retired[p] + CountedIn(stats, ToSet(lru) \ K, p[1], p[2])]
  BY <1>2 DEF Effect
<1>9. /\ created' \in Nat /\ evicted' \in Nat
      /\ created + (Len(base) + 1 + evicted' + expired')
            = created' + (Len(lru) + evicted + expired)
  BY <1>2 DEF Effect
<1>10. /\ K \subseteq ToSet(Remaining(ts))
       /\ \A x \in ToSet(lru) \ K :
             \/ Idle(stats[x], lastTs')
             \/ evicted' = evicted + 1 /\ Len(base) + 1 = MaxFlows /\ x = lru[1]
  BY <1>2 DEF Effect
<1>. HIDE DEF k, d
<1>11. ToSet(base) \cup {k} = K \cup {k}
  BY <1>6
<1>12. /\ Table(lru', stats', lastTs') /\ ToSet(lru') = K \cup {k} /\ Len(lru') = Len(base) + 1
       /\ inOrder' => InUseOrder(lru', stats')
  <2>1. \A x \in ToSet(base) : stats'[x] = stats[x] BY <1>6
  <2>2. stats' \in [ToSet(base) \cup {k} -> FlowStats] BY <1>6, <1>11
  <2>3. /\ Table(Append(base, k), stats', lastTs')
        /\ ToSet(Append(base, k)) = ToSet(base) \cup {k}
        /\ Len(Append(base, k)) = Len(base) + 1
        /\ InUseOrder(lru, stats) /\ stats'[k].last = lastTs' => InUseOrder(Append(base, k), stats')
    <3>1. /\ Table(lru, stats, lastTs) /\ lastTs \in Nat /\ lastTs' \in Nat /\ lastTs <= lastTs'
      BY <1>3, <1>4
    <3>2. Sub(base, lru) /\ Len(base) < MaxFlows /\ k \in Keys /\ k \notin ToSet(base)
      BY <1>5, <1>6
    <3>3. stats'[k].first <= stats'[k].last /\ stats'[k].last <= lastTs'
      BY <1>7
    <3>. HIDE DEF Effect
    <3>. QED BY <2>1, <2>2, <3>1, <3>2, <3>3, EnterTable
  <2>. QED BY <1>3, <1>6, <1>7, <1>11, <2>3
<1>13. <<src, dst>> \in Pairs /\ seen \in [Pairs -> Nat] /\ retired \in [Pairs -> Nat]
       /\ stats \in [ToSet(lru) -> FlowStats]
  BY <1>4 DEF Pairs, TypeOK, Table
<1>14. seen' \in [Pairs -> Nat] /\ retired' \in [Pairs -> Nat]
  <2>1. \A p \in Pairs : CountedIn(stats, ToSet(lru) \ K, p[1], p[2]) \in Nat
    BY <1>13, CountedTypes
  <2>. QED BY <1>1, <1>8, <1>13, <2>1
<1>15. TypeOK'
  <2>1. packets' \in Nat BY <1>1 DEF TypeOK
  <2>2. Table(lru', stats', lastTs') BY <1>12
  <2>. QED BY <1>3, <1>9, <1>14, <2>1, <2>2 DEF TypeOK, Table, Distinct, FlowStats
<1>16. Accounted'
  <2>1. created' = Len(lru') + evicted' + expired'
    <3>1. created = Len(lru) + evicted + expired /\ Len(lru') = Len(base) + 1
      BY <1>12 DEF Accounted
    <3>2. /\ created \in Nat /\ evicted \in Nat /\ expired \in Nat /\ Len(base) \in Nat
          /\ Len(lru) \in Nat
      BY <1>4, <1>6, SeqBasics DEF TypeOK, Sub
    <3>3. /\ created' \in Nat /\ evicted' \in Nat /\ expired' \in Nat
          /\ created + (Len(base) + 1 + evicted' + expired')
                = created' + (Len(lru) + evicted + expired)
      BY <1>3, <1>9
    <3>. DEFINE sum == Len(base) + 1 + evicted' + expired'
    <3>4. sum \in Nat
      <4>1. Len(base) \in Nat /\ evicted' \in Nat /\ expired' \in Nat BY <3>2, <3>3
      <4>. QED BY <4>1
    <3>5. created' = sum
      <4>1. created + sum = created' + created BY <3>1, <3>3
      <4>2. created' \in Nat /\ created \in Nat BY <3>2, <3>3
      <4>. HIDE DEF sum
      <4>3. \A u, v, w \in Nat : u + v = w + u => w = v OBVIOUS
      <4>. QED BY <3>4, <4>1, <4>2, <4>3, Zenon
    <3>. QED BY <3>1, <3>5
  <2>2. ASSUME NEW a \in Endpoints, NEW b \in Endpoints
        PROVE  seen'[<<a, b>>] = CountedIn(stats', ToSet(lru'), a, b) + retired'[<<a, b>>]
    <3>1. <<a, b>> \in Pairs BY DEF Pairs
    <3>2. CountedIn(stats', K \cup {k}, a, b) + CountedIn(stats, ToSet(lru) \ K, a, b)
             = CountedIn(stats, ToSet(lru), a, b) + (IF a = src /\ b = dst THEN 1 ELSE 0)
      <4>1. OneMore(stats, stats', K, src, dst)
        BY <1>6, <1>8 DEF OneMore, k, d
      <4>2. stats \in [ToSet(lru) -> FlowStats] /\ K \in SUBSET ToSet(lru) BY <1>6, <1>13
      <4>3. CountedIn(stats', K \cup {Canonical(src, dst)}, a, b)
               + CountedIn(stats, ToSet(lru) \ K, a, b)
               = CountedIn(stats, ToSet(lru), a, b) + (IF a = src /\ b = dst THEN 1 ELSE 0)
        BY <4>1, <4>2, Books
      <4>. QED BY <4>3 DEF k
    <3>3. seen'[<<a, b>>] = seen[<<a, b>>] + (IF a = src /\ b = dst THEN 1 ELSE 0)
      BY <1>1, <1>13, <3>1
    <3>4. retired'[<<a, b>>] = retired[<<a, b>>] + CountedIn(stats, ToSet(lru) \ K, a, b)
      BY <1>8, <3>1
    <3>5. seen[<<a, b>>] = CountedIn(stats, ToSet(lru), a, b) + retired[<<a, b>>]
      BY DEF Accounted, Counted, CountedIn
    <3>6. /\ CountedIn(stats', K \cup {k}, a, b) \in Nat
          /\ CountedIn(stats, ToSet(lru) \ K, a, b) \in Nat
          /\ CountedIn(stats, ToSet(lru), a, b) \in Nat
          /\ retired[<<a, b>>] \in Nat
      <4>1. /\ \A p \in Pairs : CountedIn(stats', K \cup {k}, p[1], p[2]) \in Nat
            /\ \A p \in Pairs : CountedIn(stats, ToSet(lru) \ K, p[1], p[2]) \in Nat
            /\ \A p \in Pairs : CountedIn(stats, ToSet(lru), p[1], p[2]) \in Nat
        BY <1>6, <1>13, CountedTypes
      <4>2. <<a, b>>[1] = a /\ <<a, b>>[2] = b OBVIOUS
      <4>. QED BY <1>13, <3>1, <4>1, <4>2
    <3>7. (IF a = src /\ b = dst THEN 1 ELSE 0) \in Nat
      OBVIOUS
    <3>8. ToSet(lru') = K \cup {k} BY <1>12
    <3>9. \A u, v, w, x, y, z, o \in Nat :
             u + v = w + o /\ z = w + x /\ y = x + v => z + o = u + y
      OBVIOUS
    <3>. QED BY <3>2, <3>3, <3>4, <3>5, <3>6, <3>7, <3>8, <3>9
  <2>. QED BY <2>1, <2>2 DEF Accounted, Counted, CountedIn
<1>17. Frame(ts, k)
  <2>1. \A x \in ToSet(lru') \ {k} : x \in ToSet(lru) /\ stats'[x] = stats[x]
    BY <1>6, <1>12
  <2>. QED BY <1>3, <1>7, <1>12, <1>15, <1>16, <2>1 DEF Frame
<1>18. NoIdleLeft
  <2>1. SUFFICES ASSUME inOrder', lastTs' >= nextExpiry,
                        NEW x \in DOMAIN stats \cap DOMAIN stats', Idle(stats[x], lastTs')
                 PROVE  stats'[x].first = lastTs' /\ Total(stats'[x]) = 1
    BY DEF NoIdleLeft
  <2>2. x \notin ToSet(Remaining(ts))
    <3>1. Due(lastTs') /\ InUseOrder(lru, stats) BY <1>3, <2>1 DEF Due
    <3>. QED BY <1>3, <2>1, <3>1, Leaves
  <2>3. x = k /\ k \notin K BY <1>6, <1>10, <2>1, <2>2
  <2>. QED BY <1>3, <1>7, <2>1, <2>3
<1>19. OnlyIdleOrOldest
  <2>1. SUFFICES ASSUME NEW x \in DOMAIN stats \ DOMAIN stats', ~Idle(stats[x], lastTs')
                 PROVE  /\ evicted' = evicted + 1 /\ Len(lru') = MaxFlows
                        /\ inOrder => \A y \in DOMAIN stats \cap DOMAIN stats' :
                                         stats[x].last <= stats[y].last
    BY DEF OnlyIdleOrOldest, Idle
  <2>2. x \in ToSet(lru) \ K BY <1>4, <1>6, <2>1
  <2>3. evicted' = evicted + 1 /\ Len(lru') = MaxFlows /\ x = lru[1]
    BY <1>10, <1>12, <2>1, <2>2
  <2>4. ASSUME inOrder, NEW y \in DOMAIN stats PROVE stats[x].last <= stats[y].last
    <3>1. PICK i \in 1..Len(lru) : y = lru[i] BY <1>4 DEF ToSet
    <3>2. CASE i = 1
      <4>1. stats[y].last \in Nat BY <1>4, <2>4 DEF Table, FlowStats
      <4>. QED BY <2>3, <3>1, <3>2, <4>1
    <3>3. CASE i # 1
      <4>1. 1 \in DOMAIN lru /\ i \in DOMAIN lru /\ 1 < i BY <1>4, <3>3
      <4>. QED BY <2>3, <2>4, <3>1, <4>1 DEF InUseOrder
    <3>. QED BY <3>2, <3>3
  <2>. QED BY <2>3, <2>4
<1>. QED BY <1>17, <1>18, <1>19 DEF k

LEMMA UntrackedFrame ==
    ASSUME TypeOK, Accounted, inOrder => InUseOrder(lru, stats), NEW ts \in Nat,
           ProcessUntracked(ts)
    PROVE  /\ TypeOK' /\ Accounted' /\ (inOrder' => InUseOrder(lru', stats'))
           /\ lastTs <= lastTs'
           /\ \A x \in ToSet(lru') : x \in ToSet(lru) /\ stats'[x] = stats[x]
           /\ NoIdleLeft /\ OnlyIdleOrOldest
<1>. DEFINE K == ToSet(Remaining(ts))
<1>1. /\ Sub(lru', lru) /\ ToSet(lru') = K /\ K \in SUBSET ToSet(lru)
      /\ stats' = [x \in K |-> stats[x]]
      /\ retired' = [p \in Pairs |-> retired[p] + CountedIn(stats, ToSet(lru) \ K, p[1], p[2])]
      /\ Len(lru') + expired' = Len(lru) + expired
      /\ \A x \in ToSet(lru) \ K : Idle(stats[x], lastTs')
      /\ UNCHANGED <<evicted, created, seen>> /\ packets' = packets + 1 /\ Advance(ts)
  BY UntrackedEffect
<1>2. /\ lastTs' = Later(lastTs, ts) /\ lastTs' \in Nat /\ lastTs <= lastTs'
      /\ expired' \in Nat /\ nextExpiry' \in Nat /\ inOrder' \in BOOLEAN
      /\ inOrder' => inOrder
  BY <1>1, Clock
<1>3. /\ Table(lru, stats, lastTs) /\ lastTs \in Nat /\ Len(lru) \in Nat
      /\ DOMAIN stats = ToSet(lru) /\ stats \in [ToSet(lru) -> FlowStats]
  BY TableNow DEF Table
<1>4. /\ \A x \in K : Due(lastTs') /\ InUseOrder(lru, stats) => ~Idle(stats[x], lastTs')
  BY <1>2, Leaves
<1>. HIDE DEF K
<1>5. Table(lru', stats', lastTs') /\ (InUseOrder(lru, stats) => InUseOrder(lru', stats'))
  <2>1. stats' = [x \in ToSet(lru') |-> stats[x]] BY <1>1
  <2>. QED BY <1>1, <1>2, <1>3, <2>1, SubTable
<1>6. retired' \in [Pairs -> Nat]
  <2>1. \A p \in Pairs : CountedIn(stats, ToSet(lru) \ K, p[1], p[2]) \in Nat
    BY <1>1, <1>3, CountedTypes
  <2>2. retired \in [Pairs -> Nat] BY DEF TypeOK
  <2>3. retired' = [p \in Pairs |-> retired[p] + CountedIn(stats, ToSet(lru) \ K, p[1], p[2])]
    BY <1>1
  <2>4. ASSUME NEW p \in Pairs
        PROVE  retired[p] + CountedIn(stats, ToSet(lru) \ K, p[1], p[2]) \in Nat
    <3>1. CountedIn(stats, ToSet(lru) \ K, p[1], p[2]) \in Nat BY <2>1
    <3>2. retired[p] \in Nat BY <2>2
    <3>. QED BY <3>1, <3>2
  <2>. QED BY <2>3, <2>4
<1>7. TypeOK'
  <2>1. /\ packets' \in Nat /\ evicted' \in Nat /\ created' \in Nat /\ seen' \in [Pairs -> Nat]
    BY <1>1 DEF TypeOK
  <2>. QED BY <1>2, <1>5, <1>6, <2>1 DEF TypeOK, Table, Distinct, FlowStats
<1>8. Accounted'
  <2>1. created' = Len(lru') + evicted' + expired'
    <3>1. created = Len(lru) + evicted + expired /\ Len(lru') + expired' = Len(lru) + expired
      BY <1>1 DEF Accounted
    <3>2. created' = created /\ evicted' = evicted BY <1>1
    <3>3. evicted \in Nat /\ expired \in Nat /\ Len(lru) \in Nat /\ expired' \in Nat
      BY <1>2, <1>3 DEF TypeOK
    <3>4. Len(lru') \in Nat BY <1>1, SeqBasics DEF Sub
    <3>. QED BY <3>1, <3>2, <3>3, <3>4
  <2>2. ASSUME NEW a \in Endpoints, NEW b \in Endpoints
        PROVE  seen'[<<a, b>>] = CountedIn(stats', ToSet(lru'), a, b) + retired'[<<a, b>>]
    <3>1. <<a, b>> \in Pairs BY DEF Pairs
    <3>2. CountedIn(stats', K, a, b) + CountedIn(stats, ToSet(lru) \ K, a, b)
             = CountedIn(stats, ToSet(lru), a, b)
      BY <1>1, <1>3, BooksUntracked
    <3>3. seen'[<<a, b>>] = seen[<<a, b>>] BY <1>1
    <3>4. retired'[<<a, b>>] = retired[<<a, b>>] + CountedIn(stats, ToSet(lru) \ K, a, b)
      BY <1>1, <3>1
    <3>5. seen[<<a, b>>] = CountedIn(stats, ToSet(lru), a, b) + retired[<<a, b>>]
      BY DEF Accounted, Counted, CountedIn
    <3>6. /\ CountedIn(stats', K, a, b) \in Nat
          /\ CountedIn(stats, ToSet(lru) \ K, a, b) \in Nat
          /\ retired[<<a, b>>] \in Nat
      <4>1. stats' \in [K -> FlowStats] BY <1>1, <1>5 DEF Table
      <4>2. /\ \A p \in Pairs : CountedIn(stats', K, p[1], p[2]) \in Nat
            /\ \A p \in Pairs : CountedIn(stats, ToSet(lru) \ K, p[1], p[2]) \in Nat
        BY <1>3, <4>1, CountedTypes
      <4>3. <<a, b>>[1] = a /\ <<a, b>>[2] = b OBVIOUS
      <4>. QED BY <3>1, <4>2, <4>3 DEF TypeOK
    <3>7. ToSet(lru') = K BY <1>1
    <3>. QED BY <3>2, <3>3, <3>4, <3>5, <3>6, <3>7
  <2>. QED BY <2>1, <2>2 DEF Accounted, Counted, CountedIn
<1>9. DOMAIN stats' = K
  BY <1>1
<1>10. NoIdleLeft
  BY <1>2, <1>3, <1>4, <1>9 DEF NoIdleLeft, Due
<1>11. OnlyIdleOrOldest
  BY <1>1, <1>3, <1>9 DEF OnlyIdleOrOldest, Idle
<1>12. inOrder' => InUseOrder(lru', stats')
  BY <1>2, <1>5
<1>13. \A x \in ToSet(lru') : x \in ToSet(lru) /\ stats'[x] = stats[x]
  BY <1>1
<1>. QED BY <1>2, <1>7, <1>8, <1>10, <1>11, <1>12, <1>13

-----------------------------------------------------------------------------
(* The exporter.                                                            *)

LEMMA EmptyTable ==
    <<>> \in Seq(Keys) /\ Len(<<>>) = 0 /\ DOMAIN <<>> = {} /\ ToSet(<<>>) = {}
BY EmptySeq DEF ToSet

LEMMA InitInvariant ==
    ASSUME ExportInit
    PROVE  IInv
<1>1. /\ lru = <<>> /\ stats = [k \in {} |-> 0] /\ lastTs = 0 /\ nextExpiry = 0 /\ packets = 0
      /\ evicted = 0 /\ expired = 0 /\ created = 0 /\ inOrder = TRUE
      /\ seen = [p \in Pairs |-> 0] /\ retired = seen
      /\ lastExport = 0 /\ window = None /\ unsent = {}
  BY DEF ExportInit, Init
<1>2. lru \in Seq(Keys) /\ Len(lru) = 0 /\ DOMAIN lru = {} /\ ToSet(lru) = {}
  BY <1>1, EmptyTable
<1>3. TypeOK
  BY <1>1, <1>2, FlowAssumption DEF TypeOK
<1>4. Accounted
  <2>1. \A a, b \in Endpoints : <<a, b>> \in Pairs BY DEF Pairs
  <2>. QED BY <1>1, <1>2, <2>1 DEF Accounted, Counted
<1>5. InUseOrder(lru, stats) BY <1>2 DEF InUseOrder
<1>6. Watermark BY <1>1 DEF Watermark
<1>. QED BY <1>3, <1>4, <1>5, <1>6 DEF IInv

LEMMA TrackedKeeps ==
    ASSUME IInv, NEW ts \in 0..MaxTime, NEW src \in Endpoints, NEW dst \in Endpoints,
           Tracked(ts, src, dst)
    PROVE  IInv' /\ NoIdleLeft /\ OnlyIdleOrOldest
<1>. DEFINE k == Canonical(src, dst)
<1>1. /\ ProcessTracked(ts, src, dst) /\ ts \in Nat
      /\ unsent' = (unsent \cup {k}) \cap ToSet(lru')
      /\ excused' = (IF ts <= window THEN excused \cup {k} ELSE excused) \cap ToSet(lru')
      /\ UNCHANGED <<lastExport, captures, window>>
  BY DEF Tracked
<1>2. Frame(ts, k) /\ NoIdleLeft /\ OnlyIdleOrOldest
  BY <1>1, TrackedFrame DEF IInv
<1>. HIDE DEF k
<1>3. Watermark'
  <2>1. /\ lastExport \in Nat /\ window \in Nat \cup {None} /\ unsent \subseteq Active
        /\ window # None =>
              /\ window = lastExport /\ window <= lastTs
              /\ \A x \in unsent : stats[x].last <= window => x \in excused \/ stats[x].last = 0
    BY DEF IInv, Watermark
  <2>2. /\ TypeOK' /\ lastTs <= lastTs' /\ (k \in ToSet(lru') => ts <= stats'[k].last)
        /\ \A x \in ToSet(lru') \ {k} : x \in ToSet(lru) /\ stats'[x] = stats[x]
    BY <1>2 DEF Frame
  <2>3. lastTs \in Nat /\ lastTs' \in Nat
    BY <2>2 DEF IInv, TypeOK
  <2>4. unsent' \subseteq ToSet(lru')
    BY <1>1
  <2>5. ASSUME window # None PROVE window <= lastTs'
    BY <2>1, <2>2, <2>3, <2>5
  <2>6. ASSUME window # None, NEW x \in unsent', stats'[x].last <= window
        PROVE  x \in excused' \/ stats'[x].last = 0
    <3>1. x \in ToSet(lru') BY <2>4, <2>6
    <3>2. CASE x = k
      <4>1. stats'[x].last \in Nat BY <2>2, <3>1 DEF TypeOK
      <4>2. ts <= window BY <1>1, <2>1, <2>2, <2>6, <3>1, <3>2, <4>1
      <4>. QED BY <1>1, <3>1, <3>2, <4>2
    <3>3. CASE x # k
      <4>1. x \in unsent /\ stats'[x] = stats[x] BY <1>1, <2>2, <2>6, <3>1, <3>3
      <4>2. x \in excused \/ stats[x].last = 0 BY <2>1, <2>6, <4>1
      <4>3. excused \cap ToSet(lru') \subseteq excused' BY <1>1
      <4>. QED BY <3>1, <4>1, <4>2, <4>3
    <3>. QED BY <3>2, <3>3
  <2>. QED BY <1>1, <2>1, <2>4, <2>5, <2>6 DEF Watermark, Active
<1>. QED BY <1>2, <1>3 DEF IInv, Frame

LEMMA UntrackedKeeps ==
    ASSUME IInv, NEW ts \in 0..MaxTime, Untracked(ts)
    PROVE  IInv' /\ NoIdleLeft /\ OnlyIdleOrOldest
<1>1. /\ ProcessUntracked(ts) /\ ts \in Nat
      /\ unsent' = unsent \cap ToSet(lru') /\ excused' = excused \cap ToSet(lru')
      /\ UNCHANGED <<lastExport, captures, window>>
  BY DEF Untracked
<1>2. /\ TypeOK' /\ Accounted' /\ (inOrder' => InUseOrder(lru', stats'))
      /\ lastTs <= lastTs'
      /\ \A x \in ToSet(lru') : x \in ToSet(lru) /\ stats'[x] = stats[x]
      /\ NoIdleLeft /\ OnlyIdleOrOldest
  BY <1>1, UntrackedFrame DEF IInv
<1>3. Watermark'
  <2>1. /\ lastExport \in Nat /\ window \in Nat \cup {None} /\ unsent \subseteq Active
        /\ window # None =>
              /\ window = lastExport /\ window <= lastTs
              /\ \A x \in unsent : stats[x].last <= window => x \in excused \/ stats[x].last = 0
    BY DEF IInv, Watermark
  <2>2. lastTs \in Nat /\ lastTs' \in Nat
    BY <1>2 DEF IInv, TypeOK
  <2>3. ASSUME window # None PROVE window <= lastTs'
    BY <1>2, <2>1, <2>2, <2>3
  <2>4. ASSUME window # None, NEW x \in unsent', stats'[x].last <= window
        PROVE  x \in excused' \/ stats'[x].last = 0
    BY <1>1, <1>2, <2>1, <2>4
  <2>. QED BY <1>1, <2>1, <2>3, <2>4 DEF Watermark, Active
<1>. QED BY <1>2, <1>3 DEF IInv

LEMMA InstallKeeps ==
    ASSUME IInv, NewCapture
    PROVE  IInv'
<1>1. /\ lru' = <<>> /\ stats' = [k \in {} |-> 0] /\ lastTs' = 0 /\ nextExpiry' = 0
      /\ packets' = 0 /\ evicted' = 0 /\ expired' = 0 /\ created' = 0 /\ inOrder' = TRUE
      /\ seen' = [p \in Pairs |-> 0] /\ retired' = seen'
      /\ lastExport' = lastExport /\ window' = None /\ unsent' = {}
  BY DEF NewCapture
<1>2. lru' \in Seq(Keys) /\ Len(lru') = 0 /\ DOMAIN lru' = {} /\ ToSet(lru') = {}
  BY <1>1, EmptyTable
<1>3. TypeOK'
  BY <1>1, <1>2, FlowAssumption DEF TypeOK
<1>4. Accounted'
  <2>1. \A a, b \in Endpoints : <<a, b>> \in Pairs BY DEF Pairs
  <2>. QED BY <1>1, <1>2, <2>1 DEF Accounted, Counted
<1>5. InUseOrder(lru', stats') BY <1>2 DEF InUseOrder
<1>6. Watermark' BY <1>1 DEF Watermark, IInv
<1>. QED BY <1>3, <1>4, <1>5, <1>6 DEF IInv

\* The watermark of this capture is never ahead of its clock.
LEMMA SinceWindow ==
    ASSUME IInv
    PROVE  /\ Since \in Nat /\ lastTs \in Nat
           /\ \A k \in Active : stats[k].last \in Nat /\ stats[k].last <= lastTs
           /\ window # None => Since = window /\ lastTs >= lastExport
BY TableNow DEF IInv, Watermark, Since, Active, Table, FlowStats

\* A flow that no accepted batch has shown, with a change that the watermark has passed, was
\* in the batch that was dropped or did not fit, or was passed by before.
LEMMA ExportKeeps ==
    ASSUME IInv, Export
    PROVE  IInv'
<1>1. UNCHANGED <<vars, captures>>
  BY DEF Export
<1>2. TypeOK' /\ Accounted' /\ (inOrder' => InUseOrder(lru', stats'))
  <2>1. /\ UNCHANGED <<lru, stats, evicted, expired, lastTs, nextExpiry, packets>>
        /\ UNCHANGED <<created, seen, retired>>
    BY <1>1 DEF vars, history
  <2>2. inOrder' = inOrder BY <1>1 DEF vars, history
  <2>3. inOrder' \in BOOLEAN /\ (inOrder' => inOrder) BY <2>2, Zenon DEF IInv, TypeOK
  <2>4. TypeOK' BY <2>1, <2>3 DEF IInv, TypeOK
  <2>5. Accounted' BY <2>1 DEF IInv, Accounted, Counted
  <2>6. inOrder' => InUseOrder(lru', stats') BY <2>1, <2>3 DEF IInv
  <2>. QED BY <2>4, <2>5, <2>6
<1>3. lru' = lru /\ stats' = stats /\ lastTs' = lastTs
  BY <1>1 DEF vars
<1>4. /\ lastExport \in Nat /\ window \in Nat \cup {None} /\ unsent \subseteq Active
      /\ window # None =>
            /\ window = lastExport /\ window <= lastTs
            /\ \A k \in unsent : stats[k].last <= window => k \in excused \/ stats[k].last = 0
  BY DEF IInv, Watermark
<1>5. /\ Since \in Nat /\ lastTs \in Nat
      /\ \A k \in Active : stats[k].last \in Nat /\ stats[k].last <= lastTs
      /\ window # None => Since = window /\ lastTs >= lastExport
  BY SinceWindow
<1>6. ASSUME Batch = {}, lastExport' = Since, UNCHANGED <<window, unsent, excused>>
      PROVE  Watermark'
  <2>1. lastExport' = Since /\ window' = window /\ unsent' = unsent /\ excused' = excused
    BY <1>6
  <2>2. Active' = Active BY <1>3 DEF Active
  <2>3. window # None => window = Since /\ window <= lastTs BY <1>4, <1>5
  <2>. QED BY <1>3, <1>4, <1>5, <2>1, <2>2, <2>3 DEF Watermark
<1>7. ASSUME lastExport' = lastTs, window' = lastTs,
             \E accepted \in BOOLEAN :
                LET sent == IF accepted THEN Batch ELSE {} IN
                /\ unsent' = unsent \ sent
                /\ excused' = (excused \cup Left \cup Overtaken \cup Batch) \cap unsent'
      PROVE  Watermark'
  <2>1. /\ unsent' \subseteq unsent
        /\ excused' = (excused \cup Left \cup Overtaken \cup Batch) \cap unsent'
    BY <1>7
  <2>2. ASSUME NEW k \in unsent' PROVE k \in excused' \/ stats[k].last = 0
    <3>1. k \in unsent /\ k \in Active BY <1>4, <2>1
    <3>2. CASE stats[k].last > Since
      BY <2>1, <2>2, <3>1, <3>2 DEF Changed, Left
    <3>3. CASE stats[k].last <= Since /\ window # None
      BY <1>4, <1>5, <2>1, <2>2, <3>1, <3>3
    <3>4. CASE stats[k].last <= Since /\ window = None /\ lastExport > 0
      BY <2>1, <2>2, <3>1, <3>4 DEF Overtaken
    <3>5. CASE stats[k].last <= Since /\ ~(lastExport > 0)
      <4>1. Since = 0 BY <1>4, <3>5 DEF Since
      <4>. QED BY <1>5, <3>1, <3>5, <4>1
    <3>. QED BY <1>5, <3>1, <3>2, <3>3, <3>4, <3>5
  <2>3. lastExport' = lastTs /\ window' = lastTs BY <1>7
  <2>4. Active' = Active BY <1>3 DEF Active
  <2>5. unsent' \subseteq Active BY <1>4, <2>1
  <2>. QED BY <1>3, <1>5, <2>2, <2>3, <2>4, <2>5 DEF Watermark
<1>8. Watermark'
  BY <1>6, <1>7 DEF Export
<1>. QED BY <1>2, <1>8 DEF IInv

\* The invariant, and what only a frame can do, by steps.
LEMMA Steps ==
    ASSUME IInv, [ExportNext]_exportVars
    PROVE  IInv' /\ (packets' > packets => NoIdleLeft /\ OnlyIdleOrOldest)
<1>0. packets \in Nat
  BY DEF IInv, TypeOK
<1>1. CASE \E ts \in 0..MaxTime : \E src, dst \in Endpoints : Tracked(ts, src, dst)
  BY <1>1, TrackedKeeps
<1>2. CASE \E ts \in 0..MaxTime : Untracked(ts)
  BY <1>2, UntrackedKeeps
<1>3. CASE NewCapture
  <2>1. packets' = 0 BY <1>3 DEF NewCapture
  <2>. QED BY <1>0, <1>3, <2>1, InstallKeeps
<1>4. CASE Export
  <2>1. packets' = packets BY <1>4 DEF Export, vars
  <2>. QED BY <1>0, <1>4, <2>1, ExportKeeps
<1>5. CASE UNCHANGED exportVars
  <2>1. /\ UNCHANGED <<lru, stats, evicted, expired, lastTs, nextExpiry, packets>>
        /\ UNCHANGED <<created, seen, retired, lastExport, window, unsent, excused>>
    BY <1>5 DEF exportVars, vars, history
  <2>2. inOrder' = inOrder BY <1>5 DEF exportVars, vars, history
  <2>3. inOrder' \in BOOLEAN /\ (inOrder' => inOrder) BY <2>2, Zenon DEF IInv, TypeOK
  <2>4. TypeOK' BY <2>1, <2>3 DEF IInv, TypeOK
  <2>5. Accounted' BY <2>1 DEF IInv, Accounted, Counted
  <2>6. inOrder' => InUseOrder(lru', stats') BY <2>1, <2>3 DEF IInv
  <2>7. Watermark' BY <2>1 DEF IInv, Watermark, Active
  <2>8. ~(packets' > packets) BY <1>0, <2>1
  <2>. QED BY <2>4, <2>5, <2>6, <2>7, <2>8 DEF IInv
<1>. QED BY <1>1, <1>2, <1>3, <1>4, <1>5 DEF ExportNext

LEMMA Inductive == ExportSpec => []IInv
<1>1. ExportInit => IInv BY InitInvariant
<1>2. IInv /\ [ExportNext]_exportVars => IInv' BY Steps
<1>. QED BY <1>1, <1>2, PTL DEF ExportSpec

-----------------------------------------------------------------------------
(* FlowTable::top_by_bytes: a fold that keeps the largest, and a sort.     *)

\* e is built step by step from s.
Follows(e, s, n, F) == e[0] = s /\ \A i \in 1..n : e[i] = F[<<i, e[i - 1]>>]

\* A function may be defined by recursion on its argument.
LEMMA Recursion ==
    ASSUME NEW S, NEW s \in S, NEW n \in Nat, NEW F \in [(1..n) \X S -> S]
    PROVE  \E e \in [0..n -> S] : Follows(e, s, n, F)
<1>. DEFINE Def(k) == \E e \in [0..k -> S] : e[0] = s /\ \A i \in 1..k : e[i] = F[<<i, e[i - 1]>>]
            Bad == {k \in 0..n : ~Def(k)}
<1>1. ASSUME Bad # {} PROVE FALSE
  <2>1. PICK k \in Bad : \A j \in Bad : k <= j
    <3>1. Bad \subseteq Nat
      OBVIOUS
    <3>. HIDE DEF Bad
    <3>. QED BY <1>1, <3>1, Least
  <2>2. CASE k = 0
    <3>. DEFINE e == [i \in 0..0 |-> s]
    <3>1. e \in [0..0 -> S] /\ e[0] = s /\ \A i \in 1..0 : e[i] = F[<<i, e[i - 1]>>]
      OBVIOUS
    <3>. QED BY <2>2, <3>1
  <2>3. CASE k # 0
    <3>1. k - 1 \in 0..n /\ k - 1 < k /\ k \in 1..n
      BY <2>3
    <3>2. Def(k - 1)
      BY <2>1, <3>1
    <3>3. PICK d \in [0..(k - 1) -> S] :
             d[0] = s /\ \A i \in 1..(k - 1) : d[i] = F[<<i, d[i - 1]>>]
      BY <3>2
    <3>. DEFINE e == [i \in 0..k |-> IF i = k THEN F[<<k, d[k - 1]>>] ELSE d[i]]
    <3>4. d[k - 1] \in S
      BY <3>1
    <3>5. e \in [0..k -> S]
      BY <3>1, <3>4
    <3>6. e[0] = s
      BY <3>1, <3>3
    <3>7. ASSUME NEW i \in 1..k PROVE e[i] = F[<<i, e[i - 1]>>]
      <4>1. CASE i = k
        <5>1. e[k] = F[<<k, d[k - 1]>>] /\ e[k - 1] = d[k - 1]
          BY <3>1
        <5>. QED BY <4>1, <5>1
      <4>2. CASE i # k
        BY <4>2, <3>1, <3>3
      <4>. QED BY <4>1, <4>2
    <3>8. Def(k)
      BY <3>5, <3>6, <3>7
    <3>. QED BY <3>8
  <2>. QED BY <2>2, <2>3
<1>. QED BY <1>1 DEF Follows

StrictOrder(R, S) ==
    /\ \A x, y \in S : x # y => <<x, y>> \in R \/ <<y, x>> \in R
    /\ \A x, y, z \in S : <<x, y>> \in R /\ <<y, z>> \in R => <<x, z>> \in R
    /\ \A x \in S : <<x, x>> \notin R

\* A finite set has a first element in a strict total order: the one with the fewest before it.
LEMMA First ==
    ASSUME NEW R, NEW S, IsFiniteSet(S), S # {}, StrictOrder(R, S)
    PROVE  \E m \in S : \A y \in S \ {m} : <<m, y>> \in R
<1>. DEFINE Under(x) == {y \in S : <<y, x>> \in R}
            Counts == {Cardinality(Under(x)) : x \in S}
<1>1. \A x \in S : Under(x) \in SUBSET S
  OBVIOUS
<1>2. \A x \in S : IsFiniteSet(Under(x)) /\ Cardinality(Under(x)) \in Nat
  BY <1>1, FS_Subset, FS_CardinalityType
<1>3. Counts \subseteq Nat /\ Counts # {}
  BY <1>2
<1>4. PICK c \in Counts : \A d \in Counts : c <= d
  <2>. HIDE DEF Counts
  <2>. QED BY <1>3, Least
<1>5. PICK m \in S : c = Cardinality(Under(m))
  OBVIOUS
<1>6. ASSUME NEW y \in S, y # m, <<m, y>> \notin R PROVE FALSE
  <2>1. <<y, m>> \in R
    BY <1>6 DEF StrictOrder
  <2>2. Under(y) \in SUBSET Under(m) /\ y \in Under(m) /\ y \notin Under(y)
    BY <2>1 DEF StrictOrder
  <2>3. Cardinality(Under(y)) <= Cardinality(Under(m)) /\ Cardinality(Under(y)) # Cardinality(Under(m))
    <3>. HIDE DEF Under
    <3>. QED BY <1>2, <2>2, FS_Subset
  <2>4. c <= Cardinality(Under(y))
    BY <1>4
  <2>. HIDE DEF Under
  <2>. QED BY <1>2, <1>5, <2>3, <2>4
<1>. QED BY <1>6

\* And it can be listed in that order.
LEMMA Sorts ==
    ASSUME NEW R, NEW S, IsFiniteSet(S), StrictOrder(R, S)
    PROVE  \E s \in [1..Cardinality(S) -> S] :
              \A i, j \in 1..Cardinality(S) : i < j => <<s[i], s[j]>> \in R
<1>. DEFINE Listed(T, k) == \E s \in [1..k -> T] : \A i, j \in 1..k : i < j => <<s[i], s[j]>> \in R
            Bad == {k \in Nat : \E T \in SUBSET S : Cardinality(T) = k /\ ~Listed(T, k)}
<1>1. \A T \in SUBSET S : IsFiniteSet(T) /\ Cardinality(T) \in Nat
  BY FS_Subset, FS_CardinalityType
<1>2. ASSUME Bad # {} PROVE FALSE
  <2>1. PICK k \in Bad : \A j \in Bad : k <= j
    <3>1. Bad \subseteq Nat
      OBVIOUS
    <3>. HIDE DEF Bad
    <3>. QED BY <1>2, <3>1, Least
  <2>2. PICK T \in SUBSET S : Cardinality(T) = k /\ ~Listed(T, k)
    OBVIOUS
  <2>3. k \in Nat
    OBVIOUS
  <2>4. CASE k = 0
    <3>1. [i \in 1..0 |-> i] \in [1..0 -> T] /\ \A i, j \in 1..0 : FALSE
      OBVIOUS
    <3>2. Listed(T, 0)
      BY <3>1
    <3>. HIDE DEF Listed
    <3>. QED BY <2>2, <2>4, <3>2
  <2>5. CASE k # 0
    <3>1. T # {} /\ IsFiniteSet(T)
      BY <1>1, <2>2, <2>5, FS_EmptySet
    <3>2. StrictOrder(R, T)
      BY DEF StrictOrder
    <3>3. PICK m \in T : \A y \in T \ {m} : <<m, y>> \in R
      BY <3>1, <3>2, First
    <3>. DEFINE U == T \ {m}
    <3>12. Cardinality(U) = Cardinality(T) - 1
      BY <3>1, FS_RemoveElement
    <3>4. U \in SUBSET S /\ Cardinality(U) = k - 1 /\ k - 1 \in Nat
      <4>1. Cardinality(T) = k /\ T \in SUBSET S
        BY <2>2
      <4>2. k - 1 \in Nat
        BY <2>3, <2>5
      <4>. QED BY <3>12, <4>1, <4>2
    <3>5. Listed(U, k - 1)
      <4>1. k - 1 \notin Bad
        <5>. HIDE DEF Bad
        <5>. QED BY <2>1, <2>3, <3>4
      <4>. HIDE DEF Listed, U
      <4>. QED BY <3>4, <4>1
    <3>6. PICK s \in [1..(k - 1) -> U] : \A i, j \in 1..(k - 1) : i < j => <<s[i], s[j]>> \in R
      BY <3>5
    <3>. DEFINE t == [i \in 1..k |-> IF i = 1 THEN m ELSE s[i - 1]]
    <3>7. \A i \in 1..k : i # 1 => i - 1 \in 1..(k - 1)
      BY <2>3
    <3>8. \A i \in 1..k : i # 1 => s[i - 1] \in U
      BY <3>7
    <3>9. t \in [1..k -> T]
      BY <3>8
    <3>10. ASSUME NEW i \in 1..k, NEW j \in 1..k, i < j PROVE <<t[i], t[j]>> \in R
      <4>1. j # 1 /\ t[j] = s[j - 1] /\ s[j - 1] \in U
        BY <3>8, <3>10
      <4>2. CASE i = 1
        BY <3>3, <4>1, <4>2
      <4>3. CASE i # 1
        <5>1. i - 1 \in 1..(k - 1) /\ j - 1 \in 1..(k - 1) /\ i - 1 < j - 1
          BY <3>7, <3>10, <4>1, <4>3
        <5>2. t[i] = s[i - 1]
          BY <4>3
        <5>. QED BY <3>6, <4>1, <5>1, <5>2
      <4>. QED BY <4>2, <4>3
    <3>11. Listed(T, k)
      <4>. HIDE DEF t
      <4>. QED BY <3>9, <3>10
    <3>. QED BY <2>2, <3>11
  <2>. QED BY <2>4, <2>5
<1>3. Cardinality(S) \in Nat
  BY FS_CardinalityType
<1>4. Listed(S, Cardinality(S))
  <2>1. Cardinality(S) \notin Bad
    <3>. HIDE DEF Bad
    <3>. QED BY <1>2
  <2>. HIDE DEF Listed
  <2>. QED BY <1>3, <2>1
<1>. QED BY <1>4

\* A step of the loop over the cache: push, and pop when there are more than n.
Pushed(n, heap, k) ==
    IF Cardinality(heap) = n THEN PopSmallest(heap \cup {k}) ELSE heap \cup {k}

\* The largest number of a finite set.
LEMMA Largest ==
    ASSUME NEW N \in Nat, NEW s \in SUBSET (1..N), s # {}
    PROVE  Max(s) \in s /\ \A y \in s : Max(s) >= y
<1>. DEFINE T == {N - x : x \in s}
<1>1. T \subseteq Nat /\ T # {}
  <2>1. \A x \in 1..N : N - x \in Nat
    OBVIOUS
  <2>2. PICK x \in s : TRUE
    OBVIOUS
  <2>. QED BY <2>1, <2>2
<1>2. PICK t \in T : \A u \in T : t <= u
  <2>. HIDE DEF T
  <2>. QED BY <1>1, Least
<1>3. PICK x \in s : t = N - x
  OBVIOUS
<1>4. \A y \in s : x >= y
  <2>1. SUFFICES ASSUME NEW y \in s PROVE x >= y
    OBVIOUS
  <2>2. N - x <= N - y
    BY <1>2, <1>3
  <2>. QED BY <2>2
<1>. QED BY <1>4 DEF Max

\* A fold over a sequence takes its elements one after the other.
LEMMA HeapFolds ==
    ASSUME lru \in Seq(Keys), NEW n \in Nat
    PROVE  \E h : /\ h[0] = {}
                  /\ \A i \in 1..Len(lru) : h[i] = Pushed(n, h[i - 1], Reverse(lru)[i])
                  /\ Heap(n) = h[Len(lru)]
<1>. DEFINE N == Len(lru)
            q == Reverse(lru)
            G(w) == [s \in SUBSET (1..N) |->
                        IF s = {} THEN {} ELSE Pushed(n, w[s \ {Max(s)}], q[Max(s)])]
            W == [SUBSET (1..N) -> SUBSET Keys]
            iter == CHOOSE w : w = G(w)
<1>1. N \in Nat /\ DOMAIN q = 1..N /\ \A i \in 1..N : q[i] \in Keys
  <2>1. N \in Nat /\ \A i \in 1..N : lru[i] \in Keys
    BY SeqBasics
  <2>2. \A i \in 1..N : (N - i) + 1 \in 1..N
    BY <2>1
  <2>. QED BY <2>1, <2>2 DEF Reverse
<1>2. Heap(n) = iter[1..N]
  <2>1. Heap(n) = FoldLeft(LAMBDA heap, k : Pushed(n, heap, k), {}, q)
    BY DEF Heap, Pushed
  <2>2. DOMAIN q = 1..N
    BY <1>1
  <2>. HIDE DEF q, N
  <2>. QED BY <2>1, <2>2, Zenon DEF FoldLeft, MapThenFoldSet
<1>3. \A h \in SUBSET Keys, k \in Keys : Pushed(n, h, k) \in SUBSET Keys
  BY DEF Pushed, PopSmallest
<1>4. \A s \in SUBSET (1..N) : s # {} =>
         /\ Max(s) \in s /\ Max(s) \in 1..N /\ s \ {Max(s)} \in SUBSET (1..N)
         /\ \A i \in 1..N : s \subseteq 1..i => s \ {Max(s)} \subseteq 1..(i - 1)
  <2>1. SUFFICES ASSUME NEW s \in SUBSET (1..N), s # {}
                 PROVE  /\ Max(s) \in s /\ Max(s) \in 1..N /\ s \ {Max(s)} \in SUBSET (1..N)
                        /\ \A i \in 1..N : s \subseteq 1..i => s \ {Max(s)} \subseteq 1..(i - 1)
    OBVIOUS
  <2>2. Max(s) \in s /\ \A y \in s : Max(s) >= y
    BY <1>1, <2>1, Largest
  <2>. HIDE DEF N
  <2>3. ASSUME NEW i \in 1..N, s \subseteq 1..i, NEW y \in s \ {Max(s)} PROVE y \in 1..(i - 1)
    <3>1. y \in 1..i /\ Max(s) \in 1..i /\ Max(s) >= y /\ y # Max(s)
      BY <2>2, <2>3
    <3>. QED BY <3>1
  <2>. QED BY <2>2, <2>3
<1>5. \A w \in W : G(w) \in W
  BY <1>1, <1>3, <1>4
<1>6. \E w : w = G(w)
  <2>. DEFINE F == [p \in (1..N) \X W |-> G(p[2])]
              base == [s \in SUBSET (1..N) |-> {}]
  <2>1. base \in W
    OBVIOUS
  <2>2. F \in [(1..N) \X W -> W]
    <3>. HIDE DEF G, W
    <3>. QED BY <1>5
  <2>3. PICK e \in [0..N -> W] : Follows(e, base, N, F)
    <3>. HIDE DEF F, W, base
    <3>. QED BY <1>1, <2>1, <2>2, Recursion
  <2>4. e[0] = base /\ \A i \in 1..N : e[i] = G(e[i - 1])
    <3>1. \A i \in 1..N : i - 1 \in 0..N
      BY <1>1
    <3>2. \A i \in 1..N : e[i - 1] \in W
      BY <3>1
    <3>. HIDE DEF G, W, base
    <3>. QED BY <2>3, <3>2 DEF Follows
  <2>. DEFINE Bad == {i \in 0..N : \E s \in SUBSET (1..i) : G(e[i])[s] # e[i][s]}
  <2>5. ASSUME Bad # {} PROVE FALSE
    <3>1. PICK k \in Bad : \A j \in Bad : k <= j
      <4>1. Bad \subseteq Nat
        OBVIOUS
      <4>. HIDE DEF Bad
      <4>. QED BY <2>5, <4>1, Least
    <3>2. PICK s \in SUBSET (1..k) : G(e[k])[s] # e[k][s]
      OBVIOUS
    <3>3. k \in 0..N /\ s \in SUBSET (1..N)
      BY <1>1
    <3>4. CASE s = {}
      <4>1. \A w : G(w)[{}] = {}
        OBVIOUS
      <4>2. e[k][{}] = {}
        <5>1. CASE k = 0
          BY <2>4, <5>1
        <5>2. CASE k # 0
          <6>1. k \in 1..N
            BY <1>1, <3>3, <5>2
          <6>. HIDE DEF G
          <6>. QED BY <2>4, <4>1, <6>1
        <5>. QED BY <5>1, <5>2
      <4>. HIDE DEF G
      <4>. QED BY <3>2, <3>4, <4>1, <4>2
    <3>5. CASE s # {}
      <4>. DEFINE t == s \ {Max(s)}
      <4>1. k \in 1..N /\ k - 1 \in 0..N /\ k - 1 < k
        BY <1>1, <3>3, <3>5
      <4>2. t \in SUBSET (1..(k - 1)) /\ t \in SUBSET (1..N)
        BY <1>4, <3>2, <3>3, <3>5, <4>1
      <4>3. G(e[k - 1])[t] = e[k - 1][t]
        <5>1. k - 1 \notin Bad
          <6>. HIDE DEF Bad
          <6>. QED BY <3>1, <4>1
        <5>. HIDE DEF G, t
        <5>. QED BY <4>1, <4>2, <5>1
      <4>4. e[k] = G(e[k - 1])
        <5>. HIDE DEF G
        <5>. QED BY <2>4, <4>1
      <4>5. e[k][t] = e[k - 1][t]
        <5>. HIDE DEF G, t
        <5>. QED BY <4>3, <4>4
      <4>6. e[k][s] = Pushed(n, e[k - 1][t], q[Max(s)])
        BY <3>3, <3>5, <4>4
      <4>7. G(e[k])[s] = Pushed(n, e[k][t], q[Max(s)])
        BY <3>3, <3>5
      <4>. HIDE DEF G, t
      <4>. QED BY <3>2, <4>5, <4>6, <4>7
    <3>. QED BY <3>4, <3>5
  <2>6. \A s \in SUBSET (1..N) : G(e[N])[s] = e[N][s]
    <3>1. N \notin Bad /\ N \in 0..N
      <4>. HIDE DEF Bad
      <4>. QED BY <1>1, <2>5
    <3>. HIDE DEF G
    <3>. QED BY <3>1
  <2>7. e[N] \in W /\ G(e[N]) \in W
    <3>1. e[N] \in W
      BY <1>1
    <3>. HIDE DEF G, W
    <3>. QED BY <1>5, <3>1
  <2>8. e[N] = G(e[N])
    <3>. HIDE DEF G
    <3>. QED BY <2>6, <2>7
  <2>. HIDE DEF G
  <2>. QED BY <2>8
<1>7. iter = G(iter)
  <2>. HIDE DEF G
  <2>. QED BY <1>6
<1>. DEFINE h == [i \in 0..N |-> iter[1..i]]
<1>8. h[0] = {}
  <2>1. iter[{}] = {}
    <3>1. {} \in SUBSET (1..N) /\ G(iter)[{}] = {}
      OBVIOUS
    <3>. HIDE DEF G, iter
    <3>. QED BY <1>7, <3>1
  <2>2. 1..0 = {} /\ 0 \in 0..N
    BY <1>1
  <2>. HIDE DEF iter, N
  <2>. QED BY <2>1, <2>2
<1>9. ASSUME NEW i \in 1..N PROVE h[i] = Pushed(n, h[i - 1], q[i])
  <2>1. 1..i \in SUBSET (1..N) /\ 1..i # {} /\ i \in 0..N /\ i - 1 \in 0..N
    <3>1. i \in Nat /\ i >= 1 /\ i <= N /\ N \in Nat
      BY <1>1
    <3>. HIDE DEF N
    <3>2. i \in 1..i /\ \A j \in 1..i : j \in 1..N
      BY <3>1
    <3>3. i \in 0..N /\ i - 1 \in 0..N
      BY <3>1
    <3>. QED BY <3>2, <3>3
  <2>2. Max(1..i) = i
    <3>1. Max(1..i) \in 1..i /\ \A y \in 1..i : Max(1..i) >= y
      BY <1>1, <2>1, Largest
    <3>. QED BY <1>1, <3>1
  <2>3. (1..i) \ {i} = 1..(i - 1)
    BY <1>1
  <2>4. G(iter)[1..i] = Pushed(n, iter[1..(i - 1)], q[i])
    <3>1. G(iter)[1..i] = Pushed(n, iter[(1..i) \ {Max(1..i)}], q[Max(1..i)])
      <4>. HIDE DEF iter, q, N
      <4>. QED BY <2>1
    <3>. HIDE DEF iter, q, N, G
    <3>. QED BY <2>2, <2>3, <3>1
  <2>5. iter[1..i] = Pushed(n, iter[1..(i - 1)], q[i])
    <3>. HIDE DEF iter, q, N, G
    <3>. QED BY <1>7, <2>4
  <2>. HIDE DEF iter, q, N, G
  <2>. QED BY <2>1, <2>5
<1>10. Heap(n) = h[N]
  <2>. HIDE DEF iter, q, G
  <2>. QED BY <1>1, <1>2
<1>. HIDE DEF h
<1>. QED BY <1>8, <1>9, <1>10

SmallerThan == {p \in Active \X Active : Smaller(p[1], p[2])}
SortedBy == {p \in Active \X Active : Before(p[1], p[2])}

\* Both orders of the code are total: ties are broken by the key.
LEMMA Orders ==
    ASSUME TypeOK
    PROVE  /\ Active \subseteq Keys /\ \A k \in Active : Total(stats[k]) \in Nat
           /\ \A S \in SUBSET Active : StrictOrder(SmallerThan, S) /\ StrictOrder(SortedBy, S)
<1>1. Active \subseteq Keys
  BY SeqBasics DEF TypeOK, Active
<1>2. ASSUME NEW k \in Active PROVE Total(stats[k]) \in Nat
  <2>1. stats[k].packets \in [1..2 -> Nat]
    BY DEF TypeOK, Active
  <2>. QED BY <2>1 DEF Total
<1>3. \A k \in Active : k[1] \in Nat /\ k[2] \in Nat /\ k = <<k[1], k[2]>>
  <2>1. ASSUME NEW k \in Active PROVE k[1] \in Nat /\ k[2] \in Nat /\ k = <<k[1], k[2]>>
    <3>1. k \in Endpoints \X Endpoints
      BY <1>1 DEF Keys
    <3>2. k[1] \in Endpoints /\ k[2] \in Endpoints /\ k = <<k[1], k[2]>>
      BY <3>1
    <3>. QED BY <3>2, FlowAssumption
  <2>. QED BY <2>1
<1>4. \A x, y \in Active : x # y => KeyLess(x, y) \/ KeyLess(y, x)
  BY <1>3 DEF KeyLess
<1>5. \A x, y, z \in Active : KeyLess(x, y) /\ KeyLess(y, z) => KeyLess(x, z)
  BY <1>3 DEF KeyLess
<1>6. \A x \in Active : ~KeyLess(x, x)
  BY <1>3 DEF KeyLess
<1>7. \A x, y \in Active :
         /\ <<x, y>> \in SmallerThan <=> Smaller(x, y)
         /\ <<x, y>> \in SortedBy <=> Before(x, y)
  BY DEF SmallerThan, SortedBy
<1>8. \A x, y \in Active : x # y =>
         (Smaller(x, y) \/ Smaller(y, x)) /\ (Before(x, y) \/ Before(y, x))
  BY <1>2, <1>4 DEF Smaller, Before
<1>9. \A x, y, z \in Active :
         /\ Smaller(x, y) /\ Smaller(y, z) => Smaller(x, z)
         /\ Before(x, y) /\ Before(y, z) => Before(x, z)
  BY <1>2, <1>5 DEF Smaller, Before
<1>10. \A x \in Active : ~Smaller(x, x) /\ ~Before(x, x)
  BY <1>2, <1>6 DEF Smaller, Before
<1>11. ASSUME NEW S \in SUBSET Active
       PROVE  StrictOrder(SmallerThan, S) /\ StrictOrder(SortedBy, S)
  BY <1>7, <1>8, <1>9, <1>10 DEF StrictOrder
<1>. QED BY <1>1, <1>2, <1>11

\* What the heap pops is the smallest flow.
LEMMA Pops ==
    ASSUME TypeOK, NEW heap \in SUBSET Active, heap # {}
    PROVE  /\ IsFiniteSet(heap)
           /\ \E m \in heap : /\ PopSmallest(heap) = heap \ {m}
                              /\ \A y \in heap \ {m} : Smaller(m, y)
<1>1. IsFiniteSet(Active)
  <2>. DEFINE f == [i \in 1..Len(lru) |-> lru[i]]
  <2>1. Len(lru) \in Nat /\ Active = {lru[i] : i \in 1..Len(lru)}
    BY SeqBasics DEF TypeOK, Active
  <2>2. f \in Surjection(1..Len(lru), Active)
    BY <2>1 DEF Surjection
  <2>3. IsFiniteSet(1..Len(lru))
    BY <2>1, FS_Interval
  <2>. HIDE DEF f
  <2>. QED BY <2>2, <2>3, FS_Surjection
<1>2. IsFiniteSet(heap)
  BY <1>1, FS_Subset
<1>3. \E m \in heap : \A y \in heap \ {m} : <<m, y>> \in SmallerThan
  BY <1>2, Orders, First
<1>4. \E m \in heap : \A y \in heap \ {m} : Smaller(m, y)
  BY <1>3 DEF SmallerThan
<1>5. PICK m \in heap : /\ m = CHOOSE x \in heap : \A y \in heap \ {x} : Smaller(x, y)
                        /\ \A y \in heap \ {m} : Smaller(m, y)
  BY <1>4
<1>. QED BY <1>2, <1>5 DEF PopSmallest

\* After the first i flows of the cache the heap holds the n largest of them.
Holding(q, n, i, heap) ==
    LET past == {q[j] : j \in 1..i} IN
    /\ heap \subseteq past /\ IsFiniteSet(heap)
    /\ i <= n => heap = past /\ Cardinality(heap) = i
    /\ i >= n => Cardinality(heap) = n
    /\ \A x \in heap : \A y \in past \ heap : Smaller(y, x)

\* One more flow of the cache.
LEMMA HoldsMore ==
    ASSUME TypeOK, NEW n \in Nat \ {0}, NEW q, NEW i \in Nat, i > 0,
           \A j \in 1..i : q[j] \in Active, \A j, k \in 1..i : j # k => q[j] # q[k],
           NEW heap, Holding(q, n, i - 1, heap)
    PROVE  Holding(q, n, i, Pushed(n, heap, q[i]))
<1>. DEFINE past == {q[j] : j \in 1..(i - 1)}
            now == {q[j] : j \in 1..i}
            k == q[i]
            all == heap \cup {k}
<1>1. /\ now = past \cup {k} /\ k \notin past /\ now \subseteq Active
      /\ i - 1 \in Nat
  <2>1. 1..i = (1..(i - 1)) \cup {i} /\ i \in 1..i /\ i \notin 1..(i - 1)
    OBVIOUS
  <2>. QED BY <2>1
<1>2. /\ heap \subseteq past /\ IsFiniteSet(heap)
      /\ i - 1 <= n => heap = past /\ Cardinality(heap) = i - 1
      /\ i - 1 >= n => Cardinality(heap) = n
      /\ \A x \in heap : \A y \in past \ heap : Smaller(y, x)
  BY DEF Holding
<1>3. all \subseteq Active /\ k \in all /\ all # {} /\ k \notin heap
  BY <1>1, <1>2
<1>4. IsFiniteSet(all) /\ Cardinality(all) = Cardinality(heap) + 1 /\ Cardinality(heap) \in Nat
  BY <1>2, <1>3, FS_AddElement, FS_CardinalityType
<1>5. CASE Cardinality(heap) = n
  <2>1. PICK m \in all : PopSmallest(all) = all \ {m} /\ \A y \in all \ {m} : Smaller(m, y)
    <3>. HIDE DEF all, k
    <3>. QED BY <1>3, Pops
  <2>. DEFINE left == all \ {m}
  <2>2. IsFiniteSet(left) /\ Cardinality(left) = n
    <3>1. IsFiniteSet(left) /\ Cardinality(left) = Cardinality(all) - 1
      <4>. HIDE DEF all
      <4>. QED BY <1>4, FS_RemoveElement
    <3>. HIDE DEF all, left
    <3>. QED BY <1>4, <1>5, <3>1
  <2>3. i > n
    BY <1>1, <1>2, <1>5
  <2>4. left \subseteq now
    BY <1>1, <1>2
  <2>5. ASSUME NEW x \in left, NEW y \in now \ left PROVE Smaller(y, x)
    <3>1. x \in Active /\ y \in Active /\ m \in Active
      BY <1>1, <1>3, <2>4
    <3>2. Smaller(m, x)
      BY <2>1
    <3>3. CASE y = m
      BY <3>2, <3>3
    <3>4. CASE y # m
      <4>1. y \in past \ heap
        BY <1>1, <3>4
      <4>2. CASE x \in heap
        BY <1>2, <4>1, <4>2
      <4>3. CASE x = k
        <5>1. m \in heap
          BY <4>3
        <5>2. Smaller(y, m)
          BY <1>2, <4>1, <5>1
        <5>3. <<y, m>> \in SmallerThan /\ <<m, x>> \in SmallerThan
          BY <3>1, <3>2, <5>2 DEF SmallerThan
        <5>4. <<y, x>> \in SmallerThan
          BY <3>1, <5>3, Orders DEF StrictOrder
        <5>. QED BY <5>4 DEF SmallerThan
      <4>. QED BY <4>2, <4>3
    <3>. QED BY <3>3, <3>4
  <2>6. Pushed(n, heap, k) = left
    BY <1>5, <2>1 DEF Pushed
  <2>7. Holding(q, n, i, left)
    <3>1. ~(i <= n)
      BY <2>3
    <3>. HIDE DEF left
    <3>. QED BY <2>2, <2>4, <2>5, <3>1 DEF Holding
  <2>. HIDE DEF left
  <2>. QED BY <2>6, <2>7
<1>6. CASE Cardinality(heap) # n
  <2>1. i <= n /\ heap = past /\ Cardinality(heap) = i - 1
    BY <1>1, <1>2, <1>6
  <2>2. Pushed(n, heap, k) = all
    BY <1>6 DEF Pushed
  <2>3. all = now /\ Cardinality(all) = i /\ IsFiniteSet(all)
    BY <1>1, <1>4, <2>1
  <2>4. i >= n => i = n
    BY <2>1
  <2>5. Holding(q, n, i, all)
    <3>. HIDE DEF all, k
    <3>. QED BY <2>3, <2>4 DEF Holding
  <2>. HIDE DEF all
  <2>. QED BY <2>2, <2>5
<1>. QED BY <1>5, <1>6

\* After the loop it holds the n largest flows of the table.
LEMMA HeapIs ==
    ASSUME TypeOK, NEW n \in Nat \ {0}
    PROVE  /\ IsFiniteSet(Heap(n)) /\ Heap(n) \subseteq Active
           /\ Cardinality(Heap(n)) = IF n < Len(lru) THEN n ELSE Len(lru)
           /\ \A x \in Heap(n) : \A y \in Active \ Heap(n) : Smaller(y, x)
<1>. DEFINE N == Len(lru)
            q == Reverse(lru)
<1>1. N \in Nat /\ lru \in Seq(Keys) /\ Active = {lru[i] : i \in 1..N} /\ DOMAIN lru = 1..N
  BY SeqBasics DEF TypeOK, Active
<1>2. \A i \in 1..N : q[i] = lru[(N - i) + 1] /\ (N - i) + 1 \in 1..N
  <2>1. \A i \in 1..N : (N - i) + 1 \in 1..N
    BY <1>1
  <2>. QED BY <2>1 DEF Reverse
<1>3. Active = {q[i] : i \in 1..N}
  <2>1. \A j \in 1..N : (N - j) + 1 \in 1..N /\ (N - ((N - j) + 1)) + 1 = j
    BY <1>1
  <2>2. \A j \in 1..N : lru[j] = q[(N - j) + 1]
    <3>. HIDE DEF q, N
    <3>. QED BY <1>2, <2>1
  <2>3. \A j \in 1..N : q[j] \in {lru[i] : i \in 1..N}
    <3>. HIDE DEF q, N
    <3>. QED BY <1>2
  <2>4. \A j \in 1..N : lru[j] \in {q[i] : i \in 1..N}
    <3>. HIDE DEF q, N
    <3>. QED BY <2>1, <2>2
  <2>. HIDE DEF q, N
  <2>. QED BY <1>1, <2>3, <2>4
<1>4. \A j, k \in 1..N : j # k => q[j] # q[k]
  <2>1. \A j, k \in 1..N : j # k => (N - j) + 1 # (N - k) + 1
    BY <1>1
  <2>2. \A j, k \in 1..N : j # k => lru[j] # lru[k]
    BY <1>1 DEF TypeOK
  <2>. HIDE DEF q, N
  <2>. QED BY <1>2, <2>1, <2>2
<1>5. PICK h : /\ h[0] = {}
               /\ \A i \in 1..N : h[i] = Pushed(n, h[i - 1], q[i])
               /\ Heap(n) = h[N]
  BY <1>1, HeapFolds
<1>. HIDE DEF q, N
<1>. DEFINE Bad == {i \in 0..N : ~Holding(q, n, i, h[i])}
<1>6. ASSUME Bad # {} PROVE FALSE
  <2>1. PICK i \in Bad : \A j \in Bad : i <= j
    <3>1. Bad \subseteq Nat
      OBVIOUS
    <3>. HIDE DEF Bad
    <3>. QED BY <1>6, <3>1, Least
  <2>2. CASE i = 0
    <3>1. {q[j] : j \in 1..0} = {}
      OBVIOUS
    <3>2. Holding(q, n, 0, {})
      BY <3>1, FS_EmptySet DEF Holding
    <3>. QED BY <1>5, <2>2, <3>2
  <2>3. CASE i # 0
    <3>1. i \in 1..N /\ i \in Nat /\ i > 0 /\ i - 1 \in 0..N /\ i - 1 < i
      BY <1>1, <2>3
    <3>2. Holding(q, n, i - 1, h[i - 1])
      <4>1. i - 1 \notin Bad
        <5>. HIDE DEF Bad
        <5>. QED BY <2>1, <3>1
      <4>. QED BY <3>1, <4>1
    <3>3. \A j \in 1..i : j \in 1..N
      BY <1>1, <3>1
    <3>4. (\A j \in 1..i : q[j] \in Active) /\ \A j, k \in 1..i : j # k => q[j] # q[k]
      BY <1>3, <1>4, <3>3
    <3>5. Holding(q, n, i, Pushed(n, h[i - 1], q[i]))
      BY <3>1, <3>2, <3>4, HoldsMore
    <3>. QED BY <1>5, <3>1, <3>5
  <2>. QED BY <2>2, <2>3
<1>7. Holding(q, n, N, Heap(n))
  BY <1>1, <1>5, <1>6
<1>8. /\ Heap(n) \subseteq Active /\ IsFiniteSet(Heap(n))
      /\ N <= n => Cardinality(Heap(n)) = N
      /\ N >= n => Cardinality(Heap(n)) = n
      /\ \A x \in Heap(n) : \A y \in Active \ Heap(n) : Smaller(y, x)
  BY <1>3, <1>7 DEF Holding
<1>9. Cardinality(Heap(n)) = IF n < N THEN n ELSE N
  BY <1>1, <1>8
<1>. QED BY <1>8, <1>9 DEF N

\* top_by_bytes returns the largest flows of the table, largest first.
LEMMA TopIs == ASSUME TypeOK PROVE TopIsTop
<1>. DEFINE IsTop(s, n) ==
               /\ Len(s) = (IF n < Len(lru) THEN n ELSE Len(lru))
               /\ \A i, j \in DOMAIN s : i < j => Total(stats[s[i]]) >= Total(stats[s[j]])
               /\ \A i \in DOMAIN s : \A k \in ToSet(lru) \ ToSet(s) :
                     Total(stats[s[i]]) >= Total(stats[k])
<1>. SUFFICES ASSUME NEW n \in 0..MaxFlows PROVE IsTop(TopByBytes(n), n)
  BY DEF TopIsTop
<1>. DEFINE top == TopByBytes(n)
            S == Heap(n)
            c == Cardinality(S)
<1>1. Len(lru) \in Nat /\ ToSet(lru) = Active
  BY SeqBasics DEF TypeOK, Active
<1>2. CASE n = 0
  <2>1. top = <<>>
    BY <1>2 DEF TopByBytes
  <2>2. IsTop(<<>>, 0)
    <3>1. Len(<<>>) = 0 /\ DOMAIN <<>> = {}
      OBVIOUS
    <3>2. 0 = IF 0 < Len(lru) THEN 0 ELSE Len(lru)
      BY <1>1
    <3>. QED BY <3>1, <3>2
  <2>. HIDE DEF IsTop
  <2>. QED BY <1>2, <2>1, <2>2
<1>3. CASE n # 0
  <2>1. n \in Nat \ {0}
    BY <1>3, FlowAssumption
  <2>2. /\ IsFiniteSet(S) /\ S \subseteq Active
        /\ c = IF n < Len(lru) THEN n ELSE Len(lru)
        /\ \A x \in S : \A y \in Active \ S : Smaller(y, x)
    BY <2>1, HeapIs
  <2>. HIDE DEF S
  <2>3. c \in Nat
    BY <2>2, FS_CardinalityType
  <2>4. \E s \in [1..c -> S] : \A i, j \in 1..c : i < j => Before(s[i], s[j])
    <3>1. StrictOrder(SortedBy, S)
      BY <2>2, Orders
    <3>2. \E s \in [1..c -> S] : \A i, j \in 1..c : i < j => <<s[i], s[j]>> \in SortedBy
      BY <2>2, <3>1, Sorts
    <3>. QED BY <3>2 DEF SortedBy
  <2>5. top = CHOOSE s \in [1..c -> S] : \A i, j \in 1..c : i < j => Before(s[i], s[j])
    BY <1>3 DEF TopByBytes, Sorted, S
  <2>6. top \in [1..c -> S] /\ \A i, j \in 1..c : i < j => Before(top[i], top[j])
    <3>. HIDE DEF top, c
    <3>. QED BY <2>4, <2>5
  <2>. HIDE DEF top
  <2>7. DOMAIN top = 1..c /\ Len(top) = c /\ ToSet(top) = {top[i] : i \in 1..c}
    BY <2>3, <2>6 DEF ToSet
  <2>8. \A i \in 1..c : top[i] \in S /\ top[i] \in Active
    BY <2>2, <2>6
  <2>9. ToSet(top) = S
    <3>1. top \in Injection(1..c, S)
      <4>1. ASSUME NEW i \in 1..c, NEW j \in 1..c, i < j PROVE top[i] # top[j]
        <5>1. <<top[i], top[j]>> \in SortedBy
          BY <2>6, <2>8, <4>1 DEF SortedBy
        <5>. QED BY <2>2, <2>8, <5>1, Orders DEF StrictOrder
      <4>2. \A i, j \in 1..c : i # j => i < j \/ j < i
        BY <2>3
      <4>3. \A i, j \in 1..c : top[i] = top[j] => i = j
        BY <4>1, <4>2
      <4>. QED BY <2>6, <2>7, <4>3 DEF Injection, IsInjective
    <3>2. Cardinality(1..c) = c
      BY <2>3, FS_Interval
    <3>3. top \in Surjection(1..c, S)
      BY <2>2, <3>1, <3>2, FS_Injection
    <3>. QED BY <2>7, <3>3 DEF Surjection
  <2>10. ASSUME NEW i \in 1..c, NEW j \in 1..c, i < j PROVE Total(stats[top[i]]) >= Total(stats[top[j]])
    <3>1. Before(top[i], top[j])
      BY <2>6, <2>10
    <3>2. Total(stats[top[i]]) \in Nat /\ Total(stats[top[j]]) \in Nat
      BY <2>8, Orders
    <3>. QED BY <3>1, <3>2 DEF Before
  <2>11. ASSUME NEW i \in 1..c, NEW k \in Active \ S PROVE Total(stats[top[i]]) >= Total(stats[k])
    <3>1. Smaller(k, top[i])
      BY <2>2, <2>8
    <3>2. Total(stats[top[i]]) \in Nat /\ Total(stats[k]) \in Nat
      BY <2>8, Orders
    <3>. QED BY <3>1, <3>2 DEF Smaller
  <2>12. IsTop(top, n)
    <3>1. Len(top) = IF n < Len(lru) THEN n ELSE Len(lru)
      BY <2>2, <2>7
    <3>2. \A i, j \in DOMAIN top : i < j => Total(stats[top[i]]) >= Total(stats[top[j]])
      BY <2>7, <2>10
    <3>3. \A i \in DOMAIN top : \A k \in ToSet(lru) \ ToSet(top) :
             Total(stats[top[i]]) >= Total(stats[k])
      BY <1>1, <2>7, <2>9, <2>11
    <3>. QED BY <3>1, <3>2, <3>3
  <2>. HIDE DEF IsTop
  <2>. QED BY <2>12 DEF top
<1>. HIDE DEF IsTop
<1>. QED BY <1>2, <1>3

-----------------------------------------------------------------------------
(* Theorems.                                                                *)

\* Type correctness: no flow is in the table twice, the table is never above its capacity,
\* and duration_us never underflows, with timestamps in any order.
THEOREM TypeCorrect == ExportSpec => []TypeOK
<1>1. IInv => TypeOK BY DEF IInv
<1>. QED BY <1>1, Inductive, PTL

\* Every flow ever created is active, evicted or expired, and every tracked packet is counted
\* once, for its sender, in the flow of its endpoints or in one that has left.
THEOREM BooksBalance == ExportSpec => []Accounted
<1>1. IInv => Accounted BY DEF IInv
<1>. QED BY <1>1, Inductive, PTL

\* An expiry pass, which stops at the first flow that is not idle, misses none as long as
\* timestamps come in order; and a flow that leaves was idle, or the oldest of a full table.
THEOREM ExpiryTakesTheIdle == ExportSpec => ExpiryExact
<1>1. IInv /\ [ExportNext]_exportVars => [packets' > packets => NoIdleLeft /\ OnlyIdleOrOldest]_vars
  BY Steps
<1>. QED BY <1>1, Inductive, PTL DEF ExportSpec, ExpiryExact

\* A change that no accepted batch has shown is in the next batch or one of the named losses
\* has hit it.
THEOREM EveryChangeExported == ExportSpec => []ChangesExported
<1>1. IInv => ChangesExported
  <2>1. SUFFICES ASSUME IInv, NEW k \in unsent \cap Active, stats[k].last <= Since,
                        k \notin excused, stats[k].last # 0
                 PROVE  k \in Overtaken /\ lastTs >= lastExport
    <3>1. IInv => Since \in Nat /\ \A k \in Active : stats[k].last \in Nat
      BY SinceWindow
    <3>. QED BY <3>1 DEF ChangesExported
  <2>2. /\ lastExport \in Nat /\ lastTs \in Nat
        /\ stats[k].last \in Nat /\ Since \in Nat /\ stats[k].last <= lastTs
        /\ window # None => Since = window
    BY <2>1, SinceWindow DEF IInv, Watermark
  <2>3. window = None
    BY <2>1, <2>2 DEF IInv, Watermark
  <2>4. Since # 0
    BY <2>1, <2>2
  <2>5. lastTs >= lastExport /\ lastExport > 0
    BY <2>2, <2>4 DEF Since
  <2>. QED BY <2>1, <2>3, <2>5 DEF Overtaken
<1>. QED BY <1>1, Inductive, PTL

\* The flows a host is shown are the largest of the table, largest first, as many as it asks
\* for, whatever the table holds and however large it is.
THEOREM TopStaysTop == ExportSpec => []TopIsTop
<1>1. IInv => TopIsTop
  BY TopIs DEF IInv
<1>. QED BY <1>1, Inductive, PTL
=============================================================================
