---------------------------- MODULE Rules_proofs ----------------------------
(***************************************************************************)
(* A rule with its sliding windows, side counts and LRU cache raises the   *)
(* alerts that the history of its events calls for, for any sources,       *)
(* values, window, cooldown, threshold and limits; and the engine runs the *)
(* rules that were meant, and only ones it can run, for any rule files.    *)
(***************************************************************************)
EXTENDS RuleEngine, RulesReload, SequenceTheorems, FiniteSetTheorems, TLAPS

Record == [src : Sources, ts : 0..MaxTime, value : Values]

Of(s, h) == {i \in DOMAIN h : h[i].src = s}

\* the sources seen between two events
Between(h, i, j) == {h[k].src : k \in (i + 1)..(j - 1)}

Since(h, i) == Between(h, i, Len(h) + 1)

\* A source was not pushed out between its event i and its last one.
Alive(s, h, i) ==
    \A j, k \in Of(s, h) :
        i <= j /\ j < k /\ (\A x \in Of(s, h) : ~(j < x /\ x < k))
            => Cardinality(Between(h, j, k)) < MaxSources

Distinct(q) == \A i, j \in DOMAIN q : i # j => q[i] # q[j]

InOrder(h) == \A i, j \in DOMAIN h : i <= j => h[i].ts <= h[j].ts

\* The cache: each source once, and behind it those seen since its last event; a source
\* that is not there has seen MaxSources others since.
Cache(q, h) ==
    /\ q \in Seq(Sources) /\ Len(q) <= MaxSources /\ Distinct(q)
    /\ \A p \in DOMAIN q : \E i \in Of(q[p], h) : Since(h, i) = {q[x] : x \in p + 1..Len(q)}
    /\ \A s \in Sources \ ToSet(q) : \A i \in Of(s, h) : Cardinality(Since(h, i)) >= MaxSources

\* The window of a source holds its latest events, f says which, and none from before the
\* source was pushed out.
Placed(s, h, es, f) ==
    /\ f \in [DOMAIN es -> Of(s, h)]
    /\ \A p \in DOMAIN es : es[p].ts = h[f[p]].ts /\ es[p].value = h[f[p]].value
    /\ \A p, q \in DOMAIN es : p < q => f[p] < f[q]
    /\ \A p \in DOMAIN es : \A i \in Of(s, h) : f[p] <= i => \E q \in DOMAIN es : f[q] = i
    /\ \A p \in DOMAIN es : Alive(s, h, f[p])

\* Why an event counts no more, now and later.
Gone(s, h, i) ==
    \/ ~Alive(s, h, i)
    \/ \E j \in Of(s, h) : h[i].ts + Window < h[j].ts
    \/ Cardinality({k \in Of(s, h) : k > i}) >= MaxEvents

Windowed(s, h, es, tracked) ==
    \E f \in [DOMAIN es -> Of(s, h)] :
        /\ Placed(s, h, es, f)
        /\ tracked => \A i \in Of(s, h) : (\E p \in DOMAIN es : f[p] = i) \/ Gone(s, h, i)

\* The last alert of a source that is remembered is the one its cooldown runs from.
Rested(s, h, al, last) ==
    /\ \A a \in DOMAIN al :
          h[al[a].at].src = s /\ Alive(s, h, al[a].at) => last # <<>> /\ h[al[a].at].ts <= last[1]
    /\ last # <<>> =>
          \E a \in DOMAIN al : /\ h[al[a].at].src = s /\ Alive(s, h, al[a].at)
                               /\ h[al[a].at].ts = last[1]

\* What the refinement needs to know between two events.
IInv ==
    /\ TypeOK /\ CountsAgree /\ InOrder(history) /\ Cache(lru, history)
    /\ \A s \in Sources : Windowed(s, history, events[s], s \in ToSet(lru))
    /\ \A s \in ToSet(lru) : Rested(s, history, alerts, fired[s])

-----------------------------------------------------------------------------
(* Numbers and sequences.                                                   *)

\* A set of numbers has a least one: the intervals that end in them are finite sets, and
\* strict inclusion is well-founded on those.
LEMMA Least ==
    ASSUME NEW T, T \subseteq Nat, T # {}
    PROVE  \E x \in T : \A y \in T : x <= y
<1>. DEFINE R == StrictSubsetOrdering(Nat)
            F == FiniteSubsetsOf(Nat)
            G == {0..n : n \in T}
<1>1. IsWellFoundedOn(R, F)
  BY FS_StrictSubsetOrderingWellFounded
<1>2. \A n \in T : 0..n \in F
  BY FS_Interval DEF FiniteSubsetsOf
<1>3. G \subseteq F /\ G # {}
  BY <1>2
<1>. HIDE DEF R, F
<1>4. PICK s \in G : \A t \in G : ~(<<t, s>> \in R)
  <2>. HIDE DEF G
  <2>. QED BY <1>1, <1>3, WFMin
<1>5. PICK x \in T : s = 0..x
  OBVIOUS
<1>6. ASSUME NEW y \in T, y < x PROVE FALSE
  <2>1. 0..y \in G
    OBVIOUS
  <2>2. <<0..y, 0..x>> \notin R
    BY <1>4, <1>5, <2>1
  <2>3. 0..y \subseteq 0..x /\ 0..y # 0..x
    BY <1>6, x \in Nat, y \in Nat
  <2>. QED BY <2>2, <2>3 DEF R, StrictSubsetOrdering
<1>. QED BY <1>6

\* And a set of numbers that has a bound has a greatest one.
LEMMA Greatest ==
    ASSUME NEW n \in Nat, NEW T, T \subseteq 1..n, T # {}
    PROVE  \E x \in T : \A y \in T : y <= x
<1>. DEFINE D == {n - y : y \in T}
<1>1. D \subseteq Nat /\ D # {}
  <2>1. \A y \in T : n - y \in Nat OBVIOUS
  <2>. QED BY <2>1
<1>2. PICK d \in D : \A e \in D : d <= e
  <2>. HIDE DEF D
  <2>. QED BY <1>1, Least
<1>3. PICK x \in T : d = n - x
  OBVIOUS
<1>4. ASSUME NEW y \in T PROVE y <= x
  <2>1. n - x <= n - y BY <1>2, <1>3
  <2>. QED BY <2>1, x \in 1..n, y \in 1..n
<1>. QED BY <1>4

\* What a sequence is made of.
LEMMA SeqBasics ==
    ASSUME NEW S, NEW s \in Seq(S)
    PROVE  /\ Len(s) \in Nat /\ DOMAIN s = 1..Len(s) /\ \A i \in 1..Len(s) : s[i] \in S
           /\ ToSet(s) = {s[i] : i \in 1..Len(s)} /\ ToSet(s) \subseteq S
BY LenProperties, ElementOfSeq DEF ToSet

\* What is left when the first d are taken.
LEMMA Suffix ==
    ASSUME NEW S, NEW s \in Seq(S), NEW d \in 0..Len(s)
    PROVE  /\ SubSeq(s, d + 1, Len(s)) \in Seq(S)
           /\ Len(SubSeq(s, d + 1, Len(s))) = Len(s) - d
           /\ DOMAIN SubSeq(s, d + 1, Len(s)) = 1..(Len(s) - d)
           /\ \A i \in 1..(Len(s) - d) : SubSeq(s, d + 1, Len(s))[i] = s[d + i]
<1>. DEFINE t == SubSeq(s, d + 1, Len(s))
<1>0. Len(s) \in Nat /\ \A i \in 1..Len(s) : s[i] \in S
  BY SeqBasics
<1>1. \A i \in d + 1..Len(s) : s[i] \in S
  BY <1>0
<1>2. /\ t \in Seq(S)
      /\ Len(t) = IF d + 1 <= Len(s) THEN Len(s) - (d + 1) + 1 ELSE 0
      /\ \A i \in 1..Len(s) - (d + 1) + 1 : t[i] = s[d + 1 + i - 1]
  BY <1>0, <1>1, SubSeqProperties
<1>3. Len(t) = Len(s) - d
  <2>1. d \in Nat /\ d <= Len(s) /\ Len(s) \in Nat BY <1>0
  <2>2. Len(t) = IF d + 1 <= Len(s) THEN Len(s) - (d + 1) + 1 ELSE 0 BY <1>2
  <2>. QED BY <2>1, <2>2
<1>4. \A i \in 1..(Len(s) - d) : i \in 1..Len(s) - (d + 1) + 1 /\ d + 1 + i - 1 = d + i
  BY <1>0
<1>5. \A i \in 1..(Len(s) - d) : t[i] = s[d + i]
  BY <1>2, <1>4
<1>6. DOMAIN t = 1..(Len(s) - d)
  BY <1>2, <1>3, SeqBasics
<1>. QED BY <1>2, <1>3, <1>5, <1>6

\* What is left when one is taken from anywhere, and where it comes from.
Pushed(t, s, p, at) ==
    /\ at \in [DOMAIN t -> DOMAIN s]
    /\ \A i \in DOMAIN t : at[i] # p /\ t[i] = s[at[i]]
    /\ \A i, j \in DOMAIN t : i < j => at[i] < at[j]
    /\ \A i \in DOMAIN s : i # p => \E j \in DOMAIN t : at[j] = i

\* Taking one leaves all the others, in order.
LEMMA TakeOne ==
    ASSUME NEW S, NEW s \in Seq(S), NEW p \in DOMAIN s
    PROVE  /\ RemoveAt(s, p) \in Seq(S) /\ Len(RemoveAt(s, p)) = Len(s) - 1
           /\ \E at : Pushed(RemoveAt(s, p), s, p, at)
<1>. DEFINE u == SubSeq(s, 1, p - 1)
            v == SubSeq(s, p + 1, Len(s))
            t == u \o v
<1>0. /\ Len(s) \in Nat /\ DOMAIN s = 1..Len(s) /\ \A i \in 1..Len(s) : s[i] \in S
      /\ p \in 1..Len(s) /\ RemoveAt(s, p) = t
  BY SeqBasics DEF RemoveAt
<1>a. p \in 0..Len(s)
  BY <1>0
<1>1. u \in Seq(S) /\ Len(u) = p - 1 /\ \A i \in 1..p - 1 : u[i] = s[i]
  <2>1. \A i \in 1..p - 1 : s[i] \in S
    BY <1>0
  <2>2. /\ u \in Seq(S) /\ Len(u) = IF 1 <= p - 1 THEN p - 1 - 1 + 1 ELSE 0
        /\ \A i \in 1..p - 1 - 1 + 1 : u[i] = s[1 + i - 1]
    BY <1>0, <2>1, SubSeqProperties
  <2>. QED BY <1>0, <2>2
<1>2. /\ v \in Seq(S) /\ Len(v) = Len(s) - p
      /\ \A i \in 1..(Len(s) - p) : v[i] = s[p + i]
  BY <1>0, <1>a, Suffix
<1>. HIDE DEF u, v
<1>3. /\ t \in Seq(S) /\ Len(t) = Len(s) - 1
      /\ \A i \in 1..Len(s) - 1 : t[i] = IF i < p THEN s[i] ELSE s[i + 1]
  <2>1. /\ t \in Seq(S) /\ Len(t) = Len(u) + Len(v)
        /\ \A i \in 1..Len(u) + Len(v) : t[i] = IF i <= Len(u) THEN u[i] ELSE v[i - Len(u)]
    BY <1>1, <1>2, ConcatProperties
  <2>2. ASSUME NEW i \in 1..Len(s) - 1 PROVE t[i] = IF i < p THEN s[i] ELSE s[i + 1]
    <3>1. CASE i < p
      BY <1>0, <1>1, <1>2, <2>1, <3>1
    <3>2. CASE i >= p
      <4>1. i - (p - 1) \in 1..(Len(s) - p) /\ p + (i - (p - 1)) = i + 1
        BY <1>0, <3>2
      <4>2. t[i] = v[i - (p - 1)] BY <1>0, <1>1, <1>2, <2>1, <3>2
      <4>3. v[i - (p - 1)] = s[p + (i - (p - 1))] BY <1>2, <4>1
      <4>4. v[i - (p - 1)] = s[i + 1] BY <4>1, <4>3, Zenon
      <4>5. ~(i < p) BY <1>0, <3>2
      <4>. QED BY <4>2, <4>4, <4>5
    <3>3. i < p \/ i >= p BY <1>0
    <3>. QED BY <3>1, <3>2, <3>3, Zenon
  <2>. QED BY <1>0, <1>1, <1>2, <2>1, <2>2
<1>. HIDE DEF t
<1>4. DOMAIN t = 1..Len(s) - 1
  BY <1>3, SeqBasics
<1>. DEFINE back == [i \in DOMAIN t |-> IF i < p THEN i ELSE i + 1]
<1>5. \A i \in DOMAIN t : back[i] \in DOMAIN s /\ back[i] # p /\ t[i] = s[back[i]]
  BY <1>0, <1>3, <1>4
<1>6. \A i, j \in DOMAIN t : i < j => back[i] < back[j]
  BY <1>0, <1>4
<1>7. \A i \in DOMAIN s : i # p => \E j \in DOMAIN t : back[j] = i
  <2>1. SUFFICES ASSUME NEW i \in DOMAIN s, i # p PROVE \E j \in DOMAIN t : back[j] = i
    OBVIOUS
  <2>2. CASE i < p
    <3>1. i \in DOMAIN t /\ back[i] = i BY <1>0, <1>4, <2>2
    <3>. QED BY <3>1
  <2>3. CASE i > p
    <3>1. i - 1 \in DOMAIN t /\ back[i - 1] = i BY <1>0, <1>4, <2>3
    <3>. QED BY <3>1
  <2>. QED BY <1>0, <2>1, <2>2, <2>3
<1>8. back \in [DOMAIN t -> DOMAIN s]
  BY <1>5
<1>. HIDE DEF back
<1>9. Pushed(t, s, p, back)
  BY <1>5, <1>6, <1>7, <1>8 DEF Pushed
<1>10. \E a : Pushed(t, s, p, a) BY <1>9, Zenon
<1>11. RemoveAt(s, p) = t BY <1>0
<1>12. \E a : Pushed(RemoveAt(s, p), s, p, a) BY <1>10, <1>11
<1>13. RemoveAt(s, p) \in Seq(S) /\ Len(RemoveAt(s, p)) = Len(s) - 1 BY <1>3, <1>11
<1>. QED BY <1>12, <1>13

\* A sequence with one more at its end.
LEMMA Extend ==
    ASSUME NEW S, NEW s \in Seq(S), NEW e \in S
    PROVE  /\ Append(s, e) \in Seq(S) /\ Len(Append(s, e)) = Len(s) + 1
           /\ DOMAIN Append(s, e) = 1..(Len(s) + 1) /\ DOMAIN s = 1..Len(s) /\ Len(s) \in Nat
           /\ \A i \in 1..Len(s) : Append(s, e)[i] = s[i]
           /\ Append(s, e)[Len(s) + 1] = e
BY AppendProperties, LenProperties

-----------------------------------------------------------------------------
(* Counting.                                                                *)

\* The image of a finite set is finite, and as large when no two have one image.
LEMMA ImageOf ==
    ASSUME NEW A, IsFiniteSet(A), NEW f
    PROVE  /\ IsFiniteSet({f[x] : x \in A}) /\ Cardinality({f[x] : x \in A}) \in Nat
           /\ Cardinality(A) \in Nat /\ Cardinality({f[x] : x \in A}) <= Cardinality(A)
           /\ (\A x, y \in A : f[x] = f[y] => x = y) => Cardinality({f[x] : x \in A}) = Cardinality(A)
<1>. DEFINE T == {f[x] : x \in A}
            g == [x \in A |-> f[x]]
<1>1. g \in Surjection(A, T)
  BY DEF Surjection
<1>2. /\ IsFiniteSet(T) /\ Cardinality(T) <= Cardinality(A)
      /\ Cardinality(T) = Cardinality(A) <=> g \in Injection(A, T)
  <2>. HIDE DEF T, g
  <2>. QED BY <1>1, FS_Surjection
<1>3. ASSUME \A x, y \in A : f[x] = f[y] => x = y PROVE g \in Injection(A, T)
  BY <1>3 DEF Injection, IsInjective
<1>4. Cardinality(A) \in Nat /\ Cardinality(T) \in Nat
  BY <1>2, FS_CardinalityType
<1>. HIDE DEF T, g
<1>5. (\A x, y \in A : f[x] = f[y] => x = y) => Cardinality(T) = Cardinality(A)
  BY <1>2, <1>3
<1>. QED BY <1>2, <1>4, <1>5 DEF T

\* A run of places that hold different things holds as many.
LEMMA Several ==
    ASSUME NEW a \in Nat, NEW b \in Nat, a <= b + 1, NEW f,
           \A x, y \in a..b : x # y => f[x] # f[y]
    PROVE  IsFiniteSet({f[x] : x \in a..b}) /\ Cardinality({f[x] : x \in a..b}) = b + 1 - a
<1>1. IsFiniteSet(a..b) /\ Cardinality(a..b) = IF a > b THEN 0 ELSE b - a + 1
  BY FS_Interval
<1>2. Cardinality(a..b) = b + 1 - a
  BY <1>1
<1>3. /\ IsFiniteSet({f[x] : x \in a..b})
      /\ (\A x, y \in a..b : f[x] = f[y] => x = y)
            => Cardinality({f[x] : x \in a..b}) = Cardinality(a..b)
  BY <1>1, ImageOf
<1>4. \A x, y \in a..b : f[x] = f[y] => x = y
  OBVIOUS
<1>. QED BY <1>2, <1>3, <1>4

\* How often a value occurs.
LEMMA OccType ==
    ASSUME NEW es \in Seq(Events), NEW v
    PROVE  /\ IsFiniteSet({i \in DOMAIN es : es[i].value = v}) /\ Occurrences(es, v) \in Nat
           /\ Occurrences(es, v) > 0 <=> \E i \in DOMAIN es : es[i].value = v
<1>. DEFINE T == {i \in DOMAIN es : es[i].value = v}
<1>1. IsFiniteSet(DOMAIN es)
  BY SeqBasics, FS_Interval
<1>2. IsFiniteSet(T) /\ Cardinality(T) \in Nat
  BY <1>1, FS_Subset, FS_CardinalityType, T \in SUBSET DOMAIN es
<1>3. Cardinality(T) = 0 <=> T = {}
  BY <1>2, FS_EmptySet
<1>4. T # {} <=> \E i \in DOMAIN es : es[i].value = v
  OBVIOUS
<1>. HIDE DEF T
<1>5. Cardinality(T) > 0 <=> T # {}
  BY <1>2, <1>3
<1>6. Occurrences(es, v) = Cardinality(T)
  BY DEF Occurrences, T
<1>. QED BY <1>2, <1>4, <1>5, <1>6 DEF T

\* Events that leave take their occurrences with them.
LEMMA OccSuffix ==
    ASSUME NEW es \in Seq(Events), NEW v, NEW d \in 0..Len(es)
    PROVE  Occurrences(SubSeq(es, d + 1, Len(es)), v) <= Occurrences(es, v)
<1>. DEFINE t == SubSeq(es, d + 1, Len(es))
            S == {i \in DOMAIN t : t[i].value = v}
            T == {i \in DOMAIN es : es[i].value = v}
            g == [i \in S |-> d + i]
<1>1. /\ DOMAIN t = 1..(Len(es) - d) /\ \A i \in 1..(Len(es) - d) : t[i] = es[d + i]
      /\ DOMAIN es = 1..Len(es) /\ Len(es) \in Nat
  BY Suffix, SeqBasics
<1>. HIDE DEF t
<1>2. \A i \in S : d + i \in T
  BY <1>1
<1>3. \A i, j \in S : d + i = d + j => i = j
  BY <1>1
<1>4. g \in Injection(S, T)
  BY <1>2, <1>3 DEF Injection, IsInjective
<1>5. IsFiniteSet(T)
  BY OccType
<1>. HIDE DEF S, T, g
<1>6. Cardinality(S) <= Cardinality(T)
  BY <1>4, <1>5, FS_Injection
<1>. QED BY <1>6 DEF Occurrences, S, T, t

\* A new event adds one occurrence of its value.
LEMMA OccAppend ==
    ASSUME NEW es \in Seq(Events), NEW e \in Events, NEW v
    PROVE  Occurrences(Append(es, e), v) = Occurrences(es, v) + (IF e.value = v THEN 1 ELSE 0)
<1>. DEFINE t == Append(es, e)
            S == {i \in DOMAIN t : t[i].value = v}
            T == {i \in DOMAIN es : es[i].value = v}
<1>1. /\ DOMAIN t = 1..(Len(es) + 1) /\ \A i \in 1..Len(es) : t[i] = es[i]
      /\ DOMAIN es = 1..Len(es) /\ Len(es) \in Nat /\ t[Len(es) + 1] = e
  BY Extend
<1>. HIDE DEF t
<1>2. \A i \in DOMAIN t : i \in DOMAIN es \/ i = Len(es) + 1
  BY <1>1
<1>3. DOMAIN es \subseteq DOMAIN t /\ Len(es) + 1 \in DOMAIN t /\ Len(es) + 1 \notin DOMAIN es
  BY <1>1
<1>4. S = IF e.value = v THEN T \cup {Len(es) + 1} ELSE T
  BY <1>1, <1>2, <1>3
<1>5. IsFiniteSet(T) /\ Cardinality(T) \in Nat /\ Len(es) + 1 \notin T
  BY <1>3, OccType DEF Occurrences
<1>. HIDE DEF S, T
<1>6. Cardinality(T \cup {Len(es) + 1}) = Cardinality(T) + 1
  BY <1>5, FS_AddElement
<1>7. Cardinality(S) = Cardinality(T) + (IF e.value = v THEN 1 ELSE 0)
  BY <1>4, <1>5, <1>6
<1>. QED BY <1>7 DEF Occurrences, S, T, t

\* What is kept of a window is all but the first d: stale ones, or the oldest of a full window.
LEMMA KeptIs ==
    ASSUME NEW es \in Seq(Events), Len(es) <= MaxEvents, NEW ts \in Nat
    PROVE  \E d \in 0..Len(es) :
              /\ Kept(es, ts) = SubSeq(es, d + 1, Len(es)) /\ Len(es) - d < MaxEvents
              /\ \A p \in 1..d : Stale(es[p], ts) \/ (Len(es) = MaxEvents /\ p = 1 /\ d = 1)
              /\ (\A p, q \in DOMAIN es : p <= q => es[p].ts <= es[q].ts) =>
                    \A p \in d + 1..Len(es) : ~Stale(es[p], ts)
<1>. DEFINE fresh == {i \in DOMAIN es : ~Stale(es[i], ts)}
            least == CHOOSE i \in fresh : \A j \in fresh : i <= j
<1>0. /\ Len(es) \in Nat /\ DOMAIN es = 1..Len(es) /\ MaxEvents \in Nat /\ MaxEvents > 0
      /\ Window \in Nat /\ MaxTime \in Nat
  BY SeqBasics, RuleAssumption
<1>1. \A i \in 1..Len(es) : es[i].ts \in Nat
  <2>1. \A e \in Events : e.ts \in 0..MaxTime BY DEF Events
  <2>2. 0..MaxTime \subseteq Nat BY <1>0
  <2>3. \A i \in 1..Len(es) : es[i] \in Events BY SeqBasics
  <2>. QED BY <2>1, <2>2, <2>3
<1>2. PICK n \in 1..Len(es) + 1 :
         /\ KeptFrom(es, ts) = n
         /\ \A p \in 1..(n - 1) : Stale(es[p], ts)
         /\ n <= Len(es) => ~Stale(es[n], ts)
  <2>1. CASE fresh = {}
    <3>1. KeptFrom(es, ts) = Len(es) + 1 BY <2>1 DEF KeptFrom
    <3>2. \A p \in 1..Len(es) : Stale(es[p], ts) BY <1>0, <2>1
    <3>3. Len(es) + 1 \in 1..Len(es) + 1 /\ (Len(es) + 1) - 1 = Len(es) /\ ~(Len(es) + 1 <= Len(es))
      BY <1>0
    <3>. HIDE DEF fresh
    <3>. QED BY <3>1, <3>2, <3>3
  <2>2. CASE fresh # {}
    <3>1. KeptFrom(es, ts) = least BY <2>2 DEF KeptFrom
    <3>2. least \in fresh /\ \A j \in fresh : least <= j
      <4>1. fresh \subseteq Nat BY <1>0
      <4>2. \E i \in fresh : \A j \in fresh : i <= j
        <5>. HIDE DEF fresh
        <5>. QED BY <2>2, <4>1, Least
      <4>. HIDE DEF fresh
      <4>. QED BY <4>2
    <3>. HIDE DEF least
    <3>3. least \in 1..Len(es) /\ ~Stale(es[least], ts) BY <1>0, <3>2
    <3>4. ASSUME NEW p \in 1..(least - 1) PROVE Stale(es[p], ts)
      <4>1. p \in DOMAIN es /\ ~(least <= p) BY <1>0, <3>3
      <4>. QED BY <3>2, <4>1
    <3>5. least \in 1..Len(es) + 1 BY <1>0, <3>3
    <3>. QED BY <3>1, <3>3, <3>4, <3>5
  <2>. QED BY <2>1, <2>2
<1>. HIDE DEF fresh, least
<1>3. ASSUME \A p, q \in DOMAIN es : p <= q => es[p].ts <= es[q].ts, NEW p \in n..Len(es)
      PROVE  ~Stale(es[p], ts)
  <2>1. n \in 1..Len(es) /\ p \in 1..Len(es) /\ n <= p BY <1>0
  <2>2. es[n].ts <= es[p].ts BY <1>0, <1>3, <2>1
  <2>3. es[n].ts \in Nat /\ es[p].ts \in Nat BY <1>1, <2>1
  <2>. QED BY <1>0, <1>2, <2>1, <2>2, <2>3 DEF Stale
<1>. DEFINE rest == SubSeq(es, n, Len(es))
<1>4. rest = SubSeq(es, (n - 1) + 1, Len(es)) /\ n - 1 \in 0..Len(es)
  BY <1>0
<1>5. Len(rest) = Len(es) - (n - 1)
  BY <1>4, Suffix
<1>6. Kept(es, ts) = Bounded(rest)
  BY <1>2 DEF Kept
<1>7. CASE Len(rest) # MaxEvents
  <2>1. Kept(es, ts) = SubSeq(es, (n - 1) + 1, Len(es)) BY <1>4, <1>6, <1>7 DEF Bounded
  <2>2. Len(es) - (n - 1) < MaxEvents
    <3>1. Len(es) - (n - 1) # MaxEvents BY <1>5, <1>7
    <3>2. n \in Nat /\ n >= 1 BY <1>0
    <3>. QED BY <1>0, <3>1, <3>2
  <2>3. \A p \in (n - 1) + 1..Len(es) : p \in n..Len(es) BY <1>0
  <2>4. (\A p, q \in DOMAIN es : p <= q => es[p].ts <= es[q].ts) =>
            \A p \in (n - 1) + 1..Len(es) : ~Stale(es[p], ts)
    BY <1>3, <2>3
  <2>5. \A p \in 1..(n - 1) : Stale(es[p], ts) \/ (Len(es) = MaxEvents /\ p = 1 /\ n - 1 = 1)
    BY <1>2, Zenon
  <2>6. n - 1 \in 0..Len(es) BY <1>4
  <2>. HIDE DEF rest
  <2>. QED BY <2>1, <2>2, <2>4, <2>5, <2>6, Zenon
<1>8. CASE Len(rest) = MaxEvents
  <2>1. n = 1 /\ Len(es) = MaxEvents
    <3>1. Len(es) - (n - 1) = MaxEvents BY <1>5, <1>8
    <3>2. n \in Nat /\ n >= 1 BY <1>0
    <3>3. \A k, l, m \in Nat : k - (l - 1) = m /\ l >= 1 /\ k <= m => l = 1 /\ k = m OBVIOUS
    <3>. QED BY <1>0, <3>1, <3>2, <3>3
  <2>2. rest = es /\ es # <<>>
    <3>1. rest = SubSeq(es, 1, Len(es)) BY <2>1
    <3>2. Len(es) # 0 BY <1>0, <2>1
    <3>. QED BY <3>1, <3>2, SubSeqFull, EmptySeq
  <2>3. Kept(es, ts) = SubSeq(es, 1 + 1, Len(es))
    <3>1. Kept(es, ts) = Tail(es) BY <1>6, <1>8, <2>1, <2>2 DEF Bounded
    <3>. HIDE DEF rest
    <3>. QED BY <2>2, <3>1, TailIsSubSeq
  <2>4. 1 \in 0..Len(es) /\ Len(es) - 1 < MaxEvents BY <1>0, <2>1
  <2>5. \A p \in 1..1 : Len(es) = MaxEvents /\ p = 1 BY <2>1
  <2>6. \A p \in 1 + 1..Len(es) : p \in n..Len(es) BY <1>0, <2>1
  <2>. QED BY <1>3, <2>3, <2>4, <2>5, <2>6
<1>. QED BY <1>7, <1>8

-----------------------------------------------------------------------------
(* The history grows by one event.                                          *)

Grows(g, h, s) ==
    /\ h \in Seq(Record) /\ g \in Seq(Record) /\ s \in Sources /\ Len(g) = Len(h) + 1
    /\ \A i \in 1..Len(h) : g[i] = h[i]
    /\ g[Len(h) + 1].src = s

\* What the history is made of.
LEMMA History ==
    ASSUME NEW h \in Seq(Record)
    PROVE  /\ Len(h) \in Nat /\ DOMAIN h = 1..Len(h)
           /\ \A i \in DOMAIN h : h[i].src \in Sources /\ h[i].ts \in 0..MaxTime /\ h[i].ts \in Nat
           /\ \A s : Of(s, h) \subseteq 1..Len(h)
<1>1. Len(h) \in Nat /\ DOMAIN h = 1..Len(h) /\ \A i \in 1..Len(h) : h[i] \in Record
  BY SeqBasics
<1>2. \A e \in Record : e.src \in Sources /\ e.ts \in 0..MaxTime
  BY DEF Record
<1>3. 0..MaxTime \subseteq Nat
  BY RuleAssumption
<1>. QED BY <1>1, <1>2, <1>3 DEF Of

\* Between two events finitely many sources were seen.
LEMMA BetweenFinite ==
    ASSUME NEW h, NEW i \in Nat, NEW j \in Nat
    PROVE  IsFiniteSet(Between(h, i, j)) /\ Cardinality(Between(h, i, j)) \in Nat
<1>. DEFINE A == (i + 1)..(j - 1)
            f == [k \in A |-> h[k].src]
<1>1. IsFiniteSet(A)
  BY FS_Interval
<1>2. Between(h, i, j) = {f[k] : k \in A}
  BY DEF Between
<1>. HIDE DEF f, A
<1>. QED BY <1>1, <1>2, ImageOf

\* The sooner an event, the more has been seen since.
LEMMA SinceShrinks ==
    ASSUME NEW h \in Seq(Record), NEW i \in Nat, NEW j \in Nat, i <= j
    PROVE  /\ Since(h, j) \subseteq Since(h, i)
           /\ Cardinality(Since(h, j)) \in Nat /\ Cardinality(Since(h, i)) \in Nat
           /\ Cardinality(Since(h, j)) <= Cardinality(Since(h, i))
<1>1. Len(h) + 1 \in Nat
  BY History
<1>2. /\ IsFiniteSet(Since(h, i)) /\ Cardinality(Since(h, i)) \in Nat
      /\ IsFiniteSet(Since(h, j)) /\ Cardinality(Since(h, j)) \in Nat
  BY <1>1, BetweenFinite DEF Since
<1>3. \A k \in (j + 1)..(Len(h) + 1 - 1) : k \in (i + 1)..(Len(h) + 1 - 1)
  BY <1>1
<1>4. Since(h, j) \subseteq Since(h, i)
  BY <1>3 DEF Since, Between
<1>. QED BY <1>2, <1>4, FS_Subset

\* The new event is one of its source, and all others stay as they are.
LEMMA OfGrows ==
    ASSUME NEW g, NEW h, NEW s, Grows(g, h, s), NEW x
    PROVE  /\ x = s => Of(x, g) = Of(x, h) \cup {Len(h) + 1}
           /\ x # s => Of(x, g) = Of(x, h)
           /\ \A i \in Of(x, h) : i \in 1..Len(h) /\ i \in Nat /\ i < Len(h) + 1 /\ g[i] = h[i]
<1>1. /\ Len(h) \in Nat /\ DOMAIN h = 1..Len(h) /\ DOMAIN g = 1..(Len(h) + 1)
      /\ \A i \in 1..Len(h) : g[i] = h[i]
      /\ g[Len(h) + 1].src = s
  BY SeqBasics DEF Grows
<1>2. \A i \in DOMAIN g : i \in DOMAIN h \/ i = Len(h) + 1
  BY <1>1
<1>3. DOMAIN h \subseteq DOMAIN g /\ Len(h) + 1 \in DOMAIN g /\ Len(h) + 1 \notin DOMAIN h
  BY <1>1
<1>4. \A i \in DOMAIN h : i \in Nat /\ i < Len(h) + 1
  BY <1>1
<1>5. x = s => Of(x, g) = Of(x, h) \cup {Len(h) + 1}
  BY <1>1, <1>2, <1>3 DEF Of
<1>6. x # s => Of(x, g) = Of(x, h)
  BY <1>1, <1>2, <1>3 DEF Of
<1>. QED BY <1>1, <1>4, <1>5, <1>6 DEF Of

\* Between old events nothing changes, and its source has been seen since each of them.
LEMMA BetweenGrows ==
    ASSUME NEW g, NEW h, NEW s, Grows(g, h, s), NEW i \in Nat
    PROVE  /\ \A j \in 0..(Len(h) + 1) : Between(g, i, j) = Between(h, i, j)
           /\ i <= Len(h) => Since(g, i) = Since(h, i) \cup {s}
           /\ i = Len(h) + 1 => Since(g, i) = {}
<1>1. /\ Len(h) \in Nat /\ \A k \in 1..Len(h) : g[k] = h[k]
      /\ Len(g) = Len(h) + 1 /\ g[Len(h) + 1].src = s
  BY SeqBasics DEF Grows
<1>2. ASSUME NEW j \in 0..(Len(h) + 1) PROVE Between(g, i, j) = Between(h, i, j)
  <2>1. \A k \in (i + 1)..(j - 1) : g[k] = h[k] BY <1>1
  <2>. QED BY <2>1 DEF Between
<1>3. ASSUME i <= Len(h) PROVE Since(g, i) = Since(h, i) \cup {s}
  <2>1. Len(g) + 1 - 1 = Len(h) + 1 /\ Len(h) + 1 - 1 = Len(h)
    BY <1>1
  <2>2. Since(g, i) = {g[k].src : k \in (i + 1)..(Len(h) + 1)}
    BY <2>1 DEF Since, Between
  <2>3. Since(h, i) = {h[k].src : k \in (i + 1)..Len(h)}
    BY <2>1 DEF Since, Between
  <2>4. (i + 1)..(Len(h) + 1) = ((i + 1)..Len(h)) \cup {Len(h) + 1}
    BY <1>1, <1>3
  <2>5. \A k \in (i + 1)..Len(h) : g[k] = h[k]
    BY <1>1
  <2>. QED BY <1>1, <2>2, <2>3, <2>4, <2>5
<1>4. ASSUME i = Len(h) + 1 PROVE Since(g, i) = {}
  <2>1. (i + 1)..(Len(g) + 1 - 1) = {} BY <1>1, <1>4
  <2>. QED BY <2>1 DEF Since, Between
<1>. QED BY <1>2, <1>3, <1>4

-----------------------------------------------------------------------------
(* The cache.                                                               *)

\* What is left of the cache when room is made for a source, and where it was.
Left(b, at, s) ==
    /\ b \in Seq(Sources) /\ Len(b) < MaxSources
    /\ at \in [DOMAIN b -> DOMAIN lru \ Leaving(s)]
    /\ \A i \in DOMAIN b : b[i] = lru[at[i]]
    /\ \A i, j \in DOMAIN b : i < j => at[i] < at[j]
    /\ \A i \in DOMAIN lru \ Leaving(s) : \E j \in DOMAIN b : at[j] = i

\* What is no more than a limit is below it or at it.
LEMMA AtMost == \A k, l \in Nat : k <= l => k < l \/ k = l
OBVIOUS

\* At most one place is given up: that of the source itself, or the oldest of a full cache.
LEMMA LeavingAlone ==
    ASSUME lru \in Seq(Sources), Len(lru) <= MaxSources, Distinct(lru), NEW s \in Sources
    PROVE  /\ \A p \in Leaving(s), i \in DOMAIN lru : i \in Leaving(s) => i = p
           /\ \A p \in Leaving(s) : lru[p] # s => /\ p = 1 /\ Len(lru) = MaxSources
                                                  /\ s \notin ToSet(lru)
           /\ Leaving(s) = {} => Len(lru) < MaxSources /\ s \notin ToSet(lru)
<1>0. Len(lru) \in Nat /\ DOMAIN lru = 1..Len(lru) /\ MaxSources \in Nat /\ MaxSources > 0
  BY SeqBasics, RuleAssumption
<1>1. CASE Contains(lru, s)
  <2>1. Forgotten(s) = {} BY <1>1 DEF Forgotten
  <2>2. Leaving(s) = {i \in DOMAIN lru : lru[i] = s} BY <2>1 DEF Leaving
  <2>3. Leaving(s) # {} BY <1>0, <1>1, <2>2 DEF Contains
  <2>. QED BY <2>2, <2>3 DEF Distinct
<1>2. CASE ~Contains(lru, s) /\ Len(lru) < MaxSources
  <2>1. Forgotten(s) = {} BY <1>2 DEF Forgotten
  <2>2. \A i \in DOMAIN lru : lru[i] # s BY <1>0, <1>2 DEF Contains
  <2>3. Leaving(s) = {} BY <2>1, <2>2 DEF Leaving
  <2>. QED BY <1>0, <1>2, <2>2, <2>3 DEF ToSet
<1>3. CASE ~Contains(lru, s) /\ Len(lru) = MaxSources
  <2>1. Forgotten(s) = {lru[1]} BY <1>0, <1>3 DEF Forgotten, ForgetOldest
  <2>2. \A i \in DOMAIN lru : lru[i] # s BY <1>0, <1>3 DEF Contains
  <2>3. 1 \in DOMAIN lru BY <1>0, <1>3
  <2>4. Leaving(s) = {1} BY <2>1, <2>2, <2>3 DEF Leaving, Distinct
  <2>. QED BY <1>3, <2>2, <2>4 DEF ToSet
<1>4. Len(lru) < MaxSources \/ Len(lru) = MaxSources
  BY <1>0, AtMost, Zenon
<1>. QED BY <1>1, <1>2, <1>3, <1>4, Zenon

\* get_or_insert_mut puts the source behind what is left.
LEMMA MakesRoom ==
    ASSUME lru \in Seq(Sources), Len(lru) <= MaxSources, Distinct(lru), NEW s \in Sources
    PROVE  \E b, at : MostRecent(s) = Append(b, s) /\ Left(b, at, s)
<1>0. Len(lru) \in Nat /\ DOMAIN lru = 1..Len(lru) /\ MaxSources \in Nat
  BY SeqBasics, RuleAssumption
<1>1. CASE Leaving(s) = {}
  <2>. DEFINE at == [i \in DOMAIN lru |-> i]
  <2>1. MostRecent(s) = Append(lru, s) BY <1>1 DEF MostRecent
  <2>2. Left(lru, at, s) BY <1>0, <1>1, LeavingAlone DEF Left
  <2>. HIDE DEF at
  <2>. QED BY <2>1, <2>2, Zenon
<1>2. CASE Leaving(s) # {}
  <2>. DEFINE p == CHOOSE i \in Leaving(s) : TRUE
              b == RemoveAt(lru, p)
  <2>1. p \in Leaving(s) BY <1>2
  <2>2. p \in DOMAIN lru BY <2>1 DEF Leaving
  <2>3. MostRecent(s) = Append(b, s) BY <1>2 DEF MostRecent
  <2>. HIDE DEF p
  <2>4. b \in Seq(Sources) /\ Len(b) = Len(lru) - 1 /\ \E at : Pushed(b, lru, p, at)
    BY <2>2, TakeOne
  <2>. HIDE DEF b
  <2>5. PICK at : Pushed(b, lru, p, at) BY <2>4
  <2>6. \A i \in DOMAIN lru : i \in Leaving(s) <=> i = p
    BY <2>1, LeavingAlone
  <2>7. Len(b) < MaxSources BY <1>0, <2>4
  <2>8. at \in [DOMAIN b -> DOMAIN lru \ Leaving(s)] BY <2>5, <2>6 DEF Pushed
  <2>9. Left(b, at, s) BY <2>4, <2>5, <2>6, <2>7, <2>8 DEF Left, Pushed
  <2>. QED BY <2>3, <2>9, Zenon
<1>. QED BY <1>1, <1>2

\* The sources tracked afterwards: the newest, and those neither it nor forgotten.
LEMMA TrackedAfter ==
    ASSUME lru \in Seq(Sources), Len(lru) <= MaxSources, Distinct(lru), NEW s \in Sources
    PROVE  /\ MostRecent(s) \in Seq(Sources) /\ Len(MostRecent(s)) <= MaxSources
           /\ ToSet(MostRecent(s)) = (ToSet(lru) \ Forgotten(s)) \cup {s}
           /\ s \notin Forgotten(s) /\ Forgotten(s) \subseteq ToSet(lru)
<1>0. Len(lru) \in Nat /\ DOMAIN lru = 1..Len(lru) /\ MaxSources \in Nat /\ MaxSources > 0
  BY SeqBasics, RuleAssumption
<1>1. PICK b, at : MostRecent(s) = Append(b, s) /\ Left(b, at, s)
  BY MakesRoom
<1>2. b \in Seq(Sources) /\ Len(b) < MaxSources
  BY <1>1 DEF Left
<1>3. /\ Append(b, s) \in Seq(Sources) /\ Len(Append(b, s)) = Len(b) + 1
      /\ DOMAIN Append(b, s) = 1..(Len(b) + 1) /\ DOMAIN b = 1..Len(b) /\ Len(b) \in Nat
      /\ \A i \in 1..Len(b) : Append(b, s)[i] = b[i]
      /\ Append(b, s)[Len(b) + 1] = s
  BY <1>2, Extend
<1>4. ToSet(Append(b, s)) = ToSet(b) \cup {s}
  <2>1. 1..(Len(b) + 1) = (1..Len(b)) \cup {Len(b) + 1} BY <1>3
  <2>. QED BY <1>3, <2>1 DEF ToSet
<1>5. ToSet(b) = ToSet(lru) \ (Forgotten(s) \cup {s})
  BY <1>1 DEF Left, ToSet, Leaving
<1>6. s \notin Forgotten(s) /\ Forgotten(s) \subseteq ToSet(lru)
  <2>1. CASE Contains(lru, s) \/ Len(lru) < MaxSources
    BY <2>1 DEF Forgotten
  <2>2. CASE ~Contains(lru, s) /\ Len(lru) = MaxSources
    <3>1. Forgotten(s) = {lru[1]} /\ 1 \in DOMAIN lru BY <1>0, <2>2 DEF Forgotten, ForgetOldest
    <3>. QED BY <1>0, <2>2, <3>1 DEF Contains, ToSet
  <2>3. Len(lru) < MaxSources \/ Len(lru) = MaxSources BY <1>0, AtMost, Zenon
  <2>. QED BY <2>1, <2>2, <2>3, Zenon
<1>7. Len(b) + 1 <= MaxSources BY <1>0, <1>2, <1>3
<1>. QED BY <1>1, <1>3, <1>4, <1>5, <1>6, <1>7

\* The event behind a place of the cache is the latest of its source.
LEMMA LatestOf ==
    ASSUME NEW h \in Seq(Record), NEW q, Cache(q, h), NEW p \in DOMAIN q, NEW i \in Of(q[p], h),
           Since(h, i) = {q[x] : x \in p + 1..Len(q)}
    PROVE  \A j \in Of(q[p], h) : j <= i
<1>0. /\ Len(h) \in Nat /\ Of(q[p], h) \subseteq 1..Len(h)
      /\ q \in Seq(Sources) /\ Len(q) \in Nat /\ DOMAIN q = 1..Len(q) /\ Distinct(q)
  BY History, SeqBasics DEF Cache
<1>1. ASSUME NEW j \in Of(q[p], h), j > i PROVE FALSE
  <2>1. j \in (i + 1)..(Len(h) + 1 - 1) BY <1>0, <1>1
  <2>2. h[j].src = q[p] BY DEF Of
  <2>3. q[p] \in Since(h, i) BY <2>1, <2>2 DEF Since, Between
  <2>4. PICK x \in p + 1..Len(q) : q[p] = q[x] BY <2>3
  <2>5. x \in DOMAIN q /\ x # p BY <1>0
  <2>. QED BY <1>0, <2>4, <2>5 DEF Distinct
<1>2. \A j \in Of(q[p], h) : j \in Nat /\ i \in Nat
  BY <1>0
<1>3. \A j \in Of(q[p], h) : ~(j > i) => j <= i
  BY <1>2
<1>. QED BY <1>1, <1>3

\* A source in its place keeps the event behind it; one more has been seen since.
LEMMA PlaceKept ==
    ASSUME NEW h, NEW g, NEW s, Grows(g, h, s), Cache(lru, h), NEW b, NEW at, Left(b, at, s),
           NEW p \in DOMAIN b
    PROVE  \E i \in Of(b[p], g) : Since(g, i) = {b[y] : y \in p + 1..Len(b)} \cup {s}
<1>0. /\ Len(h) \in Nat /\ h \in Seq(Record) /\ s \in Sources
      /\ lru \in Seq(Sources) /\ Len(lru) \in Nat /\ DOMAIN lru = 1..Len(lru) /\ Distinct(lru)
      /\ Len(lru) <= MaxSources
      /\ b \in Seq(Sources) /\ Len(b) \in Nat /\ DOMAIN b = 1..Len(b)
  BY History, SeqBasics DEF Cache, Grows, Left
<1>1. at[p] \in DOMAIN lru /\ b[p] = lru[at[p]]
  BY DEF Left
<1>2. PICK i \in Of(b[p], h) : Since(h, i) = {lru[x] : x \in at[p] + 1..Len(lru)}
  BY <1>1 DEF Cache
<1>3. i \in Of(b[p], g) /\ i \in Nat /\ i <= Len(h)
  <2>1. i \in 1..Len(h) BY <1>0, <1>2, OfGrows
  <2>2. i \in Of(b[p], g) BY <1>2, OfGrows
  <2>. QED BY <1>0, <2>1, <2>2
<1>4. Since(g, i) = Since(h, i) \cup {s}
  BY <1>3, BetweenGrows
<1>5. ASSUME NEW y \in p + 1..Len(b) PROVE b[y] \in Since(h, i)
  <2>1. y \in DOMAIN b /\ p < y BY <1>0
  <2>2. at[p] < at[y] /\ at[y] \in DOMAIN lru /\ b[y] = lru[at[y]] BY <2>1 DEF Left
  <2>3. at[y] \in at[p] + 1..Len(lru) BY <1>0, <1>1, <2>2
  <2>. QED BY <1>2, <2>2, <2>3
<1>6. ASSUME NEW x \in at[p] + 1..Len(lru), lru[x] # s
      PROVE  \E y \in p + 1..Len(b) : lru[x] = b[y]
  <2>1. x \in DOMAIN lru /\ x # 1 /\ at[p] < x BY <1>0, <1>1
  <2>2. x \notin Leaving(s) BY <1>0, <1>6, <2>1, LeavingAlone
  <2>3. PICK y \in DOMAIN b : at[y] = x BY <2>1, <2>2 DEF Left
  <2>4. ~(y < p) /\ y # p
    <3>1. y < p => at[y] < at[p] BY DEF Left
    <3>2. x \in Nat /\ at[p] \in Nat BY <1>0, <1>1, <2>1
    <3>3. ~(x < at[p]) /\ x # at[p] BY <2>1, <3>2
    <3>. QED BY <2>3, <3>1, <3>3
  <2>5. y \in p + 1..Len(b) BY <1>0, <2>4
  <2>6. lru[x] = b[y] BY <2>3 DEF Left
  <2>. QED BY <2>5, <2>6
<1>7. Since(g, i) = {b[y] : y \in p + 1..Len(b)} \cup {s}
  <2>1. Since(g, i) \subseteq {b[y] : y \in p + 1..Len(b)} \cup {s} BY <1>2, <1>4, <1>6
  <2>2. {b[y] : y \in p + 1..Len(b)} \cup {s} \subseteq Since(g, i) BY <1>4, <1>5
  <2>. QED BY <2>1, <2>2
<1>. QED BY <1>3, <1>7

\* Who is forgotten has seen as many others as the cache holds.
LEMMA OthersSeen ==
    ASSUME NEW h, NEW g, NEW s, Grows(g, h, s), Cache(lru, h), NEW x \in Sources,
           x # s, x \notin ToSet(lru) \/ x \in Forgotten(s), NEW i \in Of(x, g)
    PROVE  Cardinality(Since(g, i)) >= MaxSources
<1>0. /\ Len(h) \in Nat /\ h \in Seq(Record) /\ s \in Sources /\ MaxSources \in Nat
      /\ lru \in Seq(Sources) /\ Len(lru) \in Nat /\ DOMAIN lru = 1..Len(lru) /\ Distinct(lru)
      /\ Len(lru) <= MaxSources
  BY History, SeqBasics, RuleAssumption DEF Cache, Grows
<1>1. i \in Of(x, h) /\ i \in Nat /\ i \in 1..Len(h) /\ i <= Len(h)
  <2>1. i \in Of(x, h) BY OfGrows
  <2>2. i \in 1..Len(h) BY <2>1, OfGrows
  <2>. QED BY <1>0, <2>1, <2>2
<1>2. Since(g, i) = Since(h, i) \cup {s}
  BY <1>1, BetweenGrows
<1>3. /\ IsFiniteSet(Since(h, i)) /\ Cardinality(Since(h, i)) \in Nat
      /\ IsFiniteSet(Since(g, i)) /\ Cardinality(Since(g, i)) \in Nat
  <2>1. Len(h) + 1 \in Nat /\ Len(g) + 1 \in Nat BY <1>0 DEF Grows
  <2>. QED BY <1>1, <2>1, BetweenFinite DEF Since
<1>4. CASE x \notin ToSet(lru)
  <2>1. Cardinality(Since(h, i)) >= MaxSources BY <1>1, <1>4 DEF Cache
  <2>2. Cardinality(Since(h, i)) <= Cardinality(Since(g, i)) BY <1>2, <1>3, FS_Subset
  <2>. QED BY <1>0, <1>3, <2>1, <2>2
<1>5. CASE x \in ToSet(lru) /\ x \in Forgotten(s)
  <2>1. PICK p \in DOMAIN lru : lru[p] = x BY <1>5 DEF ToSet
  <2>2. p \in Leaving(s) BY <1>5, <2>1 DEF Leaving
  <2>3. p = 1 /\ Len(lru) = MaxSources /\ s \notin ToSet(lru)
    BY <1>0, <2>1, <2>2, LeavingAlone
  <2>4. PICK k \in Of(lru[p], h) : Since(h, k) = {lru[y] : y \in p + 1..Len(lru)}
    BY <2>1 DEF Cache
  <2>5. i <= k BY <1>0, <1>1, <2>1, <2>4, LatestOf
  <2>6. k \in Nat BY <1>0, <2>4, History
  <2>7. Since(h, k) \subseteq Since(h, i) BY <1>0, <1>1, <2>5, <2>6, SinceShrinks
  <2>. DEFINE T == {lru[y] : y \in 2..Len(lru)}
  <2>8. T \subseteq Since(h, i)
    <3>1. p + 1 = 2 BY <2>3
    <3>. QED BY <2>4, <2>7, <3>1
  <2>9. IsFiniteSet(T) /\ Cardinality(T) = Len(lru) + 1 - 2
    <3>1. \A u, v \in 2..Len(lru) : u # v => lru[u] # lru[v] BY <1>0 DEF Distinct
    <3>2. 2 <= Len(lru) + 1 BY <1>0, <2>1
    <3>. QED BY <1>0, <3>1, <3>2, Several
  <2>10. s \notin T BY <1>0, <2>3 DEF ToSet
  <2>. HIDE DEF T
  <2>11. IsFiniteSet(T \cup {s}) /\ Cardinality(T \cup {s}) = Cardinality(T) + 1
    BY <2>9, <2>10, FS_AddElement
  <2>12. Cardinality(T \cup {s}) <= Cardinality(Since(g, i))
    BY <1>2, <1>3, <2>8, FS_Subset
  <2>13. Cardinality(T \cup {s}) = MaxSources
    <3>1. \A m \in Nat : m + 1 - 2 + 1 = m OBVIOUS
    <3>2. Cardinality(T \cup {s}) = Len(lru) + 1 - 2 + 1 BY <2>9, <2>11
    <3>. QED BY <1>0, <2>3, <3>1, <3>2
  <2>. QED BY <1>0, <1>3, <2>12, <2>13
<1>. QED BY <1>4, <1>5

\* The cache stays in step with the history.
LEMMA CacheStep ==
    ASSUME NEW h, NEW g, NEW s, Grows(g, h, s), Cache(lru, h)
    PROVE  Cache(MostRecent(s), g)
<1>0. /\ Len(h) \in Nat /\ h \in Seq(Record) /\ s \in Sources /\ Len(lru) <= MaxSources
      /\ lru \in Seq(Sources) /\ Len(lru) \in Nat /\ DOMAIN lru = 1..Len(lru) /\ Distinct(lru)
  BY History, SeqBasics DEF Cache, Grows
<1>1. PICK b, at : MostRecent(s) = Append(b, s) /\ Left(b, at, s)
  BY <1>0, MakesRoom
<1>. DEFINE q == Append(b, s)
<1>2. /\ q \in Seq(Sources) /\ Len(q) = Len(b) + 1 /\ DOMAIN q = 1..(Len(b) + 1)
      /\ DOMAIN b = 1..Len(b) /\ Len(b) \in Nat
      /\ \A i \in 1..Len(b) : q[i] = b[i]
      /\ q[Len(b) + 1] = s
  <2>1. b \in Seq(Sources) BY <1>1 DEF Left
  <2>. QED BY <1>0, <2>1, Extend
<1>3. Len(q) <= MaxSources /\ ToSet(q) = (ToSet(lru) \ Forgotten(s)) \cup {s}
  BY <1>0, <1>1, TrackedAfter
<1>. HIDE DEF q
<1>4. \A i \in DOMAIN q : i \in DOMAIN b \/ i = Len(b) + 1
  BY <1>2
<1>5. Distinct(q)
  <2>1. \A i \in DOMAIN b : b[i] # s BY <1>1 DEF Left, Leaving
  <2>2. ASSUME NEW i \in DOMAIN b, NEW j \in DOMAIN b, i # j PROVE b[i] # b[j]
    <3>1. at[i] \in DOMAIN lru /\ at[j] \in DOMAIN lru /\ b[i] = lru[at[i]] /\ b[j] = lru[at[j]]
      BY <1>1 DEF Left
    <3>2. at[i] \in Nat /\ at[j] \in Nat BY <1>0, <3>1
    <3>3. i < j \/ j < i BY <1>2, <2>2
    <3>4. at[i] < at[j] \/ at[j] < at[i] BY <1>1, <3>3 DEF Left
    <3>5. at[i] # at[j] BY <3>2, <3>4
    <3>. QED BY <1>0, <3>1, <3>5 DEF Distinct
  <2>3. \A i \in DOMAIN b : q[i] = b[i] BY <1>2
  <2>. QED BY <1>2, <1>4, <2>1, <2>2, <2>3 DEF Distinct
<1>6. ASSUME NEW p \in DOMAIN q
      PROVE  \E i \in Of(q[p], g) : Since(g, i) = {q[x] : x \in p + 1..Len(q)}
  <2>1. CASE p \in DOMAIN b
    <3>1. PICK i \in Of(b[p], g) : Since(g, i) = {b[y] : y \in p + 1..Len(b)} \cup {s}
      BY <1>1, <2>1, PlaceKept
    <3>2. p + 1..Len(q) = (p + 1..Len(b)) \cup {Len(b) + 1} BY <1>2, <2>1
    <3>3. \A y \in p + 1..Len(b) : q[y] = b[y] BY <1>2, <2>1
    <3>4. {q[x] : x \in p + 1..Len(q)} = {b[y] : y \in p + 1..Len(b)} \cup {s}
      BY <1>2, <3>2, <3>3
    <3>5. q[p] = b[p] BY <1>2, <2>1
    <3>. QED BY <3>1, <3>4, <3>5
  <2>2. CASE p = Len(b) + 1
    <3>1. p + 1..Len(q) = {} BY <1>2, <2>2
    <3>2. Len(h) + 1 \in Of(s, g) /\ Len(h) + 1 \in Nat BY <1>0, OfGrows
    <3>3. Since(g, Len(h) + 1) = {} BY <3>2, BetweenGrows
    <3>4. q[p] = s BY <1>2, <2>2
    <3>. QED BY <3>1, <3>2, <3>3, <3>4
  <2>. QED BY <1>4, <2>1, <2>2
<1>7. ASSUME NEW x \in Sources \ ToSet(q), NEW i \in Of(x, g)
      PROVE  Cardinality(Since(g, i)) >= MaxSources
  BY <1>3, OthersSeen
<1>8. Cache(q, g)
  BY <1>2, <1>3, <1>5, <1>6, <1>7, Zenon DEF Cache
<1>. QED BY <1>1, <1>8 DEF q

-----------------------------------------------------------------------------
(* Who is remembered.                                                       *)

\* An event changes nothing for the other sources.
LEMMA AliveOther ==
    ASSUME NEW h, NEW g, NEW s, Grows(g, h, s), NEW x, x # s, NEW i
    PROVE  Alive(x, g, i) <=> Alive(x, h, i)
<1>1. Of(x, g) = Of(x, h)
  BY OfGrows
<1>2. ASSUME NEW j \in Of(x, h), NEW k \in Of(x, h) PROVE Between(g, j, k) = Between(h, j, k)
  <2>1. j \in Nat /\ k \in 1..Len(h) BY OfGrows
  <2>2. k \in 0..(Len(h) + 1) BY <2>1
  <2>. QED BY <2>1, <2>2, BetweenGrows
<1>. QED BY <1>1, <1>2 DEF Alive

\* What a source had is remembered exactly when the cache still tracks it.
LEMMA AliveSame ==
    ASSUME NEW h, NEW g, NEW s, Grows(g, h, s), Cache(lru, h), NEW i \in Of(s, h)
    PROVE  Alive(s, g, i) <=> Alive(s, h, i) /\ s \in ToSet(lru)
<1>0. /\ Len(h) \in Nat /\ h \in Seq(Record) /\ s \in Sources /\ Len(lru) <= MaxSources
      /\ lru \in Seq(Sources) /\ Len(lru) \in Nat /\ DOMAIN lru = 1..Len(lru) /\ Distinct(lru)
      /\ MaxSources \in Nat
  BY History, SeqBasics, RuleAssumption DEF Cache, Grows
<1>. DEFINE n == Len(h) + 1
<1>1. /\ Of(s, g) = Of(s, h) \cup {n} /\ n \in Nat
      /\ \A j \in Of(s, h) : j \in 1..Len(h) /\ j \in Nat /\ j < n
  BY <1>0, OfGrows
<1>2. \A j \in Of(s, h) : Between(g, j, n) = Since(h, j)
  <2>1. n \in 0..(Len(h) + 1) BY <1>0
  <2>. QED BY <1>1, <2>1, BetweenGrows DEF Since
<1>3. \A j, k \in Of(s, h) : Between(g, j, k) = Between(h, j, k)
  <2>1. \A k \in Of(s, h) : k \in 0..(Len(h) + 1) BY <1>0, <1>1
  <2>. QED BY <1>1, <2>1, BetweenGrows
<1>. HIDE DEF n
<1>4. ASSUME Alive(s, g, i) PROVE Alive(s, h, i)
  <2>1. SUFFICES ASSUME NEW j \in Of(s, h), NEW k \in Of(s, h), i <= j, j < k,
                        \A x \in Of(s, h) : ~(j < x /\ x < k)
                 PROVE  Cardinality(Between(h, j, k)) < MaxSources
    BY DEF Alive
  <2>2. ~(n < k) BY <1>1
  <2>3. \A x \in Of(s, g) : ~(j < x /\ x < k) BY <1>1, <2>1, <2>2
  <2>4. j \in Of(s, g) /\ k \in Of(s, g) BY <1>1
  <2>. QED BY <1>3, <1>4, <2>1, <2>3, <2>4 DEF Alive
<1>5. ASSUME Alive(s, g, i), s \notin ToSet(lru) PROVE FALSE
  <2>1. Of(s, h) \subseteq 1..Len(h) /\ Of(s, h) # {} BY <1>1
  <2>2. PICK j \in Of(s, h) : \A y \in Of(s, h) : y <= j BY <1>0, <2>1, Greatest
  <2>3. i <= j /\ j < n /\ j \in Of(s, g) /\ n \in Of(s, g) BY <1>1, <2>2
  <2>4. \A x \in Of(s, g) : ~(j < x /\ x < n) BY <1>1, <2>2
  <2>5. Cardinality(Between(g, j, n)) < MaxSources BY <1>5, <2>3, <2>4 DEF Alive
  <2>6. Cardinality(Since(h, j)) >= MaxSources BY <1>0, <1>5 DEF Cache
  <2>7. Cardinality(Since(h, j)) \in Nat BY <1>0, <1>1, SinceShrinks
  <2>. QED BY <1>0, <1>2, <2>5, <2>6, <2>7
<1>6. ASSUME Alive(s, h, i), s \in ToSet(lru) PROVE Alive(s, g, i)
  <2>1. SUFFICES ASSUME NEW j \in Of(s, g), NEW k \in Of(s, g), i <= j, j < k,
                        \A x \in Of(s, g) : ~(j < x /\ x < k)
                 PROVE  Cardinality(Between(g, j, k)) < MaxSources
    BY DEF Alive
  <2>2. j \in Of(s, h)
    <3>1. \A x \in Of(s, g) : x \in Nat /\ x <= n BY <1>1
    <3>2. j # n BY <1>1, <2>1, <3>1
    <3>. QED BY <1>1, <3>2
  <2>3. CASE k \in Of(s, h)
    <3>1. \A x \in Of(s, h) : ~(j < x /\ x < k) BY <1>1, <2>1
    <3>2. Cardinality(Between(h, j, k)) < MaxSources BY <1>6, <2>1, <2>2, <2>3, <3>1 DEF Alive
    <3>. QED BY <1>3, <2>2, <2>3, <3>2
  <2>4. CASE k = n
    <3>1. PICK p \in DOMAIN lru : lru[p] = s BY <1>6 DEF ToSet
    <3>2. PICK l \in Of(lru[p], h) : Since(h, l) = {lru[y] : y \in p + 1..Len(lru)}
      BY <3>1 DEF Cache
    <3>3. j <= l BY <1>0, <2>2, <3>1, <3>2, LatestOf
    <3>4. l \in Of(s, h) BY <3>1, <3>2
    <3>5. ~(j < l) BY <1>1, <2>1, <2>4, <3>4
    <3>6. j = l BY <1>1, <2>2, <3>3, <3>4, <3>5
    <3>7. Cardinality({lru[y] : y \in p + 1..Len(lru)}) = Len(lru) + 1 - (p + 1)
      <4>1. \A x, y \in p + 1..Len(lru) : x # y => lru[x] # lru[y] BY <1>0, <3>1 DEF Distinct
      <4>2. p + 1 \in Nat /\ p + 1 <= Len(lru) + 1 BY <1>0, <3>1
      <4>. QED BY <1>0, <4>1, <4>2, Several
    <3>8. \A a, m, z \in Nat : z >= 1 /\ a <= m => a + 1 - (z + 1) < m OBVIOUS
    <3>9. p \in Nat /\ p >= 1 BY <1>0, <3>1
    <3>10. Len(lru) + 1 - (p + 1) < MaxSources BY <1>0, <3>8, <3>9
    <3>. QED BY <1>2, <2>2, <2>4, <3>2, <3>6, <3>7, <3>10
  <2>. QED BY <1>1, <2>3, <2>4
<1>. QED BY <1>4, <1>5, <1>6

\* A new event is remembered.
LEMMA AliveNew ==
    ASSUME NEW h, NEW g, NEW s, Grows(g, h, s)
    PROVE  Alive(s, g, Len(h) + 1)
<1>1. Len(h) \in Nat
  BY SeqBasics DEF Grows
<1>2. \A j \in Of(s, g) : j \in Nat /\ j <= Len(h) + 1
  <2>1. Of(s, g) = Of(s, h) \cup {Len(h) + 1} BY OfGrows
  <2>2. \A j \in Of(s, h) : j \in Nat /\ j < Len(h) + 1 BY OfGrows
  <2>. QED BY <1>1, <2>1, <2>2
<1>3. \A j, k \in Of(s, g) : ~(Len(h) + 1 <= j /\ j < k)
  BY <1>1, <1>2
<1>. QED BY <1>3 DEF Alive

\* With an event all later ones of its source are remembered.
LEMMA AliveLater ==
    ASSUME NEW h \in Seq(Record), NEW s, NEW i \in Of(s, h), NEW j \in Of(s, h), i <= j,
           Alive(s, h, i)
    PROVE  Alive(s, h, j)
<1>1. \A k \in Of(s, h) : k \in Nat
  BY History
<1>2. \A k \in Of(s, h) : j <= k => i <= k
  BY <1>1
<1>. QED BY <1>2 DEF Alive

\* The detector counts as this module does.
LEMMA SameCardinality == \A S : Detector!Cardinality(S) = Cardinality(S)
BY DEF Detector!Cardinality, Cardinality

\* The detector says it with the next event of the source.
LEMMA RememberedIs ==
    ASSUME NEW h \in Seq(Record), NEW s, Len(h) \in Of(s, h), NEW i \in Of(s, h)
    PROVE  Detector!Remembered(s, h, i) <=> Alive(s, h, i)
<1>1. Len(h) \in Nat /\ \A j \in Of(s, h) : j \in Nat /\ j <= Len(h)
  BY History
<1>. DEFINE later(j) == {k \in Of(s, h) : k > j}
            next(j) == CHOOSE k \in later(j) : \A x \in later(j) : k <= x
<1>2. Detector!EventsOf(s, h) = Of(s, h)
  BY DEF Detector!EventsOf, Of
<1>3. Detector!Remembered(s, h, i) <=>
          \A j \in Of(s, h) : j >= i /\ j # Len(h) => Cardinality(Between(h, j, next(j))) < MaxSources
  BY SameCardinality DEF Detector!Remembered, Detector!EventsOf, Of, Between
<1>4. ASSUME NEW j \in Of(s, h), j # Len(h)
      PROVE  /\ next(j) \in Of(s, h) /\ j < next(j)
             /\ \A x \in Of(s, h) : ~(j < x /\ x < next(j))
  <2>1. later(j) \subseteq Nat /\ later(j) # {}
    <3>1. Len(h) > j BY <1>1, <1>4
    <3>. QED BY <1>1, <3>1
  <2>2. \E k \in later(j) : \A x \in later(j) : k <= x
    <3>. HIDE DEF later
    <3>. QED BY <2>1, Least
  <2>3. next(j) \in later(j) /\ \A x \in later(j) : next(j) <= x
    <3>. HIDE DEF later
    <3>. QED BY <2>2
  <2>. HIDE DEF next
  <2>4. next(j) \in Of(s, h) /\ next(j) > j BY <2>3
  <2>5. \A x \in Of(s, h) : ~(j < x /\ x < next(j))
    <3>1. \A x \in Of(s, h) : x > j => next(j) <= x BY <2>3
    <3>. QED BY <1>1, <2>4, <3>1
  <2>. QED BY <1>1, <2>4, <2>5
<1>5. ASSUME NEW j \in Of(s, h), NEW k \in Of(s, h), j < k,
             \A x \in Of(s, h) : ~(j < x /\ x < k)
      PROVE  j # Len(h) /\ k = next(j)
  <2>1. j # Len(h) BY <1>1, <1>5
  <2>2. /\ next(j) \in Of(s, h) /\ j < next(j)
        /\ \A x \in Of(s, h) : ~(j < x /\ x < next(j))
    BY <1>4, <2>1
  <2>. HIDE DEF next
  <2>3. ~(next(j) < k) /\ ~(k < next(j)) BY <1>5, <2>2
  <2>4. next(j) \in Nat /\ k \in Nat BY <1>1, <2>2
  <2>. QED BY <2>1, <2>3, <2>4
<1>. HIDE DEF next
<1>6. \A j \in Of(s, h) : j >= i <=> i <= j
  BY <1>1
<1>7. ASSUME Alive(s, h, i), NEW j \in Of(s, h), j >= i, j # Len(h)
      PROVE  Cardinality(Between(h, j, next(j))) < MaxSources
  BY <1>4, <1>6, <1>7 DEF Alive
<1>8. ASSUME \A j \in Of(s, h) : j >= i /\ j # Len(h) =>
                 Cardinality(Between(h, j, next(j))) < MaxSources
      PROVE  Alive(s, h, i)
  BY <1>5, <1>6, <1>8 DEF Alive
<1>. QED BY <1>3, <1>7, <1>8

-----------------------------------------------------------------------------
(* The windows.                                                             *)

\* What counts no more never counts again.
LEMMA GoneStays ==
    ASSUME NEW h, NEW g, NEW s, Grows(g, h, s), Cache(lru, h), NEW x, NEW i \in Of(x, h),
           Gone(x, h, i)
    PROVE  Gone(x, g, i)
<1>0. Of(x, h) \subseteq Of(x, g) /\ \A j \in Of(x, h) : g[j] = h[j]
  BY OfGrows
<1>1. CASE ~Alive(x, h, i)
  <2>1. ~Alive(x, g, i)
    <3>1. CASE x = s BY <1>1, <3>1, AliveSame
    <3>2. CASE x # s BY <1>1, <3>2, AliveOther
    <3>. QED BY <3>1, <3>2
  <2>. QED BY <2>1 DEF Gone
<1>2. CASE \E j \in Of(x, h) : h[i].ts + Window < h[j].ts
  BY <1>0, <1>2 DEF Gone
<1>3. CASE Cardinality({k \in Of(x, h) : k > i}) >= MaxEvents
  <2>. DEFINE A == {k \in Of(x, h) : k > i}
              B == {k \in Of(x, g) : k > i}
  <2>1. A \subseteq B BY <1>0
  <2>2. IsFiniteSet(B)
    <3>1. g \in Seq(Record) BY DEF Grows
    <3>2. B \subseteq 1..Len(g) /\ Len(g) \in Nat BY <3>1, History
    <3>. HIDE DEF B
    <3>3. IsFiniteSet(1..Len(g)) BY <3>2, FS_Interval
    <3>. QED BY <3>2, <3>3, FS_Subset
  <2>. HIDE DEF A, B
  <2>3. Cardinality(A) <= Cardinality(B) /\ Cardinality(A) \in Nat /\ Cardinality(B) \in Nat
    BY <2>1, <2>2, FS_Subset, FS_CardinalityType
  <2>4. Cardinality(A) >= MaxEvents BY <1>3 DEF A
  <2>5. MaxEvents \in Nat BY RuleAssumption
  <2>6. Cardinality(B) >= MaxEvents BY <2>3, <2>4, <2>5
  <2>. QED BY <2>6 DEF B, Gone
<1>. QED BY <1>1, <1>2, <1>3 DEF Gone

\* The windows of other sources stay right.
LEMMA WindowOther ==
    ASSUME NEW h, NEW g, NEW s, Grows(g, h, s), Cache(lru, h), NEW x, x # s,
           NEW es, NEW t \in BOOLEAN, NEW u \in BOOLEAN, Windowed(x, h, es, t), u => t
    PROVE  Windowed(x, g, es, u)
<1>0. Of(x, g) = Of(x, h) /\ \A j \in Of(x, h) : g[j] = h[j]
  BY OfGrows
<1>1. PICK f \in [DOMAIN es -> Of(x, h)] :
         /\ Placed(x, h, es, f)
         /\ t => \A i \in Of(x, h) : (\E p \in DOMAIN es : f[p] = i) \/ Gone(x, h, i)
  BY DEF Windowed
<1>2. Placed(x, g, es, f)
  <2>1. \A p \in DOMAIN es : f[p] \in Of(x, h) /\ g[f[p]] = h[f[p]]
    BY <1>0
  <2>2. \A p \in DOMAIN es : Alive(x, g, f[p])
    BY <1>1, AliveOther DEF Placed
  <2>. QED BY <1>0, <1>1, <2>1, <2>2 DEF Placed
<1>3. t => \A i \in Of(x, g) : (\E p \in DOMAIN es : f[p] = i) \/ Gone(x, g, i)
  BY <1>0, <1>1, GoneStays
<1>. QED BY <1>0, <1>2, <1>3 DEF Windowed

\* A window is in order of time, as the history is.
LEMMA Sorted ==
    ASSUME NEW h \in Seq(Record), InOrder(h), NEW s, NEW es \in Seq(Events), NEW f,
           Placed(s, h, es, f)
    PROVE  \A p, q \in DOMAIN es : p <= q => es[p].ts <= es[q].ts
<1>1. /\ DOMAIN es = 1..Len(es) /\ Len(es) \in Nat /\ DOMAIN h = 1..Len(h) /\ Len(h) \in Nat
      /\ Of(s, h) \subseteq 1..Len(h)
  BY History, SeqBasics
<1>2. SUFFICES ASSUME NEW p \in DOMAIN es, NEW q \in DOMAIN es, p <= q
               PROVE  es[p].ts <= es[q].ts
  OBVIOUS
<1>3. f[p] \in 1..Len(h) /\ f[q] \in 1..Len(h)
  BY <1>1 DEF Placed
<1>4. f[p] <= f[q]
  <2>1. p = q \/ p < q BY <1>1, <1>2
  <2>2. p < q => f[p] < f[q] BY DEF Placed
  <2>. QED BY <1>1, <1>3, <2>1, <2>2
<1>5. h[f[p]].ts <= h[f[q]].ts
  BY <1>1, <1>3, <1>4 DEF InOrder
<1>. QED BY <1>5 DEF Placed

\* A window that slides: all but the first d stay, and the new event comes last.
Slide(f, d, l, n) == [p \in 1..(l - d + 1) |-> IF p <= l - d THEN f[d + p] ELSE n]

\* What the new window holds.
LEMMA Slides ==
    ASSUME NEW es \in Seq(Events), NEW d \in 0..Len(es), NEW e \in Events, NEW f, NEW n,
           NEW new, new = Append(SubSeq(es, d + 1, Len(es)), e)
    PROVE  /\ new \in Seq(Events) /\ Len(new) = Len(es) - d + 1
           /\ DOMAIN new = 1..(Len(es) - d + 1) /\ DOMAIN es = 1..Len(es) /\ Len(es) \in Nat
           /\ DOMAIN Slide(f, d, Len(es), n) = DOMAIN new
           /\ \A p \in 1..(Len(es) - d) : /\ p \in DOMAIN new /\ d + p \in DOMAIN es
                                          /\ new[p] = es[d + p]
                                          /\ Slide(f, d, Len(es), n)[p] = f[d + p]
           /\ new[Len(es) - d + 1] = e /\ Slide(f, d, Len(es), n)[Len(es) - d + 1] = n
           /\ Len(es) - d + 1 \in DOMAIN new
           /\ \A p \in DOMAIN new : p \in 1..(Len(es) - d) \/ p = Len(es) - d + 1
<1>. DEFINE k == SubSeq(es, d + 1, Len(es))
            l == Len(es) - d
<1>1. /\ k \in Seq(Events) /\ Len(k) = l /\ DOMAIN es = 1..Len(es) /\ Len(es) \in Nat
      /\ \A i \in 1..l : k[i] = es[d + i]
  BY Suffix, SeqBasics
<1>2. l \in Nat /\ \A p \in 1..l : d + p \in 1..Len(es)
  <2>1. Len(es) \in Nat BY <1>1
  <2>2. \A a \in Nat : \A c \in 0..a : a - c \in Nat /\ \A p \in 1..(a - c) : c + p \in 1..a
    OBVIOUS
  <2>. QED BY <2>1, <2>2, Zenon
<1>. HIDE DEF k, l
<1>3. /\ Append(k, e) \in Seq(Events) /\ Len(Append(k, e)) = l + 1
      /\ DOMAIN Append(k, e) = 1..(l + 1)
      /\ \A i \in 1..l : Append(k, e)[i] = k[i]
      /\ Append(k, e)[l + 1] = e
  <2>1. /\ Append(k, e) \in Seq(Events) /\ Len(Append(k, e)) = Len(k) + 1
        /\ DOMAIN Append(k, e) = 1..(Len(k) + 1)
        /\ \A i \in 1..Len(k) : Append(k, e)[i] = k[i]
        /\ Append(k, e)[Len(k) + 1] = e
    BY <1>1, Extend
  <2>2. Len(k) = l BY <1>1
  <2>. QED BY <2>1, <2>2
<1>4. new = Append(k, e)
  BY DEF k
<1>5. \A p \in 1..(l + 1) : p \in 1..l \/ p = l + 1
  BY <1>2
<1>6. \A p \in 1..l : p \in 1..(l + 1) /\ p <= l
  BY <1>2
<1>7. l + 1 \in 1..(l + 1) /\ ~(l + 1 <= l)
  BY <1>2
<1>8. Slide(f, d, Len(es), n) = [p \in 1..(l + 1) |-> IF p <= l THEN f[d + p] ELSE n]
  BY DEF Slide, l
<1>9. /\ DOMAIN Slide(f, d, Len(es), n) = 1..(l + 1)
      /\ \A p \in 1..l : Slide(f, d, Len(es), n)[p] = f[d + p]
      /\ Slide(f, d, Len(es), n)[l + 1] = n
  BY <1>6, <1>7, <1>8
<1>10. Len(new) = l + 1 /\ DOMAIN new = 1..(l + 1) /\ new \in Seq(Events) /\ new[l + 1] = e
  BY <1>3, <1>4
<1>11. \A p \in 1..l : p \in DOMAIN new /\ d + p \in DOMAIN es /\ new[p] = es[d + p]
  BY <1>1, <1>2, <1>3, <1>4, <1>6
<1>. QED BY <1>1, <1>5, <1>7, <1>9, <1>10, <1>11 DEF l

\* The new window holds the latest events again, all of them remembered.
LEMMA PlacedStep ==
    ASSUME NEW h, NEW g, NEW s, Grows(g, h, s), Cache(lru, h),
           NEW es \in Seq(Events), NEW f, Placed(s, h, es, f), es # <<>> => s \in ToSet(lru),
           NEW d \in 0..Len(es), NEW e \in Events,
           e.ts = g[Len(h) + 1].ts, e.value = g[Len(h) + 1].value,
           NEW new, new = Append(SubSeq(es, d + 1, Len(es)), e)
    PROVE  Placed(s, g, new, Slide(f, d, Len(es), Len(h) + 1))
<1>. DEFINE n == Len(h) + 1
            l == Len(es) - d
            m == Slide(f, d, Len(es), n)
<1>0. /\ DOMAIN es = 1..Len(es) /\ Len(es) \in Nat /\ l \in Nat /\ DOMAIN new = 1..(l + 1)
      /\ DOMAIN m = DOMAIN new
      /\ \A p \in 1..l : p \in DOMAIN new /\ d + p \in DOMAIN es /\ new[p] = es[d + p] /\ m[p] = f[d + p]
      /\ new[l + 1] = e /\ m[l + 1] = n /\ l + 1 \in DOMAIN new
      /\ \A p \in DOMAIN new : p \in 1..l \/ p = l + 1
  <2>1. Len(es) \in Nat BY SeqBasics
  <2>2. l \in Nat BY <2>1
  <2>. QED BY <2>2, Slides
<1>1. /\ Len(h) \in Nat /\ n \in Nat /\ Of(s, g) = Of(s, h) \cup {n}
      /\ \A i \in Of(s, h) : i \in 1..Len(h) /\ i \in Nat /\ i < n /\ g[i] = h[i]
  <2>1. Len(h) \in Nat BY SeqBasics DEF Grows
  <2>. QED BY <2>1, OfGrows
<1>2. m = [p \in DOMAIN m |-> m[p]]
  BY DEF Slide
<1>a. d \in Nat
  OBVIOUS
<1>b. e.ts = g[n].ts /\ e.value = g[n].value
  OBVIOUS
<1>. HIDE DEF m, n, l
<1>3. \A p \in 1..l : f[d + p] \in Of(s, h)
  BY <1>0 DEF Placed
<1>4. m \in [DOMAIN new -> Of(s, g)]
  <2>1. \A p \in DOMAIN new : m[p] \in Of(s, g) BY <1>0, <1>1, <1>3
  <2>. QED BY <1>0, <1>2, <2>1
<1>5. ASSUME NEW p \in DOMAIN new PROVE new[p].ts = g[m[p]].ts /\ new[p].value = g[m[p]].value
  <2>1. CASE p \in 1..l
    <3>1. new[p] = es[d + p] /\ m[p] = f[d + p] /\ d + p \in DOMAIN es BY <1>0, <2>1
    <3>2. g[f[d + p]] = h[f[d + p]] BY <1>1, <1>3, <2>1
    <3>. QED BY <3>1, <3>2 DEF Placed
  <2>2. CASE p = l + 1
    BY <1>0, <1>b, <2>2
  <2>. QED BY <1>0, <2>1, <2>2
<1>6. ASSUME NEW p \in DOMAIN new, NEW q \in DOMAIN new, p < q PROVE m[p] < m[q]
  <2>1. p \in 1..l BY <1>0, <1>6
  <2>2. CASE q \in 1..l
    <3>1. d + p < d + q BY <1>a, <1>6, <2>1, <2>2
    <3>2. f[d + p] < f[d + q] BY <1>0, <2>1, <2>2, <3>1 DEF Placed
    <3>. QED BY <1>0, <2>1, <2>2, <3>2
  <2>3. CASE q = l + 1
    <3>1. f[d + p] < n BY <1>1, <1>3, <2>1
    <3>. QED BY <1>0, <2>1, <2>3, <3>1
  <2>. QED BY <1>0, <2>2, <2>3
<1>7. ASSUME NEW p \in DOMAIN new, NEW i \in Of(s, g), m[p] <= i
      PROVE  \E q \in DOMAIN new : m[q] = i
  <2>1. CASE i = n
    BY <1>0, <2>1
  <2>2. CASE i \in Of(s, h)
    <3>1. p \in 1..l
      <4>1. ~(n <= i) BY <1>1, <2>2
      <4>. QED BY <1>0, <1>7, <4>1
    <3>2. f[d + p] <= i BY <1>0, <1>7, <3>1
    <3>3. PICK q \in DOMAIN es : f[q] = i BY <1>0, <2>2, <3>1, <3>2 DEF Placed
    <3>4. ~(q < d + p)
      <4>1. q < d + p => f[q] < f[d + p] BY <1>0, <3>1, <3>3 DEF Placed
      <4>2. f[d + p] \in Nat /\ i \in Nat BY <1>1, <1>3, <2>2, <3>1
      <4>. QED BY <3>2, <3>3, <4>1, <4>2
    <3>5. q - d \in 1..l /\ d + (q - d) = q
      <4>1. Len(es) = d + l BY <1>0, <1>a DEF l
      <4>2. q \in Nat /\ q <= d + l BY <1>0, <4>1
      <4>3. p \in Nat /\ p >= 1 BY <3>1
      <4>4. \A a, b, c, z \in Nat : a <= b + c /\ ~(a < b + z) /\ z >= 1 => a - b \in 1..c /\ b + (a - b) = a
        OBVIOUS
      <4>. QED BY <1>0, <1>a, <3>4, <4>2, <4>3, <4>4, Zenon
    <3>6. m[q - d] = f[d + (q - d)] /\ q - d \in DOMAIN new BY <1>0, <3>5
    <3>7. m[q - d] = i BY <3>3, <3>5, <3>6
    <3>. QED BY <3>6, <3>7
  <2>. QED BY <1>1, <2>1, <2>2
<1>8. ASSUME NEW p \in DOMAIN new PROVE Alive(s, g, m[p])
  <2>1. CASE p \in 1..l
    <3>1. m[p] = f[d + p] /\ d + p \in DOMAIN es /\ f[d + p] \in Of(s, h) BY <1>0, <1>3, <2>1
    <3>2. Alive(s, h, f[d + p]) BY <3>1 DEF Placed
    <3>3. es # <<>> BY <3>1
    <3>. QED BY <3>1, <3>2, <3>3, AliveSame
  <2>2. CASE p = l + 1
    BY <1>0, <2>2, AliveNew DEF n
  <2>. QED BY <1>0, <2>1, <2>2
<1>9. Placed(s, g, new, m)
  BY <1>4, <1>5, <1>6, <1>7, <1>8 DEF Placed
<1>. QED BY <1>9 DEF m, n

\* And what it dropped counts no more.
LEMMA DroppedGone ==
    ASSUME NEW h, NEW g, NEW s, Grows(g, h, s), Cache(lru, h),
           NEW es \in Seq(Events), Len(es) <= MaxEvents, NEW f, Placed(s, h, es, f),
           NEW d \in 0..Len(es), NEW e \in Events, e.ts = g[Len(h) + 1].ts,
           NEW new, new = Append(SubSeq(es, d + 1, Len(es)), e),
           Placed(s, g, new, Slide(f, d, Len(es), Len(h) + 1)),
           NEW p \in 1..d, Stale(es[p], e.ts) \/ (Len(es) = MaxEvents /\ p = 1 /\ d = 1)
    PROVE  f[p] \in Of(s, h) /\ Gone(s, g, f[p])
<1>. DEFINE n == Len(h) + 1
            m == Slide(f, d, Len(es), n)
            i == f[p]
<1>0. /\ DOMAIN es = 1..Len(es) /\ Len(es) \in Nat /\ p \in DOMAIN es
  <2>1. DOMAIN es = 1..Len(es) /\ Len(es) \in Nat BY SeqBasics
  <2>. QED BY <2>1
<1>1. i \in Of(s, h) /\ i \in Of(s, g) /\ i \in Nat /\ i < n /\ g[i] = h[i] /\ n \in Of(s, g)
  <2>1. i \in Of(s, h) BY <1>0 DEF Placed
  <2>. QED BY <2>1, OfGrows
<1>4. /\ \A x \in 1..(Len(es) - d) : m[x] = f[d + x] /\ d + x \in DOMAIN es
      /\ m[Len(es) - d + 1] = n
      /\ \A x \in DOMAIN new : x \in 1..(Len(es) - d) \/ x = Len(es) - d + 1
  BY Slides
<1>. HIDE DEF m
<1>2. CASE Stale(es[p], e.ts)
  <2>1. h[i].ts + Window < g[n].ts BY <1>0, <1>2 DEF Placed, Stale
  <2>. QED BY <1>1, <2>1 DEF Gone
<1>3. CASE Len(es) = MaxEvents /\ p = 1 /\ d = 1
  <2>1. MaxEvents \in Nat BY RuleAssumption
  <2>2. /\ DOMAIN new = 1..MaxEvents /\ m \in [DOMAIN new -> Of(s, g)]
        /\ \A x, y \in DOMAIN new : x < y => m[x] < m[y]
    <3>1. DOMAIN new = 1..(Len(es) - d + 1) BY Slides
    <3>2. Len(es) - d + 1 = MaxEvents BY <1>3, <2>1
    <3>. QED BY <3>1, <3>2 DEF Placed, m
  <2>3. \A x \in DOMAIN new : m[x] \in Of(s, g) /\ m[x] \in Nat
    <3>1. g \in Seq(Record) BY DEF Grows
    <3>2. \A x \in Of(s, g) : x \in Nat BY <3>1, History
    <3>. QED BY <2>2, <3>2
  <2>4. \A x, y \in 1..MaxEvents : x # y => m[x] # m[y]
    <3>1. SUFFICES ASSUME NEW x \in 1..MaxEvents, NEW y \in 1..MaxEvents, x # y PROVE m[x] # m[y]
      OBVIOUS
    <3>2. x < y \/ y < x BY <2>1, <3>1
    <3>3. m[x] < m[y] \/ m[y] < m[x] BY <2>2, <3>2
    <3>4. m[x] \in Nat /\ m[y] \in Nat BY <2>2, <2>3
    <3>. QED BY <3>3, <3>4
  <2>5. \A x \in DOMAIN new : i < m[x]
    <3>1. SUFFICES ASSUME NEW x \in DOMAIN new PROVE i < m[x] OBVIOUS
    <3>2. CASE x \in 1..(Len(es) - d)
      <4>1. m[x] = f[d + x] /\ d + x \in DOMAIN es BY <1>4, <3>2
      <4>2. p < d + x BY <1>3, <3>2
      <4>. QED BY <1>0, <4>1, <4>2 DEF Placed
    <3>3. CASE x = Len(es) - d + 1
      <4>1. m[x] = n BY <1>4, <3>3
      <4>. QED BY <1>1, <4>1
    <3>4. x \in 1..(Len(es) - d) \/ x = Len(es) - d + 1 BY <1>4
    <3>. QED BY <3>2, <3>3, <3>4
  <2>. DEFINE A == {m[x] : x \in 1..MaxEvents}
              B == {k \in Of(s, g) : k > i}
  <2>6. IsFiniteSet(A) /\ Cardinality(A) = MaxEvents + 1 - 1
    <3>1. 1 \in Nat /\ 1 <= MaxEvents + 1 BY <2>1
    <3>. QED BY <2>1, <2>4, <3>1, Several
  <2>7. A \subseteq B
    <3>1. \A x \in 1..MaxEvents : m[x] \in Of(s, g) /\ m[x] > i BY <1>1, <2>2, <2>3, <2>5
    <3>. QED BY <3>1
  <2>8. IsFiniteSet(B)
    <3>1. g \in Seq(Record) BY DEF Grows
    <3>2. B \subseteq 1..Len(g) /\ Len(g) \in Nat BY <3>1, History
    <3>3. IsFiniteSet(1..Len(g)) BY <3>2, FS_Interval
    <3>. HIDE DEF B
    <3>. QED BY <3>2, <3>3, FS_Subset
  <2>. HIDE DEF A, B
  <2>9. Cardinality(A) <= Cardinality(B) /\ Cardinality(B) \in Nat
    BY <2>7, <2>8, FS_Subset, FS_CardinalityType
  <2>10. Cardinality(B) >= MaxEvents BY <2>1, <2>6, <2>9
  <2>. QED BY <1>1, <2>10 DEF B, Gone
<1>. QED BY <1>2, <1>3

\* Kept and the new event make the new window: within its limit, nothing stale, nothing missing.
LEMMA WindowSame ==
    ASSUME NEW h, NEW g, NEW s, Grows(g, h, s), Cache(lru, h), InOrder(h),
           NEW es \in Seq(Events), Len(es) <= MaxEvents, Windowed(s, h, es, s \in ToSet(lru)),
           es # <<>> => s \in ToSet(lru),
           NEW e \in Events, e.ts = g[Len(h) + 1].ts, e.value = g[Len(h) + 1].value,
           NEW new, new = Append(Kept(es, e.ts), e)
    PROVE  /\ new \in Seq(Events) /\ Len(new) <= MaxEvents /\ Windowed(s, g, new, TRUE)
           /\ \A p \in DOMAIN new : ~Stale(new[p], e.ts)
           /\ Kept(es, e.ts) \in Seq(Events)
           /\ \A v \in Values : Occurrences(Kept(es, e.ts), v) <= Occurrences(es, v)
<1>0. e.ts \in Nat /\ h \in Seq(Record) /\ MaxEvents \in Nat /\ Window \in Nat
  <2>1. e.ts \in 0..MaxTime /\ MaxTime \in Nat BY RuleAssumption DEF Events
  <2>. QED BY <2>1, RuleAssumption DEF Grows
<1>1. PICK f \in [DOMAIN es -> Of(s, h)] :
         /\ Placed(s, h, es, f)
         /\ s \in ToSet(lru) => \A i \in Of(s, h) : (\E p \in DOMAIN es : f[p] = i) \/ Gone(s, h, i)
  BY DEF Windowed
<1>2. PICK d \in 0..Len(es) :
         /\ Kept(es, e.ts) = SubSeq(es, d + 1, Len(es)) /\ Len(es) - d < MaxEvents
         /\ \A p \in 1..d : Stale(es[p], e.ts) \/ (Len(es) = MaxEvents /\ p = 1 /\ d = 1)
         /\ (\A p, q \in DOMAIN es : p <= q => es[p].ts <= es[q].ts) =>
               \A p \in d + 1..Len(es) : ~Stale(es[p], e.ts)
  BY <1>0, KeptIs
<1>3. \A p \in d + 1..Len(es) : ~Stale(es[p], e.ts)
  BY <1>0, <1>1, <1>2, Sorted
<1>. DEFINE n == Len(h) + 1
            l == Len(es) - d
            m == Slide(f, d, Len(es), n)
<1>4. new = Append(SubSeq(es, d + 1, Len(es)), e)
  BY <1>2
<1>5. /\ new \in Seq(Events) /\ Len(new) = l + 1
      /\ DOMAIN es = 1..Len(es) /\ Len(es) \in Nat /\ l \in Nat
      /\ \A p \in 1..l : p \in DOMAIN new /\ d + p \in DOMAIN es /\ new[p] = es[d + p] /\ m[p] = f[d + p]
      /\ new[l + 1] = e /\ m[l + 1] = n /\ l + 1 \in DOMAIN new
      /\ \A p \in DOMAIN new : p \in 1..l \/ p = l + 1
  <2>1. Len(es) \in Nat BY SeqBasics
  <2>2. l \in Nat BY <2>1
  <2>. QED BY <1>4, <2>2, Slides
<1>6. Placed(s, g, new, m)
  BY <1>1, <1>4, PlacedStep
<1>7. Of(s, g) = Of(s, h) \cup {n}
  BY OfGrows
<1>8. ASSUME NEW i \in Of(s, g) PROVE (\E p \in DOMAIN new : m[p] = i) \/ Gone(s, g, i)
  <2>. HIDE DEF m
  <2>1. CASE i = n
    BY <1>5, <2>1
  <2>2. CASE i \in Of(s, h) /\ s \notin ToSet(lru)
    BY <2>2, AliveSame DEF Gone
  <2>3. CASE i \in Of(s, h) /\ s \in ToSet(lru) /\ Gone(s, h, i)
    BY <2>3, GoneStays
  <2>4. ASSUME NEW p \in DOMAIN es, f[p] = i PROVE (\E q \in DOMAIN new : m[q] = i) \/ Gone(s, g, i)
    <3>1. CASE p \in 1..d
      <4>1. Stale(es[p], e.ts) \/ (Len(es) = MaxEvents /\ p = 1 /\ d = 1) BY <1>2, <3>1
      <4>. QED BY <1>1, <1>4, <1>6, <2>4, <3>1, <4>1, DroppedGone DEF m
    <3>2. CASE p \in d + 1..Len(es)
      <4>1. p - d \in 1..l /\ d + (p - d) = p
        <5>1. \A a \in Nat : \A c \in 0..a : \A q \in c + 1..a : q - c \in 1..(a - c) /\ c + (q - c) = q
          OBVIOUS
        <5>. QED BY <1>5, <3>2, <5>1, Zenon
      <4>2. p - d \in DOMAIN new /\ m[p - d] = f[d + (p - d)] BY <1>5, <4>1
      <4>. QED BY <2>4, <4>1, <4>2
    <3>3. p \in 1..d \/ p \in d + 1..Len(es) BY <1>5
    <3>. QED BY <3>1, <3>2, <3>3
  <2>. QED BY <1>1, <1>7, <2>1, <2>2, <2>3, <2>4
<1>9. Windowed(s, g, new, TRUE)
  <2>1. m \in [DOMAIN new -> Of(s, g)] BY <1>6 DEF Placed
  <2>. HIDE DEF m
  <2>. QED BY <1>6, <1>8, <2>1, Zenon DEF Windowed
<1>. HIDE DEF m, n
<1>10. ASSUME NEW p \in DOMAIN new PROVE ~Stale(new[p], e.ts)
  <2>1. CASE p \in 1..l
    <3>1. d + p \in d + 1..Len(es) BY <1>5, <2>1
    <3>. QED BY <1>3, <1>5, <2>1, <3>1
  <2>2. CASE p = l + 1
    <3>1. ~(e.ts + Window < e.ts) BY <1>0
    <3>2. new[p] = e BY <1>5, <2>2
    <3>. QED BY <3>1, <3>2 DEF Stale
  <2>. QED BY <1>5, <2>1, <2>2
<1>11. Len(new) <= MaxEvents
  <2>1. l < MaxEvents BY <1>2
  <2>. HIDE DEF l
  <2>2. l \in Nat /\ Len(new) = l + 1 BY <1>5
  <2>3. \A a, b \in Nat : a < b => a + 1 <= b OBVIOUS
  <2>. QED BY <1>0, <2>1, <2>2, <2>3
<1>12. Kept(es, e.ts) \in Seq(Events) /\ \A v \in Values : Occurrences(Kept(es, e.ts), v) <= Occurrences(es, v)
  BY <1>2, Suffix, OccSuffix
<1>. QED BY <1>5, <1>9, <1>10, <1>11, <1>12

-----------------------------------------------------------------------------
(* What the rule counts is what the detector counts.                        *)

\* The events of the window are those the detector counts.
LEMMA CountingIs ==
    ASSUME NEW g \in Seq(Record), InOrder(g), NEW s, Len(g) \in Of(s, g),
           NEW new \in Seq(Events), Len(new) <= MaxEvents, NEW f, Placed(s, g, new, f),
           \A i \in Of(s, g) : (\E p \in DOMAIN new : f[p] = i) \/ Gone(s, g, i),
           \A p \in DOMAIN new : ~Stale(new[p], g[Len(g)].ts)
    PROVE  Detector!Counting(s, g) = {f[p] : p \in DOMAIN new}
<1>0. /\ Len(g) \in Nat /\ DOMAIN g = 1..Len(g) /\ Of(s, g) \subseteq 1..Len(g)
      /\ DOMAIN new = 1..Len(new) /\ Len(new) \in Nat /\ MaxEvents \in Nat /\ Window \in Nat
      /\ \A i \in Of(s, g) : g[i].ts \in Nat
      /\ f \in [DOMAIN new -> Of(s, g)]
  <2>1. Of(s, g) \subseteq DOMAIN g BY DEF Of
  <2>. QED BY <2>1, History, SeqBasics, RuleAssumption DEF Placed
<1>. DEFINE now == g[Len(g)].ts
            recent == {i \in Of(s, g) : g[i].ts + Window >= now /\ Alive(s, g, i)}
            after(i) == {k \in recent : k > i}
<1>1. Detector!Counting(s, g) = {i \in recent : Cardinality(after(i)) < MaxEvents}
  <2>1. Detector!EventsOf(s, g) = Of(s, g) BY DEF Detector!EventsOf, Of
  <2>2. recent = {i \in Of(s, g) : g[i].ts + Window >= now /\ Detector!Remembered(s, g, i)}
    BY RememberedIs
  <2>. QED BY <2>1, <2>2, SameCardinality DEF Detector!Counting
<1>2. \A i \in Of(s, g) : i \in Nat /\ i <= Len(g) /\ g[i].ts <= now /\ now \in Nat
  <2>1. \A i \in Of(s, g) : i \in Nat /\ i <= Len(g) /\ i \in DOMAIN g /\ Len(g) \in DOMAIN g BY <1>0
  <2>. QED BY <1>0, <2>1 DEF InOrder
<1>3. ASSUME NEW i \in recent, NEW k \in Of(s, g), k > i PROVE k \in recent
  <2>1. i \in Of(s, g) /\ i <= k BY <1>0, <1>2, <1>3
  <2>2. Alive(s, g, k) BY <1>3, <2>1, AliveLater
  <2>3. i \in DOMAIN g /\ k \in DOMAIN g BY <1>0, <2>1
  <2>4. g[i].ts <= g[k].ts BY <2>1, <2>3 DEF InOrder
  <2>5. g[i].ts + Window >= now BY <1>3
  <2>6. g[k].ts + Window >= now BY <1>0, <1>2, <2>1, <2>4, <2>5
  <2>. QED BY <2>2, <2>6
<1>4. \A i \in Of(s, g) : IsFiniteSet(after(i)) /\ Cardinality(after(i)) \in Nat
  <2>1. recent \subseteq 1..Len(g) BY <1>0
  <2>2. IsFiniteSet(1..Len(g)) BY <1>0, FS_Interval
  <2>3. \A i : after(i) \subseteq 1..Len(g) BY <2>1
  <2>. HIDE DEF after
  <2>. QED BY <2>2, <2>3, FS_Subset, FS_CardinalityType
<1>5. ASSUME NEW p \in DOMAIN new PROVE f[p] \in recent
  <2>1. f[p] \in Of(s, g) /\ Alive(s, g, f[p]) /\ new[p].ts = g[f[p]].ts BY <1>0 DEF Placed
  <2>2. ~(g[f[p]].ts + Window < now) BY <2>1 DEF Stale
  <2>3. g[f[p]].ts + Window >= now BY <1>0, <1>2, <2>1, <2>2
  <2>. QED BY <2>1, <2>3
<1>6. ASSUME NEW p \in DOMAIN new PROVE Cardinality(after(f[p])) < MaxEvents
  <2>. DEFINE T == {f[q] : q \in p + 1..Len(new)}
  <2>1. after(f[p]) \subseteq T
    <3>1. SUFFICES ASSUME NEW k \in Of(s, g), k > f[p] PROVE k \in T
      OBVIOUS
    <3>2. f[p] \in Of(s, g) BY <1>0
    <3>3. f[p] <= k BY <1>2, <3>1, <3>2
    <3>4. PICK q \in DOMAIN new : f[q] = k BY <3>1, <3>3 DEF Placed
    <3>5. ~(q < p) /\ q # p
      <4>1. q < p => f[q] < f[p] BY DEF Placed
      <4>. QED BY <1>2, <3>1, <3>2, <3>4, <4>1
    <3>6. q \in p + 1..Len(new) BY <1>0, <3>4, <3>5
    <3>. QED BY <3>4, <3>6
  <2>2. IsFiniteSet(T) /\ Cardinality(T) <= Len(new) - p /\ Cardinality(T) \in Nat
    <3>1. IsFiniteSet(p + 1..Len(new)) /\ Cardinality(p + 1..Len(new)) = Len(new) - p
      <4>1. p \in Nat /\ p <= Len(new) BY <1>0
      <4>2. p + 1 \in Int /\ Len(new) \in Int BY <1>0, <4>1
      <4>3. /\ IsFiniteSet(p + 1..Len(new))
            /\ Cardinality(p + 1..Len(new)) = IF p + 1 > Len(new) THEN 0 ELSE Len(new) - (p + 1) + 1
        BY <4>2, FS_Interval
      <4>4. \A a, b \in Nat : a <= b => (IF a + 1 > b THEN 0 ELSE b - (a + 1) + 1) = b - a
        OBVIOUS
      <4>. QED BY <1>0, <4>1, <4>3, <4>4
    <3>. QED BY <3>1, ImageOf
  <2>3. Cardinality(after(f[p])) <= Cardinality(T) /\ Cardinality(after(f[p])) \in Nat
    <3>. HIDE DEF T, after
    <3>. QED BY <2>1, <2>2, FS_Subset, FS_CardinalityType
  <2>. HIDE DEF T, after
  <2>4. Len(new) - p < MaxEvents BY <1>0
  <2>. QED BY <1>0, <2>2, <2>3, <2>4
<1>7. ASSUME NEW i \in recent, Cardinality(after(i)) < MaxEvents
      PROVE  \E p \in DOMAIN new : f[p] = i
  <2>1. i \in Of(s, g) /\ Alive(s, g, i) /\ g[i].ts + Window >= now BY <1>7
  <2>2. ~Gone(s, g, i)
    <3>1. ~\E j \in Of(s, g) : g[i].ts + Window < g[j].ts
      <4>1. SUFFICES ASSUME NEW j \in Of(s, g), g[i].ts + Window < g[j].ts PROVE FALSE
        OBVIOUS
      <4>. QED BY <1>0, <1>2, <2>1, <4>1
    <3>2. {k \in Of(s, g) : k > i} = after(i) BY <1>3, <1>7
    <3>3. ~(Cardinality(after(i)) >= MaxEvents)
      <4>. HIDE DEF after
      <4>. QED BY <1>0, <1>4, <1>7, <2>1
    <3>. QED BY <2>1, <3>1, <3>2, <3>3 DEF Gone
  <2>. QED BY <2>1, <2>2
<1>. HIDE DEF after, recent
<1>. QED BY <1>1, <1>5, <1>6, <1>7

\* The number a rule compares and reports is the number the detector observes.
LEMMA ObservedIs ==
    ASSUME NEW g \in Seq(Record), InOrder(g), NEW s, Len(g) \in Of(s, g),
           NEW new \in Seq(Events), Len(new) <= MaxEvents, Windowed(s, g, new, TRUE),
           \A p \in DOMAIN new : ~Stale(new[p], g[Len(g)].ts),
           NEW cs, \A v \in Values : cs[v] = Occurrences(new, v), distinct \in BOOLEAN
    PROVE  Size(new, cs) = Detector!Observed(s, g) /\ Size(new, cs) \in Nat
<1>0. DOMAIN new = 1..Len(new) /\ Len(new) \in Nat /\ \A p \in 1..Len(new) : new[p] \in Events
  BY SeqBasics
<1>1. PICK f \in [DOMAIN new -> Of(s, g)] :
         /\ Placed(s, g, new, f)
         /\ \A i \in Of(s, g) : (\E p \in DOMAIN new : f[p] = i) \/ Gone(s, g, i)
  BY DEF Windowed
<1>2. Detector!Counting(s, g) = {f[p] : p \in DOMAIN new}
  BY <1>1, CountingIs
<1>3. CASE ~distinct
  <2>1. \A p, q \in 1..Len(new) : p # q => f[p] # f[q]
    <3>1. SUFFICES ASSUME NEW p \in 1..Len(new), NEW q \in 1..Len(new), p # q PROVE f[p] # f[q]
      OBVIOUS
    <3>2. p < q \/ q < p BY <1>0, <3>1
    <3>3. f[p] < f[q] \/ f[q] < f[p] BY <1>0, <1>1, <3>2 DEF Placed
    <3>4. f[p] \in Nat /\ f[q] \in Nat
      <4>1. f[p] \in Of(s, g) /\ f[q] \in Of(s, g) BY <1>0
      <4>. QED BY <4>1, History
    <3>. QED BY <3>3, <3>4
  <2>2. 1 \in Nat /\ 1 <= Len(new) + 1 BY <1>0
  <2>3. Cardinality({f[p] : p \in 1..Len(new)}) = Len(new) + 1 - 1 BY <1>0, <2>1, <2>2, Several
  <2>4. Cardinality({f[p] : p \in 1..Len(new)}) = Len(new) BY <1>0, <2>3
  <2>5. Size(new, cs) = Len(new) BY <1>3 DEF Size
  <2>6. Detector!Observed(s, g) = Len(new) BY <1>0, <1>2, <1>3, <2>4, SameCardinality DEF Detector!Observed
  <2>. QED BY <1>0, <2>5, <2>6
<1>4. CASE distinct
  <2>. DEFINE val == [p \in DOMAIN new |-> new[p].value]
              S == {val[p] : p \in DOMAIN new}
  <2>1. IsFiniteSet(DOMAIN new) BY <1>0, FS_Interval
  <2>2. Cardinality(S) \in Nat
    <3>. HIDE DEF val
    <3>. QED BY <2>1, ImageOf
  <2>3. {g[i].value : i \in Detector!Counting(s, g)} = S
    <3>1. \A p \in DOMAIN new : g[f[p]].value = val[p] BY <1>1 DEF Placed
    <3>. HIDE DEF val
    <3>. QED BY <1>2, <3>1
  <2>4. {v \in Values : cs[v] > 0} = S
    <3>1. \A p \in DOMAIN new : new[p].value \in Values BY <1>0 DEF Events
    <3>2. \A v \in Values : cs[v] > 0 <=> \E p \in DOMAIN new : new[p].value = v BY OccType
    <3>. QED BY <3>1, <3>2
  <2>5. Size(new, cs) = Cardinality(S)
    <3>. HIDE DEF S
    <3>. QED BY <1>4, <2>4 DEF Size
  <2>6. Detector!Observed(s, g) = Cardinality(S)
    <3>. HIDE DEF S
    <3>. QED BY <1>4, <2>3, SameCardinality DEF Detector!Observed
  <2>. QED BY <2>2, <2>5, <2>6
<1>. QED BY <1>3, <1>4

-----------------------------------------------------------------------------
(* The cooldowns.                                                           *)

\* An alert points to an event.
LEMMA AlertsAt ==
    ASSUME NEW S, NEW al \in Seq([at : S, observed : Nat])
    PROVE  \A a \in DOMAIN al : al[a].at \in S
<1>. DEFINE R == [at : S, observed : Nat]
<1>1. \A a \in DOMAIN al : al[a] \in R
  <2>1. al \in Seq(R) OBVIOUS
  <2>. HIDE DEF R
  <2>. QED BY <2>1, SeqBasics
<1>2. \A r \in R : r.at \in S
  OBVIOUS
<1>. QED BY <1>1, <1>2

\* A rule cools down exactly when the detector does.
LEMMA CoolingIs ==
    ASSUME NEW h, NEW g, NEW s, Grows(g, h, s), Cache(lru, h),
           alerts \in Seq([at : DOMAIN h, observed : Nat]),
           NEW last \in Seq(0..MaxTime), s \in ToSet(lru) => Rested(s, h, alerts, last),
           s \notin ToSet(lru) => last = <<>>
    PROVE  Detector!Cooling(s, g) <=> Cooling(last, g[Len(h) + 1].ts)
<1>. DEFINE now == g[Len(h) + 1].ts
<1>0. /\ Len(h) \in Nat /\ DOMAIN h = 1..Len(h) /\ g \in Seq(Record) /\ Len(g) = Len(h) + 1
      /\ Len(g) \in Of(s, g) /\ now \in Nat /\ Cooldown \in Nat
      /\ \A i \in DOMAIN h : g[i] = h[i] /\ h[i].ts \in Nat
  <2>1. h \in Seq(Record) /\ g \in Seq(Record) /\ Len(g) = Len(h) + 1 /\ \A i \in 1..Len(h) : g[i] = h[i]
    BY DEF Grows
  <2>2. Len(h) \in Nat /\ DOMAIN h = 1..Len(h) /\ \A i \in DOMAIN h : h[i].ts \in Nat
    BY <2>1, History
  <2>3. Len(h) + 1 \in Of(s, g) BY OfGrows
  <2>4. now \in Nat
    <3>1. Len(h) + 1 \in DOMAIN g BY <2>3 DEF Of
    <3>. QED BY <2>1, <3>1, History
  <2>. QED BY <2>1, <2>2, <2>3, <2>4, RuleAssumption
<1>1. ASSUME NEW a \in DOMAIN alerts
      PROVE  /\ alerts[a].at \in DOMAIN h
             /\ g[alerts[a].at].src = s => alerts[a].at \in Of(s, h) /\ alerts[a].at \in Of(s, g)
  <2>2. alerts[a].at \in DOMAIN h BY AlertsAt
  <2>3. g[alerts[a].at].src = s => alerts[a].at \in Of(s, h) BY <1>0, <2>2 DEF Of
  <2>4. Of(s, h) \subseteq Of(s, g) BY OfGrows
  <2>. QED BY <2>2, <2>3, <2>4
<1>2. Detector!Cooling(s, g) <=>
          \E a \in DOMAIN alerts :
              /\ h[alerts[a].at].src = s /\ Alive(s, h, alerts[a].at) /\ s \in ToSet(lru)
              /\ now < h[alerts[a].at].ts + Cooldown
  <2>1. ASSUME NEW a \in DOMAIN alerts, g[alerts[a].at].src = s
        PROVE  Detector!Remembered(s, g, alerts[a].at) <=>
                   Alive(s, h, alerts[a].at) /\ s \in ToSet(lru)
    <3>1. alerts[a].at \in Of(s, h) /\ alerts[a].at \in Of(s, g) BY <1>1, <2>1
    <3>2. Detector!Remembered(s, g, alerts[a].at) <=> Alive(s, g, alerts[a].at)
      BY <1>0, <3>1, RememberedIs
    <3>. QED BY <3>1, <3>2, AliveSame
  <2>2. Detector!Cooling(s, g) <=>
          \E a \in DOMAIN alerts :
              /\ g[alerts[a].at].src = s /\ Detector!Remembered(s, g, alerts[a].at)
              /\ g[Len(g)].ts < g[alerts[a].at].ts + Cooldown
    BY DEF Detector!Cooling
  <2>3. g[Len(g)].ts = now BY <1>0
  <2>. HIDE DEF now
  <2>4. \A a \in DOMAIN alerts : g[alerts[a].at] = h[alerts[a].at] BY <1>0, <1>1
  <2>. QED BY <2>1, <2>2, <2>3, <2>4
<1>. HIDE DEF now
<1>3. CASE s \notin ToSet(lru)
  <2>1. ~Cooling(last, now) BY <1>3 DEF Cooling
  <2>. QED BY <1>2, <1>3, <2>1 DEF now
<1>4. CASE s \in ToSet(lru)
  <2>0. last # <<>> => last[1] \in Nat
    <3>1. \A i \in 1..Len(last) : last[i] \in 0..MaxTime BY SeqBasics
    <3>2. last # <<>> => 1 \in 1..Len(last) BY SeqBasics, EmptySeq
    <3>3. 0..MaxTime \subseteq Nat BY RuleAssumption
    <3>. QED BY <3>1, <3>2, <3>3
  <2>1. ASSUME Detector!Cooling(s, g) PROVE Cooling(last, now)
    <3>1. PICK a \in DOMAIN alerts :
              /\ h[alerts[a].at].src = s /\ Alive(s, h, alerts[a].at)
              /\ now < h[alerts[a].at].ts + Cooldown
      BY <1>2, <2>1
    <3>2. last # <<>> /\ h[alerts[a].at].ts <= last[1] BY <1>4, <3>1 DEF Rested
    <3>3. h[alerts[a].at].ts \in Nat BY <1>0, <1>1
    <3>4. \A x, y, z, c \in Nat : x < y + c /\ y <= z => x < z + c OBVIOUS
    <3>5. now < last[1] + Cooldown BY <1>0, <2>0, <3>1, <3>2, <3>3, <3>4
    <3>. QED BY <3>2, <3>5 DEF Cooling
  <2>2. ASSUME Cooling(last, now) PROVE Detector!Cooling(s, g)
    <3>1. last # <<>> /\ now < last[1] + Cooldown BY <2>2 DEF Cooling
    <3>. QED BY <1>2, <1>4, <3>1 DEF Rested
  <2>. QED BY <2>1, <2>2 DEF now
<1>. QED BY <1>3, <1>4

\* The cooldowns of other sources stay.
LEMMA RestedOther ==
    ASSUME NEW h, NEW g, NEW s, Grows(g, h, s), NEW x, x # s,
           NEW al \in Seq([at : DOMAIN h, observed : Nat]), NEW last, Rested(x, h, al, last),
           NEW k \in Nat,
           NEW al2, al2 = al \/ al2 = Append(al, [at |-> Len(h) + 1, observed |-> k])
    PROVE  Rested(x, g, al2, last)
<1>0. /\ DOMAIN h = 1..Len(h) /\ g[Len(h) + 1].src = s
      /\ \A i \in DOMAIN h : g[i] = h[i]
  BY SeqBasics DEF Grows
<1>1. \A a \in DOMAIN al : g[al[a].at] = h[al[a].at]
  <2>2. \A a \in DOMAIN al : al[a].at \in DOMAIN h BY AlertsAt
  <2>. QED BY <1>0, <2>2
<1>2. \A a \in DOMAIN al : a \in DOMAIN al2 /\ al2[a] = al[a]
  <2>1. /\ DOMAIN Append(al, [at |-> Len(h) + 1, observed |-> k]) = 1..(Len(al) + 1)
        /\ DOMAIN al = 1..Len(al) /\ Len(al) \in Nat
        /\ \A i \in 1..Len(al) : Append(al, [at |-> Len(h) + 1, observed |-> k])[i] = al[i]
    BY AppendProperties, LenProperties
  <2>. QED BY <2>1
<1>3. \A a \in DOMAIN al2 : a \in DOMAIN al \/ al2[a].at = Len(h) + 1
  <2>1. CASE al2 = al BY <2>1
  <2>2. CASE al2 = Append(al, [at |-> Len(h) + 1, observed |-> k])
    <3>1. /\ DOMAIN al2 = 1..(Len(al) + 1) /\ DOMAIN al = 1..Len(al) /\ Len(al) \in Nat
          /\ al2[Len(al) + 1] = [at |-> Len(h) + 1, observed |-> k]
      BY <2>2, AppendProperties, LenProperties
    <3>2. \A a \in 1..(Len(al) + 1) : a \in 1..Len(al) \/ a = Len(al) + 1 BY <3>1
    <3>. QED BY <3>1, <3>2
  <2>. QED BY <2>1, <2>2
<1>4. \A i : Alive(x, g, i) <=> Alive(x, h, i)
  BY AliveOther
<1>5. \A a \in DOMAIN al2 : g[al2[a].at].src = x => a \in DOMAIN al
  BY <1>0, <1>3
<1>. QED BY <1>1, <1>2, <1>4, <1>5 DEF Rested

\* An alert starts the cooldown of its source.
LEMMA RestedHit ==
    ASSUME NEW h, NEW g, NEW s, Grows(g, h, s), InOrder(g),
           NEW al \in Seq([at : DOMAIN h, observed : Nat]), NEW k \in Nat
    PROVE  Rested(s, g, Append(al, [at |-> Len(h) + 1, observed |-> k]), <<g[Len(h) + 1].ts>>)
<1>. DEFINE al2 == Append(al, [at |-> Len(h) + 1, observed |-> k])
<1>0. /\ Len(h) \in Nat /\ DOMAIN h = 1..Len(h) /\ DOMAIN g = 1..(Len(h) + 1)
      /\ g[Len(h) + 1].src = s
  BY SeqBasics DEF Grows
<1>1. /\ DOMAIN al2 = 1..(Len(al) + 1) /\ DOMAIN al = 1..Len(al) /\ Len(al) \in Nat
      /\ \A i \in 1..Len(al) : al2[i] = al[i]
      /\ al2[Len(al) + 1] = [at |-> Len(h) + 1, observed |-> k]
  BY AppendProperties, LenProperties
<1>. HIDE DEF al2
<1>2. \A a \in DOMAIN al2 : al2[a].at \in DOMAIN g /\ al2[a].at <= Len(h) + 1
  <2>2. \A a \in DOMAIN al : al[a].at \in DOMAIN h BY AlertsAt
  <2>3. \A i \in DOMAIN h : i \in DOMAIN g /\ i <= Len(h) + 1 BY <1>0
  <2>4. Len(h) + 1 \in DOMAIN g /\ Len(h) + 1 <= Len(h) + 1 BY <1>0
  <2>5. \A a \in DOMAIN al2 : a \in DOMAIN al \/ a = Len(al) + 1 BY <1>1
  <2>6. \A a \in DOMAIN al : al2[a] = al[a] BY <1>1
  <2>. QED BY <1>1, <2>2, <2>3, <2>4, <2>5, <2>6
<1>3. \A a \in DOMAIN al2 : g[al2[a].at].ts <= g[Len(h) + 1].ts
  <2>1. Len(h) + 1 \in DOMAIN g BY <1>0
  <2>. QED BY <1>2, <2>1 DEF InOrder
<1>4. Alive(s, g, Len(h) + 1)
  BY AliveNew
<1>5. Len(al) + 1 \in DOMAIN al2 /\ al2[Len(al) + 1].at = Len(h) + 1
  BY <1>1
<1>. DEFINE last == <<g[Len(h) + 1].ts>>
<1>6. last # <<>> /\ last[1] = g[Len(h) + 1].ts
  OBVIOUS
<1>. HIDE DEF last
<1>7. Rested(s, g, al2, last)
  BY <1>0, <1>3, <1>4, <1>5, <1>6 DEF Rested
<1>. QED BY <1>7 DEF al2, last

\* An event without an alert changes no cooldown; a source forgotten in between has none.
LEMMA RestedMiss ==
    ASSUME NEW h, NEW g, NEW s, Grows(g, h, s), Cache(lru, h),
           NEW al \in Seq([at : DOMAIN h, observed : Nat]),
           NEW last, s \in ToSet(lru) => Rested(s, h, al, last), s \notin ToSet(lru) => last = <<>>
    PROVE  Rested(s, g, al, last)
<1>0. \A i \in DOMAIN h : g[i] = h[i]
  BY SeqBasics DEF Grows
<1>1. \A a \in DOMAIN al : al[a].at \in DOMAIN h
  BY AlertsAt
<1>2. \A a \in DOMAIN al : g[al[a].at] = h[al[a].at]
  BY <1>0, <1>1
<1>3. \A a \in DOMAIN al : h[al[a].at].src = s =>
          (Alive(s, g, al[a].at) <=> Alive(s, h, al[a].at) /\ s \in ToSet(lru))
  <2>1. \A a \in DOMAIN al : h[al[a].at].src = s => al[a].at \in Of(s, h) BY <1>1 DEF Of
  <2>. QED BY <2>1, AliveSame
<1>. QED BY <1>2, <1>3 DEF Rested

-----------------------------------------------------------------------------
(* A step of the rule.                                                      *)

\* The parts of Evaluate.
NewEvent(v, ts) == [ts |-> ts, value |-> v]
NewRecord(s, v, ts) == [src |-> s, ts |-> ts, value |-> v]
NewHistory(s, v, ts) == Append(history, NewRecord(s, v, ts))
NewWindow(s, v, ts) == Append(Kept(events[s], ts), NewEvent(v, ts))
NewCounts(s, v, ts) == CountsAfter(s, Kept(events[s], ts), v)
NewSize(s, v, ts) == Size(NewWindow(s, v, ts), NewCounts(s, v, ts))
Hit(s, v, ts) == NewSize(s, v, ts) >= Threshold /\ ~Cooling(fired[s], ts)
NewAlert(s, v, ts) == [at |-> Len(history) + 1, observed |-> NewSize(s, v, ts)]

\* Being in the cache, in the two ways to say it.
LEMMA Tracked ==
    ASSUME NEW q \in Seq(Sources), NEW x
    PROVE  Contains(q, x) <=> x \in ToSet(q)
BY SeqBasics DEF Contains, ToSet

\* The side counts after an add are the occurrences in the new window.
LEMMA Counted ==
    ASSUME TypeOK, CountsAgree, NEW s \in Sources, NEW v \in Values,
           NEW kept \in Seq(Events), NEW e \in Events, e.value = v,
           \A x \in Values : Occurrences(kept, x) <= Occurrences(events[s], x)
    PROVE  /\ CountsAfter(s, kept, v) \in [Values -> Nat]
           /\ \A x \in Values : CountsAfter(s, kept, v)[x] = Occurrences(Append(kept, e), x)
<1>1. ASSUME NEW x \in Values
      PROVE  /\ CountsAfter(s, kept, v)[x] = Occurrences(Append(kept, e), x)
             /\ Occurrences(Append(kept, e), x) \in Nat
  <2>1. Append(kept, e) \in Seq(Events) BY Extend
  <2>2. events[s] \in Seq(Events) BY DEF TypeOK
  <2>3. /\ Occurrences(Append(kept, e), x) \in Nat /\ Occurrences(kept, x) \in Nat
        /\ Occurrences(events[s], x) \in Nat
    BY <2>1, <2>2, OccType
  <2>4. counts[s][x] = Occurrences(events[s], x) BY DEF CountsAgree
  <2>5. Occurrences(Append(kept, e), x) = Occurrences(kept, x) + (IF x = v THEN 1 ELSE 0)
    <3>1. Occurrences(Append(kept, e), x) = Occurrences(kept, x) + (IF e.value = x THEN 1 ELSE 0)
      BY OccAppend
    <3>. QED BY <3>1
  <2>6. CountsAfter(s, kept, v)[x] =
            Occurrences(events[s], x) - (Occurrences(events[s], x) - Occurrences(kept, x))
                + (IF x = v THEN 1 ELSE 0)
    BY <2>4 DEF CountsAfter, Decremented
  <2>7. \A a, b \in Nat : b <= a => a - (a - b) = b OBVIOUS
  <2>8. Occurrences(events[s], x) - (Occurrences(events[s], x) - Occurrences(kept, x))
            = Occurrences(kept, x)
    BY <2>3, <2>7
  <2>. QED BY <2>3, <2>5, <2>6, <2>8
<1>2. CountsAfter(s, kept, v) = [x \in Values |-> CountsAfter(s, kept, v)[x]]
  BY DEF CountsAfter
<1>3. \A x \in Values : CountsAfter(s, kept, v)[x] \in Nat
  BY <1>1
<1>. QED BY <1>1, <1>2, <1>3

\* The history stays in order.
LEMMA HistoryNext ==
    ASSUME IInv, NEW s \in Sources, NEW v \in Values, NEW ts \in Timestamps
    PROVE  /\ Grows(NewHistory(s, v, ts), history, s) /\ InOrder(NewHistory(s, v, ts))
           /\ NewHistory(s, v, ts)[Len(history) + 1] = NewRecord(s, v, ts)
           /\ Len(NewHistory(s, v, ts)) = Len(history) + 1
           /\ ts \in 0..MaxTime /\ NewEvent(v, ts) \in Events
<1>. DEFINE g == NewHistory(s, v, ts)
            r == NewRecord(s, v, ts)
            n == Len(history)
<1>1. history \in Seq(Record) /\ InOrder(history)
  BY DEF IInv, TypeOK, Record
<1>2. /\ n \in Nat /\ DOMAIN history = 1..n
      /\ \A i \in DOMAIN history : history[i].ts \in 0..MaxTime /\ history[i].ts \in Nat
  BY <1>1, History
<1>3. ts \in 0..MaxTime /\ \A i \in DOMAIN history : history[i].ts <= ts
  <2>1. MaxTime \in Nat BY RuleAssumption
  <2>2. CASE history = <<>>
    <3>1. ts \in 0..MaxTime BY <2>2 DEF Timestamps
    <3>2. DOMAIN history = {} BY <2>2
    <3>. QED BY <3>1, <3>2
  <2>3. CASE history # <<>>
    <3>1. n # 0 BY <1>1, <2>3, EmptySeq
    <3>2. n \in DOMAIN history BY <1>2, <3>1
    <3>3. ts \in history[n].ts..MaxTime BY <2>3 DEF Timestamps, Last
    <3>4. \A i \in DOMAIN history : history[i].ts <= history[n].ts
      <4>1. \A i \in DOMAIN history : i <= n BY <1>2
      <4>. QED BY <1>1, <3>2, <4>1 DEF InOrder
    <3>5. history[n].ts \in Nat BY <1>2, <3>2
    <3>6. ts \in 0..MaxTime /\ history[n].ts <= ts BY <2>1, <3>3, <3>5
    <3>. QED BY <1>2, <3>4, <3>5, <3>6
  <2>. QED BY <2>2, <2>3
<1>4. r \in Record /\ NewEvent(v, ts) \in Events
  BY <1>3 DEF Record, NewRecord, NewEvent, Events
<1>5. /\ g \in Seq(Record) /\ Len(g) = n + 1 /\ DOMAIN g = 1..(n + 1)
      /\ \A i \in 1..n : g[i] = history[i]
      /\ g[n + 1] = r
  <2>1. g = Append(history, r) BY DEF NewHistory
  <2>. HIDE DEF g, r
  <2>. QED BY <1>1, <1>4, <2>1, Extend
<1>6. g[n + 1].src = s /\ g[n + 1].ts = ts
  <2>1. r.src = s /\ r.ts = ts BY DEF NewRecord
  <2>. QED BY <1>5, <2>1
<1>. HIDE DEF g, r
<1>7. Grows(g, history, s)
  BY <1>1, <1>5, <1>6 DEF Grows
<1>8. InOrder(g)
  <2>1. SUFFICES ASSUME NEW i \in DOMAIN g, NEW j \in DOMAIN g, i <= j PROVE g[i].ts <= g[j].ts
    BY DEF InOrder
  <2>2. CASE j \in 1..n
    <3>1. i \in 1..n BY <1>2, <1>5, <2>1, <2>2
    <3>2. history[i].ts <= history[j].ts BY <1>1, <1>2, <2>1, <2>2, <3>1 DEF InOrder
    <3>. QED BY <1>5, <2>2, <3>1, <3>2
  <2>3. CASE j = n + 1 /\ i \in 1..n
    <3>1. history[i].ts <= ts BY <1>2, <1>3, <2>3
    <3>. QED BY <1>5, <1>6, <2>3, <3>1
  <2>4. CASE i = n + 1 /\ j = n + 1
    <3>1. ts <= ts BY <1>3
    <3>. QED BY <1>6, <2>4, <3>1
  <2>5. \A k \in DOMAIN g : k \in 1..n \/ k = n + 1 BY <1>2, <1>5
  <2>6. i = n + 1 => j = n + 1 BY <1>2, <1>5, <2>1
  <2>. QED BY <2>2, <2>3, <2>4, <2>5, <2>6
<1>. QED BY <1>3, <1>4, <1>5, <1>7, <1>8 DEF g, r

\* What the rule finds for an event, and what the detector finds.
Found(s, v, ts) ==
    /\ NewWindow(s, v, ts) \in Seq(Events) /\ Len(NewWindow(s, v, ts)) <= MaxEvents
    /\ Windowed(s, NewHistory(s, v, ts), NewWindow(s, v, ts), TRUE)
    /\ NewCounts(s, v, ts) \in [Values -> Nat]
    /\ \A x \in Values : NewCounts(s, v, ts)[x] = Occurrences(NewWindow(s, v, ts), x)
    /\ NewSize(s, v, ts) \in Nat
    /\ NewSize(s, v, ts) = Detector!Observed(s, NewHistory(s, v, ts))
    /\ Cooling(fired[s], ts) <=> Detector!Cooling(s, NewHistory(s, v, ts))

\* For any event the rule finds what the detector finds.
LEMMA Finds ==
    ASSUME IInv, NEW s \in Sources, NEW v \in Values, NEW ts \in Timestamps
    PROVE  Found(s, v, ts)
<1>. DEFINE g == NewHistory(s, v, ts)
            new == NewWindow(s, v, ts)
            e == NewEvent(v, ts)
            es == events[s]
            kept == Kept(es, e.ts)
            n == Len(history) + 1
<1>1. /\ Grows(g, history, s) /\ InOrder(g) /\ g[n] = NewRecord(s, v, ts) /\ Len(g) = n
      /\ ts \in 0..MaxTime /\ e \in Events
  BY HistoryNext
<1>2. e.ts = ts /\ e.value = v /\ g[n].ts = ts /\ g[n].value = v
  <2>1. NewRecord(s, v, ts).ts = ts /\ NewRecord(s, v, ts).value = v BY DEF NewRecord
  <2>2. e.ts = ts /\ e.value = v BY DEF NewEvent
  <2>. QED BY <1>1, <2>1, <2>2
<1>3. /\ Cache(lru, history) /\ InOrder(history) /\ TypeOK /\ CountsAgree
      /\ Windowed(s, history, es, s \in ToSet(lru))
      /\ s \in ToSet(lru) => Rested(s, history, alerts, fired[s])
  BY DEF IInv
<1>4. /\ es \in Seq(Events) /\ Len(es) <= MaxEvents /\ distinct \in BOOLEAN
      /\ fired[s] \in Seq(0..MaxTime) /\ lru \in Seq(Sources)
      /\ alerts \in Seq([at : DOMAIN history, observed : Nat])
      /\ ~Contains(lru, s) => es = <<>> /\ fired[s] = <<>>
  BY <1>3 DEF TypeOK
<1>5. s \notin ToSet(lru) => es = <<>> /\ fired[s] = <<>>
  BY <1>4, Tracked
<1>6. new = Append(kept, e)
  BY <1>2 DEF NewWindow
<1>. HIDE DEF g, new, e, es
<1>7. /\ new \in Seq(Events) /\ Len(new) <= MaxEvents /\ Windowed(s, g, new, TRUE)
      /\ \A p \in DOMAIN new : ~Stale(new[p], e.ts)
      /\ kept \in Seq(Events)
      /\ \A x \in Values : Occurrences(kept, x) <= Occurrences(es, x)
  BY <1>1, <1>2, <1>3, <1>4, <1>5, <1>6, WindowSame
<1>. HIDE DEF kept
<1>8. /\ CountsAfter(s, kept, v) \in [Values -> Nat]
      /\ \A x \in Values : CountsAfter(s, kept, v)[x] = Occurrences(Append(kept, e), x)
  BY <1>1, <1>2, <1>3, <1>7, Counted DEF es
<1>9. NewCounts(s, v, ts) = CountsAfter(s, kept, v)
  BY <1>2 DEF NewCounts, kept, es
<1>10. /\ NewCounts(s, v, ts) \in [Values -> Nat]
       /\ \A x \in Values : NewCounts(s, v, ts)[x] = Occurrences(new, x)
  BY <1>6, <1>8, <1>9
<1>11. n \in Of(s, g) /\ g \in Seq(Record)
  <2>1. n \in Of(s, g) BY <1>1, OfGrows
  <2>. QED BY <1>1, <2>1 DEF Grows
<1>12. \A p \in DOMAIN new : ~Stale(new[p], g[Len(g)].ts)
  BY <1>1, <1>2, <1>7
<1>13. /\ Size(new, NewCounts(s, v, ts)) = Detector!Observed(s, g)
       /\ Size(new, NewCounts(s, v, ts)) \in Nat
  BY <1>1, <1>4, <1>7, <1>10, <1>11, <1>12, ObservedIs
<1>14. Detector!Cooling(s, g) <=> Cooling(fired[s], ts)
  BY <1>1, <1>2, <1>3, <1>4, <1>5, CoolingIs
<1>15. NewSize(s, v, ts) = Size(new, NewCounts(s, v, ts))
  BY DEF NewSize, new
<1>. QED BY <1>7, <1>10, <1>13, <1>14, <1>15 DEF Found, g, new

Stepped(s, v, ts) ==
    /\ lru' = MostRecent(s) /\ history' = NewHistory(s, v, ts) /\ distinct' = distinct
    /\ events' = [x \in Sources |-> IF x = s THEN NewWindow(s, v, ts)
                                    ELSE IF x \in Forgotten(s) THEN <<>> ELSE events[x]]
    /\ counts' = [x \in Sources |-> IF x = s THEN NewCounts(s, v, ts)
                                    ELSE IF x \in Forgotten(s) THEN NoCounts ELSE counts[x]]
    /\ fired' = [x \in Sources |-> IF x = s /\ Hit(s, v, ts) THEN <<ts>>
                                   ELSE IF x \in Forgotten(s) THEN <<>> ELSE fired[x]]
    /\ alerts' = IF Hit(s, v, ts) THEN Append(alerts, NewAlert(s, v, ts)) ELSE alerts

\* Evaluate by its parts.
LEMMA EvaluateIs ==
    ASSUME IInv, NEW s \in Sources, NEW v \in Values, NEW ts \in Timestamps, Evaluate(s, v, ts)
    PROVE  Stepped(s, v, ts)
<1>1. history' = NewHistory(s, v, ts)
  BY DEF Evaluate, NewHistory, NewRecord
<1>2. Len(history') = Len(history) + 1
  BY <1>1, HistoryNext
<1>3. alerts' = IF Hit(s, v, ts)
                THEN Append(alerts, [at |-> Len(history'), observed |-> NewSize(s, v, ts)]) ELSE alerts
  BY Zenon DEF Evaluate, Hit, NewSize, NewWindow, NewCounts, NewEvent
<1>4. alerts' = IF Hit(s, v, ts) THEN Append(alerts, NewAlert(s, v, ts)) ELSE alerts
  BY <1>2, <1>3, Zenon DEF NewAlert
<1>5. lru' = MostRecent(s) /\ distinct' = distinct
  BY Zenon DEF Evaluate
<1>6. events' = [x \in Sources |-> IF x = s THEN NewWindow(s, v, ts)
                                   ELSE IF x \in Forgotten(s) THEN <<>> ELSE events[x]]
  BY Zenon DEF Evaluate, NewWindow, NewEvent
<1>7. counts' = [x \in Sources |-> IF x = s THEN NewCounts(s, v, ts)
                                   ELSE IF x \in Forgotten(s) THEN NoCounts ELSE counts[x]]
  BY Zenon DEF Evaluate, NewCounts
<1>8. fired' = [x \in Sources |-> IF x = s /\ Hit(s, v, ts) THEN <<ts>>
                                  ELSE IF x \in Forgotten(s) THEN <<>> ELSE fired[x]]
  BY Zenon DEF Evaluate, Hit, NewSize, NewWindow, NewCounts, NewEvent
<1>. QED BY <1>1, <1>4, <1>5, <1>6, <1>7, <1>8, Zenon DEF Stepped

\* The detector takes the same step.
LEMMA EventTaken ==
    ASSUME IInv, NEW s \in Sources, NEW v \in Values, NEW ts \in Timestamps,
           Stepped(s, v, ts), Found(s, v, ts)
    PROVE  Detector!Event(s, v, ts)
<1>. DEFINE g == NewHistory(s, v, ts)
            k == NewSize(s, v, ts)
<1>1. Len(g) = Len(history) + 1
  BY HistoryNext
<1>2. g = Append(history, [src |-> s, ts |-> ts, value |-> v])
  BY DEF NewHistory, NewRecord
<1>3. Hit(s, v, ts) <=> Detector!Observed(s, g) >= Threshold /\ ~Detector!Cooling(s, g)
  BY Zenon DEF Found, Hit
<1>4. NewAlert(s, v, ts) = [at |-> Len(g), observed |-> Detector!Observed(s, g)]
  <2>1. k = Detector!Observed(s, g) BY DEF Found
  <2>. HIDE DEF k, g
  <2>2. NewAlert(s, v, ts) = [at |-> Len(history) + 1, observed |-> k] BY DEF NewAlert, k
  <2>. QED BY <1>1, <2>1, <2>2
<1>5. /\ history' = g /\ distinct' = distinct
      /\ alerts' = IF Hit(s, v, ts) THEN Append(alerts, NewAlert(s, v, ts)) ELSE alerts
  BY DEF Stepped
<1>. HIDE DEF g, k
<1>6. alerts' = IF Detector!Observed(s, g) >= Threshold /\ ~Detector!Cooling(s, g)
                THEN Append(alerts, [at |-> Len(g), observed |-> Detector!Observed(s, g)]) ELSE alerts
  BY <1>3, <1>4, <1>5, Zenon
<1>. QED BY <1>2, <1>5, <1>6, Zenon DEF Detector!Event

\* Alerts still point into a history that grew, and the new one to its last event.
LEMMA AlertsGrow ==
    ASSUME NEW n \in Nat, NEW al \in Seq([at : 1..n, observed : Nat]), NEW k \in Nat
    PROVE  /\ al \in Seq([at : 1..(n + 1), observed : Nat])
           /\ Append(al, [at |-> n + 1, observed |-> k]) \in Seq([at : 1..(n + 1), observed : Nat])
<1>. DEFINE A == [at : 1..n, observed : Nat]
            B == [at : 1..(n + 1), observed : Nat]
            a == [at |-> n + 1, observed |-> k]
<1>1. A \subseteq B /\ a \in B
  <2>1. 1..n \subseteq 1..(n + 1) /\ n + 1 \in 1..(n + 1) OBVIOUS
  <2>. QED BY <2>1
<1>2. al \in Seq(A)
  OBVIOUS
<1>. HIDE DEF A, B, a
<1>3. al \in Seq(B)
  <2>1. Len(al) \in Nat /\ DOMAIN al = 1..Len(al) /\ \A i \in 1..Len(al) : al[i] \in A
    BY <1>2, SeqBasics
  <2>2. al = [i \in 1..Len(al) |-> al[i]] BY <1>2, <2>1, LenProperties
  <2>3. \A i \in 1..Len(al) : al[i] \in B BY <1>1, <2>1
  <2>. QED BY <2>1, <2>2, <2>3, IsASeq
<1>4. Append(al, a) \in Seq(B)
  BY <1>1, <1>3, Extend
<1>. QED BY <1>3, <1>4 DEF B, a

\* An event preserves the types and the limits.
LEMMA TypeStep ==
    ASSUME IInv, NEW s \in Sources, NEW v \in Values, NEW ts \in Timestamps,
           Stepped(s, v, ts), Found(s, v, ts)
    PROVE  TypeOK'
<1>1. TypeOK /\ Cache(lru, history)
  BY DEF IInv
<1>2. /\ MostRecent(s) \in Seq(Sources) /\ Len(MostRecent(s)) <= MaxSources
      /\ ToSet(MostRecent(s)) = (ToSet(lru) \ Forgotten(s)) \cup {s}
      /\ s \notin Forgotten(s)
  BY <1>1, TrackedAfter DEF Cache
<1>3. lru' \in Seq(Sources) /\ Len(lru') <= MaxSources /\ distinct' \in BOOLEAN
  BY <1>1, <1>2 DEF TypeOK, Stepped
<1>4. ts \in 0..MaxTime
  BY HistoryNext
<1>5. <<>> \in Seq(Events) /\ <<>> \in Seq(0..MaxTime) /\ <<ts>> \in Seq(0..MaxTime)
  BY <1>4
<1>6. events' \in [Sources -> Seq(Events)]
  <2>1. ASSUME NEW x \in Sources
        PROVE  (IF x = s THEN NewWindow(s, v, ts) ELSE IF x \in Forgotten(s) THEN <<>> ELSE events[x])
                   \in Seq(Events)
    BY <1>1, <1>5 DEF TypeOK, Found
  <2>. QED BY <2>1 DEF Stepped
<1>7. counts' \in [Sources -> [Values -> Nat]]
  <2>1. NoCounts \in [Values -> Nat] BY DEF NoCounts
  <2>2. ASSUME NEW x \in Sources
        PROVE  (IF x = s THEN NewCounts(s, v, ts) ELSE IF x \in Forgotten(s) THEN NoCounts ELSE counts[x])
                   \in [Values -> Nat]
    BY <1>1, <2>1 DEF TypeOK, Found
  <2>. QED BY <2>2 DEF Stepped
<1>8. fired' \in [Sources -> Seq(0..MaxTime)]
  <2>1. ASSUME NEW x \in Sources
        PROVE  (IF x = s /\ Hit(s, v, ts) THEN <<ts>>
                ELSE IF x \in Forgotten(s) THEN <<>> ELSE fired[x]) \in Seq(0..MaxTime)
    BY <1>1, <1>5 DEF TypeOK
  <2>. QED BY <2>1 DEF Stepped
<1>9. ASSUME NEW x \in Sources
      PROVE  /\ Len(events'[x]) <= MaxEvents
             /\ ~Contains(lru', x) => events'[x] = <<>> /\ fired'[x] = <<>>
  <2>1. Contains(lru', x) <=> x \in ToSet(MostRecent(s)) BY <1>2, Tracked DEF Stepped
  <2>2. CASE x = s
    <3>1. events'[x] = NewWindow(s, v, ts) BY <2>2 DEF Stepped
    <3>. QED BY <1>2, <2>1, <2>2, <3>1 DEF Found
  <2>3. CASE x # s /\ x \in Forgotten(s)
    <3>1. events'[x] = <<>> /\ fired'[x] = <<>> BY <2>3 DEF Stepped
    <3>2. Len(<<>>) = 0 /\ 0 <= MaxEvents BY RuleAssumption
    <3>. QED BY <3>1, <3>2
  <2>4. CASE x # s /\ x \notin Forgotten(s)
    <3>1. events'[x] = events[x] /\ fired'[x] = fired[x] BY <2>4 DEF Stepped
    <3>2. x \notin ToSet(MostRecent(s)) => ~Contains(lru, x)
      <4>1. lru \in Seq(Sources) BY <1>1 DEF TypeOK
      <4>. QED BY <1>2, <2>4, <4>1, Tracked
    <3>3. Len(events[x]) <= MaxEvents /\ (~Contains(lru, x) => events[x] = <<>> /\ fired[x] = <<>>)
      BY <1>1 DEF TypeOK
    <3>. QED BY <2>1, <3>1, <3>2, <3>3
  <2>. QED BY <2>2, <2>3, <2>4
<1>10. history' \in Seq([src : Sources, ts : 0..MaxTime, value : Values])
  <2>1. Grows(NewHistory(s, v, ts), history, s) BY HistoryNext
  <2>. QED BY <2>1 DEF Grows, Record, Stepped
<1>11. alerts' \in Seq([at : DOMAIN history', observed : Nat])
  <2>. DEFINE n == Len(history)
  <2>1. n \in Nat /\ DOMAIN history = 1..n /\ DOMAIN history' = 1..(n + 1)
    <3>1. Grows(NewHistory(s, v, ts), history, s) BY HistoryNext
    <3>. QED BY <3>1, SeqBasics DEF Grows, Stepped
  <2>2. alerts \in Seq([at : 1..n, observed : Nat]) BY <1>1, <2>1 DEF TypeOK
  <2>3. NewSize(s, v, ts) \in Nat BY DEF Found
  <2>4. NewAlert(s, v, ts) = [at |-> n + 1, observed |-> NewSize(s, v, ts)] BY DEF NewAlert
  <2>. HIDE DEF n
  <2>5. /\ alerts \in Seq([at : 1..(n + 1), observed : Nat])
        /\ Append(alerts, NewAlert(s, v, ts)) \in Seq([at : 1..(n + 1), observed : Nat])
    BY <2>1, <2>2, <2>3, <2>4, AlertsGrow
  <2>6. alerts' = alerts \/ alerts' = Append(alerts, NewAlert(s, v, ts)) BY DEF Stepped
  <2>. QED BY <2>1, <2>5, <2>6
<1>. QED BY <1>3, <1>6, <1>7, <1>8, <1>9, <1>10, <1>11 DEF TypeOK

\* An event preserves the agreement of counts and events.
LEMMA CountsStep ==
    ASSUME IInv, NEW s \in Sources, NEW v \in Values, NEW ts \in Timestamps,
           Stepped(s, v, ts), Found(s, v, ts)
    PROVE  CountsAgree'
<1>1. SUFFICES ASSUME NEW x \in Sources, NEW w \in Values
               PROVE  counts'[x][w] = Occurrences(events'[x], w)
  BY DEF CountsAgree
<1>2. CASE x = s
  <2>1. counts'[x] = NewCounts(s, v, ts) /\ events'[x] = NewWindow(s, v, ts) BY <1>2 DEF Stepped
  <2>. QED BY <2>1 DEF Found
<1>3. CASE x # s /\ x \in Forgotten(s)
  <2>1. counts'[x] = NoCounts /\ events'[x] = <<>> BY <1>3 DEF Stepped
  <2>2. {i \in DOMAIN <<>> : <<>>[i].value = w} = {} OBVIOUS
  <2>3. Occurrences(<<>>, w) = 0 BY <2>2, FS_EmptySet DEF Occurrences
  <2>. QED BY <2>1, <2>3 DEF NoCounts
<1>4. CASE x # s /\ x \notin Forgotten(s)
  <2>1. counts'[x] = counts[x] /\ events'[x] = events[x] BY <1>4 DEF Stepped
  <2>. QED BY <2>1 DEF IInv, CountsAgree
<1>. QED BY <1>2, <1>3, <1>4

\* An event keeps every window right.
LEMMA WindowsStep ==
    ASSUME IInv, NEW s \in Sources, NEW v \in Values, NEW ts \in Timestamps,
           Stepped(s, v, ts), Found(s, v, ts)
    PROVE  \A x \in Sources : Windowed(x, history', events'[x], x \in ToSet(lru'))
<1>. DEFINE g == NewHistory(s, v, ts)
<1>1. Grows(g, history, s) /\ Cache(lru, history) /\ history' = g
  BY HistoryNext DEF IInv, Stepped
<1>2. ToSet(lru') = (ToSet(lru) \ Forgotten(s)) \cup {s}
  BY <1>1, TrackedAfter DEF Cache, Stepped
<1>3. SUFFICES ASSUME NEW x \in Sources PROVE Windowed(x, g, events'[x], x \in ToSet(lru'))
  BY <1>1
<1>. HIDE DEF g
<1>4. CASE x = s
  <2>1. events'[x] = NewWindow(s, v, ts) BY <1>4 DEF Stepped
  <2>2. Windowed(s, g, NewWindow(s, v, ts), TRUE) BY DEF Found, g
  <2>. QED BY <1>4, <2>1, <2>2 DEF Windowed
<1>5. CASE x # s /\ x \in Forgotten(s)
  <2>1. events'[x] = <<>> /\ x \notin ToSet(lru') BY <1>2, <1>5 DEF Stepped
  <2>2. <<>> \in [DOMAIN <<>> -> Of(x, g)] OBVIOUS
  <2>3. Placed(x, g, <<>>, <<>>)
    <3>1. DOMAIN <<>> = {} OBVIOUS
    <3>. QED BY <2>2, <3>1 DEF Placed
  <2>. QED BY <2>1, <2>2, <2>3 DEF Windowed
<1>6. CASE x # s /\ x \notin Forgotten(s)
  <2>1. events'[x] = events[x] BY <1>6 DEF Stepped
  <2>2. Windowed(x, history, events[x], x \in ToSet(lru)) BY DEF IInv
  <2>3. x \in ToSet(lru') => x \in ToSet(lru) BY <1>2, <1>6
  <2>. DEFINE t == x \in ToSet(lru)
              u == x \in ToSet(lru')
  <2>4. t \in BOOLEAN /\ u \in BOOLEAN OBVIOUS
  <2>5. Windowed(x, history, events[x], t) /\ (u => t) BY <2>2, <2>3
  <2>. HIDE DEF t, u
  <2>6. Windowed(x, g, events[x], u) BY <1>1, <1>6, <2>4, <2>5, WindowOther
  <2>. QED BY <2>1, <2>6 DEF u
<1>. QED BY <1>4, <1>5, <1>6

\* An event keeps every cooldown right.
LEMMA RestedStep ==
    ASSUME IInv, NEW s \in Sources, NEW v \in Values, NEW ts \in Timestamps,
           Stepped(s, v, ts), Found(s, v, ts)
    PROVE  \A x \in ToSet(lru') : Rested(x, history', alerts', fired'[x])
<1>. DEFINE g == NewHistory(s, v, ts)
            n == Len(history) + 1
<1>1. /\ Grows(g, history, s) /\ Cache(lru, history) /\ history' = g /\ InOrder(g)
      /\ g[n].ts = ts
  <2>1. NewRecord(s, v, ts).ts = ts BY DEF NewRecord
  <2>. QED BY <2>1, HistoryNext DEF IInv, Stepped
<1>2. ToSet(lru') = (ToSet(lru) \ Forgotten(s)) \cup {s} /\ s \notin Forgotten(s)
  BY <1>1, TrackedAfter DEF Cache, Stepped
<1>3. /\ alerts \in Seq([at : DOMAIN history, observed : Nat]) /\ NewSize(s, v, ts) \in Nat
      /\ NewAlert(s, v, ts) = [at |-> n, observed |-> NewSize(s, v, ts)]
      /\ alerts' = alerts \/ alerts' = Append(alerts, NewAlert(s, v, ts))
  BY DEF IInv, TypeOK, Found, NewAlert, Stepped
<1>4. SUFFICES ASSUME NEW x \in ToSet(lru') PROVE Rested(x, g, alerts', fired'[x])
  BY <1>1
<1>5. x \in Sources
  <2>1. ToSet(lru) \subseteq Sources BY <1>1, SeqBasics DEF Cache
  <2>. QED BY <1>2, <2>1
<1>. HIDE DEF g
<1>6. CASE x # s
  <2>1. fired'[x] = fired[x] BY <1>2, <1>5, <1>6 DEF Stepped
  <2>2. Rested(x, history, alerts, fired[x]) BY <1>2, <1>6 DEF IInv
  <2>. QED BY <1>1, <1>3, <1>6, <2>1, <2>2, RestedOther
<1>7. CASE x = s /\ Hit(s, v, ts)
  <2>1. fired'[x] = <<ts>> /\ alerts' = Append(alerts, NewAlert(s, v, ts)) BY <1>7 DEF Stepped
  <2>. QED BY <1>1, <1>3, <1>7, <2>1, RestedHit
<1>8. CASE x = s /\ ~Hit(s, v, ts)
  <2>1. fired'[x] = fired[s] /\ alerts' = alerts BY <1>2, <1>8 DEF Stepped
  <2>2. s \in ToSet(lru) => Rested(s, history, alerts, fired[s]) BY DEF IInv
  <2>3. s \notin ToSet(lru) => fired[s] = <<>>
    <3>1. lru \in Seq(Sources) /\ (~Contains(lru, s) => fired[s] = <<>>) BY DEF IInv, TypeOK
    <3>. QED BY <3>1, Tracked
  <2>. QED BY <1>1, <1>3, <1>8, <2>1, <2>2, <2>3, RestedMiss
<1>. QED BY <1>6, <1>7, <1>8

-----------------------------------------------------------------------------
(* The theorems.                                                            *)

\* It holds at first.
LEMMA InitInv == Init => IInv
<1>. SUFFICES ASSUME Init PROVE IInv
  OBVIOUS
<1>1. /\ distinct \in BOOLEAN /\ lru = <<>> /\ history = <<>> /\ alerts = <<>>
      /\ \A s \in Sources : events[s] = <<>> /\ counts[s] = NoCounts /\ fired[s] = <<>>
      /\ events \in [Sources -> Seq(Events)] /\ fired \in [Sources -> Seq(0..MaxTime)]
  BY DEF Init
<1>2. counts \in [Sources -> [Values -> Nat]]
  BY DEF Init, NoCounts
<1>3. DOMAIN <<>> = {} /\ Len(<<>>) = 0 /\ \A S : <<>> \in Seq(S)
  OBVIOUS
<1>4. MaxSources \in Nat /\ MaxEvents \in Nat
  BY RuleAssumption
<1>5. ToSet(lru) = {}
  BY <1>1, <1>3 DEF ToSet
<1>6. \A s : Of(s, history) = {}
  BY <1>1, <1>3 DEF Of
<1>7. TypeOK
  <2>1. \A s \in Sources : Len(events[s]) <= MaxEvents BY <1>1, <1>3, <1>4
  <2>2. Len(lru) <= MaxSources BY <1>1, <1>3, <1>4
  <2>. QED BY <1>1, <1>2, <1>3, <2>1, <2>2 DEF TypeOK
<1>8. CountsAgree
  <2>1. \A v : {i \in DOMAIN <<>> : <<>>[i].value = v} = {} BY <1>3
  <2>2. \A v : Occurrences(<<>>, v) = 0 BY <2>1, FS_EmptySet DEF Occurrences
  <2>. QED BY <1>1, <2>2 DEF CountsAgree, NoCounts
<1>9. InOrder(history)
  BY <1>1, <1>3 DEF InOrder
<1>10. Cache(lru, history)
  <2>1. Len(lru) <= MaxSources BY <1>1, <1>3, <1>4
  <2>. QED BY <1>1, <1>3, <1>6, <2>1 DEF Cache, Distinct
<1>11. \A s \in Sources : Windowed(s, history, events[s], s \in ToSet(lru))
  <2>1. SUFFICES ASSUME NEW s \in Sources
                 PROVE  Windowed(s, history, events[s], s \in ToSet(lru))
    OBVIOUS
  <2>2. <<>> \in [DOMAIN <<>> -> Of(s, history)] BY <1>3
  <2>3. Placed(s, history, <<>>, <<>>) BY <1>3, <2>2 DEF Placed
  <2>. QED BY <1>1, <1>5, <2>2, <2>3 DEF Windowed
<1>12. \A s \in ToSet(lru) : Rested(s, history, alerts, fired[s])
  BY <1>5
<1>. QED BY <1>7, <1>8, <1>9, <1>10, <1>11, <1>12 DEF IInv

\* It is preserved by every event, and the detector takes the same step.
LEMMA StepInv ==
    ASSUME IInv, NEW s \in Sources, NEW v \in Values, NEW ts \in Timestamps, Evaluate(s, v, ts)
    PROVE  IInv' /\ Detector!Event(s, v, ts)
<1>1. Stepped(s, v, ts) /\ Found(s, v, ts)
  BY EvaluateIs, Finds
<1>2. TypeOK'
  BY <1>1, TypeStep
<1>3. CountsAgree'
  BY <1>1, CountsStep
<1>4. InOrder(history') /\ Cache(lru', history')
  <2>1. /\ Grows(NewHistory(s, v, ts), history, s) /\ InOrder(NewHistory(s, v, ts))
        /\ Cache(lru, history)
    BY HistoryNext DEF IInv
  <2>2. Cache(MostRecent(s), NewHistory(s, v, ts)) BY <2>1, CacheStep
  <2>. QED BY <1>1, <2>1, <2>2 DEF Stepped
<1>5. \A x \in Sources : Windowed(x, history', events'[x], x \in ToSet(lru'))
  BY <1>1, WindowsStep
<1>6. \A x \in ToSet(lru') : Rested(x, history', alerts', fired'[x])
  BY <1>1, RestedStep
<1>7. IInv'
  BY <1>2, <1>3, <1>4, <1>5, <1>6 DEF IInv, Cache, Windowed, Rested, InOrder
<1>8. Detector!Event(s, v, ts)
  BY <1>1, EventTaken
<1>. QED BY <1>7, <1>8

\* It is about these variables only.
LEMMA Rests == IInv /\ UNCHANGED vars => IInv'
<1>. SUFFICES ASSUME IInv, UNCHANGED vars PROVE IInv'
  OBVIOUS
<1>1. /\ distinct' = distinct /\ lru' = lru /\ events' = events /\ counts' = counts
      /\ fired' = fired /\ history' = history /\ alerts' = alerts
  BY DEF vars
<1>2. TypeOK' /\ CountsAgree'
  BY <1>1 DEF IInv, TypeOK, CountsAgree
<1>. QED BY <1>1, <1>2 DEF IInv

\* So it always holds.
LEMMA Inductive == Spec => []IInv
<1>1. IInv /\ [Next]_vars => IInv'
  BY StepInv, Rests DEF Next
<1>. QED BY <1>1, InitInv, PTL DEF Spec

\* Every variable keeps its type, and a flood of sources or of packets never makes a rule keep
\* more than its limits, whatever the limits are.
THEOREM TypeCorrect == Spec => []TypeOK
<1>1. IInv => TypeOK
  BY DEF IInv
<1>. QED BY <1>1, Inductive, PTL

\* The side counts of a distinct window agree with its events: what pop_oldest takes back is
\* what add put in, through any expiries, overflows and forgotten sources.
THEOREM SideCountsAgree == Spec => []CountsAgree
<1>1. IInv => CountsAgree
  BY DEF IInv
<1>. QED BY <1>1, Inductive, PTL

\* A rule with its incremental windows and its LRU cache raises the alerts that the whole
\* history calls for, each with the count it calls for, for any window, cooldown, threshold
\* and limits.
THEOREM RuleImplementsDetector == Spec => ImplementsDetector
<1>1. Init => Detector!Init
  BY DEF Init, Detector!Init
<1>2. IInv /\ [Next]_vars => [Detector!Next]_(Detector!vars)
  <2> SUFFICES ASSUME IInv, [Next]_vars PROVE Detector!Next \/ UNCHANGED Detector!vars
    OBVIOUS
  <2>1. CASE Next
    <3>1. PICK s \in Sources, v \in Values, ts \in Timestamps : Evaluate(s, v, ts)
      BY <2>1 DEF Next
    <3>2. Detector!Event(s, v, ts) BY <3>1, StepInv
    <3>3. ts \in 0..MaxTime BY HistoryNext
    <3>. QED BY <3>2, <3>3 DEF Detector!Next
  <2>2. CASE UNCHANGED vars
    BY <2>2 DEF vars, Detector!vars
  <2>. QED BY <2>1, <2>2
<1>. QED BY <1>1, <1>2, Inductive, PTL DEF Spec, ImplementsDetector, Detector!Spec

-----------------------------------------------------------------------------
(* What a rule file is loaded to.                                           *)

\* e is built step by step from s.
Follows(e, s, n, F) == e[0] = s /\ \A i \in 1..n : e[i] = F[<<i, e[i - 1]>>]

\* A function may be defined by recursion on its argument.
LEMMA Recursion ==
    ASSUME NEW S, NEW s \in S, NEW n \in Nat, NEW F \in [(1..n) \X S -> S]
    PROVE  \E e \in [0..n -> S] : Follows(e, s, n, F)
<1>. DEFINE Def(k) == \E e \in [0..k -> S] : e[0] = s /\ \A i \in 1..k : e[i] = F[<<i, e[i - 1]>>]
            Bad == {k \in 0..n : ~Def(k)}
<1>1. ASSUME Bad # {} PROVE FALSE
  <2>1. PICK k \in Bad : \A j \in Bad : k <= j
    <3>1. Bad \subseteq Nat
      OBVIOUS
    <3>. HIDE DEF Bad
    <3>. QED BY <1>1, <3>1, Least
  <2>2. CASE k = 0
    <3>. DEFINE e == [i \in 0..0 |-> s]
    <3>1. e \in [0..0 -> S] /\ e[0] = s /\ \A i \in 1..0 : e[i] = F[<<i, e[i - 1]>>]
      OBVIOUS
    <3>. QED BY <2>2, <3>1
  <2>3. CASE k # 0
    <3>1. k - 1 \in 0..n /\ k - 1 < k /\ k \in 1..n
      BY <2>3
    <3>2. Def(k - 1)
      BY <2>1, <3>1
    <3>3. PICK d \in [0..(k - 1) -> S] :
             d[0] = s /\ \A i \in 1..(k - 1) : d[i] = F[<<i, d[i - 1]>>]
      BY <3>2
    <3>. DEFINE e == [i \in 0..k |-> IF i = k THEN F[<<k, d[k - 1]>>] ELSE d[i]]
    <3>4. d[k - 1] \in S
      BY <3>1
    <3>5. e \in [0..k -> S]
      BY <3>1, <3>4
    <3>6. e[0] = s
      BY <3>1, <3>3
    <3>7. ASSUME NEW i \in 1..k PROVE e[i] = F[<<i, e[i - 1]>>]
      <4>1. CASE i = k
        <5>1. e[k] = F[<<k, d[k - 1]>>] /\ e[k - 1] = d[k - 1]
          BY <3>1
        <5>. QED BY <4>1, <5>1
      <4>2. CASE i # k
        BY <4>2, <3>1, <3>3
      <4>. QED BY <4>1, <4>2
    <3>8. Def(k)
      BY <3>5, <3>6, <3>7
    <3>. QED BY <3>8
  <2>. QED BY <2>2, <2>3
<1>. QED BY <1>1 DEF Follows

\* What parse makes sure of, and in what state it is after i rules.
Checked(rules, i, st) ==
    /\ st.ok => /\ \A j \in 1..i : validate(rules[j])
                /\ \A j, k \in 1..i : j # k => rules[j].id # rules[k].id
    /\ st.seen = {rules[j].id : j \in 1..i}

\* A file is accepted only if each of its rules is right and no id is used twice.
LEMMA AcceptedIs ==
    ASSUME NEW rules \in Seq(RuleSpec), Accepted(rules).ok
    PROVE  Checked(rules, Len(rules), Accepted(rules))
<1>. DEFINE n == Len(rules)
            State == [ok : BOOLEAN, seen : SUBSET STRING]
            start == [ok |-> TRUE, seen |-> {}]
            Step(prior, r) == [ok   |-> prior.ok /\ validate(r) /\ r.id \notin prior.seen,
                               seen |-> prior.seen \cup {r.id}]
            G(x) == [i \in 0..n |-> IF i = 0 THEN start ELSE Step(x[i - 1], rules[i])]
            after == CHOOSE x : x = G(x)
<1>1. n \in Nat /\ \A i \in 1..n : rules[i] \in RuleSpec /\ rules[i].id \in STRING
  <2>1. n \in Nat /\ \A i \in 1..n : rules[i] \in RuleSpec
    BY LenProperties, ElementOfSeq
  <2>. QED BY <2>1 DEF RuleSpec
<1>2. Accepted(rules) = after[n]
  BY DEF Accepted
<1>3. \E x : x = G(x)
  <2>. DEFINE F == [p \in (1..n) \X State |-> Step(p[2], rules[p[1]])]
  <2>1. \A st \in State, i \in 1..n : Step(st, rules[i]) \in State
    BY <1>1 DEF validate
  <2>2. start \in State
    OBVIOUS
  <2>3. F \in [(1..n) \X State -> State]
    <3>. HIDE DEF Step, State
    <3>. QED BY <2>1
  <2>4. PICK e \in [0..n -> State] : Follows(e, start, n, F)
    <3>. HIDE DEF F, State, start, n
    <3>. QED BY <1>1, <2>2, <2>3, Recursion
  <2>5. \A i \in 1..n : i \in 0..n /\ i - 1 \in 0..n
    BY <1>1
  <2>6. e[0] = start /\ \A i \in 1..n : e[i] = Step(e[i - 1], rules[i])
    <3>1. \A i \in 1..n : e[i - 1] \in State
      BY <2>5
    <3>. HIDE DEF Step, State, start
    <3>. QED BY <2>4, <3>1 DEF Follows
  <2>7. e = G(e)
    <3>1. \A i \in 0..n : i # 0 => i \in 1..n
      BY <1>1
    <3>2. \A i \in 0..n : e[i] = G(e)[i]
      <4>. HIDE DEF Step, State, start
      <4>. QED BY <2>6, <3>1
    <3>. HIDE DEF Step, State, start
    <3>. QED BY <3>2
  <2>. HIDE DEF G
  <2>. QED BY <2>7
<1>4. after = G(after)
  <2>. HIDE DEF G
  <2>. QED BY <1>3
<1>. HIDE DEF after
<1>5. after[0] = start /\ \A i \in 1..n : after[i] = Step(after[i - 1], rules[i])
  <2>1. 0 \in 0..n /\ \A i \in 1..n : i \in 0..n /\ i # 0
    BY <1>1
  <2>. HIDE DEF Step, start
  <2>. QED BY <1>4, <2>1
<1>. DEFINE Bad == {i \in 0..n : ~Checked(rules, i, after[i])}
<1>6. ASSUME Bad # {} PROVE FALSE
  <2>1. PICK k \in Bad : \A j \in Bad : k <= j
    <3>1. Bad \subseteq Nat
      OBVIOUS
    <3>. HIDE DEF Bad
    <3>. QED BY <1>6, <3>1, Least
  <2>2. CASE k = 0
    <3>1. Checked(rules, 0, start)
      BY DEF Checked
    <3>. QED BY <1>5, <2>2, <3>1
  <2>3. CASE k # 0
    <3>1. k \in 1..n /\ k - 1 \in 0..n /\ k - 1 < k
      BY <1>1, <2>3
    <3>2. Checked(rules, k - 1, after[k - 1])
      <4>1. k - 1 \notin Bad
        <5>. HIDE DEF Bad
        <5>. QED BY <2>1, <3>1
      <4>. QED BY <3>1, <4>1
    <3>3. 1..k = (1..(k - 1)) \cup {k}
      BY <1>1, <3>1
    <3>7. after[k] = Step(after[k - 1], rules[k])
      <4>. HIDE DEF Step
      <4>. QED BY <1>5, <3>1
    <3>8. /\ after[k].seen = after[k - 1].seen \cup {rules[k].id}
          /\ after[k].ok = (after[k - 1].ok /\ validate(rules[k]) /\ rules[k].id \notin after[k - 1].seen)
      BY <3>7
    <3>4. after[k].seen = {rules[j].id : j \in 1..k}
      <4>1. after[k - 1].seen = {rules[j].id : j \in 1..(k - 1)}
        BY <3>2 DEF Checked
      <4>. QED BY <3>3, <3>8, <4>1
    <3>5. ASSUME after[k].ok
          PROVE  /\ \A j \in 1..k : validate(rules[j])
                 /\ \A i, j \in 1..k : i # j => rules[i].id # rules[j].id
      <4>1. after[k - 1].ok /\ validate(rules[k]) /\ rules[k].id \notin after[k - 1].seen
        BY <3>5, <3>8
      <4>2. \A j \in 1..(k - 1) : validate(rules[j]) /\ rules[j].id # rules[k].id
        BY <3>2, <4>1 DEF Checked
      <4>3. \A i, j \in 1..(k - 1) : i # j => rules[i].id # rules[j].id
        BY <3>2, <4>1 DEF Checked
      <4>. QED BY <3>3, <4>1, <4>2, <4>3
    <3>6. Checked(rules, k, after[k])
      BY <3>4, <3>5 DEF Checked
    <3>. QED BY <3>6
  <2>. QED BY <2>2, <2>3
<1>. QED BY <1>1, <1>2, <1>6

\* What is kept of the first i rules.
Filtered(rules, i, kept) ==
    /\ kept \in Seq(RuleSpec)
    /\ \A p \in DOMAIN kept : \E a \in 1..i : kept[p] = rules[a] /\ Enabled(rules[a])
    /\ \A p, q \in DOMAIN kept : p # q => kept[p].id # kept[q].id

\* The engine gets rules of the file that are enabled, each once.
LEMMA FromSpecsIs ==
    ASSUME NEW rules \in Seq(RuleSpec),
           \A i, j \in 1..Len(rules) : i # j => rules[i].id # rules[j].id
    PROVE  Filtered(rules, Len(rules), from_specs(rules))
<1>. DEFINE n == Len(rules)
            State == Seq(RuleSpec)
            Step(prior, r) == IF Enabled(r) THEN Append(prior, r) ELSE prior
            G(x) == [i \in 0..n |-> IF i = 0 THEN <<>> ELSE Step(x[i - 1], rules[i])]
            kept == CHOOSE x : x = G(x)
<1>1. n \in Nat /\ \A i \in 1..n : rules[i] \in RuleSpec
  BY LenProperties, ElementOfSeq
<1>2. from_specs(rules) = kept[n]
  BY DEF from_specs
<1>3. \E x : x = G(x)
  <2>. DEFINE F == [p \in (1..n) \X State |-> Step(p[2], rules[p[1]])]
  <2>1. \A st \in State, i \in 1..n : Step(st, rules[i]) \in State
    BY <1>1, AppendProperties
  <2>2. <<>> \in State
    BY EmptySeq
  <2>3. F \in [(1..n) \X State -> State]
    <3>. HIDE DEF Step, State
    <3>. QED BY <2>1
  <2>4. PICK e \in [0..n -> State] : Follows(e, <<>>, n, F)
    <3>. HIDE DEF F, State, n
    <3>. QED BY <1>1, <2>2, <2>3, Recursion
  <2>5. \A i \in 1..n : i \in 0..n /\ i - 1 \in 0..n
    BY <1>1
  <2>6. e[0] = <<>> /\ \A i \in 1..n : e[i] = Step(e[i - 1], rules[i])
    <3>1. \A i \in 1..n : e[i - 1] \in State
      BY <2>5
    <3>. HIDE DEF Step, State
    <3>. QED BY <2>4, <3>1 DEF Follows
  <2>7. e = G(e)
    <3>1. \A i \in 0..n : i # 0 => i \in 1..n
      BY <1>1
    <3>. HIDE DEF Step, State
    <3>2. \A i \in 0..n : e[i] = G(e)[i]
      BY <2>6, <3>1
    <3>. QED BY <3>2
  <2>. HIDE DEF G
  <2>. QED BY <2>7
<1>4. kept = G(kept)
  <2>. HIDE DEF G
  <2>. QED BY <1>3
<1>. HIDE DEF kept
<1>5. kept[0] = <<>> /\ \A i \in 1..n : kept[i] = Step(kept[i - 1], rules[i])
  <2>1. 0 \in 0..n /\ \A i \in 1..n : i \in 0..n /\ i # 0
    BY <1>1
  <2>. HIDE DEF Step
  <2>. QED BY <1>4, <2>1
<1>. DEFINE Bad == {i \in 0..n : ~Filtered(rules, i, kept[i])}
<1>6. ASSUME Bad # {} PROVE FALSE
  <2>1. PICK k \in Bad : \A j \in Bad : k <= j
    <3>1. Bad \subseteq Nat
      OBVIOUS
    <3>. HIDE DEF Bad
    <3>. QED BY <1>6, <3>1, Least
  <2>2. CASE k = 0
    <3>1. Filtered(rules, 0, <<>>)
      BY EmptySeq DEF Filtered
    <3>. QED BY <1>5, <2>2, <3>1
  <2>3. CASE k # 0
    <3>1. k \in 1..n /\ k - 1 \in 0..n /\ k - 1 < k
      BY <1>1, <2>3
    <3>2. Filtered(rules, k - 1, kept[k - 1])
      <4>1. k - 1 \notin Bad
        <5>. HIDE DEF Bad
        <5>. QED BY <2>1, <3>1
      <4>. QED BY <3>1, <4>1
    <3>3. 1..k = (1..(k - 1)) \cup {k} /\ k \notin 1..(k - 1)
      BY <1>1, <3>1
    <3>4. CASE ~Enabled(rules[k])
      <4>1. kept[k] = kept[k - 1]
        BY <1>5, <3>1, <3>4
      <4>2. Filtered(rules, k, kept[k - 1])
        BY <3>2, <3>3 DEF Filtered
      <4>. QED BY <4>1, <4>2
    <3>5. CASE Enabled(rules[k])
      <4>. DEFINE old == kept[k - 1]
                  new == Append(old, rules[k])
      <4>1. kept[k] = new
        BY <1>5, <3>1, <3>5
      <4>2. old \in Seq(RuleSpec)
        BY <3>2 DEF Filtered
      <4>. HIDE DEF old
      <4>3. /\ new \in Seq(RuleSpec) /\ Len(old) \in Nat /\ DOMAIN old = 1..Len(old)
            /\ DOMAIN new = 1..(Len(old) + 1) /\ new[Len(old) + 1] = rules[k]
            /\ \A p \in 1..Len(old) : new[p] = old[p]
        BY <1>1, <3>1, <4>2, AppendProperties, LenProperties
      <4>4. DOMAIN new = DOMAIN old \cup {Len(old) + 1}
        BY <4>3
      <4>. HIDE DEF new
      <4>5. \A p \in DOMAIN old : \E a \in 1..(k - 1) : new[p] = rules[a] /\ Enabled(rules[a])
        BY <3>2, <4>3 DEF Filtered, old
      <4>6. \A a \in 1..(k - 1) : a \in 1..n /\ a # k
        BY <1>1, <3>1, <3>3
      <4>7. \A p \in DOMAIN old : new[p].id # rules[k].id
        BY <3>1, <4>5, <4>6
      <4>8. \A p, q \in DOMAIN old : p # q => new[p].id # new[q].id
        BY <3>2, <4>3 DEF Filtered, old
      <4>9. \A p \in DOMAIN new : \E a \in 1..k : new[p] = rules[a] /\ Enabled(rules[a])
        BY <3>3, <3>5, <4>3, <4>4, <4>5
      <4>10. \A p, q \in DOMAIN new : p # q => new[p].id # new[q].id
        BY <4>3, <4>4, <4>7, <4>8
      <4>11. Filtered(rules, k, new)
        BY <4>3, <4>9, <4>10 DEF Filtered
      <4>. QED BY <4>1, <4>11
    <3>. QED BY <3>4, <3>5
  <2>. QED BY <2>2, <2>3
<1>. QED BY <1>1, <1>2, <1>6

\* What is loaded can be run.
LEMMA LoadedUsable ==
    ASSUME NEW c \in Contents, parse(c)
    PROVE  Usable(from_specs(c.rules))
<1>. DEFINE rules == c.rules
            kept == from_specs(rules)
            n == Len(rules)
<1>1. rules \in Seq(RuleSpec)
  BY LoaderAssumption DEF RuleFile
<1>2. Checked(rules, n, Accepted(rules)) /\ Accepted(rules).ok
  BY <1>1, AcceptedIs DEF parse
<1>3. /\ \A j \in 1..n : validate(rules[j])
      /\ \A i, j \in 1..n : i # j => rules[i].id # rules[j].id
  BY <1>2 DEF Checked
<1>4. Filtered(rules, n, kept)
  <2>. HIDE DEF rules
  <2>. QED BY <1>1, <1>3, FromSpecsIs
<1>5. ASSUME NEW p \in DOMAIN kept
      PROVE  /\ kept[p].len > 0 /\ kept[p].len <= MaxIdLen
             /\ kept[p].window_secs.finite /\ kept[p].window_secs.value > 0
             /\ kept[p].threshold > 0 /\ Given(kept[p].enabled, TRUE)
  <2>1. PICK a \in 1..n : kept[p] = rules[a] /\ Enabled(rules[a])
    BY <1>4 DEF Filtered
  <2>2. rules[a] \in RuleSpec
    <3>. HIDE DEF rules
    <3>. QED BY <1>1, LenProperties, ElementOfSeq
  <2>3. validate(rules[a])
    BY <1>3
  <2>. DEFINE r == rules[a]
  <2>4. r.len \in Nat /\ r.threshold \in Nat
    BY <2>2 DEF RuleSpec
  <2>5. /\ r.len \in 1..MaxIdLen /\ r.window_secs.finite /\ r.window_secs.value > 0
        /\ r.threshold # 0
    BY <2>3 DEF validate, Positive
  <2>6. Given(r.enabled, TRUE)
    BY <2>1 DEF Enabled, default_enabled
  <2>7. r.len > 0 /\ r.len <= MaxIdLen /\ r.threshold > 0
    BY <2>4, <2>5, LoaderAssumption
  <2>. QED BY <2>1, <2>5, <2>6, <2>7
<1>. QED BY <1>4, <1>5 DEF Filtered, Usable

-----------------------------------------------------------------------------
(* Picking and reloading rule files.                                        *)

\* What the variables of the reloads hold.
ReloadTypes ==
    /\ content \in [Files -> Contents]
    /\ turn \in Files \cup {None} /\ watched \in Files \cup {None} /\ pending \in Files \cup {None}
    /\ raised \in [Files -> Nat]
    /\ queue \in Seq([turn : {"schedule", "apply"}, file : Files])

\* Every reload on its way is of the watched file or of one that was carried over.
Accountable == OnItsWay \subseteq carried \cup {watched}

\* Between ApplyRules and WatchRules the engine has the rules of the file picked.
JustPicked == turn # None => inForce.file = turn

ReloadInv == ReloadTypes /\ Accountable /\ JustPicked /\ RulesMeant

\* Who is in the queue.
LEMMA QueueIs ==
    ASSUME ReloadTypes
    PROVE  /\ Len(queue) \in Nat /\ DOMAIN queue = 1..Len(queue)
           /\ \A i \in 1..Len(queue) : queue[i].file \in Files
           /\ queue # <<>> => /\ Head(queue) = queue[1] /\ 1 \in 1..Len(queue)
                              /\ Head(queue).file \in Files
           /\ queue # <<>> =>
                 /\ Tail(queue) \in Seq([turn : {"schedule", "apply"}, file : Files])
                 /\ \A i \in DOMAIN Tail(queue) : \E j \in 1..Len(queue) : Tail(queue)[i] = queue[j]
<1>. DEFINE E == [turn : {"schedule", "apply"}, file : Files]
<1>1. queue \in Seq(E)
  BY DEF ReloadTypes
<1>2. \A e \in E : e.file \in Files
  OBVIOUS
<1>. HIDE DEF E
<1>3. Len(queue) \in Nat /\ DOMAIN queue = 1..Len(queue) /\ \A i \in 1..Len(queue) : queue[i] \in E
  BY <1>1, LenProperties, ElementOfSeq
<1>4. ASSUME queue # <<>>
      PROVE  /\ Head(queue) = queue[1] /\ 1 \in 1..Len(queue)
             /\ Tail(queue) \in Seq(E)
             /\ \A i \in DOMAIN Tail(queue) : \E j \in 1..Len(queue) : Tail(queue)[i] = queue[j]
  <2>1. /\ Head(queue) = queue[1] /\ Tail(queue) \in Seq(E) /\ Len(queue) > 0
        /\ Len(Tail(queue)) = Len(queue) - 1
        /\ \A i \in 1..Len(Tail(queue)) : Tail(queue)[i] = queue[i + 1]
    BY <1>1, <1>3, <1>4, HeadTailProperties, EmptySeq
  <2>2. DOMAIN Tail(queue) = 1..(Len(queue) - 1)
    BY <2>1, LenProperties
  <2>3. \A i \in 1..(Len(queue) - 1) : i + 1 \in 1..Len(queue)
    BY <1>3
  <2>. QED BY <1>3, <2>1, <2>2, <2>3
<1>. QED BY <1>2, <1>3, <1>4 DEF E

\* A turn or an event posted for a file is on its way.
LEMMA PostedIs ==
    ASSUME ReloadTypes, NEW t \in {"schedule", "apply"}, NEW f \in Files
    PROVE  LET q == Append(queue, [turn |-> t, file |-> f]) IN
           /\ q \in Seq([turn : {"schedule", "apply"}, file : Files])
           /\ \A i \in DOMAIN q : q[i].file = f \/ \E j \in DOMAIN queue : q[i] = queue[j]
<1>. DEFINE E == [turn : {"schedule", "apply"}, file : Files]
            e == [turn |-> t, file |-> f]
            q == Append(queue, e)
<1>1. queue \in Seq(E) /\ e \in E /\ e.file = f
  BY DEF ReloadTypes
<1>. HIDE DEF E, e
<1>2. /\ q \in Seq(E) /\ Len(q) = Len(queue) + 1 /\ q[Len(queue) + 1] = e
      /\ \A i \in 1..Len(queue) : q[i] = queue[i]
      /\ Len(queue) \in Nat /\ DOMAIN queue = 1..Len(queue)
  BY <1>1, AppendProperties, LenProperties
<1>3. DOMAIN q = 1..(Len(queue) + 1)
  BY <1>2, LenProperties
<1>. HIDE DEF q
<1>4. \A i \in 1..(Len(queue) + 1) : i = Len(queue) + 1 \/ i \in 1..Len(queue)
  BY <1>2
<1>5. \A i \in DOMAIN q : q[i].file = f \/ \E j \in DOMAIN queue : q[i] = queue[j]
  BY <1>1, <1>2, <1>3, <1>4
<1>. QED BY <1>2, <1>5 DEF q, e, E

\* Nothing is on its way at the start.
LEMMA ReloadStarts == ReloadInit => ReloadInv
<1>. SUFFICES ASSUME ReloadInit PROVE ReloadInv
  OBVIOUS
<1>1. ReloadTypes
  BY EmptySeq DEF ReloadInit, ReloadTypes
<1>2. OnItsWay = {}
  BY ReloadAssumption DEF ReloadInit, OnItsWay
<1>3. Usable(<<>>)
  BY DEF Usable
<1>. QED BY <1>1, <1>2, <1>3, ReloadAssumption DEF ReloadInit, ReloadInv, Accountable, JustPicked, RulesMeant

\* Rules are replaced by usable ones of the file, or not at all.
LEMMA Applied ==
    ASSUME ReloadTypes, RulesMeant, NEW f \in Files, ApplyRules(f)
    PROVE  /\ Usable(inForce'.rules)
           /\ parse(content[f]) => inForce'.file = f
           /\ ~parse(content[f]) => inForce' = inForce
<1>1. content[f] \in Contents
  BY DEF ReloadTypes
<1>2. CASE parse(content[f])
  BY <1>1, <1>2, LoadedUsable DEF ApplyRules
<1>3. CASE ~parse(content[f])
  BY <1>3 DEF ApplyRules, RulesMeant
<1>. QED BY <1>2, <1>3

\* A save is heard by the watcher of the watched file only.
LEMMA SaveKeeps == ASSUME ReloadInv, NEW f \in Files, Save(f) PROVE ReloadInv'
<1>1. /\ UNCHANGED <<picks, inForce, turn, watched, queue, pending, carried>>
      /\ content' \in [Files -> Contents]
  BY DEF ReloadInv, ReloadTypes, Save
<1>2. /\ raised' \in [Files -> Nat]
      /\ \A g \in Files : raised'[g] > 0 => raised[g] > 0 \/ g = watched
  <2>1. CASE Heard(f) /\ \E n \in 1..2 : raised' = [raised EXCEPT ![f] = @ + n]
    BY <2>1 DEF ReloadInv, ReloadTypes, Heard
  <2>2. CASE ~Heard(f) /\ UNCHANGED raised
    BY <2>2 DEF ReloadInv, ReloadTypes
  <2>. QED BY <2>1, <2>2 DEF Save
<1>3. OnItsWay' \subseteq OnItsWay \cup {watched}
  BY <1>1, <1>2 DEF OnItsWay
<1>. QED BY <1>1, <1>2, <1>3 DEF ReloadInv, ReloadTypes, Accountable, JustPicked, RulesMeant

\* An event goes to the queue.
LEMMA PostKeeps == ASSUME ReloadInv, NEW f \in Files, Post(f) PROVE ReloadInv'
<1>1. /\ UNCHANGED <<content, inForce, turn, watched, pending, carried>>
      /\ queue' = Append(queue, [turn |-> "schedule", file |-> f]) /\ raised[f] > 0
      /\ raised' \in [Files -> Nat] /\ \A g \in Files : raised'[g] > 0 => raised[g] > 0
  BY DEF ReloadInv, ReloadTypes, Post
<1>2. /\ queue' \in Seq([turn : {"schedule", "apply"}, file : Files])
      /\ \A i \in DOMAIN queue' : queue'[i].file = f \/ \E j \in DOMAIN queue : queue'[i] = queue[j]
  BY <1>1, PostedIs DEF ReloadInv
<1>3. OnItsWay' \subseteq OnItsWay
  BY <1>1, <1>2 DEF OnItsWay
<1>. QED BY <1>1, <1>2, <1>3 DEF ReloadInv, ReloadTypes, Accountable, JustPicked, RulesMeant

\* A delay that is over goes to the queue.
LEMMA FireKeeps == ASSUME ReloadInv, Fire PROVE ReloadInv'
<1>1. /\ UNCHANGED <<content, inForce, turn, watched, raised, carried>>
      /\ queue' = Append(queue, [turn |-> "apply", file |-> pending])
      /\ pending \in Files /\ pending' = None
  BY DEF ReloadInv, ReloadTypes, Fire
<1>2. /\ queue' \in Seq([turn : {"schedule", "apply"}, file : Files])
      /\ \A i \in DOMAIN queue' : queue'[i].file = pending \/ \E j \in DOMAIN queue : queue'[i] = queue[j]
  BY <1>1, PostedIs DEF ReloadInv
<1>3. OnItsWay' \subseteq OnItsWay
  BY <1>1, <1>2, ReloadAssumption DEF OnItsWay
<1>. QED BY <1>1, <1>2, <1>3 DEF ReloadInv, ReloadTypes, Accountable, JustPicked, RulesMeant

\* A file that is picked and can be loaded is in force.
LEMMA PickKeeps == ASSUME ReloadInv, NEW f \in Files, Pick(f) PROVE ReloadInv'
<1>1. /\ UNCHANGED <<content, watched, raised, queue, pending, carried>>
      /\ turn = None /\ ApplyRules(f) /\ turn' = IF parse(content[f]) THEN f ELSE None
  BY DEF Pick
<1>2. /\ Usable(inForce'.rules)
      /\ parse(content[f]) => inForce'.file = f
      /\ ~parse(content[f]) => inForce' = inForce
  BY <1>1, Applied DEF ReloadInv
<1>3. OnItsWay' = OnItsWay
  BY <1>1 DEF OnItsWay
<1>4. ReloadTypes' /\ Accountable' /\ JustPicked'
  BY <1>1, <1>2, <1>3 DEF ReloadInv, ReloadTypes, Accountable, JustPicked
<1>5. RulesMeant'
  BY <1>1, <1>2 DEF ReloadInv, RulesMeant
<1>. QED BY <1>4, <1>5 DEF ReloadInv

\* What is on its way when the watcher is replaced is carried over.
LEMMA WatchKeeps == ASSUME ReloadInv, WatchRules PROVE ReloadInv'
<1>1. /\ UNCHANGED <<content, inForce, raised, queue, pending>>
      /\ turn # None /\ watched' = turn /\ turn' = None /\ carried' = OnItsWay
  BY DEF WatchRules
<1>2. OnItsWay' = OnItsWay
  BY <1>1 DEF OnItsWay
<1>. QED BY <1>1, <1>2 DEF ReloadInv, ReloadTypes, Accountable, JustPicked, RulesMeant

\* The turn that restarts the delay.
LEMMA ScheduleKeeps == ASSUME ReloadInv, ScheduleTurn PROVE ReloadInv'
<1>1. /\ UNCHANGED <<content, inForce, turn, watched, raised, carried>>
      /\ queue # <<>> /\ pending' = Head(queue).file /\ queue' = Tail(queue)
  BY DEF ScheduleTurn, Restarted
<1>2. /\ DOMAIN queue = 1..Len(queue)
      /\ Head(queue) = queue[1] /\ 1 \in 1..Len(queue) /\ Head(queue).file \in Files
      /\ Tail(queue) \in Seq([turn : {"schedule", "apply"}, file : Files])
      /\ \A i \in DOMAIN Tail(queue) : \E j \in 1..Len(queue) : Tail(queue)[i] = queue[j]
  BY <1>1, QueueIs DEF ReloadInv
<1>3. OnItsWay' \subseteq OnItsWay
  BY <1>1, <1>2 DEF OnItsWay
<1>. QED BY <1>1, <1>2, <1>3 DEF ReloadInv, ReloadTypes, Accountable, JustPicked, RulesMeant

\* The turn that reloads.
LEMMA ApplyKeeps == ASSUME ReloadInv, ApplyTurn PROVE ReloadInv'
<1>. DEFINE f == Head(queue).file
<1>1. /\ UNCHANGED <<content, turn, watched, raised, pending, carried>>
      /\ queue # <<>> /\ queue' = Tail(queue) /\ turn = None /\ ApplyRules(f)
  BY DEF ApplyTurn
<1>2. /\ DOMAIN queue = 1..Len(queue)
      /\ Head(queue) = queue[1] /\ 1 \in 1..Len(queue) /\ f \in Files
      /\ Tail(queue) \in Seq([turn : {"schedule", "apply"}, file : Files])
      /\ \A i \in DOMAIN Tail(queue) : \E j \in 1..Len(queue) : Tail(queue)[i] = queue[j]
  BY <1>1, QueueIs DEF ReloadInv
<1>3. OnItsWay' \subseteq OnItsWay /\ f \in OnItsWay
  BY <1>1, <1>2 DEF OnItsWay
<1>4. /\ Usable(inForce'.rules)
      /\ parse(content[f]) => inForce'.file = f
      /\ ~parse(content[f]) => inForce' = inForce
  <2>. HIDE DEF f
  <2>. QED BY <1>1, <1>2, Applied DEF ReloadInv
<1>. HIDE DEF f
<1>5. ReloadTypes' /\ Accountable' /\ JustPicked'
  BY <1>1, <1>2, <1>3 DEF ReloadInv, ReloadTypes, Accountable, JustPicked
<1>6. RulesMeant'
  <2>1. f \in carried \cup {watched}
    BY <1>3 DEF ReloadInv, Accountable
  <2>. QED BY <1>1, <1>4, <2>1 DEF ReloadInv, RulesMeant
<1>. QED BY <1>5, <1>6 DEF ReloadInv

\* The invariant of the reloads.
LEMMA ReloadInductive == ReloadSpec => []ReloadInv
<1>1. ReloadInv /\ [ReloadNext]_reloadVars => ReloadInv'
  <2>. SUFFICES ASSUME ReloadInv, [ReloadNext]_reloadVars PROVE ReloadInv'
    OBVIOUS
  <2>1. CASE UNCHANGED reloadVars
    BY <2>1 DEF reloadVars, ReloadInv, ReloadTypes, Accountable, OnItsWay, JustPicked, RulesMeant
  <2>. QED BY <2>1, SaveKeeps, PostKeeps, PickKeeps, FireKeeps, WatchKeeps, ScheduleKeeps, ApplyKeeps
           DEF ReloadNext
<1>. QED BY <1>1, ReloadStarts, PTL DEF ReloadSpec

\* However saves, picks, events, delays and turns interleave, the engine runs the rules of the
\* file picked last, or of one whose reload was on its way then; and whatever the files hold,
\* it can run them.
THEOREM RulesStayMeant == ReloadSpec => []RulesMeant
<1>1. ReloadInv => RulesMeant
  BY DEF ReloadInv
<1>. QED BY <1>1, ReloadInductive, PTL
=============================================================================
