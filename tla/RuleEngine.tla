----------------------------- MODULE RuleEngine -----------------------------
(***************************************************************************)
(* One rule of the rule engine (core/src/rules/engine.rs, window.rs): a    *)
(* sliding window of events per source, counted as distinct values (ports, *)
(* hosts) or as events, an alert at the threshold, a cooldown per source,  *)
(* and an LRU cache that bounds the sources tracked.  Rules share nothing, *)
(* so one rule stands for each.                                            *)
(***************************************************************************)
EXTENDS Naturals, Sequences, FiniteSets, SequencesExt

CONSTANTS
    Sources, Values,
    Window, Cooldown, Threshold,
    MaxSources,   \* MAX_TRACKED_SOURCES (10,000)
    MaxEvents,    \* MAX_EVENTS_PER_SOURCE (65,536)
    MaxTime,      \* bound: latest timestamp
    MaxPackets    \* bound: packets

ASSUME RuleAssumption ==
    /\ Window \in Nat /\ Cooldown \in Nat /\ Threshold \in Nat
    /\ MaxSources \in Nat \ {0} /\ MaxEvents \in Nat \ {0}
    /\ MaxTime \in Nat /\ MaxPackets \in Nat

VARIABLES
    distinct, \* spec.kind: port_scan and host_sweep count values, the others events
    lru,     \* the sources tracked, least recently used first
    events,  \* [Sources -> VecDeque of the tracker], <<>> when not tracked
    counts,  \* [Sources -> [Values -> DistinctWindow.counts]]
    fired,   \* [Sources -> last_fired_us as a sequence of at most one]
    history, \* history: all events [src, ts, value]
    alerts   \* the alerts raised: [at, index of the event; observed, the count reported]

vars == <<distinct, lru, events, counts, fired, history, alerts>>

NoCounts == [v \in Values |-> 0]

Init ==
    /\ distinct \in BOOLEAN
    /\ lru = <<>> /\ history = <<>> /\ alerts = <<>>
    /\ events = [s \in Sources |-> <<>>] /\ counts = [s \in Sources |-> NoCounts]
    /\ fired = [s \in Sources |-> <<>>]

-----------------------------------------------------------------------------
(* DistinctWindow and CountWindow: the events kept after an add.            *)

\* evict_before(ts.saturating_sub(window)): old events leave from the front only
Stale(e, ts) == e.ts + Window < ts

KeptFrom(es, ts) ==
    LET fresh == {i \in DOMAIN es : ~Stale(es[i], ts)}
    IN  IF fresh = {} THEN Len(es) + 1 ELSE CHOOSE i \in fresh : \A j \in fresh : i <= j

\* mutant: a window at its limit keeps growing
Unbounded(es) == es

\* a window at its limit makes room by dropping its oldest event
Bounded(es) == IF Len(es) = MaxEvents THEN Tail(es) ELSE es

Kept(es, ts) == Bounded(SubSeq(es, KeptFrom(es, ts), Len(es)))

Occurrences(es, v) == Cardinality({i \in DOMAIN es : es[i].value = v})

\* mutant: the last event of a value is not taken back
Decremented1(n, k) == IF n > k THEN n - k ELSE n

\* pop_oldest takes the events' values out of the counts again
Decremented(n, k) == n - k

CountsAfter(s, kept, v) ==
    [x \in Values |->
        Decremented(counts[s][x], Occurrences(events[s], x) - Occurrences(kept, x))
            + (IF x = v THEN 1 ELSE 0)]

\* add returns counts.len() or events.len()
Size(es, cs) == IF distinct THEN Cardinality({v \in Values : cs[v] > 0}) ELSE Len(es)

-----------------------------------------------------------------------------
(* CompiledRule::observe and evaluate.                                      *)

\* mutant: the source that was used last is the one forgotten
ForgetNewest == lru[Len(lru)]

ForgetOldest == Head(lru)

\* get_or_insert_mut: the source becomes the most recently used, a full cache forgets one
Forgotten(s) == IF Contains(lru, s) \/ Len(lru) < MaxSources THEN {} ELSE {ForgetOldest}

\* where the source is, or the one forgotten for it: at most one place
Leaving(s) == {i \in DOMAIN lru : lru[i] \in Forgotten(s) \cup {s}}

MostRecent(s) ==
    Append(IF Leaving(s) = {} THEN lru ELSE RemoveAt(lru, CHOOSE i \in Leaving(s) : TRUE), s)

Cooling(last, ts) == last # <<>> /\ ts < last[1] + Cooldown

Evaluate(s, v, ts) ==
    LET kept == Kept(events[s], ts)
        es   == Append(kept, [ts |-> ts, value |-> v])
        cs   == CountsAfter(s, kept, v)
        hit  == Size(es, cs) >= Threshold /\ ~Cooling(fired[s], ts)
        lose == Forgotten(s)
    IN  /\ lru' = MostRecent(s)
        /\ events' = [x \in Sources |-> IF x = s THEN es ELSE IF x \in lose THEN <<>> ELSE events[x]]
        /\ counts' = [x \in Sources |-> IF x = s THEN cs
                                        ELSE IF x \in lose THEN NoCounts ELSE counts[x]]
        /\ fired' = [x \in Sources |-> IF x = s /\ hit THEN <<ts>>
                                       ELSE IF x \in lose THEN <<>> ELSE fired[x]]
        /\ history' = Append(history, [src |-> s, ts |-> ts, value |-> v])
        /\ alerts' = IF hit THEN Append(alerts, [at |-> Len(history'), observed |-> Size(es, cs)])
                     ELSE alerts
        /\ UNCHANGED distinct

Timestamps ==
    IF history = <<>> THEN 0..MaxTime ELSE Last(history).ts..MaxTime

Next ==
    /\ Len(history) < MaxPackets
    /\ \E s \in Sources, v \in Values, ts \in Timestamps : Evaluate(s, v, ts)

Spec == Init /\ [][Next]_vars

-----------------------------------------------------------------------------
(* Properties.                                                             *)

Events == [ts : 0..MaxTime, value : Values]

\* Every variable has its type; a flood of sources or of packets never makes a rule keep
\* more than its limits.
TypeOK ==
    /\ distinct \in BOOLEAN /\ lru \in Seq(Sources) /\ Len(lru) <= MaxSources
    /\ events \in [Sources -> Seq(Events)] /\ counts \in [Sources -> [Values -> Nat]]
    /\ fired \in [Sources -> Seq(0..MaxTime)]
    /\ \A s \in Sources :
          /\ Len(events[s]) <= MaxEvents
          /\ ~Contains(lru, s) => events[s] = <<>> /\ fired[s] = <<>>
    /\ history \in Seq([src : Sources, ts : 0..MaxTime, value : Values])
    /\ alerts \in Seq([at : DOMAIN history, observed : Nat])

\* The counts a distinct window keeps on the side, which are never recomputed, agree with
\* the events it holds after any sequence of expiries and overflows.
CountsAgree ==
    \A s \in Sources, v \in Values : counts[s][v] = Occurrences(events[s], v)

Detector == INSTANCE RuleDetector WITH Times <- 0..MaxTime

\* While packets come in order the rule raises exactly the alerts, with exactly the counts,
\* that the history calls for: sliding and clipping windows by increments, side counts and
\* the LRU cache with its cooldowns forget what the detector forgets and nothing else.
ImplementsDetector == Detector!Spec
=============================================================================
