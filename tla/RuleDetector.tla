---------------------------- MODULE RuleDetector ----------------------------
(***************************************************************************)
(* What a rule promises, stated over the history of all its events: an     *)
(* alert when the latest events of a source within the window reach the    *)
(* threshold, unless it had one less than a cooldown ago.  A source is     *)
(* remembered until MaxSources others have been seen since its last event. *)
(* RuleEngine.tla keeps an LRU cache of sliding windows and implements it. *)
(***************************************************************************)
EXTENDS Naturals, Sequences, FiniteSets

CONSTANTS Sources, Values, Times, Window, Cooldown, Threshold, MaxSources, MaxEvents

VARIABLES
    distinct, \* whether the rule counts distinct values or events
    history,  \* all events [src, ts, value], in the order seen
    alerts    \* the alerts: [at, the event that raised it; observed, what it reports]

vars == <<distinct, history, alerts>>

Init == distinct \in BOOLEAN /\ history = <<>> /\ alerts = <<>>

EventsOf(s, h) == {i \in DOMAIN h : h[i].src = s}

\* The source was not pushed out between event i and the end: it never stayed silent while
\* MaxSources others were seen.
Remembered(s, h, i) ==
    \A j \in EventsOf(s, h) : j >= i /\ j # Len(h) =>
        LET later == {k \in EventsOf(s, h) : k > j}
            next  == CHOOSE k \in later : \A x \in later : k <= x
        IN  Cardinality({h[k].src : k \in (j + 1)..(next - 1)}) < MaxSources

\* The events that count for the last event of h: those remembered, in its window, and of
\* these the latest MaxEvents
Counting(s, h) ==
    LET recent == {i \in EventsOf(s, h) :
                      h[i].ts + Window >= h[Len(h)].ts /\ Remembered(s, h, i)}
    IN  {i \in recent : Cardinality({k \in recent : k > i}) < MaxEvents}

Observed(s, h) ==
    IF distinct THEN Cardinality({h[i].value : i \in Counting(s, h)})
    ELSE Cardinality(Counting(s, h))

Cooling(s, h) ==
    \E n \in DOMAIN alerts :
        LET i == alerts[n].at IN
        h[i].src = s /\ Remembered(s, h, i) /\ h[Len(h)].ts < h[i].ts + Cooldown

Event(s, v, ts) ==
    LET h == Append(history, [src |-> s, ts |-> ts, value |-> v]) IN
    /\ history' = h
    /\ alerts' = IF Observed(s, h) >= Threshold /\ ~Cooling(s, h)
                 THEN Append(alerts, [at |-> Len(h), observed |-> Observed(s, h)]) ELSE alerts
    /\ UNCHANGED distinct

Next == \E s \in Sources, v \in Values, ts \in Times : Event(s, v, ts)

Spec == Init /\ [][Next]_vars
=============================================================================
