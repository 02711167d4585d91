----------------------------- MODULE AlertQueue -----------------------------
(***************************************************************************)
(* The way of an alert from the thread that raises it to the host program: *)
(* Shared::ingest, Shared::push_alert and NcCore::pop_alert of             *)
(* core-ffi/src/core.rs.  Producers are the capture thread, the threads    *)
(* that feed packets and the analytics exporter; the host drains through   *)
(* core_poll_alert.  The engine mutex covers the evaluation only: the      *)
(* alerts it returns are pushed one by one after it is released, and an    *)
(* alert is counted before the queue's own mutex is taken.                 *)
(***************************************************************************)
EXTENDS Naturals, Sequences, FiniteSets

CONSTANTS
    Producers,
    Capacity,   \* ALERT_QUEUE_CAPACITY (1024)
    PerFrame,   \* bound: alerts one frame raises
    MaxAlerts   \* bound: alerts raised in all

ASSUME QueueAssumption ==
    /\ Capacity \in Nat \ {0} /\ PerFrame \in Nat /\ MaxAlerts \in Nat
    /\ IsFiniteSet(Producers)

VARIABLES
    raised,   \* number of alerts the engine and the exporter have raised
    pending,  \* [Producers -> alerts of the producer's frame not pushed yet]
    counted,  \* producers between fetch_add on alerts_total and the queue's mutex
    total,    \* alerts_total
    dropped,  \* alerts_dropped
    queue,    \* Shared.alerts
    pushed,   \* history: the alerts in the order they entered the queue
    popped    \* alerts pop_alert has handed out

vars == <<raised, pending, counted, total, dropped, queue, pushed, popped>>

Init ==
    /\ raised = 0 /\ pending = [p \in Producers |-> <<>>] /\ counted = {}
    /\ total = 0 /\ dropped = 0 /\ queue = <<>> /\ pushed = <<>> /\ popped = 0

\* Engine::process and drain_alerts under the engine mutex: the alerts of one frame
Ingest(p) ==
    /\ pending[p] = <<>>
    /\ \E k \in 1..PerFrame :
          /\ raised + k <= MaxAlerts /\ raised' = raised + k
          /\ pending' = [pending EXCEPT ![p] = [i \in 1..k |-> [by |-> p, n |-> raised + i]]]
    /\ UNCHANGED <<counted, total, dropped, queue, pushed, popped>>

\* push_alert: alerts_total is raised before the queue is locked ...
Count(p) ==
    /\ pending[p] # <<>> /\ p \notin counted
    /\ counted' = counted \cup {p} /\ total' = total + 1
    /\ UNCHANGED <<raised, pending, dropped, queue, pushed, popped>>

\* mutant: the alerts of a frame are taken from the back
TakeLast(s) == s[Len(s)]

NextOf(s) == Head(s)

\* mutants: the newest alert makes room, the full queue is noticed one alert late,
\* the overflow is not counted
EvictNewest(a) ==
    IF Len(queue) = Capacity
    THEN queue' = Append(SubSeq(queue, 1, Capacity - 1), a) /\ dropped' = dropped + 1
    ELSE queue' = Append(queue, a) /\ UNCHANGED dropped

EvictUncounted(a) ==
    /\ queue' = Append(IF Len(queue) = Capacity THEN Tail(queue) ELSE queue, a)
    /\ UNCHANGED dropped

Enqueue(a) ==
    IF Len(queue) = Capacity THEN queue' = Append(Tail(queue), a) /\ dropped' = dropped + 1
                             ELSE queue' = Append(queue, a) /\ UNCHANGED dropped

\* ... and under the queue's mutex a full queue loses its oldest alert
Push(p) ==
    /\ p \in counted /\ counted' = counted \ {p}
    /\ Enqueue(NextOf(pending[p])) /\ pushed' = Append(pushed, NextOf(pending[p]))
    /\ pending' = [pending EXCEPT ![p] = Tail(@)]
    /\ UNCHANGED <<raised, total, popped>>

\* core_poll_alert
Pop ==
    /\ queue # <<>> /\ queue' = Tail(queue) /\ popped' = popped + 1
    /\ UNCHANGED <<raised, pending, counted, total, dropped, pushed>>

Next == Pop \/ \E p \in Producers : Ingest(p) \/ Count(p) \/ Push(p)

Spec == Init /\ [][Next]_vars

-----------------------------------------------------------------------------
(* Properties.                                                             *)

Alerts == [by : Producers, n : 1..MaxAlerts]

\* Every variable has its type and the queue its capacity.
TypeOK ==
    /\ raised \in 0..MaxAlerts /\ pending \in [Producers -> Seq(Alerts)]
    /\ counted \in SUBSET Producers
    /\ total \in Nat /\ dropped \in Nat /\ popped \in Nat
    /\ queue \in Seq(Alerts) /\ pushed \in Seq(Alerts)
    /\ Len(queue) <= Capacity

\* alerts_total accounts for every alert at every moment: it was handed out, is queued,
\* was dropped as the oldest of a full queue, or is between its count and its push.
Accounted == total = popped + Len(queue) + dropped + Cardinality(counted)

\* What is queued is exactly the newest alerts that were pushed, in push order: an alert
\* is lost only after every older one has been handed out or lost.
NewestKept ==
    /\ Len(queue) <= Len(pushed)
    /\ queue = SubSeq(pushed, Len(pushed) - Len(queue) + 1, Len(pushed))

\* Producers may overtake each other between the engine and the queue, but the alerts of
\* one producer enter the queue in the order they were raised, and none twice.
OwnOrder ==
    \A i, j \in DOMAIN pushed :
        i < j /\ pushed[i].by = pushed[j].by => pushed[i].n < pushed[j].n
=============================================================================
