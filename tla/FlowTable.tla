----------------------------- MODULE FlowTable -----------------------------
(***************************************************************************)
(* The engine's clock and its flow table (core/src/engine.rs, flow.rs):    *)
(* bidirectional flows in an LRU cache of fixed capacity, expired on       *)
(* packet time.  Every frame advances the clock before it is parsed, so a  *)
(* frame that fails to parse, or is not tracked, expires flows too.        *)
(***************************************************************************)
EXTENDS Integers, Sequences, FiniteSets, SequencesExt

CONSTANTS
    Endpoints,       \* endpoints, as numbers: they are ordered
    MaxFlows,        \* EngineConfig.max_flows
    IdleTimeout,     \* EngineConfig.flow_idle_timeout_us
    ExpiryInterval,  \* EXPIRY_INTERVAL_US
    MaxTime,         \* bound: latest timestamp
    MaxPackets       \* bound: frames

ASSUME FlowAssumption ==
    /\ Endpoints \subseteq Nat /\ IsFiniteSet(Endpoints)
    /\ MaxFlows \in Nat \ {0} /\ IdleTimeout \in Nat /\ ExpiryInterval \in Nat
    /\ MaxTime \in Nat /\ MaxPackets \in Nat

VARIABLES
    lru,         \* keys of FlowTable.flows, least recently used first
    stats,       \* [key in lru -> FlowStats]
    evicted,     \* FlowTable.evicted
    expired,     \* FlowTable.expired
    lastTs,      \* Engine.last_ts_us
    nextExpiry,  \* Engine.next_expiry_us
    packets,     \* Engine.counters.packets
    created,     \* history: flows ever entered
    seen,        \* history: tracked packets, by who sent them to whom
    retired,     \* history: those of them in flows that were evicted or expired
    inOrder      \* history: no timestamp has gone back so far

history == <<created, seen, retired, inOrder>>
vars == <<lru, stats, evicted, expired, lastTs, nextExpiry, packets, history>>

Pairs == Endpoints \X Endpoints

Keys == {k \in Endpoints \X Endpoints : k[1] <= k[2]}

\* FlowKey::canonical, and the direction of a packet within the flow
Canonical(src, dst) == IF src <= dst THEN <<src, dst>> ELSE <<dst, src>>
Direction(src, dst) == IF src <= dst THEN 1 ELSE 2

\* total_bytes, with every packet one byte long
Total(s) == s.packets[1] + s.packets[2]

Later(t, u) == IF t < u THEN u ELSE t

Init ==
    /\ lru = <<>> /\ stats = [k \in {} |-> 0] /\ evicted = 0 /\ expired = 0
    /\ lastTs = 0 /\ nextExpiry = 0 /\ packets = 0
    /\ created = 0 /\ seen = [p \in Pairs |-> 0] /\ retired = seen /\ inOrder = TRUE

-----------------------------------------------------------------------------
(* FlowTable::expire pops idle flows from the least recently used end and   *)
(* stops at the first that is not idle.                                     *)

Idle(s, now) == s.last + IdleTimeout <= now

IdleCount(now) ==
    LET kept == {i \in DOMAIN lru : ~Idle(stats[lru[i]], now)}
    IN  IF kept = {} THEN Len(lru) ELSE (CHOOSE i \in kept : \A j \in kept : i <= j) - 1

Due(now) == now >= nextExpiry

\* advance_clock: how many flows this timestamp expires
Expiring(now) == IF Due(now) THEN IdleCount(now) ELSE 0

\* the flows this timestamp leaves
Remaining(ts) == SubSeq(lru, Expiring(Later(lastTs, ts)) + 1, Len(lru))

\* packets of a pair that the flows of these keys have counted
Counted(keys, src, dst) ==
    IF Canonical(src, dst) \in keys THEN stats[Canonical(src, dst)].packets[Direction(src, dst)]
                                    ELSE 0

Retire(keys) == retired' = [p \in Pairs |-> retired[p] + Counted(keys, p[1], p[2])]

Advance(ts) ==
    LET now == Later(lastTs, ts)
        n   == Expiring(now)
    IN  /\ lastTs' = now /\ expired' = expired + n
        /\ nextExpiry' = IF Due(now) THEN now + ExpiryInterval ELSE nextExpiry
        /\ inOrder' = (inOrder /\ ts >= lastTs)

-----------------------------------------------------------------------------
(* FlowTable::update on the flows that are left after expiry.               *)

\* mutant: a packet of a known flow does not make it recently used
Unmoved(keys, k) == keys

MostRecent(keys, k) == Append(RemoveAt(keys, CHOOSE i \in DOMAIN keys : keys[i] = k), k)

\* mutant: last_seen is the timestamp of the latest frame to arrive
LastArrived(s, ts) == ts

LastSeen(s, ts) == Later(s.last, ts)

\* mutant: the packet that opens a flow is not counted
EmptyFlow(ts, d) == [first |-> ts, last |-> ts, packets |-> [i \in 1..2 |-> 0]]

NewFlow(ts, d) == [first |-> ts, last |-> ts, packets |-> [i \in 1..2 |-> IF i = d THEN 1 ELSE 0]]

Touched(s, ts, d) ==
    [s EXCEPT !.last = LastSeen(s, ts), !.packets[d] = @ + 1]

StatsOf(keys) == [k \in ToSet(keys) |-> stats[k]]

Entered(keys, k, ts, d) ==
    [x \in ToSet(keys) \cup {k} |-> IF x = k THEN NewFlow(ts, d) ELSE stats[x]]

CountEviction == evicted' = evicted + 1

Update(ts, src, dst) ==
    LET k    == Canonical(src, dst)
        left == Remaining(ts)
        d    == Direction(src, dst)
    IN  \/ /\ Contains(left, k)
           /\ lru' = MostRecent(left, k)
           /\ stats' = [StatsOf(left) EXCEPT ![k] = Touched(@, ts, d)]
           /\ Retire(ToSet(lru) \ ToSet(left))
           /\ UNCHANGED <<evicted, created>>
        \/ /\ ~Contains(left, k) /\ Len(left) < MaxFlows
           /\ lru' = Append(left, k) /\ stats' = Entered(left, k, ts, d)
           /\ created' = created + 1 /\ Retire(ToSet(lru) \ ToSet(left))
           /\ UNCHANGED evicted
        \/ /\ ~Contains(left, k) /\ Len(left) = MaxFlows
           /\ lru' = Append(Tail(left), k) /\ stats' = Entered(Tail(left), k, ts, d)
           /\ CountEviction /\ created' = created + 1
           /\ Retire(ToSet(lru) \ ToSet(Tail(left)))

\* Engine::process on a frame that is counted and tracked
ProcessTracked(ts, src, dst) ==
    /\ Advance(ts) /\ Update(ts, src, dst)
    /\ packets' = packets + 1 /\ seen' = [seen EXCEPT ![<<src, dst>>] = @ + 1]

\* Engine::process on a parse error, a non-IP packet or a later fragment
ProcessUntracked(ts) ==
    /\ Advance(ts)
    /\ lru' = Remaining(ts) /\ stats' = StatsOf(Remaining(ts))
    /\ Retire(ToSet(lru) \ ToSet(Remaining(ts)))
    /\ packets' = packets + 1
    /\ UNCHANGED <<evicted, created, seen>>

Next ==
    /\ packets < MaxPackets
    /\ \E ts \in 0..MaxTime :
          \/ \E src, dst \in Endpoints : ProcessTracked(ts, src, dst)
          \/ ProcessUntracked(ts)

Spec == Init /\ [][Next]_vars

-----------------------------------------------------------------------------
(* FlowTable::top_by_bytes: a bounded heap over the cache, then a sort.     *)

KeyLess(x, y) == x[1] < y[1] \/ (x[1] = y[1] /\ x[2] < y[2])

\* Reverse((bytes, key)): what the heap pops first
Smaller(x, y) ==
    \/ Total(stats[x]) < Total(stats[y])
    \/ Total(stats[x]) = Total(stats[y]) /\ KeyLess(x, y)

\* mutant: without Reverse the heap pops its largest flow
PopLargest(heap) == heap \ {CHOOSE x \in heap : \A y \in heap \ {x} : Smaller(y, x)}

PopSmallest(heap) == heap \ {CHOOSE x \in heap : \A y \in heap \ {x} : Smaller(x, y)}

Heap(n) ==
    FoldLeft(LAMBDA heap, k : IF Cardinality(heap) = n THEN PopSmallest(heap \cup {k})
                                                      ELSE heap \cup {k},
             {}, Reverse(lru))

Before(x, y) ==
    \/ Total(stats[x]) > Total(stats[y])
    \/ Total(stats[x]) = Total(stats[y]) /\ KeyLess(x, y)

\* top.sort_by
Sorted(flows) ==
    CHOOSE s \in [1..Cardinality(flows) -> flows] :
        \A i, j \in 1..Cardinality(flows) : i < j => Before(s[i], s[j])

TopByBytes(n) == IF n = 0 THEN <<>> ELSE Sorted(Heap(n))

-----------------------------------------------------------------------------
(* Properties.                                                             *)

\* Every variable has its type; the table holds each flow once and at most MaxFlows, and
\* duration_us, which subtracts first_seen from last_seen, has one too: with timestamps in
\* any order it never underflows, and no flow lies in the future of the clock.
TypeOK ==
    /\ lru \in Seq(Keys) /\ Len(lru) <= MaxFlows
    /\ \A i, j \in DOMAIN lru : i # j => lru[i] # lru[j]
    /\ stats \in [ToSet(lru) -> [first : Nat, last : Nat, packets : [1..2 -> Nat]]]
    /\ evicted \in Nat /\ expired \in Nat
    /\ created \in Nat /\ seen \in [Pairs -> Nat] /\ retired \in [Pairs -> Nat]
    /\ inOrder \in BOOLEAN /\ lastTs \in Nat /\ nextExpiry \in Nat /\ packets \in Nat
    /\ \A k \in ToSet(lru) : stats[k].first <= stats[k].last /\ stats[k].last <= lastTs

\* The statistics a host sees add up: every flow ever created is active, was evicted or
\* has expired, and every tracked packet is counted once, in the flow of its two endpoints
\* and for the side that sent it, whatever was evicted or expired in between.
Accounted ==
    /\ created = Len(lru) + evicted + expired
    /\ \A src, dst \in Endpoints :
          seen[<<src, dst>>] = Counted(ToSet(lru), src, dst) + retired[<<src, dst>>]

NoIdleLeft ==
    inOrder' /\ lastTs' >= nextExpiry =>
        \A k \in DOMAIN stats \cap DOMAIN stats' :
            Idle(stats[k], lastTs') => stats'[k].first = lastTs' /\ Total(stats'[k]) = 1

OnlyIdleOrOldest ==
    \A k \in DOMAIN stats \ DOMAIN stats' :
        \/ stats[k].last + IdleTimeout <= lastTs'
        \/ /\ evicted' = evicted + 1 /\ Len(lru') = MaxFlows
           /\ inOrder => \A x \in DOMAIN stats \cap DOMAIN stats' :
                            stats[k].last <= stats[x].last

\* README: "120 s idle timeout on packet time".  As long as timestamps come in order, an
\* expiry pass leaves no flow that has been idle for the timeout (one with its key is new),
\* though it looks at them in the order of their use and stops at the first that is not
\* idle.  And with any
\* timestamps a flow that leaves was idle, or the table was full and (in order) none that
\* is left was used longer ago.
ExpiryExact == [][packets' > packets => NoIdleLeft /\ OnlyIdleOrOldest]_vars

\* top_by_bytes returns the largest flows, largest first, as many as asked for.
TopIsTop ==
    \A n \in 0..MaxFlows :
        LET top == TopByBytes(n) IN
        /\ Len(top) = (IF n < Len(lru) THEN n ELSE Len(lru))
        /\ \A i, j \in DOMAIN top : i < j => Total(stats[top[i]]) >= Total(stats[top[j]])
        /\ \A i \in DOMAIN top : \A k \in ToSet(lru) \ ToSet(top) :
              Total(stats[top[i]]) >= Total(stats[k])
=============================================================================
