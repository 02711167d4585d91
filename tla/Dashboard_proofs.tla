-------------------------- MODULE Dashboard_proofs --------------------------
(***************************************************************************)
(* What the view shows, the buttons say and the rates are made of, for any *)
(* number of captures and any length of the UI thread's queue.             *)
(***************************************************************************)
EXTENDS Dashboard, SequenceTheorems, TLAPS

Busy == phase \in Ended \cup {"running"}

Has(s, kind) == \E i \in DOMAIN s : s[i].kind = kind

\* Every snapshot in the UI thread's queue is of one capture.
Fresh(s, src) == \A i \in DOMAIN s : s[i].kind = "snapshot" => s[i].of = src

\* The rest of StopCaptureAsync is queued behind the last snapshot of its capture.
Last(s) ==
    \A i, j \in DOMAIN s : s[i].kind = "stopped" /\ i < j => s[j].kind = "start"

\* While the application is open the flag, the poller and the core's capture go together,
\* and a stop is either awaiting the loop or queued.
Together ==
    /\ isCapturing <=> Busy
    /\ stopping => isCapturing
    /\ held => isCapturing
    /\ isCapturing /\ ~stopping => held
    /\ stopWait => stopping /\ held
    /\ Has(posted, "stopped") => stopping /\ ~held /\ ~stopWait
    /\ Has(posted, "snapshot") => isCapturing
    /\ isCapturing => rateBase \in {0, source}

Queued ==
    /\ Fresh(posted, source)
    /\ Last(posted)
    /\ loop = "post" => polled.kind = "snapshot" /\ polled.of = source

\* Open or not, the view is of one capture, and the loop takes the rates on from the capture
\* it polls.
Throughout ==
    /\ shown \subseteq {source}
    /\ loop \in {"tick", "poll", "post"} => rateBase \in {0, source}

IInv == TypeOK /\ (ui = "open" => Together /\ Queued) /\ Throughout

-----------------------------------------------------------------------------
(* The UI thread's queue.                                                   *)

\* A work item goes to the end of the queue.
LEMMA PostedAt ==
    ASSUME NEW s \in Seq(Items), NEW x \in Items
    PROVE  /\ Append(s, x) \in Seq(Items)
           /\ \A kind : Has(Append(s, x), kind) => Has(s, kind) \/ x.kind = kind
           /\ \A src : Fresh(s, src) /\ (x.kind = "snapshot" => x.of = src)
                          => Fresh(Append(s, x), src)
           /\ Last(s) /\ (x.kind # "start" => ~Has(s, "stopped")) => Last(Append(s, x))
<1>1. /\ Append(s, x) \in Seq(Items)
      /\ DOMAIN Append(s, x) = 1..Len(s) + 1 /\ DOMAIN s = 1..Len(s) /\ Len(s) \in Nat
      /\ \A i \in 1..Len(s) : Append(s, x)[i] = s[i]
      /\ Append(s, x)[Len(s) + 1] = x
  BY AppendProperties, LenProperties
<1>. DEFINE t == Append(s, x)
<1>2. \A i \in DOMAIN t : (i \in DOMAIN s /\ t[i] = s[i]) \/ (i = Len(s) + 1 /\ t[i] = x)
  BY <1>1
<1>. HIDE DEF t
<1>3. \A kind : Has(t, kind) => Has(s, kind) \/ x.kind = kind
  BY <1>2 DEF Has
<1>4. \A src : Fresh(s, src) /\ (x.kind = "snapshot" => x.of = src) => Fresh(t, src)
  BY <1>2 DEF Fresh
<1>5. ASSUME Last(s), x.kind # "start" => ~Has(s, "stopped") PROVE Last(t)
  <2>1. SUFFICES ASSUME NEW i \in DOMAIN t, NEW j \in DOMAIN t, t[i].kind = "stopped", i < j
                 PROVE  t[j].kind = "start"
    BY DEF Last
  <2>2. DOMAIN t = 1..Len(s) + 1 /\ DOMAIN s = 1..Len(s) /\ Len(s) \in Nat
    BY <1>1 DEF t
  <2>3. i \in DOMAIN s /\ t[i] = s[i]
    BY <1>2, <2>1, <2>2
  <2>4. Has(s, "stopped")
    BY <2>1, <2>3 DEF Has
  <2>. QED BY <1>2, <1>5, <2>1, <2>3, <2>4 DEF Last
<1>. QED BY <1>1, <1>3, <1>4, <1>5 DEF t

\* A turn takes the oldest work item.
LEMMA TurnTakes ==
    ASSUME NEW s \in Seq(Items), s # <<>>
    PROVE  /\ Tail(s) \in Seq(Items) /\ Head(s) \in Items
           /\ Has(s, Head(s).kind)
           /\ \A kind : Has(Tail(s), kind) => Has(s, kind)
           /\ \A src : Fresh(s, src) => Fresh(Tail(s), src)
           /\ \A src : Fresh(s, src) /\ Head(s).kind = "snapshot" => Head(s).of = src
           /\ Last(s) => Last(Tail(s))
           /\ Last(s) /\ Head(s).kind = "stopped"
                 => ~Has(Tail(s), "stopped") /\ ~Has(Tail(s), "snapshot")
<1>. DEFINE t == Tail(s)
<1>1. /\ t \in Seq(Items) /\ Len(t) = Len(s) - 1 /\ Len(s) \in Nat \ {0}
      /\ DOMAIN t = 1..Len(t) /\ DOMAIN s = 1..Len(s)
      /\ \A i \in 1..Len(t) : t[i] = s[i + 1]
      /\ Head(s) = s[1] /\ Head(s) \in Items
  BY HeadTailProperties, LenProperties, EmptySeq
<1>2. /\ \A i \in DOMAIN t : i + 1 \in DOMAIN s /\ t[i] = s[i + 1] /\ 1 < i + 1 /\ i \in Nat
      /\ 1 \in DOMAIN s
  BY <1>1
<1>. HIDE DEF t
<1>3. Has(s, Head(s).kind)
  BY <1>1, <1>2 DEF Has
<1>4. \A kind : Has(t, kind) => Has(s, kind)
  BY <1>2 DEF Has
<1>5. \A src : /\ Fresh(s, src) => Fresh(t, src)
               /\ Fresh(s, src) /\ Head(s).kind = "snapshot" => Head(s).of = src
  BY <1>1, <1>2 DEF Fresh
<1>6. ASSUME Last(s) PROVE Last(t)
  <2>1. SUFFICES ASSUME NEW i \in DOMAIN t, NEW j \in DOMAIN t, t[i].kind = "stopped", i < j
                 PROVE  t[j].kind = "start"
    BY DEF Last
  <2>2. i + 1 < j + 1 BY <1>2, <2>1
  <2>. QED BY <1>2, <1>6, <2>1, <2>2 DEF Last
<1>7. ASSUME Last(s), Head(s).kind = "stopped"
      PROVE  ~Has(t, "stopped") /\ ~Has(t, "snapshot")
  <2>1. \A i \in DOMAIN t : t[i].kind = "start"
    BY <1>1, <1>2, <1>7 DEF Last
  <2>. QED BY <2>1 DEF Has
<1>. QED BY <1>1, <1>3, <1>4, <1>5, <1>6, <1>7 DEF t

\* What the kinds of work item carry.
LEMMA ItemTypes ==
    /\ \A x \in Items : /\ x.kind \in {"snapshot", "start", "stopped"}
                        /\ x.kind = "snapshot" => x.of \in Captures
                        /\ x.kind = "start" => x.who \in {"demo", "command"}
    /\ [kind |-> "stopped"] \in Items
    /\ \A who \in {"demo", "command"} : [kind |-> "start", who |-> who] \in Items
BY DEF Items

\* The snapshot the loop takes.
LEMMA SnapshotTypes ==
    source \in Captures => Snapshot \in Items /\ Snapshot.kind = "snapshot" /\ Snapshot.of = source
BY DEF Snapshot, Items, Ended

\* The queue has lost work items at its head, or none.
Shorter ==
    /\ posted' \in Seq(Items)
    /\ \A kind : Has(posted', kind) => Has(posted, kind)
    /\ \A src : Fresh(posted, src) => Fresh(posted', src)
    /\ Last(posted) => Last(posted')

LEMMA ShorterQueue ==
    ASSUME TypeOK
    PROVE  /\ UNCHANGED posted => Shorter
           /\ \A kind : Turn(kind) => Shorter
BY TurnTakes DEF Shorter, Turn, TypeOK

-----------------------------------------------------------------------------
(* The invariant, action by action.                                         *)

LEMMA InitInvariant == Init => IInv
<1>. SUFFICES ASSUME Init PROVE IInv
  OBVIOUS
<1>1. TypeOK
  <2>1. /\ posted \in Seq(Items) /\ polled \in Items /\ 0 \in Captures
        /\ starting \in SUBSET {"demo", "command"}
    BY DashboardAssumption DEF Init, Nothing, Items, Captures
  <2>. QED BY <2>1 DEF Init, TypeOK
<1>2. \A kind : ~Has(posted, kind)
  BY DEF Init, Has
<1>3. Fresh(posted, source) /\ Last(posted)
  BY DEF Init, Fresh, Last
<1>. QED BY <1>1, <1>2, <1>3 DEF Init, IInv, Together, Queued, Throughout, Busy, Ended

\* Starting the poller: whatever the loop was, it starts on the new capture.
LEMMA StartStep ==
    ASSUME IInv, ui = "open", OpenAndStart, Shorter, UNCHANGED <<ui, stopping, stopWait>>,
           starting' \in SUBSET {"demo", "command"}
    PROVE  IInv'
<1>1. CASE /\ UNCHANGED <<isCapturing, shown, poller, source>>
           /\ phase' # phase => phase' = "none" /\ ~Busy
  <2>1. TypeOK' BY <1>1 DEF IInv, TypeOK, Shorter, poller
  <2>2. Together' /\ Queued' BY <1>1 DEF IInv, Together, Queued, Shorter, poller, Busy, Ended
  <2>3. Throughout' BY <1>1 DEF IInv, Throughout, poller
  <2>. QED BY <2>1, <2>2, <2>3 DEF IInv
<1>2. CASE /\ ~Busy /\ source < MaxCaptures /\ source' = source + 1 /\ shown' = {}
           /\ phase' = "ready" /\ UNCHANGED <<isCapturing, poller>>
  <2>0. /\ ~isCapturing /\ ~stopping /\ ~held /\ ~stopWait
        /\ ~Has(posted, "stopped") /\ ~Has(posted, "snapshot")
    BY <1>2 DEF IInv, Together
  <2>1. TypeOK' BY <1>2, DashboardAssumption DEF IInv, TypeOK, Shorter, poller, Captures
  <2>2. Together' /\ Queued'
    BY <1>2, <2>0
       DEF IInv, Together, Queued, Shorter, poller, Busy, Ended, TypeOK, Fresh, Has
  <2>3. Throughout' BY <1>2, <2>0 DEF IInv, Throughout, poller, TypeOK
  <2>. QED BY <2>1, <2>2, <2>3 DEF IInv
<1>3. CASE /\ ~Busy /\ source < MaxCaptures /\ source' = source + 1 /\ shown' = {}
           /\ phase' = "running" /\ PollerStart /\ isCapturing' = TRUE
  <2>0. /\ ~isCapturing /\ ~stopping /\ ~held /\ ~stopWait
        /\ ~Has(posted, "stopped") /\ ~Has(posted, "snapshot")
    BY <1>3 DEF IInv, Together
  <2>1. loop \notin {"tick", "poll", "post"} BY <2>0 DEF IInv, TypeOK
  <2>2. PollerStart BY <1>3
  <2>3. rateBase' = 0 /\ loop' = "tick" /\ UNCHANGED polled
    BY <2>1, <2>2 DEF PollerStart, RatesReset
  <2>4. held' = TRUE /\ cancelled' = FALSE BY <2>1, <2>2, Zenon DEF PollerStart
  <2>5. held' /\ held' \in BOOLEAN /\ cancelled' \in BOOLEAN BY <2>4, Zenon
  <2>6. isCapturing' /\ isCapturing' \in BOOLEAN BY <1>3, Zenon
  <2>7. TypeOK'
    <3>1. source' \in Captures /\ rateBase' \in Captures /\ shown' \in SUBSET Captures
      BY <1>3, <2>3, DashboardAssumption DEF IInv, TypeOK, Captures
    <3>. QED BY <1>3, <2>3, <2>5, <2>6, <3>1 DEF IInv, TypeOK, Shorter
  <2>8. Together' /\ Queued'
    BY <1>3, <2>0, <2>3, <2>5, <2>6
       DEF IInv, Together, Queued, Shorter, Busy, Ended, TypeOK, Fresh, Has
  <2>9. Throughout' BY <1>3, <2>3 DEF Throughout
  <2>. QED BY <2>7, <2>8, <2>9 DEF IInv
<1>4. ASSUME UNCHANGED <<isCapturing, shown, poller, session>>
      PROVE  UNCHANGED <<isCapturing, shown, poller, source>> /\ UNCHANGED phase
  <2>1. UNCHANGED <<source, phase>> BY <1>4 DEF session
  <2>2. UNCHANGED <<isCapturing, shown, poller>> BY <1>4
  <2>3. UNCHANGED <<isCapturing, shown, poller, source>> BY <1>4, <2>1, Zenon
  <2>. QED BY <2>1, <2>3, Zenon
<1>5. OpenAndStart =>
         \/ UNCHANGED <<isCapturing, shown, poller, session>>
         \/ ~Busy /\ phase' = "none" /\ UNCHANGED <<isCapturing, shown, poller, source>>
         \/ /\ ~Busy /\ source < MaxCaptures /\ source' = source + 1 /\ shown' = {}
            /\ \/ phase' = "ready" /\ UNCHANGED isCapturing /\ UNCHANGED poller
               \/ phase' = "running" /\ PollerStart /\ isCapturing' = TRUE
  BY Zenon DEF OpenAndStart, Busy, ResetView, FlagLast
<1>6. UNCHANGED isCapturing /\ UNCHANGED poller => UNCHANGED <<isCapturing, poller>>
  BY Zenon
<1>7. CASE UNCHANGED <<isCapturing, shown, poller, session>>
  <2>1. UNCHANGED <<isCapturing, shown, poller, source>> BY <1>4, <1>7
  <2>2. phase' = phase BY <1>4, <1>7
  <2>. QED BY <1>1, <2>1, <2>2, Zenon
<1>8. CASE ~Busy /\ phase' = "none" /\ UNCHANGED <<isCapturing, shown, poller, source>>
  BY <1>1, <1>8, Zenon
<1>9. CASE /\ ~Busy /\ source < MaxCaptures /\ source' = source + 1 /\ shown' = {}
           /\ phase' = "ready" /\ UNCHANGED isCapturing /\ UNCHANGED poller
  BY <1>2, <1>6, <1>9, Zenon
<1>. QED BY <1>3, <1>5, <1>7, <1>8, <1>9, Zenon

\* The UI thread's and the poller's flags are as they were.
FlagsKept ==
    /\ (isCapturing' <=> isCapturing) /\ (held' <=> held) /\ (stopping' <=> stopping)
    /\ (stopWait' <=> stopWait) /\ (cancelled' <=> cancelled)
    /\ isCapturing' \in BOOLEAN /\ held' \in BOOLEAN /\ stopping' \in BOOLEAN
    /\ stopWait' \in BOOLEAN /\ cancelled' \in BOOLEAN

LEMMA FlagsStay ==
    ASSUME TypeOK, UNCHANGED <<isCapturing, held, stopping, stopWait, cancelled>>
    PROVE  FlagsKept
BY Zenon DEF TypeOK, FlagsKept

\* StartCommand awaits the demo file, or goes on at once.
LEMMA StartCommandStep == ASSUME IInv, StartCommand PROVE IInv'
<1>1. ui = "open"
  BY DEF StartCommand
<1>2. UNCHANGED <<ui, posted, stopping, stopWait>>
  BY Zenon DEF StartCommand
<1>3. UNCHANGED <<ui, stopping, stopWait>> /\ UNCHANGED posted
  BY <1>2, Zenon
<1>4. Shorter
  BY <1>3, ShorterQueue DEF IInv
<1>5. starting' \in SUBSET {"demo", "command"}
  BY DEF StartCommand, IInv, TypeOK
<1>6. CASE OpenAndStart
  BY <1>1, <1>3, <1>4, <1>5, <1>6, StartStep
<1>7. CASE UNCHANGED <<isCapturing, shown, poller, session>>
  <2>1. UNCHANGED <<ui, shown, loop, polled, rateBase, source, phase>>
    BY <1>3, <1>7 DEF poller, session
  <2>2. UNCHANGED <<isCapturing, held, stopping, stopWait, cancelled>>
    BY <1>3, <1>7, Zenon DEF poller
  <2>3. FlagsKept
    BY <2>2, FlagsStay DEF IInv
  <2>4. TypeOK' BY <1>4, <1>5, <2>1, <2>3 DEF IInv, TypeOK, Shorter, FlagsKept
  <2>5. Together' BY <1>1, <1>4, <2>1, <2>3 DEF IInv, Together, Shorter, Busy, FlagsKept
  <2>6. Queued' /\ Throughout' BY <1>1, <1>4, <2>1 DEF IInv, Queued, Throughout, Shorter
  <2>. QED BY <2>4, <2>5, <2>6 DEF IInv
<1>. QED BY <1>6, <1>7, Zenon DEF StartCommand

LEMMA TurnStartStep == ASSUME IInv, TurnStart PROVE IInv'
<1>1. ui = "open" /\ Turn("start") /\ OpenAndStart /\ UNCHANGED <<ui, stopping, stopWait>>
  BY Zenon DEF TurnStart, Turn
<1>2. Shorter
  BY <1>1, ShorterQueue DEF IInv
<1>3. starting' \in SUBSET {"demo", "command"}
  BY DEF TurnStart, IInv, TypeOK
<1>. QED BY <1>1, <1>2, <1>3, StartStep

\* A stop begins, or one is under way already.
LEMMA StopStepBegins ==
    ASSUME IInv, ui = "open", BeginStop, Shorter, isCapturing,
           shown' \subseteq {source} \cap Captures,
           UNCHANGED <<ui, isCapturing, starting, held, loop, polled, rateBase, session>>
    PROVE  IInv'
<1>1. UNCHANGED <<ui, starting, loop, polled, rateBase, source, phase>>
  BY DEF session
<1>2. /\ isCapturing' <=> isCapturing
      /\ held' <=> held
      /\ isCapturing' \in BOOLEAN /\ held' \in BOOLEAN
  BY Zenon DEF IInv, TypeOK
<1>3. CASE stopping
  <2>1. UNCHANGED <<stopping, stopWait, cancelled>> BY <1>3, Zenon DEF BeginStop
  <2>2. TypeOK' BY <1>1, <1>2, <2>1 DEF IInv, TypeOK, Shorter
  <2>3. Together' /\ Queued' /\ Throughout'
    BY <1>1, <1>2, <2>1 DEF IInv, Together, Queued, Throughout, Shorter, Busy
  <2>. QED BY <2>2, <2>3 DEF IInv
<1>4. CASE ~stopping
  <2>1. stopping' = TRUE /\ stopWait' = TRUE /\ cancelled' = TRUE BY <1>4, Zenon DEF BeginStop
  <2>4. /\ stopping' /\ stopping' \in BOOLEAN
        /\ stopWait' \in BOOLEAN /\ cancelled' \in BOOLEAN
    BY <2>1, Zenon
  <2>2. TypeOK' BY <1>1, <1>2, <2>4 DEF IInv, TypeOK, Shorter
  <2>3. Together' /\ Queued' /\ Throughout'
    BY <1>1, <1>2, <1>4, <2>4 DEF IInv, Together, Queued, Throughout, Shorter, Busy
  <2>. QED BY <2>2, <2>3 DEF IInv
<1>. QED BY <1>3, <1>4

LEMMA StopCommandStep == ASSUME IInv, StopCommand PROVE IInv'
<1>1. ui = "open" /\ isCapturing /\ BeginStop
  BY Zenon DEF StopCommand
<1>2. UNCHANGED <<ui, posted, isCapturing, starting, shown, held, loop, polled, rateBase, session>>
  BY Zenon DEF StopCommand
<1>3. /\ UNCHANGED posted /\ UNCHANGED shown
      /\ UNCHANGED <<ui, isCapturing, starting, held, loop, polled, rateBase, session>>
  BY <1>2, Zenon
<1>4. Shorter BY <1>3, ShorterQueue DEF IInv
<1>5. shown' \subseteq {source} \cap Captures BY <1>1, <1>3 DEF IInv, Queued, TypeOK
<1>. QED BY <1>1, <1>3, <1>4, <1>5, StopStepBegins

LEMMA TurnApplyStep == ASSUME IInv, TurnApply PROVE IInv'
<1>1. /\ ui = "open" /\ Turn("snapshot") /\ shown' = shown \cup {Head(posted).of}
      /\ UNCHANGED <<ui, isCapturing, starting, held, loop, polled, rateBase, session>>
  BY Zenon DEF TurnApply, Turn
<1>2. Shorter BY <1>1, ShorterQueue DEF IInv
<1>3. isCapturing /\ Head(posted).of = source
  BY <1>1, TurnTakes DEF IInv, TypeOK, Turn, Together, Queued
<1>4. shown' \subseteq {source} \cap Captures BY <1>1, <1>3 DEF IInv, Queued, TypeOK
<1>5. CASE BeginStop
  BY <1>1, <1>2, <1>3, <1>4, <1>5, StopStepBegins
<1>6. CASE UNCHANGED <<stopping, stopWait, cancelled>>
  <2>1. UNCHANGED <<ui, starting, loop, polled, rateBase, source, phase>>
    BY <1>1 DEF session
  <2>2. FlagsKept
    <3>1. UNCHANGED <<isCapturing, held, stopping, stopWait, cancelled>> BY <1>1, <1>6, Zenon
    <3>. QED BY <3>1, FlagsStay DEF IInv
  <2>3. TypeOK' BY <1>2, <1>4, <2>1, <2>2 DEF IInv, TypeOK, Shorter, FlagsKept
  <2>4. Together' BY <1>1, <1>2, <1>4, <2>1, <2>2 DEF IInv, Together, Shorter, Busy, FlagsKept
  <2>5. Queued' /\ Throughout' BY <1>1, <1>2, <1>4, <2>1 DEF IInv, Queued, Throughout, Shorter
  <2>. QED BY <2>3, <2>4, <2>5 DEF IInv
<1>. QED BY <1>5, <1>6, Zenon DEF TurnApply

LEMMA TurnStoppedStep == ASSUME IInv, TurnStopped PROVE IInv'
<1>1. /\ Turn("stopped") /\ phase' = "stopped" /\ rateBase' = source /\ shown' = shown \cup {source}
      /\ UNCHANGED <<ui, starting, loop, polled, source>>
  BY DEF TurnStopped
<1>2. isCapturing' = FALSE /\ stopping' = FALSE /\ UNCHANGED <<held, cancelled, stopWait>>
  BY Zenon DEF TurnStopped
<1>3. /\ ~isCapturing' /\ ~stopping' /\ isCapturing' \in BOOLEAN /\ stopping' \in BOOLEAN
      /\ (held' <=> held) /\ (stopWait' <=> stopWait) /\ cancelled' \in BOOLEAN
      /\ held' \in BOOLEAN /\ stopWait' \in BOOLEAN
  BY <1>2, Zenon DEF IInv, TypeOK
<1>4. /\ ui = "open" /\ posted # <<>> /\ Head(posted).kind = "stopped" /\ posted' = Tail(posted)
      /\ Shorter
  BY <1>1, ShorterQueue DEF Turn, IInv
<1>5. ~Has(posted', "stopped") /\ ~Has(posted', "snapshot") /\ Has(posted, "stopped")
  BY <1>4, TurnTakes DEF IInv, TypeOK, Queued
<1>6. ~held' /\ ~stopWait'
  BY <1>3, <1>4, <1>5 DEF IInv, Together
<1>7. TypeOK' BY <1>1, <1>3, <1>4 DEF IInv, TypeOK, Shorter
<1>8. Together' /\ Queued' /\ Throughout'
  BY <1>1, <1>3, <1>4, <1>5, <1>6 DEF IInv, Together, Queued, Throughout, Shorter, Busy, Ended
<1>. QED BY <1>7, <1>8 DEF IInv

\* The loop itself: it runs only while the capture it polls is shown as capturing.
LEMMA LoopSteps == ASSUME IInv, LoopStep PROVE IInv'
<1>0. LoopOnly
  BY DEF LoopStep, Tick, PollOnce, PostSnapshot, LoopEnds
<1>1. UNCHANGED <<ui, starting, shown, source, phase>>
  BY <1>0 DEF LoopOnly, view, session
<1>2. FlagsKept
  <2>1. UNCHANGED <<isCapturing, held, stopping, stopWait, cancelled>>
    BY <1>0, Zenon DEF LoopOnly, view
  <2>. QED BY <2>1, FlagsStay DEF IInv
<1>3. CASE Tick \/ LoopEnds
  <2>1. loop = "tick" /\ loop' \in {"poll", "done"} /\ UNCHANGED <<posted, polled, rateBase>>
    BY <1>3 DEF Tick, LoopEnds
  <2>2. TypeOK' BY <1>1, <1>2, <2>1 DEF IInv, TypeOK, FlagsKept
  <2>3. ui' = "open" => Together' BY <1>1, <1>2, <2>1 DEF IInv, Together, FlagsKept, Busy
  <2>4. ui' = "open" => Queued' BY <1>1, <2>1 DEF IInv, Queued
  <2>5. Throughout' BY <1>1, <2>1 DEF IInv, Throughout
  <2>. QED BY <2>2, <2>3, <2>4, <2>5 DEF IInv
<1>4. CASE PollOnce
  <2>1. /\ loop = "poll" /\ loop' = "post" /\ polled' = Snapshot /\ rateBase' = source
        /\ UNCHANGED posted
    BY <1>4 DEF PollOnce
  <2>2. source \in Captures /\ polled' \in Items /\ polled'.kind = "snapshot" /\ polled'.of = source
    BY <2>1, SnapshotTypes DEF IInv, TypeOK
  <2>3. TypeOK' BY <1>1, <1>2, <2>1, <2>2 DEF IInv, TypeOK, FlagsKept
  <2>4. ui' = "open" => Together' BY <1>1, <1>2, <2>1 DEF IInv, Together, FlagsKept, Busy
  <2>5. ui' = "open" => Queued' BY <1>1, <2>1, <2>2 DEF IInv, Queued
  <2>6. Throughout' BY <1>1, <2>1 DEF IInv, Throughout
  <2>. QED BY <2>3, <2>4, <2>5, <2>6 DEF IInv
<1>5. CASE PostSnapshot
  <2>1. /\ loop = "post" /\ loop' = "tick" /\ posted' = Append(posted, polled)
        /\ UNCHANGED <<polled, rateBase>>
    BY <1>5 DEF PostSnapshot, Post
  <2>2. /\ posted' \in Seq(Items)
        /\ \A kind : Has(posted', kind) => Has(posted, kind) \/ polled.kind = kind
        /\ \A src : Fresh(posted, src) /\ (polled.kind = "snapshot" => polled.of = src)
                       => Fresh(posted', src)
        /\ Last(posted) /\ (polled.kind # "start" => ~Has(posted, "stopped")) => Last(posted')
    BY <2>1, PostedAt DEF IInv, TypeOK
  <2>3. TypeOK' BY <1>1, <1>2, <2>1, <2>2 DEF IInv, TypeOK, FlagsKept
  <2>4. held BY <2>1 DEF IInv, TypeOK
  <2>5. ASSUME ui' = "open" PROVE Together' /\ Queued'
    <3>1. Together /\ Queued BY <1>1, <2>5 DEF IInv
    <3>2. polled.kind = "snapshot" /\ polled.of = source /\ isCapturing /\ ~Has(posted, "stopped")
      BY <2>1, <2>4, <3>1 DEF Together, Queued
    <3>3. Together' BY <1>1, <1>2, <2>1, <2>2, <3>1, <3>2 DEF Together, FlagsKept, Busy
    <3>4. Queued' BY <1>1, <2>1, <2>2, <3>1, <3>2 DEF Queued
    <3>. QED BY <3>3, <3>4
  <2>6. Throughout' BY <1>1, <2>1 DEF IInv, Throughout
  <2>. QED BY <2>3, <2>5, <2>6 DEF IInv
<1>. QED BY <1>3, <1>4, <1>5 DEF LoopStep

\* The demo file is written: the rest of StartAsync is queued.
LEMMA DemoWrittenStep ==
    ASSUME IInv, NEW who \in {"demo", "command"}, DemoWritten(who)
    PROVE  IInv'
<1>. DEFINE item == [kind |-> "start", who |-> who]
<1>1. UNCHANGED <<ui, starting, shown, loop, polled, rateBase, source, phase>>
  BY DEF DemoWritten, view, poller, session
<1>2. FlagsKept
  <2>1. UNCHANGED <<isCapturing, held, stopping, stopWait, cancelled>>
    BY Zenon DEF DemoWritten, view, poller
  <2>. QED BY <2>1, FlagsStay DEF IInv
<1>3. posted' = Append(posted, item) /\ item \in Items /\ item.kind = "start"
  BY ItemTypes DEF DemoWritten, Post
<1>. HIDE DEF item
<1>4. /\ posted' \in Seq(Items)
      /\ \A kind : Has(posted', kind) => Has(posted, kind) \/ kind = "start"
      /\ \A src : Fresh(posted, src) => Fresh(posted', src)
      /\ Last(posted) => Last(posted')
  BY <1>3, PostedAt DEF IInv, TypeOK
<1>5. TypeOK' BY <1>1, <1>2, <1>4 DEF IInv, TypeOK, FlagsKept
<1>6. ui' = "open" => Together' BY <1>1, <1>2, <1>4 DEF IInv, Together, FlagsKept, Busy
<1>7. ui' = "open" => Queued' BY <1>1, <1>4 DEF IInv, Queued
<1>8. Throughout' BY <1>1 DEF IInv, Throughout
<1>. QED BY <1>5, <1>6, <1>7, <1>8 DEF IInv

\* The loop is over: the rest of StopCaptureAsync is queued behind its last snapshot.
LEMMA StopAwaitedStep == ASSUME IInv, StopAwaited PROVE IInv'
<1>. DEFINE item == [kind |-> "stopped"]
<1>1. UNCHANGED <<ui, starting, shown, loop, polled, rateBase, source, phase>>
  BY DEF StopAwaited, view, session
<1>2. stopWait /\ held /\ loop = "done"
  BY DEF StopAwaited, Awaited
<1>3. /\ ~stopWait' /\ ~held' /\ stopWait' \in BOOLEAN /\ held' \in BOOLEAN
      /\ (isCapturing' <=> isCapturing) /\ isCapturing' \in BOOLEAN
      /\ (stopping' <=> stopping) /\ stopping' \in BOOLEAN /\ cancelled' \in BOOLEAN
  BY Zenon DEF StopAwaited, view, IInv, TypeOK
<1>4. posted' = Append(posted, item) /\ item \in Items /\ item.kind = "stopped"
  BY ItemTypes DEF StopAwaited, Post
<1>. HIDE DEF item
<1>5. /\ posted' \in Seq(Items)
      /\ \A kind : Has(posted', kind) => Has(posted, kind) \/ kind = "stopped"
      /\ \A src : Fresh(posted, src) => Fresh(posted', src)
      /\ Last(posted) /\ ~Has(posted, "stopped") => Last(posted')
  BY <1>4, PostedAt DEF IInv, TypeOK
<1>6. TypeOK' BY <1>1, <1>2, <1>3, <1>5 DEF IInv, TypeOK
<1>7. ui' = "open" => Together' BY <1>1, <1>2, <1>3, <1>5 DEF IInv, Together, Busy
<1>8. ui' = "open" => Queued' BY <1>1, <1>2, <1>5 DEF IInv, Together, Queued
<1>9. Throughout' BY <1>1 DEF IInv, Throughout
<1>. QED BY <1>6, <1>7, <1>8, <1>9 DEF IInv

\* StopAsync finds that Dispose has taken the loop from it.
LEMMA StopOverlappedStep == ASSUME IInv, StopOverlapped PROVE IInv'
<1>1. UNCHANGED <<ui, posted, starting, shown, loop, polled, rateBase, source, phase>>
  BY DEF StopOverlapped, view, poller, session
<1>2. stopWait /\ ~held
  BY DEF StopOverlapped
<1>3. /\ stopWait' \in BOOLEAN
      /\ (held' <=> held) /\ isCapturing' \in BOOLEAN /\ stopping' \in BOOLEAN
      /\ cancelled' \in BOOLEAN /\ held' \in BOOLEAN
  BY Zenon DEF StopOverlapped, view, poller, IInv, TypeOK
<1>4. ui # "open" BY <1>2 DEF IInv, Together
<1>5. TypeOK' BY <1>1, <1>3 DEF IInv, TypeOK
<1>6. Throughout' BY <1>1 DEF IInv, Throughout
<1>. QED BY <1>1, <1>4, <1>5, <1>6 DEF IInv

\* Leaving the application.
LEMMA DisposeSteps == ASSUME IInv, Dispose \/ DisposeStep PROVE IInv'
<1>1. UNCHANGED <<posted, starting, shown, loop, polled, rateBase, source>>
  BY DEF Dispose, DisposeStep, DisposeAwaited, DisposeOverlapped, view, poller
<1>2. /\ isCapturing' \in BOOLEAN /\ stopping' \in BOOLEAN /\ stopWait' \in BOOLEAN
  BY Zenon DEF Dispose, DisposeStep, DisposeAwaited, DisposeOverlapped, view, poller, IInv, TypeOK
<1>3. ui' \in {"disposing", "exited"} /\ phase' \in {phase, "destroyed"}
  BY DEF Dispose, DisposeStep, DisposeAwaited, DisposeOverlapped
<1>4. cancelled' \in BOOLEAN
  BY Zenon DEF Dispose, DisposeStep, DisposeAwaited, DisposeOverlapped, poller, IInv, TypeOK
<1>5. held' \in BOOLEAN
  BY Zenon DEF Dispose, DisposeStep, DisposeAwaited, DisposeOverlapped, poller, IInv, TypeOK
<1>6. (held' <=> held) \/ loop = "done"
  BY Zenon DEF Dispose, DisposeStep, DisposeAwaited, DisposeOverlapped, poller, Awaited
<1>7. TypeOK' BY <1>1, <1>2, <1>3, <1>4, <1>5, <1>6 DEF IInv, TypeOK
<1>8. Throughout' BY <1>1 DEF IInv, Throughout
<1>. QED BY <1>3, <1>7, <1>8 DEF IInv

\* The capture ends by itself.
LEMMA CaptureEndsStep == ASSUME IInv, CaptureEnds PROVE IInv'
<1>1. /\ UNCHANGED <<ui, posted, starting, shown, loop, polled, rateBase, source>>
      /\ phase = "running" /\ phase' \in Ended
  BY DEF CaptureEnds, view, poller
<1>2. FlagsKept
  <2>1. UNCHANGED <<isCapturing, held, stopping, stopWait, cancelled>>
    BY Zenon DEF CaptureEnds, view, poller
  <2>. QED BY <2>1, FlagsStay DEF IInv
<1>3. TypeOK' BY <1>1, <1>2 DEF IInv, TypeOK, FlagsKept, Ended
<1>4. ui' = "open" => Together' BY <1>1, <1>2 DEF IInv, Together, FlagsKept, Busy
<1>5. ui' = "open" => Queued' BY <1>1 DEF IInv, Queued
<1>6. Throughout' BY <1>1 DEF IInv, Throughout
<1>. QED BY <1>3, <1>4, <1>5, <1>6 DEF IInv

LEMMA InvariantStep == IInv /\ [Next]_vars => IInv'
<1>1. ASSUME IInv, UNCHANGED vars PROVE IInv'
  <2>1. UNCHANGED <<ui, posted, starting, shown, loop, polled, rateBase, source, phase>>
    BY <1>1 DEF vars, view, poller, session
  <2>2. FlagsKept
    <3>1. UNCHANGED <<isCapturing, held, stopping, stopWait, cancelled>>
      BY <1>1, Zenon DEF vars, view, poller
    <3>. QED BY <1>1, <3>1, FlagsStay DEF IInv
  <2>3. TypeOK' BY <1>1, <2>1, <2>2 DEF IInv, TypeOK, FlagsKept
  <2>4. ui' = "open" => Together' BY <1>1, <2>1, <2>2 DEF IInv, Together, FlagsKept, Busy
  <2>5. ui' = "open" => Queued' BY <1>1, <2>1 DEF IInv, Queued
  <2>6. Throughout' BY <1>1, <2>1 DEF IInv, Throughout
  <2>. QED BY <2>3, <2>4, <2>5, <2>6 DEF IInv
<1>2. ASSUME IInv, Next PROVE IInv'
  BY <1>2, StartCommandStep, StopCommandStep, TurnStartStep, TurnApplyStep, TurnStoppedStep,
     LoopSteps, StopAwaitedStep, StopOverlappedStep, DisposeSteps, DemoWrittenStep,
     CaptureEndsStep
     DEF Next, UiTurn, StopStep
<1>. QED BY <1>1, <1>2

-----------------------------------------------------------------------------
(* The theorems.                                                            *)

\* The invariant holds of every reachable state.
LEMMA Inductive == Spec => []IInv
BY InitInvariant, InvariantStep, PTL DEF Spec

\* Every variable keeps its type, and the poller never lets go of a loop that still runs:
\* StatsPoller clears its fields only after it has awaited the loop.
THEOREM TypeCorrect == Spec => []TypeOK
<1>1. IInv => TypeOK
  BY DEF IInv
<1>. QED BY <1>1, Inductive, PTL

\* However many captures are opened and however far the UI thread is behind, no snapshot of
\* an earlier capture reaches the view of the next: shown changes in a turn, in ResetView and
\* in StopCaptureAsync, all on the UI thread, and what is queued there is of one capture.
THEOREM ViewStaysCurrent == Spec => []ViewIsCurrent
<1>1. IInv => ViewIsCurrent
  BY DEF IInv, Throughout, ViewIsCurrent
<1>. QED BY <1>1, Inductive, PTL

\* Between turns IsCapturing is true exactly while the core has a capture to stop, and then
\* the poller has its loop or a stop is under way.  It rests on the order of the turns: the
\* rest of StopCaptureAsync is queued behind the last snapshot of its capture.
THEOREM FlagStaysHonest == Spec => []FlagHonest
<1>1. IInv => FlagHonest
  BY DEF IInv, Together, FlagHonest, Busy
<1>. QED BY <1>1, Inductive, PTL

\* No rate is the difference of samples of two captures, and the last poll of StopCaptureAsync
\* on the UI thread never meets one of the loop's: they share one RateCalculator.
THEOREM RatesStayWithin == Spec => RatesWithinCapture
<1>1. ASSUME IInv, [Next]_vars
      PROVE  [/\ rateBase' # rateBase => rateBase = 0 \/ rateBase' = 0
              /\ stopping /\ ~stopping' => loop \in {"none", "done"}]_vars
  <2>1. SUFFICES ASSUME Next
                 PROVE  /\ rateBase' # rateBase => rateBase = 0 \/ rateBase' = 0
                        /\ stopping /\ ~stopping' => loop \in {"none", "done"}
    BY <1>1
  <2>2. CASE TurnStopped
    <3>1. ui = "open" /\ posted # <<>> /\ Head(posted).kind = "stopped" /\ rateBase' = source
      BY <2>2 DEF TurnStopped, Turn
    <3>2. Has(posted, "stopped")
      BY <1>1, <3>1, TurnTakes DEF IInv, TypeOK
    <3>3. ~held /\ isCapturing
      BY <1>1, <3>1, <3>2 DEF IInv, Together
    <3>. QED BY <1>1, <3>1, <3>3 DEF IInv, TypeOK, Together
  <2>3. CASE ~TurnStopped
    <3>1. stopping /\ ~stopping' => FALSE
      BY <2>1, <2>3, Zenon DEF Next, StartCommand, StopCommand, UiTurn, TurnStart, TurnApply,
         BeginStop, LoopStep, Tick, PollOnce, PostSnapshot, LoopEnds, LoopOnly, view, StopStep,
         StopAwaited, StopOverlapped, Dispose, DisposeStep, DisposeAwaited, DisposeOverlapped,
         DemoWritten, CaptureEnds
    <3>2. rateBase' # rateBase => rateBase = 0 \/ rateBase' = 0
      <4>1. CASE StartCommand \/ TurnStart
        BY <4>1 DEF StartCommand, TurnStart, OpenAndStart, PollerStart, RatesReset, poller
      <4>2. CASE PollOnce
        BY <1>1, <4>2 DEF PollOnce, IInv, Throughout
      <4>3. CASE ~(StartCommand \/ TurnStart \/ PollOnce)
        BY <2>1, <2>3, <4>3 DEF Next, StopCommand, UiTurn, TurnApply, LoopStep, Tick,
           PostSnapshot, LoopEnds, StopStep, StopAwaited, StopOverlapped, Dispose, DisposeStep,
           DisposeAwaited, DisposeOverlapped, DemoWritten, CaptureEnds, poller
      <4>. QED BY <4>1, <4>2, <4>3
    <3>. QED BY <3>1, <3>2
  <2>. QED BY <2>2, <2>3
<1>. QED BY <1>1, Inductive, PTL DEF Spec, RatesWithinCapture
=============================================================================
