----------------------------- MODULE Dashboard -----------------------------
(***************************************************************************)
(* The desktop UI around one core: MainViewModel on the UI thread, whose   *)
(* async methods give the thread back at every await, and the poll loop of *)
(* StatsPoller on the thread pool, which posts snapshots to the UI queue.  *)
(* A snapshot is the capture it was taken from and the state it reports.   *)
(***************************************************************************)
EXTENDS Naturals, Sequences

CONSTANTS
    MaxCaptures, \* bound: sources opened
    MaxPosted    \* bound: work items the UI thread is behind when a sample is taken

ASSUME DashboardAssumption == MaxCaptures \in Nat /\ MaxPosted \in Nat \ {0}

VARIABLES
    ui,          \* "open", "disposing" (blocked in Dispose) or "exited"
    posted,      \* the UI thread's queue
    isCapturing, \* IsCapturing
    stopping,    \* _stopping
    starting,    \* StartAsync calls awaiting a demo file: "demo" at startup, "command"
    shown,       \* captures whose snapshots are in the charts and lists
    held,        \* StatsPoller._cts and _loop are set
    cancelled,   \* _cts has been cancelled
    loop,        \* RunAsync: "none", "tick", "poll", "post", "done"
    polled,      \* the snapshot the loop has taken
    rateBase,    \* capture of the RateCalculator's previous sample, 0 for none
    stopWait,    \* StopCaptureAsync is inside StatsPoller.StopAsync
    source,      \* captures opened so far; the latest is the installed one
    phase        \* the core's capture: "none", "ready", "running", "finished",
                 \* "failed" (ended, not yet stopped), "stopped", "destroyed"

poller  == <<held, cancelled, loop, polled, rateBase>>
session == <<source, phase>>
view    == <<isCapturing, stopping, starting, shown>>
vars == <<ui, posted, view, poller, stopWait, session>>

Ended == {"finished", "failed"}
Nothing == [kind |-> "snapshot", of |-> 0, state |-> "idle"]

Init ==
    /\ ui = "open" /\ posted = <<>> /\ isCapturing = FALSE /\ stopping = FALSE
    /\ starting \in {{}, {"demo"}} /\ shown = {}
    /\ held = FALSE /\ cancelled = FALSE /\ loop = "none" /\ polled = Nothing /\ rateBase = 0
    /\ stopWait = FALSE /\ source = 0 /\ phase = "none"

Post(item) == posted' = Append(posted, item)

\* Stats of the core: capture_state, as NcCore reports it
Snapshot ==
    [kind |-> "snapshot", of |-> source,
     state |-> IF phase \in Ended \cup {"running"} THEN phase ELSE "idle"]

-----------------------------------------------------------------------------
(* StatsPoller: the loop.                                                  *)

LoopOnly == UNCHANGED <<ui, view, stopWait, session, held, cancelled>>

\* a bound, not the code's: the next sample waits while the UI thread is far behind
Tick ==
    /\ loop = "tick" /\ ~cancelled /\ Len(posted) < MaxPosted /\ loop' = "poll"
    /\ LoopOnly /\ UNCHANGED <<posted, polled, rateBase>>

PollOnce ==
    /\ loop = "poll" /\ loop' = "post" /\ polled' = Snapshot /\ rateBase' = source
    /\ LoopOnly /\ UNCHANGED posted

\* SnapshotReady: the handler only posts
PostSnapshot ==
    /\ loop = "post" /\ loop' = "tick" /\ Post(polled)
    /\ LoopOnly /\ UNCHANGED <<polled, rateBase>>

\* mutant: the loop does not look at the token
TokenIgnored == FALSE

TokenCancelled == cancelled

LoopEnds ==
    /\ loop = "tick" /\ TokenCancelled /\ loop' = "done"
    /\ LoopOnly /\ UNCHANGED <<posted, polled, rateBase>>

-----------------------------------------------------------------------------
(* MainViewModel: what one turn of the UI thread does.                     *)

\* mutant: the view is not cleared for a new source
ViewKept == UNCHANGED shown

ResetView == shown' = {}

\* mutant: the rates go on from the previous capture's counters
RatesKept == UNCHANGED rateBase

RatesReset == rateBase' = 0

\* StatsPoller.Start: nothing if the loop still runs
PollerStart ==
    IF loop \in {"tick", "poll", "post"} THEN UNCHANGED poller
    ELSE /\ RatesReset /\ held' = TRUE /\ cancelled' = FALSE /\ loop' = "tick"
         /\ UNCHANGED polled

\* mutant: IsCapturing is set before the session has started
FlagFirst == isCapturing' = TRUE

FlagLast == UNCHANGED isCapturing

\* OpenSourceAsync after its await, ResetView, Start: the core refuses to open while a
\* capture runs, and opening and starting may fail
OpenAndStart ==
    \/ /\ phase \in Ended \cup {"running"}
       /\ UNCHANGED <<isCapturing, shown, poller, session>>
    \/ /\ phase \notin Ended \cup {"running"} /\ phase' = "none"
       /\ UNCHANGED <<isCapturing, shown, poller, source>>
    \/ /\ phase \notin Ended \cup {"running"} /\ source < MaxCaptures
       /\ source' = source + 1 /\ ResetView
       /\ \/ phase' = "ready" /\ FlagLast /\ UNCHANGED poller
          \/ phase' = "running" /\ PollerStart /\ isCapturing' = TRUE

\* StopCaptureAsync up to its await of StopAsync, or not at all
BeginStop ==
    IF ~isCapturing \/ stopping THEN UNCHANGED <<stopping, stopWait, cancelled>>
    ELSE stopping' = TRUE /\ stopWait' = TRUE /\ cancelled' = TRUE

StartCommand ==
    /\ ui = "open" /\ ~isCapturing /\ "command" \notin starting
    /\ \/ OpenAndStart /\ UNCHANGED starting
       \/ /\ starting' = starting \cup {"command"}
          /\ UNCHANGED <<isCapturing, shown, poller, session>>
    /\ UNCHANGED <<ui, posted, stopping, stopWait>>

\* Task.Run(WriteDemoPcap) is over: the rest of StartAsync is posted
DemoWritten(who) ==
    /\ who \in starting
    /\ \A i \in DOMAIN posted : posted[i] # [kind |-> "start", who |-> who]
    /\ Post([kind |-> "start", who |-> who])
    /\ UNCHANGED <<ui, view, poller, stopWait, session>>

StopCommand ==
    /\ ui = "open" /\ isCapturing /\ ~stopping /\ BeginStop
    /\ UNCHANGED <<ui, posted, isCapturing, starting, shown, held, loop, polled, rateBase, session>>

Turn(kind) == ui = "open" /\ posted # <<>> /\ Head(posted).kind = kind /\ posted' = Tail(posted)

\* StartAsync goes on after its await; it does not look at IsCapturing again
TurnStart ==
    /\ Turn("start") /\ OpenAndStart /\ starting' = starting \ {Head(posted).who}
    /\ UNCHANGED <<ui, stopping, stopWait>>

\* mutant: a capture that failed is not noticed
OnlyFinished == {"finished"}

OverStates == Ended

\* Apply and HandleCaptureState
TurnApply ==
    /\ Turn("snapshot") /\ shown' = shown \cup {Head(posted).of}
    /\ IF Head(posted).state \in OverStates THEN BeginStop
       ELSE UNCHANGED <<stopping, stopWait, cancelled>>
    /\ UNCHANGED <<ui, isCapturing, starting, held, loop, polled, rateBase, session>>

\* the rest of StopCaptureAsync: stop the session, take the last snapshot here and apply it
TurnStopped ==
    /\ Turn("stopped") /\ phase' = "stopped" /\ isCapturing' = FALSE /\ stopping' = FALSE
    /\ rateBase' = source /\ shown' = shown \cup {source}
    /\ UNCHANGED <<ui, starting, held, cancelled, loop, polled, stopWait, source>>

-----------------------------------------------------------------------------
(* StatsPoller.StopAsync after its cancel, on the thread pool, for the two  *)
(* callers it has; and Dispose, which blocks the UI thread on it.           *)

Awaited == loop = "done"

StopAwaited ==
    /\ stopWait /\ held /\ Awaited
    /\ stopWait' = FALSE /\ held' = FALSE /\ Post([kind |-> "stopped"])
    /\ UNCHANGED <<ui, view, cancelled, loop, polled, rateBase, session>>

\* Dispose has cleared _cts: with or without the exception, the rest of StopCaptureAsync
\* is for a UI thread that is gone
StopOverlapped ==
    /\ stopWait /\ ~held /\ stopWait' = FALSE
    /\ UNCHANGED <<ui, posted, view, poller, session>>

Dispose ==
    /\ ui = "open"
    /\ IF held THEN ui' = "disposing" /\ cancelled' = TRUE /\ UNCHANGED phase
               ELSE ui' = "exited" /\ phase' = "destroyed" /\ UNCHANGED cancelled
    /\ UNCHANGED <<posted, view, held, loop, polled, rateBase, stopWait, source>>

DisposeAwaited ==
    /\ ui = "disposing" /\ held /\ Awaited
    /\ ui' = "exited" /\ held' = FALSE /\ phase' = "destroyed"
    /\ UNCHANGED <<posted, view, cancelled, loop, polled, rateBase, stopWait, source>>

\* StopCaptureAsync's StopAsync has cleared _cts in between, without a lock: Dispose
\* throws before it gets to the session, unless it had read _cts just before
DisposeOverlapped ==
    /\ ui = "disposing" /\ ~held /\ ui' = "exited" /\ phase' \in {phase, "destroyed"}
    /\ UNCHANGED <<posted, view, poller, stopWait, source>>

\* The file is at its end, or the device has failed.
CaptureEnds ==
    /\ phase = "running" /\ phase' \in Ended
    /\ UNCHANGED <<ui, posted, view, poller, stopWait, source>>

UiTurn == TurnStart \/ TurnApply \/ TurnStopped
LoopStep == Tick \/ PollOnce \/ PostSnapshot \/ LoopEnds
StopStep == StopAwaited \/ StopOverlapped
DisposeStep == DisposeAwaited \/ DisposeOverlapped

Next ==
    \/ StartCommand \/ StopCommand \/ UiTurn \/ LoopStep \/ StopStep \/ Dispose \/ DisposeStep
    \/ (\E who \in {"demo", "command"} : DemoWritten(who)) \/ CaptureEnds

Spec == Init /\ [][Next]_vars

\* The timer ticks, the thread pool and the UI thread get on with what they have; nobody
\* has to press a button.
Fairness == WF_vars(UiTurn) /\ WF_vars(LoopStep) /\ WF_vars(StopStep) /\ WF_vars(DisposeStep)

FairSpec == Spec /\ Fairness

-----------------------------------------------------------------------------
(* Properties.                                                             *)

Captures == 0..MaxCaptures
Items ==
    [kind : {"snapshot"}, of : Captures, state : Ended \cup {"running", "idle"}]
        \cup [kind : {"start"}, who : {"demo", "command"}] \cup {[kind |-> "stopped"]}

\* Every variable has its type, and the poller lets go of its loop only when it is over.
TypeOK ==
    /\ ui \in {"open", "disposing", "exited"} /\ posted \in Seq(Items)
    /\ isCapturing \in BOOLEAN /\ stopping \in BOOLEAN /\ stopWait \in BOOLEAN
    /\ starting \in SUBSET {"demo", "command"} /\ shown \in SUBSET Captures
    /\ held \in BOOLEAN /\ cancelled \in BOOLEAN
    /\ loop \in {"none", "tick", "poll", "post", "done"} /\ polled \in Items
    /\ ~held => loop \in {"none", "done"}
    /\ rateBase \in Captures /\ source \in Captures
    /\ phase \in {"none", "ready", "running", "finished", "failed", "stopped", "destroyed"}

\* Charts and lists show one capture: a snapshot of an earlier one that was still queued or
\* being taken when it was stopped never reaches the view of the next.
ViewIsCurrent == shown \subseteq {source}

\* Between turns of the UI thread the buttons tell the truth: IsCapturing holds exactly
\* while the core has a capture to stop, and then the poller runs or a stop is under way.
FlagHonest ==
    ui = "open" =>
        /\ isCapturing <=> phase \in Ended \cup {"running"}
        /\ isCapturing => held \/ stopping

\* A rate is the difference of two samples of one capture, taken one after the other: the
\* last poll on the UI thread never meets the loop's.
RatesWithinCapture ==
    [][/\ rateBase' # rateBase => rateBase = 0 \/ rateBase' = 0
       /\ stopping /\ ~stopping' => loop \in {"none", "done"}]_vars

\* A capture that ends by itself is noticed and stopped, whatever else the UI is doing.
EndNoticed == phase \in Ended ~> (phase \notin Ended \/ ui # "open")

\* Leaving the application never hangs: Dispose blocks the UI thread on a loop that needs
\* no turn of the UI thread.
DisposeReturns == ui = "disposing" ~> ui = "exited"

\* README.md:167: "CoreHandle : SafeHandle guarantees core_destroy, even on exceptions".
DestroyedOnExit == ui = "exited" => phase = "destroyed"
=============================================================================
