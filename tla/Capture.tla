------------------------------ MODULE Capture ------------------------------
(***************************************************************************)
(* The capture life cycle: the C sniffer with its capture thread           *)
(* (sniffer-c/src/sniffer.c, capture_loop.c, pcap_replay.c), the Rust      *)
(* wrapper that owns it (core-ffi/src/sniffer.rs) and the part of NcCore   *)
(* that opens, starts, stops, polls and destroys it (core-ffi/src/core.rs),*)
(* called by several threads of the host program.                          *)
(*                                                                         *)
(* A handle is one sniffer_open_*; its thread is the one sniffer_start     *)
(* spawns.  The capture mutex is held over whole calls, the engine mutex   *)
(* only while a frame is processed or the counters are copied.             *)
(***************************************************************************)
EXTENDS Naturals, FiniteSets

CONSTANTS
    Controllers,  \* host threads that open, start, stop and reload
    Pollers,      \* host threads that only poll statistics
    Handles,      \* the sniffers that may ever be opened
    MaxFrames,    \* bound: frames one source delivers
    RuleFiles,    \* the rule files core_load_rules may be given
    Builtin,      \* the rules compiled into the core
    None          \* no handle, no lock holder

Clients == Controllers \cup Pollers

ASSUME ConstantsAssumption ==
    /\ MaxFrames \in Nat
    /\ Builtin \notin RuleFiles
    /\ None \notin Handles \cup Clients
    /\ Handles \cap Clients = {}

VARIABLES
    core,        \* NcCore and its Shared: "live", "dropping" or "freed"
    capture,     \* NcCore.capture: the installed handle or None
    running,     \* Sniffer.running, the wrapper's flag
    captureLock, \* client holding the mutex around capture, or None
    engineLock,  \* client holding the engine mutex over a step, or None
    sources,     \* handles whose frames the current Engine has counted
    packets,     \* Engine.counters.packets
    engineRules, \* the file the Engine's rules come from
    ruleSpecs,   \* the file NcCore.rule_specs comes from
    state,       \* [Handles -> struct sniffer.state, "unused" or "freed"]
    kind,        \* [Handles -> struct sniffer.kind]
    stopFlag,    \* [Handles -> stop_requested]
    finished,    \* [Handles -> finished]
    status,      \* [Handles -> thread_status]
    delivered,   \* [Handles -> delivered]
    thread,      \* [Handles -> where the capture thread is]
    ret,         \* [Handles -> what run_source returned to the thread]
    call,        \* [Clients -> the step of the ABI call under way]
    subject,     \* [Clients -> handle being built, closed or joined]
    carried,     \* [Clients -> the rules the call under way carries]
    result       \* [Clients -> what the last call returned]

sniffers == <<state, kind, stopFlag, finished, status>>
threads  == <<delivered, thread, ret>>
engine   == <<sources, packets>>
rules    == <<engineRules, ruleSpecs, carried>>
locks    == <<captureLock, engineLock>>
calls    == <<call, subject, result>>
vars == <<core, capture, running, locks, engine, rules, sniffers, threads, calls>>

Unlocked == None
Live(h) == thread[h] \notin {"none", "exited"}

Init ==
    /\ core = "live" /\ capture = None /\ running = FALSE
    /\ captureLock = Unlocked /\ engineLock = Unlocked
    /\ sources = {} /\ packets = 0
    /\ engineRules = Builtin /\ ruleSpecs = Builtin
    /\ state = [h \in Handles |-> "unused"]
    /\ kind = [h \in Handles |-> "file"]
    /\ stopFlag = [h \in Handles |-> FALSE]
    /\ finished = [h \in Handles |-> FALSE]
    /\ status = [h \in Handles |-> "ok"]
    /\ delivered = [h \in Handles |-> 0]
    /\ thread = [h \in Handles |-> "none"]
    /\ ret = [h \in Handles |-> "ok"]
    /\ call = [c \in Clients |-> "idle"]
    /\ subject = [c \in Clients |-> None]
    /\ carried = [c \in Clients |-> Builtin]
    /\ result = [c \in Clients |-> "ok"]

-----------------------------------------------------------------------------
(* The capture thread: capture_thread around live_loop or replay_loop.     *)

Goto(h, pc) == thread' = [thread EXCEPT ![h] = pc]

\* mutant: the return value is never stored in thread_status
LoopReturnsUnstored(h, r) == ret' = [ret EXCEPT ![h] = r] /\ Goto(h, "flagging")

LoopReturns(h, r) == ret' = [ret EXCEPT ![h] = r] /\ Goto(h, "returning")

\* mutant: the loop never looks at the flag
StopUnseen(h) == FALSE

StopSeen(h) == stopFlag[h]

ThreadOnly == UNCHANGED <<core, capture, running, locks, rules, calls>>

\* while (!flag_get(&s->stop_requested))
LoopCheck(h) ==
    /\ thread[h] = "check"
    /\ IF StopSeen(h) THEN LoopReturns(h, "ok") ELSE Goto(h, "read") /\ UNCHANGED ret
    /\ ThreadOnly /\ UNCHANGED <<engine, sniffers, delivered>>

\* A frame is read; a replay paces it first (pace() returns early on a stop).
ReadFrame(h) ==
    /\ thread[h] = "read" /\ delivered[h] < MaxFrames
    /\ Goto(h, IF kind[h] = "file" THEN "pace" ELSE "deliver")
    /\ ThreadOnly /\ UNCHANGED <<engine, sniffers, delivered, ret>>

PaceOver(h) ==
    /\ thread[h] = "pace" /\ Goto(h, "deliver")
    /\ ThreadOnly /\ UNCHANGED <<engine, sniffers, delivered, ret>>

\* pcap_next_ex: nothing arrived within its timeout
ReadTimeout(h) ==
    /\ thread[h] = "read" /\ kind[h] = "live" /\ Goto(h, "check")
    /\ ThreadOnly /\ UNCHANGED <<engine, sniffers, delivered, ret>>

\* The loop ends without a frame: end of file, breakloop or an error.
ReadEnds(h) ==
    /\ thread[h] = "read"
    /\ \/ kind[h] = "file" /\ LoopReturns(h, "ok")
       \/ kind[h] = "live" /\ stopFlag[h] /\ LoopReturns(h, "ok")
       \/ LoopReturns(h, "failed")
    /\ ThreadOnly /\ UNCHANGED <<engine, sniffers, delivered>>

\* sniffer_deliver: on_frame ingests under the engine mutex.
Deliver(h) ==
    /\ thread[h] = "deliver" /\ engineLock = Unlocked
    /\ sources' = sources \cup {h} /\ packets' = packets + 1
    /\ delivered' = [delivered EXCEPT ![h] = @ + 1]
    /\ Goto(h, "check")
    /\ ThreadOnly /\ UNCHANGED <<sniffers, ret>>

\* s->thread_status = run_source(s, 0), then the finished flag
StoreStatus(h) ==
    /\ thread[h] = "returning"
    /\ status' = [status EXCEPT ![h] = ret[h]] /\ Goto(h, "flagging")
    /\ ThreadOnly /\ UNCHANGED <<engine, state, kind, stopFlag, finished, delivered, ret>>

SetFinished(h) ==
    /\ thread[h] = "flagging"
    /\ finished' = [finished EXCEPT ![h] = TRUE] /\ Goto(h, "exited")
    /\ ThreadOnly /\ UNCHANGED <<engine, state, kind, stopFlag, status, delivered, ret>>

ThreadStep(h) ==
    \/ LoopCheck(h) \/ ReadFrame(h) \/ PaceOver(h) \/ ReadTimeout(h) \/ ReadEnds(h)
    \/ Deliver(h) \/ StoreStatus(h) \/ SetFinished(h)

-----------------------------------------------------------------------------
(* Calls of the host.  Every call ends by giving its locks back.           *)

Idle(c) == core = "live" /\ call[c] = "idle"

Step(c, pc) == call' = [call EXCEPT ![c] = pc] /\ UNCHANGED result

Return(c, r) == call' = [call EXCEPT ![c] = "idle"] /\ result' = [result EXCEPT ![c] = r]

Work(c, h) == subject' = [subject EXCEPT ![c] = h]

\* mutant: sniffer_stop does not wait for the thread
JoinForgotten(h) == TRUE

\* thread_join returns once the thread function has returned
Joinable(h) == thread[h] = "exited"

\* install: refuse while running, otherwise start giving the old source back
OpenBegin(c) ==
    /\ Idle(c) /\ captureLock = Unlocked
    /\ IF capture # None /\ running
       THEN Return(c, "error") /\ UNCHANGED <<capture, captureLock, subject>>
       ELSE /\ captureLock' = c /\ capture' = None /\ Work(c, capture)
            /\ Step(c, IF capture = None THEN "open" ELSE "close")
    /\ UNCHANGED <<core, running, engineLock, engine, rules, sniffers, threads>>

\* sniffer_close on the subject: stop and join a running one, then free it
CloseStop(c) ==
    /\ call[c] \in {"close", "dropclose"} /\ state[subject[c]] = "RUNNING"
    /\ ~stopFlag[subject[c]]
    /\ stopFlag' = [stopFlag EXCEPT ![subject[c]] = TRUE]
    /\ UNCHANGED <<core, capture, running, locks, engine, rules, state, kind, finished,
                   status, threads, calls>>

CloseJoin(c) ==
    LET h == subject[c] IN
    /\ call[c] \in {"close", "dropclose"} /\ state[h] = "RUNNING" /\ stopFlag[h]
    /\ Joinable(h)
    /\ state' = [state EXCEPT ![h] = "FINISHED"]
    /\ UNCHANGED <<core, capture, running, locks, engine, rules, kind, stopFlag, finished,
                   status, threads, calls>>

CloseFree(c) ==
    /\ call[c] \in {"close", "dropclose"} /\ state[subject[c]] \in {"IDLE", "FINISHED"}
    /\ state' = [state EXCEPT ![subject[c]] = "freed"] /\ Work(c, None)
    /\ Step(c, IF call[c] = "close" THEN "open" ELSE "drop")
    /\ UNCHANGED <<core, capture, running, locks, engine, rules, kind, stopFlag, finished,
                   status, threads>>

\* open(): the new sniffer, an open error, or a link type the engine refuses
OpenSource(c) ==
    /\ call[c] = "open"
    /\ \/ \E h \in Handles, k \in {"file", "live"} :
             /\ state[h] = "unused"
             /\ state' = [state EXCEPT ![h] = "IDLE"] /\ kind' = [kind EXCEPT ![h] = k]
             /\ Work(c, h) /\ Step(c, "rules") /\ UNCHANGED captureLock
       \/ /\ Return(c, "error") /\ captureLock' = Unlocked
          /\ UNCHANGED <<state, kind, subject>>
       \/ \E h \in Handles :
             /\ state[h] = "unused" /\ state' = [state EXCEPT ![h] = "freed"]
             /\ Return(c, "error") /\ captureLock' = Unlocked
             /\ UNCHANGED <<kind, subject>>
    /\ UNCHANGED <<core, capture, running, engineLock, engine, rules, stopFlag, finished,
                   status, threads>>

\* RuleEngine::from_specs(lock(&self.rule_specs).clone())
OpenRules(c) ==
    /\ call[c] = "rules" /\ Step(c, "install")
    /\ carried' = [carried EXCEPT ![c] = ruleSpecs]
    /\ UNCHANGED <<core, capture, running, locks, engine, engineRules, ruleSpecs, sniffers,
                   threads, subject>>

\* mutant: the engine is kept when a source is opened
KeepEngine == UNCHANGED engine

FreshEngine == sources' = {} /\ packets' = 0

\* a fresh Engine with those rules, the callback, and the source is installed
OpenInstall(c) ==
    /\ call[c] = "install" /\ engineLock = Unlocked
    /\ FreshEngine
    /\ engineRules' = carried[c] /\ carried' = [carried EXCEPT ![c] = Builtin]
    /\ capture' = subject[c] /\ running' = FALSE
    /\ captureLock' = Unlocked /\ Work(c, None) /\ Return(c, "ok")
    /\ UNCHANGED <<core, engineLock, ruleSpecs, sniffers, threads>>

\* NcCore::start and sniffer_start; a sniffer starts once (check_can_run)
Start(c) ==
    /\ Idle(c) /\ captureLock = Unlocked
    /\ IF capture = None \/ state[capture] # "IDLE"
       THEN Return(c, "error") /\ UNCHANGED <<running, state, stopFlag, finished, thread>>
       ELSE /\ stopFlag' = [stopFlag EXCEPT ![capture] = FALSE]
            /\ finished' = [finished EXCEPT ![capture] = FALSE]
            /\ \/ /\ state' = [state EXCEPT ![capture] = "RUNNING"] /\ Goto(capture, "check")
                  /\ running' = TRUE /\ Return(c, "ok")
               \/ Return(c, "error") /\ UNCHANGED <<running, state, thread>>
    /\ UNCHANGED <<core, capture, locks, engine, rules, kind, status, delivered, ret, subject>>

\* NcCore::stop: the flag is raised and the thread joined under the mutex
StopBegin(c) ==
    /\ Idle(c) /\ captureLock = Unlocked
    /\ IF capture # None /\ running
       THEN /\ captureLock' = c /\ stopFlag' = [stopFlag EXCEPT ![capture] = TRUE]
            /\ Work(c, capture) /\ Step(c, "join")
       ELSE Return(c, "error") /\ UNCHANGED <<captureLock, stopFlag, subject>>
    /\ UNCHANGED <<core, capture, running, engineLock, engine, rules, state, kind, finished,
                   status, threads>>

\* mutant: self.check(code)? before self.running = false
StoppedIfOk(h) == running' = (status[h] # "ok")

WrapperStopped(h) == running' = FALSE

StopJoin(c) ==
    LET h == subject[c] IN
    /\ call[c] = "join" /\ Joinable(h)
    /\ state' = [state EXCEPT ![h] = "FINISHED"] /\ WrapperStopped(h)
    /\ captureLock' = Unlocked /\ Work(c, None) /\ Return(c, status[h])
    /\ UNCHANGED <<core, capture, engineLock, engine, rules, kind, stopFlag, finished, status,
                   threads>>

\* load_rules: the engine first, rule_specs in a second critical section
LoadRules(c) ==
    /\ Idle(c) /\ engineLock = Unlocked
    /\ \/ /\ \E f \in RuleFiles :
                engineRules' = f /\ carried' = [carried EXCEPT ![c] = f]
          /\ Step(c, "specs")
       \/ Return(c, "error") /\ UNCHANGED <<engineRules, carried>>
    /\ UNCHANGED <<core, capture, running, locks, engine, ruleSpecs, sniffers, threads, subject>>

\* mutant: the rules do not survive the next open
ForgetsSpecs(c) == UNCHANGED ruleSpecs

KeepsSpecs(c) == ruleSpecs' = carried[c]

LoadSpecs(c) ==
    /\ call[c] = "specs" /\ KeepsSpecs(c)
    /\ carried' = [carried EXCEPT ![c] = Builtin] /\ Return(c, "ok")
    /\ UNCHANGED <<core, capture, running, locks, engine, engineRules, sniffers,
                   threads, subject>>

\* NcCore::stats copies the counters under the engine mutex, releases it ...
StatsEngine(c) ==
    /\ Idle(c) /\ engineLock = Unlocked /\ engineLock' = c /\ Step(c, "stats")
    /\ UNCHANGED <<core, capture, running, captureLock, engine, rules, sniffers, threads, subject>>

StatsRelease(c) ==
    /\ call[c] = "stats" /\ engineLock' = Unlocked /\ Step(c, "state")
    /\ UNCHANGED <<core, capture, running, captureLock, engine, rules, sniffers, threads, subject>>

\* ... and only then asks the sniffer: NcCore::capture_state
CaptureState ==
    IF capture = None \/ ~running THEN "idle"
    ELSE IF state[capture] # "RUNNING" \/ ~finished[capture] THEN "running"
    ELSE IF status[capture] = "ok" THEN "finished" ELSE "failed"

StatsState(c) ==
    /\ call[c] = "state" /\ captureLock = Unlocked /\ Return(c, CaptureState)
    /\ UNCHANGED <<core, capture, running, locks, engine, rules, sniffers, threads, subject>>

\* core_destroy: the host has no other call under way
DropBegin(c) ==
    /\ core = "live" /\ \A d \in Clients : call[d] = "idle"
    /\ core' = "dropping" /\ capture' = None /\ Work(c, capture)
    /\ Step(c, IF capture = None THEN "drop" ELSE "dropclose")
    /\ UNCHANGED <<running, locks, engine, rules, sniffers, threads>>

DropEnd(c) ==
    /\ call[c] = "drop" /\ core' = "freed" /\ Return(c, "ok")
    /\ UNCHANGED <<capture, running, locks, engine, rules, sniffers, threads, subject>>

ControlStep(c) ==
    \/ OpenBegin(c) \/ OpenSource(c) \/ OpenRules(c) \/ OpenInstall(c)
    \/ CloseStop(c) \/ CloseJoin(c) \/ CloseFree(c)
    \/ Start(c) \/ StopBegin(c) \/ StopJoin(c) \/ LoadRules(c) \/ LoadSpecs(c)
    \/ DropBegin(c) \/ DropEnd(c)

PollStep(c) == StatsEngine(c) \/ StatsRelease(c) \/ StatsState(c)

Next ==
    \/ \E h \in Handles : ThreadStep(h)
    \/ \E c \in Controllers : ControlStep(c)
    \/ \E c \in Clients : PollStep(c)

Spec == Init /\ [][Next]_vars

\* The capture thread is scheduled and pcap_next_ex comes back within its timeout;
\* a started call is continued; a mutex given back again and again is obtained.
Continue(c) ==
    \/ OpenSource(c) \/ OpenRules(c) \/ OpenInstall(c) \/ CloseStop(c) \/ CloseJoin(c)
    \/ CloseFree(c) \/ StopJoin(c) \/ LoadSpecs(c) \/ DropEnd(c) \/ StatsRelease(c)

Fairness ==
    /\ \A h \in Handles : WF_vars(ThreadStep(h)) /\ SF_vars(Deliver(h))
    /\ \A c \in Clients : WF_vars(Continue(c)) /\ SF_vars(OpenInstall(c)) /\ SF_vars(StatsState(c))

FairSpec == Spec /\ Fairness

-----------------------------------------------------------------------------
(* Properties.                                                             *)

Lives == {"unused", "IDLE", "RUNNING", "FINISHED", "freed"}
ThreadPlaces == {"none", "check", "read", "pace", "deliver", "returning", "flagging", "exited"}
CallPlaces == {"idle", "close", "open", "rules", "install", "join", "specs", "stats", "state",
               "dropclose", "drop"}
Results == {"ok", "error", "idle", "running", "finished", "failed"}

\* Every variable has its type.
TypeOK ==
    /\ core \in {"live", "dropping", "freed"}
    /\ capture \in Handles \cup {None} /\ running \in BOOLEAN
    /\ captureLock \in Clients \cup {None} /\ engineLock \in Clients \cup {None}
    /\ sources \in SUBSET Handles /\ packets \in Nat
    /\ engineRules \in RuleFiles \cup {Builtin} /\ ruleSpecs \in RuleFiles \cup {Builtin}
    /\ state \in [Handles -> Lives] /\ kind \in [Handles -> {"file", "live"}]
    /\ stopFlag \in [Handles -> BOOLEAN] /\ finished \in [Handles -> BOOLEAN]
    /\ status \in [Handles -> {"ok", "failed"}] /\ ret \in [Handles -> {"ok", "failed"}]
    /\ delivered \in [Handles -> Nat] /\ thread \in [Handles -> ThreadPlaces]
    /\ call \in [Clients -> CallPlaces] /\ subject \in [Clients -> Handles \cup {None}]
    /\ carried \in [Clients -> RuleFiles \cup {Builtin}]
    /\ result \in [Clients -> Results]

\* The capture thread runs, and may call back into Shared, only while its sniffer is
\* RUNNING (so not freed) and Shared is still allocated (comment above NcCore::drop).
CallbackSafe ==
    \A h \in Handles : Live(h) => state[h] = "RUNNING" /\ core # "freed"

\* Whenever no call holds the mutex, the wrapper's running flag, which decides what open,
\* stop and stats do, agrees with the state the C sniffer keeps on its own.
FlagAgrees ==
    captureLock = Unlocked /\ capture # None => (running <=> state[capture] = "RUNNING")

\* The statistics of an installed source never include frames of an earlier one.
EngineIsolated ==
    capture # None => sources \subseteq {capture}

\* With no control call under way, the engine runs the rules that the next open will
\* give it: a reload during a capture is neither lost nor undone (one controller).
RulesAgree ==
    (\A c \in Controllers : call[c] = "idle") => engineRules = ruleSpecs

\* stats reports the end of a capture only when the thread has ended, and stats and stop
\* report it as the thread's loop ended: success for success, failure for failure.
HonestReports ==
    [][\A c \in Clients :
          /\ call[c] = "state" /\ result'[c] \in {"finished", "failed"} /\ call'[c] = "idle"
                => /\ thread[capture] = "exited"
                   /\ (result'[c] = "finished" <=> ret[capture] = "ok")
          /\ call[c] = "join" /\ call'[c] = "idle" => result'[c] = ret[subject[c]]]_vars

\* Every call returns: no interleaving of stop, stats and the capture thread leaves them
\* waiting for each other, and a stop ends a silent interface and a paced replay.
CallsReturn ==
    \A c \in Clients : call[c] # "idle" ~> call[c] = "idle"

\* The source a caller sees: the installed one, or the one being given back.
Current ==
    IF capture # None THEN capture
    ELSE IF \E c \in Controllers : call[c] \in {"close", "dropclose"}
         THEN subject[CHOOSE c \in Controllers : call[c] \in {"close", "dropclose"}]
         ELSE None

Phase ==
    IF core = "freed" THEN "gone"
    ELSE IF Current = None THEN "closed"
    ELSE CASE state[Current] = "RUNNING" -> "running"
           [] state[Current] = "FINISHED" -> "stopped"
           [] OTHER -> "ready"

\* The locks, flags and threads implement the sequential session of CaptureSession.
Session == INSTANCE CaptureSession WITH phase <- Phase
ImplementsSession == Session!Spec
=============================================================================
