---------------------------- MODULE AnomalyModel ----------------------------
(***************************************************************************)
(* The analytics service: the handler threads of Analyze (server.py) that  *)
(* score batches and hand their rows to the training thread (model.py),    *)
(* the Health call, and the shutdown of main().  A trained model is its    *)
(* version; of the samples only their number matters here.                 *)
(***************************************************************************)
EXTENDS Naturals

CONSTANTS
    Handlers,      \* handler threads, each serving one stream (cfg.workers)
    WarmupBatches, WarmupSamples, RetrainEvery, MaxSamples,  \* Config
    MaxRows,       \* bound: hosts in a batch
    MaxBatches,    \* bound: batches received
    MaxVersions    \* bound: versions told apart

\* Config.validate asks for the first two; MaxSamples >= WarmupSamples is not checked there,
\* but without it the model never leaves its warm-up.
ASSUME ModelAssumption ==
    /\ WarmupBatches \in Nat \ {0} /\ WarmupSamples \in Nat \ {0}
    /\ RetrainEvery \in Nat \ {0} /\ MaxSamples \in Nat /\ MaxSamples >= WarmupSamples
    /\ MaxRows \in Nat /\ MaxBatches \in Nat /\ MaxVersions \in Nat \ {0}

VARIABLES
    server,    \* main(): "up", "stopping", "flagged", "joining", "done"
    place,     \* [Handlers -> step of Analyze and process], "closed" without a stream
    rows,      \* [Handlers -> rows of the batch that were not flagged]
    warm,      \* [Handlers -> warm, as computed under the lock]
    due,       \* [Handlers -> due, as computed under the lock]
    buffered,  \* len(_samples)
    batches,   \* _batches
    sinceFit,  \* _batches_since_fit
    wanted,    \* the event _train_wanted
    stop,      \* the event _stop
    ready,     \* the event _ready
    fitted,    \* version of _fitted, 0 for None
    trainedOn, \* _fitted.samples
    trainer,   \* "wait", "clear", "check", "snapshot", "fit", "announce", "exited"
    snapshot,  \* rows of the trainer's copy
    covered,   \* history: batches observed when the trainer last copied the samples
    health,    \* the Health call: "idle" or the state it has read
    reply      \* the last reply of Health: its state, and whether its threshold is set

handlers == <<place, rows, warm, due>>
samples  == <<buffered, batches, sinceFit>>
model    == <<ready, fitted, trainedOn>>
training == <<trainer, snapshot, covered>>
vars == <<server, handlers, samples, wanted, stop, model, training, health, reply>>

Init ==
    /\ server = "up"
    /\ place = [h \in Handlers |-> "closed"] /\ rows = [h \in Handlers |-> 0]
    /\ warm = [h \in Handlers |-> FALSE] /\ due = [h \in Handlers |-> FALSE]
    /\ buffered = 0 /\ batches = 0 /\ sinceFit = 0
    /\ wanted = FALSE /\ stop = FALSE /\ ready = FALSE /\ fitted = 0 /\ trainedOn = 0
    /\ trainer = "wait" /\ snapshot = 0 /\ covered = 0
    /\ health = "idle" /\ reply = [state |-> "warming", threshold |-> FALSE]

-----------------------------------------------------------------------------
(* A handler thread: Analyze, process, _score, _observe.                   *)

At(h, from, to) == place[h] = from /\ place' = [place EXCEPT ![h] = to]

OpenStream(h) ==
    /\ server = "up" /\ At(h, "closed", "open")
    /\ UNCHANGED <<server, rows, warm, due, samples, wanted, stop, model, training, health, reply>>

\* The client ends the stream, a batch is too large, or the server cancels it.
EndStream(h) ==
    /\ At(h, "open", "closed")
    /\ UNCHANGED <<server, rows, warm, due, samples, wanted, stop, model, training, health, reply>>

\* A batch with hosts is scored under the model read once; a batch without any returns early.
Score(h) ==
    /\ batches < MaxBatches /\ At(h, "open", "observe")
    /\ \E n \in 1..MaxRows :
          \E normal \in IF fitted = 0 THEN {n} ELSE 0..n : rows' = [rows EXCEPT ![h] = normal]
    /\ UNCHANGED <<server, warm, due, samples, wanted, stop, model, training, health, reply>>

Warm(len, n) == n >= WarmupBatches /\ len >= WarmupSamples

\* deque(maxlen)
Filled(n) == IF buffered + n > MaxSamples THEN MaxSamples ELSE buffered + n

\* the critical section of _observe
Observe(h) ==
    /\ At(h, "observe", "decide")
    /\ buffered' = Filled(rows[h]) /\ batches' = batches + 1 /\ sinceFit' = sinceFit + 1
    /\ warm' = [warm EXCEPT ![h] = Warm(buffered', batches')]
    /\ due' = [due EXCEPT ![h] = sinceFit' >= RetrainEvery]
    /\ rows' = [rows EXCEPT ![h] = 0]
    /\ UNCHANGED <<server, wanted, stop, model, training, health, reply>>

Asks(h) == IF fitted = 0 THEN warm[h] ELSE due[h]

\* ... and after it, _fitted is read and the event set, without the lock
Decide(h) ==
    /\ At(h, "decide", IF Asks(h) THEN "signal" ELSE "open")
    /\ UNCHANGED <<server, rows, warm, due, samples, wanted, stop, model, training, health, reply>>

Signal(h) ==
    /\ At(h, "signal", "open") /\ wanted' = TRUE
    /\ UNCHANGED <<server, rows, warm, due, samples, stop, model, training, health, reply>>

HandlerStep(h) == Observe(h) \/ Decide(h) \/ Signal(h)

-----------------------------------------------------------------------------
(* The training thread: _train_loop.                                       *)

Trainer(from, to) == trainer = from /\ trainer' = to

TrainWait ==
    /\ wanted /\ Trainer("wait", "clear")
    /\ UNCHANGED <<server, handlers, samples, wanted, stop, model, snapshot, covered, health, reply>>

\* mutant: the event is never cleared
KeepWanted == UNCHANGED wanted

ClearWanted == wanted' = FALSE

TrainClear ==
    /\ Trainer("clear", "check") /\ ClearWanted
    /\ UNCHANGED <<server, handlers, samples, stop, model, snapshot, covered, health, reply>>

TrainCheck ==
    /\ Trainer("check", IF stop THEN "exited" ELSE "snapshot")
    /\ UNCHANGED <<server, handlers, samples, wanted, stop, model, snapshot, covered, health, reply>>

\* mutant: the old model is withdrawn while the new one is built
OldDropped == fitted' = 0

OldServes == UNCHANGED fitted

\* under the lock the samples are copied and the count of batches starts again; then fit
TrainSnapshot ==
    /\ Trainer("snapshot", "fit") /\ OldServes
    /\ snapshot' = buffered /\ sinceFit' = 0 /\ covered' = batches
    /\ UNCHANGED <<server, handlers, buffered, batches, wanted, stop, ready, trainedOn, health, reply>>

NextVersion == IF fitted < MaxVersions THEN fitted + 1 ELSE fitted

\* self._fitted = fitted
TrainSwap ==
    /\ Trainer("fit", "announce") /\ fitted' = NextVersion /\ trainedOn' = snapshot
    /\ UNCHANGED <<server, handlers, samples, wanted, stop, ready, snapshot, covered, health, reply>>

\* mutant: the event is cleared after the training instead of before it
ClearedLate == wanted' = FALSE

AskedMeanwhile == UNCHANGED wanted

TrainAnnounce ==
    /\ Trainer("announce", "wait") /\ ready' = TRUE /\ AskedMeanwhile
    /\ UNCHANGED <<server, handlers, samples, stop, fitted, trainedOn, snapshot, covered, health,
                   reply>>

TrainerStep ==
    \/ TrainWait \/ TrainClear \/ TrainCheck \/ TrainSnapshot \/ TrainSwap \/ TrainAnnounce

-----------------------------------------------------------------------------
(* Health reads _fitted twice, without the lock.                           *)

HealthState ==
    /\ health = "idle" /\ health' = IF fitted # 0 THEN "ready" ELSE "warming"
    /\ UNCHANGED <<server, handlers, samples, wanted, stop, model, training, reply>>

HealthReply ==
    /\ health # "idle" /\ health' = "idle"
    /\ reply' = [state |-> health, threshold |-> fitted # 0]
    /\ UNCHANGED <<server, handlers, samples, wanted, stop, model, training>>

-----------------------------------------------------------------------------
(* main() after a signal: server.stop(grace).wait(), then AnomalyModel.close. *)
(* A handler inside process is not interrupted and may still be at work.    *)

ServerStep(from, to) == server = from /\ server' = to

Terminate ==
    /\ ServerStep("up", "stopping")
    /\ UNCHANGED <<handlers, samples, wanted, stop, model, training, health, reply>>

CloseFlags ==
    /\ ServerStep("stopping", "flagged") /\ stop' = TRUE
    /\ UNCHANGED <<handlers, samples, wanted, model, training, health, reply>>

\* mutant: close does not wake the trainer
NotWoken == UNCHANGED wanted

Woken == wanted' = TRUE

CloseWakes ==
    /\ ServerStep("flagged", "joining") /\ Woken
    /\ UNCHANGED <<handlers, samples, stop, model, training, health, reply>>

CloseJoins ==
    /\ trainer = "exited" /\ ServerStep("joining", "done")
    /\ UNCHANGED <<handlers, samples, wanted, stop, model, training, health, reply>>

Next ==
    \/ \E h \in Handlers : OpenStream(h) \/ EndStream(h) \/ Score(h) \/ HandlerStep(h)
    \/ TrainerStep \/ HealthState \/ HealthReply
    \/ Terminate \/ CloseFlags \/ CloseWakes \/ CloseJoins

Spec == Init /\ [][Next]_vars

\* Threads are scheduled and fit comes to an end; clients owe the service nothing.
Fairness ==
    /\ \A h \in Handlers : WF_vars(HandlerStep(h))
    /\ WF_vars(TrainerStep) /\ WF_vars(CloseFlags) /\ WF_vars(CloseWakes) /\ WF_vars(CloseJoins)

FairSpec == Spec /\ Fairness

-----------------------------------------------------------------------------
(* Properties.                                                             *)

\* Every variable has its type; the sample buffer keeps its limit.
TypeOK ==
    /\ server \in {"up", "stopping", "flagged", "joining", "done"}
    /\ place \in [Handlers -> {"closed", "open", "observe", "decide", "signal"}]
    /\ rows \in [Handlers -> 0..MaxRows]
    /\ warm \in [Handlers -> BOOLEAN] /\ due \in [Handlers -> BOOLEAN]
    /\ buffered \in 0..MaxSamples /\ batches \in Nat /\ sinceFit \in Nat
    /\ wanted \in BOOLEAN /\ stop \in BOOLEAN /\ ready \in BOOLEAN
    /\ fitted \in 0..MaxVersions /\ trainedOn \in Nat
    /\ trainer \in {"wait", "clear", "check", "snapshot", "fit", "announce", "exited"}
    /\ snapshot \in Nat /\ covered \in Nat
    /\ health \in {"idle", "ready", "warming"}
    /\ reply \in [state : {"ready", "warming"}, threshold : BOOLEAN]

\* The event is set by handlers and by close, and taken by one trainer: a model that has
\* been published was never fitted on fewer samples than the warm-up asks for.
TrainedEnough == fitted # 0 \/ ready => trainedOn >= WarmupSamples

\* The trainer rests, and nothing is about to wake it.
AtRest ==
    trainer = "wait" /\ ~wanted /\ \A h \in Handlers : place[h] \notin {"decide", "signal"}

\* No request for a training is lost between the lock, the event and the trainer: at rest
\* a warm service has a model, and the model misses fewer batches than a retraining takes.
NothingMissed ==
    AtRest => IF fitted = 0 THEN ~Warm(buffered, batches) ELSE batches - covered < RetrainEvery

\* Health never reports "ready" without a threshold, though it reads the model twice while
\* the trainer swaps it, and once it has reported "ready" it never goes back to "warming".
HealthTruthful ==
    [][/\ reply'.state = "ready" => reply'.threshold
       /\ reply.state = "ready" => reply'.state = "ready"]_vars

\* Without new batches training comes to an end: requests made during a training cause at
\* most a few more of them.
TrainingSettles == <>[](trainer \in {"wait", "exited"})

\* close() returns: the trainer sees the stop flag from wherever it is, also when handlers
\* set the same event at the same time.
CloseReturns == server = "stopping" ~> server = "done"
=============================================================================
