------------------------- MODULE AnomalyModel_proofs -------------------------
(***************************************************************************)
(* The analytics service for any number of streams and any configuration:  *)
(* what a published model was trained on, and that no request for a        *)
(* training is lost between the sample lock, the event and the trainer.    *)
(***************************************************************************)
EXTENDS AnomalyModel, TLAPS

WarmNow == Warm(buffered, batches)

\* _batches_since_fit counts the batches the trainer's last copy misses.
Counting == covered <= batches /\ sinceFit = batches - covered

\* The event is set only after the warm-up, or by close after it has set the stop flag; the
\* warm-up, once over, stays over.
Warmth ==
    /\ \A h \in Handlers :
          /\ place[h] = "decide" /\ warm[h] => WarmNow
          /\ place[h] = "signal" => WarmNow
    /\ server \in {"flagged", "joining", "done"} => stop
    /\ wanted \/ trainer \in {"clear", "check"} => WarmNow \/ stop
    /\ trainer \in {"snapshot", "fit"} \/ fitted # 0 => WarmNow
    /\ trainer = "fit" => snapshot >= WarmupSamples
    /\ trainer = "announce" \/ ready => fitted # 0
    /\ fitted # 0 => trainedOn >= WarmupSamples

\* A request is with a handler that will make it, in the event, or with the trainer before
\* it copies the samples.
Pending ==
    \/ wanted
    \/ trainer \in {"clear", "check", "snapshot", "exited"}
    \/ \E h \in Handlers : place[h] = "signal" \/ (place[h] = "decide" /\ warm[h] /\ due[h])

FirstPending ==
    \/ wanted
    \/ trainer \in {"clear", "check", "snapshot", "fit", "exited"}
    \/ \E h \in Handlers : place[h] = "signal" \/ (place[h] = "decide" /\ warm[h])

Requests ==
    /\ sinceFit >= RetrainEvery /\ (fitted # 0 \/ trainer \in {"fit", "announce"}) => Pending
    /\ fitted = 0 /\ WarmNow => FirstPending

Safe == Counting /\ Warmth /\ Requests
IInv == TypeOK /\ Safe

LEMMA Initially == Init => IInv
<1> SUFFICES ASSUME Init PROVE IInv
  OBVIOUS
<1> USE ModelAssumption DEF Init
<1>1. TypeOK
  <2>1. rows \in [Handlers -> 0..MaxRows] /\ buffered \in 0..MaxSamples /\ fitted \in 0..MaxVersions
    OBVIOUS
  <2>2. /\ place \in [Handlers -> {"closed", "open", "observe", "decide", "signal"}]
        /\ warm \in [Handlers -> BOOLEAN] /\ due \in [Handlers -> BOOLEAN]
    OBVIOUS
  <2>3. reply \in [state : {"ready", "warming"}, threshold : BOOLEAN]
    OBVIOUS
  <2>. QED BY <2>1, <2>2, <2>3 DEF TypeOK
<1>2. Counting BY DEF Counting
<1>3. ~WarmNow BY DEF WarmNow, Warm
<1>4. Warmth /\ Requests BY <1>3 DEF Warmth, Requests
<1>. QED BY <1>1, <1>2, <1>4 DEF IInv, Safe

-----------------------------------------------------------------------------
(* One lemma for each action.                                              *)

LEMMA OpenStreamKeeps == ASSUME IInv, NEW h \in Handlers, OpenStream(h) PROVE IInv'
<1> USE ModelAssumption DEF IInv, OpenStream, At, handlers, samples, model, training
<1>1. TypeOK' BY DEF TypeOK
<1>2. Counting' BY DEF Safe, Counting, TypeOK
<1>3. Warmth' BY DEF Safe, Warmth, WarmNow, Warm, TypeOK
<1>4. Requests' BY DEF Safe, Requests, Pending, FirstPending, Warmth, WarmNow, Warm, TypeOK, Counting
<1>. QED BY <1>1, <1>2, <1>3, <1>4 DEF Safe

LEMMA EndStreamKeeps == ASSUME IInv, NEW h \in Handlers, EndStream(h) PROVE IInv'
<1> USE ModelAssumption DEF IInv, EndStream, At, handlers, samples, model, training
<1>1. TypeOK' BY DEF TypeOK
<1>2. Counting' BY DEF Safe, Counting, TypeOK
<1>3. Warmth' BY DEF Safe, Warmth, WarmNow, Warm, TypeOK
<1>4. Requests' BY DEF Safe, Requests, Pending, FirstPending, Warmth, WarmNow, Warm, TypeOK, Counting
<1>. QED BY <1>1, <1>2, <1>3, <1>4 DEF Safe

LEMMA ScoreKeeps == ASSUME IInv, NEW h \in Handlers, Score(h) PROVE IInv'
<1> USE ModelAssumption DEF IInv, Score, At, handlers, samples, model, training
<1>1. TypeOK' BY DEF TypeOK
<1>2. Counting' BY DEF Safe, Counting, TypeOK
<1>3. Warmth' BY DEF Safe, Warmth, WarmNow, Warm, TypeOK
<1>4. Requests' BY DEF Safe, Requests, Pending, FirstPending, Warmth, WarmNow, Warm, TypeOK, Counting
<1>. QED BY <1>1, <1>2, <1>3, <1>4 DEF Safe

LEMMA ObserveKeeps == ASSUME IInv, NEW h \in Handlers, Observe(h) PROVE IInv'
<1> USE ModelAssumption DEF IInv, Observe, At, Filled, Warm, handlers, samples, model, training
<1>1. TypeOK' BY DEF TypeOK
<1>2. Counting' BY DEF Safe, Counting, TypeOK
<1>3. Warmth' BY DEF Safe, Warmth, WarmNow, Warm, TypeOK
<1>4. Requests'
  <2>1. UNCHANGED <<wanted, trainer, fitted>> /\ place'[h] = "decide"
    BY DEF training, TypeOK
  <2>2. WarmNow' => warm'[h]
    BY DEF WarmNow, TypeOK
  <2>3. sinceFit' >= RetrainEvery => due'[h]
    BY DEF TypeOK
  <2>4. fitted # 0 \/ trainer = "fit" => WarmNow'
    BY <1>3, <2>1 DEF Warmth
  <2>5. (trainer = "announce" => fitted # 0) /\ fitted' = fitted
    BY <2>1 DEF Safe, Warmth
  <2>. QED BY <2>1, <2>2, <2>3, <2>4, <2>5 DEF Requests, Pending, FirstPending
<1>. QED BY <1>1, <1>2, <1>3, <1>4 DEF Safe

LEMMA DecideKeeps == ASSUME IInv, NEW h \in Handlers, Decide(h) PROVE IInv'
<1> USE ModelAssumption DEF IInv, Decide, At, Asks, handlers, samples, model, training
<1>1. TypeOK' BY DEF TypeOK
<1>2. Counting' BY DEF Safe, Counting, TypeOK
<1>3. Warmth' BY DEF Safe, Warmth, WarmNow, Warm, TypeOK
<1>4. Requests' BY DEF Safe, Requests, Pending, FirstPending, Warmth, WarmNow, Warm, TypeOK, Counting
<1>. QED BY <1>1, <1>2, <1>3, <1>4 DEF Safe

LEMMA SignalKeeps == ASSUME IInv, NEW h \in Handlers, Signal(h) PROVE IInv'
<1> USE ModelAssumption DEF IInv, Signal, At, handlers, samples, model, training
<1>1. TypeOK' BY DEF TypeOK
<1>2. Counting' BY DEF Safe, Counting, TypeOK
<1>3. Warmth' BY DEF Safe, Warmth, WarmNow, Warm, TypeOK
<1>4. Requests' BY DEF Safe, Requests, Pending, FirstPending, Warmth, WarmNow, Warm, TypeOK, Counting
<1>. QED BY <1>1, <1>2, <1>3, <1>4 DEF Safe

LEMMA TrainWaitKeeps == ASSUME IInv, TrainWait PROVE IInv'
<1> USE ModelAssumption DEF IInv, TrainWait, Trainer, handlers, samples, model, training
<1>1. TypeOK' BY DEF TypeOK
<1>2. Counting' BY DEF Safe, Counting, TypeOK
<1>3. Warmth' BY DEF Safe, Warmth, WarmNow, Warm, TypeOK
<1>4. Requests' BY DEF Safe, Requests, Pending, FirstPending, Warmth, WarmNow, Warm, TypeOK, Counting
<1>. QED BY <1>1, <1>2, <1>3, <1>4 DEF Safe

LEMMA TrainClearKeeps == ASSUME IInv, TrainClear PROVE IInv'
<1> USE ModelAssumption DEF IInv, TrainClear, Trainer, ClearWanted, handlers, samples, model, training
<1>1. TypeOK' BY DEF TypeOK
<1>2. Counting' BY DEF Safe, Counting, TypeOK
<1>3. Warmth' BY DEF Safe, Warmth, WarmNow, Warm, TypeOK
<1>4. Requests' BY DEF Safe, Requests, Pending, FirstPending, Warmth, WarmNow, Warm, TypeOK, Counting
<1>. QED BY <1>1, <1>2, <1>3, <1>4 DEF Safe

LEMMA TrainCheckKeeps == ASSUME IInv, TrainCheck PROVE IInv'
<1> USE ModelAssumption DEF IInv, TrainCheck, Trainer, handlers, samples, model, training
<1>1. TypeOK' BY DEF TypeOK
<1>2. Counting' BY DEF Safe, Counting, TypeOK
<1>3. Warmth' BY DEF Safe, Warmth, WarmNow, Warm, TypeOK
<1>4. Requests' BY DEF Safe, Requests, Pending, FirstPending, Warmth, WarmNow, Warm, TypeOK, Counting
<1>. QED BY <1>1, <1>2, <1>3, <1>4 DEF Safe

LEMMA TrainSnapshotKeeps == ASSUME IInv, TrainSnapshot PROVE IInv'
<1> USE ModelAssumption DEF IInv, TrainSnapshot, Trainer, OldServes, handlers, samples, model, training
<1>1. TypeOK' BY DEF TypeOK
<1>2. Counting' BY DEF Safe, Counting, TypeOK
<1>3. Warmth' BY DEF Safe, Warmth, WarmNow, Warm, TypeOK
<1>4. Requests' BY DEF Safe, Requests, Pending, FirstPending, Warmth, WarmNow, Warm, TypeOK, Counting
<1>. QED BY <1>1, <1>2, <1>3, <1>4 DEF Safe

LEMMA TrainSwapKeeps == ASSUME IInv, TrainSwap PROVE IInv'
<1> USE ModelAssumption DEF IInv, TrainSwap, Trainer, NextVersion, handlers, samples, model, training
<1>1. TypeOK' BY DEF TypeOK
<1>2. Counting' BY DEF Safe, Counting, TypeOK
<1>3. Warmth' BY DEF Safe, Warmth, WarmNow, Warm, TypeOK
<1>4. Requests' BY DEF Safe, Requests, Pending, FirstPending, Warmth, WarmNow, Warm, TypeOK, Counting
<1>. QED BY <1>1, <1>2, <1>3, <1>4 DEF Safe

LEMMA TrainAnnounceKeeps == ASSUME IInv, TrainAnnounce PROVE IInv'
<1> USE ModelAssumption DEF IInv, TrainAnnounce, Trainer, AskedMeanwhile, handlers, samples, model, training
<1>1. TypeOK' BY DEF TypeOK
<1>2. Counting' BY DEF Safe, Counting, TypeOK
<1>3. Warmth' BY DEF Safe, Warmth, WarmNow, Warm, TypeOK
<1>4. Requests' BY DEF Safe, Requests, Pending, FirstPending, Warmth, WarmNow, Warm, TypeOK, Counting
<1>. QED BY <1>1, <1>2, <1>3, <1>4 DEF Safe

LEMMA HealthStateKeeps == ASSUME IInv, HealthState PROVE IInv'
<1> USE ModelAssumption DEF IInv, HealthState, handlers, samples, model, training
<1>1. TypeOK' BY DEF TypeOK
<1>2. Counting' BY DEF Safe, Counting, TypeOK
<1>3. Warmth' BY DEF Safe, Warmth, WarmNow, Warm, TypeOK
<1>4. Requests' BY DEF Safe, Requests, Pending, FirstPending, Warmth, WarmNow, Warm, TypeOK, Counting
<1>. QED BY <1>1, <1>2, <1>3, <1>4 DEF Safe

LEMMA HealthReplyKeeps == ASSUME IInv, HealthReply PROVE IInv'
<1> USE ModelAssumption DEF IInv, HealthReply, handlers, samples, model, training
<1>1. TypeOK' BY DEF TypeOK
<1>2. Counting' BY DEF Safe, Counting, TypeOK
<1>3. Warmth' BY DEF Safe, Warmth, WarmNow, Warm, TypeOK
<1>4. Requests' BY DEF Safe, Requests, Pending, FirstPending, Warmth, WarmNow, Warm, TypeOK, Counting
<1>. QED BY <1>1, <1>2, <1>3, <1>4 DEF Safe

LEMMA TerminateKeeps == ASSUME IInv, Terminate PROVE IInv'
<1> USE ModelAssumption DEF IInv, Terminate, ServerStep, handlers, samples, model, training
<1>1. TypeOK' BY DEF TypeOK
<1>2. Counting' BY DEF Safe, Counting, TypeOK
<1>3. Warmth' BY DEF Safe, Warmth, WarmNow, Warm, TypeOK
<1>4. Requests' BY DEF Safe, Requests, Pending, FirstPending, Warmth, WarmNow, Warm, TypeOK, Counting
<1>. QED BY <1>1, <1>2, <1>3, <1>4 DEF Safe

LEMMA CloseFlagsKeeps == ASSUME IInv, CloseFlags PROVE IInv'
<1> USE ModelAssumption DEF IInv, CloseFlags, ServerStep, handlers, samples, model, training
<1>1. TypeOK' BY DEF TypeOK
<1>2. Counting' BY DEF Safe, Counting, TypeOK
<1>3. Warmth' BY DEF Safe, Warmth, WarmNow, Warm, TypeOK
<1>4. Requests' BY DEF Safe, Requests, Pending, FirstPending, Warmth, WarmNow, Warm, TypeOK, Counting
<1>. QED BY <1>1, <1>2, <1>3, <1>4 DEF Safe

LEMMA CloseWakesKeeps == ASSUME IInv, CloseWakes PROVE IInv'
<1> USE ModelAssumption DEF IInv, CloseWakes, ServerStep, Woken, handlers, samples, model, training
<1>1. TypeOK' BY DEF TypeOK
<1>2. Counting' BY DEF Safe, Counting, TypeOK
<1>3. Warmth' BY DEF Safe, Warmth, WarmNow, Warm, TypeOK
<1>4. Requests' BY DEF Safe, Requests, Pending, FirstPending, Warmth, WarmNow, Warm, TypeOK, Counting
<1>. QED BY <1>1, <1>2, <1>3, <1>4 DEF Safe

LEMMA CloseJoinsKeeps == ASSUME IInv, CloseJoins PROVE IInv'
<1> USE ModelAssumption DEF IInv, CloseJoins, ServerStep, handlers, samples, model, training
<1>1. TypeOK' BY DEF TypeOK
<1>2. Counting' BY DEF Safe, Counting, TypeOK
<1>3. Warmth' BY DEF Safe, Warmth, WarmNow, Warm, TypeOK
<1>4. Requests' BY DEF Safe, Requests, Pending, FirstPending, Warmth, WarmNow, Warm, TypeOK, Counting
<1>. QED BY <1>1, <1>2, <1>3, <1>4 DEF Safe

LEMMA StutterKeeps == IInv /\ UNCHANGED vars => IInv'
<1> SUFFICES ASSUME IInv, UNCHANGED vars PROVE IInv'
  OBVIOUS
<1> USE DEF IInv, vars, handlers, samples, model, training
<1>1. TypeOK' BY DEF TypeOK
<1>2. Counting' /\ Warmth' BY DEF Safe, Counting, Warmth, WarmNow, Warm
<1>3. Requests' BY DEF Safe, Requests, Pending, FirstPending, WarmNow, Warm
<1>. QED BY <1>1, <1>2, <1>3 DEF Safe

LEMMA NextKeeps == IInv /\ [Next]_vars => IInv'
BY OpenStreamKeeps, EndStreamKeeps, ScoreKeeps, ObserveKeeps, DecideKeeps, SignalKeeps,
   TrainWaitKeeps, TrainClearKeeps, TrainCheckKeeps, TrainSnapshotKeeps, TrainSwapKeeps,
   TrainAnnounceKeeps, HealthStateKeeps, HealthReplyKeeps, TerminateKeeps, CloseFlagsKeeps,
   CloseWakesKeeps, CloseJoinsKeeps, StutterKeeps DEF Next, HandlerStep, TrainerStep

LEMMA Invariant == Spec => []IInv
BY Initially, NextKeeps, PTL DEF Spec

-----------------------------------------------------------------------------
(* The properties.                                                         *)

\* Every variable has its type, and the sample buffer keeps its limit.
THEOREM TypeCorrect == Spec => []TypeOK
<1>1. IInv => TypeOK BY DEF IInv
<1>. QED BY <1>1, Invariant, PTL

\* A model that has been published was fitted on at least the samples of the warm-up,
\* although the event that starts the trainer is also set by close.
THEOREM ModelsTrainedEnough == Spec => []TrainedEnough
<1>1. IInv => TrainedEnough BY DEF IInv, Safe, Warmth, TrainedEnough
<1>. QED BY <1>1, Invariant, PTL

\* At rest nothing is missed: no handler's request is lost to the trainer's clear, and none
\* falls between the lock and the read of _fitted that follows it.
THEOREM NothingIsMissed == Spec => []NothingMissed
<1>1. IInv => NothingMissed
  <2> SUFFICES ASSUME IInv, AtRest
               PROVE  IF fitted = 0 THEN ~WarmNow ELSE batches - covered < RetrainEvery
    BY DEF NothingMissed, WarmNow
  <2>1. ~Pending /\ ~FirstPending
    BY DEF AtRest, Pending, FirstPending
  <2>2. CASE fitted = 0
    BY <2>1, <2>2 DEF IInv, Safe, Requests
  <2>3. CASE fitted # 0
    BY <2>1, <2>3, ModelAssumption DEF IInv, Safe, Requests, Counting, TypeOK
  <2>. QED BY <2>2, <2>3
<1>. QED BY <1>1, Invariant, PTL

\* What Health has read or replied: a model, once seen, stays.
Honest ==
    /\ health = "ready" \/ reply.state = "ready" => fitted # 0
    /\ reply.state = "ready" => reply.threshold /\ health # "warming"

Truthful ==
    /\ reply'.state = "ready" => reply'.threshold
    /\ reply.state = "ready" => reply'.state = "ready"

\* The trainer never withdraws a model.
LEMMA ModelStays == TypeOK /\ [Next]_vars => (fitted # 0 => fitted' # 0)
<1> SUFFICES ASSUME TypeOK, [Next]_vars, fitted # 0 PROVE fitted' # 0
  OBVIOUS
<1>1. CASE TrainSwap
  BY <1>1, ModelAssumption DEF TrainSwap, NextVersion, TypeOK
<1>2. CASE ~TrainSwap
  <2>1. fitted' = fitted
    BY <1>2 DEF Next, HandlerStep, TrainerStep, OpenStream, EndStream, Score, Observe, Decide, Signal,
       TrainWait, TrainClear, TrainCheck, TrainSnapshot, OldServes, TrainAnnounce, HealthState,
       HealthReply, Terminate, CloseFlags, CloseWakes, CloseJoins, vars, model
  <2>. QED BY <2>1
<1>. QED BY <1>1, <1>2

\* Only Health changes what it has read and replied.
LEMMA HealthAlone == [Next]_vars => HealthState \/ HealthReply \/ UNCHANGED <<health, reply>>
BY DEF Next, HandlerStep, TrainerStep, OpenStream, EndStream, Score, Observe, Decide, Signal,
   TrainWait, TrainClear, TrainCheck, TrainSnapshot, TrainSwap, TrainAnnounce,
   Terminate, CloseFlags, CloseWakes, CloseJoins, vars

LEMMA HonestKeeps == TypeOK /\ Honest /\ [Next]_vars => Honest' /\ Truthful
<1> SUFFICES ASSUME TypeOK, Honest, [Next]_vars PROVE Honest' /\ Truthful
  OBVIOUS
<1>1. fitted # 0 => fitted' # 0
  BY ModelStays
<1>2. CASE HealthState
  BY <1>1, <1>2 DEF HealthState, Honest, Truthful
<1>3. CASE HealthReply
  <2>1. /\ reply'.state = health /\ reply'.threshold = (fitted # 0)
        /\ health' = "idle" /\ health # "idle"
    BY <1>3 DEF HealthReply
  <2>2. health \in {"idle", "ready", "warming"}
    BY DEF TypeOK
  <2>3. health = "ready" => reply'.threshold
    BY <2>1 DEF Honest
  <2>. QED BY <1>1, <2>1, <2>2, <2>3 DEF Honest, Truthful
<1>4. CASE UNCHANGED <<health, reply>>
  BY <1>1, <1>4 DEF Honest, Truthful
<1>. QED BY <1>2, <1>3, <1>4, HealthAlone

\* Health says "ready" only with a threshold and never takes it back, although it reads the
\* model twice without the lock that the trainer swaps it under.
THEOREM HealthStaysTruthful == Spec => HealthTruthful
<1>1. Init => Honest
  BY DEF Init, Honest
<1>2. TypeOK /\ Honest /\ [Next]_vars => Honest' /\ [Truthful]_vars
  BY HonestKeeps
<1>. QED BY <1>1, <1>2, TypeCorrect, PTL DEF Spec, HealthTruthful, Truthful
=============================================================================
