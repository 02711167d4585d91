--------------------------- MODULE AnalyticsLink ---------------------------
(***************************************************************************)
(* The link to the analytics service: the exporter thread that offers flow *)
(* batches and drains scores (core-ffi/src/analytics.rs), the worker that  *)
(* owns the gRPC stream and reconnects with backoff (core-grpc/src/link.rs)*)
(* and the owner that starts and drops both.  The service, seen through the*)
(* stream, may crash, restart, end a stream, or answer only after the      *)
(* first batch.  A batch is its batch_id.                                  *)
(***************************************************************************)
EXTENDS Naturals, Sequences, SequencesExt, FiniteSets

CONSTANTS
    BatchQueue,  \* capacity of the batch channel and of a stream's channel (8)
    MaxBackoff,  \* longest wait, in units of INITIAL_BACKOFF (60)
    MaxBatches,  \* bound: batches the exporter builds
    MaxBreaks    \* bound: streams the service breaks

ASSUME LinkAssumption ==
    /\ BatchQueue \in Nat \ {0} /\ MaxBackoff \in Nat \ {0}
    /\ MaxBatches \in Nat /\ MaxBreaks \in Nat

VARIABLES
    owner,     \* Analytics: "up", "joinExporter", "joinWorker", "gone"
    exporter,  \* exporter thread: "sleep", "export", "offer", "send", "drain", "gone"
    batchId,   \* Exporter.batch_id, the batch it offers
    state,     \* Counters.state
    sent,      \* Counters.sent
    dropped,   \* Counters.dropped
    queue,     \* the batch channel from offer to the worker
    worker,    \* "connect", "opening", "streaming", "forward", "wait", "done"
    hand,      \* the batch inside forward, as a sequence of at most one
    resume,    \* the select loop forward returns to
    backoff,   \* the worker's backoff, in units of INITIAL_BACKOFF
    wire,      \* batches handed to the stream, unread: tx and, behind it, what HTTP/2 buffers
    alive,     \* the stream's other end is there
    serviceUp, \* the service accepts connections
    breaks,    \* streams broken so far
    received,  \* batches the service has read, over all streams
    responses, \* scores on their way back (the batch each one is about)
    scores,    \* the score channel from the worker to the exporter
    drained    \* scores the exporter has taken

service == <<serviceUp, breaks>>
stream  == <<wire, alive, received, responses>>
handed  == <<worker, hand, resume, backoff>>
feed    == <<owner, exporter, batchId>>
vars == <<feed, state, sent, dropped, queue, handed, stream, service, scores, drained>>

Init ==
    /\ owner = "up" /\ exporter = "sleep" /\ batchId = 0
    /\ state = "Connecting" /\ sent = 0 /\ dropped = 0 /\ queue = <<>>
    /\ worker = "connect" /\ hand = <<>> /\ resume = "opening" /\ backoff = 1
    /\ wire = <<>> /\ alive = FALSE
    /\ serviceUp \in BOOLEAN /\ breaks = 0
    /\ received = <<>> /\ responses = <<>> /\ scores = <<>> /\ drained = <<>>

-----------------------------------------------------------------------------
(* The exporter: sleep_interval, export, drain_scores, until the stop flag. *)

Stopping == owner # "up"

Wake ==
    /\ exporter = "sleep"
    /\ exporter' = IF Stopping THEN "gone" ELSE "export"
    /\ UNCHANGED <<owner, batchId, state, sent, dropped, queue, handed, stream, service,
                   scores, drained>>

\* export: nothing when the link is not connected or no flow is new
Export ==
    /\ exporter = "export"
    /\ \/ /\ state = "Connected" /\ batchId < MaxBatches
          /\ batchId' = batchId + 1 /\ exporter' = "offer"
       \/ exporter' = "drain" /\ UNCHANGED batchId
    /\ UNCHANGED <<owner, state, sent, dropped, queue, handed, stream, service, scores, drained>>

\* offer reads the link state first ...
OfferCheck ==
    /\ exporter = "offer"
    /\ IF state = "Connected" THEN exporter' = "send" /\ UNCHANGED dropped
                              ELSE exporter' = "drain" /\ dropped' = dropped + 1
    /\ UNCHANGED <<owner, batchId, state, sent, queue, handed, stream, service, scores, drained>>

\* mutant: a rejected batch is not counted
RejectSilently == UNCHANGED <<queue, dropped>>

Reject == dropped' = dropped + 1 /\ UNCHANGED queue

\* ... and then uses try_send, which never waits
TrySend ==
    /\ exporter = "send" /\ exporter' = "drain"
    /\ IF Len(queue) < BatchQueue /\ worker # "done"
       THEN queue' = Append(queue, batchId) /\ UNCHANGED dropped
       ELSE Reject
    /\ UNCHANGED <<owner, batchId, state, sent, handed, stream, service, scores, drained>>

DrainTakes == scores' = <<>>

DrainScores ==
    /\ exporter = "drain" /\ exporter' = "sleep"
    /\ drained' = drained \o scores /\ DrainTakes
    /\ UNCHANGED <<owner, batchId, state, sent, dropped, queue, handed, stream, service>>

ExporterStep == Wake \/ Export \/ OfferCheck \/ TrySend \/ DrainScores

-----------------------------------------------------------------------------
(* Analytics::drop: stop and join the exporter, then drop the link, which   *)
(* signals shutdown and joins the worker.                                   *)

StopExporter ==
    /\ owner = "up" /\ owner' = "joinExporter"
    /\ UNCHANGED <<exporter, batchId, state, sent, dropped, queue, handed, stream, service,
                   scores, drained>>

SignalShutdown ==
    /\ owner = "joinExporter" /\ exporter = "gone" /\ owner' = "joinWorker"
    /\ UNCHANGED <<exporter, batchId, state, sent, dropped, queue, handed, stream, service,
                   scores, drained>>

JoinWorker ==
    /\ owner = "joinWorker" /\ worker = "done" /\ owner' = "gone"
    /\ UNCHANGED <<exporter, batchId, state, sent, dropped, queue, handed, stream, service,
                   scores, drained>>

Shutdown == owner = "joinWorker"

-----------------------------------------------------------------------------
(* The worker: Worker::run, stream, forward and wait.                       *)

Longer(b) == IF 2 * b > MaxBackoff THEN MaxBackoff ELSE 2 * b

ConnectOk ==
    /\ worker = "connect" /\ serviceUp
    /\ state' = "Connected" /\ worker' = "opening" /\ backoff' = 1
    /\ wire' = <<>> /\ responses' = <<>> /\ alive' = TRUE
    /\ UNCHANGED <<feed, sent, dropped, queue, hand, resume, service, received, scores, drained>>

ConnectFails ==
    /\ worker = "connect" /\ ~serviceUp
    /\ state' = "Disconnected" /\ worker' = "wait"
    /\ UNCHANGED <<feed, sent, dropped, queue, hand, resume, backoff, stream, service, scores,
                   drained>>

\* The stream is over: what it still carried is gone with it.
Lost ==
    /\ state' = "Disconnected" /\ worker' = "wait" /\ hand' = <<>>
    /\ alive' = FALSE /\ wire' = <<>> /\ responses' = <<>>
    /\ UNCHANGED <<feed, sent, dropped, queue, resume, backoff, service, received,
                   scores, drained>>

\* the call fails to start, or responses.message() ends or fails
LoseStream == worker \in {"opening", "streaming"} /\ ~alive /\ Lost

\* analyze() returns its response stream
StreamStarts ==
    /\ worker = "opening" /\ alive /\ worker' = "streaming"
    /\ UNCHANGED <<feed, state, sent, dropped, queue, hand, resume, backoff, stream, service,
                   scores, drained>>

\* mutant: batches wait until analyze() has answered
OnlyStreaming == {"streaming"}

Forwarding == {"opening", "streaming"}

\* mutant: the batch stays queued until it has been sent, and is not removed then
Peek == UNCHANGED queue

Dequeue == queue' = Tail(queue)

\* select! takes a batch; while forward awaits the stream nothing else is looked at
TakeBatch ==
    /\ worker \in Forwarding /\ queue # <<>>
    /\ hand' = <<Head(queue)>> /\ Dequeue
    /\ resume' = worker /\ worker' = "forward"
    /\ UNCHANGED <<feed, state, sent, dropped, backoff, stream, service, scores, drained>>

ForwardOk ==
    /\ worker = "forward" /\ alive /\ Len(wire) < BatchQueue
    /\ wire' = wire \o hand /\ hand' = <<>> /\ sent' = sent + 1 /\ worker' = resume
    /\ UNCHANGED <<feed, state, dropped, queue, resume, backoff, alive, service,
                   received, responses, scores, drained>>

\* tx.send fails: the batch is neither sent nor counted as dropped
ForwardFails == worker = "forward" /\ ~alive /\ Lost

TakeScore ==
    /\ worker = "streaming" /\ responses # <<>>
    /\ scores' = Append(scores, Head(responses)) /\ responses' = Tail(responses)
    /\ UNCHANGED <<feed, state, sent, dropped, queue, handed, wire, alive, service,
                   received, drained>>

\* wait: batches that were still queued are counted as dropped
DropQueued ==
    /\ worker = "wait" /\ queue # <<>>
    /\ Dequeue /\ dropped' = dropped + 1
    /\ UNCHANGED <<feed, state, sent, handed, stream, service, scores, drained>>

\* mutant: the worker gives up instead of trying again
GiveUp == worker' = "done"

TryAgain == worker' = "connect"

BackoffOver ==
    /\ worker = "wait" /\ state' = "Connecting" /\ TryAgain
    /\ backoff' = Longer(backoff)
    /\ UNCHANGED <<feed, sent, dropped, queue, hand, resume, stream, service, scores, drained>>

\* mutant: wait does not listen to the shutdown channel
DeafWaiting == {"opening", "streaming"}

Listening == {"opening", "streaming", "wait"}

\* shutdown.changed() in stream or wait
SeeShutdown ==
    /\ worker \in Listening /\ Shutdown
    /\ worker' = "done" /\ state' = "Disconnected"
    /\ alive' = FALSE /\ wire' = <<>> /\ responses' = <<>>
    /\ UNCHANGED <<feed, sent, dropped, queue, hand, resume, backoff, service, received,
                   scores, drained>>

WorkerStep ==
    \/ ConnectOk \/ ConnectFails \/ LoseStream \/ StreamStarts \/ TakeBatch \/ ForwardOk
    \/ ForwardFails \/ TakeScore \/ DropQueued \/ BackoffOver \/ SeeShutdown

-----------------------------------------------------------------------------
(* The analytics service, as far as the stream shows it.                    *)

\* A batch is read; it may flag a host.
ServiceReads ==
    /\ alive /\ wire # <<>>
    /\ received' = Append(received, Head(wire)) /\ wire' = Tail(wire)
    /\ responses' \in {responses, Append(responses, Head(wire))}
    /\ UNCHANGED <<feed, state, sent, dropped, queue, handed, alive, service, scores, drained>>

\* The service crashes, or only ends this stream.
ServiceBreaks ==
    /\ breaks < MaxBreaks /\ serviceUp /\ breaks' = breaks + 1 /\ alive' = FALSE
    /\ serviceUp' \in BOOLEAN /\ (serviceUp' => alive)
    /\ UNCHANGED <<feed, state, sent, dropped, queue, handed, wire, received, responses,
                   scores, drained>>

ServiceRestarts ==
    /\ ~serviceUp /\ serviceUp' = TRUE
    /\ UNCHANGED <<feed, state, sent, dropped, queue, handed, stream, breaks, scores, drained>>

Next ==
    \/ ExporterStep \/ StopExporter \/ SignalShutdown \/ JoinWorker
    \/ WorkerStep \/ ServiceReads \/ ServiceBreaks \/ ServiceRestarts

Spec == Init /\ [][Next]_vars

\* Threads are scheduled, connect and sleep end, and the loss of a stream is noticed.
\* select! picks at random among ready branches, so a shutdown that stays signalled is seen
\* and a batch queued during a wait is taken.  Nothing obliges the service: it may stay
\* connected and never read, answer, break or come back.
Fairness ==
    /\ WF_vars(ExporterStep) /\ WF_vars(SignalShutdown) /\ WF_vars(JoinWorker)
    /\ WF_vars(ConnectOk) /\ WF_vars(ConnectFails) /\ WF_vars(LoseStream)
    /\ WF_vars(TakeBatch) /\ WF_vars(ForwardOk) /\ WF_vars(ForwardFails)
    /\ WF_vars(TakeScore) /\ WF_vars(BackoffOver)
    /\ SF_vars(SeeShutdown) /\ SF_vars(DropQueued)

FairSpec == Spec /\ Fairness

-----------------------------------------------------------------------------
(* Properties.                                                             *)

Batches == 1..MaxBatches

DataTypes ==
    /\ owner \in {"up", "joinExporter", "joinWorker", "gone"}
    /\ exporter \in {"sleep", "export", "offer", "send", "drain", "gone"}
    /\ batchId \in 0..MaxBatches
    /\ state \in {"Disconnected", "Connecting", "Connected"}
    /\ sent \in Nat /\ dropped \in Nat
    /\ queue \in Seq(Batches) /\ Len(queue) <= BatchQueue
    /\ worker \in {"connect", "opening", "streaming", "forward", "wait", "done"}
    /\ hand \in Seq(Batches) /\ Len(hand) = (IF worker = "forward" THEN 1 ELSE 0)
    /\ resume \in {"opening", "streaming"}
    /\ backoff \in 1..MaxBackoff
    /\ wire \in Seq(Batches) /\ Len(wire) <= BatchQueue
    /\ breaks \in 0..MaxBreaks
    /\ received \in Seq(Batches) /\ responses \in Seq(Batches)
    /\ scores \in Seq(Batches) /\ drained \in Seq(Batches)

FlagTypes == alive \in BOOLEAN /\ serviceUp \in BOOLEAN

\* Every variable has its type; both channels stay within their capacity and the backoff
\* within its limits.
TypeOK == DataTypes /\ FlagTypes

\* Batches whose offer has been decided.
Offered == IF exporter \in {"offer", "send"} THEN batchId - 1 ELSE batchId

\* Every batch offered is counted as sent, counted as dropped, or still on its way,
\* except that each broken stream may swallow the one batch forward was holding.
Accounted ==
    LET known == sent + dropped + Len(queue) + Len(hand)
    IN  known <= Offered /\ Offered <= known + breaks

Increasing(s) == \A i, j \in DOMAIN s : i < j => s[i] < s[j]

BatchesOnce == Increasing(received \o wire \o hand \o queue)

ScoresOnce ==
    /\ Increasing(drained \o scores \o responses)
    /\ ToSet(drained \o scores \o responses) \subseteq ToSet(received)

\* Over any number of reconnects the service reads batches in the order they were built
\* and none twice: retrying a connection never resends a batch.  A score reaches the
\* exporter at most once, in order, and only for a batch the service has read.
AtMostOnce == BatchesOnce /\ ScoresOnce

\* forward awaits a full stream whose other end is connected but does not read: no timeout
\* ends that await and it does not listen to the shutdown channel.
Held == worker = "forward" /\ alive /\ Len(wire) = BatchQueue

\* Dropping the analytics connection returns, in whatever phase the worker is (connecting,
\* during the call or the stream, in forward, in a backoff wait) and though the service
\* need not do anything, unless a service that stays connected and never reads again holds
\* the worker in forward for ever: then it does hang.
ShutdownCompletes == <>[]Held \/ (Stopping ~> owner = "gone")

\* README, acceptance criteria: "The Python service can be killed and restarted; the core
\* keeps running and reconnects".  While the owner keeps the link, a service that stays up is connected to.
Reconnects == <>[](serviceUp /\ owner = "up") => <>[](state = "Connected")

\* A batch that got into the queue leaves it, also when the service does not answer the
\* call before it has read a first batch (test server_that_waits_for_first_batch_...) or
\* never does; only a service that never reads again can hold the queue up.
QueueMoves ==
    <>[]Held \/ (queue # <<>> ~> (queue = <<>> \/ worker = "done" \/ Stopping))

\* README: "Batches are dropped, never queued, when the link is down".
NeverQueuedWhenDown == [][Len(queue') > Len(queue) => state = "Connected"]_vars
=============================================================================
