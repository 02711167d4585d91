# A verification project for NetMon

NetMon captures network traffic, keeps per-flow statistics, runs detection rules, sends
flow summaries to an anomaly scorer and shows all of it in a desktop UI. It is written in
four languages: a C sniffer, a Rust core behind a C ABI, a Python gRPC service and a C#
UI. This directory holds TLA+ models of the parts with state and concurrency, the TLC
configurations that check them, and TLAPS proofs of the most important properties.

Paths below are relative to the repository root (`sniffer-c/...`, `core-rs/...`).

## 1. The system

    UI threads (C#) --- C ABI ---> NcCore --owns--> Sniffer (Rust) --owns--> struct sniffer (C)
       poll timer                    |                                          |
                                     |  Shared { engine mutex, alerts mutex } <-- capture thread
                                     |     Engine -> FlowTable, RuleEngine        (on_frame)
                                     |
                                     +-- Analytics: exporter thread -> AnalyticsLink -> worker
                                                                                  | gRPC stream
                                                                            Python service

| component | code | state | operations | what is hard |
|---|---|---|---|---|
| Sniffer | `sniffer-c/src/sniffer.c`, `capture_loop.c`, `pcap_replay.c` | state IDLE/RUNNING/FINISHED, atomic `stop_requested` and `finished`, `thread_status`, one thread | open, set_callback, start, stop, poll_finished, close | a thread with a raw callback pointer; a flag published before or after what it announces; stopping a silent interface |
| Its Rust owner | `core-rs/core-ffi/src/sniffer.rs` | `running` | open, start, stop, poll_finished, drop | a second copy of the C state |
| NcCore | `core-rs/core-ffi/src/core.rs`, `lib.rs` | capture, analytics, rule_specs, last_error (each a mutex), Shared | open_*, start, stop, stats, load_rules, poll_alert, feed_packet, connect/disconnect_analytics, destroy | called from several host threads; stop joins a thread that needs another lock; reload in two critical sections |
| Alert queue | `Shared` in `core.rs` | bounded queue, `alerts_total`, `alerts_dropped` | ingest, push_alert, pop_alert | counted outside the lock, several producers |
| Engine and flow table | `core-rs/core/src/engine.rs`, `flow.rs` | LRU cache of flows, eviction and expiry counters, packet clock | process, advance_clock, update, expire, top_by_bytes | expiry in order of use, idleness by timestamp; a full table |
| Rule engine | `core-rs/core/src/rules/` | per rule an LRU cache of sources, each with a window of events, side counts and the last alert | evaluate | counts adjusted and never recomputed, limits, cooldown forgotten with its source |
| Rule loader | `core-rs/core/src/rules/loader.rs`, `mod.rs` | none | parse, validate, load, from_specs | one wrong rule refuses a file, and a refused file changes nothing |
| Exporter | `core-rs/core-ffi/src/analytics.rs` | watermark, batch id, anomaly cooldown, stop flag | export, drain_scores, drop | offers without knowing the fate of a batch; engines are replaced under it |
| Link and worker | `core-rs/core-grpc/src/link.rs` | batch and score channels, link state, sent/dropped, backoff | offer, try_score, run, stream, forward, wait, drop | a service that dies, restarts or answers late; shutdown in every phase |
| Analytics service | `analytics-py/src/analytics/` | fitted model, sample buffer, three events, training thread | Analyze, Health, `_observe`, `_train_loop`, close | a request decided under the lock and made outside it; a trainer that clears before it copies; shutdown |
| UI | `ui-cs/src/` | poll loop and its cancellation, `IsCapturing`, `_stopping`, the view, rule watcher | start, demo start, stop, apply, reload, dispose | every `await` lets other turns of the UI thread in; snapshots queued across a stop; two stops at once |
| Packet parsers | `core-rs/core/src/packet/` | offsets and limits of one frame | parse, per layer; the DNS name walk | lengths that the packet declares, pointers that loop |
| pcap files | `core-rs/core/src/pcap.rs`, and `pcap_replay.c` again | byte order, position | open, next_record, write_record | short reads, files that end anywhere, two readers |
| Generator and tools | `core-rs/core/src/synth.rs`, `cli/` | random numbers, packet clock | gen, replay | lengths written by hand |
| Build scripts, generated code, device listing | `scripts/`, `contracts/`, `device.c` | none | | |

The components meet in four ways. The capture thread *calls back* into `Shared`, through a
pointer that must not outlive it. Host threads *call* the C ABI and serialise on the capture
mutex; the capture thread, `stats` and `load_rules` share the engine mutex. Alerts from the
engine and from the exporter go through *one bounded queue* which the host drains. The
exporter and the worker talk over *two channels* and an atomic state.

What makes each component correct, in one line:

* capture: no frame after its sniffer is freed, honest reports, every call returns, no
  frame of one source in the figures of the next, one start per open;
* alert queue: nothing lost unaccounted, the newest survive, per-producer order;
* flow table: nothing counted twice or lost, only idle or oldest flows leave, expiry is
  complete, the top is the top;
* parsers: no read past a slice, every walk ends, a frame means what its headers say;
* files: what is written is read back, both readers agree, a cut file is an error;
* rule files: the rules in force are usable, of the file the user chose and its last save;
* export: every change of a flow reaches the service or is lost for a known reason;
* rules: an alert exactly when the last window calls for one, within bounded state;
* link: every batch accounted for, never resent or reordered, reconnection, shutdown;
* service: a model trained from what was observed, a scorer never blocked by training, an
  orderly close;
* UI: what is shown belongs to the capture that runs.

`PROJECT.json` lists the hazards behind these at their lines.

## 2. Modules

| module | models | abstracts |
|---|---|---|
| `CaptureSession` | what the C ABI promises about a capture, as a sequential object: open, start once, frames only while running, stop, close, destroy | everything concurrent |
| `Capture` | the sniffer, its thread and loops, the Rust owner, and the NcCore calls that open, start, stop, poll, reload and destroy, by any number of host threads | the bytes of frames, `last_error`, drop counters |
| `AlertQueue` | `ingest`, `push_alert`, `pop_alert` and the three mutexes between engine and host | what an alert says |
| `FlowTable` | `Engine::process`, `advance_clock`, `track_flow` and all of `flow.rs` | addresses and ports are one endpoint value, bytes are packets, protocol counters are left out |
| `FlowExport` | `Exporter::export` over `FlowTable`: the watermark, the batch limit and a new engine under the same exporter | whether `offer` accepts is a choice here (`AnalyticsLink` has it) |
| `RuleDetector` | what one rule promises, stated over the history of all its events | how windows, counts and the cache are kept |
| `RuleEngine` | `evaluate`, `observe`, both windows and the source cache, for one rule | the choice of the packets a rule looks at |
| `AnalyticsLink` | the exporter's loop, `offer`, the worker, the stream as the service shows it, and the shutdown of both threads | batches are their ids, scores the id they are about |
| `AnomalyModel` | the handler threads, `process` and `_observe`, the training thread, `Health` and the shutdown of `main` | a model is its version, the samples their number |
| `Dashboard` | `StatsPoller` and the start, stop, apply and dispose of `MainViewModel`, around a core of one variable | a snapshot is its capture and the state it reports; texts and charts |
| `RuleLoader` | `parse`, `validate` and `from_specs`, as operators | the YAML syntax is a Boolean, a rule id its name and length |
| `RulesReload` | `LoadRulesAsync`, `ApplyRules`, `WatchRules` and `ScheduleRulesReload` of `MainViewModel`, the watcher and the debounce timer, on top of `RuleLoader` | texts; files are read when they are applied |
| `DnsParser` | `dns::parse` and `read_name`, one label or pointer a step, over real bytes | the characters of the name |
| `PacketParser` | `packet::parse` and every layer under it, one header a step; calls `DnsParser` | a frame is a record of what its bytes declare |
| `PcapFile` | `PcapReader` over short reads and read errors, `PcapWriter`, and what `replay_loop` makes of the same file | words of two digits |
| `Synth` | the frames and timestamps `generate` may produce | addresses, checksums, the sequence of the random numbers |
| `Replay` | `netmon gen` and `netmon replay`: the file, `Engine::process` and `Engine::count`, composed of the four above | flows and rules, which have their own modules |

`DnsParser` <- `PacketParser` <- `PcapFile` <- `Synth` <- `Replay`, `FlowTable` <- `FlowExport`
and `RuleLoader` <- `RulesReload` extend each other in that order.

`CaptureSession` and `RuleDetector` are the abstract specifications; `Capture` and
`RuleEngine` implement them under the refinement mappings at their ends.

### Correspondence

**Capture.** A host thread is at `call[c]`, the step of the ABI call it is in; `captureLock`
is the mutex around `NcCore.capture`, which every control call holds to its end, so a call
that takes it and returns without waiting is one action (`Start`), and one that waits for
the capture thread is several (`StopBegin`, `StopJoin`). `engineLock` is taken only where
code is held up between taking and releasing it (`StatsEngine`, `StatsRelease`); `Deliver`,
`OpenInstall` and `LoadRules` are atomic critical sections that need it free. Opening is
`OpenBegin` (refuse while running, take the old source out), `CloseStop`/`CloseJoin`/
`CloseFree` (its `sniffer_close`, `CloseJoin` being reached only if it still runs),
`OpenSource`, `OpenRules` and `OpenInstall`. The capture thread is at `thread[h]`; it reads
the stop flag, reads a frame, paces a replay, delivers it and, when the loop has returned,
stores its status and *then* its finished flag. `DropBegin` requires that no other call is
under way, as the C ABI demands of `core_destroy`.

**AlertQueue.** `Ingest` is the critical section of the engine, `Count` the `fetch_add`
before the queue's lock and `Push` the critical section of the queue; between them every
other producer and the host may act. `pushed` is a history variable.

**FlowTable.** `lru` is the cache's list, least recently used first, and `stats` its
values. One action is one `Engine::process` with everything it does: clock, expiry,
update, eviction. `created`, `seen`, `retired` and `inOrder` are history; packets are counted
by who sent them to whom, so that a packet in the wrong flow or direction is not made up
for by another.

**FlowExport.** `Export` is one tick of the exporter with a connected link, `NewCapture`
what `NcCore::install` does to the engine it reads. `unsent` and `excused` are history: the
flows with a change that no accepted batch has shown, and those of them that a named loss
has hit.

**DnsParser, PacketParser.** `walk` and `phase` say which function runs; `offset` and
`limit` are the bounds of the slice it was given, so that a subslice of the code is a
change of these two. `Holds` is `need`. `touched` records how far the frame was read. Each
action has the refusal as its first disjunct. A frame's fields are what the bytes at the
place of a header say, wherever the capture cut it. In `ipv6.rs` the loop of
`MAX_EXTENSION_HEADERS` turns passes one header less than that many: the last turn must
find the transport header. After a later fragment's header the loop goes on through what
is payload by then, as far as its bytes look like extension headers; a frame's `exts`
include those; each has at least 8 bytes, whatever its length field says.

**PcapFile, Replay.** `stage` is where `replay` is: in `PcapReader::new`, before a record
header, before its data, in `Engine::process`, or at the end. One `ReadHeader` is one call
of `read`, of which `read_full_or_eof` makes as many as it takes. `ReplayDelivers` and
`ReplayEndsOk` are the C reader, as operators on the file, since its reads are not
interleaved with anything here (`Capture` has its thread). `PcapType` is what a file may be:
records of any lengths, cut off anywhere.

**RulesReload.** `turn` holds the file between `ApplyRules` and `WatchRules`, which are one
turn of the UI thread (no other turn is taken meanwhile, but files are saved). `raised` are
events on a watcher's thread not yet posted, `queue` the UI thread's queue and `pending`
the debounce that runs. `Save` is external: it replaces the contents and raises one or two
events if a watcher is there.

**RuleEngine.** One action is one event of one rule for one source. `events`, `counts` and
`fired` are the tracker's fields; `history` and `alerts`, with the count each alert reports,
are shared with `RuleDetector`. The detector has no cache and no window: it says from the
history which events count, "since its last event fewer than `MaxSources` other sources
were seen" standing for the cache.

**AnalyticsLink.** The exporter thread is at `exporter`, the tokio task at `worker`. The
`select!` of `Worker::stream` is a choice among the actions whose branch is ready;
`forward` is its own place because nothing else is looked at while it awaits. `wire` is the
channel of one stream and dies with it; what HTTP/2 buffers behind the channel only makes it
longer. `Held` is a worker in `forward` on a full `wire` whose other end is there. `offer` is
two actions, since it reads the state and then sends.

**AnomalyModel.** `_observe` is three actions: the critical section (`Observe`), reading
`_fitted` to choose between `warm` and `due` (`Decide`) and setting the event (`Signal`).
The training thread is at `trainer`, with an action for each of wait, clear, check, copy,
swap and announce. `Health` reads the model in two actions. `covered`, the batches observed
at the last copy, is history. `fit` is taken to succeed.

**Dashboard.** An action of the UI thread is what it does between two awaits; `posted` is
its queue. `StatsPoller.StopAsync` continues on the thread pool, so its end
(`StopAwaited`) is not a turn of the UI thread, and it posts the rest of
`StopCaptureAsync`. `Dispose` blocks the UI thread: no turn is taken while `ui` is
"disposing". `source` counts the captures opened and `phase` is the core's state, as
`Capture` has it in detail. `shown` and `rateBase` record which captures the view and the
rates have been fed from.

## 3. Runs

| run | instance | distinct states | shows |
|---|---|---|---|
| `capture` | two controlling threads, two sniffers, one frame each, one rule file | 440 k | safety of the life cycle, refinement of the session |
| `capture_live` | one controlling and one polling thread | 17 k | liveness: every call returns; reloads are kept |
| `alerts` | three producers, capacity 2, frames of 2, five alerts | 32 k | accounting, eviction, order |
| `flows` | two endpoints (three flows), table of 2, timeout 3, interval 2, four packets within time 5, two captures, batches of 1 | 1541 k | conservation, expiry, eviction, ranking, export |
| `rules` | three sources of which two are tracked, two values, three events kept, window and cooldown 2, six packets | 738 k | refinement of the detector, at the limits |
| `link` | queues of 2, backoff up to 3, three batches, two breaks | 132 k | accounting, order, reconnection; shutdown and a moving queue unless the service stops reading for good |
| `link_queued` | queues of 1, one batch, one break | | a violation (section 6) |
| `model` | two handlers, warm-up of 2 batches and 3 samples, retraining every 2, buffer of 3, four batches | 116 k | requests, training, shutdown |
| `dashboard` | three captures, the UI thread up to 4 items behind | 37 k | one capture in view, honest buttons, an end that is noticed, leaving |
| `dashboard_exit` | the same | | a violation (section 6) |
| `replay` | files cut anywhere, both byte orders, 12 transports under IPv4, IPv6 and their extensions cut at every header, 8500 DNS messages, and all files of two generated packets | 191 k | the name walk, slice bounds, the meaning of frames, readers, counters, the generator |
| `reload` | two files, four contents of which two are refused, three saves, two picks | 753 k | rules that are meant, the last save |

Why these bounds reach the interesting cases. *Capture*: the races are between one waiting
call, one other call and one capture thread; a second sniffer is needed for a source that
replaces another, and one frame is enough for it to be counted in the wrong engine; a
handle opens once, as in the code, so two suffice for open-over-open. *Alerts*: three
producers let two overtake a third; five alerts overflow a queue of two three times.
*Flows*: a table of two overflows with three flows, the time reaches two expiry passes, and
two changed flows do not fit a batch of one; the second capture starts behind, at or past
the watermark of the first. *Rules*: six packets fill and clip a window, let it slide, push a source out of the cache
and bring it back, and let it alert again within its old cooldown. *Link*: two breaks give
a loss in the middle of a stream and one during the recovery; three batches overfill a
channel of two. *Model*: four batches reach the warm-up, a first training and a retraining,
and two handlers let one decide while the other has made the trainer start; versions above
`MaxVersions` are not told apart. *Replay*: the constants of the code are scaled (two pointers, names of 5, two VLAN tags,
three extension turns, words of two digits, four microseconds to a second), each so that
an input reaches it, meets it and goes beyond; reads return 7 or 16 bytes, which cuts a
record header of 16 in three. Names have up to five bytes out of lengths, both kinds of
pointers, reserved bits and positions, which gives loops of one and of two pointers.
*Reload*: a save may fall before, within and after a debounce and a change of the file.
*Dashboard*: three captures give a start over a stopped
and over an ended capture, with a demo start pending from before; `MaxPosted` bounds how
far the loop runs ahead of the UI thread when it takes a sample, and nothing else: stops
and starts are always posted. Symmetry is used over handles, controllers, sources and
values, and only in runs without liveness.

Deadlock checking is off: every one of these systems may stop (a core that has been
destroyed, a bound on packets, a link that has been dropped).

### Fairness

`Capture!FairSpec`: the capture thread is scheduled, and `pcap_next_ex` returns within its
read timeout (weak fairness of `ThreadStep`); a host thread inside a call goes on (weak
fairness of `Continue`). Strong fairness stands where a thread waits for a mutex that
others take and give back (`Deliver`, `OpenInstall`, `StatsState`): the mutexes of the
platforms do not starve a waiter for ever. No fairness makes a host thread *begin* a call.

`AnalyticsLink!FairSpec`: the threads are scheduled, connecting and sleeping end. `SeeShutdown`
and `DropQueued` are strongly fair because tokio's `select!` picks at random among the
ready branches, so one that is ready again and again is taken. The service is obliged to
nothing: it need not read its stream, answer the call, end the stream or come back.
`Reconnects` has as its hypothesis that it is up for good. `ShutdownCompletes` and
`QueueMoves` have as theirs that it does not hold the worker in `forward` for ever
(`<>[]Held`), the only place where the worker depends on a service that stays connected: no
timeout but `connect_timeout` is set (`link.rs:74`).

`AnomalyModel!FairSpec`: threads are scheduled and `fit` ends; no client has to send a
batch, end a stream or ask for `Health`, and no signal has to come.

`RulesReload!FairSpec`: events are posted, delays end and the UI thread takes its turns; no
file has to be saved or picked.

`Dashboard!FairSpec`: the UI thread takes its turns, the timer ticks and the thread pool
runs what is ready. No button has to be pressed, no demo file has to be written and no
capture has to end.

## 4. Proofs

Proved for every value of the constants, with TLAPS:

`Capture_proofs`, for any number of host threads, sniffers, frames and rule files:

* `TypeCorrect`, and `CallbacksAreSafe`, `FlagsAgree`, `EnginesIsolated`: the invariants of
  run `capture`;
* `ReportsHonest`: its action property;
* `RulesStayAgreed`: with one controlling thread, the rules in the engine are the ones the
  next capture will get;
* `CaptureImplementsSession`: every step is a step of `CaptureSession` or changes nothing of
  it, whatever the other threads are in the middle of.

They rest on one inductive invariant, `IInv`, made of `TypeOK` and six named parts. None of
the properties is inductive alone. That a thread runs only under a RUNNING sniffer
(`Threads`) says nothing of `Shared`; for this `Owned` states that a RUNNING sniffer is
installed or is being closed, and `DropAlone` that a core that is freed has neither.
`Owned` in turn survives an open only because the call that installs is alone in working
on the capture (`LockHeld`, lemma `Alone`) and knows what it is about to install
(`Subjects`). `Installed` ties the flag and the counters to the installed sniffer, and is
kept by a delivered frame because of `Threads` and `Owned` again. `Threads` also has the
order status, flag, exit on which the reports rest. The refinement maps the session's phase
to the installed sniffer (`Current`, none while one is being taken out), so a step of the
control calls is a step of the session exactly at the line where it takes effect. Each action has a lemma, with one step
for each part.

`AlertQueue_proofs`, for any producers, capacity and number of alerts: `TypeCorrect`,
`AlertsAccounted`, `QueueKeepsNewest`, `ProducerOrder`. The lemma `EnqueueEffect` says once
what a push does to the queue, in either branch. `ProducerOrder` needs a strengthening: what
a producer has pushed is older than what it still holds, and that is in order.

`AnomalyModel_proofs`, for any number of handlers and any configuration: `TypeCorrect`,
`ModelsTrainedEnough`, `NothingIsMissed`, `HealthStaysTruthful`. `NothingMissed` speaks of a trainer at rest and is
kept by three facts about one that is not: how the batches since the last copy relate to
`_batches_since_fit` (`Counting`), that a copy is made of a warm buffer (`Warmth`), and that
whenever the service is warm without a model, or a retraining is due, somebody is on the way
(`Requests`): a handler about to decide or to signal, the event, or a trainer past the clear
and not yet past the copy. That a reply of `Health` stays true rests on the trainer never
withdrawing a model, between its two reads or after (`Honest`).

`Replay_proofs`, for any limits, any bytes, any files and whatever `generate` writes:

* `TypeCorrect`: of every variable of a replay, the reader's, the parsers' and the report's;
* `WalkIsBounded`, `ParserStaysInBounds`: of the name walk and of one frame alone, and
  `ReplayStaysInBounds`: both, in a whole replay;
* `ReadersStayAgreed`: the reader of the command line and the replay of the capture thread;
* `CountersAddUp`: the report;
* `FramesParseAsMeant`: what one frame alone is parsed to, and `ReplayParsesAsMeant`: every
  frame of a replay;
* `GeneratedIsReadBack`: what `netmon gen` writes, for any number of packets.

The variant of the name walk is the sum of the pointers followed and the length of the name: a
step raises it by at least one, since a label has at least one byte, so `steps` stays below it,
and each of the two is within its own limit. The bounds of a slice are an inductive invariant
together with their types and the type of the frame; the cases that need an argument are those
where the slice ends earlier than before (a declared length), which must not be in front of the
header just read. Of the reader the invariant says that it stands at the end of a whole number
of records (`Position`) and that these are what the other reader delivers so far (`Delivered`);
a big-endian word is swapped by both (`SwapTwice`), and where a record ends is the recursive
sum that `SizeOf` is (`Ends`). Of the counters it says what each sum comes to while a frame is
in the parsers, which is one packet short (`Sums`), and what is known of a frame at each layer
(`Found`), on which it depends which counters are raised. That the generated captures are such
files (`GeneratedType`) is part of the proof: the assumption is about the captures read from
disk only, which may be cut off anywhere, be faulty, or hold any records.

`ParsedAsMeant` compares two readings of the same bytes: the parsers, which go from header to
header and know an offset, a limit and what the headers before have left, and `WellFormed`,
`Captured` and `Meaning`, which look at the frame as a whole. The invariant `Understands` says for
each layer what the parser there has of the whole: at an IPv6 extension header, say, that the
offset is the length of all headers before it (`Passed`, which is `ExtsLen` in the end) and that
the fragment field is that of the last fragment header so far (`LaterAmong`). Each step has a
lemma; a refusal needs that what is missing here is missing for the whole (`RefusedAsMeant`),
and for this that no header is shorter than the part of it that is read first: the proof failed
until the type of an extension header said so, as the length fields of the code make it. For the
question of a DNS message, `Placed` says that a reader that follows no pointer would, from where
the walk is, or was before its first pointer, come to the same end: `SkipName` is recursive from
the back of the message to its front, and such a function exists too (`Backwards`).

`GeneratedReadsBack` then needs nothing of the parsers but that (`PacketMeans`: each frame of the
generator is well formed and captured to its end), and of the reader only `Delivered`: all records
of a generated file are whole and the last ends where the file does (`AllDelivered`), so the other
reader delivers them all, and so does this one. The rest is the invariant `Clean`: no error was
counted, and the walk is in the middle of a query that was written (`ReadsName`), at the length
byte of one of its labels (`LabelsFound`) with a name as long as the labels before it. That the
names are short enough and the frames within `MaxRecord` is `LimitsAssumption`, which relates the
constants of three source files: the longest frame has 1453 of `MAX_RECORD_LEN` = 262144 bytes
(`synth.rs:153`, `pcap.rs:12`), the longest name 68 of `MAX_NAME_LEN` = 253 characters
(`synth.rs:244`, `dns.rs:6`).

`AnalyticsLink_proofs`, for any capacities, any number of batches and of broken streams:
`LinkTypeCorrect`, `EveryBatchAccounted`, `BatchesAndScoresOnce`. The invariant `IInv` has three
parts beside the types. `Counting` knows that a break which the worker has not noticed yet
has not cost a batch yet; `Accounted` alone would not survive a failing `forward`. `Piped`
says of each pair of stations on the way out (read, in the stream, in `forward`'s hands,
queued) that all of the one is before all of the other, and nothing is beyond what was
offered, so a new batch is the greatest. `Returned` says the same of the way back, and that
a score is of a batch that was read: the next batch read is greater than all of them. The
lemmas on sequences (`JoinIncreasing`, `RestOrdered`, `ExtendOrdered`) say what concatenation,
`Tail` and `Append` do to such orders.

`FlowExport_proofs`, for any endpoints, table, timeout and timestamps in any order:
`TypeCorrect`, `BooksBalance`, `ExpiryTakesTheIdle`, `EveryChangeExported`, `TopStaysTop`. The
books alone are
inductive given the types: what a frame retires is what the flows that leave had counted
(`Books`), and what leaves and what stays are a partition because the list of the cache names
no flow twice. For expiry the invariant says that, as long as timestamps come in order, the
order of use is the order of the timestamps (`InUseOrder`); then the first flow that is not
idle has none idle behind it. That order outlives expiry, a move to the end and an eviction
because each leaves a subsequence (`Sub`) to which at most the newest is added. For export the
invariant says what the watermark knows: a flow with a change at or before it that no
accepted batch has shown is excused (`Watermark`). `TopStaysTop` needs no more of the table than
its types: the fold is a recursive function on sets of positions, which takes them one after the
other (`HeapFolds`); after each flow the heap holds the largest so far (`Holding`), and since
both orders are total (`Orders`) a smallest to pop (`First`) and a sorted list (`Sorts`) exist.

`Rules_proofs`, for any sources, values, window, cooldown, threshold and limits:
`TypeCorrect`, `SideCountsAgree` and `RuleImplementsDetector`. The detector speaks of the whole
history of a rule and the engine keeps very little of it, so the invariant says what each
piece still knows. `Cache`: behind a source in the LRU list are exactly the sources seen since
its last event, and one that is not in the list has seen `MaxSources` others since; this is
what "remembered" of the detector comes to. `Windowed`: the events in a window are the latest
of its source, in order, and one that is not there (any more) is `Gone` for good: of a
forgotten life of the source, out of the window, or pushed out by `MaxEvents` later ones.
`Rested`: the time the cooldown runs from is the last alert the detector remembers.
`CountsAgree` goes with them, since the counts decide what an alert reports. The invariant
speaks of timestamps in order, which is the models' hypothesis (section 5).

And, in the same module, for any rule files, contents, saves and picks: `RulesStayMeant`. Which
file is in force follows from two facts: a reload on its way, as an event, a delay or a turn, is
of the watched file or of one that was on its way when that was picked (`Accountable`), and
between `ApplyRules` and `WatchRules` the engine has the rules of the file picked
(`JustPicked`). That its rules can be run is what the loops of `parse` and `from_specs` do,
position after position (`Checked`, `Filtered`): an accepted file has right rules with different
ids, and a filter leaves it so.

`Dashboard_proofs`, for any number of captures and any length of the UI thread's queue:
`TypeCorrect`, `ViewStaysCurrent`, `FlagStaysHonest`, `RatesStayWithin`. That no snapshot of an
earlier capture is shown is not a matter of the view: the invariant says that every snapshot in
the queue, or in the hands of the loop, is of the capture that is open (`Queued`), and that the rest of a stop is
queued behind the last of them. This holds because a stop waits for the loop before it posts
that rest, and the flags tell which of the two is going on (`Together`). `Together` fails once the
window is being closed, where only what concerns the view and the rates is kept
(`Throughout`).

TLC checks each `IInv`, and `ReloadInv`, `Understands` and `Clean`, on the constants of its run as
well.

The assumptions are the ones named in the modules: what the constants are, and that the
names of threads, sniffers and `None` differ. The theorems on induction in the prover's
library take an operator as a parameter, which its backends cannot instantiate. Where an
argument needs a least or a last element (of the positions that match, of the events of a
source), the lemma `Least` has it from the well-foundedness of strict inclusion among finite
sets, of which the intervals `0..n` are some. What a recursive function over `0..n` computes
follows from it too: such a function exists (`Recursion`) and there is only one
(`SameRecursion`).

Only model-checked is liveness (`CallsReturn`, `ShutdownCompletes`, `Reconnects`, `QueueMoves`,
`TrainingSettles`, `CloseReturns`, `EndNoticed`, `DisposeReturns`, `LastSaveLoaded`): fairness and
ENABLED are beyond the proof system. Every invariant and every action property of the passing
runs, and both refinements, are proved.

## 5. Not modelled

* `core_feed_packet` is a producer of the alert queue and an input of the flow table; as a
  writer of the engine beside a capture it would break `EngineIsolated` by intent.
* `NcCore::last_error`, the layout of the ABI structs, drop statistics and the reconnects
  counter.
* `sniffer_run`, which only the C tool calls.
* In `RuleEngine`, the choice of the packets that are events of a rule (SYN, UDP, any).
* Width of integers: timestamps near 2^64 do not occur in captures.
* In `AnomalyModel`, the numbers: features, scores and thresholds. An exception in `fit`
  would end the training thread unnoticed.
* In `RuleEngine`, timestamps that go back. Eviction looks at the front of a window only, so
  an old event behind a newer one stays counted (`window.rs:30`); the capture libraries
  deliver in order, fed or merged files may not. `ExpiryExact` is stated for timestamps in
  order for the same reason: `FlowTable::expire` stops at the first flow that is not idle.
* In `Dashboard`, the analytics endpoint, the `Faulted` event (a poll that
  fails only sets the status text) and a poll that is torn over its three calls.
* In `RulesReload`, editors that save by renaming (they raise no Changed event, and the
  watcher does not ask for Renamed) and `Dispose`, which leaves a pending reload running.
* The exporter's anomaly cooldown, one lookup in a map, and the features of a flow.
* `feed_packet` and the rules inside `netmon replay`: the same `Engine::process` there.
* Build scripts, argument parsing, the C tool, generated code and device listing: calls
  into the platform and text.

## 6. Where code and documents disagree

* `link_queued`: README.md:34 says batches are dropped, never queued, when the link is
  down. `offer` reads the state and then queues; a loss between the two leaves the batch
  queued. The worker's `wait` usually drops it, but a reconnect may also send it.
* `dashboard_exit`: README.md:167 has `core_destroy` guaranteed, even on exceptions. When the
  application exits while a stop awaits the poll loop, two `StatsPoller.StopAsync` calls
  await it; the one that resumes second disposes `_cts`, which the first has set to null.
  If that is `Dispose`, the exception leaves it before `_session.Dispose()`, and a process
  on its way out runs no finalizer of `CoreHandle`.

What the checked properties state as exceptions, because the code behaves so:

* `ChangesExported`: the exporter tells a new capture by its clock being behind the
  watermark (`analytics.rs:132`). A capture whose clock passes the old watermark before the
  next tick is not told apart, and what it saw before that is not exported: a file replayed
  a second time within a second exports nothing. Flows beyond the batch limit, or in a batch
  that `offer` dropped, are not sent again until they change.
* `ShutdownCompletes`, `QueueMoves`: `forward` awaits `tx.send` in the body of a `select!`
  branch, without a timeout and without the shutdown channel (`link.rs:205`, `link.rs:220`).
  When the service stays connected and stops reading (a suspended process, or a stream that
  waits for one of the service's four worker threads, `config.py:25`), the stream's channel
  fills, `forward` does not return, and neither does the join in `AnalyticsLink::drop`
  (`link.rs:139`): TLC refutes `Stopping ~> owner = "gone"` under `FairSpec`. README.md:161 has
  `NcCore::drop` stop analytics and then the sniffer, to which it so never gets;
  `connect_analytics` and `disconnect_analytics` hang with the analytics mutex, for which
  `stats` waits. `ShutdownCompletes` says that this is the only way to hang.
* `RulesMeant`, `LastSaveLoaded`: `WatchRules` disposes the watcher of the old file but not
  its pending debounce or what is in the UI queue. An old file's reload may so replace the
  rules of the file picked after it, or cancel that one's reload. A save that falls between
  `ApplyRules` and `WatchRules` is not noticed.

## 7. Plan

Done: all modules of section 2 with their runs, and the proofs of section 4.

What is left:

1. Composition of `connect_analytics`, `stats` and `destroy` with the link's shutdown.
2. Properties for the two hazards that have none: the cooldown map of the exporter, which forgets
   everything when it is full, and the training thread, which an exception in `fit` ends.
