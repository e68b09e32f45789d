# TLA+ models of Loong AI NVR

Loong AI NVR pulls video from up to 64 cameras, runs each through a pipeline of
stages (decode, detection, rules, overlay, encode), hands the result to the
streaming services, records it and serves it over HTTP. This directory holds TLA+
specifications of the parts that decide whether frames, channels, recordings,
rules, viewers and users are treated correctly, the TLC configurations that check
them on small instances, and proofs checked by TLAPS that hold for every instance.
Paths below are relative to the repository.

## 1. The system

| component | state | operations | talks to |
|---|---|---|---|
| StageQueue (`src/core/pipeline/stage_queue.cc`) | deque of frames, capacity, shutdown flag, drop counter, one mutex | Push (evicts), Pop, PopBatch, SetCapacity, Shutdown | a producer thread and a worker thread |
| ChannelPipeline (`src/core/pipeline/channel_pipeline.cc`) | state, running flag, one queue and one thread per stage | Initialize, Start, Stop, DrainAndStop, worker loop | stages, by virtual calls; ChannelManager |
| stages (`src/pipeline_stages`, `src/rules/rule_stage`) | codec contexts, inference thread, tracker state | ProcessFrame, ProcessBatch, OnPipelineStart/Stop, Shutdown | next queue, EventBus, rule engine |
| RtspClient (`src/video_input/rtsp_client`) | connection state, pull thread | Open, Close, reconnect | InputStage by callback |
| ChannelManager (`src/channel/channel_manager`) | map of channels, next id | Create, Delete, Start, Stop, Edit, LoadChannels, StartAll, StopAll, recovery loop | pipelines, orchestrator, store, streaming services |
| ChannelOrchestrator (`src/channel/channel_pipeline`) | table of slots | BuildPipeline, OnChannelAdded, OnChannelRemoved | ChannelManager |
| ChannelStore (`src/channel/channel_store`) | rows in SQLite | Save, Delete, LoadAll | ChannelManager |
| ChannelMonitor (`src/channel/channel_monitor`) | progress trackers | monitor loop, AttemptRecovery | StopChannel and StartChannel, EventBus |
| EventBus (`src/core/event_bus`) | subscriptions, one mutex held while handlers run | Subscribe, Publish | AI stage, rules, alarms, notifications, analytics |
| rules (`src/rules`) | rules per channel, evaluators with trackers and cooldowns, event log | Create, Update, Delete, ReloadChannel, Evaluate, purge | RuleStage, RuleStore, EventBus |
| alarms and notifications (`src/system/alarm`, `src/system/notification`) | rules, history, cooldowns, a send queue | ProcessDetection, Acknowledge, Notify | EventBus |
| analytics (`src/analytics`) | hourly counts, aggregation mark | IngestEvent, RunAggregation, queries | RuleStore, EventBus |
| recording (`src/storage`) | segments, index, queue of index operations, quota, backup tasks | WriteFrame, rotation, flush, clean, play, back up | files, SQLite |
| live streaming (`src/network/flv_stream`, `hls_stream`, `media_stream`, `webrtc`, `rtsp_server`, `websocket`) | registered channels, viewers, segment windows, sessions | Register, Unregister, PushFrame, viewer threads, cleanup | output callback, HTTP |
| container formats (muxers and packetizers of `src/network`) | counters | a frame to bytes | the services above |
| HTTP server, API routes and auth (`src/network/http_server`, `http_api`, `src/system/auth`) | users, login attempts, tokens | login, password, users, permission check, one handler per route | every manager above |
| config (`src/core/config`) | current configuration, file, watcher | ApplyPatch, OnFileChanged | section handlers |
| scheduler (`src/ai_engine/scheduler`) | tasks, rates, GPU budget | ShouldAnalyze, ReportInferenceTime, RebalanceAll | not created by `main.cc` |
| overlay, AI engines, ONVIF | pixels, tensors, requests | | stages, routes |

How they interact: the HTTP handlers, two recovery threads and the main thread
call ChannelManager, which keeps its mutex for parts of a call only. A running
channel has one thread per stage, the RTSP pull thread and, in AiStage, an
inference thread; these meet in the queues. Encoded packets go to the streaming
services from the output thread. Detections, rule events and alarms travel over
the EventBus, whose handlers run in the publisher's thread.

What is hard here: eviction from a full queue; stopping threads that hold frames
while others still push; API calls for one channel that overlap each other, a
recovery or the restore at boot; a restart between two steps of a call; locks
held across callbacks; limits tested long before they are used; a cleaner, a
recorder, an indexer and a player over the same files; a configuration file that
several parties write and read. `PROJECT.json` lists each of these hazards at its line,
with the properties that watch it.

What makes each part correct:

* a queue keeps order, never gives up a keyframe it accepted, counts every drop, stays
within its capacity, and after shutdown
  gives out what it holds;
* a pipeline delivers frames in order and none twice, accounts for every frame,
  returns from a stop, and is at rest afterwards so that it may be started again;
* the manager never exceeds its limit, hands out no id that a channel or a stored row
  has (which it does to rows it has not restored yet: a finding), and what it reports,
  what runs, what is registered and what is stored agree;
* recording loses no end of a segment, deletes the oldest first, and shows events
  where they happened; a player that says it plays has a file;
* a viewer gets frames in order within a bounded queue, its descriptor is closed
  once (twice where Stop crosses the viewer's thread: a finding), an HLS playlist has
  no gap, and what the muxers write can be read back;
* the engine evaluates the rules that are stored, reports each crossing, entry and
  stay once, and statistics agree with one another;
* a token names one account for ever, lockout holds under parallel logins;
* a client that lost its camera says so, and everybody ends up with the same
  configuration.

## 2. The modules

| module | models |
|---|---|
| `StageQueueOps` | the methods of StageQueue as operators on one queue value |
| `StageQueue` | one queue with producers of several channels and a consumer |
| `FrameStream` | abstract: what a channel promises about its frames |
| `ChannelPipeline` | one channel: N queues, N workers, source, codecs, one API caller; uses `StageQueueOps` |
| `ChannelManager` | the manager's calls at lock granularity, the slots, rows and registrations, process restart |
| `ChannelMonitor` | the monitor's rounds, trackers and attempts, beside RecoveryLoop and users |
| `DetectionEvents` | AiStage and its inference thread, EventBus, AlarmManager |
| `Recording` | Recorder, RecordWriter, RecordIndex, Indexer, StorageCleaner, Playback, CloudBackupService, crash |
| `LiveViewers` | HttpFlvService and WsMediaService: registration, viewers, queues, backpressure |
| `Hls` | HlsService: segments, window, playlist, reconfiguration |
| `WebRtc` | WebRtcService: offers, sessions, closing, cleanup |
| `SocketServers` | RtspServer and WebSocketServer: connections, SETUP and PLAY, subscriptions, push |
| `Muxers` | FLV, fMP4, TS, RTP and WebSocket framing as functions |
| `Access` | login, lockout, tokens, permissions, users |
| `Rules` | RuleEngine, RuleStore, AnalyticsStore, AnalyticsAggregator |
| `Tracking` | IouTracker and the four evaluators |
| `RtspClient` | opening, reading, reconnecting with back-off, closing |
| `HotReload` | HotReloadManager, ConfigWatcher, ConfigManager, the file and who else edits it |
| `AnalysisScheduler` | analysis rates within the GPU budget |
| `Streaming` | the five streaming services beside each other |
| `StageQueueOpsProofs`, `StageQueueProofs`, `ChannelPipelineProofs`, `ChannelManagerProofs` | theorems about the module they are named after |
| `AnalysisProofs` | theorems about `DetectionEvents` and `Tracking` |
| `MediaProofs` | theorems about `Recording` and `Streaming` |
| `ServicesProofs` | theorems about `RtspClient`, `ChannelMonitor`, `HotReload`, `Rules`, `Access` and `AnalysisScheduler` |
| `SumProofs` | lemmas about sums over finite sets |
| `MC*` | the instances TLC checks |

`ChannelManager` and `DetectionEvents` also hold the API routes that lead to them
(`ApiCall`, `RuleCall`, `AlarmCall`); the other routes that change state are in the
module of the component they call.

`MCMedia` and `MCServices` put parts beside each other that share no state. Their
product would only multiply states, so the initial state chooses a `focus`, one
part takes steps and the others stay: every behaviour of every part is there.
`FilesNext` composes recorder and cleaner, which share files and rows, with the
indexer and crashes, with playback, or with the backup.

**StageQueue.** Every method locks the mutex for its whole body, so a call is one
step. A frame is reduced to its number, its channel and `is_keyframe`; the number
is read by properties only. `Push` is a set of outcomes with one element, because
the victim is described (the least index among the candidates) and not computed.
Waits that end without a frame change nothing and are no steps.

**ChannelPipeline.** Stage 1 is InputStage (nobody pushes into its own queue; its
pull thread pushes into the queue of stage 2), stage 2 is DecodeStage, stage N is
OutputStage, and those between forward frames, as AiStage, RuleStage and
OverlayStage do. `worker[i]` says where thread i is: waiting, holding frames it
popped, inside its codec, or out of its loop. A codec holds back `CodecDelay`
frames and may fail, skip a frame or, on a timestamp jump, drop what it holds.
`ctl` is the program counter of the API call: `Stop` is not atomic but closes the
source, clears `running_`, shuts the queues down one by one, joins the workers one
by one and shuts the stages down, which flushes the codecs. `DrainAndStop` looks
at one queue per step. `lost` records the frames that leave the pipeline without
being counted in `FramesDropped()`. `BatchSize` stands for `SupportsBatch()` and
`GetBatchSize()` with the default `ProcessBatch`; none of today's stages asks for
batches, the framework's path is checked all the same.

**ChannelManager.** Each thread has the list of steps it has left; a step is what
the code does under one lock, or one call of a collaborator outside it. Pipelines
are reference counted objects of which only `state_` and `running_` matter here;
reaching `std::terminate` (assigning over a joinable thread) or joining one thread
twice sets `aborted`. `Restart` kills the process at any step and starts it again
with the rows alone; HTTP calls are accepted before the main thread has restored them,
as in main. `overlapped` remembers the channels for which two calls were in progress
at once; a channel created over a row not yet restored is no overlap but a channel
like any other, and must be consistent like any other. `unrestored` remembers those
rows: `IdsAreFresh` excepts them, because the code does hand out their ids. Two
critical sections inside `BuildPipeline` (the test for a slot and its insertion) are
one step; with calls that do not overlap nothing comes between them. StartAll and StopAll
are sequences of single calls.
UpdateOverlayConfig and the other contents of a config are left out: no step
branches on them. SQL statements are taken to succeed.

**ChannelMonitor.** A round of the monitor reads a snapshot and updates all trackers;
the limit, StopChannel and StartChannel of each attempt are steps of their own, and so
are those of RecoveryLoop. Calls of the manager are atomic here and a start may fail;
how they overlap is in `ChannelManager`. `recoveries` is history.

**DetectionEvents.** Per channel: the stage thread inside `ProcessFrame`, the
inference thread inside `InferWorker`, and the caller of `Shutdown`, each with its
program point. The mutexes are no variables of their own: `infer_mutex_` is held at
the point "blocking", `result_mutex_` at "publish" and "inBus", and `bus` is the
owner of the bus mutex. The wait is split into predicate and sleep because
`Shutdown` notifies without the mutex; spurious wake-ups, which the code may not
rely on, are left out. `Submit` stores the frame and notifies in one step: a
notification that comes later meets a thread that is awake and does nothing, or
wakes it to look again. A frame is the number of its arrival; a result is the
number of the frame it was computed from. In a cascade the stage thread infers and
publishes itself. A detection meets a rule's event type and confidence or not;
events carry channel -1, as decoded frames do. The handler stops at its nested
`Publish` and has no step after it: `std::mutex` is not recursive, so the build
blocks there. The cooldown is therefore never found set. Subscribing at boot and
the stop of the manager at exit, when all channels are stopped, are left out.

**Recording.** A file is its path and whether it exists; a row is what the index
knows of it. The INSERT of a segment and the read of its rowid are two steps
(`InsertSegment`, `ReadRowId`), as the connection has no lock over both; `misread`
remembers the ids that were returned for another row. `DeleteSegment` deletes a row and
its events in one step: nothing that is checked looks between them. Recorder, flush
thread, `Flush`, cleaner, player and backup advance by
one file operation or one SQL statement. Rotation is noticed as in the code, by a
path that differs after the write. `RecordingCrash` keeps files and rows and drops
the queue of the indexer and the open segment.

**LiveViewers, Hls, WebRtc, SocketServers.** A frame is its number and whether it
is a keyframe. A write to a socket succeeds or fails. What a method does under its
lock is one step; the set-up of a WebRTC connection, a SETUP that fills in a session
and the closing of a listed session are steps between which others run. A thread that
has tested its descriptor and not closed it yet is a place of its own, and Stop may
come there: `crossed` remembers where it did, `closes` counts. Clients of the RTSP
server send their requests in any order, for a channel that comes and goes.

**Muxers.** Bytes are kept where they decide something: NAL unit types and start
codes, sizes of nested boxes, offsets patched afterwards, counters with their
widths, 33-bit time stamps (negative ones and those past the wrap included, each a pair
of its 2^30s and the rest, since TLC's integers have 32 bits), length fields that lose
what they cannot hold. Constant descriptors count with their length only. Each format has
a reader, and `FormatsSound` compares what was
written with what is read.

**Access.** Every handler is the sequence of calls it makes to the stores; other
threads run in between. Hashing and signing are taken as perfect. The role that
counts is the one in the token, as in the code.

**Rules and Tracking.** In `Rules` an evaluator may or may not fire; the time of its
event is the frame's own (`stamp`), which need not be the clock; the event may fail to
be logged (`logged`) and is published all the same; in `Tracking`
one evaluator is computed exactly, with IoU and geometry in integers.
`seen` and `reported` are history: what the evaluators may report is
defined again from the positions a track was observed at, and `EventsExact`
compares. So are `given` and `lost` in a track: the detection it was last given, and
how many frames ago.

**RtspClient.** Owner and pull thread each have a program point; `running_` is read
where the code reads it, so a call of Close may come during a read, a wait or a
connect. **HotReload.** The file is truncated before it is written, and the watcher
may read it at any moment. **AnalysisScheduler.** The shares are computed with the
code's integer divisions, in the code's order.

## 3. The runs

| run | instance | distinct states | result |
|---|---|---|---|
| `stage_queue` | 2 channels, capacities 1 and 3, 5 frames, batches up to 2 | 8 thousand | holds |
| `pipeline` | 4 stages, capacities 1,1,2,1, batch 2 in stage 3, decoder delay 1, 2 drain polls, 3 packets of which the first is a keyframe | 280 thousand | holds |
| `channel_manager` | 2 callers and the main thread, 2 slots, 3 ids, 5 calls or restarts | 1.5 million | holds |
| `detection_events` | a channel with an engine and 3 frames, one with a cascade and 1 frame, 1 rule | 220 thousand | holds |
| `media` | `Recording` in three compositions, `LiveViewers` for each service, `Hls`, `WebRtc`, `SocketServers` for each server, `Muxers` | 940 thousand | holds |
| `services` | `Access`, `Rules`, `Tracking` for each evaluator, `RtspClient`, `HotReload`, `AnalysisScheduler`, `ChannelMonitor` | 1.5 million | holds |
| `alarm_published` | as `detection_events` | | violated |
| `stage_shutdown` | as `detection_events`, no rules | | violated |
| `pipeline_drain` | as `pipeline`, any first packet, stops by DrainAndStop only | | violated |
| `manager_delete` | as `channel_manager` | | violated |
| `segment_id` | `Recording` with two segments and one event | | violated |
| `tracker_growth` | two places far apart | | violated |

*Bounds.* `stage_queue`: three slots and five frames let a queue fill with any mix
of two channels and keyframes, evict in the middle, be resized under its contents
in both directions and shut down in every such state. `pipeline`: four stages
contain each kind of stage; queues of one and two frames are full as soon as a
thread is slow; three packets let one be in a codec, one in a hand and one in a
queue; a camera's stream begins with a keyframe, which `CameraSpec` asks of the first
packet only (the safety properties are proved without it); there is no bound on API calls,
so stop, start and stop again is included.
`channel_manager`: two callers suffice for every pairwise overlap, the third id
lets an id be given after one was deleted, and five calls or restarts allow
create, start, an overlapping pair and a restart. The callers are symmetric.

`detection_events`: three frames let one be in inference, one be refused by the
flag and one be given the result; two channels and the monitor compete for the bus;
one rule, updated, disabled, deleted at any point of an evaluation, is enough for
the alarm that blocks. `skip_frames` 0 submits most often.

`media`: segments of one second and a clock of two let a segment rotate, be
finalized, be cleaned and be played while the next one is written; three tags and
four segments are the least queues in which header, keyframe and delta frames meet
the limit; seven frames fill, shift and shorten an HLS window; two offer threads
over a limit of one exceed it as far as they can; two clients cover every pair of
push and close; payload sizes lie on both sides of every boundary (one packet, one
packet with a clock field); lengths on both sides of what one byte, two bytes and the
24 bits of an FLV tag hold (125, 126, 65535, 65536, 2^24 - 1, 2^24), and time stamps of
both signs, across every shift, up to the last before 2^33 and past it. `services`: two
threads, one address, a
limit of two attempts and three users, of whom one can be deleted and another
created; two rule callers on one channel over two hours; two objects for four frames
over five places; two opens, two outages and four attempts; three writes of the
configuration; two channels that share a budget which is too small or ample; two monitored
channels,
a limit of two attempts, two errors or one second without progress for an attempt, six
seconds and three calls of users, enough for a third attempt and for two rounds between
attempts.

*Deadlock* is checked in the queue and pipeline runs: a pipeline can always be
started or stopped again. In the manager runs calls are bounded, so a behaviour
may end; the check is off there, in the runs of `DetectionEvents`, where all
channels may be stopped for good, and in `media` and `services`, where requests,
frames and time are bounded.

*Fairness.* Weak fairness is assumed of threads that the program starts and that
loop until stopped: the consumer of a queue, each worker, and the thread that is
inside Stop or DrainAndStop. Each of them is only ever waiting on a timed wait or
on a join. Cameras, API callers and codec failures are not fair.
What a stage does inside one ProcessFrame or Shutdown call is taken to return in
`ChannelPipeline`; for AiStage `stage_shutdown` shows when it does not. In
`DetectionEvents` the threads the program started and the running handler are
weakly fair, and a thread that waits for the bus mutex is strongly fair: it gets a
mutex that is free again and again. Frames, users and the monitor are not fair.

*What the passing runs show.* The queue properties hold under every interleaving.
Across queues, hands and codecs no frame overtakes another: `InOrder` is the
relation between stages and `IsFrameStream` the refinement of the abstract
specification, with everything the pipeline holds as `pending`. `DropsCounted`
says where every frame went. `StoppedIsQuiet` is what makes it safe to call Start
again; `SourceQueueDrained` depends on the order in which Stop closes the source
and clears `running_`, and holds for the first queue only. In the manager, calls
for different channels never disturb each other, and calls for one channel leave
it consistent if they do not overlap, restarts included; without an overlap the
process never aborts either (`ConsistentWithoutOverlap`).

In `DetectionEvents` the flag `infer_running_`, which is no mutex, is enough for the
hand-over (`SlotKept`, `ResultsInOrder`), a submitted frame always gets an answer
and the bus is always released (`InferenceAnswers`, `BusReleased`) as long as no
alarm is raised and the stage is not shut down.

In `media`, the index is right about ends and events in whatever order the two
flushers apply their batches (`EndsKept`, `EventsInTimeline`, but for rows whose id was
given to the recorder for
another row), the cleaner takes the
oldest first although rows change under it (`OldestFirst`), a player never claims to
play without a file (`PlayingHasFile`). Viewers' queues stay within their limits and
in order (`QueuesBounded`, `LiveInOrder`), no descriptor is closed twice
but where Stop crosses the thread that closes it (`DescriptorsClosedOnce`), a push
meets a session without packetizer only inside its SETUP, in whatever order requests
come (`PacketizerThere`), playlists have no gap (`HlsGapless`),
parallel offers exceed the limit by the threads less one and no more
(`RtcSessionsBounded`), and all formats read back, lengths exactly as far as their fields reach
(`FormatsSound`).

In `services`, a token never comes to name another account (`TokenNamesItsUser`,
which rests on AUTOINCREMENT), parallel logins overrun the lock by the other threads
at most (`AttemptsBounded`), the engine has the stored rules when calls for a channel
do not overlap (`EngineFollowsStore`), no event is counted twice and the three
queries agree (`CountsAgree`), the evaluators report exactly what the observed
positions mean (`EventsExact`), the camera client tells the truth
(`ClientTruthful`), the configuration settles (`ConfigSettles`), the GPU budget
is kept and used (`BudgetShared`) and the monitor's attempts for a channel are apart
and limited, whatever the other recovery thread and the users do (`RecoveriesPaced`).

*What the violated runs show.* `alarm_published`: the first alarm blocks its thread
and the bus for ever, so it is stored but reaches nobody. `stage_shutdown`: a
notification between predicate and sleep is lost, and Shutdown never returns.
`pipeline_drain`: a drained pipeline can still lose frames that are in a hand or a
codec. `manager_delete`: a start or an edit that overlaps a delete leaves parts of
the channel behind. `tracker_growth`: a track that was lost is never removed, since
it is no longer counted once it is inactive. `segment_id`: an event inserted between a
segment's INSERT and the read of its rowid gives the recorder the wrong id. `PROJECT.json`
quotes the line of the
repository each of these contradicts, and lists the disagreements met while
modelling that have no run of their own.

Every property of a passing run has a mutant in `PROJECT.json`: an operator next to
the definition it changes, with which TLC finds the property violated.

## 4. The proofs

For every choice of the constants that meets the assumptions
(`StageQueueAssumption`, `PipelineAssumption`: positive batch sizes, natural
capacities and delays, at least three stages):

* `StageQueueOpsProofs`: what Push, eviction and Pop do to a queue, as lemmas:
  Push yields a well-typed queue whose frames are the old ones without at most one
  delta frame, in the same order, followed by the new one if it was accepted.
* `SumProofs`: lemmas about sums over a finite set, for `DropsAlwaysCounted` of the
  pipeline, `CountsAlwaysAgree` and `BudgetAlwaysShared`.
  The fold behind `SumFunction` defines a sum (`SumTableExists`), the order in which
  elements are taken does not matter (`SumRemoves`), changing one summand changes the
  sum by as much (`SumChanges`), and a sum may be taken in groups (`SumByKey`).
  Instead of an induction, which the provers cannot instantiate, they look at a least
  subset for which the claim would fail (`LeastSubset`, from `WFMin`).
* `StageQueueProofs`: `TypeCorrect`; `FifoHolds`, from the inductive invariant
  `Ordered` (Fifo and: no number has been used that is not below `nextId`, which
  is what makes a new frame the youngest); `CapacityBound`, from
  `WithinSomeCapacity` (the current capacity is one of `Capacities`, which the
  bound alone does not say); `KeyframesKeptAlways`, an action property;
  `DropsAlwaysCounted`, from `Accounted` (nothing is held or refused that was not
  offered), by counting what is missing (`Missing`) step by step.
* `ChannelPipelineProofs`: `TypeCorrect`, whose invariant also needs `InHand` (a
  busy worker holds a frame, a worker in a codec belongs to a codec stage, loops
  stay within the stages); `StoppedIsQuietAlways`, from `QuietInv`: for every point
  of the API call which flags hold, which stages are already joined and which
  codecs already flushed, so that the end of the loops gives the whole claim;
  `SourceQueueAlwaysDrained`, from `SourceInv`: nobody feeds stage 1, so only a packet
  fills the queue of stage 2, and not once its worker has left.
  `InOrderAlways` and the refinement `ImplementsFrameStream` come from `LineInv`. It
  looks at the three places where a stage holds frames (codec, hand, queue) one by
  one: each is sorted, and of two places the one ahead holds the older frames. The
  lemmas `LineShrinks`, `LineMoves`, `LineGrows` and `LineDelivers` show once what the
  order allows (frames disappear; the oldest of a place go to the end of the next
  place that is not empty; a new frame enters behind all; the oldest leaves), each
  action is shown to be one of the four, and each of these is a step of `FrameStream`.
  `DropsAlwaysCounted` comes from `CountInv`, which adds to the equation that no frame
  noted as lost is still held anywhere. Since the places share no frame (`HeldTwo`,
  from `LineInv`), a step's effect on all that is held is its effect on the one or two
  places it touches; `CountMoves` turns the sets that arrive, are lost and are counted
  into the equation, and `PushExact` says that the counter of a queue grows by exactly
  the number of frames Push turned away.
  `OrderInv`, with the parts above it, and `CountInv` also hold on the instance of the
  `pipeline` run with any first packet (494186 states).

* `AnalysisProofs`, about a frame's way through AiStage and about the evaluators.
  * `EventsAlwaysExact` (any line, polygon, box size, thresholds, loitering time and
    cooldown, any finite set of detections, any number of frames; `TrackingAssumption`),
    from `TrackingInv`. The property compares reports with the history of a track and
    says nothing of what the evaluators remember, so it is not inductive. The invariant
    adds that observations of a track are in the order of time and that a new track has
    an id never used (`TracksOK`, `HistoryOK`), and for each evaluator that its memory of
    every track the tracker still has is what the history implies: `last_side_` is the
    side of the last observation off the line (`LineInv`), `was_inside_` that of the
    last observation (`RegionInv`), and the state of a stay has its beginning and its
    last alert (`LoiterInv`). What is expected of a history is defined by quantifiers
    over it, not by a recursion, so that one observation more can be reasoned about
    without an induction (`CrossingsGrow`, `EntriesGrow`, `JudgedBefore`). The line
    evaluator skips frames without detections while the tracker ages its tracks
    (`SkippedStep`). That no detection goes to two tracks holds for whichever
    greedy matching ties lead to (`UpdateOutcome`).
  * (any channels, frames, rules) `SlotKeptAlways` and
    `ResultsInOrderAlways`, from `HandInv`: the types, `Handshake` (the filled slot,
    the stage thread about to fill it and the inference exclude one another and each
    needs the flag) and `FramesOrdered` (attached result, latest result, frame in
    inference or in the slot, frame in hand, in this order). Neither property is
    inductive alone: both fail in states where the flag is down while a frame is
    under way, and `Handshake` is what excludes these. `ShutdownIsFinalAlways`, from
    `ShutInv`: a stopped stage has been joined before, so nobody starts an inference
    thread again, and the owner of the bus is a thread of its channel that is inside it.

* `MediaProofs`, about storage and streaming.
  * Recording (any segment duration, quota, age, batch, and number of segments,
    flushes and crashes; `RecordingAssumption`): `EndsAlwaysKept`, `OldestAlwaysFirst`
    and `EventsAlwaysInTimeline`, from `IndexInv`, and `PlayingAlwaysHasFile`, from
    `PlaybackInv`. The two flushers apply their batches without a lock, so the order of
    the statements says nothing; what makes the index right is:
    * `QueuesInv` and `EndsInv`: over the queue and both batches together, no segment is
      finalized by two operations, and one that waits to be finalized is neither
      finalized already nor the one being written (`Once`, `Apart`);
    * `EventsInv`: an event, in the index or still queued, is not before its segment and
      not after the end that has been or will be written;
    * all of it for the rows whose ids were not returned for another row (`misread`): an
      id the recorder is given wrongly is another row's, and may be finalized again;
    * `CleanInv`: while the cleaner works off what it fetched for its size, the batch is
      in order and no row outside it is older (`BatchInv`), since rows that come later
      start later.

    `Sorting` shows that a query's `ORDER BY start_time` returns each row once and in
    order. The model states the order by rank (the k-th row is the one with k - 1 rows
    before it), so that this follows from ranks being different (an injection into
    `1..n` from a set of n rows is onto) instead of from an induction over the sort.

  The streaming services (any viewers, clients, threads, frames and limits;
  `RtcAssumption`, `LiveAssumption`, `HlsAssumption`) share no state; each has an
  invariant of its own.
  * `SessionsBounded`, from `RtcInv`. The property counts the offers in setup beside the
    sessions, because a session is stored without another test; what remains is
    cardinality: an offer that passes the test finds room for one and at most every
    thread is in setup, and each other step adds no more than it takes away.
  * `QueuesBoundedAlways` and `LiveInOrderAlways`, from `LiveInv`. The init segment goes
    in before the limit is tested, so the bound alone is not inductive: a viewer that
    still needs one has a queue that is new or was cut to half, and it ends in a frame
    (`WsQueue`). That two init segments are never neighbours is what lets a send that
    stops anywhere leave a newest frame behind (`NewestSent`). The assumption that the
    limit is at least 4 segments is needed: with less the queue overruns it.
  * `PacketizerThereAlways`, from `SocketInv`: a session that names its channel has its
    packetizer except in the middle of its first SETUP, whatever the client sent before
    and whether or not the channel was there.
  * `DescriptorsAlwaysClosedOnce`, from its two halves `WsClosedOnceAlways` and
    `SocketClosedOnceAlways`: a descriptor that is open has not been closed, whichever of
    the connection's thread and Stop gets there, and only a thread that had tested it
    before Stop closed it (`crossed`) closes it again.
  * `GaplessAlways`, from `HlsInv`: the window is the last segments finished, each with
    its number and joined to the one before (`WindowJoined`), and the segment being
    filled begins where the window ends and holds the newest frame (`FillingJoined`).
    A request finds one segment only, because the numbers are all different
    (`SegmentFound`).

* `ServicesProofs`, for six services that share no state.
  * `Truthful` (any configurations, delays, attempts), from `ClientInv`. What holds
    between two calls of `RtspClient` is not inductive, so the invariant says what
    holds inside them: no thread between join and start (`ThreadJoined`), the value of
    `state_` at each place of the thread (`StateMeans`), where a context is open
    (`ContextOpen`), and that attempts are zero when a thread starts
    (`RetriesBounded`).
  * `RecoveriesAlwaysPaced` (any channels, thresholds and times), from `MonitorInv`:
    a tracker counts the attempts, every error it counts since the last one took a
    round of the poll (`TrackersCount`), why a channel was put on the list still holds
    when its turn comes (`CandidatesDue`), and a channel without a tracker was not
    tried before or is gone for good, because ids are given once (`TrackersKnown`).
  * `ConfigAlwaysSettles` (any sections and edits), from `HotInv`: every change of the
    file leaves an event, so without one the watcher holds what the file says
    (`FileSeen`), and unless a patch overtook the watcher one thread notifies at a
    time and what it has left covers what the components lack (`Notified`).
  * `EngineAlwaysFollowsStore` (any threads, channels, rules and evaluations), from
    `RulesInv`: unless calls for a channel overlapped, it has one call at a time, what
    that call has built is what the store holds until it is installed, and without a
    call the engine holds it (`ChannelFollows`). `CallStep` shows once that a call of
    one channel leaves the other channels' rows, entries and calls alone, for which a
    call must know the channel of its row: ids are given once and a row keeps its
    channel (`IsCall`).
  * `CountsAlwaysAgree` (any channels, rules, hours and events), from `HourlyInv`: an
    hour counts at most the rows of the log that have been handled, that is not the
    one whose event is still on its way to the aggregator. That the days of
    `GetTrends` and the hours of `GetPeakHours` add up to the total of `GetSummary`
    holds in every state with such a table, because each bucket falls into exactly one
    of them (`SumByKey`).
  * `BudgetAlwaysShared` (any tasks, costs and budgets; `SchedulerAssumption`, which
    asks for a `target_fps` of at least 0: it is a rate, and nothing else in the
    repository creates a task), from `SchedulerInv`.
    The loop of `RebalanceBudget` is the recursive function `Grants`, over the set of
    tasks it has been through; `SharesRight` says what is right after each of them,
    and holds for all because there is no least set for which it fails: the last task
    of such a set in the order of `ComputeSchedulingOrder` was added to a set for which
    it holds. Between rebalances only how often a channel is analysed is kept
    (`IntervalsKept`).
  * `AccessTypeCorrect` (any users, addresses, HTTP threads; `AccessAssumption`);
    `TokensNameTheirUsers`, which needs the same of the requests in flight (a login
    between the password check and `CreateToken` carries a pair that was read from a
    row), that ids of tokens stay below the next one, and the action fact that no row
    changes its name or comes back under an old id (`NamesStay`);
    `LoginAttemptsBounded`, from `FailuresAndFlights`: the failures counted for an
    address and the logins from it still in flight, together, stay below the limit
    plus the threads, which a request that passes the test adds to and each answer
    does not.

* `ChannelManagerProofs` (any callers, slots, ids, calls and restarts;
  `ChannelManagerAssumption`): `ManagerTypeCorrect`, `FreshIds`, `LimitHolds` and
  `ConsistentUnlessOverlapped`, all from one inductive invariant, `ManagerInv`. What
  the manager promises holds between calls only, so the invariant says what holds
  inside them:
  * `ThreadsInv`: the steps a thread has left are the end of some call (`Flow`: each
    step may follow the one before it, only a delete gives up slot and row, and only
    the main thread loads), and it has a local pipeline exactly where a step uses one;
  * `PipesInv`: no two channels hold one pipeline object, and objects nobody holds have
    been destroyed, so a new one is never running (`NewPipeIsFree` counts references);
  * `Exclusive` and `LoaderInv`: two calls at work on one channel have been noted as an
    overlap, counting every row that still waits to be restored as the loader's work;
  * `IdsInv`, `SlotsInv`, `RowsInv`: ids in use lie below the counter, a channel that
    exists has its slot and its row, and so has a row waiting to be restored;
  * `PhaseInv`: for each channel without an overlap, and for each place its one call can
    be at, what the map, the pipeline, the streaming services and the tables hold
    (`CallPhase`, `DeletePhase`), `AtRest` between calls and `Gone` after a delete.

  The proof shows once that a step about one channel leaves the others alone
  (`ConfinedStep`, `ChannelStep`), and then for each step what it does to its own.
  (TLC needs about four minutes for `ManagerInv` on the instance of the
  `channel_manager` run, so no run repeats it.)

Only model-checked:

* the liveness properties `ShutdownDrains`, `StopReturns`, `QueuesKeepMoving`,
  `InferenceAnswers` and `BusReleased`, which need fairness;
* `FormatsSound`: what parsers, packetizers and boxes that are defined by recursion
  over bytes compute. `Muxers` therefore keeps its `RECURSIVE` operators, and no module
  with a theorem uses it.

Every other invariant and action property that a run checks is also a theorem.

## 5. Plan

Done: queue, pipeline, manager, detection events, storage, streaming and formats,
users, rules and evaluators, camera client, configuration, scheduler, monitor. Left,
in this order:

1. Statements of the channel store that fail.
2. `NotificationManager`'s queue, once an alarm can reach it.

## 6. Not modelled

* Pixels, tensors and text: renderers and compositor, inference engines, face and
  plate matching, plugins, SDP, ONVIF, SMTP, MQTT and webhook bodies, JSON.
* Hashing, signing and CRCs, which are taken as perfect or counted by length.
* `ThreadPool`, `FrameBufferPool` and `StreamManager`: nothing in the program uses
  them. `NotificationManager`: its only input is `alarm.triggered`, which
  `alarm_published` shows is never delivered.
* Routes that only read a table and format it; statistics and metrics
  (`frames_processed_` and the monitor's rates included); logging.
* SQL statements that fail, except where the code looks at the result.
* Boot and exit apart from the restore of channels: the wiring in `src/main.cc`
  runs once, before the threads it makes.
