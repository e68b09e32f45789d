-------------------------- MODULE ChannelPipeline --------------------------
(* The pipeline of one channel (src/core/pipeline/channel_pipeline.cc) with *)
(* the stages ChannelOrchestrator::BuildPipeline gives it: stage 1 is the   *)
(* RTSP source, stage 2 decodes, stage N encodes and hands the packets to   *)
(* the viewers, and the stages between them forward.  Every stage i has an  *)
(* input queue and a worker thread; the RTSP pull thread pushes into the    *)
(* queue of stage 2.  One API caller uses Initialize, Start, Stop and       *)
(* DrainAndStop; the steps of those calls interleave with all the threads.  *)
EXTENDS StageQueueOps, Integers, FiniteSets, FiniteSetsExt

CONSTANTS
    N,              \* number of stages
    ChannelId,      \* channel_id_
    Capacity,       \* stage -> queue_capacity of its StageConfig
    BatchSize,      \* stage -> frames its worker asks for at once
    CodecDelay,     \* codec stage -> frames its codec holds back
    DrainAttempts,  \* polls of DrainAndStop (50 in the code)
    MaxFrames       \* bound: packets received in one run

Stages == 1..N
Source == 1
Decode == 2
Output == N
CodecStages == {Decode, Output}

ASSUME PipelineAssumption ==
    /\ N \in Nat /\ N >= 3
    /\ ChannelId \in Nat
    /\ Capacity \in [Stages -> Nat]
    /\ BatchSize \in [Stages -> Nat \ {0}]
    /\ CodecDelay \in [CodecStages -> Nat]
    /\ DrainAttempts \in Nat
    /\ MaxFrames \in Nat

NoChannel == -1     \* Frame::channel_id of a frame nobody labelled

VARIABLES
    state_,             \* ChannelState the callers see
    running_,           \* keeps the worker loops going
    initialized,        \* codec stages whose initialized_ is set
    queue,              \* stage -> input_queue
    worker,             \* stage -> where its worker thread is
    hand,               \* stage -> frames its worker popped and still holds
    codec,              \* stage -> frames inside its decoder or encoder
    pulling,            \* the RTSP client is open and delivers packets
    ctl,                \* the API call in progress
    produced,           \* history: packets received
    delivered,          \* history: ids handed to the output callback
    lost                \* history: ids lost where no statistic counts them

vars == <<state_, running_, initialized, queue, worker, hand, codec, pulling,
          ctl, produced, delivered, lost>>

threadVars == <<worker, hand, codec>>
streamVars == <<produced, delivered, lost>>

Frames == [id : Nat \ {0}, ch : {ChannelId, NoChannel}, key : BOOLEAN]

CtlPoints == {"idle", "opening", "draining", "stopSource", "clearRunning",
              "shutdownQueues", "join", "shutdownStages"}

TypeOK ==
    /\ state_ \in {"kCreated", "kConfigured", "kRunning", "kStopped", "kError"}
    /\ running_ \in BOOLEAN
    /\ initialized \in SUBSET CodecStages
    /\ queue \in [Stages -> Queues(Frames)]
    /\ worker \in [Stages -> {"none", "idle", "busy", "inCodec", "exited"}]
    /\ hand \in [Stages -> Seq(Frames)]
    /\ codec \in [Stages -> Seq(Frames)]
    /\ pulling \in BOOLEAN
    /\ ctl \in [pc : CtlPoints, k : Nat, polls : Nat]
    /\ produced \in Nat
    /\ delivered \in Seq(Nat \ {0})
    /\ lost \in [door : SUBSET (Nat \ {0}), inside : SUBSET (Nat \ {0}),
                stage : SUBSET (Nat \ {0})]

IdSet(s) == {s[k].id : k \in 1..Len(s)}

(* Frames lost without a counter: a packet turned away by a queue that was  *)
(* shut down (door), a frame of the pipeline that the next queue refused    *)
(* for that reason (inside), and one freed by a stage that failed (stage).  *)
LoseAtDoor(ids) == lost' = [lost EXCEPT !.door = @ \union ids]
LoseInside(ids) == lost' = [lost EXCEPT !.inside = @ \union ids]
LoseInStage(ids) == lost' = [lost EXCEPT !.stage = @ \union ids]

CtlAt(pc, k, polls) == [pc |-> pc, k |-> k, polls |-> polls]

(* AddStage has been called for every stage.                                *)
Init ==
    /\ state_ = "kCreated"
    /\ running_ = FALSE
    /\ initialized = {}
    /\ queue = [i \in Stages |-> NewQueue(Capacity[i])]
    /\ worker = [i \in Stages |-> "none"]
    /\ hand = [i \in Stages |-> <<>>]
    /\ codec = [i \in Stages |-> <<>>]
    /\ pulling = FALSE
    /\ ctl = CtlAt("idle", 0, 0)
    /\ produced = 0
    /\ delivered = <<>>
    /\ lost = [door |-> {}, inside |-> {}, stage |-> {}]

-----------------------------------------------------------------------------
(* API calls.  ChannelManager calls Initialize and Start only on a pipeline *)
(* it has stopped; the races of its own callers are not this module's.      *)

(* Initialize succeeds, or fails at stage k with the stages before it done. *)
Initialize ==
    /\ ctl.pc = "idle" /\ ~running_
    /\ \/ /\ initialized' = CodecStages
          /\ state_' = "kConfigured"
       \/ \E k \in Stages :
             /\ initialized' = initialized \union {i \in CodecStages : i < k}
             /\ state_' = "kError"
    /\ UNCHANGED <<running_, queue, pulling, ctl, threadVars, streamVars>>

(* Start launches the workers, which run while the RTSP source is opened.   *)
Start ==
    /\ ctl.pc = "idle" /\ ~running_
    /\ state_ \in {"kConfigured", "kStopped"}
    /\ running_' = TRUE
    /\ worker' = [i \in Stages |-> "idle"]
    /\ ctl' = CtlAt("opening", 0, 0)
    /\ UNCHANGED <<state_, initialized, queue, hand, codec, pulling,
                   streamVars>>

(* OnPipelineStart: a source that cannot be opened is only logged.          *)
OnPipelineStart ==
    /\ ctl.pc = "opening"
    /\ pulling' \in BOOLEAN
    /\ state_' = "kRunning"
    /\ ctl' = CtlAt("idle", 0, 0)
    /\ UNCHANGED <<running_, initialized, queue, threadVars, streamVars>>

Stop ==
    /\ ctl.pc = "idle" /\ running_
    /\ ctl' = CtlAt("stopSource", 0, 0)
    /\ UNCHANGED <<state_, running_, initialized, queue, pulling, threadVars,
                   streamVars>>

DrainAndStop ==
    /\ ctl.pc = "idle" /\ running_
    /\ ctl' = IF DrainAttempts > 0 THEN CtlAt("draining", 1, 0)
                                   ELSE CtlAt("stopSource", 0, 0)
    /\ UNCHANGED <<state_, running_, initialized, queue, pulling, threadVars,
                   streamVars>>

(* Mutant: the wait covers the codecs too and has no limit.                 *)
DrainPollForCodecs ==
    /\ ctl.pc = "draining"
    /\ ctl' = IF Empty(queue[ctl.k]) /\ codec[ctl.k] = <<>>
              THEN IF ctl.k = N THEN CtlAt("stopSource", 0, 0)
                                ELSE CtlAt("draining", ctl.k + 1, 0)
              ELSE CtlAt("draining", 1, 0)
    /\ UNCHANGED <<state_, running_, initialized, queue, pulling, threadVars,
                   streamVars>>

(* One look at one queue.  A queue with frames ends the poll; a poll that   *)
(* saw every queue empty, or the last poll, ends the wait.                  *)
DrainPoll ==
    /\ ctl.pc = "draining"
    /\ ctl' = IF Empty(queue[ctl.k])
              THEN IF ctl.k = N THEN CtlAt("stopSource", 0, 0)
                                ELSE CtlAt("draining", ctl.k + 1, ctl.polls)
              ELSE IF ctl.polls + 1 >= DrainAttempts
              THEN CtlAt("stopSource", 0, 0)
              ELSE CtlAt("draining", 1, ctl.polls + 1)
    /\ UNCHANGED <<state_, running_, initialized, queue, pulling, threadVars,
                   streamVars>>

(* Mutant: Stop does not close the source.                                  *)
SourceLeftOpen ==
    /\ ctl.pc = "stopSource"
    /\ ctl' = CtlAt("clearRunning", 0, 0)
    /\ UNCHANGED <<state_, running_, initialized, queue, pulling, threadVars,
                   streamVars>>

(* Closing the RTSP client joins its pull thread: no packet arrives later.  *)
OnPipelineStop ==
    /\ ctl.pc = "stopSource"
    /\ pulling' = FALSE
    /\ ctl' = CtlAt("clearRunning", 0, 0)
    /\ UNCHANGED <<state_, running_, initialized, queue, threadVars,
                   streamVars>>

ClearRunning ==
    /\ ctl.pc = "clearRunning"
    /\ running_' = FALSE
    /\ ctl' = CtlAt("shutdownQueues", 1, 0)
    /\ UNCHANGED <<state_, initialized, queue, pulling, threadVars, streamVars>>

ShutdownQueues ==
    /\ ctl.pc = "shutdownQueues"
    /\ queue' = [queue EXCEPT ![ctl.k] = Shutdown(@)]
    /\ ctl' = IF ctl.k = N THEN CtlAt("join", 1, 0)
                           ELSE CtlAt("shutdownQueues", ctl.k + 1, 0)
    /\ UNCHANGED <<state_, running_, initialized, pulling, threadVars,
                   streamVars>>

(* Mutant: the last worker is not joined.                                   *)
JoinAllButLast ==
    /\ ctl.pc = "join" /\ worker[ctl.k] = "exited"
    /\ worker' = [worker EXCEPT ![ctl.k] = "none"]
    /\ ctl' = IF ctl.k = N - 1 THEN CtlAt("shutdownStages", 1, 0)
                               ELSE CtlAt("join", ctl.k + 1, 0)
    /\ UNCHANGED <<state_, running_, initialized, queue, hand, codec,
                   pulling, streamVars>>

JoinWorkers ==
    /\ ctl.pc = "join" /\ worker[ctl.k] = "exited"
    /\ worker' = [worker EXCEPT ![ctl.k] = "none"]
    /\ ctl' = IF ctl.k = N THEN CtlAt("shutdownStages", 1, 0)
                           ELSE CtlAt("join", ctl.k + 1, 0)
    /\ UNCHANGED <<state_, running_, initialized, queue, hand, codec,
                   pulling, streamVars>>

(* The codec of stage i gives out its oldest frame.  The decoder makes a    *)
(* new Frame whose channel_id stays at its default, and its callback        *)
(* ignores what Push returns; a frame it cannot convert is skipped without  *)
(* an error.  The encoder calls the output callback.                        *)
EmitFromCodec(i) ==
    LET f == Head(codec[i])
        decoded == [id |-> f.id, ch |-> NoChannel, key |-> f.key]
    IN  /\ codec[i] # <<>>
        /\ codec' = [codec EXCEPT ![i] = Tail(@)]
        /\ \/ /\ i = Output
              /\ delivered' = Append(delivered, f.id)
              /\ UNCHANGED <<queue, lost>>
           \/ /\ i # Output
              /\ \E r \in Push(queue[i + 1], decoded) :
                    queue' = [queue EXCEPT ![i + 1] = r.queue]
              /\ LoseInside(IF queue[i + 1].shutdown THEN {f.id} ELSE {})
              /\ UNCHANGED delivered
           \/ /\ i # Output
              /\ LoseInStage({f.id})
              /\ UNCHANGED <<queue, delivered>>

(* Stage k's Shutdown flushes its codec frame by frame; after the last      *)
(* stage the pipeline is kStopped.                                          *)
ShutdownStages ==
    /\ ctl.pc = "shutdownStages"
    /\ \/ /\ EmitFromCodec(ctl.k)
          /\ UNCHANGED <<ctl, initialized, state_>>
       \/ /\ codec[ctl.k] = <<>>
          /\ initialized' = initialized \ {ctl.k}
          /\ \/ /\ ctl.k = N
                /\ state_' = "kStopped"
                /\ ctl' = CtlAt("idle", 0, 0)
             \/ /\ ctl.k < N
                /\ ctl' = CtlAt("shutdownStages", ctl.k + 1, 0)
                /\ UNCHANGED state_
          /\ UNCHANGED <<queue, codec, delivered, lost>>
    /\ UNCHANGED <<running_, worker, hand, pulling,
                   produced>>

-----------------------------------------------------------------------------
(* The RTSP pull thread: OnPacket labels the frame and passes it on, which  *)
(* is a Push into the queue of the stage after the source.                  *)
OnPacket(isKey) ==
    LET f == [id |-> produced + 1, ch |-> ChannelId, key |-> isKey]
    IN  /\ pulling /\ produced < MaxFrames
        /\ produced' = produced + 1
        /\ \E r \in Push(queue[Source + 1], f) :
              queue' = [queue EXCEPT ![Source + 1] = r.queue]
        /\ LoseAtDoor(IF queue[Source + 1].shutdown THEN {f.id} ELSE {})
        /\ UNCHANGED <<state_, running_, initialized, pulling, ctl, threadVars,
                       delivered>>

-----------------------------------------------------------------------------
(* StageWorkerLoop of stage i.                                              *)

(* Mutant: PopBatch waits until the batch is full.                          *)
WorkerPopFullBatch(i) ==
    /\ worker[i] = "idle" /\ Len(queue[i].frames) >= BatchSize[i]
    /\ hand' = [hand EXCEPT ![i] = Popped(queue[i], BatchSize[i])]
    /\ queue' = [queue EXCEPT ![i] = AfterPop(queue[i], BatchSize[i])]
    /\ worker' = [worker EXCEPT ![i] = "busy"]
    /\ UNCHANGED <<state_, running_, initialized, codec, pulling, ctl,
                   streamVars>>

(* Pop in single mode.  In batch mode PopBatch takes what is there, up to   *)
(* the batch size; a frame that arrives after PopBatch timed out is taken   *)
(* alone, by the longer Pop that follows.                                   *)
WorkerPop(i) ==
    /\ worker[i] = "idle" /\ ~Empty(queue[i])
    /\ \E n \in {1, BatchSize[i]} :
          /\ hand' = [hand EXCEPT ![i] = Popped(queue[i], n)]
          /\ queue' = [queue EXCEPT ![i] = AfterPop(queue[i], n)]
    /\ worker' = [worker EXCEPT ![i] = "busy"]
    /\ UNCHANGED <<state_, running_, initialized, codec, pulling, ctl,
                   streamVars>>

(* ProcessFrame returned true for the first frame in hand.                  *)
FrameDone(i, rest) ==
    /\ hand' = [hand EXCEPT ![i] = rest]
    /\ worker' = [worker EXCEPT ![i] = IF rest = <<>> THEN "idle" ELSE "busy"]

(* ProcessFrame returned false: the batch ends there, the rest is freed.    *)
BatchFailed(i) ==
    /\ hand' = [hand EXCEPT ![i] = <<>>]
    /\ worker' = [worker EXCEPT ![i] = "idle"]

(* A forwarding stage returns what PassToNext returned.  Frames behind a    *)
(* refused one are lost uncounted, and so is one refused by shutdown.       *)
Forward(i) ==
    /\ worker[i] = "busy" /\ i \notin CodecStages
    /\ \E r \in Push(queue[i + 1], Head(hand[i])) :
          /\ queue' = [queue EXCEPT ![i + 1] = r.queue]
          /\ \/ /\ r.ok
                /\ FrameDone(i, Tail(hand[i]))
                /\ UNCHANGED lost
             \/ /\ ~r.ok
                /\ BatchFailed(i)
                /\ \/ queue[i + 1].shutdown /\ LoseInside(IdSet(hand[i]))
                   \/ /\ ~queue[i + 1].shutdown
                      /\ LoseInStage(IdSet(Tail(hand[i])))
    /\ UNCHANGED <<state_, running_, initialized, codec, pulling, ctl,
                   produced, delivered>>

(* Mutant: the frame given to the codec stays in the batch.                 *)
EnterCodecTwice(i) ==
    /\ worker[i] = "busy" /\ i \in initialized
    /\ codec' = [codec EXCEPT ![i] = Append(@, Head(hand[i]))]
    /\ worker' = [worker EXCEPT ![i] = "inCodec"]
    /\ UNCHANGED <<state_, running_, initialized, queue, hand, pulling,
                   ctl, streamVars>>

(* DecodeStage or OutputStage gives the frame to its codec.  A decoder that *)
(* sees the timestamps jump back first drops what it holds.                 *)
EnterCodec(i) ==
    /\ worker[i] = "busy" /\ i \in initialized
    /\ \/ /\ codec' = [codec EXCEPT ![i] = Append(@, Head(hand[i]))]
          /\ UNCHANGED lost
       \/ /\ i = Decode /\ codec[i] # <<>>
          /\ codec' = [codec EXCEPT ![i] = <<Head(hand[i])>>]
          /\ LoseInStage(IdSet(codec[i]))
    /\ hand' = [hand EXCEPT ![i] = Tail(@)]
    /\ worker' = [worker EXCEPT ![i] = "inCodec"]
    /\ UNCHANGED <<state_, running_, initialized, queue, pulling, ctl,
                   produced, delivered>>

EmitFrame(i) ==
    /\ worker[i] = "inCodec"
    /\ EmitFromCodec(i)
    /\ UNCHANGED <<state_, running_, initialized, worker, hand, pulling,
                   ctl, produced>>

LeaveCodec(i) ==
    /\ worker[i] = "inCodec" /\ Len(codec[i]) =< CodecDelay[i]
    /\ FrameDone(i, hand[i])
    /\ UNCHANGED <<state_, running_, initialized, queue, codec, pulling, ctl,
                   streamVars>>

(* An uninitialized stage, a codec that cannot be created, or one that      *)
(* reports an error before or after taking the frame.                       *)
CodecFails(i) ==
    /\ worker[i] \in {"busy", "inCodec"} /\ i \in CodecStages
    /\ BatchFailed(i)
    /\ LoseInStage(IdSet(hand[i]))
    /\ UNCHANGED <<state_, running_, initialized, queue, codec, pulling, ctl,
                   produced, delivered>>

WorkerExit(i) ==
    /\ worker[i] = "idle" /\ ~running_ /\ Empty(queue[i])
    /\ worker' = [worker EXCEPT ![i] = "exited"]
    /\ UNCHANGED <<state_, running_, initialized, queue, hand, codec,
                   pulling, ctl, streamVars>>

-----------------------------------------------------------------------------
ApiCall == Initialize \/ Start \/ Stop \/ DrainAndStop

CtlStep == \/ OnPipelineStart \/ DrainPoll \/ OnPipelineStop \/ ClearRunning
           \/ ShutdownQueues \/ JoinWorkers \/ ShutdownStages

WorkerStep(i) == \/ WorkerPop(i) \/ Forward(i) \/ EnterCodec(i) \/ EmitFrame(i)
                 \/ LeaveCodec(i) \/ CodecFails(i) \/ WorkerExit(i)

Next == \/ ApiCall
        \/ CtlStep
        \/ \E isKey \in BOOLEAN : OnPacket(isKey)
        \/ \E i \in Stages : WorkerStep(i)

(* The threads the program starts are scheduled; callers and cameras may    *)
(* do nothing.                                                              *)
Spec == /\ Init /\ [][Next]_vars
        /\ WF_vars(CtlStep)
        /\ \A i \in Stages : WF_vars(WorkerStep(i))

(* ChannelManager stops its pipelines with DrainAndStop only.               *)
DrainNext == \/ Initialize \/ Start \/ DrainAndStop
             \/ CtlStep
             \/ \E isKey \in BOOLEAN : OnPacket(isKey)
             \/ \E i \in Stages : WorkerStep(i)

DrainSpec == Init /\ [][DrainNext]_vars

-----------------------------------------------------------------------------
(* Everything stage i holds, oldest first.                                  *)
Line(i) == codec[i] \o hand[i] \o queue[i].frames

Pending == UNION {IdSet(Line(i)) : i \in Stages}

Increasing(s) == \A k \in 1..(Len(s) - 1) : s[k] < s[k + 1]

Older(S, T) == \A m \in S, n \in T : m < n

Stream == INSTANCE FrameStream WITH pending <- Pending

(* The pipeline delivers a FrameStream: across all queues, worker hands and *)
(* codecs no frame overtakes another, none is delivered twice, and a frame  *)
(* that was evicted or discarded never comes back.                          *)
IsFrameStream == Stream!Spec

(* The order behind it: what a later stage holds is older than all an       *)
(* earlier stage holds, and everything held is younger than what was        *)
(* delivered.                                                               *)
InOrder ==
    /\ Increasing(delivered)
    /\ \A i \in Stages :
          LET s == Line(i)
          IN  \A k \in 1..(Len(s) - 1) : s[k].id < s[k + 1].id
    /\ \A i \in Stages :
          LET held == IdSet(Line(i))
          IN  /\ Older(Range(delivered), held)
              /\ Older(held, {produced + 1})
              /\ \A j \in Stages : j < i => Older(held, IdSet(Line(j)))

FramesDropped == SumFunction([i \in Stages |-> queue[i].dropped])

(* FramesDropped() is exact about the frames that queues turned away: every *)
(* received frame is delivered, inside the pipeline, counted once by one    *)
(* queue, or one of those lost past shutdown, in a codec or behind a batch  *)
(* failure.                                                                 *)
DropsCounted ==
    produced = Len(delivered) + Cardinality(Pending) + FramesDropped
                 + Cardinality(lost.door \union lost.inside \union lost.stage)

(* A pipeline at rest has no thread and no packet source, so Start never    *)
(* assigns over a joinable std::thread and Initialize never races a worker. *)
StoppedIsQuiet ==
    ctl.pc = "idle" /\ ~running_ =>
        /\ ~pulling
        /\ \A i \in Stages :
              worker[i] = "none" /\ hand[i] = <<>> /\ codec[i] = <<>>

(* Stop leaves nothing behind in the queue the camera feeds: the source is  *)
(* closed before running_ is cleared, so the decode worker empties it.  The *)
(* queues behind it may keep frames for ever: their worker can leave before *)
(* the stage in front of it passes on its last frame.                       *)
SourceQueueDrained ==
    ctl.pc = "idle" /\ ~running_ => Empty(queue[Source + 1])

(* "Drain remaining frames and then stop." (channel_pipeline.h): callers    *)
(* that stop the pipeline with DrainAndStop only never see a frame that is  *)
(* inside it refused by a queue that was already shut down.                 *)
DrainLosesNothing == lost.inside = {}

(* Stop and DrainAndStop return: no worker waits for ever on a queue, and   *)
(* joining them in stage order cannot block.  (What a stage does inside one *)
(* ProcessFrame or Shutdown call is taken to return.)                       *)
StopReturns == ctl.pc # "idle" ~> ctl.pc = "idle"

Queued(n) == \E i \in Stages : n \in IdSet(queue[i].frames)

(* While the pipeline runs a frame does not stay in its queues for ever.    *)
QueuesKeepMoving ==
    \A n \in 1..MaxFrames :
        (running_ /\ Queued(n)) ~> (~running_ \/ ~Queued(n))
=============================================================================
