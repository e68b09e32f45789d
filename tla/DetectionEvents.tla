-------------------------- MODULE DetectionEvents --------------------------
(* The way of a detection: AiStage (src/pipeline_stages/ai_stage) hands a   *)
(* frame to its inference thread, which publishes "ai.detection" on the     *)
(* EventBus (src/core/event_bus); the handler of AlarmManager               *)
(* (src/system/alarm) evaluates the alarm rules in the publisher's thread,  *)
(* stores an alarm and publishes "alarm.triggered".  Each channel has the   *)
(* worker thread of its AiStage, an inference thread unless a cascade is    *)
(* configured, and a caller that stops it; SystemMonitor is another         *)
(* publisher.  Mutexes are held at the program points named below.          *)
EXTENDS Naturals, Integers, Sequences, FiniteSets, FiniteSetsExt

CONSTANTS
    Channels,       \* channels with an AiStage
    Cascaded,       \* those whose stage has a ModelCascade
    SkipFrames,     \* skip_frames_
    MaxFrames,      \* channel -> bound: raw frames received in one process
    RuleChannels,   \* channel_id of the alarm rules users define
    MaxRules        \* bound: alarm rules ever added

ASSUME EventsAssumption ==
    /\ Channels \subseteq Nat \ {0}
    /\ Cascaded \subseteq Channels
    /\ SkipFrames \in Nat /\ MaxFrames \in [Channels -> Nat]
    /\ RuleChannels \subseteq Int /\ MaxRules \in Nat

NoOne == 0              \* the bus mutex is free
Monitor == -1           \* SystemMonitor's thread
NoFrame == 0
NoResult == 0
AnyChannel == -1        \* AlarmRule::channel_id of a rule for all channels
EventChannel == -1      \* channel_id of a decoded frame, hence of the event

VARIABLES
    stage,              \* channel -> where its stage thread is
    frames,             \* channel -> raw frames received, the last one's name
    counter,            \* channel -> frame_counter_
    attached,           \* channel -> result the last frame was given
    infer,              \* channel -> where its inference thread is
    pending_frame_,     \* channel -> frame handed over, or NoFrame
    current,            \* channel -> frame in inference
    infer_running_,     \* channel -> a frame has been handed over
    last_result_,       \* channel -> frame of the latest result, or NoResult
    stopper,            \* channel -> where the caller of Stop is
    bus,                \* owner of EventBus::mutex_
    handler,            \* where AlarmManager's handler is
    rules,              \* table alarm_rules
    nextRule,           \* AUTOINCREMENT of alarm_rules
    alarms,             \* table alarm_history
    lastTrigger         \* rules that have an entry in last_trigger_times_

stageVars == <<stage, frames, counter, attached>>
inferVars == <<infer, pending_frame_, current, infer_running_, last_result_>>
alarmVars == <<rules, nextRule, alarms, lastTrigger>>
vars == <<stageVars, inferVars, stopper, bus, handler, alarmVars>>

RuleIds == 1..MaxRules
Rules == [id : RuleIds, channel : RuleChannels, enabled : BOOLEAN]
Statuses == {"kActive", "kAcknowledged", "kDismissed"}

StageTypeOK ==
    /\ stage \in [Channels -> {"idle", "apply", "trySubmit", "submit",
                               "publish", "inBus", "joined"}]
    /\ frames \in [Channels -> Nat]
    /\ counter \in [Channels -> Nat]
    /\ attached \in [Channels -> Nat]
    /\ infer \in [Channels -> {"none", "top", "wait", "blocking", "asleep",
                               "infer", "store", "lockResult", "publish",
                               "inBus", "finish", "exited"}]
    /\ pending_frame_ \in [Channels -> Nat]
    /\ current \in [Channels -> Nat]
    /\ infer_running_ \in [Channels -> BOOLEAN]
    /\ last_result_ \in [Channels -> Nat]
    /\ stopper \in [Channels -> {"none", "flag", "notify", "join", "done"}]
    /\ bus \in Channels \union {NoOne, Monitor}

TypeOK ==
    /\ StageTypeOK
    /\ handler \in [pc : {"none", "enter", "rules", "insert", "mark",
                          "nested"}, todo : SUBSET RuleIds]
    /\ rules \subseteq Rules
    /\ nextRule \in 1..(MaxRules + 1)
    /\ alarms \in Seq([rule : RuleIds, status : Statuses])
    /\ lastTrigger \subseteq RuleIds

NoHandler == [pc |-> "none", todo |-> {}]
HandlerAt(pc, todo) == handler' = [pc |-> pc, todo |-> todo]

StageGoto(c, pc) == stage' = [stage EXCEPT ![c] = pc]
InferGoto(c, pc) == infer' = [infer EXCEPT ![c] = pc]

Fresh(v) == [c \in Channels |-> v]

Init ==
    /\ stage = Fresh("idle") /\ frames = Fresh(0) /\ counter = Fresh(0)
    /\ attached = Fresh(NoResult)
    /\ infer = Fresh("none") /\ pending_frame_ = Fresh(NoFrame)
    /\ current = Fresh(NoFrame) /\ infer_running_ = Fresh(FALSE)
    /\ last_result_ = Fresh(NoResult)
    /\ stopper = Fresh("none")
    /\ bus = NoOne
    /\ handler = NoHandler
    /\ rules = {} /\ nextRule = 1 /\ alarms = <<>> /\ lastTrigger = {}

-----------------------------------------------------------------------------
(* AiStage, the stage thread.                                               *)

(* result_mutex_ is held by the inference thread from before the event is   *)
(* built until Publish has returned; elsewhere for one step only.           *)
ResultMutexFree(c) == infer[c] \notin {"publish", "inBus"}

(* infer_mutex_ is held from the evaluation of the wait's predicate until   *)
(* the thread is asleep; elsewhere for one step only.                       *)
InferMutexFree(c) == infer[c] # "blocking"

ShutdownInfer(c) == stopper[c] \in {"notify", "join", "done"}

(* ProcessFrame with a single engine.  The first call starts the inference  *)
(* thread.                                                                  *)
ProcessFrame(c) ==
    /\ stage[c] = "idle" /\ c \notin Cascaded /\ frames[c] < MaxFrames[c]
    /\ frames' = [frames EXCEPT ![c] = @ + 1]
    /\ InferGoto(c, IF infer[c] = "none" THEN "top" ELSE infer[c])
    /\ StageGoto(c, "apply")
    /\ UNCHANGED <<counter, attached, pending_frame_, current, infer_running_,
                   last_result_, stopper, bus, handler, alarmVars>>

ApplyResult(c) ==
    /\ stage[c] = "apply" /\ ResultMutexFree(c)
    /\ attached' = [attached EXCEPT ![c] = last_result_[c]]
    /\ StageGoto(c, "trySubmit")
    /\ UNCHANGED <<frames, counter, inferVars, stopper, bus, handler,
                   alarmVars>>

Due(c) == (counter[c] + 1) % (SkipFrames + 1) = 0

(* Mutant: infer_running_ is not looked at.                                 *)
TrySubmitAlways(c) ==
    /\ stage[c] = "trySubmit"
    /\ counter' = [counter EXCEPT ![c] = @ + 1]
    /\ infer_running_' = [infer_running_ EXCEPT ![c] = @ \/ Due(c)]
    /\ StageGoto(c, IF Due(c) THEN "submit" ELSE "idle")
    /\ UNCHANGED <<frames, attached, infer, pending_frame_, current,
                   last_result_, stopper, bus, handler, alarmVars>>

TrySubmit(c) ==
    /\ stage[c] = "trySubmit"
    /\ counter' = [counter EXCEPT ![c] = @ + 1]
    /\ infer_running_' = [infer_running_ EXCEPT ![c] = @ \/ Due(c)]
    /\ StageGoto(c, IF Due(c) /\ ~infer_running_[c] THEN "submit"
                                                    ELSE "idle")
    /\ UNCHANGED <<frames, attached, infer, pending_frame_, current,
                   last_result_, stopper, bus, handler, alarmVars>>

(* infer_cv_.notify_one()                                                   *)
Woken(c) == IF infer[c] = "asleep" THEN "wait" ELSE infer[c]

(* Mutant: the hand-over wakes nobody.                                      *)
SubmitSilently(c) ==
    /\ stage[c] = "submit" /\ InferMutexFree(c)
    /\ pending_frame_' = [pending_frame_ EXCEPT ![c] = frames[c]]
    /\ StageGoto(c, "idle")
    /\ UNCHANGED <<frames, counter, attached, infer, current, infer_running_,
                   last_result_, stopper, bus, handler, alarmVars>>

Submit(c) ==
    /\ stage[c] = "submit" /\ InferMutexFree(c)
    /\ pending_frame_' = [pending_frame_ EXCEPT ![c] = frames[c]]
    /\ InferGoto(c, Woken(c))
    /\ StageGoto(c, "idle")
    /\ UNCHANGED <<frames, counter, attached, current, infer_running_,
                   last_result_, stopper, bus, handler, alarmVars>>

(* InferCascade: the stage thread infers and publishes itself; the frame    *)
(* carries its own result.                                                  *)
InferCascade(c) ==
    /\ stage[c] = "idle" /\ c \in Cascaded /\ frames[c] < MaxFrames[c]
    /\ frames' = [frames EXCEPT ![c] = @ + 1]
    /\ \/ StageGoto(c, "publish")      \* there are detections
       \/ UNCHANGED stage              \* there are none, or Run failed
    /\ UNCHANGED <<counter, attached, inferVars, stopper, bus, handler,
                   alarmVars>>

-----------------------------------------------------------------------------
(* AiStage, the inference thread.                                           *)

LoopTest(c) ==
    /\ infer[c] = "top"
    /\ InferGoto(c, IF ShutdownInfer(c) THEN "exited" ELSE "wait")
    /\ UNCHANGED <<stageVars, pending_frame_, current, infer_running_,
                   last_result_, stopper, bus, handler, alarmVars>>

(* The predicate of infer_cv_.wait, under infer_mutex_.                     *)
WaitPredicate(c) ==
    /\ infer[c] = "wait"
    /\ \/ /\ ShutdownInfer(c)
          /\ InferGoto(c, "exited")
          /\ UNCHANGED <<pending_frame_, current>>
       \/ /\ ~ShutdownInfer(c) /\ pending_frame_[c] # NoFrame
          /\ current' = [current EXCEPT ![c] = pending_frame_[c]]
          /\ pending_frame_' = [pending_frame_ EXCEPT ![c] = NoFrame]
          /\ InferGoto(c, "infer")
       \/ /\ ~ShutdownInfer(c) /\ pending_frame_[c] = NoFrame
          /\ InferGoto(c, "blocking")
          /\ UNCHANGED <<pending_frame_, current>>
    /\ UNCHANGED <<stageVars, infer_running_, last_result_, stopper, bus,
                   handler, alarmVars>>

(* infer_cv_ releases infer_mutex_ and sleeps.                              *)
Block(c) ==
    /\ infer[c] = "blocking"
    /\ InferGoto(c, "asleep")
    /\ UNCHANGED <<stageVars, pending_frame_, current, infer_running_,
                   last_result_, stopper, bus, handler, alarmVars>>

(* Engine::Infer: it fails or finds nothing, or there are detections.       *)
Infer(c) ==
    /\ infer[c] = "infer"
    /\ \/ InferGoto(c, "finish")
       \/ InferGoto(c, "store")
    /\ UNCHANGED <<stageVars, pending_frame_, current, infer_running_,
                   last_result_, stopper, bus, handler, alarmVars>>

(* Mutant: the result is taken for one of the newest frame.                 *)
StoreForNewest(c) ==
    /\ infer[c] = "store"
    /\ last_result_' = [last_result_ EXCEPT ![c] = frames[c]]
    /\ InferGoto(c, "lockResult")
    /\ UNCHANGED <<stageVars, pending_frame_, current, infer_running_,
                   stopper, bus, handler, alarmVars>>

StoreResult(c) ==
    /\ infer[c] = "store"
    /\ last_result_' = [last_result_ EXCEPT ![c] = current[c]]
    /\ InferGoto(c, "lockResult")
    /\ UNCHANGED <<stageVars, pending_frame_, current, infer_running_,
                   stopper, bus, handler, alarmVars>>

LockResult(c) ==
    /\ infer[c] = "lockResult"
    /\ InferGoto(c, "publish")
    /\ UNCHANGED <<stageVars, pending_frame_, current, infer_running_,
                   last_result_, stopper, bus, handler, alarmVars>>

Finish(c) ==
    /\ infer[c] = "finish"
    /\ infer_running_' = [infer_running_ EXCEPT ![c] = FALSE]
    /\ current' = [current EXCEPT ![c] = NoFrame]
    /\ InferGoto(c, "top")
    /\ UNCHANGED <<stageVars, pending_frame_, last_result_, stopper, bus,
                   handler, alarmVars>>

-----------------------------------------------------------------------------
(* ChannelPipeline::Stop joins the stage thread and calls Shutdown, which   *)
(* takes no mutex.  Shutdown drops engine_ and cascade_: a stage that is    *)
(* started again would only pass frames on, and its queue gives it none.    *)

JoinStage(c) ==
    /\ stage[c] = "idle" /\ stopper[c] = "none"
    /\ StageGoto(c, "joined")
    /\ stopper' = [stopper EXCEPT ![c] = "flag"]
    /\ UNCHANGED <<frames, counter, attached, inferVars, bus, handler,
                   alarmVars>>

SetShutdownInfer(c) ==
    /\ stopper[c] = "flag"
    /\ stopper' = [stopper EXCEPT ![c] = "notify"]
    /\ UNCHANGED <<stageVars, inferVars, bus, handler, alarmVars>>

NotifyShutdown(c) ==
    /\ stopper[c] = "notify"
    /\ InferGoto(c, Woken(c))
    /\ stopper' = [stopper EXCEPT ![c] = "join"]
    /\ UNCHANGED <<stageVars, pending_frame_, current, infer_running_,
                   last_result_, bus, handler, alarmVars>>

(* Mutant: the inference thread is left to itself.                          *)
DetachInfer(c) ==
    /\ stopper[c] = "join"
    /\ stopper' = [stopper EXCEPT ![c] = "done"]
    /\ UNCHANGED <<stageVars, inferVars, bus, handler, alarmVars>>

JoinInfer(c) ==
    /\ stopper[c] = "join" /\ infer[c] \in {"none", "exited"}
    /\ stopper' = [stopper EXCEPT ![c] = "done"]
    /\ UNCHANGED <<stageVars, inferVars, bus, handler, alarmVars>>

-----------------------------------------------------------------------------
(* EventBus::Publish keeps mutex_ while the handlers run.                   *)

(* "ai.detection" from an inference thread or from a cascade.               *)
Publish(c) ==
    /\ bus = NoOne
    /\ bus' = c
    /\ \/ infer[c] = "publish" /\ InferGoto(c, "inBus") /\ UNCHANGED stage
       \/ stage[c] = "publish" /\ StageGoto(c, "inBus") /\ UNCHANGED infer
    /\ HandlerAt("enter", {})
    /\ UNCHANGED <<frames, counter, attached, pending_frame_, current,
                   infer_running_, last_result_, stopper, alarmVars>>

(* "system.metrics": its handler sends the latest figures to the viewers.   *)
PublishMetrics ==
    /\ bus = NoOne
    /\ bus' = Monitor
    /\ UNCHANGED <<stageVars, inferVars, stopper, handler, alarmVars>>

MetricsPublished ==
    /\ bus = Monitor
    /\ bus' = NoOne
    /\ UNCHANGED <<stageVars, inferVars, stopper, handler, alarmVars>>

(* AlarmManager's handler, in the publisher's thread.  The other handler of *)
(* "ai.detection" writes the plate and face stores and nothing else.        *)

(* A rule's event type and confidence decide as well; the detection may     *)
(* meet them or not.                                                        *)
Matching ==
    {r \in rules : r.enabled /\ r.channel \in {EventChannel, AnyChannel}}

FetchRules ==
    /\ handler.pc = "enter"
    /\ \E m \in SUBSET Matching : HandlerAt("rules", {r.id : r \in m})
    /\ UNCHANGED <<stageVars, inferVars, stopper, bus, alarmVars>>

(* A rule with an entry passes once its cooldown has elapsed.               *)
CheckCooldown ==
    /\ handler.pc = "rules" /\ handler.todo # {}
    /\ \E elapsed \in BOOLEAN :
          LET id == Min(handler.todo)
          IN  IF id \notin lastTrigger \/ elapsed
              THEN HandlerAt("insert", handler.todo)
              ELSE HandlerAt("rules", handler.todo \ {id})
    /\ UNCHANGED <<stageVars, inferVars, stopper, bus, alarmVars>>

InsertAlarm ==
    /\ handler.pc = "insert"
    /\ alarms' = Append(alarms, [rule |-> Min(handler.todo),
                                 status |-> "kActive"])
    /\ HandlerAt("mark", handler.todo)
    /\ UNCHANGED <<stageVars, inferVars, stopper, bus, rules, nextRule,
                   lastTrigger>>

(* The cooldown starts, and Publish("alarm.triggered") waits for the mutex  *)
(* of the bus, which this thread holds: std::mutex is not recursive, so the *)
(* thread stays here and what follows the call is never reached.            *)
UpdateCooldown ==
    /\ handler.pc = "mark"
    /\ lastTrigger' = lastTrigger \union {Min(handler.todo)}
    /\ HandlerAt("nested", handler.todo)
    /\ UNCHANGED <<stageVars, inferVars, stopper, bus, rules, nextRule,
                   alarms>>

(* Mutant: an early return keeps the bus.                                   *)
PublishedKeepsBus ==
    /\ handler.pc = "rules" /\ handler.todo = {}
    /\ \/ /\ infer[bus] = "inBus" /\ InferGoto(bus, "finish")
          /\ UNCHANGED stage
       \/ /\ stage[bus] = "inBus" /\ StageGoto(bus, "idle")
          /\ UNCHANGED infer
    /\ handler' = NoHandler
    /\ UNCHANGED <<frames, counter, attached, pending_frame_, current, bus,
                   infer_running_, last_result_, stopper, alarmVars>>

(* The handlers have returned: Publish returns to its caller.               *)
Published ==
    /\ handler.pc = "rules" /\ handler.todo = {}
    /\ bus' = NoOne
    /\ \/ /\ infer[bus] = "inBus" /\ InferGoto(bus, "finish")
          /\ UNCHANGED stage
       \/ /\ stage[bus] = "inBus" /\ StageGoto(bus, "idle")
          /\ UNCHANGED infer
    /\ handler' = NoHandler
    /\ UNCHANGED <<frames, counter, attached, pending_frame_, current,
                   infer_running_, last_result_, stopper, alarmVars>>

-----------------------------------------------------------------------------
(* AlarmManager, the calls of the HTTP API: each one holds mutex_ for its   *)
(* whole body.                                                              *)

AddRule ==
    /\ nextRule =< MaxRules
    /\ \E ch \in RuleChannels, e \in BOOLEAN :
          rules' = rules \union {[id |-> nextRule, channel |-> ch,
                                  enabled |-> e]}
    /\ nextRule' = nextRule + 1
    /\ UNCHANGED <<stageVars, inferVars, stopper, bus, handler, alarms,
                   lastTrigger>>

UpdateRule(r) ==
    /\ \E ch \in RuleChannels, e \in BOOLEAN :
          rules' = (rules \ {r}) \union {[id |-> r.id, channel |-> ch,
                                          enabled |-> e]}
    /\ UNCHANGED <<stageVars, inferVars, stopper, bus, handler, nextRule,
                   alarms, lastTrigger>>

DeleteRule(r) ==
    /\ rules' = rules \ {r}
    /\ lastTrigger' = lastTrigger \ {r.id}
    /\ UNCHANGED <<stageVars, inferVars, stopper, bus, handler, nextRule,
                   alarms>>

AcknowledgeAlarm(a) ==
    /\ alarms[a].status = "kActive"
    /\ alarms' = [alarms EXCEPT ![a].status = "kAcknowledged"]
    /\ UNCHANGED <<stageVars, inferVars, stopper, bus, handler, rules,
                   nextRule, lastTrigger>>

DismissAlarm(a) ==
    /\ alarms' = [alarms EXCEPT ![a].status = "kDismissed"]
    /\ UNCHANGED <<stageVars, inferVars, stopper, bus, handler, rules,
                   nextRule, lastTrigger>>

AcknowledgeAll ==
    /\ alarms' = [a \in DOMAIN alarms |->
                    IF alarms[a].status = "kActive"
                    THEN [alarms[a] EXCEPT !.status = "kAcknowledged"]
                    ELSE alarms[a]]
    /\ UNCHANGED <<stageVars, inferVars, stopper, bus, handler, rules,
                   nextRule, lastTrigger>>

-----------------------------------------------------------------------------
StageThread(c) == ApplyResult(c) \/ TrySubmit(c) \/ Submit(c)

InferThread(c) ==
    \/ LoopTest(c) \/ WaitPredicate(c) \/ Block(c) \/ Infer(c)
    \/ StoreResult(c) \/ LockResult(c) \/ Finish(c)

StopCall(c) == SetShutdownInfer(c) \/ NotifyShutdown(c) \/ JoinInfer(c)

HandlerStep ==
    FetchRules \/ CheckCooldown \/ InsertAlarm \/ UpdateCooldown \/ Published

RuleCall ==
    AddRule \/ \E r \in rules : UpdateRule(r) \/ DeleteRule(r)

AlarmCall ==
    \/ \E a \in DOMAIN alarms : AcknowledgeAlarm(a) \/ DismissAlarm(a)
    \/ AcknowledgeAll

Next ==
    \/ \E c \in Channels :
          \/ ProcessFrame(c) \/ InferCascade(c) \/ StageThread(c)
          \/ InferThread(c) \/ JoinStage(c) \/ StopCall(c) \/ Publish(c)
    \/ PublishMetrics \/ MetricsPublished \/ HandlerStep
    \/ RuleCall \/ AlarmCall

(* The threads the program started run; a thread that waits for the bus     *)
(* gets it if it is free again and again.                                   *)
Fairness ==
    /\ \A c \in Channels :
          /\ WF_vars(StageThread(c)) /\ WF_vars(InferThread(c))
          /\ WF_vars(StopCall(c)) /\ SF_vars(Publish(c))
    /\ WF_vars(MetricsPublished) /\ WF_vars(HandlerStep)

Spec == Init /\ [][Next]_vars /\ Fairness

-----------------------------------------------------------------------------
(* The frame in pending_frame_ is never replaced by another before the      *)
(* inference thread took it: the flag infer_running_, which is no mutex,    *)
(* keeps the stage thread away from the slot until the inference is over.   *)
SlotKept ==
    [][\A c \in Channels :
          pending_frame_[c] # NoFrame =>
              pending_frame_'[c] \in {pending_frame_[c], NoFrame}]_vars

(* Frames leave the stage with results that never go back to an older       *)
(* frame, and with a result of a frame before them, although two threads    *)
(* write and read it.                                                       *)
ResultsInOrder ==
    [][\A c \in Channels :
          attached'[c] # attached[c] =>
              attached[c] < attached'[c] /\ attached'[c] < frames'[c]]_vars

(* What the proof of ResultsInOrder rests on: the frames are in the order   *)
(* result attached, latest result, frame in inference or in the slot, frame *)
(* in the stage thread's hand.                                              *)
FramesOrdered ==
    \A c \in Channels :
        /\ attached[c] =< last_result_[c] /\ last_result_[c] =< frames[c]
        /\ pending_frame_[c] =< frames[c] /\ current[c] =< frames[c]
        /\ pending_frame_[c] # NoFrame => last_result_[c] < pending_frame_[c]
        /\ infer[c] \in {"infer", "store"} => last_result_[c] < current[c]
        /\ stage[c] \in {"apply", "trySubmit", "submit"} =>
               /\ last_result_[c] < frames[c]
               /\ pending_frame_[c] < frames[c] /\ current[c] < frames[c]

(* infer_running_ is not lost: a stage whose worker took a frame may submit *)
(* another one some time, unless it is shut down or an alarm blocked it.    *)
InferenceAnswers ==
    \A c \in Channels \ Cascaded :
        infer_running_[c] ~>
            (~infer_running_[c] \/ ShutdownInfer(c) \/ alarms # <<>>)

(* The bus is free again after every event, whichever threads publish and   *)
(* wait for it, unless a handler raises an alarm.                           *)
BusReleased == (bus # NoOne) ~> (bus = NoOne \/ alarms # <<>>)

(* The protocol of the flag: the slot, the stage thread that is about to    *)
(* fill it and the inference thread that emptied it exclude each other, and *)
(* each of them needs infer_running_.                                       *)
Working == {"infer", "store", "lockResult", "publish", "inBus", "finish"}

Handshake ==
    \A c \in Channels :
        /\ ~infer_running_[c] => /\ stage[c] # "submit"
                                 /\ pending_frame_[c] = NoFrame
                                 /\ infer[c] \notin Working
        /\ stage[c] = "submit" => /\ pending_frame_[c] = NoFrame
                                  /\ infer[c] \notin Working
        /\ pending_frame_[c] # NoFrame => infer[c] \notin Working
        /\ infer[c] \in Working <=> current[c] # NoFrame

(* When Shutdown has returned, no thread of the stage is left that could    *)
(* use the engine that was released.                                        *)
ShutdownIsFinal ==
    \A c \in Channels :
        stopper[c] = "done" => infer[c] \in {"none", "exited"} /\ bus # c

(* "publishes "alarm.triggered" events for WebSocket notification"          *)
(* (alarm_manager.h): an alarm that was stored is published.                *)
AlarmPublished == (handler.pc = "nested") ~> (handler.pc # "nested")

(* "Shutdown the stage, releasing all resources." (pipeline_stage.h): the   *)
(* call returns, in a system where no alarm blocks the bus.                 *)
ShutdownReturns ==
    \A c \in Channels :
        (stopper[c] # "none") ~> (stopper[c] \in {"done", "none"})
=============================================================================
