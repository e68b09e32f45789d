----------------------- MODULE ChannelPipelineProofs -----------------------
(* ChannelPipeline for every number of stages, every queue capacity, batch  *)
(* size and codec delay and every number of packets.                        *)
EXTENDS ChannelPipeline, StageQueueOpsProofs, SumProofs

USE DEF Source, Decode, Output

Ids == Nat \ {0}

(* The first stages and the last one are stages, with a next in between.    *)
LEMMA StageFacts ==
    /\ N \in Stages /\ 1 \in Stages /\ 2 \in Stages
    /\ Stages \subseteq Nat /\ CodecStages \subseteq Stages
    /\ \A i \in Stages : i # N => i + 1 \in Stages
BY PipelineAssumption DEF Stages, CodecStages

(* The frames of a queue or a batch have ids.                               *)
LEMMA IdSetType == ASSUME NEW s \in Seq(Frames) PROVE IdSet(s) \in SUBSET Ids
<1>1. \A k \in 1..Len(s) : s[k] \in Frames
  BY ElementOfSeq
<1> QED BY <1>1 DEF IdSet, Frames, Ids

(* Taking the first element off.                                            *)
LEMMA SeqTails ==
    ASSUME NEW S, NEW s \in Seq(S), s # <<>>
    PROVE  Head(s) \in S /\ Tail(s) \in Seq(S)
OBVIOUS

(* Replacing one queue by what Push leaves keeps the array of queues well   *)
(* formed.                                                                  *)
LEMMA PushType ==
    ASSUME queue \in [Stages -> Queues(Frames)], NEW i \in Stages,
           NEW f \in Frames, NEW r \in Push(queue[i], f)
    PROVE  [queue EXCEPT ![i] = r.queue] \in [Stages -> Queues(Frames)]
<1>1. queue[i] \in Queues(Frames)
  OBVIOUS
<1>2. r.queue \in Queues(Frames)
  BY <1>1, PushOutcome
<1> QED BY <1>2

LostSets == [door : SUBSET Ids, inside : SUBSET Ids, stage : SUBSET Ids]

(* The books of lost frames hold ids.                                       *)
LEMMA LostType ==
    ASSUME lost \in LostSets, NEW ids \in SUBSET Ids,
           LoseAtDoor(ids) \/ LoseInside(ids) \/ LoseInStage(ids)
    PROVE  lost' \in LostSets
BY DEF LostSets, LoseAtDoor, LoseInside, LoseInStage

-----------------------------------------------------------------------------
CtlType == [pc : CtlPoints, k : Nat, polls : Nat]

InLoop(c) ==
    c.pc \in {"draining", "shutdownQueues", "join", "shutdownStages"}
        => c.k \in Stages

(* Points of Start and DrainAndStop outside the loops over the stages.      *)
LEMMA CtlAtRest ==
    ASSUME NEW pc \in {"idle", "opening", "stopSource", "clearRunning"}
    PROVE  CtlAt(pc, 0, 0) \in CtlType /\ InLoop(CtlAt(pc, 0, 0))
BY DEF CtlAt, CtlType, InLoop, CtlPoints

(* Points inside those loops.                                               *)
LEMMA CtlAtStage ==
    ASSUME NEW pc \in CtlPoints, NEW k \in Stages, NEW polls \in Nat
    PROVE  CtlAt(pc, k, polls) \in CtlType /\ InLoop(CtlAt(pc, k, polls))
BY StageFacts DEF CtlAt, CtlType, InLoop

(* What every step keeps about the threads and the call in progress, enough *)
(* for the type of the state: a busy worker has a frame in hand, a worker   *)
(* inside a codec belongs to a codec stage, and the loops over the stages   *)
(* stay inside the array.                                                   *)
InHand ==
    /\ InLoop(ctl)
    /\ \A i \in Stages :
          /\ worker[i] = "busy" => hand[i] # <<>>
          /\ worker[i] = "inCodec" => i \in CodecStages

(* Initialize, Start, DrainAndStop and what else callers do.                *)
LEMMA ApiStep ==
    ASSUME TypeOK, InHand, ApiCall
    PROVE  TypeOK' /\ InHand'
<1> USE StageFacts
<1>1. CASE Initialize
  <2>1. initialized' \in SUBSET CodecStages
    BY <1>1 DEF Initialize, TypeOK
  <2> QED BY <1>1, <2>1
      DEF Initialize, TypeOK, CtlType, InHand, threadVars, streamVars
<1>2. CASE Start
  BY <1>2 DEF Start, TypeOK, InHand, InLoop, CtlAt, CtlPoints, streamVars
<1>3. CASE Stop
  BY <1>3 DEF Stop, TypeOK, InHand, InLoop, CtlAt, CtlPoints, threadVars, streamVars
<1>4. CASE DrainAndStop
  BY <1>4 DEF DrainAndStop, TypeOK, InHand, InLoop, CtlAt, CtlPoints, threadVars,
              streamVars
<1> QED BY <1>1, <1>2, <1>3, <1>4 DEF ApiCall

(* One frame out of a codec, into the next queue or to the viewers.         *)
LEMMA EmitType ==
    ASSUME TypeOK, NEW i \in Stages, EmitFromCodec(i)
    PROVE  /\ codec' \in [Stages -> Seq(Frames)]
           /\ queue' \in [Stages -> Queues(Frames)]
           /\ delivered' \in Seq(Ids)
           /\ lost' \in LostSets
<1> DEFINE f == Head(codec[i])
           decoded == [id |-> f.id, ch |-> NoChannel, key |-> f.key]
<1>1. codec[i] \in Seq(Frames) /\ codec[i] # <<>>
  BY DEF TypeOK, EmitFromCodec
<1>2. f \in Frames /\ Tail(codec[i]) \in Seq(Frames)
  BY <1>1, SeqTails
<1>3. decoded \in Frames /\ f.id \in Ids
  BY <1>2 DEF Frames, Ids
<1>4. codec' \in [Stages -> Seq(Frames)]
  BY <1>2 DEF EmitFromCodec, TypeOK
<1>5. CASE i = N
  <2>1. delivered' = Append(delivered, f.id) /\ UNCHANGED <<queue, lost>>
    BY <1>5 DEF EmitFromCodec
  <2>2. delivered \in Seq(Ids)
    BY DEF TypeOK, Ids
  <2>3. delivered' \in Seq(Ids)
    BY <2>1, <2>2, <1>3, AppendProperties
  <2> QED BY <1>4, <2>1, <2>3 DEF TypeOK, Ids, LostSets
<1>6. CASE i # N
  <2>1. i + 1 \in Stages
    BY <1>6, StageFacts
  <2>2. \/ \E r \in Push(queue[i + 1], decoded) :
              queue' = [queue EXCEPT ![i + 1] = r.queue]
        \/ queue' = queue
    BY <1>6 DEF EmitFromCodec
  <2>3. queue' \in [Stages -> Queues(Frames)]
    <3>1. CASE queue' = queue
      BY <3>1 DEF TypeOK
    <3>2. ASSUME NEW r \in Push(queue[i + 1], decoded),
                 queue' = [queue EXCEPT ![i + 1] = r.queue]
          PROVE  queue' \in [Stages -> Queues(Frames)]
      BY <1>3, <2>1, <3>2, PushType DEF TypeOK
    <3> QED BY <2>2, <3>1, <3>2
  <2>4. \E ids \in SUBSET Ids : LoseInside(ids) \/ LoseInStage(ids)
    BY <1>3, <1>6 DEF EmitFromCodec
  <2>5. lost' \in LostSets
    BY <2>4, LostType DEF LostSets, TypeOK, Ids
  <2>6. delivered' = delivered
    BY <1>6 DEF EmitFromCodec
  <2> QED BY <1>4, <2>3, <2>5, <2>6 DEF TypeOK, Ids, LostSets
<1> QED BY <1>5, <1>6

(* The steps of the call in progress.                                       *)
LEMMA CtlStepType ==
    ASSUME TypeOK, InHand, CtlStep
    PROVE  TypeOK' /\ InHand'
<1> USE StageFacts
<1>1. CASE OnPipelineStart
  BY <1>1 DEF OnPipelineStart, TypeOK, InHand, InLoop, CtlAt, CtlPoints, threadVars,
              streamVars
<1>2. CASE DrainPoll
  <2>1. ctl' \in CtlType /\ InLoop(ctl')
    <3>1. ctl.k \in Stages /\ ctl.polls \in Nat
      BY <1>2 DEF DrainPoll, TypeOK, InHand, InLoop
    <3>2. \/ ctl' = CtlAt("stopSource", 0, 0)
          \/ ctl.k # N /\ ctl' = CtlAt("draining", ctl.k + 1, ctl.polls)
          \/ ctl' = CtlAt("draining", 1, ctl.polls + 1)
      BY <1>2 DEF DrainPoll
    <3>3. /\ CtlAt("stopSource", 0, 0) \in CtlType
          /\ InLoop(CtlAt("stopSource", 0, 0))
      BY CtlAtRest
    <3>4. ctl.k # N => /\ CtlAt("draining", ctl.k + 1, ctl.polls) \in CtlType
                       /\ InLoop(CtlAt("draining", ctl.k + 1, ctl.polls))
      BY <3>1, CtlAtStage DEF CtlPoints
    <3>5. /\ CtlAt("draining", 1, ctl.polls + 1) \in CtlType
          /\ InLoop(CtlAt("draining", 1, ctl.polls + 1))
      BY <3>1, CtlAtStage DEF CtlPoints
    <3> QED BY <3>2, <3>3, <3>4, <3>5
  <2> QED BY <1>2, <2>1 DEF DrainPoll, TypeOK, CtlType, InHand, threadVars, streamVars
<1>3. CASE OnPipelineStop
  BY <1>3 DEF OnPipelineStop, TypeOK, InHand, InLoop, CtlAt, CtlPoints, threadVars,
              streamVars
<1>4. CASE ClearRunning
  BY <1>4 DEF ClearRunning, TypeOK, InHand, InLoop, CtlAt, CtlPoints, threadVars,
              streamVars
<1>5. CASE ShutdownQueues
  <2>1. ctl' \in CtlType /\ InLoop(ctl')
    BY <1>5, CtlAtStage DEF ShutdownQueues, InHand, InLoop, CtlPoints
  <2>2. queue[ctl.k] \in Queues(Frames)
    BY <1>5 DEF ShutdownQueues, TypeOK, InHand, InLoop
  <2>3. Shutdown(queue[ctl.k]) \in Queues(Frames)
    BY <2>2 DEF Shutdown, Queues
  <2>4. queue' \in [Stages -> Queues(Frames)]
    BY <1>5, <2>3 DEF ShutdownQueues, TypeOK
  <2> QED BY <1>5, <2>1, <2>4
      DEF ShutdownQueues, TypeOK, CtlType, InHand, threadVars, streamVars
<1>6. CASE JoinWorkers
  <2>1. ctl' \in CtlType /\ InLoop(ctl')
    BY <1>6, CtlAtStage DEF JoinWorkers, InHand, InLoop, CtlPoints
  <2> QED BY <1>6, <2>1 DEF JoinWorkers, TypeOK, CtlType, InHand, streamVars
<1>7. CASE ShutdownStages
  <2>1. /\ running_' = running_ /\ worker' = worker /\ hand' = hand
        /\ pulling' = pulling /\ produced' = produced /\ ctl.k \in Stages
    BY <1>7 DEF ShutdownStages, InHand, InLoop
  <2>2. CASE codec[ctl.k] # <<>>
    <3>1. EmitFromCodec(ctl.k) /\ UNCHANGED <<ctl, initialized, state_>>
      BY <1>7, <2>2 DEF ShutdownStages
    <3> QED BY <2>1, <3>1, EmitType DEF TypeOK, InHand, Ids, LostSets
  <2>3. CASE codec[ctl.k] = <<>>
    <3>1. /\ initialized' = initialized \ {ctl.k}
          /\ UNCHANGED <<queue, codec, delivered, lost>>
          /\ \/ state_' = "kStopped" /\ ctl' = CtlAt("idle", 0, 0)
             \/ /\ ctl.k < N /\ state_' = state_
                /\ ctl' = CtlAt("shutdownStages", ctl.k + 1, 0)
      BY <1>7, <2>3 DEF ShutdownStages, EmitFromCodec
    <3>2. ctl.k < N => ctl.k + 1 \in Stages
      BY <2>1, PipelineAssumption DEF Stages
    <3>3. ctl' \in CtlType /\ InLoop(ctl')
      BY <3>1, <3>2, CtlAtRest, CtlAtStage DEF CtlPoints
    <3>4. InHand'
      BY <2>1, <3>3 DEF InHand
    <3>5. initialized' \in SUBSET CodecStages
      BY <3>1 DEF TypeOK
    <3> QED BY <2>1, <3>1, <3>3, <3>4, <3>5 DEF TypeOK, CtlType
  <2> QED BY <2>2, <2>3
<1> QED BY <1>1, <1>2, <1>3, <1>4, <1>5, <1>6, <1>7 DEF CtlStep

(* A packet arrives from the source.                                        *)
LEMMA PacketType ==
    ASSUME TypeOK, InHand, NEW isKey \in BOOLEAN, OnPacket(isKey)
    PROVE  TypeOK' /\ InHand'
<1> DEFINE f == [id |-> produced + 1, ch |-> ChannelId, key |-> isKey]
<1>1. f \in Frames /\ f.id \in Ids
  BY DEF TypeOK, Frames, Ids
<1>2. PICK r \in Push(queue[Source + 1], f) :
         queue' = [queue EXCEPT ![Source + 1] = r.queue]
  BY DEF OnPacket
<1>3. queue' \in [Stages -> Queues(Frames)]
  <2>1. Source + 1 \in Stages
    BY StageFacts
  <2> QED BY <1>1, <1>2, <2>1, PushType DEF TypeOK
<1>4. PICK ids \in SUBSET Ids : LoseAtDoor(ids)
  BY <1>1 DEF OnPacket
<1>5. lost' \in LostSets
  BY <1>4, LostType DEF LostSets, TypeOK, Ids
<1>6. produced' \in Nat
  BY DEF OnPacket, TypeOK
<1> QED BY <1>3, <1>5, <1>6
    DEF OnPacket, TypeOK, InHand, InLoop, threadVars, Ids, LostSets

(* The end of a batch and of a frame, for the variables of the workers.     *)
LEMMA FrameDoneType ==
    ASSUME TypeOK, InHand, NEW i \in Stages, NEW rest \in Seq(Frames),
           FrameDone(i, rest)
    PROVE  /\ worker' \in [Stages -> {"none", "idle", "busy", "inCodec", "exited"}]
           /\ hand' \in [Stages -> Seq(Frames)]
           /\ \A j \in Stages : /\ worker'[j] = "busy" => hand'[j] # <<>>
                                /\ worker'[j] = "inCodec" => j \in CodecStages
<1>1. CASE rest = <<>>
  BY <1>1 DEF FrameDone, TypeOK, InHand
<1>2. CASE rest # <<>>
  BY <1>2 DEF FrameDone, TypeOK, InHand
<1> QED BY <1>1, <1>2

(* A worker drops the batch its stage failed on.                            *)
LEMMA BatchFailedType ==
    ASSUME TypeOK, InHand, NEW i \in Stages, BatchFailed(i)
    PROVE  /\ worker' \in [Stages -> {"none", "idle", "busy", "inCodec", "exited"}]
           /\ hand' \in [Stages -> Seq(Frames)]
           /\ \A j \in Stages : /\ worker'[j] = "busy" => hand'[j] # <<>>
                                /\ worker'[j] = "inCodec" => j \in CodecStages
BY DEF BatchFailed, TypeOK, InHand

(* The steps of the workers.                                                *)
LEMMA WorkerType ==
    ASSUME TypeOK, InHand, NEW i \in Stages, WorkerStep(i)
    PROVE  TypeOK' /\ InHand'
<1>0. hand[i] \in Seq(Frames) /\ codec[i] \in Seq(Frames)
        /\ queue[i] \in Queues(Frames)
  BY DEF TypeOK
<1>1. CASE WorkerPop(i)
  <2>1. PICK n \in {1, BatchSize[i]} :
           /\ hand' = [hand EXCEPT ![i] = Popped(queue[i], n)]
           /\ queue' = [queue EXCEPT ![i] = AfterPop(queue[i], n)]
    BY <1>1 DEF WorkerPop
  <2>2. n \in Nat \ {0} /\ ~Empty(queue[i])
    BY <1>1, PipelineAssumption DEF WorkerPop
  <2>3. /\ PopCount(queue[i], n) \in 1..Len(queue[i].frames)
        /\ Popped(queue[i], n) \in Seq(Frames)
        /\ Len(Popped(queue[i], n)) = PopCount(queue[i], n)
        /\ AfterPop(queue[i], n) \in Queues(Frames)
    BY <1>0, <2>2, PopOutcome
  <2>4. Popped(queue[i], n) # <<>>
    <3>1. Len(queue[i].frames) \in Nat
      BY <1>0 DEF Queues
    <3>2. PopCount(queue[i], n) > 0 /\ PopCount(queue[i], n) \in Nat
      BY <2>3, <3>1
    <3> QED BY <2>3, <3>2, EmptySeq
  <2>5. /\ hand' \in [Stages -> Seq(Frames)]
        /\ queue' \in [Stages -> Queues(Frames)]
    BY <2>1, <2>3, <2>4 DEF TypeOK
  <2>6. /\ worker' = [worker EXCEPT ![i] = "busy"]
        /\ UNCHANGED <<state_, running_, initialized, codec, pulling, ctl, streamVars>>
    BY <1>1 DEF WorkerPop
  <2>7. worker' \in [Stages -> {"none", "idle", "busy", "inCodec", "exited"}]
    BY <2>6 DEF TypeOK
  <2>8. \A j \in Stages : /\ worker'[j] = "busy" => hand'[j] # <<>>
                          /\ worker'[j] = "inCodec" => j \in CodecStages
    BY <2>1, <2>4, <2>6 DEF TypeOK, InHand
  <2> QED BY <2>5, <2>6, <2>7, <2>8 DEF TypeOK, InHand, InLoop, streamVars
<1>2. CASE Forward(i)
  <2>1. worker[i] = "busy" /\ i # N /\ i + 1 \in Stages
    BY <1>2, StageFacts DEF Forward, CodecStages
  <2>2. Head(hand[i]) \in Frames /\ Tail(hand[i]) \in Seq(Frames)
    BY <1>0, <2>1, SeqTails DEF InHand
  <2>3. PICK r \in Push(queue[i + 1], Head(hand[i])) :
           /\ queue' = [queue EXCEPT ![i + 1] = r.queue]
           /\ \/ FrameDone(i, Tail(hand[i])) /\ UNCHANGED lost
              \/ /\ BatchFailed(i)
                 /\ \/ LoseInside(IdSet(hand[i]))
                    \/ LoseInStage(IdSet(Tail(hand[i])))
    BY <1>2 DEF Forward
  <2>4. queue' \in [Stages -> Queues(Frames)]
    BY <2>1, <2>2, <2>3, PushType DEF TypeOK
  <2>5. IdSet(hand[i]) \in SUBSET Ids /\ IdSet(Tail(hand[i])) \in SUBSET Ids
    BY <1>0, <2>2, IdSetType
  <2>6. lost' \in LostSets
    <3>1. lost \in LostSets
      BY DEF TypeOK, LostSets, Ids
    <3> QED BY <3>1, <2>3, <2>5, LostType
  <2>7. UNCHANGED <<state_, running_, initialized, codec, pulling, ctl,
                    produced, delivered>>
    BY <1>2 DEF Forward
  <2>8. CASE FrameDone(i, Tail(hand[i]))
    BY <2>2, <2>4, <2>6, <2>7, <2>8, FrameDoneType DEF TypeOK, InHand, InLoop, Ids, LostSets
  <2>9. CASE BatchFailed(i)
    BY <2>4, <2>6, <2>7, <2>9, BatchFailedType DEF TypeOK, InHand, InLoop, Ids, LostSets
  <2> QED BY <2>3, <2>8, <2>9
<1>3. CASE EnterCodec(i)
  <2>1. worker[i] = "busy" /\ i \in CodecStages
    BY <1>3 DEF EnterCodec, TypeOK
  <2>2. Head(hand[i]) \in Frames /\ Tail(hand[i]) \in Seq(Frames)
    BY <1>0, <2>1, SeqTails DEF InHand
  <2>3. /\ Append(codec[i], Head(hand[i])) \in Seq(Frames)
        /\ <<Head(hand[i])>> \in Seq(Frames)
        /\ IdSet(codec[i]) \in SUBSET Ids
    BY <1>0, <2>2, IdSetType, AppendProperties
  <2>4. codec' \in [Stages -> Seq(Frames)]
    BY <1>3, <2>3 DEF EnterCodec, TypeOK
  <2>5. lost' \in LostSets
    <3>1. lost \in LostSets
      BY DEF TypeOK, LostSets, Ids
    <3>2. lost' = lost \/ LoseInStage(IdSet(codec[i]))
      BY <1>3 DEF EnterCodec
    <3> QED BY <3>1, <3>2, <2>3, LostType
  <2>6. /\ hand' = [hand EXCEPT ![i] = Tail(@)]
        /\ worker' = [worker EXCEPT ![i] = "inCodec"]
        /\ UNCHANGED <<state_, running_, initialized, queue, pulling, ctl, produced, delivered>>
    BY <1>3 DEF EnterCodec
  <2>7. hand' \in [Stages -> Seq(Frames)]
          /\ worker' \in [Stages -> {"none", "idle", "busy", "inCodec", "exited"}]
    BY <2>2, <2>6 DEF TypeOK
  <2>8. \A j \in Stages : /\ worker'[j] = "busy" => hand'[j] # <<>>
                          /\ worker'[j] = "inCodec" => j \in CodecStages
    BY <2>1, <2>6 DEF TypeOK, InHand
  <2> QED BY <2>4, <2>5, <2>6, <2>7, <2>8 DEF TypeOK, InHand, InLoop, Ids, LostSets
<1>4. CASE EmitFrame(i)
  BY <1>4, EmitType DEF EmitFrame, TypeOK, InHand, InLoop, Ids, LostSets
<1>5. CASE LeaveCodec(i)
  BY <1>0, <1>5, FrameDoneType
  DEF LeaveCodec, TypeOK, InHand, InLoop, streamVars
<1>6. CASE CodecFails(i)
  <2>1. IdSet(hand[i]) \in SUBSET Ids
    BY <1>0, IdSetType
  <2>2. lost' \in LostSets
    <3>1. lost \in LostSets
      BY DEF TypeOK, LostSets, Ids
    <3> QED BY <1>6, <3>1, <2>1, LostType DEF CodecFails
  <2> QED BY <1>6, <2>2, BatchFailedType DEF CodecFails, TypeOK, InHand, InLoop, Ids, LostSets
<1>7. CASE WorkerExit(i)
  BY <1>7 DEF WorkerExit, TypeOK, InHand, InLoop, streamVars
<1> QED BY <1>1, <1>2, <1>3, <1>4, <1>5, <1>6, <1>7 DEF WorkerStep

(* The pipeline as it is constructed.                                       *)
LEMMA InitType == Init => TypeOK /\ InHand
<1> SUFFICES ASSUME Init PROVE TypeOK /\ InHand
  OBVIOUS
<1>1. \A i \in Stages : NewQueue(Capacity[i]) \in Queues(Frames)
  BY PipelineAssumption DEF NewQueue, Queues
<1>2. queue \in [Stages -> Queues(Frames)]
  BY <1>1 DEF Init
<1>3. /\ hand \in [Stages -> Seq(Frames)] /\ codec \in [Stages -> Seq(Frames)]
      /\ worker \in [Stages -> {"none", "idle", "busy", "inCodec", "exited"}]
  BY DEF Init
<1>4. ctl \in [pc : CtlPoints, k : Nat, polls : Nat] /\ InHand
  BY <1>3 DEF Init, CtlAt, CtlPoints, InHand, InLoop
<1>5. lost \in [door : SUBSET (Nat \ {0}), inside : SUBSET (Nat \ {0}),
                stage : SUBSET (Nat \ {0})]
  BY DEF Init
<1>6. /\ state_ = "kCreated" /\ running_ \in BOOLEAN /\ pulling \in BOOLEAN
      /\ initialized \in SUBSET CodecStages
      /\ produced \in Nat
  BY DEF Init
<1>7. delivered \in Seq(Nat \ {0})
  BY DEF Init
<1>8. TypeOK
  BY <1>2, <1>3, <1>4, <1>5, <1>6, <1>7, Zenon DEF TypeOK
<1> QED BY <1>4, <1>8

(* Every step keeps the types and what the threads have in hand.            *)
LEMMA TypeStep == TypeOK /\ InHand /\ [Next]_vars => TypeOK' /\ InHand'
<1> SUFFICES ASSUME TypeOK, InHand, [Next]_vars PROVE TypeOK' /\ InHand'
  OBVIOUS
<1>1. CASE UNCHANGED vars
  BY <1>1 DEF vars, TypeOK, InHand, InLoop
<1> QED BY <1>1, ApiStep, CtlStepType, PacketType, WorkerType DEF Next

(* The pipeline keeps its type whatever calls, packets and worker steps     *)
(* interleave; in particular no worker reads the front of an empty batch    *)
(* and no loop of Stop or DrainAndStop leaves the stage array.              *)
THEOREM TypeCorrect == Spec => []TypeOK
<1>1. Init => TypeOK /\ InHand
  BY InitType
<1>2. TypeOK /\ InHand /\ [Next]_vars => TypeOK' /\ InHand'
  BY TypeStep
<1> QED BY <1>1, <1>2, PTL DEF Spec

-----------------------------------------------------------------------------
(* The inductive invariant behind StoppedIsQuiet: running_ as a function of *)
(* the step Stop has reached, when the source may be open, and what each    *)
(* worker and codec may hold at that step.                                  *)
CallInv ==
    /\ ctl.pc \in {"opening", "draining", "stopSource", "clearRunning"} => running_
    /\ ctl.pc \in {"shutdownQueues", "join", "shutdownStages"} => ~running_
    /\ pulling => running_ /\ ctl.pc \in {"idle", "draining", "stopSource"}

StageInv(i) ==
    /\ worker[i] \in {"none", "idle", "exited"} => hand[i] = <<>>
    /\ i \notin CodecStages => codec[i] = <<>>
    /\ running_ => worker[i] \in {"idle", "busy", "inCodec"}
    /\ ctl.pc = "idle" /\ ~running_ => worker[i] = "none" /\ codec[i] = <<>>
    /\ ctl.pc = "shutdownQueues" => worker[i] # "none"
    /\ ctl.pc = "join" => (worker[i] = "none" <=> i < ctl.k)
    /\ ctl.pc = "shutdownStages" =>
          worker[i] = "none" /\ (i < ctl.k => codec[i] = <<>>)

QuietInv == CallInv /\ \A i \in Stages : StageInv(i)

(* Before the first Start no worker runs and no codec holds frames.         *)
LEMMA QuietInit == Init => QuietInv
BY DEF Init, QuietInv, CallInv, StageInv, CtlAt

(* Calls that begin keep QuietInv.                                          *)
LEMMA QuietApi ==
    ASSUME TypeOK, InHand, QuietInv, ApiCall
    PROVE  QuietInv'
<1>1. CASE Initialize
  BY <1>1 DEF Initialize, QuietInv, CallInv, StageInv, threadVars
<1>2. CASE Start
  <2>1. /\ running_' = TRUE /\ ctl' = CtlAt("opening", 0, 0)
        /\ worker' = [j \in Stages |-> "idle"]
        /\ UNCHANGED <<hand, codec, pulling>> /\ ctl.pc = "idle" /\ ~running_
    BY <1>2 DEF Start
  <2>2. CallInv'
    BY <2>1 DEF QuietInv, CallInv, CtlAt
  <2>3. ASSUME NEW i \in Stages PROVE StageInv(i)'
    BY <2>1 DEF QuietInv, StageInv, CtlAt
  <2> QED BY <2>2, <2>3 DEF QuietInv
<1>3. CASE Stop
  BY <1>3 DEF Stop, QuietInv, CallInv, StageInv, CtlAt, threadVars
<1>4. CASE DrainAndStop
  BY <1>4 DEF DrainAndStop, QuietInv, CallInv, StageInv, CtlAt, threadVars
<1> QED BY <1>1, <1>2, <1>3, <1>4 DEF ApiCall

(* So do the steps of the call in progress.                                 *)
LEMMA QuietCtl ==
    ASSUME TypeOK, InHand, QuietInv, CtlStep
    PROVE  QuietInv'
<1> USE StageFacts
<1>1. CASE OnPipelineStart
  BY <1>1 DEF OnPipelineStart, QuietInv, CallInv, StageInv, CtlAt, threadVars
<1>2. CASE DrainPoll
  <2>1. ctl'.pc \in {"draining", "stopSource"} /\ ctl.pc = "draining"
    BY <1>2 DEF DrainPoll, CtlAt
  <2> QED BY <1>2, <2>1 DEF DrainPoll, QuietInv, CallInv, StageInv, threadVars
<1>3. CASE OnPipelineStop
  BY <1>3 DEF OnPipelineStop, QuietInv, CallInv, StageInv, CtlAt, threadVars
<1>4. CASE ClearRunning
  BY <1>4 DEF ClearRunning, QuietInv, CallInv, StageInv, CtlAt, threadVars
<1>5. CASE ShutdownQueues
  <2>1. /\ ctl.pc = "shutdownQueues"
        /\ UNCHANGED <<running_, pulling, worker, hand, codec>>
        /\ \/ ctl' = CtlAt("join", 1, 0)
           \/ ctl' = CtlAt("shutdownQueues", ctl.k + 1, 0)
    BY <1>5 DEF ShutdownQueues, threadVars
  <2>2. CallInv'
    BY <2>1 DEF QuietInv, CallInv, CtlAt
  <2>3. ASSUME NEW i \in Stages PROVE StageInv(i)'
    <3>1. ~(i < 1)
      BY DEF Stages
    <3>2. ~running_ /\ worker[i] # "none" /\ StageInv(i)
      BY <2>1 DEF QuietInv, CallInv, StageInv
    <3>3. CASE ctl' = CtlAt("join", 1, 0)
      BY <2>1, <3>1, <3>2, <3>3 DEF StageInv, CtlAt
    <3>4. CASE ctl' = CtlAt("shutdownQueues", ctl.k + 1, 0)
      BY <2>1, <3>2, <3>4 DEF StageInv, CtlAt
    <3> QED BY <2>1, <3>3, <3>4
  <2> QED BY <2>2, <2>3 DEF QuietInv
<1>6. CASE JoinWorkers
  <2>1. /\ ctl.pc = "join" /\ worker[ctl.k] = "exited" /\ ctl.k \in Stages
        /\ worker' = [worker EXCEPT ![ctl.k] = "none"]
        /\ UNCHANGED <<running_, pulling, hand, codec>>
        /\ \/ ctl.k = N /\ ctl' = CtlAt("shutdownStages", 1, 0)
           \/ ctl' = CtlAt("join", ctl.k + 1, 0)
    BY <1>6 DEF JoinWorkers, InHand, InLoop
  <2>2. CallInv'
    BY <2>1 DEF QuietInv, CallInv, CtlAt
  <2>3. ASSUME NEW i \in Stages PROVE StageInv(i)'
    <3>1. /\ ~(i < 1) /\ (i < N \/ i = N)
          /\ (i < ctl.k + 1 <=> i < ctl.k \/ i = ctl.k)
      BY <2>1, PipelineAssumption DEF Stages
    <3>2. worker'[i] = IF i = ctl.k THEN "none" ELSE worker[i]
      BY <2>1 DEF TypeOK
    <3>3. worker[i] = "none" <=> i < ctl.k
      BY <2>1 DEF QuietInv, StageInv
    <3>4. ~running_ /\ StageInv(i) /\ hand[ctl.k] = <<>>
      BY <2>1 DEF QuietInv, CallInv, StageInv
    <3> QED BY <2>1, <3>1, <3>2, <3>3, <3>4 DEF StageInv, CtlAt
  <2> QED BY <2>2, <2>3 DEF QuietInv
<1>7. CASE ShutdownStages
  <2>1. /\ ctl.pc = "shutdownStages" /\ ctl.k \in Stages /\ ~running_
        /\ UNCHANGED <<running_, worker, hand, pulling>>
    BY <1>7 DEF ShutdownStages, InHand, InLoop, QuietInv, CallInv
  <2>2. CASE codec[ctl.k] # <<>>
    <3>1. ctl' = ctl /\ codec' = [codec EXCEPT ![ctl.k] = Tail(@)]
      BY <1>7, <2>2 DEF ShutdownStages, EmitFromCodec
    <3>2. ASSUME NEW i \in Stages PROVE StageInv(i)'
      <4>1. CASE i = ctl.k
        <5>1. i \in CodecStages
          BY <2>2, <4>1 DEF QuietInv, StageInv
        <5>2. ~(i < ctl.k)
          BY <4>1 DEF Stages
        <5> QED BY <2>1, <3>1, <5>1, <5>2 DEF QuietInv, StageInv
      <4>2. CASE i # ctl.k
        BY <2>1, <3>1, <4>2 DEF QuietInv, StageInv, TypeOK
      <4> QED BY <4>1, <4>2
    <3> QED BY <2>1, <3>1, <3>2 DEF QuietInv, CallInv
  <2>3. CASE codec[ctl.k] = <<>>
    <3>1. /\ codec' = codec
          /\ \/ ctl.k = N /\ ctl' = CtlAt("idle", 0, 0)
             \/ ctl' = CtlAt("shutdownStages", ctl.k + 1, 0)
      BY <1>7, <2>3 DEF ShutdownStages, EmitFromCodec
    <3>2. ~pulling
      BY <2>1 DEF QuietInv, CallInv
    <3>3. ASSUME NEW i \in Stages PROVE StageInv(i)'
      <4>1. (i < N \/ i = N) /\ (i < ctl.k + 1 => i < ctl.k \/ i = ctl.k)
        BY <2>1, PipelineAssumption DEF Stages
      <4>2. worker[i] = "none" /\ (i < ctl.k => codec[i] = <<>>)
        BY <2>1 DEF QuietInv, StageInv
      <4>3. (ctl.k = N => codec[i] = <<>>) /\ (i < ctl.k + 1 => codec[i] = <<>>)
        BY <2>3, <4>1, <4>2
      <4> QED BY <2>1, <3>1, <4>2, <4>3 DEF QuietInv, StageInv, CtlAt
    <3> QED BY <2>1, <3>1, <3>2, <3>3 DEF QuietInv, CallInv, CtlAt
  <2> QED BY <2>2, <2>3
<1> QED BY <1>1, <1>2, <1>3, <1>4, <1>5, <1>6, <1>7 DEF CtlStep

(* A worker that is not idle, or leaves a non-empty state, exists: it was   *)
(* launched and not yet joined.  Its step touches its own stage only.       *)
LEMMA OwnStageOnly ==
    ASSUME TypeOK, QuietInv, NEW i \in Stages,
           UNCHANGED <<running_, ctl, pulling>>,
           \A j \in Stages \ {i} : /\ worker'[j] = worker[j]
                                   /\ hand'[j] = hand[j]
                                   /\ codec'[j] = codec[j],
           worker[i] \in {"idle", "busy", "inCodec"},
           worker'[i] \in {"idle", "busy", "inCodec", "exited"},
           worker'[i] = "exited" => ~running_,
           worker'[i] \in {"idle", "exited"} => hand'[i] = <<>>,
           i \notin CodecStages => codec'[i] = codec[i]
    PROVE  QuietInv'
<1>1. CallInv'
  BY DEF QuietInv, CallInv
<1>2. ASSUME NEW j \in Stages PROVE StageInv(j)'
  <2>1. CASE j # i
    BY <2>1 DEF QuietInv, StageInv
  <2>2. CASE j = i
    BY <2>2 DEF QuietInv, StageInv
  <2> QED BY <2>1, <2>2
<1> QED BY <1>1, <1>2 DEF QuietInv

(* So do the workers.                                                       *)
LEMMA QuietWorker ==
    ASSUME TypeOK, InHand, QuietInv, NEW i \in Stages, WorkerStep(i)
    PROVE  QuietInv'
<1>1. CASE WorkerPop(i)
  <2>1. PICK s : hand' = [hand EXCEPT ![i] = s]
    BY <1>1 DEF WorkerPop
  <2> QED BY <1>1, <2>1, OwnStageOnly DEF WorkerPop, TypeOK
<1>2. CASE Forward(i)
  <2>1. PICK s : /\ hand' = [hand EXCEPT ![i] = s]
                 /\ worker' = [worker EXCEPT ![i] =
                                  IF s = <<>> THEN "idle" ELSE "busy"]
    BY <1>2 DEF Forward, FrameDone, BatchFailed
  <2> QED BY <1>2, <2>1, OwnStageOnly DEF Forward, TypeOK
<1>3. CASE EnterCodec(i)
  <2>1. PICK c : codec' = [codec EXCEPT ![i] = c]
    BY <1>3 DEF EnterCodec
  <2> QED BY <1>3, <2>1, OwnStageOnly DEF EnterCodec, TypeOK
<1>4. CASE EmitFrame(i)
  <2>1. codec' = [codec EXCEPT ![i] = Tail(@)] /\ codec[i] # <<>>
    BY <1>4 DEF EmitFrame, EmitFromCodec
  <2>2. i \in CodecStages
    BY <2>1 DEF QuietInv, StageInv
  <2> QED BY <1>4, <2>1, <2>2, OwnStageOnly DEF EmitFrame, TypeOK
<1>5. CASE LeaveCodec(i)
  <2>1. /\ hand' = [hand EXCEPT ![i] = hand[i]]
        /\ worker' = [worker EXCEPT ![i] =
                         IF hand[i] = <<>> THEN "idle" ELSE "busy"]
    BY <1>5 DEF LeaveCodec, FrameDone
  <2> QED BY <1>5, <2>1, OwnStageOnly DEF LeaveCodec, TypeOK
<1>6. CASE CodecFails(i)
  BY <1>6, OwnStageOnly DEF CodecFails, BatchFailed, TypeOK
<1>7. CASE WorkerExit(i)
  <2>1. hand[i] = <<>>
    BY <1>7 DEF WorkerExit, QuietInv, StageInv
  <2> QED BY <1>7, <2>1, OwnStageOnly DEF WorkerExit, TypeOK
<1> QED BY <1>1, <1>2, <1>3, <1>4, <1>5, <1>6, <1>7 DEF WorkerStep

(* QuietInv is inductive, given the types.                                  *)
LEMMA QuietStep ==
    TypeOK /\ InHand /\ QuietInv /\ [Next]_vars => QuietInv'
<1> SUFFICES ASSUME TypeOK, InHand, QuietInv, [Next]_vars PROVE QuietInv'
  OBVIOUS
<1>1. ASSUME NEW isKey \in BOOLEAN, OnPacket(isKey) PROVE QuietInv'
  BY <1>1 DEF OnPacket, QuietInv, CallInv, StageInv, threadVars
<1>2. CASE UNCHANGED vars
  BY <1>2 DEF vars, QuietInv, CallInv, StageInv
<1> QED BY <1>1, <1>2, QuietApi, QuietCtl, QuietWorker DEF Next

(* When Stop or DrainAndStop has returned, no worker thread is left, nothing *)
(* is in its hands or in a codec, and no packet can arrive: Start never     *)
(* assigns over a joinable thread, whatever the number of stages.           *)
THEOREM StoppedIsQuietAlways == Spec => []StoppedIsQuiet
<1>1. Init => TypeOK /\ InHand /\ QuietInv
  BY InitType, QuietInit
<1>2. TypeOK /\ InHand /\ QuietInv /\ [Next]_vars
         => TypeOK' /\ InHand' /\ QuietInv'
  BY TypeStep, QuietStep
<1>3. QuietInv => StoppedIsQuiet
  BY DEF QuietInv, CallInv, StageInv, StoppedIsQuiet
<1> QED BY <1>1, <1>2, <1>3, PTL DEF Spec

-----------------------------------------------------------------------------
(* Nobody feeds the queue of stage 1, so nothing but OnPacket pushes into   *)
(* that of stage 2, whose worker leaves it empty.                           *)
SourceInv ==
    /\ queue[1].frames = <<>> /\ hand[1] = <<>>
    /\ worker[2] \in {"exited", "none"} => queue[2].frames = <<>>

(* A codec pushes into the queue behind its stage and no other.             *)
LEMMA EmitBehind ==
    ASSUME TypeOK, QuietInv, NEW i \in Stages, EmitFromCodec(i)
    PROVE  queue'[1] = queue[1] /\ queue'[2] = queue[2]
<1>1. i # 1
  BY PipelineAssumption DEF EmitFromCodec, QuietInv, StageInv, CodecStages, Stages
<1>2. i + 1 # 1 /\ i + 1 # 2 /\ 1 \in Stages /\ 2 \in Stages
  BY <1>1, StageFacts DEF Stages
<1>3. \/ queue' = queue
      \/ \E w : queue' = [queue EXCEPT ![i + 1] = w]
  BY DEF EmitFromCodec
<1> QED BY <1>2, <1>3 DEF TypeOK

(* SourceInv is inductive, given the others.                                *)
LEMMA SourceStep ==
    TypeOK /\ InHand /\ QuietInv /\ SourceInv /\ [Next]_vars => SourceInv'
<1> SUFFICES ASSUME TypeOK, InHand, QuietInv, SourceInv, [Next]_vars
             PROVE  SourceInv'
  OBVIOUS
<1>0. 1 \in Stages /\ 2 \in Stages /\ N \in Nat /\ N >= 3
  BY StageFacts, PipelineAssumption
<1>1. CASE ApiCall
  <2>1. queue' = queue /\ hand' = hand
    BY <1>1 DEF ApiCall, Initialize, Start, Stop, DrainAndStop, threadVars
  <2>2. worker'[2] \in {"exited", "none"} => worker'[2] = worker[2]
    BY <1>0, <1>1 DEF ApiCall, Initialize, Start, Stop, DrainAndStop, threadVars
  <2> QED BY <2>1, <2>2 DEF SourceInv
<1>2. CASE CtlStep
  <2>1. CASE UNCHANGED <<queue, hand, worker>>
    BY <2>1 DEF SourceInv
  <2>2. CASE ShutdownQueues
    <3>1. /\ hand' = hand /\ worker' = worker
          /\ queue' = [queue EXCEPT ![ctl.k] = Shutdown(@)] /\ ctl.k \in Stages
      BY <2>2 DEF ShutdownQueues, threadVars, InHand, InLoop
    <3>2. \A i \in Stages : queue'[i].frames = queue[i].frames
      <4> SUFFICES ASSUME NEW i \in Stages PROVE queue'[i].frames = queue[i].frames
        OBVIOUS
      <4>1. queue[i] \in Queues(Frames)
        BY DEF TypeOK
      <4>2. Shutdown(queue[i]).frames = queue[i].frames
        BY <4>1 DEF Shutdown, Queues
      <4> QED BY <3>1, <4>2 DEF TypeOK
    <3> QED BY <1>0, <3>1, <3>2 DEF SourceInv
  <2>3. CASE JoinWorkers
    <3>1. /\ queue' = queue /\ hand' = hand /\ worker[ctl.k] = "exited"
          /\ worker' = [worker EXCEPT ![ctl.k] = "none"]
      BY <2>3 DEF JoinWorkers
    <3>2. worker'[2] \in {"exited", "none"} => worker[2] \in {"exited", "none"}
      BY <1>0, <3>1 DEF TypeOK
    <3> QED BY <3>1, <3>2 DEF SourceInv
  <2>4. CASE ShutdownStages
    <3>1. worker' = worker /\ hand' = hand /\ ctl.k \in Stages
      BY <2>4 DEF ShutdownStages, InHand, InLoop
    <3>2. queue' = queue \/ EmitFromCodec(ctl.k)
      BY <2>4 DEF ShutdownStages
    <3>3. queue'[1] = queue[1] /\ queue'[2] = queue[2]
      BY <3>1, <3>2, EmitBehind
    <3> QED BY <3>1, <3>3 DEF SourceInv
  <2>5. CASE OnPipelineStart \/ DrainPoll \/ OnPipelineStop \/ ClearRunning
    BY <2>1, <2>5 DEF OnPipelineStart, DrainPoll, OnPipelineStop, ClearRunning,
       threadVars
  <2> QED BY <1>2, <2>2, <2>3, <2>4, <2>5 DEF CtlStep
<1>3. ASSUME NEW isKey \in BOOLEAN, OnPacket(isKey) PROVE SourceInv'
  <2>1. /\ worker' = worker /\ hand' = hand /\ pulling
        /\ \E w : queue' = [queue EXCEPT ![2] = w]
    <3>1. Source + 1 = 2
      OBVIOUS
    <3>2. \E w : queue' = [queue EXCEPT ![Source + 1] = w]
      BY <1>3 DEF OnPacket
    <3> QED BY <1>3, <3>1, <3>2 DEF OnPacket, threadVars
  <2>2. worker[2] \in {"idle", "busy", "inCodec"}
    BY <1>0, <2>1 DEF QuietInv, CallInv, StageInv
  <2>3. queue'[1] = queue[1]
    BY <1>0, <2>1 DEF TypeOK
  <2> QED BY <2>1, <2>2, <2>3 DEF SourceInv
<1>4. ASSUME NEW i \in Stages, WorkerStep(i) PROVE SourceInv'
  <2>1. CASE WorkerPop(i)
    <3>1. /\ ~Empty(queue[i]) /\ worker' = [worker EXCEPT ![i] = "busy"]
          /\ worker[i] = "idle"
          /\ \E h : hand' = [hand EXCEPT ![i] = h]
          /\ \E w : queue' = [queue EXCEPT ![i] = w]
      BY <2>1 DEF WorkerPop
    <3>2. i # 1
      BY <3>1 DEF SourceInv, Empty
    <3>3. queue'[1] = queue[1] /\ hand'[1] = hand[1]
      BY <1>0, <3>1, <3>2 DEF TypeOK
    <3>4. worker'[2] \in {"exited", "none"} => i # 2 /\ worker'[2] = worker[2]
      BY <1>0, <3>1 DEF TypeOK
    <3>5. i # 2 => queue'[2] = queue[2]
      BY <1>0, <3>1 DEF TypeOK
    <3> QED BY <3>3, <3>4, <3>5 DEF SourceInv
  <2>2. CASE Forward(i)
    <3>1. /\ worker[i] = "busy" /\ i \notin CodecStages
          /\ \E w : queue' = [queue EXCEPT ![i + 1] = w]
          /\ \E h : hand' = [hand EXCEPT ![i] = h]
          /\ \E p \in {"idle", "busy"} : worker' = [worker EXCEPT ![i] = p]
      BY <2>2 DEF Forward, FrameDone, BatchFailed
    <3>2. i # 1 /\ i # 2 /\ i + 1 # 1 /\ i + 1 # 2
      BY <3>1 DEF InHand, SourceInv, CodecStages, Stages
    <3>3. queue'[1] = queue[1] /\ queue'[2] = queue[2] /\ hand'[1] = hand[1]
          /\ worker'[2] = worker[2]
      BY <1>0, <3>1, <3>2 DEF TypeOK
    <3> QED BY <3>3 DEF SourceInv
  <2>3. CASE EmitFrame(i)
    <3>1. worker' = worker /\ hand' = hand /\ EmitFromCodec(i)
      BY <2>3 DEF EmitFrame
    <3> QED BY <3>1, EmitBehind DEF SourceInv
  <2>4. ASSUME queue' = queue, i # 1, NEW h, hand' = [hand EXCEPT ![i] = h],
               NEW p \in {"idle", "busy", "inCodec"},
               worker' = [worker EXCEPT ![i] = p]
        PROVE  SourceInv'
    <3>1. hand'[1] = hand[1]
          /\ (worker'[2] \in {"exited", "none"} => worker'[2] = worker[2])
      BY <1>0, <2>4 DEF TypeOK
    <3> QED BY <2>4, <3>1 DEF SourceInv
  <2>5. 1 \notin CodecStages
    BY <1>0 DEF CodecStages
  <2>6. CASE EnterCodec(i)
    <3>1. /\ i \in CodecStages /\ queue' = queue
          /\ hand' = [hand EXCEPT ![i] = Tail(hand[i])]
          /\ worker' = [worker EXCEPT ![i] = "inCodec"]
      BY <2>6 DEF EnterCodec, TypeOK
    <3> QED BY <2>4, <2>5, <3>1
  <2>7. CASE LeaveCodec(i)
    <3>1. /\ worker[i] = "inCodec" /\ queue' = queue
          /\ hand' = [hand EXCEPT ![i] = hand[i]]
          /\ worker' = [worker EXCEPT ![i] =
                          IF hand[i] = <<>> THEN "idle" ELSE "busy"]
      BY <2>7 DEF LeaveCodec, FrameDone
    <3>2. i # 1
      BY <2>5, <3>1 DEF InHand
    <3> QED BY <2>4, <3>1, <3>2
  <2>8. CASE CodecFails(i)
    <3>1. /\ i \in CodecStages /\ queue' = queue
          /\ hand' = [hand EXCEPT ![i] = <<>>]
          /\ worker' = [worker EXCEPT ![i] = "idle"]
      BY <2>8 DEF CodecFails, BatchFailed
    <3> QED BY <2>4, <2>5, <3>1
  <2>9. CASE WorkerExit(i)
    <3>1. /\ queue' = queue /\ hand' = hand /\ queue[i].frames = <<>>
          /\ worker' = [worker EXCEPT ![i] = "exited"]
      BY <2>9 DEF WorkerExit, Empty
    <3>2. i = 2 \/ worker'[2] = worker[2]
      BY <1>0, <3>1 DEF TypeOK
    <3> QED BY <3>1, <3>2 DEF SourceInv
  <2> QED BY <1>4, <2>1, <2>2, <2>3, <2>6, <2>7, <2>8, <2>9 DEF WorkerStep
<1>5. CASE UNCHANGED vars
  BY <1>5 DEF vars, SourceInv
<1> QED BY <1>1, <1>2, <1>3, <1>4, <1>5 DEF Next

(* Stop closes the source before it clears running_, so the decode worker   *)
(* leaves only when the queue the camera feeds is empty, and it stays so.   *)
THEOREM SourceQueueAlwaysDrained == Spec => []SourceQueueDrained
<1>1. Init => TypeOK /\ InHand /\ QuietInv /\ SourceInv
  <2>1. Init => SourceInv
    BY StageFacts DEF Init, SourceInv, NewQueue
  <2> QED BY <2>1, InitType, QuietInit
<1>2. TypeOK /\ InHand /\ QuietInv /\ SourceInv /\ [Next]_vars
         => TypeOK' /\ InHand' /\ QuietInv' /\ SourceInv'
  BY TypeStep, QuietStep, SourceStep
<1>3. QuietInv /\ SourceInv => SourceQueueDrained
  <2>1. Source + 1 = 2 /\ 2 \in Stages
    BY StageFacts
  <2> QED BY <2>1 DEF QuietInv, StageInv, SourceInv, SourceQueueDrained, Empty
<1> QED BY <1>1, <1>2, <1>3, PTL DEF Spec
-----------------------------------------------------------------------------
(* The order of the frames.  What stage i holds is in three places, oldest  *)
(* first: its codec (1), its worker's hand (2) and its queue (3); a later   *)
(* stage is ahead of an earlier one.  A frame only ever moves from one      *)
(* place to the end of the next one that is not empty.                      *)

Places == 1..3

Place(i, p) == IF p = 1 THEN codec[i] ELSE IF p = 2 THEN hand[i] ELSE queue[i].frames

HeldAt(i, p) == IdSet(Place(i, p))

Ahead(i, p, j, r) == j < i \/ (i = j /\ p < r)

Sorted(s) == \A j, k \in 1..Len(s) : j < k => s[j].id < s[k].id

PlacesSorted == \A i \in Stages, p \in Places : Sorted(Place(i, p))

PlacesOrdered ==
    /\ \A i, j \in Stages, p, r \in Places :
          Ahead(i, p, j, r) => Older(HeldAt(i, p), HeldAt(j, r))
    /\ \A i \in Stages, p \in Places :
          /\ Older(Range(delivered), HeldAt(i, p))
          /\ \A n \in HeldAt(i, p) : n =< produced
    /\ \A n \in Range(delivered) : n =< produced
    /\ Increasing(delivered)

LineInv == PlacesSorted /\ PlacesOrdered

-----------------------------------------------------------------------------
(* Sequences of frames.                                                     *)

(* Every id of a sequence of frames is a number.                            *)
LEMMA FrameIds ==
    ASSUME NEW s \in Seq(Frames)
    PROVE  /\ Len(s) \in Nat
           /\ \A k \in 1..Len(s) : s[k] \in Frames /\ s[k].id \in Nat
           /\ IdSet(s) \subseteq Nat
<1>1. \A k \in 1..Len(s) : s[k] \in Frames
  BY ElementOfSeq
<1> QED BY <1>1 DEF Frames, IdSet

(* Appending a younger frame.                                               *)
LEMMA AppendSorted ==
    ASSUME NEW s \in Seq(Frames), NEW f \in Frames
    PROVE  /\ IdSet(Append(s, f)) = IdSet(s) \union {f.id}
           /\ Sorted(s) /\ Older(IdSet(s), {f.id}) => Sorted(Append(s, f))
<1> DEFINE t == Append(s, f)
<1>1. /\ Len(t) = Len(s) + 1 /\ Len(s) \in Nat
      /\ \A j \in 1..Len(s) : t[j] = s[j]
      /\ t[Len(s) + 1] = f
  BY AppendProperties
<1> HIDE DEF t
<1>2. \A j : j \in 1..Len(t) <=> j \in 1..Len(s) \/ j = Len(s) + 1
  BY <1>1
<1>3. IdSet(t) = IdSet(s) \union {f.id}
  BY <1>1, <1>2 DEF IdSet
<1>4. ASSUME Sorted(s), Older(IdSet(s), {f.id}) PROVE Sorted(t)
  <2> SUFFICES ASSUME NEW j \in 1..Len(t), NEW k \in 1..Len(t), j < k
               PROVE  t[j].id < t[k].id
    BY DEF Sorted
  <2>1. j \in 1..Len(s)
    BY <1>1
  <2>2. CASE k \in 1..Len(s)
    BY <1>1, <1>4, <2>1, <2>2 DEF Sorted
  <2>3. CASE k = Len(s) + 1
    <3>1. s[j].id \in IdSet(s)
      BY <2>1 DEF IdSet
    <3>2. s[j].id < f.id
      BY <1>4, <3>1 DEF Older
    <3> QED BY <1>1, <2>1, <2>3, <3>2
  <2> QED BY <1>2, <2>2, <2>3
<1> QED BY <1>3, <1>4 DEF t

(* A sequence that takes the positions of another one in their order.       *)
LEMMA PickedSorted ==
    ASSUME NEW s \in Seq(Frames), NEW t \in Seq(Frames), NEW h \in [1..Len(t) -> 1..Len(s)],
           \A j \in 1..Len(t) : t[j] = s[h[j]],
           \A j, k \in 1..Len(t) : j < k => h[j] < h[k]
    PROVE  /\ IdSet(t) \subseteq IdSet(s)
           /\ Sorted(s) => Sorted(t)
<1>1. IdSet(t) \subseteq IdSet(s)
  BY DEF IdSet
<1>2. ASSUME Sorted(s), NEW j \in 1..Len(t), NEW k \in 1..Len(t), j < k
      PROVE  t[j].id < t[k].id
  <2>1. h[j] \in 1..Len(s) /\ h[k] \in 1..Len(s) /\ h[j] < h[k]
    BY <1>2
  <2> QED BY <1>2, <2>1 DEF Sorted
<1> QED BY <1>1, <1>2 DEF Sorted

(* Erasing a frame.                                                         *)
LEMMA RemoveSorted ==
    ASSUME NEW s \in Seq(Frames), NEW k \in 1..Len(s)
    PROVE  /\ RemoveAt(s, k) \in Seq(Frames)
           /\ IdSet(RemoveAt(s, k)) \subseteq IdSet(s)
           /\ Sorted(s) => Sorted(RemoveAt(s, k))
<1> DEFINE t == RemoveAt(s, k)
           h == [j \in 1..Len(t) |-> IF j < k THEN j ELSE j + 1]
<1>1. /\ t \in Seq(Frames) /\ Len(t) = Len(s) - 1
      /\ \A j \in 1..(Len(s) - 1) : t[j] = IF j < k THEN s[j] ELSE s[j + 1]
  BY RemoveAtProperties
<1>2. Len(s) \in Nat /\ k \in 1..Len(s)
  OBVIOUS
<1> HIDE DEF t
<1>3. h \in [1..Len(t) -> 1..Len(s)]
  BY <1>1, <1>2
<1>4. \A j \in 1..Len(t) : t[j] = s[h[j]]
  BY <1>1, <1>2
<1>5. \A i, j \in 1..Len(t) : i < j => h[i] < h[j]
  BY <1>1, <1>2
<1> HIDE DEF h
<1>6. IdSet(t) \subseteq IdSet(s) /\ (Sorted(s) => Sorted(t))
  BY <1>1, <1>3, <1>4, <1>5, PickedSorted
<1> QED BY <1>1, <1>6 DEF t

(* Taking the first frame off leaves younger ones.                          *)
LEMMA TailSorted ==
    ASSUME NEW s \in Seq(Frames), s # <<>>
    PROVE  /\ IdSet(s) = {Head(s).id} \union IdSet(Tail(s))
           /\ Sorted(s) => Sorted(Tail(s)) /\ Older({Head(s).id}, IdSet(Tail(s)))
<1> DEFINE t == Tail(s)
           h == [j \in 1..Len(t) |-> j + 1]
<1>1. /\ t \in Seq(Frames) /\ Len(t) = Len(s) - 1 /\ Len(s) \in Nat /\ Len(s) >= 1
      /\ \A j \in 1..Len(t) : t[j] = s[j + 1]
      /\ Head(s) = s[1]
  OBVIOUS
<1> HIDE DEF t
<1>2. h \in [1..Len(t) -> 1..Len(s)]
  BY <1>1
<1>3. \A j \in 1..Len(t) : t[j] = s[h[j]]
  BY <1>1
<1>4. \A i, j \in 1..Len(t) : i < j => h[i] < h[j]
  BY <1>1
<1>5. IdSet(t) \subseteq IdSet(s) /\ (Sorted(s) => Sorted(t))
  <2> HIDE DEF h
  <2> QED BY <1>1, <1>2, <1>3, <1>4, PickedSorted
<1>6. IdSet(s) \subseteq {Head(s).id} \union IdSet(t)
  <2> SUFFICES ASSUME NEW k \in 1..Len(s), k # 1 PROVE s[k].id \in IdSet(t)
    BY <1>1 DEF IdSet
  <2>1. k - 1 \in 1..Len(t) /\ (k - 1) + 1 = k
    BY <1>1
  <2>2. t[k - 1] = s[k]
    BY <1>1, <2>1
  <2> QED BY <2>1, <2>2 DEF IdSet
<1>7. Head(s).id \in IdSet(s)
  BY <1>1 DEF IdSet
<1>8. ASSUME Sorted(s) PROVE Older({Head(s).id}, IdSet(t))
  <2> SUFFICES ASSUME NEW k \in 1..Len(t) PROVE Head(s).id < t[k].id
    BY DEF Older, IdSet
  <2>1. k + 1 \in 1..Len(s) /\ 1 \in 1..Len(s) /\ 1 < k + 1
    BY <1>1
  <2> QED BY <1>1, <1>8, <2>1 DEF Sorted
<1> QED BY <1>5, <1>6, <1>7, <1>8 DEF t

(* Popping splits a queue.                                                  *)
LEMMA PopSorted ==
    ASSUME NEW w \in Queues(Frames), ~Empty(w), NEW n \in Nat \ {0}
    PROVE  /\ IdSet(Popped(w, n)) \subseteq IdSet(w.frames)
           /\ IdSet(AfterPop(w, n).frames) \subseteq IdSet(w.frames)
           /\ Sorted(w.frames) =>
                /\ Sorted(Popped(w, n)) /\ Sorted(AfterPop(w, n).frames)
                /\ Older(IdSet(Popped(w, n)), IdSet(AfterPop(w, n).frames))
<1> DEFINE m == PopCount(w, n)
           a == Popped(w, n)
           b == AfterPop(w, n).frames
           s == w.frames
           g == [j \in 1..Len(a) |-> j]
           h == [j \in 1..Len(b) |-> m + j]
<1>1. /\ m \in 1..Len(s) /\ a \in Seq(Frames) /\ Len(a) = m
      /\ \A j \in 1..m : a[j] = s[j]
      /\ AfterPop(w, n) \in Queues(Frames)
      /\ Len(b) = Len(s) - m
      /\ \A j \in 1..(Len(s) - m) : b[j] = s[m + j]
  BY PopOutcome
<1>2. b \in Seq(Frames) /\ s \in Seq(Frames) /\ Len(s) \in Nat
  BY <1>1 DEF Queues
<1> HIDE DEF m, a, b, s
<1>3. IdSet(a) \subseteq IdSet(s) /\ (Sorted(s) => Sorted(a))
  <2>1. g \in [1..Len(a) -> 1..Len(s)] /\ \A j \in 1..Len(a) : a[j] = s[g[j]]
    BY <1>1, <1>2
  <2>2. \A i, j \in 1..Len(a) : i < j => g[i] < g[j]
    BY <1>1, <1>2
  <2> HIDE DEF g
  <2> QED BY <1>1, <1>2, <2>1, <2>2, PickedSorted
<1>4. IdSet(b) \subseteq IdSet(s) /\ (Sorted(s) => Sorted(b))
  <2>1. h \in [1..Len(b) -> 1..Len(s)]
    BY <1>1, <1>2
  <2>2. \A j \in 1..Len(b) : b[j] = s[h[j]]
    BY <1>1, <1>2
  <2>3. \A i, j \in 1..Len(b) : i < j => h[i] < h[j]
    BY <1>1, <1>2
  <2> HIDE DEF h
  <2> QED BY <1>1, <1>2, <2>1, <2>2, <2>3, PickedSorted
<1>5. ASSUME Sorted(s) PROVE Older(IdSet(a), IdSet(b))
  <2> SUFFICES ASSUME NEW j \in 1..Len(a), NEW k \in 1..Len(b)
               PROVE  a[j].id < b[k].id
    BY DEF Older, IdSet
  <2>1. /\ j \in 1..Len(s) /\ m + k \in 1..Len(s) /\ j < m + k
        /\ a[j] = s[j] /\ b[k] = s[m + k]
    BY <1>1, <1>2
  <2> QED BY <1>5, <2>1 DEF Sorted
<1> QED BY <1>3, <1>4, <1>5 DEF a, b, s

(* What Push leaves in a queue of older frames.                             *)
LEMMA PushSorted ==
    ASSUME NEW w \in Queues(Frames), NEW f \in Frames, NEW r \in Push(w, f)
    PROVE  /\ IdSet(r.queue.frames) \subseteq IdSet(w.frames) \union {f.id}
           /\ Sorted(w.frames) /\ Older(IdSet(w.frames), {f.id})
                => Sorted(r.queue.frames)
<1>1. w.frames \in Seq(Frames)
  BY DEF Queues
<1>2. CASE r.queue.frames = w.frames
  BY <1>2
<1>3. CASE r.queue.frames = Append(w.frames, f)
  BY <1>1, <1>3, AppendSorted
<1>4. ASSUME NEW k \in 1..Len(w.frames),
             r.queue.frames = Append(RemoveAt(w.frames, k), f)
      PROVE  /\ IdSet(r.queue.frames) \subseteq IdSet(w.frames) \union {f.id}
             /\ Sorted(w.frames) /\ Older(IdSet(w.frames), {f.id})
                  => Sorted(r.queue.frames)
  <2> DEFINE t == RemoveAt(w.frames, k)
  <2>1. /\ t \in Seq(Frames) /\ IdSet(t) \subseteq IdSet(w.frames)
        /\ Sorted(w.frames) => Sorted(t)
    BY <1>1, RemoveSorted
  <2>2. r.queue.frames = Append(t, f)
    BY <1>4
  <2> HIDE DEF t
  <2>3. Older(IdSet(w.frames), {f.id}) => Older(IdSet(t), {f.id})
    BY <2>1 DEF Older
  <2> QED BY <2>1, <2>2, <2>3, AppendSorted
<1>5. \/ r.queue.frames = w.frames \/ r.queue.frames = Append(w.frames, f)
      \/ \E k \in 1..Len(w.frames) : r.queue.frames = Append(RemoveAt(w.frames, k), f)
  BY PushOutcome
<1>6. CASE \E k \in 1..Len(w.frames) : r.queue.frames = Append(RemoveAt(w.frames, k), f)
  <2>1. PICK k \in 1..Len(w.frames) : r.queue.frames = Append(RemoveAt(w.frames, k), f)
    BY <1>6
  <2> QED BY <1>4, <2>1
<1> QED BY <1>2, <1>3, <1>5, <1>6

(* Two sorted sequences, one after the other.                               *)
LEMMA ConcatSorted ==
    ASSUME NEW a \in Seq(Frames), NEW b \in Seq(Frames)
    PROVE  /\ a \o b \in Seq(Frames)
           /\ IdSet(a \o b) = IdSet(a) \union IdSet(b)
           /\ Sorted(a) /\ Sorted(b) /\ Older(IdSet(a), IdSet(b)) => Sorted(a \o b)
<1> DEFINE c == a \o b
<1>1. /\ c \in Seq(Frames) /\ Len(c) = Len(a) + Len(b)
      /\ Len(a) \in Nat /\ Len(b) \in Nat
      /\ \A k \in 1..Len(c) : c[k] = IF k =< Len(a) THEN a[k] ELSE b[k - Len(a)]
  OBVIOUS
<1> HIDE DEF c
<1>2. \A k \in 1..Len(a) : k \in 1..Len(c) /\ c[k] = a[k]
  BY <1>1
<1>3. ASSUME NEW k \in 1..Len(b)
      PROVE  Len(a) + k \in 1..Len(c) /\ c[Len(a) + k] = b[k]
  <2>1. Len(a) + k \in 1..Len(c) /\ ~(Len(a) + k =< Len(a))
        /\ (Len(a) + k) - Len(a) = k
    BY <1>1
  <2> QED BY <1>1, <2>1
<1>4. ASSUME NEW k \in 1..Len(c)
      PROVE  \/ k \in 1..Len(a) /\ c[k] = a[k]
             \/ /\ k - Len(a) \in 1..Len(b) /\ c[k] = b[k - Len(a)]
                /\ k > Len(a)
  BY <1>1
<1>5. IdSet(c) = IdSet(a) \union IdSet(b)
  <2>1. IdSet(c) \subseteq IdSet(a) \union IdSet(b)
    BY <1>4 DEF IdSet
  <2>2. IdSet(a) \subseteq IdSet(c)
    BY <1>2 DEF IdSet
  <2>3. IdSet(b) \subseteq IdSet(c)
    BY <1>3 DEF IdSet
  <2> QED BY <2>1, <2>2, <2>3
<1>6. ASSUME Sorted(a), Sorted(b), Older(IdSet(a), IdSet(b)),
             NEW j \in 1..Len(c), NEW k \in 1..Len(c), j < k
      PROVE  c[j].id < c[k].id
  <2>1. CASE j \in 1..Len(a) /\ k \in 1..Len(a)
    BY <1>2, <1>6, <2>1 DEF Sorted
  <2>2. CASE j \in 1..Len(a) /\ k > Len(a)
    <3>1. /\ k - Len(a) \in 1..Len(b) /\ c[k] = b[k - Len(a)] /\ c[j] = a[j]
      BY <1>1, <1>2, <1>4, <2>2
    <3>2. a[j].id \in IdSet(a) /\ b[k - Len(a)].id \in IdSet(b)
      BY <2>2, <3>1 DEF IdSet
    <3> QED BY <1>6, <3>1, <3>2 DEF Older
  <2>3. CASE j > Len(a)
    <3>1. /\ j - Len(a) \in 1..Len(b) /\ c[j] = b[j - Len(a)]
          /\ k - Len(a) \in 1..Len(b) /\ c[k] = b[k - Len(a)]
          /\ j - Len(a) < k - Len(a)
      BY <1>1, <1>4, <1>6, <2>3
    <3> QED BY <1>6, <3>1 DEF Sorted
  <2> QED BY <1>1, <1>6, <2>1, <2>2, <2>3
<1> QED BY <1>1, <1>5, <1>6 DEF Sorted, c

-----------------------------------------------------------------------------
(* Moving frames along the places.                                          *)

Held == UNION {HeldAt(i, p) : i \in Stages, p \in Places}

(* Of two places one is ahead of the other.                                 *)
LEMMA AheadOrder ==
    ASSUME NEW i \in Stages, NEW p \in Places, NEW j \in Stages, NEW r \in Places
    PROVE  /\ Ahead(i, p, j, r) \/ Ahead(j, r, i, p) \/ (i = j /\ p = r)
           /\ ~(Ahead(i, p, j, r) /\ Ahead(j, r, i, p))
           /\ ~Ahead(i, p, i, p)
           /\ \A k \in Stages, q \in Places :
                 Ahead(i, p, j, r) /\ Ahead(j, r, k, q) => Ahead(i, p, k, q)
BY PipelineAssumption DEF Ahead, Stages, Places

(* What every place holds are numbers.                                      *)
LEMMA PlaceType ==
    ASSUME TypeOK, NEW i \in Stages, NEW p \in Places
    PROVE  Place(i, p) \in Seq(Frames) /\ HeldAt(i, p) \in SUBSET Ids
<1>1. Place(i, p) \in Seq(Frames)
  BY DEF TypeOK, Place, Queues
<1> QED BY <1>1, IdSetType DEF HeldAt

(* The steps that leave the order alone: frames may only disappear.         *)
LEMMA LineShrinks ==
    ASSUME LineInv, UNCHANGED <<produced, delivered>>,
           \A i \in Stages, p \in Places :
              \/ Place(i, p)' = Place(i, p)
              \/ Sorted(Place(i, p)') /\ HeldAt(i, p)' \subseteq HeldAt(i, p)
    PROVE  LineInv' /\ Held' \subseteq Held
<1>1. \A i \in Stages, p \in Places : HeldAt(i, p)' \subseteq HeldAt(i, p)
  BY DEF HeldAt
<1>2. PlacesSorted'
  BY DEF LineInv, PlacesSorted
<1>3. PlacesOrdered'
  BY <1>1 DEF LineInv, PlacesOrdered, Older
<1>4. Held' \subseteq Held
  BY <1>1 DEF Held
<1> QED BY <1>2, <1>3, <1>4 DEF LineInv

(* Frames X leave one place, where they are the oldest, for the end of a    *)
(* place ahead of it, with nothing in between.                              *)
LEMMA LineMoves ==
    ASSUME LineInv, UNCHANGED <<produced, delivered>>,
           NEW s \in Stages, NEW sp \in Places, NEW d \in Stages, NEW dp \in Places,
           Ahead(d, dp, s, sp), NEW X \in SUBSET HeldAt(s, sp),
           \A i \in Stages, p \in Places :
              (i = s /\ p = sp) \/ (i = d /\ p = dp) \/ Place(i, p)' = Place(i, p),
           \A i \in Stages, p \in Places :
              Ahead(d, dp, i, p) /\ Ahead(i, p, s, sp) => Place(i, p) = <<>>,
           Sorted(Place(s, sp)'), HeldAt(s, sp)' \subseteq HeldAt(s, sp),
           Older(X, HeldAt(s, sp)'),
           Sorted(Place(d, dp)'), HeldAt(d, dp)' \subseteq HeldAt(d, dp) \union X
    PROVE  LineInv' /\ Held' \subseteq Held
<1>1. ASSUME NEW i \in Stages, NEW p \in Places
      PROVE  HeldAt(i, p)' \subseteq
                HeldAt(i, p) \union (IF i = d /\ p = dp THEN X ELSE {})
  <2>1. Place(i, p)' = Place(i, p) => HeldAt(i, p)' = HeldAt(i, p)
    BY DEF HeldAt
  <2> QED BY <2>1
<1>2. ASSUME NEW i \in Stages, NEW p \in Places,
             Ahead(d, dp, i, p), Ahead(i, p, s, sp)
      PROVE  HeldAt(i, p)' = {}
  <2>1. Place(i, p)' = <<>>
    BY <1>2, AheadOrder
  <2> QED BY <2>1 DEF HeldAt, IdSet
<1>3. PlacesSorted'
  BY DEF LineInv, PlacesSorted
<1>4. ASSUME NEW i \in Stages, NEW p \in Places, NEW j \in Stages, NEW r \in Places,
             Ahead(i, p, j, r), NEW m \in HeldAt(i, p)', NEW n \in HeldAt(j, r)'
      PROVE  m < n
  <2>1. CASE m \in HeldAt(i, p) /\ n \in HeldAt(j, r)
    BY <1>4, <2>1 DEF LineInv, PlacesOrdered, Older
  <2>2. CASE i = d /\ p = dp /\ m \in X
    <3>1. CASE j = s /\ r = sp
      BY <1>4, <2>2, <3>1 DEF Older
    <3>2. CASE Ahead(j, r, s, sp)
      BY <1>2, <1>4, <2>2, <3>2
    <3>3. CASE Ahead(s, sp, j, r)
      <4>1. n \in HeldAt(j, r)
        BY <1>1, <1>4, <2>2, AheadOrder
      <4> QED BY <2>2, <3>3, <4>1 DEF LineInv, PlacesOrdered, Older
    <3> QED BY <3>1, <3>2, <3>3, AheadOrder
  <2>3. CASE j = d /\ r = dp /\ n \in X
    <3>1. m \in HeldAt(i, p) /\ Ahead(i, p, s, sp)
      BY <1>1, <1>4, <2>3, AheadOrder
    <3> QED BY <2>3, <3>1 DEF LineInv, PlacesOrdered, Older
  <2> QED BY <1>1, <2>1, <2>2, <2>3
<1>5. ASSUME NEW i \in Stages, NEW p \in Places, NEW m \in HeldAt(i, p)'
      PROVE  m \in HeldAt(i, p) \/ m \in HeldAt(s, sp)
  BY <1>1
<1>6. ASSUME NEW i \in Stages, NEW p \in Places
      PROVE  Older(Range(delivered), HeldAt(i, p)') /\ \A n \in HeldAt(i, p)' : n =< produced
  BY <1>5 DEF LineInv, PlacesOrdered, Older
<1>7. PlacesOrdered'
  <2>1. /\ \A i \in Stages, p \in Places :
             /\ Older(Range(delivered)', HeldAt(i, p)')
             /\ \A n \in HeldAt(i, p)' : n =< produced'
        /\ \A n \in Range(delivered)' : n =< produced'
        /\ Increasing(delivered)'
    BY <1>6 DEF LineInv, PlacesOrdered
  <2>2. \A i, j \in Stages, p, r \in Places :
           Ahead(i, p, j, r) => Older(HeldAt(i, p)', HeldAt(j, r)')
    BY <1>4 DEF Older
  <2> QED BY <2>1, <2>2 DEF PlacesOrdered, Older, Ahead
<1>8. Held' \subseteq Held
  BY <1>5 DEF Held
<1> QED BY <1>3, <1>7, <1>8 DEF LineInv

(* What was delivered are numbers.                                          *)
LEMMA DeliveredType == TypeOK => Range(delivered) \subseteq Nat
<1> SUFFICES ASSUME TypeOK PROVE Range(delivered) \subseteq Nat
  OBVIOUS
<1>1. delivered \in Seq(Ids) /\ DOMAIN delivered = 1..Len(delivered)
  BY DEF TypeOK, Ids
<1>2. \A k \in DOMAIN delivered : delivered[k] \in Nat
  BY <1>1, ElementOfSeq DEF Ids
<1> QED BY <1>2 DEF Range

(* A new frame enters behind all the others.                                *)
LEMMA LineGrows ==
    ASSUME LineInv, TypeOK, produced' = produced + 1, delivered' = delivered,
           \A i \in Stages, p \in Places :
              (i = 2 /\ p = 3) \/ Place(i, p)' = Place(i, p),
           \A p \in Places : Place(1, p) = <<>>,
           Sorted(Place(2, 3)'),
           HeldAt(2, 3)' \subseteq HeldAt(2, 3) \union {produced + 1}
    PROVE  LineInv' /\ Held' \subseteq Held \union {produced + 1}
<1>0. produced \in Nat /\ 1 \in Stages /\ 2 \in Stages /\ 3 \in Places
  BY StageFacts DEF TypeOK, Places
<1>1. ASSUME NEW i \in Stages, NEW p \in Places
      PROVE  HeldAt(i, p)' \subseteq
                HeldAt(i, p) \union (IF i = 2 /\ p = 3 THEN {produced + 1} ELSE {})
  <2>1. Place(i, p)' = Place(i, p) => HeldAt(i, p)' = HeldAt(i, p)
    BY DEF HeldAt
  <2> QED BY <2>1
<1>2. ASSUME NEW i \in Stages, NEW p \in Places
      PROVE  HeldAt(i, p) \subseteq Nat /\ \A n \in HeldAt(i, p) : n =< produced
  BY PlaceType DEF LineInv, PlacesOrdered, Ids
<1>3. PlacesSorted'
  BY DEF LineInv, PlacesSorted
<1>4. ASSUME NEW i \in Stages, NEW p \in Places, NEW j \in Stages, NEW r \in Places,
             Ahead(i, p, j, r), NEW m \in HeldAt(i, p)', NEW n \in HeldAt(j, r)'
      PROVE  m < n
  <2>1. CASE m \in HeldAt(i, p) /\ n \in HeldAt(j, r)
    BY <1>4, <2>1 DEF LineInv, PlacesOrdered, Older
  <2>2. CASE i = 2 /\ p = 3
    <3>1. j = 1
      BY <1>4, <2>2 DEF Ahead, Places, Stages
    <3>2. Place(j, r)' = <<>>
      BY <3>1
    <3>3. HeldAt(j, r)' = {}
      BY <3>2 DEF HeldAt, IdSet
    <3> QED BY <1>4, <3>3
  <2>3. CASE m \in HeldAt(i, p) /\ n = produced + 1
    <3>1. m \in Nat /\ m =< produced
      BY <1>2, <2>3
    <3> QED BY <1>0, <2>3, <3>1
  <2> QED BY <1>1, <2>1, <2>2, <2>3
<1>5. \A m \in Range(delivered) : m < produced + 1 /\ m =< produced + 1
  <2> SUFFICES ASSUME NEW m \in Range(delivered)
               PROVE  m < produced + 1 /\ m =< produced + 1
    OBVIOUS
  <2>1. m \in Nat /\ m =< produced
    BY DeliveredType DEF LineInv, PlacesOrdered
  <2> QED BY <1>0, <2>1
<1>6. ASSUME NEW i \in Stages, NEW p \in Places, NEW n \in HeldAt(i, p)'
      PROVE  n =< produced + 1 /\ \A m \in Range(delivered) : m < n
  <2>1. CASE n \in HeldAt(i, p)
    <3>1. n \in Nat /\ n =< produced
      BY <1>2, <2>1
    <3>2. \A m \in Range(delivered) : m < n
      BY <2>1 DEF LineInv, PlacesOrdered, Older
    <3> QED BY <1>0, <3>1, <3>2
  <2>2. CASE n = produced + 1
    BY <1>0, <1>5, <2>2
  <2> QED BY <1>1, <2>1, <2>2
<1>7. PlacesOrdered'
  <2>1. /\ \A i \in Stages, p \in Places :
             /\ Older(Range(delivered)', HeldAt(i, p)')
             /\ \A n \in HeldAt(i, p)' : n =< produced'
        /\ \A n \in Range(delivered)' : n =< produced'
        /\ Increasing(delivered)'
    BY <1>5, <1>6 DEF LineInv, PlacesOrdered, Older
  <2>2. \A i, j \in Stages, p, r \in Places :
           Ahead(i, p, j, r) => Older(HeldAt(i, p)', HeldAt(j, r)')
    BY <1>4 DEF Older
  <2> QED BY <2>1, <2>2 DEF PlacesOrdered, Older, Ahead
<1>8. Held' \subseteq Held \union {produced + 1}
  BY <1>1 DEF Held
<1> QED BY <1>3, <1>7, <1>8 DEF LineInv

(* The last codec hands its oldest frame to the viewers.                    *)
LEMMA LineDelivers ==
    ASSUME LineInv, TypeOK, produced' = produced, NEW m \in HeldAt(N, 1),
           delivered' = Append(delivered, m),
           \A i \in Stages, p \in Places :
              (i = N /\ p = 1) \/ Place(i, p)' = Place(i, p),
           Sorted(Place(N, 1)'), HeldAt(N, 1) = {m} \union HeldAt(N, 1)',
           Older({m}, HeldAt(N, 1)')
    PROVE  /\ LineInv'
           /\ m \in Held /\ Held' = Held \ {m} /\ \A n \in Held : m =< n
<1>0. /\ N \in Stages /\ 1 \in Places /\ m \in Nat /\ produced \in Nat
      /\ \A i \in Stages, p \in Places : HeldAt(i, p) \subseteq Nat
  <2>1. N \in Stages /\ 1 \in Places /\ produced \in Nat /\ Ids \subseteq Nat
    BY StageFacts DEF Ids, Places, TypeOK
  <2>2. \A i \in Stages, p \in Places : HeldAt(i, p) \subseteq Nat
    BY <2>1, PlaceType
  <2> QED BY <2>1, <2>2
<1>1. ASSUME NEW i \in Stages, NEW p \in Places, i # N \/ p # 1
      PROVE  /\ HeldAt(i, p)' = HeldAt(i, p)
             /\ Ahead(N, 1, i, p) /\ \A n \in HeldAt(i, p) : m < n
  <2>1. HeldAt(i, p)' = HeldAt(i, p)
    BY <1>1 DEF HeldAt
  <2>2. Ahead(N, 1, i, p)
    BY <1>1, PipelineAssumption DEF Ahead, Stages, Places
  <2> QED BY <1>0, <2>1, <2>2 DEF LineInv, PlacesOrdered, Older
<1>2. \A i \in Stages, p \in Places : \A n \in HeldAt(i, p)' :
         n \in HeldAt(i, p) /\ m < n /\ n \in Nat
  BY <1>0, <1>1 DEF Older
<1>3. PlacesSorted'
  BY <1>0 DEF LineInv, PlacesSorted
<1>4. /\ Increasing(delivered')
      /\ \A n \in Range(delivered') : n = m \/ n \in Range(delivered)
  <2> DEFINE D == delivered
             E == delivered'
  <2>1. D \in Seq(Ids) /\ E = Append(D, m) /\ m \in Ids
    BY <1>0, PlaceType DEF TypeOK, Ids
  <2>2. /\ Len(E) = Len(D) + 1 /\ Len(D) \in Nat /\ E[Len(D) + 1] = m
        /\ \A k \in 1..Len(D) : E[k] = D[k]
        /\ DOMAIN E = 1..Len(E) /\ DOMAIN D = 1..Len(D)
    BY <2>1, AppendProperties
  <2>3. Increasing(D) /\ \A n \in Range(D) : n < m
    BY <1>0 DEF LineInv, PlacesOrdered, Older
  <2> HIDE DEF D, E
  <2>4. ASSUME NEW k \in 1..(Len(E) - 1) PROVE E[k] < E[k + 1]
    <3>1. CASE k = Len(D)
      <4>1. k \in DOMAIN D /\ E[k] = D[k] /\ E[k + 1] = m
        BY <2>2, <2>4, <3>1
      <4> QED BY <2>3, <4>1 DEF Range
    <3>2. CASE k # Len(D)
      <4>1. k \in 1..(Len(D) - 1) /\ k \in 1..Len(D) /\ k + 1 \in 1..Len(D)
        <5>1. Len(E) - 1 = Len(D) /\ Len(D) \in Nat
          BY <2>2
        <5>2. k \in 1..Len(D)
          BY <2>4, <5>1
        <5> QED BY <3>2, <5>1, <5>2
      <4> QED BY <2>2, <2>3, <4>1 DEF Increasing
    <3> QED BY <3>1, <3>2
  <2>5. ASSUME NEW n \in Range(E) PROVE n = m \/ n \in Range(D)
    <3>1. PICK k \in 1..(Len(D) + 1) : n = E[k]
      BY <2>2, <2>5 DEF Range
    <3>2. k = Len(D) + 1 \/ k \in 1..Len(D)
      BY <2>2
    <3> QED BY <2>2, <3>1, <3>2 DEF Range
  <2> QED BY <2>4, <2>5 DEF Increasing, D, E
<1>5. PlacesOrdered'
  <2>1. ASSUME NEW i \in Stages, NEW j \in Stages, NEW p \in Places, NEW r \in Places,
               Ahead(i, p, j, r)
        PROVE  Older(HeldAt(i, p)', HeldAt(j, r)')
    BY <1>2, <2>1 DEF LineInv, PlacesOrdered, Older
  <2>2. ASSUME NEW i \in Stages, NEW p \in Places
        PROVE  /\ Older(Range(delivered'), HeldAt(i, p)')
               /\ \A n \in HeldAt(i, p)' : n =< produced'
    BY <1>2, <1>4, <2>2 DEF LineInv, PlacesOrdered, Older
  <2>3. \A n \in Range(delivered') : n =< produced'
    BY <1>0, <1>4 DEF LineInv, PlacesOrdered
  <2>4. /\ \A i, j \in Stages, p, r \in Places :
             Ahead(i, p, j, r) => Older(HeldAt(i, p)', HeldAt(j, r)')
        /\ Increasing(delivered)' /\ Range(delivered)' = Range(delivered')
    BY <1>4, <2>1 DEF Increasing, Range
  <2> QED BY <2>2, <2>3, <2>4 DEF PlacesOrdered, Older, Ahead
<1>6. m \notin HeldAt(N, 1)'
  BY <1>0 DEF Older
<1>7. \A i \in Stages, p \in Places : HeldAt(i, p)' = HeldAt(i, p) \ {m}
  <2> SUFFICES ASSUME NEW i \in Stages, NEW p \in Places
               PROVE  HeldAt(i, p)' = HeldAt(i, p) \ {m}
    OBVIOUS
  <2>1. CASE i = N /\ p = 1
    BY <1>6, <2>1
  <2>2. CASE i # N \/ p # 1
    <3>1. m \notin HeldAt(i, p)
      BY <1>0, <1>1, <2>2
    <3> QED BY <1>1, <2>2, <3>1
  <2> QED BY <2>1, <2>2
<1>8. Held' = Held \ {m} /\ m \in Held
  BY <1>0, <1>7 DEF Held
<1>9. ASSUME NEW n \in Held PROVE m =< n
  <2>1. PICK i \in Stages, p \in Places : n \in HeldAt(i, p)
    BY DEF Held
  <2>2. CASE n = m
    BY <1>0, <2>2
  <2>3. CASE n # m
    BY <1>0, <1>2, <1>7, <2>1, <2>3
  <2> QED BY <2>2, <2>3
<1> QED BY <1>3, <1>5, <1>8, <1>9 DEF LineInv

-----------------------------------------------------------------------------
(* A step of the pipeline as a step of the stream.                          *)
StreamStep ==
    \/ Held' \subseteq Held /\ UNCHANGED <<produced, delivered>>
    \/ /\ produced' = produced + 1 /\ delivered' = delivered
       /\ Held' \subseteq Held \union {produced + 1}
    \/ \E m \in Held :
          /\ \A n \in Held : m =< n
          /\ delivered' = Append(delivered, m)
          /\ Held' = Held \ {m} /\ produced' = produced

(* Place, case by case.                                                     *)
LEMMA PlaceCases ==
    /\ Places = {1, 2, 3}
    /\ \A i : /\ Place(i, 1) = codec[i] /\ Place(i, 2) = hand[i]
              /\ Place(i, 3) = queue[i].frames
    /\ \A i : /\ Place(i, 1)' = codec'[i] /\ Place(i, 2)' = hand'[i]
              /\ Place(i, 3)' = queue'[i].frames
BY DEF Places, Place

(* Push of a frame that the stage in front holds.                           *)
LEMMA PushLine ==
    ASSUME TypeOK, LineInv, NEW i \in Stages, i # N, NEW sp \in {1, 2},
           NEW f \in Frames, f.id \in HeldAt(i, sp), NEW r \in Push(queue[i + 1], f),
           queue' = [queue EXCEPT ![i + 1] = r.queue]
    PROVE  /\ i + 1 \in Stages /\ Ahead(i + 1, 3, i, sp)
           /\ Sorted(Place(i + 1, 3)')
           /\ HeldAt(i + 1, 3)' \subseteq HeldAt(i + 1, 3) \union {f.id}
<1>1. i + 1 \in Stages /\ Ahead(i + 1, 3, i, sp)
  BY StageFacts DEF Ahead
<1>2. Older(HeldAt(i + 1, 3), HeldAt(i, sp)) /\ Sorted(Place(i + 1, 3))
  <2>1. 3 \in Places /\ sp \in Places
    BY DEF Places
  <2> QED BY <1>1, <2>1 DEF LineInv, PlacesOrdered, PlacesSorted
<1>3. /\ Place(i + 1, 3) = queue[i + 1].frames
      /\ HeldAt(i + 1, 3) = IdSet(queue[i + 1].frames)
      /\ Place(i + 1, 3)' = r.queue.frames
      /\ HeldAt(i + 1, 3)' = IdSet(r.queue.frames)
  BY <1>1 DEF TypeOK, Place, HeldAt
<1>4. Older(IdSet(queue[i + 1].frames), {f.id})
  BY <1>2, <1>3 DEF Older
<1>5. queue[i + 1] \in Queues(Frames)
  BY <1>1 DEF TypeOK
<1>6. /\ IdSet(r.queue.frames) \subseteq IdSet(queue[i + 1].frames) \union {f.id}
      /\ Sorted(queue[i + 1].frames) => Sorted(r.queue.frames)
  BY <1>4, <1>5, PushSorted
<1> QED BY <1>1, <1>2, <1>3, <1>6

(* One frame out of a codec.                                                *)
LEMMA LineEmit ==
    ASSUME TypeOK, LineInv, NEW i \in Stages, EmitFromCodec(i),
           hand' = hand, produced' = produced
    PROVE  LineInv' /\ StreamStep
<1> DEFINE s == codec[i]
           f == Head(s)
           decoded == [id |-> f.id, ch |-> NoChannel, key |-> f.key]
<1>1. /\ s \in Seq(Frames) /\ s # <<>>
      /\ codec' = [codec EXCEPT ![i] = Tail(s)] /\ codec'[i] = Tail(s)
      /\ Place(i, 1) = s /\ Sorted(s) /\ Place(i, 1)' = Tail(s)
  <2>1. s \in Seq(Frames) /\ s # <<>> /\ codec' = [codec EXCEPT ![i] = Tail(s)]
    BY DEF TypeOK, EmitFromCodec
  <2>2. codec'[i] = Tail(s)
    BY <2>1 DEF TypeOK
  <2> QED BY <2>1, <2>2, PlaceCases DEF LineInv, PlacesSorted
<1>2. f \in Frames /\ decoded \in Frames /\ decoded.id = f.id
  <2>1. f \in Frames
    BY <1>1, SeqTails
  <2> QED BY <2>1 DEF Frames
<1>3. /\ HeldAt(i, 1) = {f.id} \union HeldAt(i, 1)'
      /\ Sorted(Place(i, 1)') /\ Older({f.id}, HeldAt(i, 1)')
  BY <1>1, TailSorted DEF HeldAt
<1>4. \A j \in Stages : /\ j # i => Place(j, 1)' = Place(j, 1)
                        /\ Place(j, 2)' = Place(j, 2)
  BY <1>1, PlaceCases DEF TypeOK
<1>5. CASE i = N
  <2>1. delivered' = Append(delivered, f.id) /\ queue' = queue
    BY <1>5 DEF EmitFromCodec
  <2>2. \A j \in Stages, p \in Places :
           (j = N /\ p = 1) \/ Place(j, p)' = Place(j, p)
    BY <1>4, <1>5, <2>1, PlaceCases
  <2>3. f.id \in HeldAt(N, 1)
    BY <1>3, <1>5
  <2>4. /\ LineInv'
        /\ f.id \in Held /\ Held' = Held \ {f.id} /\ \A n \in Held : f.id =< n
    BY <1>3, <1>5, <2>1, <2>2, <2>3, LineDelivers
  <2> QED BY <2>1, <2>4 DEF StreamStep
<1>6. CASE i # N /\ queue' = queue
  <2>1. delivered' = delivered
    BY <1>6 DEF EmitFromCodec
  <2>2. \A j \in Stages, p \in Places :
           \/ Place(j, p)' = Place(j, p)
           \/ Sorted(Place(j, p)') /\ HeldAt(j, p)' \subseteq HeldAt(j, p)
    BY <1>3, <1>4, <1>6, PlaceCases
  <2>3. LineInv' /\ Held' \subseteq Held
    BY <2>1, <2>2, LineShrinks
  <2> QED BY <2>1, <2>3 DEF StreamStep
<1>7. CASE i # N /\ queue' # queue
  <2>1. delivered' = delivered
    BY <1>7 DEF EmitFromCodec
  <2>2. PICK r \in Push(queue[i + 1], decoded) :
           queue' = [queue EXCEPT ![i + 1] = r.queue]
    BY <1>7 DEF EmitFromCodec
  <2>3. decoded.id \in HeldAt(i, 1)
    BY <1>2, <1>3
  <2>4. /\ i + 1 \in Stages /\ Ahead(i + 1, 3, i, 1)
        /\ Sorted(Place(i + 1, 3)')
        /\ HeldAt(i + 1, 3)' \subseteq HeldAt(i + 1, 3) \union {decoded.id}
    BY <1>2, <1>7, <2>2, <2>3, PushLine
  <2>5. \A j \in Stages : j # i + 1 => Place(j, 3)' = Place(j, 3)
    <3>1. \A j \in Stages : j # i + 1 => queue'[j] = queue[j]
      BY <2>2 DEF TypeOK
    <3> QED BY <3>1, PlaceCases
  <2>6. \A j \in Stages, p \in Places :
           (j = i /\ p = 1) \/ (j = i + 1 /\ p = 3) \/ Place(j, p)' = Place(j, p)
    BY <1>4, <2>5, PlaceCases
  <2>7. \A j \in Stages, p \in Places :
           ~(Ahead(i + 1, 3, j, p) /\ Ahead(j, p, i, 1))
    BY DEF Ahead, Stages, Places
  <2>8. {f.id} \in SUBSET HeldAt(i, 1) /\ HeldAt(i, 1)' \subseteq HeldAt(i, 1)
    BY <1>3
  <2>9. 1 \in Places /\ 3 \in Places
    BY PlaceCases
  <2>10. LineInv' /\ Held' \subseteq Held
    <3> HIDE DEF f, decoded
    <3> QED BY <1>2, <1>3, <1>7, <2>1, <2>4, <2>6, <2>7, <2>8, <2>9, LineMoves
  <2> QED BY <2>1, <2>10 DEF StreamStep
<1> QED BY <1>5, <1>6, <1>7

(* A step that touches no frame.                                            *)
LEMMA LineStays ==
    ASSUME LineInv, UNCHANGED <<produced, delivered, hand, codec>>,
           \A j \in Stages : queue'[j].frames = queue[j].frames
    PROVE  LineInv' /\ StreamStep
<1>1. \A j \in Stages, p \in Places : Place(j, p)' = Place(j, p)
  BY PlaceCases
<1>2. LineInv' /\ Held' \subseteq Held
  BY <1>1, LineShrinks
<1> QED BY <1>2 DEF StreamStep

(* A packet from the camera: stage 1 has no frames of its own.              *)
LEMMA LinePacket ==
    ASSUME TypeOK, QuietInv, SourceInv, LineInv, NEW isKey \in BOOLEAN, OnPacket(isKey)
    PROVE  LineInv' /\ StreamStep
<1> DEFINE f == [id |-> produced + 1, ch |-> ChannelId, key |-> isKey]
<1>1. /\ produced' = produced + 1 /\ delivered' = delivered
      /\ hand' = hand /\ codec' = codec
      /\ produced \in Nat /\ 2 \in Stages /\ 1 \in Stages /\ Source + 1 = 2
  BY StageFacts DEF OnPacket, threadVars, TypeOK
<1>2. PICK r \in Push(queue[Source + 1], f) :
         queue' = [queue EXCEPT ![Source + 1] = r.queue]
  BY DEF OnPacket
<1>3. r \in Push(queue[2], f) /\ queue' = [queue EXCEPT ![2] = r.queue]
  BY <1>1, <1>2
<1>4. f \in Frames /\ f.id = produced + 1 /\ queue[2] \in Queues(Frames)
  <2>1. queue[2] \in Queues(Frames)
    BY <1>1 DEF TypeOK
  <2> QED BY <1>1, <2>1 DEF Frames
<1> HIDE DEF f
<1>5. /\ IdSet(r.queue.frames) \subseteq IdSet(queue[2].frames) \union {f.id}
      /\ Sorted(queue[2].frames) /\ Older(IdSet(queue[2].frames), {f.id})
            => Sorted(r.queue.frames)
  BY <1>3, <1>4, PushSorted
<1>6. /\ \A j \in Stages : j # 2 => queue'[j] = queue[j]
      /\ queue'[2] = r.queue
  BY <1>1, <1>3 DEF TypeOK
<1>7. /\ Place(2, 3) = queue[2].frames /\ Place(2, 3)' = r.queue.frames
      /\ HeldAt(2, 3) = IdSet(queue[2].frames)
      /\ HeldAt(2, 3)' = IdSet(r.queue.frames)
      /\ 3 \in Places
  BY <1>6, PlaceCases DEF HeldAt
<1>8. Sorted(queue[2].frames) /\ Older(IdSet(queue[2].frames), {f.id})
  <2>1. Sorted(Place(2, 3)) /\ \A n \in HeldAt(2, 3) : n =< produced
    BY <1>1, <1>7 DEF LineInv, PlacesSorted, PlacesOrdered
  <2>2. HeldAt(2, 3) \subseteq Nat
    BY <1>1, <1>7, PlaceType DEF Ids
  <2>3. \A n \in HeldAt(2, 3) : n < produced + 1
    BY <1>1, <2>1, <2>2
  <2> QED BY <1>4, <1>7, <2>1, <2>3 DEF Older
<1>9. \A j \in Stages, p \in Places :
         (j = 2 /\ p = 3) \/ Place(j, p)' = Place(j, p)
  BY <1>1, <1>6, PlaceCases
<1>10. \A p \in Places : Place(1, p) = <<>>
  <2>1. codec[1] = <<>>
    BY <1>1, PipelineAssumption DEF QuietInv, StageInv, CodecStages
  <2> QED BY <2>1, PlaceCases DEF SourceInv
<1>11. LineInv' /\ Held' \subseteq Held \union {produced + 1}
  BY <1>1, <1>4, <1>5, <1>7, <1>8, <1>9, <1>10, LineGrows
<1> QED BY <1>1, <1>11 DEF StreamStep

(* A worker takes the front of its queue into its empty hand.               *)
LEMMA LinePop ==
    ASSUME TypeOK, QuietInv, LineInv, NEW i \in Stages, WorkerPop(i)
    PROVE  LineInv' /\ StreamStep
<1>1. PICK n \in {1, BatchSize[i]} :
         /\ hand' = [hand EXCEPT ![i] = Popped(queue[i], n)]
         /\ queue' = [queue EXCEPT ![i] = AfterPop(queue[i], n)]
  BY DEF WorkerPop
<1>2. /\ n \in Nat \ {0} /\ ~Empty(queue[i]) /\ queue[i] \in Queues(Frames)
      /\ hand[i] = <<>> /\ UNCHANGED <<codec, produced, delivered>>
  <2>1. n \in Nat \ {0} /\ queue[i] \in Queues(Frames)
    BY PipelineAssumption DEF TypeOK
  <2>2. ~Empty(queue[i]) /\ UNCHANGED <<codec, produced, delivered>>
    BY DEF WorkerPop, streamVars
  <2>3. hand[i] = <<>>
    BY DEF WorkerPop, QuietInv, StageInv
  <2> QED BY <2>1, <2>2, <2>3
<1> DEFINE a == Popped(queue[i], n)
           b == AfterPop(queue[i], n).frames
<1>3. /\ IdSet(a) \subseteq IdSet(queue[i].frames)
      /\ IdSet(b) \subseteq IdSet(queue[i].frames)
      /\ Sorted(queue[i].frames) => Sorted(a) /\ Sorted(b) /\ Older(IdSet(a), IdSet(b))
  BY <1>2, PopSorted
<1>4. /\ hand'[i] = a /\ queue'[i].frames = b
      /\ \A j \in Stages : j # i => hand'[j] = hand[j] /\ queue'[j] = queue[j]
  BY <1>1 DEF TypeOK
<1> HIDE DEF a, b
<1>5. /\ Place(i, 2)' = a /\ Place(i, 3) = queue[i].frames /\ Place(i, 3)' = b
      /\ 2 \in Places /\ 3 \in Places
  BY <1>4, PlaceCases
<1>6. /\ HeldAt(i, 2)' = IdSet(a) /\ HeldAt(i, 3)' = IdSet(b)
      /\ HeldAt(i, 3) = IdSet(queue[i].frames)
  BY <1>5 DEF HeldAt
<1>7. Sorted(a) /\ Sorted(b) /\ Older(IdSet(a), IdSet(b))
  BY <1>3, <1>5 DEF LineInv, PlacesSorted
<1>8. \A j \in Stages, p \in Places :
         (j = i /\ p = 3) \/ (j = i /\ p = 2) \/ Place(j, p)' = Place(j, p)
  BY <1>2, <1>4, PlaceCases
<1>9. Ahead(i, 2, i, 3) /\ \A j \in Stages, p \in Places :
         ~(Ahead(i, 2, j, p) /\ Ahead(j, p, i, 3))
  BY DEF Ahead, Stages, Places
<1>10. LineInv' /\ Held' \subseteq Held
  BY <1>2, <1>3, <1>5, <1>6, <1>7, <1>8, <1>9, LineMoves
<1> QED BY <1>2, <1>10 DEF StreamStep

(* What a worker does with the front of its hand.                           *)
LEMMA HandFront ==
    ASSUME TypeOK, InHand, LineInv, NEW i \in Stages, worker[i] = "busy"
    PROVE  /\ hand[i] \in Seq(Frames) /\ hand[i] # <<>>
           /\ Head(hand[i]) \in Frames /\ Tail(hand[i]) \in Seq(Frames)
           /\ HeldAt(i, 2) = {Head(hand[i]).id} \union IdSet(Tail(hand[i]))
           /\ Sorted(Tail(hand[i]))
           /\ Older({Head(hand[i]).id}, IdSet(Tail(hand[i])))
<1>1. /\ hand[i] \in Seq(Frames) /\ hand[i] # <<>>
      /\ Place(i, 2) = hand[i] /\ 2 \in Places
  BY PlaceCases DEF TypeOK, InHand
<1>2. Head(hand[i]) \in Frames /\ Tail(hand[i]) \in Seq(Frames)
  BY <1>1, SeqTails
<1>3. HeldAt(i, 2) = IdSet(hand[i]) /\ Sorted(hand[i])
  BY <1>1 DEF HeldAt, LineInv, PlacesSorted
<1> QED BY <1>1, <1>2, <1>3, TailSorted

(* The empty sequence.                                                      *)
LEMMA EmptySorted == Sorted(<<>>) /\ IdSet(<<>>) = {}
BY DEF Sorted, IdSet

(* A forwarding stage passes its first frame on.                            *)
LEMMA LineForward ==
    ASSUME TypeOK, InHand, QuietInv, LineInv, NEW i \in Stages, Forward(i)
    PROVE  LineInv' /\ StreamStep
<1> DEFINE f == Head(hand[i])
           t == Tail(hand[i])
<1>1. /\ worker[i] = "busy" /\ i # N /\ codec[i] = <<>>
      /\ UNCHANGED <<codec, produced, delivered>>
  BY DEF Forward, QuietInv, StageInv, CodecStages
<1>2. /\ f \in Frames /\ t \in Seq(Frames)
      /\ HeldAt(i, 2) = {f.id} \union IdSet(t)
      /\ Sorted(t) /\ Older({f.id}, IdSet(t))
  BY <1>1, HandFront
<1>3. PICK r \in Push(queue[i + 1], f), h \in {t, <<>>} :
         /\ queue' = [queue EXCEPT ![i + 1] = r.queue]
         /\ hand' = [hand EXCEPT ![i] = h]
  BY DEF Forward, FrameDone, BatchFailed
<1> HIDE DEF f, t
<1>4. /\ i + 1 \in Stages /\ Ahead(i + 1, 3, i, 2)
      /\ Sorted(Place(i + 1, 3)')
      /\ HeldAt(i + 1, 3)' \subseteq HeldAt(i + 1, 3) \union {f.id}
  BY <1>1, <1>2, <1>3, PushLine
<1>5. /\ hand'[i] = h
      /\ \A j \in Stages : j # i => hand'[j] = hand[j]
      /\ \A j \in Stages : j # i + 1 => queue'[j] = queue[j]
  BY <1>3 DEF TypeOK
<1>6. \A j \in Stages, p \in Places :
         (j = i /\ p = 2) \/ (j = i + 1 /\ p = 3) \/ Place(j, p)' = Place(j, p)
  BY <1>1, <1>5, PlaceCases
<1>7. /\ Place(i, 2)' = h /\ HeldAt(i, 2)' = IdSet(h)
      /\ 2 \in Places /\ 3 \in Places
  BY <1>5, PlaceCases DEF HeldAt
<1>8. /\ Sorted(h) /\ IdSet(h) \subseteq HeldAt(i, 2)
      /\ Older({f.id}, IdSet(h)) /\ {f.id} \in SUBSET HeldAt(i, 2)
  BY <1>2, <1>3, EmptySorted DEF Older
<1>9. ASSUME NEW j \in Stages, NEW p \in Places,
             Ahead(i + 1, 3, j, p), Ahead(j, p, i, 2)
      PROVE  Place(j, p) = <<>>
  <2>1. j = i /\ p = 1
    BY <1>9 DEF Ahead, Stages, Places
  <2> QED BY <1>1, <2>1, PlaceCases
<1>10. LineInv' /\ Held' \subseteq Held
  BY <1>1, <1>4, <1>6, <1>7, <1>8, <1>9, LineMoves
<1> QED BY <1>1, <1>10 DEF StreamStep

(* The first frame in hand enters the codec.                                *)
LEMMA LineEnter ==
    ASSUME TypeOK, InHand, LineInv, NEW i \in Stages, EnterCodec(i)
    PROVE  LineInv' /\ StreamStep
<1> DEFINE f == Head(hand[i])
           t == Tail(hand[i])
<1>1. /\ worker[i] = "busy" /\ UNCHANGED <<queue, produced, delivered>>
      /\ hand' = [hand EXCEPT ![i] = t]
      /\ \E c \in {Append(codec[i], f), <<f>>} : codec' = [codec EXCEPT ![i] = c]
  BY DEF EnterCodec
<1>2. /\ f \in Frames /\ t \in Seq(Frames)
      /\ HeldAt(i, 2) = {f.id} \union IdSet(t)
      /\ Sorted(t) /\ Older({f.id}, IdSet(t))
  BY <1>1, HandFront
<1>3. PICK c \in {Append(codec[i], f), <<f>>} : codec' = [codec EXCEPT ![i] = c]
  BY <1>1
<1> HIDE DEF f, t
<1>4. /\ hand'[i] = t /\ codec'[i] = c
      /\ \A j \in Stages : j # i => hand'[j] = hand[j] /\ codec'[j] = codec[j]
  BY <1>1, <1>3 DEF TypeOK
<1>5. /\ Place(i, 1) = codec[i] /\ Place(i, 1)' = c /\ Place(i, 2)' = t
      /\ 1 \in Places /\ 2 \in Places
  BY <1>4, PlaceCases
<1>6. /\ HeldAt(i, 1) = IdSet(codec[i]) /\ HeldAt(i, 1)' = IdSet(c)
      /\ HeldAt(i, 2)' = IdSet(t)
  BY <1>5 DEF HeldAt
<1>7. Ahead(i, 1, i, 2) /\ \A j \in Stages, p \in Places :
         ~(Ahead(i, 1, j, p) /\ Ahead(j, p, i, 2))
  BY DEF Ahead, Stages, Places
<1>8. Sorted(c) /\ IdSet(c) \subseteq HeldAt(i, 1) \union {f.id}
  <2>1. codec[i] \in Seq(Frames) /\ Sorted(codec[i])
    BY <1>5 DEF TypeOK, LineInv, PlacesSorted
  <2>2. Older(IdSet(codec[i]), {f.id})
    <3>1. Older(HeldAt(i, 1), HeldAt(i, 2))
      BY <1>5, <1>7 DEF LineInv, PlacesOrdered
    <3> QED BY <1>2, <1>6, <3>1 DEF Older
  <2>3. CASE c = Append(codec[i], f)
    BY <1>2, <1>6, <2>1, <2>2, <2>3, AppendSorted
  <2>4. CASE c = <<f>>
    <3>1. Len(c) = 1 /\ c[1] = f
      BY <2>4
    <3> QED BY <3>1 DEF Sorted, IdSet
  <2> QED BY <2>3, <2>4
<1>9. \A j \in Stages, p \in Places :
         (j = i /\ p = 2) \/ (j = i /\ p = 1) \/ Place(j, p)' = Place(j, p)
  BY <1>1, <1>4, PlaceCases
<1>10. {f.id} \in SUBSET HeldAt(i, 2) /\ IdSet(t) \subseteq HeldAt(i, 2)
  BY <1>2
<1>11. LineInv' /\ Held' \subseteq Held
  BY <1>1, <1>2, <1>5, <1>6, <1>7, <1>8, <1>9, <1>10, LineMoves
<1> QED BY <1>1, <1>11 DEF StreamStep

(* The steps of the workers.                                                *)
LEMMA LineWorker ==
    ASSUME TypeOK, InHand, QuietInv, LineInv, NEW i \in Stages, WorkerStep(i)
    PROVE  LineInv' /\ StreamStep
<1>1. CASE EmitFrame(i)
  BY <1>1, LineEmit DEF EmitFrame
<1>2. CASE LeaveCodec(i)
  <2>1. hand' = [hand EXCEPT ![i] = hand[i]]
    BY <1>2 DEF LeaveCodec, FrameDone
  <2>2. hand' = hand
    BY <2>1 DEF TypeOK
  <2>3. UNCHANGED <<queue, codec, produced, delivered>>
    BY <1>2 DEF LeaveCodec, streamVars
  <2> QED BY <2>2, <2>3, LineStays
<1>3. CASE CodecFails(i)
  <2>1. /\ hand' = [hand EXCEPT ![i] = <<>>]
        /\ UNCHANGED <<queue, codec, produced, delivered>>
    BY <1>3 DEF CodecFails, BatchFailed
  <2>2. hand'[i] = <<>> /\ \A j \in Stages : j # i => hand'[j] = hand[j]
    BY <2>1 DEF TypeOK
  <2>3. Sorted(Place(i, 2)') /\ HeldAt(i, 2)' = {}
    BY <2>2, PlaceCases, EmptySorted DEF HeldAt
  <2>4. \A j \in Stages, p \in Places :
           \/ Place(j, p)' = Place(j, p)
           \/ Sorted(Place(j, p)') /\ HeldAt(j, p)' \subseteq HeldAt(j, p)
    BY <2>1, <2>2, <2>3, PlaceCases
  <2>5. LineInv' /\ Held' \subseteq Held
    BY <2>1, <2>4, LineShrinks
  <2> QED BY <2>1, <2>5 DEF StreamStep
<1>4. CASE WorkerExit(i)
  BY <1>4, LineStays DEF WorkerExit, streamVars
<1> QED BY <1>1, <1>2, <1>3, <1>4, LinePop, LineForward, LineEnter DEF WorkerStep

(* LineInv is inductive, given the others, and every step is one of the     *)
(* stream.                                                                  *)
LEMMA LineStep ==
    TypeOK /\ InHand /\ QuietInv /\ SourceInv /\ LineInv /\ [Next]_vars
        => LineInv' /\ StreamStep
<1> SUFFICES ASSUME TypeOK, InHand, QuietInv, SourceInv, LineInv, [Next]_vars
             PROVE  LineInv' /\ StreamStep
  OBVIOUS
<1>1. CASE ApiCall
  BY <1>1, LineStays
     DEF ApiCall, Initialize, Start, Stop, DrainAndStop, threadVars, streamVars
<1>2. CASE CtlStep
  <2>1. CASE ShutdownStages
    <3>1. hand' = hand /\ produced' = produced /\ ctl.k \in Stages
      BY <2>1 DEF ShutdownStages, InHand, InLoop
    <3>2. EmitFromCodec(ctl.k) \/ UNCHANGED <<queue, codec, delivered>>
      BY <2>1 DEF ShutdownStages
    <3> QED BY <3>1, <3>2, LineEmit, LineStays
  <2>2. CASE ShutdownQueues
    <3>1. /\ UNCHANGED <<produced, delivered, hand, codec>>
          /\ queue' = [queue EXCEPT ![ctl.k] = Shutdown(@)]
      BY <2>2 DEF ShutdownQueues, threadVars, streamVars
    <3>2. ASSUME NEW j \in Stages PROVE queue'[j].frames = queue[j].frames
      <4>1. queue[j] \in Queues(Frames)
        BY DEF TypeOK
      <4>2. Shutdown(queue[j]).frames = queue[j].frames
        BY <4>1 DEF Shutdown, Queues
      <4> QED BY <3>1, <4>2 DEF TypeOK
    <3> QED BY <3>1, <3>2, LineStays
  <2>3. CASE OnPipelineStart \/ DrainPoll \/ OnPipelineStop \/ ClearRunning \/ JoinWorkers
    BY <2>3, LineStays DEF OnPipelineStart, DrainPoll, OnPipelineStop, ClearRunning,
       JoinWorkers, threadVars, streamVars
  <2> QED BY <1>2, <2>1, <2>2, <2>3 DEF CtlStep
<1>3. CASE UNCHANGED vars
  BY <1>3, LineStays DEF vars
<1> QED BY <1>1, <1>2, <1>3, LinePacket, LineWorker DEF Next

-----------------------------------------------------------------------------
OrderInv == TypeOK /\ InHand /\ QuietInv /\ SourceInv /\ LineInv

(* An empty pipeline is in order.                                           *)
LEMMA OrderInit == Init => OrderInv /\ Held = {}
<1> SUFFICES ASSUME Init PROVE OrderInv /\ Held = {}
  OBVIOUS
<1>1. TypeOK /\ InHand /\ QuietInv
  BY InitType, QuietInit
<1>2. SourceInv
  BY StageFacts DEF Init, SourceInv, NewQueue
<1>3. \A i \in Stages, p \in Places : Place(i, p) = <<>>
  BY PlaceCases DEF Init, NewQueue
<1>4. \A i \in Stages, p \in Places : HeldAt(i, p) = {} /\ Sorted(Place(i, p))
  BY <1>3, EmptySorted DEF HeldAt
<1>5. Range(delivered) = {} /\ Increasing(delivered)
  BY DEF Init, Range, Increasing
<1>6. LineInv
  BY <1>4, <1>5 DEF LineInv, PlacesSorted, PlacesOrdered, Older
<1> QED BY <1>1, <1>2, <1>4, <1>6 DEF OrderInv, Held

(* OrderInv is inductive.                                                   *)
LEMMA OrderStep == OrderInv /\ [Next]_vars => OrderInv' /\ StreamStep
BY TypeStep, QuietStep, SourceStep, LineStep DEF OrderInv

(* The line of a stage is its three places, one after the other.            *)
LEMMA LineIsPlaces ==
    ASSUME TypeOK, LineInv, NEW i \in Stages
    PROVE  /\ Line(i) \in Seq(Frames) /\ Sorted(Line(i))
           /\ IdSet(Line(i)) = UNION {HeldAt(i, p) : p \in Places}
<1> DEFINE a == codec[i]
           b == hand[i]
           c == queue[i].frames
<1>1. /\ 1 \in Places /\ 2 \in Places /\ 3 \in Places
      /\ Place(i, 1) = a /\ Place(i, 2) = b /\ Place(i, 3) = c
  BY PlaceCases
<1>2. /\ a \in Seq(Frames) /\ b \in Seq(Frames) /\ c \in Seq(Frames)
      /\ Sorted(a) /\ Sorted(b) /\ Sorted(c)
  BY <1>1, PlaceType DEF LineInv, PlacesSorted
<1>3. HeldAt(i, 1) = IdSet(a) /\ HeldAt(i, 2) = IdSet(b) /\ HeldAt(i, 3) = IdSet(c)
  BY <1>1 DEF HeldAt
<1>4. /\ Older(IdSet(a), IdSet(b)) /\ Older(IdSet(a), IdSet(c))
      /\ Older(IdSet(b), IdSet(c))
  <2>1. Ahead(i, 1, i, 2) /\ Ahead(i, 1, i, 3) /\ Ahead(i, 2, i, 3)
    BY DEF Ahead
  <2> QED BY <1>1, <1>3, <2>1 DEF LineInv, PlacesOrdered
<1> HIDE DEF a, b, c
<1>5. /\ a \o b \in Seq(Frames) /\ IdSet(a \o b) = IdSet(a) \union IdSet(b)
      /\ Sorted(a \o b)
  BY <1>2, <1>4, ConcatSorted
<1>6. Older(IdSet(a \o b), IdSet(c))
  BY <1>4, <1>5 DEF Older
<1>7. /\ (a \o b) \o c \in Seq(Frames) /\ Sorted((a \o b) \o c)
      /\ IdSet((a \o b) \o c) = IdSet(a) \union IdSet(b) \union IdSet(c)
  BY <1>2, <1>5, <1>6, ConcatSorted
<1>8. Line(i) = (a \o b) \o c
  BY DEF Line, a, b, c
<1>9. UNION {HeldAt(i, p) : p \in Places} = IdSet(a) \union IdSet(b) \union IdSet(c)
  BY <1>3, PlaceCases
<1> QED BY <1>7, <1>8, <1>9

(* What the stream calls pending.                                           *)
LEMMA PendingIsHeld == TypeOK /\ LineInv => Pending = Held
BY LineIsPlaces DEF Pending, Held

(* OrderInv is the order across queues, hands, codecs and viewers.          *)
LEMMA OrderSuffices == OrderInv => InOrder
<1> SUFFICES ASSUME OrderInv PROVE InOrder
  OBVIOUS
<1>0. TypeOK /\ LineInv /\ produced \in Nat
  BY DEF OrderInv, TypeOK
<1>1. Increasing(delivered)
  BY <1>0 DEF LineInv, PlacesOrdered
<1>2. ASSUME NEW i \in Stages, NEW k \in 1..(Len(Line(i)) - 1)
      PROVE  Line(i)[k].id < Line(i)[k + 1].id
  <2>1. Line(i) \in Seq(Frames) /\ Sorted(Line(i))
    BY <1>0, LineIsPlaces
  <2>2. Len(Line(i)) \in Nat
    BY <2>1
  <2>3. k \in 1..Len(Line(i)) /\ k + 1 \in 1..Len(Line(i)) /\ k < k + 1
    BY <1>2, <2>2
  <2> QED BY <2>1, <2>3 DEF Sorted
<1>3. ASSUME NEW i \in Stages, NEW n \in IdSet(Line(i))
      PROVE  /\ \A m \in Range(delivered) : m < n
             /\ n < produced + 1
             /\ \A j \in Stages : j < i => \A m \in IdSet(Line(j)) : n < m
  <2>1. PICK p \in Places : n \in HeldAt(i, p)
    BY <1>0, <1>3, LineIsPlaces
  <2>2. n \in Nat /\ n =< produced /\ \A m \in Range(delivered) : m < n
    BY <1>0, <2>1, PlaceType DEF LineInv, PlacesOrdered, Older, Ids
  <2>3. ASSUME NEW j \in Stages, j < i, NEW m \in IdSet(Line(j)) PROVE n < m
    <3>1. PICK r \in Places : m \in HeldAt(j, r)
      BY <1>0, <2>3, LineIsPlaces
    <3>2. Ahead(i, p, j, r)
      BY <2>3 DEF Ahead
    <3> QED BY <1>0, <2>1, <3>1, <3>2 DEF LineInv, PlacesOrdered, Older
  <2> QED BY <1>0, <2>2, <2>3
<1> QED BY <1>1, <1>2, <1>3 DEF InOrder, Older

(* No frame overtakes another, whatever the number of stages and threads:   *)
(* what a later stage holds is older than all an earlier stage holds, and   *)
(* everything held is younger than what the viewers got.                    *)
THEOREM InOrderAlways == Spec => []InOrder
<1>1. Init => OrderInv
  BY OrderInit
<1>2. OrderInv /\ [Next]_vars => OrderInv'
  BY OrderStep
<1> QED BY <1>1, <1>2, OrderSuffices, PTL DEF Spec

(* The pipeline implements FrameStream: a packet is an arrival, a frame     *)
(* given to the output callback is the oldest one inside, and every other   *)
(* step only loses frames.                                                  *)
THEOREM ImplementsFrameStream == Spec => IsFrameStream
<1>1. Init => OrderInv /\ Stream!Init
  <2> SUFFICES ASSUME Init PROVE OrderInv /\ Stream!Init
    OBVIOUS
  <2>1. OrderInv /\ Pending = {}
    BY OrderInit, PendingIsHeld DEF OrderInv
  <2> QED BY <2>1 DEF Init, Stream!Init
<1>2. OrderInv /\ [Next]_vars => OrderInv' /\ [Stream!Next]_(Stream!vars)
  <2> SUFFICES ASSUME OrderInv, [Next]_vars
               PROVE  OrderInv' /\ Stream!Next
    OBVIOUS
  <2>1. OrderInv' /\ StreamStep
    BY OrderStep
  <2>2. Pending = Held
    BY PendingIsHeld DEF OrderInv
  <2>3. Pending' = Held'
    <3>1. TypeOK' /\ LineInv'
      BY <2>1 DEF OrderInv
    <3>2. (TypeOK /\ LineInv => Pending = Held)'
      BY PendingIsHeld, PTL
    <3> QED BY <3>1, <3>2
  <2>4. Stream!Next
    BY <2>1, <2>2, <2>3
       DEF StreamStep, Stream!Next, Stream!Arrive, Stream!Lose, Stream!Deliver
  <2> QED BY <2>1, <2>4
<1> QED BY <1>1, <1>2, PTL DEF Spec, IsFrameStream, Stream!Spec

-----------------------------------------------------------------------------
(* The account of the frames.  A frame that leaves the places was delivered, *)
(* noted as lost, or counted by the one queue that turned it away.           *)

Missed == lost.door \union lost.inside \union lost.stage

CountInv ==
    /\ \A n \in Missed : n \in Nat \ {0} /\ n =< produced
    /\ Missed \intersect Held = {}
    /\ FramesDropped \in Nat
    /\ produced = Len(delivered) + Cardinality(Held) + FramesDropped
                    + Cardinality(Missed)

(* What is held or missed is a finite set of frames received.               *)
LEMMA HeldFinite ==
    ASSUME TypeOK, LineInv
    PROVE  /\ produced \in Nat /\ Len(delivered) \in Nat
           /\ Held \subseteq 1..produced /\ IsFiniteSet(1..produced)
           /\ IsFiniteSet(Held) /\ Cardinality(Held) \in Nat
<1>1. produced \in Nat /\ Len(delivered) \in Nat
  BY DEF TypeOK
<1>2. ASSUME NEW i \in Stages, NEW p \in Places, NEW n \in HeldAt(i, p)
      PROVE  n \in 1..produced
  <2>1. n \in Ids
    BY PlaceType
  <2>2. n =< produced
    BY DEF LineInv, PlacesOrdered
  <2> QED BY <1>1, <2>1, <2>2 DEF Ids
<1>3. Held \subseteq 1..produced
  BY <1>2 DEF Held
<1>4. IsFiniteSet(1..produced)
  BY <1>1, FS_Interval
<1>5. IsFiniteSet(Held)
  BY <1>3, <1>4, FS_Subset
<1> QED BY <1>1, <1>3, <1>4, <1>5, FS_CardinalityType

(* So is what was missed.                                                   *)
LEMMA MissedFinite ==
    ASSUME TypeOK, CountInv
    PROVE  /\ Missed \subseteq 1..produced
           /\ IsFiniteSet(Missed) /\ Cardinality(Missed) \in Nat
<1>1. produced \in Nat
  BY DEF TypeOK
<1>2. Missed \subseteq 1..produced
  BY <1>1 DEF CountInv
<1>3. IsFiniteSet(1..produced)
  BY <1>1, FS_Interval
<1> QED BY <1>2, <1>3, FS_Subset, FS_CardinalityType

(* Places do not share frames: the ones that a step leaves alone keep       *)
(* theirs, whatever it does to two others.                                  *)
LEMMA HeldTwo ==
    ASSUME TypeOK, LineInv,
           NEW s \in Stages, NEW sp \in Places, NEW d \in Stages, NEW dp \in Places,
           \A i \in Stages, p \in Places :
              (i = s /\ p = sp) \/ (i = d /\ p = dp) \/ Place(i, p)' = Place(i, p)
    PROVE  Held' = (Held \ (HeldAt(s, sp) \union HeldAt(d, dp)))
                     \union HeldAt(s, sp)' \union HeldAt(d, dp)'
<1> DEFINE Mine(i, p) == (i = s /\ p = sp) \/ (i = d /\ p = dp)
           Rest == UNION {IF Mine(i, p) THEN {} ELSE HeldAt(i, p) :
                             i \in Stages, p \in Places}
<1>1. ASSUME NEW i \in Stages, NEW p \in Places, NEW j \in Stages, NEW r \in Places,
             ~(i = j /\ p = r)
      PROVE  HeldAt(i, p) \intersect HeldAt(j, r) = {}
  <2>1. HeldAt(i, p) \subseteq Nat /\ HeldAt(j, r) \subseteq Nat
    BY PlaceType DEF Ids
  <2>2. Older(HeldAt(i, p), HeldAt(j, r)) \/ Older(HeldAt(j, r), HeldAt(i, p))
    BY <1>1, AheadOrder DEF LineInv, PlacesOrdered
  <2> QED BY <2>1, <2>2 DEF Older
<1>2. Held = Rest \union HeldAt(s, sp) \union HeldAt(d, dp)
  BY DEF Held
<1>3. Rest \intersect (HeldAt(s, sp) \union HeldAt(d, dp)) = {}
  <2> SUFFICES ASSUME NEW i \in Stages, NEW p \in Places, ~Mine(i, p)
               PROVE  /\ HeldAt(i, p) \intersect HeldAt(s, sp) = {}
                      /\ HeldAt(i, p) \intersect HeldAt(d, dp) = {}
    OBVIOUS
  <2> QED BY <1>1
<1>4. \A i \in Stages, p \in Places : ~Mine(i, p) => HeldAt(i, p)' = HeldAt(i, p)
  BY DEF HeldAt
<1>5. Held' = Rest \union HeldAt(s, sp)' \union HeldAt(d, dp)'
  <2>1. Held' = UNION {HeldAt(i, p)' : i \in Stages, p \in Places}
    BY DEF Held, Stages, Places
  <2> QED BY <1>4, <2>1
<1> HIDE DEF Rest
<1> QED BY <1>2, <1>3, <1>5

(* Sets without a common element.                                           *)
LEMMA DisjointUnion ==
    ASSUME NEW S, NEW T, IsFiniteSet(S), IsFiniteSet(T), S \intersect T = {}
    PROVE  /\ IsFiniteSet(S \union T)
           /\ Cardinality(S) \in Nat /\ Cardinality(T) \in Nat
           /\ Cardinality(S \union T) = Cardinality(S) + Cardinality(T)
<1>1. Cardinality({}) = 0
  BY FS_EmptySet
<1>2. /\ IsFiniteSet(S \union T)
      /\ Cardinality(S \union T)
           = Cardinality(S) + Cardinality(T) - Cardinality(S \intersect T)
  BY FS_Union
<1>3. Cardinality(S) \in Nat /\ Cardinality(T) \in Nat
  BY FS_CardinalityType
<1>4. Cardinality(S \intersect T) = 0
  BY <1>1, Zenon
<1> QED BY <1>2, <1>3, <1>4

(* Of H and the A that come, X and D leave and K is left.                   *)
Moves(H, A, X, D, K) ==
    /\ IsFiniteSet(H) /\ IsFiniteSet(A) /\ H \intersect A = {}
    /\ X \subseteq H \union A /\ D \subseteq H \union A
    /\ X \intersect D = {} /\ K = (H \union A) \ (X \union D)

(* Then the sizes add up.                                                   *)
LEMMA MoveCount ==
    ASSUME NEW H, NEW A, NEW X, NEW D, NEW K, Moves(H, A, X, D, K)
    PROVE  /\ IsFiniteSet(X) /\ IsFiniteSet(D)
           /\ Cardinality(X) \in Nat /\ Cardinality(D) \in Nat
           /\ Cardinality(K)
                = Cardinality(H) + Cardinality(A) - (Cardinality(X) + Cardinality(D))
<1> DEFINE U == H \union A
           V == X \union D
<1>1. /\ IsFiniteSet(U) /\ Cardinality(U) = Cardinality(H) + Cardinality(A)
      /\ Cardinality(H) \in Nat /\ Cardinality(A) \in Nat
  BY DisjointUnion DEF Moves
<1>2. IsFiniteSet(X) /\ IsFiniteSet(D)
  BY <1>1, FS_Subset DEF Moves
<1>3. /\ Cardinality(X) \in Nat /\ Cardinality(D) \in Nat
      /\ Cardinality(V) = Cardinality(X) + Cardinality(D)
  BY <1>2, DisjointUnion DEF Moves
<1>4. U \intersect V = V /\ K = U \ V
  BY DEF Moves
<1> HIDE DEF U, V
<1>5. Cardinality(U \ V) = Cardinality(U) - Cardinality(U \intersect V)
  BY <1>1, FS_Difference
<1>6. Cardinality(K) = Cardinality(U) - Cardinality(V)
  BY <1>4, <1>5, Zenon
<1> QED BY <1>1, <1>2, <1>3, <1>6

(* Frames A arrive, X are noted as lost and D are counted.                  *)
LEMMA CountMoves ==
    ASSUME TypeOK, LineInv, CountInv, NEW A \in {{}, {produced + 1}},
           NEW X, NEW D, X \subseteq Held \union A, D \subseteq Held \union A,
           X \intersect D = {}, Held' = (Held \union A) \ (X \union D),
           produced' = produced + Cardinality(A), delivered' = delivered,
           Missed' = Missed \union X, FramesDropped' = FramesDropped + Cardinality(D)
    PROVE  CountInv'
<1>1. /\ produced \in Nat /\ Len(delivered) \in Nat
      /\ Held \subseteq 1..produced /\ IsFiniteSet(Held) /\ Cardinality(Held) \in Nat
  BY HeldFinite
<1>2. /\ Missed \subseteq 1..produced
      /\ IsFiniteSet(Missed) /\ Cardinality(Missed) \in Nat
  BY MissedFinite
<1>3. /\ IsFiniteSet(A) /\ Cardinality(A) \in Nat
      /\ A # {} => Cardinality(A) = 1
  <2>1. CASE A = {}
    BY <2>1, FS_EmptySet
  <2>2. CASE A = {produced + 1}
    <3> DEFINE n == produced + 1
    <3>1. A = {n} /\ A # {}
      BY <2>2
    <3> HIDE DEF n
    <3>2. IsFiniteSet({n}) /\ Cardinality({n}) = 1
      BY FS_Singleton
    <3> QED BY <3>1, <3>2
  <2> QED BY <2>1, <2>2
<1>4. Held \intersect A = {} /\ Missed \intersect A = {}
  BY <1>1, <1>2
<1>5. /\ IsFiniteSet(X) /\ IsFiniteSet(D)
      /\ Cardinality(X) \in Nat /\ Cardinality(D) \in Nat
      /\ Cardinality(Held')
           = Cardinality(Held) + Cardinality(A) - (Cardinality(X) + Cardinality(D))
  <2>1. Moves(Held, A, X, D, Held')
    BY <1>1, <1>3, <1>4 DEF Moves
  <2> QED BY <2>1, MoveCount
<1>6. Missed \intersect X = {}
  BY <1>4 DEF CountInv
<1>7. Cardinality(Missed \union X) = Cardinality(Missed) + Cardinality(X)
  BY <1>2, <1>5, <1>6, DisjointUnion
<1>8. Missed' \intersect Held' = {}
  BY <1>4 DEF CountInv
<1>9. \A n \in Missed' : n \in Nat \ {0} /\ n =< produced'
  BY <1>1, <1>2, <1>3
<1>10. FramesDropped \in Nat /\ produced = Len(delivered) + Cardinality(Held)
                                  + FramesDropped + Cardinality(Missed)
  BY DEF CountInv
<1>11. FramesDropped' \in Nat
  BY <1>5, <1>10
<1>12. produced' = Len(delivered') + Cardinality(Held') + FramesDropped'
                     + Cardinality(Missed')
  <2> DEFINE h == Cardinality(Held)
             a == Cardinality(A)
             x == Cardinality(X)
             d == Cardinality(D)
             m == Cardinality(Missed)
             l == Len(delivered)
             c == FramesDropped
  <2>1. /\ h \in Nat /\ a \in Nat /\ x \in Nat /\ d \in Nat /\ m \in Nat
        /\ l \in Nat /\ c \in Nat
    BY <1>1, <1>2, <1>3, <1>5, <1>10
  <2>2. /\ Cardinality(Held') = h + a - (x + d) /\ Len(delivered') = l
        /\ FramesDropped' = c + d /\ produced' = (l + h + c + m) + a
    BY <1>5, <1>10
  <2>3. Cardinality(Missed') = m + x
    BY <1>7, Zenon
  <2> HIDE DEF h, a, x, d, m, l, c
  <2> QED BY <2>1, <2>2, <2>3
<1> QED BY <1>8, <1>9, <1>11, <1>12 DEF CountInv

(* The oldest frame is delivered.                                           *)
LEMMA CountDelivers ==
    ASSUME TypeOK, LineInv, CountInv, NEW m \in Held,
           delivered' = Append(delivered, m), Held' = Held \ {m},
           produced' = produced, Missed' = Missed, FramesDropped' = FramesDropped
    PROVE  CountInv'
<1>1. /\ produced \in Nat /\ Len(delivered) \in Nat
      /\ IsFiniteSet(Held) /\ Cardinality(Held) \in Nat
  BY HeldFinite
<1>2. Cardinality(Missed) \in Nat
  BY MissedFinite
<1>3. Cardinality(Held') = Cardinality(Held) - 1
  BY <1>1, FS_RemoveElement
<1>4. Len(delivered') = Len(delivered) + 1
  BY DEF TypeOK
<1>5. FramesDropped \in Nat /\ produced = Len(delivered) + Cardinality(Held)
                                  + FramesDropped + Cardinality(Missed)
  BY DEF CountInv
<1>6. produced' = Len(delivered') + Cardinality(Held') + FramesDropped'
                     + Cardinality(Missed')
  BY <1>1, <1>2, <1>3, <1>4, <1>5
<1>7. /\ \A n \in Missed' : n \in Nat \ {0} /\ n =< produced'
      /\ Missed' \intersect Held' = {}
  BY DEF CountInv
<1> QED BY <1>5, <1>6, <1>7 DEF CountInv

(* What the total becomes when one queue is replaced.                       *)
LEMMA DroppedChanges ==
    ASSUME TypeOK, NEW j \in Stages, NEW q \in Queues(Frames), NEW n \in Nat,
           q.dropped = queue[j].dropped + n, queue' = [queue EXCEPT ![j] = q]
    PROVE  FramesDropped' = FramesDropped + n
<1> DEFINE f == [i \in Stages |-> queue[i].dropped]
           g == [i \in Stages |-> queue'[i].dropped]
<1>1. FramesDropped = SumFunctionOnSet(f, Stages)
  BY DEF FramesDropped, SumFunction
<1>2. FramesDropped' = SumFunctionOnSet(g, Stages)
  <2>1. FramesDropped' = SumFunction(g)
    BY DEF FramesDropped, Stages
  <2> QED BY <2>1 DEF SumFunction
<1>3. queue \in [Stages -> Queues(Frames)]
  BY DEF TypeOK
<1>4. \A i \in Stages : f[i] \in Nat /\ g[i] \in Nat /\ (i # j => g[i] = f[i])
  BY <1>3 DEF Queues
<1>5. g[j] = f[j] + n
  BY <1>3
<1>6. IsFiniteSet(Stages)
  BY PipelineAssumption, FS_Interval DEF Stages
<1>7. f[j] \in Nat /\ g[j] \in Nat
  BY <1>4
<1> HIDE DEF f, g
<1>8. /\ SumFunctionOnSet(f, Stages) \in Nat
      /\ SumFunctionOnSet(g, Stages) = SumFunctionOnSet(f, Stages) + (g[j] - f[j])
  <2>1. DifferAt(f, g, Stages, j)
    BY <1>4 DEF DifferAt
  <2> QED BY <1>6, <2>1, SumChanges
<1> QED BY <1>1, <1>2, <1>5, <1>7, <1>8

(* And when none of them is.                                                *)
LEMMA DroppedStays ==
    ASSUME TypeOK, \A i \in Stages : queue'[i].dropped = queue[i].dropped
    PROVE  FramesDropped' = FramesDropped
<1>1. [i \in Stages |-> queue'[i].dropped] = [i \in Stages |-> queue[i].dropped]
  OBVIOUS
<1>2. FramesDropped' = SumFunction([i \in Stages |-> queue'[i].dropped])
  BY DEF FramesDropped, Stages
<1> QED BY <1>1, <1>2 DEF FramesDropped

-----------------------------------------------------------------------------
(* Exactly which frames an operation takes away.                            *)
LEMMA RemoveExact ==
    ASSUME NEW s \in Seq(Frames), NEW k \in 1..Len(s), Sorted(s)
    PROVE  /\ IdSet(RemoveAt(s, k)) = IdSet(s) \ {s[k].id}
           /\ s[k].id \in IdSet(s)
<1> DEFINE t == RemoveAt(s, k)
<1>1. /\ t \in Seq(Frames) /\ Len(t) = Len(s) - 1
      /\ \A j \in 1..(Len(s) - 1) : t[j] = IF j < k THEN s[j] ELSE s[j + 1]
  BY RemoveAtProperties
<1>2. Len(s) \in Nat /\ \A j \in 1..Len(s) : s[j].id \in Nat
  BY FrameIds
<1> HIDE DEF t
<1>3. \A j \in 1..Len(s) : j # k => s[j].id # s[k].id
  <2> SUFFICES ASSUME NEW j \in 1..Len(s), j # k PROVE s[j].id # s[k].id
    OBVIOUS
  <2>1. j < k \/ k < j
    BY <1>2
  <2>2. s[j].id < s[k].id \/ s[k].id < s[j].id
    BY <2>1 DEF Sorted
  <2> QED BY <1>2, <2>2
<1>4. ASSUME NEW j \in 1..Len(t) PROVE t[j].id \in IdSet(s) \ {s[k].id}
  <2>1. CASE j < k
    <3>1. j \in 1..Len(s) /\ j # k /\ t[j] = s[j]
      BY <1>1, <1>2, <2>1
    <3> QED BY <1>3, <3>1 DEF IdSet
  <2>2. CASE ~(j < k)
    <3>1. j + 1 \in 1..Len(s) /\ j + 1 # k /\ t[j] = s[j + 1]
      BY <1>1, <1>2, <2>2
    <3> QED BY <1>3, <3>1 DEF IdSet
  <2> QED BY <2>1, <2>2
<1>5. ASSUME NEW j \in 1..Len(s), j # k PROVE s[j].id \in IdSet(t)
  <2>1. CASE j < k
    <3>1. j \in 1..Len(t) /\ t[j] = s[j]
      BY <1>1, <1>2, <2>1
    <3> QED BY <3>1 DEF IdSet
  <2>2. CASE ~(j < k)
    <3>1. j - 1 \in 1..Len(t) /\ j - 1 \in 1..(Len(s) - 1) /\ ~(j - 1 < k)
          /\ (j - 1) + 1 = j
      BY <1>1, <1>2, <1>5, <2>2
    <3>2. t[j - 1] = s[j]
      BY <1>1, <3>1
    <3> QED BY <3>1, <3>2 DEF IdSet
  <2> QED BY <2>1, <2>2
<1>6. IdSet(t) \subseteq IdSet(s) \ {s[k].id}
  BY <1>4 DEF IdSet
<1>7. IdSet(s) \ {s[k].id} \subseteq IdSet(t)
  BY <1>5 DEF IdSet
<1>8. s[k].id \in IdSet(s)
  BY DEF IdSet
<1> QED BY <1>6, <1>7, <1>8 DEF t

(* Pop splits the frames of a queue.                                        *)
LEMMA PopExact ==
    ASSUME NEW w \in Queues(Frames), ~Empty(w), NEW n \in Nat \ {0}
    PROVE  IdSet(w.frames) = IdSet(Popped(w, n)) \union IdSet(AfterPop(w, n).frames)
<1> DEFINE m == PopCount(w, n)
           a == Popped(w, n)
           b == AfterPop(w, n).frames
           s == w.frames
<1>1. /\ m \in 1..Len(s) /\ Len(a) = m
      /\ \A j \in 1..m : a[j] = s[j]
      /\ Len(b) = Len(s) - m
      /\ \A j \in 1..(Len(s) - m) : b[j] = s[m + j]
  BY PopOutcome
<1>2. Len(s) \in Nat
  BY DEF Queues
<1>3. IdSet(a) \subseteq IdSet(s) /\ IdSet(b) \subseteq IdSet(s)
  BY PopSorted
<1> HIDE DEF m, a, b, s
<1>4. ASSUME NEW j \in 1..Len(s) PROVE s[j].id \in IdSet(a) \union IdSet(b)
  <2>1. CASE j =< m
    <3>1. j \in 1..Len(a) /\ a[j] = s[j]
      BY <1>1, <1>2, <2>1
    <3> QED BY <3>1 DEF IdSet
  <2>2. CASE ~(j =< m)
    <3>1. j - m \in 1..Len(b) /\ j - m \in 1..(Len(s) - m) /\ m + (j - m) = j
      BY <1>1, <1>2, <2>2
    <3>2. b[j - m] = s[j]
      BY <1>1, <3>1
    <3> QED BY <3>1, <3>2 DEF IdSet
  <2> QED BY <2>1, <2>2
<1>5. IdSet(s) \subseteq IdSet(a) \union IdSet(b)
  BY <1>4 DEF IdSet
<1> QED BY <1>3, <1>5 DEF a, b, s

(* Push counts exactly the frames it turns away: the new one, or a victim.  *)
LEMMA PushExact ==
    ASSUME NEW w \in Queues(Frames), NEW f \in Frames, NEW r \in Push(w, f),
           Sorted(w.frames), Older(IdSet(w.frames), {f.id})
    PROVE  /\ r.queue \in Queues(Frames) /\ r.ok \in BOOLEAN
           /\ w.shutdown => r.queue = w /\ ~r.ok
           /\ ~w.shutdown =>
                \E D \in SUBSET (IdSet(w.frames) \union {f.id}) :
                   /\ IdSet(r.queue.frames) = (IdSet(w.frames) \union {f.id}) \ D
                   /\ Cardinality(D) \in Nat
                   /\ r.queue.dropped = w.dropped + Cardinality(D)
                   /\ ~r.ok => D = {f.id}
<1> DEFINE I == IdSet(w.frames)
<1>1. w.frames \in Seq(Frames) /\ r.queue \in Queues(Frames) /\ w.dropped \in Nat
  BY PushOutcome DEF Queues
<1>2. I \subseteq Nat /\ f.id \in Nat /\ f.id \notin I
  <2>1. I \subseteq Nat /\ f.id \in Nat
    BY <1>1, FrameIds DEF Frames
  <2> QED BY <2>1 DEF Older
<1>3. CASE w.shutdown
  <2>1. r = [queue |-> w, ok |-> FALSE]
    BY <1>3 DEF Push
  <2>2. r.queue = w /\ r.ok = FALSE
    BY <2>1
  <2> QED BY <1>1, <1>3, <2>2
<1>4. CASE ~w.shutdown /\ Len(w.frames) < w.capacity
  <2>1. r.ok = TRUE /\ r.queue = PushBack(w, f)
    BY <1>4 DEF Push
  <2>2. r.queue.frames = Append(w.frames, f) /\ r.queue.dropped = w.dropped
    BY <2>1, PushBackOutcome
  <2>3. IdSet(r.queue.frames) = I \union {f.id}
    BY <1>1, <2>2, AppendSorted
  <2>4. Cardinality({}) = 0
    BY FS_EmptySet
  <2>5. /\ {} \in SUBSET (I \union {f.id})
        /\ IdSet(r.queue.frames) = (I \union {f.id}) \ {}
        /\ Cardinality({}) \in Nat /\ r.queue.dropped = w.dropped + Cardinality({})
    BY <1>1, <2>2, <2>3, <2>4
  <2> HIDE DEF I
  <2>6. \E D \in SUBSET (I \union {f.id}) :
           /\ IdSet(r.queue.frames) = (I \union {f.id}) \ D
           /\ Cardinality(D) \in Nat
           /\ r.queue.dropped = w.dropped + Cardinality(D)
    BY <2>5, Zenon
  <2> QED BY <1>1, <1>4, <2>1, <2>6 DEF I
<1>5. CASE ~w.shutdown /\ ~(Len(w.frames) < w.capacity) /\ EvictionCandidates(w, f) = {}
  <2>1. r.ok = FALSE /\ r.queue = CountDrop(w)
    BY <1>5 DEF Push
  <2>2. r.queue.frames = w.frames /\ r.queue.dropped = w.dropped + 1
    BY <2>1, CountDropOutcome
  <2>3. IsFiniteSet({f.id}) /\ Cardinality({f.id}) = 1
    BY FS_Singleton
  <2>4. IdSet(r.queue.frames) = (I \union {f.id}) \ {f.id}
    BY <1>2, <2>2
  <2>5. /\ {f.id} \in SUBSET (I \union {f.id})
        /\ Cardinality({f.id}) \in Nat
        /\ r.queue.dropped = w.dropped + Cardinality({f.id})
    BY <2>2, <2>3
  <2> HIDE DEF I
  <2>6. \E D \in SUBSET (I \union {f.id}) :
           /\ IdSet(r.queue.frames) = (I \union {f.id}) \ D
           /\ Cardinality(D) \in Nat
           /\ r.queue.dropped = w.dropped + Cardinality(D)
           /\ D = {f.id}
    BY <2>4, <2>5, Zenon
  <2> QED BY <1>1, <1>5, <2>1, <2>6 DEF I
<1>6. CASE ~w.shutdown /\ ~(Len(w.frames) < w.capacity) /\ EvictionCandidates(w, f) # {}
  <2>1. PICK k \in Oldest(EvictionCandidates(w, f)) :
           r = [queue |-> PushBack(EraseAt(w, k), f), ok |-> TRUE]
    BY <1>6 DEF Push
  <2>2. k \in 1..Len(w.frames)
    BY DEF Oldest, EvictionCandidates, SameChannelDeltas, DeltaFrames
  <2>3. /\ EraseAt(w, k) \in Queues(Frames)
        /\ EraseAt(w, k).frames = RemoveAt(w.frames, k)
        /\ EraseAt(w, k).dropped = w.dropped + 1
    BY <2>2, EraseAtOutcome
  <2>4. /\ r.queue.frames = Append(RemoveAt(w.frames, k), f)
        /\ r.queue.dropped = w.dropped + 1 /\ r.ok = TRUE
    BY <2>1, <2>3, PushBackOutcome
  <2> DEFINE v == w.frames[k].id
  <2>5. IdSet(RemoveAt(w.frames, k)) = I \ {v} /\ v \in I
        /\ RemoveAt(w.frames, k) \in Seq(Frames)
    BY <1>1, <2>2, RemoveExact, RemoveSorted
  <2>6. IdSet(r.queue.frames) = (I \ {v}) \union {f.id}
    BY <2>4, <2>5, AppendSorted
  <2> HIDE DEF v
  <2>7. IdSet(r.queue.frames) = (I \union {f.id}) \ {v}
    BY <1>2, <2>5, <2>6
  <2>8. IsFiniteSet({v}) /\ Cardinality({v}) = 1
    BY FS_Singleton
  <2>9. /\ {v} \in SUBSET (I \union {f.id}) /\ Cardinality({v}) \in Nat
        /\ r.queue.dropped = w.dropped + Cardinality({v})
    BY <2>4, <2>5, <2>8
  <2> HIDE DEF I
  <2>10. \E D \in SUBSET (I \union {f.id}) :
           /\ IdSet(r.queue.frames) = (I \union {f.id}) \ D
           /\ Cardinality(D) \in Nat
           /\ r.queue.dropped = w.dropped + Cardinality(D)
    BY <2>7, <2>9, Zenon
  <2> QED BY <1>1, <1>6, <2>4, <2>10 DEF I
<1> QED BY <1>3, <1>4, <1>5, <1>6

(* The books of lost frames.                                                *)
LEMMA MissedGrows ==
    ASSUME TypeOK, NEW X, LoseAtDoor(X) \/ LoseInside(X) \/ LoseInStage(X)
    PROVE  Missed' = Missed \union X
<1>1. lost = [door |-> lost.door, inside |-> lost.inside, stage |-> lost.stage]
  BY DEF TypeOK
<1>2. CASE LoseAtDoor(X)
  <2>1. /\ lost'.door = lost.door \union X /\ lost'.inside = lost.inside
        /\ lost'.stage = lost.stage
    BY <1>1, <1>2 DEF LoseAtDoor
  <2> QED BY <2>1 DEF Missed
<1>3. CASE LoseInside(X)
  <2>1. /\ lost'.inside = lost.inside \union X /\ lost'.door = lost.door
        /\ lost'.stage = lost.stage
    BY <1>1, <1>3 DEF LoseInside
  <2> QED BY <2>1 DEF Missed
<1>4. CASE LoseInStage(X)
  <2>1. /\ lost'.stage = lost.stage \union X /\ lost'.door = lost.door
        /\ lost'.inside = lost.inside
    BY <1>1, <1>4 DEF LoseInStage
  <2> QED BY <2>1 DEF Missed
<1> QED BY <1>2, <1>3, <1>4

-----------------------------------------------------------------------------
(* A step that keeps every frame where or as it is.                         *)
LEMMA CountStays ==
    ASSUME TypeOK, LineInv, CountInv, UNCHANGED <<produced, delivered, lost>>,
           Held' = Held, \A j \in Stages : queue'[j].dropped = queue[j].dropped
    PROVE  CountInv'
<1>1. FramesDropped' = FramesDropped
  BY DroppedStays
<1>2. Missed' = Missed
  BY DEF Missed
<1>3. Cardinality(Held') = Cardinality(Held) /\ Cardinality(Missed') = Cardinality(Missed)
  BY <1>2, Zenon
<1> QED BY <1>1, <1>2, <1>3 DEF CountInv

(* A step in which a queue counts frames D.                                 *)
LEMMA CountCounts ==
    ASSUME TypeOK, LineInv, CountInv, UNCHANGED <<produced, delivered>>,
           NEW D, NEW X, D \subseteq Held, X \subseteq Held, X \intersect D = {},
           Held' = Held \ (X \union D), Missed' = Missed \union X,
           FramesDropped' = FramesDropped + Cardinality(D)
    PROVE  CountInv'
<1>1. Cardinality({}) = 0
  BY FS_EmptySet
<1>2. produced \in Nat
  BY DEF TypeOK
<1>3. produced' = produced + Cardinality({})
  BY <1>1, <1>2
<1>4. /\ Held' = (Held \union {}) \ (X \union D)
      /\ X \subseteq Held \union {} /\ D \subseteq Held \union {}
  OBVIOUS
<1> QED BY <1>3, <1>4, CountMoves

(* A step that notes frames X as lost.                                      *)
LEMMA CountLoses ==
    ASSUME TypeOK, LineInv, CountInv, UNCHANGED <<produced, delivered>>,
           NEW X, X \subseteq Held, Held' = Held \ X,
           LoseAtDoor(X) \/ LoseInside(X) \/ LoseInStage(X),
           FramesDropped' = FramesDropped
    PROVE  CountInv'
<1> DEFINE D == {}
<1>1. Missed' = Missed \union X
  BY MissedGrows
<1>2. FramesDropped' = FramesDropped + Cardinality(D)
  <2>1. Cardinality(D) = 0 /\ FramesDropped \in Nat
    BY FS_EmptySet DEF CountInv
  <2> QED BY <2>1
<1>3. D \subseteq Held /\ X \intersect D = {} /\ Held' = Held \ (X \union D)
  OBVIOUS
<1> HIDE DEF D
<1> QED BY <1>1, <1>2, <1>3, CountCounts

(* Push into the queue of stage j.                                          *)
LEMMA QueueCounts ==
    ASSUME TypeOK, NEW j \in Stages, NEW f \in Frames, NEW r \in Push(queue[j], f),
           Sorted(Place(j, 3)), Older(HeldAt(j, 3), {f.id}),
           queue' = [queue EXCEPT ![j] = r.queue]
    PROVE  /\ queue[j].shutdown =>
                /\ HeldAt(j, 3)' = HeldAt(j, 3) /\ ~r.ok
                /\ FramesDropped' = FramesDropped
           /\ ~queue[j].shutdown =>
                \E D \in SUBSET (HeldAt(j, 3) \union {f.id}) :
                   /\ HeldAt(j, 3)' = (HeldAt(j, 3) \union {f.id}) \ D
                   /\ FramesDropped' = FramesDropped + Cardinality(D)
                   /\ ~r.ok => D = {f.id}
<1> DEFINE w == queue[j]
<1>1. w \in Queues(Frames) /\ queue'[j] = r.queue
  BY DEF TypeOK
<1>2. /\ Place(j, 3) = w.frames /\ HeldAt(j, 3) = IdSet(w.frames)
      /\ HeldAt(j, 3)' = IdSet(r.queue.frames)
  BY <1>1, PlaceCases DEF HeldAt
<1> HIDE DEF w
<1>3. /\ r.queue \in Queues(Frames)
      /\ w.shutdown => r.queue = w /\ ~r.ok
      /\ ~w.shutdown =>
            \E D \in SUBSET (IdSet(w.frames) \union {f.id}) :
               /\ IdSet(r.queue.frames) = (IdSet(w.frames) \union {f.id}) \ D
               /\ Cardinality(D) \in Nat
               /\ r.queue.dropped = w.dropped + Cardinality(D)
               /\ ~r.ok => D = {f.id}
  <2>1. r \in Push(w, f) /\ Sorted(w.frames) /\ Older(IdSet(w.frames), {f.id})
    BY <1>2 DEF w
  <2> QED BY <1>1, <2>1, PushExact
<1>4. CASE w.shutdown
  <2>1. \A i \in Stages : queue'[i].dropped = queue[i].dropped
    BY <1>3, <1>4 DEF w, TypeOK
  <2> QED BY <1>2, <1>3, <1>4, <2>1, DroppedStays DEF w
<1>5. CASE ~w.shutdown
  <2>1. PICK D \in SUBSET (IdSet(w.frames) \union {f.id}) :
           /\ IdSet(r.queue.frames) = (IdSet(w.frames) \union {f.id}) \ D
           /\ Cardinality(D) \in Nat
           /\ r.queue.dropped = w.dropped + Cardinality(D)
           /\ ~r.ok => D = {f.id}
    BY <1>3, <1>5
  <2>2. FramesDropped' = FramesDropped + Cardinality(D)
    <3> DEFINE n == Cardinality(D)
    <3>1. n \in Nat /\ r.queue.dropped = queue[j].dropped + n
      BY <2>1 DEF w
    <3> HIDE DEF n
    <3>2. FramesDropped' = FramesDropped + n
      BY <1>3, <3>1, DroppedChanges
    <3> QED BY <3>2 DEF n
  <2>3. /\ D \in SUBSET (HeldAt(j, 3) \union {f.id})
        /\ HeldAt(j, 3)' = (HeldAt(j, 3) \union {f.id}) \ D
    BY <1>2, <2>1
  <2> QED BY <1>5, <2>1, <2>2, <2>3 DEF w
<1> QED BY <1>4, <1>5

(* What a place holds is held.                                              *)
LEMMA HeldHas ==
    ASSUME NEW i \in Stages, NEW p \in Places PROVE HeldAt(i, p) \subseteq Held
BY DEF Held

(* A frame leaves a codec.                                                  *)
LEMMA CountEmit ==
    ASSUME TypeOK, LineInv, CountInv, NEW i \in Stages, EmitFromCodec(i),
           hand' = hand, produced' = produced
    PROVE  CountInv'
<1> DEFINE s == codec[i]
           f == Head(s)
           decoded == [id |-> f.id, ch |-> NoChannel, key |-> f.key]
<1>1. /\ s \in Seq(Frames) /\ s # <<>>
      /\ codec' = [codec EXCEPT ![i] = Tail(s)] /\ codec'[i] = Tail(s)
      /\ Place(i, 1) = s /\ Sorted(s) /\ Place(i, 1)' = Tail(s)
  <2>1. s \in Seq(Frames) /\ s # <<>> /\ codec' = [codec EXCEPT ![i] = Tail(s)]
    BY DEF TypeOK, EmitFromCodec
  <2>2. codec'[i] = Tail(s)
    BY <2>1 DEF TypeOK
  <2> QED BY <2>1, <2>2, PlaceCases DEF LineInv, PlacesSorted
<1>2. f \in Frames /\ decoded \in Frames /\ decoded.id = f.id /\ f.id \in Nat
  <2>1. f \in Frames
    BY <1>1, SeqTails
  <2> QED BY <2>1 DEF Frames
<1>3. /\ HeldAt(i, 1) = {f.id} \union HeldAt(i, 1)'
      /\ Older({f.id}, HeldAt(i, 1)')
  BY <1>1, TailSorted DEF HeldAt
<1>4. f.id \notin HeldAt(i, 1)' /\ f.id \in Held /\ HeldAt(i, 1) \subseteq Held
  <2>1. f.id \notin HeldAt(i, 1)'
    BY <1>2, <1>3 DEF Older
  <2>2. HeldAt(i, 1) \subseteq Held
    BY HeldHas, PlaceCases
  <2> QED BY <1>3, <2>1, <2>2
<1>5. \A j \in Stages : /\ j # i => Place(j, 1)' = Place(j, 1)
                        /\ Place(j, 2)' = Place(j, 2)
  BY <1>1, PlaceCases DEF TypeOK
<1>6. 1 \in Places /\ 3 \in Places
  BY PlaceCases
<1>7. ASSUME queue' = queue
      PROVE  Held' = Held \ {f.id} /\ FramesDropped' = FramesDropped
  <2>1. \A j \in Stages, p \in Places : (j = i /\ p = 1) \/ Place(j, p)' = Place(j, p)
    BY <1>5, <1>7, PlaceCases
  <2>2. Held' = (Held \ (HeldAt(i, 1) \union HeldAt(i, 1)))
                  \union HeldAt(i, 1)' \union HeldAt(i, 1)'
    BY <1>6, <2>1, HeldTwo
  <2>3. FramesDropped' = FramesDropped
    BY <1>7, DroppedStays
  <2> QED BY <1>3, <1>4, <2>2, <2>3
<1>8. CASE i = N
  <2>1. delivered' = Append(delivered, f.id) /\ queue' = queue /\ lost' = lost
    BY <1>8 DEF EmitFromCodec
  <2>2. Missed' = Missed
    BY <2>1 DEF Missed
  <2> HIDE DEF f
  <2> QED BY <1>4, <1>7, <2>1, <2>2, CountDelivers
<1>9. CASE i # N /\ LoseInStage({f.id}) /\ queue' = queue
  <2>1. delivered' = delivered
    BY <1>9 DEF EmitFromCodec
  <2> DEFINE X == {f.id}
  <2>2. X \subseteq Held /\ Held' = Held \ X /\ LoseInStage(X)
    BY <1>4, <1>7, <1>9
  <2> HIDE DEF X
  <2> QED BY <1>7, <1>9, <2>1, <2>2, CountLoses
<1>10. ASSUME i # N, NEW r \in Push(queue[i + 1], decoded),
              queue' = [queue EXCEPT ![i + 1] = r.queue], delivered' = delivered,
              LoseInside(IF queue[i + 1].shutdown THEN {f.id} ELSE {})
       PROVE  CountInv'
  <2> DEFINE j == i + 1
  <2>1. j \in Stages /\ Ahead(j, 3, i, 1) /\ decoded.id \in HeldAt(i, 1)
    BY <1>2, <1>3, <1>10, StageFacts DEF Ahead
  <2>2. Sorted(Place(j, 3)) /\ Older(HeldAt(j, 3), HeldAt(i, 1))
    BY <1>6, <2>1 DEF LineInv, PlacesSorted, PlacesOrdered
  <2>3. HeldAt(j, 3) \subseteq Nat /\ HeldAt(j, 3) \subseteq Held
    BY <1>6, <2>1, PlaceType, HeldHas DEF Ids
  <2>4. HeldAt(i, 1) \subseteq Nat
    BY <1>6, PlaceType DEF Ids
  <2>5. Older(HeldAt(j, 3), {decoded.id}) /\ HeldAt(j, 3) \intersect HeldAt(i, 1) = {}
    BY <2>1, <2>2, <2>3, <2>4 DEF Older
  <2>6. \A l \in Stages : l # j => Place(l, 3)' = Place(l, 3)
    <3>1. \A l \in Stages : l # j => queue'[l] = queue[l]
      BY <1>10 DEF TypeOK
    <3> QED BY <3>1, PlaceCases
  <2>7. \A l \in Stages, p \in Places :
           (l = i /\ p = 1) \/ (l = j /\ p = 3) \/ Place(l, p)' = Place(l, p)
    BY <1>5, <2>6, PlaceCases
  <2> HIDE DEF j
  <2>8. Held' = (Held \ (HeldAt(i, 1) \union HeldAt(j, 3)))
                  \union HeldAt(i, 1)' \union HeldAt(j, 3)'
    BY <1>6, <2>1, <2>7, HeldTwo
  <2>9. r \in Push(queue[j], decoded) /\ queue' = [queue EXCEPT ![j] = r.queue]
        /\ LoseInside(IF queue[j].shutdown THEN {f.id} ELSE {})
    BY <1>10 DEF j
  <2> HIDE DEF decoded
  <2>10. CASE queue[j].shutdown
    <3>1. HeldAt(j, 3)' = HeldAt(j, 3) /\ FramesDropped' = FramesDropped
      BY <1>2, <2>1, <2>2, <2>5, <2>9, <2>10, QueueCounts
    <3> DEFINE X == {f.id}
    <3>2. X \subseteq Held /\ LoseInside(X)
      BY <1>4, <2>9, <2>10
    <3>3. Held' = Held \ X
      BY <1>3, <1>4, <2>3, <2>5, <2>8, <3>1
    <3> HIDE DEF X
    <3> QED BY <1>10, <3>1, <3>2, <3>3, CountLoses
  <2>11. CASE ~queue[j].shutdown
    <3>1. PICK D \in SUBSET (HeldAt(j, 3) \union {decoded.id}) :
             /\ HeldAt(j, 3)' = (HeldAt(j, 3) \union {decoded.id}) \ D
             /\ FramesDropped' = FramesDropped + Cardinality(D)
      BY <1>2, <2>1, <2>2, <2>5, <2>9, <2>11, QueueCounts
    <3> DEFINE X == {}
    <3>2. LoseInside(X)
      BY <2>9, <2>11
    <3>3. D \subseteq Held
      BY <1>2, <1>4, <2>3
    <3>4. Held' = Held \ (X \union D)
      BY <1>2, <1>3, <1>4, <2>3, <2>5, <2>8, <3>1
    <3>5. X \subseteq Held /\ X \intersect D = {}
      OBVIOUS
    <3> HIDE DEF X
    <3>6. Missed' = Missed \union X
      BY <3>2, MissedGrows
    <3> QED BY <1>10, <3>1, <3>3, <3>4, <3>5, <3>6, CountCounts
  <2> QED BY <2>10, <2>11
<1> QED BY <1>8, <1>9, <1>10 DEF EmitFromCodec

(* A packet comes, and with it one frame more to account for.               *)
LEMMA CountPacket ==
    ASSUME TypeOK, LineInv, CountInv, NEW isKey \in BOOLEAN, OnPacket(isKey)
    PROVE  CountInv'
<1> DEFINE f == [id |-> produced + 1, ch |-> ChannelId, key |-> isKey]
           A == {produced + 1}
<1>1. /\ produced' = produced + 1 /\ delivered' = delivered
      /\ hand' = hand /\ codec' = codec
      /\ produced \in Nat /\ 2 \in Stages /\ Source + 1 = 2 /\ 3 \in Places
  BY StageFacts, PlaceCases DEF OnPacket, threadVars, TypeOK
<1>2. PICK r \in Push(queue[2], f) : queue' = [queue EXCEPT ![2] = r.queue]
  BY <1>1 DEF OnPacket
<1>3. LoseAtDoor(IF queue[2].shutdown THEN A ELSE {})
  BY <1>1 DEF OnPacket
<1>4. f \in Frames /\ f.id = produced + 1
  BY <1>1 DEF Frames
<1> HIDE DEF f
<1>5. Sorted(Place(2, 3)) /\ HeldAt(2, 3) \subseteq Held
  BY <1>1, HeldHas DEF LineInv, PlacesSorted
<1>6. Held \subseteq 1..produced
  BY HeldFinite
<1>7. produced + 1 \notin Held /\ Older(HeldAt(2, 3), {f.id})
  <2>1. \A n \in Held : n < produced + 1
    BY <1>1, <1>6
  <2>2. \A n \in HeldAt(2, 3) : n < f.id
    BY <1>4, <1>5, <2>1
  <2> QED BY <1>1, <2>1, <2>2 DEF Older
<1>8. \A j \in Stages, p \in Places : (j = 2 /\ p = 3) \/ Place(j, p)' = Place(j, p)
  <2>1. \A j \in Stages : j # 2 => queue'[j] = queue[j]
    BY <1>1, <1>2 DEF TypeOK
  <2> QED BY <1>1, <2>1, PlaceCases
<1>9. Held' = (Held \ (HeldAt(2, 3) \union HeldAt(2, 3)))
                \union HeldAt(2, 3)' \union HeldAt(2, 3)'
  BY <1>1, <1>8, HeldTwo
<1>10. produced' = produced + Cardinality(A) /\ A \in {{}, {produced + 1}}
  <2> DEFINE n == produced + 1
  <2>1. A = {n}
    OBVIOUS
  <2> HIDE DEF n, A
  <2>2. IsFiniteSet({n}) /\ Cardinality({n}) = 1
    BY FS_Singleton
  <2>3. Cardinality(A) = 1
    BY <2>1, <2>2, Zenon
  <2> QED BY <1>1, <2>1, <2>3 DEF n
<1>11. A = {f.id} /\ A \intersect Held = {}
  BY <1>4, <1>7
<1> HIDE DEF A
<1>12. CASE queue[2].shutdown
  <2> DEFINE X == A
             D == {}
  <2>1. HeldAt(2, 3)' = HeldAt(2, 3) /\ FramesDropped' = FramesDropped
    BY <1>1, <1>2, <1>4, <1>5, <1>7, <1>12, QueueCounts
  <2>2. /\ X \subseteq Held \union A /\ D \subseteq Held \union A
        /\ X \intersect D = {} /\ Held' = (Held \union A) \ (X \union D)
    BY <1>5, <1>9, <1>11, <2>1
  <2>3. Cardinality(D) = 0 /\ FramesDropped \in Nat
    BY FS_EmptySet DEF CountInv
  <2>4. FramesDropped' = FramesDropped + Cardinality(D)
    BY <2>1, <2>3
  <2>5. Missed' = Missed \union X
    BY <1>3, <1>12, MissedGrows
  <2> HIDE DEF X, D
  <2> QED BY <1>1, <1>10, <2>2, <2>4, <2>5, CountMoves
<1>13. CASE ~queue[2].shutdown
  <2> DEFINE X == {}
  <2>1. PICK D \in SUBSET (HeldAt(2, 3) \union {f.id}) :
           /\ HeldAt(2, 3)' = (HeldAt(2, 3) \union {f.id}) \ D
           /\ FramesDropped' = FramesDropped + Cardinality(D)
    BY <1>1, <1>2, <1>4, <1>5, <1>7, <1>13, QueueCounts
  <2>2. LoseAtDoor(X)
    BY <1>3, <1>13
  <2>3. /\ X \subseteq Held \union A /\ D \subseteq Held \union A
        /\ X \intersect D = {} /\ Held' = (Held \union A) \ (X \union D)
    BY <1>5, <1>9, <1>11, <2>1
  <2> HIDE DEF X
  <2>4. Missed' = Missed \union X
    BY <2>2, MissedGrows
  <2> QED BY <1>1, <1>10, <2>1, <2>3, <2>4, CountMoves
<1> QED BY <1>12, <1>13

(* A worker takes frames into its hand.                                     *)
LEMMA CountPop ==
    ASSUME TypeOK, QuietInv, LineInv, CountInv, NEW i \in Stages, WorkerPop(i)
    PROVE  CountInv'
<1>1. PICK n \in {1, BatchSize[i]} :
         /\ hand' = [hand EXCEPT ![i] = Popped(queue[i], n)]
         /\ queue' = [queue EXCEPT ![i] = AfterPop(queue[i], n)]
  BY DEF WorkerPop
<1>2. /\ n \in Nat \ {0} /\ ~Empty(queue[i]) /\ queue[i] \in Queues(Frames)
      /\ hand[i] = <<>> /\ UNCHANGED <<codec, produced, delivered, lost>>
  <2>1. n \in Nat \ {0} /\ queue[i] \in Queues(Frames)
    BY PipelineAssumption DEF TypeOK
  <2>2. ~Empty(queue[i]) /\ UNCHANGED <<codec, produced, delivered, lost>>
    BY DEF WorkerPop, streamVars
  <2>3. hand[i] = <<>>
    BY DEF WorkerPop, QuietInv, StageInv
  <2> QED BY <2>1, <2>2, <2>3
<1> DEFINE a == Popped(queue[i], n)
           b == AfterPop(queue[i], n)
<1>3. IdSet(queue[i].frames) = IdSet(a) \union IdSet(b.frames)
  BY <1>2, PopExact
<1>4. b.dropped = queue[i].dropped
  BY <1>2, PopOutcome
<1>5. /\ hand'[i] = a /\ queue'[i] = b
      /\ \A j \in Stages : j # i => hand'[j] = hand[j] /\ queue'[j] = queue[j]
  BY <1>1 DEF TypeOK
<1> HIDE DEF a, b
<1>6. 2 \in Places /\ 3 \in Places
  BY PlaceCases
<1>7. /\ HeldAt(i, 2) = {} /\ HeldAt(i, 2)' = IdSet(a)
      /\ HeldAt(i, 3) = IdSet(queue[i].frames) /\ HeldAt(i, 3)' = IdSet(b.frames)
  BY <1>2, <1>5, PlaceCases, EmptySorted DEF HeldAt
<1>8. \A j \in Stages, p \in Places :
         (j = i /\ p = 2) \/ (j = i /\ p = 3) \/ Place(j, p)' = Place(j, p)
  BY <1>2, <1>5, PlaceCases
<1>9. Held' = (Held \ (HeldAt(i, 2) \union HeldAt(i, 3)))
                \union HeldAt(i, 2)' \union HeldAt(i, 3)'
  BY <1>6, <1>8, HeldTwo
<1>10. HeldAt(i, 3) \subseteq Held
  BY <1>6, HeldHas
<1>11. Held' = Held
  BY <1>3, <1>7, <1>9, <1>10
<1>12. \A j \in Stages : queue'[j].dropped = queue[j].dropped
  BY <1>4, <1>5
<1> QED BY <1>2, <1>11, <1>12, CountStays

(* A forwarding stage passes its first frame on, or gives up its batch.     *)
LEMMA CountForward ==
    ASSUME TypeOK, InHand, QuietInv, LineInv, CountInv, NEW i \in Stages, Forward(i)
    PROVE  CountInv'
<1> DEFINE f == Head(hand[i])
           t == Tail(hand[i])
           j == i + 1
<1>1. /\ worker[i] = "busy" /\ i # N /\ UNCHANGED <<codec, produced, delivered>>
  BY DEF Forward, CodecStages
<1>2. /\ f \in Frames /\ HeldAt(i, 2) = {f.id} \union IdSet(t)
      /\ Older({f.id}, IdSet(t)) /\ HeldAt(i, 2) = IdSet(hand[i])
  BY <1>1, HandFront, PlaceCases DEF HeldAt
<1>3. PICK r \in Push(queue[j], f) :
         /\ queue' = [queue EXCEPT ![j] = r.queue]
         /\ \/ /\ r.ok
               /\ FrameDone(i, t)
               /\ UNCHANGED lost
            \/ /\ ~r.ok
               /\ BatchFailed(i)
               /\ \/ queue[j].shutdown /\ LoseInside(IdSet(hand[i]))
                  \/ /\ ~queue[j].shutdown
                     /\ LoseInStage(IdSet(t))
  BY DEF Forward
<1>4. /\ j \in Stages /\ Ahead(j, 3, i, 2) /\ 2 \in Places /\ 3 \in Places
  BY <1>1, StageFacts, PlaceCases DEF Ahead
<1> HIDE DEF f, t, j
<1>5. Sorted(Place(j, 3)) /\ Older(HeldAt(j, 3), HeldAt(i, 2))
  BY <1>4 DEF LineInv, PlacesSorted, PlacesOrdered
<1>6. /\ HeldAt(j, 3) \subseteq Nat /\ HeldAt(j, 3) \subseteq Held
      /\ HeldAt(i, 2) \subseteq Nat /\ HeldAt(i, 2) \subseteq Held
  BY <1>4, PlaceType, HeldHas DEF Ids
<1>7. /\ Older(HeldAt(j, 3), {f.id}) /\ HeldAt(j, 3) \intersect HeldAt(i, 2) = {}
      /\ f.id \notin IdSet(t)
  BY <1>2, <1>5, <1>6 DEF Older
<1>8. ASSUME NEW h, hand' = [hand EXCEPT ![i] = h]
      PROVE  /\ HeldAt(i, 2)' = IdSet(h)
             /\ Held' = (Held \ (HeldAt(i, 2) \union HeldAt(j, 3)))
                          \union HeldAt(i, 2)' \union HeldAt(j, 3)'
  <2>1. /\ hand'[i] = h
        /\ \A l \in Stages : l # i => hand'[l] = hand[l]
        /\ \A l \in Stages : l # j => queue'[l] = queue[l]
    BY <1>3, <1>8 DEF TypeOK
  <2>2. HeldAt(i, 2)' = IdSet(h)
    BY <2>1, PlaceCases DEF HeldAt
  <2>3. \A l \in Stages, p \in Places :
           (l = i /\ p = 2) \/ (l = j /\ p = 3) \/ Place(l, p)' = Place(l, p)
    BY <1>1, <2>1, PlaceCases
  <2> QED BY <1>4, <2>2, <2>3, HeldTwo
<1>9. /\ queue[j].shutdown =>
           /\ HeldAt(j, 3)' = HeldAt(j, 3) /\ ~r.ok
           /\ FramesDropped' = FramesDropped
      /\ ~queue[j].shutdown =>
           \E D \in SUBSET (HeldAt(j, 3) \union {f.id}) :
              /\ HeldAt(j, 3)' = (HeldAt(j, 3) \union {f.id}) \ D
              /\ FramesDropped' = FramesDropped + Cardinality(D)
              /\ ~r.ok => D = {f.id}
  BY <1>2, <1>3, <1>4, <1>5, <1>7, QueueCounts
<1>10. CASE queue[j].shutdown
  <2> DEFINE X == IdSet(hand[i])
  <2>1. BatchFailed(i) /\ LoseInside(X)
    BY <1>3, <1>9, <1>10
  <2>2. hand' = [hand EXCEPT ![i] = <<>>]
    BY <2>1 DEF BatchFailed
  <2>3. HeldAt(i, 2)' = {} /\ HeldAt(j, 3)' = HeldAt(j, 3)
    BY <1>8, <1>9, <1>10, <2>2, EmptySorted
  <2>4. Held' = Held \ X /\ X \subseteq Held
    BY <1>2, <1>6, <1>7, <1>8, <2>2, <2>3
  <2> HIDE DEF X
  <2> QED BY <1>1, <1>9, <1>10, <2>1, <2>4, CountLoses
<1>11. CASE ~queue[j].shutdown
  <2>1. PICK D \in SUBSET (HeldAt(j, 3) \union {f.id}) :
           /\ HeldAt(j, 3)' = (HeldAt(j, 3) \union {f.id}) \ D
           /\ FramesDropped' = FramesDropped + Cardinality(D)
           /\ ~r.ok => D = {f.id}
    BY <1>9, <1>11
  <2>2. D \subseteq Held
    BY <1>2, <1>6
  <2>3. CASE r.ok
    <3> DEFINE X == {}
    <3>1. FrameDone(i, t) /\ lost' = lost
      BY <1>3, <2>3
    <3>2. hand' = [hand EXCEPT ![i] = t]
      BY <3>1 DEF FrameDone
    <3>3. HeldAt(i, 2)' = IdSet(t)
      BY <1>8, <3>2
    <3>4. Held' = Held \ (X \union D)
      BY <1>2, <1>6, <1>7, <1>8, <2>1, <3>2, <3>3
    <3>5. Missed' = Missed \union X
      BY <3>1 DEF Missed
    <3>6. X \subseteq Held /\ X \intersect D = {}
      OBVIOUS
    <3> HIDE DEF X
    <3> QED BY <1>1, <2>1, <2>2, <3>4, <3>5, <3>6, CountCounts
  <2>4. CASE ~r.ok
    <3> DEFINE X == IdSet(t)
    <3>1. BatchFailed(i) /\ LoseInStage(X) /\ D = {f.id}
      BY <1>3, <1>11, <2>1, <2>4
    <3>2. hand' = [hand EXCEPT ![i] = <<>>]
      BY <3>1 DEF BatchFailed
    <3>3. HeldAt(i, 2)' = {}
      BY <1>8, <3>2, EmptySorted
    <3>4. /\ Held' = Held \ (X \union D) /\ X \subseteq Held
          /\ X \intersect D = {}
      BY <1>2, <1>6, <1>7, <1>8, <2>1, <3>1, <3>2, <3>3
    <3>5. Missed' = Missed \union X
      BY <3>1, MissedGrows
    <3> HIDE DEF X
    <3> QED BY <1>1, <2>1, <2>2, <3>4, <3>5, CountCounts
  <2> QED BY <2>3, <2>4
<1> QED BY <1>10, <1>11

(* The first frame in hand enters the codec, which may drop what it holds.  *)
LEMMA CountEnter ==
    ASSUME TypeOK, InHand, LineInv, CountInv, NEW i \in Stages, EnterCodec(i)
    PROVE  CountInv'
<1> DEFINE f == Head(hand[i])
           t == Tail(hand[i])
<1>1. /\ worker[i] = "busy" /\ UNCHANGED <<queue, produced, delivered>>
      /\ hand' = [hand EXCEPT ![i] = t]
  BY DEF EnterCodec
<1>2. /\ f \in Frames /\ HeldAt(i, 2) = {f.id} \union IdSet(t)
  BY <1>1, HandFront
<1>3. /\ 1 \in Places /\ 2 \in Places /\ Ahead(i, 1, i, 2)
      /\ codec[i] \in Seq(Frames) /\ HeldAt(i, 1) = IdSet(codec[i])
  BY PlaceCases DEF Ahead, TypeOK, HeldAt
<1>4. /\ HeldAt(i, 1) \subseteq Held /\ HeldAt(i, 2) \subseteq Held
      /\ HeldAt(i, 1) \subseteq Nat /\ HeldAt(i, 2) \subseteq Nat
  BY <1>3, PlaceType, HeldHas DEF Ids
<1>5. HeldAt(i, 1) \intersect HeldAt(i, 2) = {}
  <2>1. Older(HeldAt(i, 1), HeldAt(i, 2))
    BY <1>3 DEF LineInv, PlacesOrdered
  <2> QED BY <1>4, <2>1 DEF Older
<1>6. FramesDropped' = FramesDropped
  BY <1>1, DroppedStays
<1>7. ASSUME NEW c, codec' = [codec EXCEPT ![i] = c]
      PROVE  Held' = (Held \ (HeldAt(i, 1) \union HeldAt(i, 2)))
                       \union IdSet(c) \union IdSet(t)
  <2>1. /\ hand'[i] = t /\ codec'[i] = c
        /\ \A l \in Stages : l # i => hand'[l] = hand[l] /\ codec'[l] = codec[l]
    BY <1>1, <1>7 DEF TypeOK
  <2> HIDE DEF t
  <2>2. HeldAt(i, 1)' = IdSet(c) /\ HeldAt(i, 2)' = IdSet(t)
    BY <2>1, PlaceCases DEF HeldAt
  <2>3. \A l \in Stages, p \in Places :
           (l = i /\ p = 1) \/ (l = i /\ p = 2) \/ Place(l, p)' = Place(l, p)
    BY <1>1, <2>1, PlaceCases
  <2>4. Held' = (Held \ (HeldAt(i, 1) \union HeldAt(i, 2)))
                  \union HeldAt(i, 1)' \union HeldAt(i, 2)'
    BY <1>3, <2>3, HeldTwo
  <2> QED BY <2>2, <2>4
<1>8. CASE codec' = [codec EXCEPT ![i] = Append(@, f)] /\ lost' = lost
  <2> HIDE DEF f, t
  <2>1. IdSet(Append(codec[i], f)) = IdSet(codec[i]) \union {f.id}
    BY <1>2, <1>3, AppendSorted
  <2>2. Held' = Held
    BY <1>2, <1>3, <1>4, <1>7, <1>8, <2>1
  <2> QED BY <1>1, <1>8, <2>2, CountStays
<1>9. CASE codec' = [codec EXCEPT ![i] = <<f>>] /\ LoseInStage(IdSet(codec[i]))
  <2> DEFINE X == IdSet(codec[i])
  <2> HIDE DEF f, t
  <2>1. IdSet(<<f>>) = {f.id}
    <3>1. Len(<<f>>) = 1 /\ <<f>>[1] = f
      OBVIOUS
    <3> QED BY <3>1 DEF IdSet
  <2>2. Held' = Held \ X /\ X \subseteq Held /\ LoseInStage(X)
    BY <1>2, <1>3, <1>4, <1>5, <1>7, <1>9, <2>1
  <2> HIDE DEF X
  <2> QED BY <1>1, <1>6, <2>2, CountLoses
<1> QED BY <1>8, <1>9 DEF EnterCodec

(* The steps of the workers.                                                *)
LEMMA CountWorker ==
    ASSUME TypeOK, InHand, QuietInv, LineInv, CountInv, NEW i \in Stages,
           WorkerStep(i)
    PROVE  CountInv'
<1>1. CASE EmitFrame(i)
  BY <1>1, CountEmit DEF EmitFrame
<1>2. ASSUME UNCHANGED <<queue, codec, hand, produced, delivered, lost>>
      PROVE  CountInv'
  <2>1. \A j \in Stages, p \in Places : HeldAt(j, p)' = HeldAt(j, p)
    BY <1>2, PlaceCases DEF HeldAt
  <2>2. Held' = Held
    <3>1. Held' = UNION {HeldAt(j, p)' : j \in Stages, p \in Places}
      BY DEF Held, Stages, Places
    <3> QED BY <2>1, <3>1 DEF Held
  <2> QED BY <1>2, <2>2, CountStays
<1>3. CASE LeaveCodec(i)
  <2>1. hand' = [hand EXCEPT ![i] = hand[i]]
    BY <1>3 DEF LeaveCodec, FrameDone
  <2>2. hand' = hand
    BY <2>1 DEF TypeOK
  <2> QED BY <1>2, <1>3, <2>2 DEF LeaveCodec, streamVars
<1>4. CASE CodecFails(i)
  <2> DEFINE X == IdSet(hand[i])
  <2>1. /\ hand' = [hand EXCEPT ![i] = <<>>] /\ LoseInStage(X)
        /\ UNCHANGED <<queue, codec, produced, delivered>>
    BY <1>4 DEF CodecFails, BatchFailed
  <2>2. hand'[i] = <<>> /\ \A j \in Stages : j # i => hand'[j] = hand[j]
    BY <2>1 DEF TypeOK
  <2>3. HeldAt(i, 2)' = {} /\ HeldAt(i, 2) = X /\ 2 \in Places
    BY <2>2, PlaceCases, EmptySorted DEF HeldAt
  <2>4. \A j \in Stages, p \in Places :
           (j = i /\ p = 2) \/ Place(j, p)' = Place(j, p)
    BY <2>1, <2>2, PlaceCases
  <2>5. Held' = (Held \ (HeldAt(i, 2) \union HeldAt(i, 2)))
                  \union HeldAt(i, 2)' \union HeldAt(i, 2)'
    BY <2>3, <2>4, HeldTwo
  <2>6. Held' = Held \ X /\ X \subseteq Held
    BY <2>3, <2>5, HeldHas
  <2>7. FramesDropped' = FramesDropped
    BY <2>1, DroppedStays
  <2> HIDE DEF X
  <2> QED BY <2>1, <2>6, <2>7, CountLoses
<1>5. CASE WorkerExit(i)
  BY <1>2, <1>5 DEF WorkerExit, streamVars
<1> QED BY <1>1, <1>3, <1>4, <1>5, CountPop, CountForward, CountEnter DEF WorkerStep

(* The account is kept by every step.                                       *)
LEMMA CountStep ==
    OrderInv /\ CountInv /\ [Next]_vars => CountInv'
<1> SUFFICES ASSUME OrderInv, CountInv, [Next]_vars PROVE CountInv'
  OBVIOUS
<1>1. TypeOK /\ InHand /\ QuietInv /\ LineInv
  BY DEF OrderInv
<1>2. ASSUME UNCHANGED <<codec, hand, produced, delivered, lost>>,
             \A j \in Stages : /\ queue'[j].frames = queue[j].frames
                               /\ queue'[j].dropped = queue[j].dropped
      PROVE  CountInv'
  <2>1. \A j \in Stages, p \in Places : HeldAt(j, p)' = HeldAt(j, p)
    BY <1>2, PlaceCases DEF HeldAt
  <2>2. Held' = Held
    <3>1. Held' = UNION {HeldAt(j, p)' : j \in Stages, p \in Places}
      BY DEF Held, Stages, Places
    <3> QED BY <2>1, <3>1 DEF Held
  <2> QED BY <1>1, <1>2, <2>2, CountStays
<1>3. CASE ApiCall
  BY <1>2, <1>3
     DEF ApiCall, Initialize, Start, Stop, DrainAndStop, threadVars, streamVars
<1>4. CASE CtlStep
  <2>1. CASE ShutdownStages
    <3>1. hand' = hand /\ produced' = produced /\ ctl.k \in Stages
      BY <1>1, <2>1 DEF ShutdownStages, InHand, InLoop
    <3>2. EmitFromCodec(ctl.k) \/ UNCHANGED <<queue, codec, delivered, lost>>
      BY <2>1 DEF ShutdownStages
    <3> QED BY <1>1, <1>2, <3>1, <3>2, CountEmit
  <2>2. CASE ShutdownQueues
    <3>1. /\ UNCHANGED <<produced, delivered, lost, hand, codec>>
          /\ queue' = [queue EXCEPT ![ctl.k] = Shutdown(@)]
      BY <2>2 DEF ShutdownQueues, threadVars, streamVars
    <3>2. ASSUME NEW j \in Stages
          PROVE  queue'[j].frames = queue[j].frames /\ queue'[j].dropped = queue[j].dropped
      <4>1. queue[j] \in Queues(Frames)
        BY <1>1 DEF TypeOK
      <4>2. /\ Shutdown(queue[j]).frames = queue[j].frames
            /\ Shutdown(queue[j]).dropped = queue[j].dropped
        BY <4>1 DEF Shutdown, Queues
      <4> QED BY <1>1, <3>1, <4>2 DEF TypeOK
    <3> QED BY <1>2, <3>1, <3>2
  <2>3. CASE OnPipelineStart \/ DrainPoll \/ OnPipelineStop \/ ClearRunning \/ JoinWorkers
    BY <1>2, <2>3 DEF OnPipelineStart, DrainPoll, OnPipelineStop, ClearRunning,
       JoinWorkers, threadVars, streamVars
  <2> QED BY <1>4, <2>1, <2>2, <2>3 DEF CtlStep
<1>5. CASE UNCHANGED vars
  BY <1>2, <1>5 DEF vars
<1> QED BY <1>1, <1>3, <1>4, <1>5, CountPacket, CountWorker DEF Next

(* An empty pipeline has lost and counted nothing.                          *)
LEMMA CountInit == Init => CountInv
<1> SUFFICES ASSUME Init PROVE CountInv
  OBVIOUS
<1>1. Held = {} /\ Missed = {}
  BY OrderInit DEF Init, Missed
<1>2. produced = 0 /\ Len(delivered) = 0
  BY DEF Init
<1>3. Cardinality(Held) = 0 /\ Cardinality(Missed) = 0
  <2>1. Cardinality({}) = 0
    BY FS_EmptySet
  <2> QED BY <1>1, <2>1, Zenon
<1>4. FramesDropped = 0
  <2> DEFINE f == [i \in Stages |-> queue[i].dropped]
  <2>1. \A i \in Stages : f[i] = 0
    BY DEF Init, NewQueue
  <2>2. IsFiniteSet(Stages)
    BY PipelineAssumption, FS_Interval DEF Stages
  <2>3. FramesDropped = SumFunctionOnSet(f, Stages)
    BY DEF FramesDropped, SumFunction
  <2> HIDE DEF f
  <2> QED BY <2>1, <2>2, <2>3, SumOfZeros
<1> QED BY <1>1, <1>2, <1>3, <1>4 DEF CountInv

(* FramesDropped() is exact about the frames that queues turned away, for   *)
(* any number of stages: every received frame is delivered, inside, counted *)
(* once by one queue, or noted as lost past shutdown, in a codec or behind  *)
(* a batch failure.                                                         *)
THEOREM DropsAlwaysCounted == Spec => []DropsCounted
<1>1. OrderInv /\ CountInv => DropsCounted
  <2> SUFFICES ASSUME OrderInv, CountInv PROVE DropsCounted
    OBVIOUS
  <2>1. Pending = Held
    BY PendingIsHeld DEF OrderInv
  <2>2. Cardinality(Pending) = Cardinality(Held)
    BY <2>1, Zenon
  <2> QED BY <2>2 DEF DropsCounted, CountInv, Missed
<1>2. Init => OrderInv /\ CountInv
  BY OrderInit, CountInit
<1>3. OrderInv /\ CountInv /\ [Next]_vars => OrderInv' /\ CountInv'
  BY OrderStep, CountStep
<1> QED BY <1>1, <1>2, <1>3, PTL DEF Spec
=============================================================================
