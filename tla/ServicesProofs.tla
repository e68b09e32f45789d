--------------------------- MODULE ServicesProofs ---------------------------
(* Six services whose correctness rests on what their threads leave         *)
(* behind for each other, for every value of their constants.                *)
(*   - RtspClient: what the client reports between calls follows from where  *)
(*     the pull thread may be while the owner is in a call (ThreadJoined),   *)
(*     what it has set state_ to when it gets there (StateMeans) and where   *)
(*     the context exists (ContextOpen);                                     *)
(*   - ChannelMonitor: attempts are apart because a tracker counts at most   *)
(*     one error per round since the last attempt (TrackersCount) and the    *)
(*     reason for an attempt cannot go away (CandidatesDue);                 *)
(*   - HotReload: copies of the configuration agree because every change of  *)
(*     the file leaves an event (FileSeen) and every list of sections to     *)
(*     notify covers what the components do not have (Notified);             *)
(*   - Rules: the engine has what the store holds because a channel has one  *)
(*     call at a time and what that call has built is still in the store     *)
(*     when it installs it (ChannelFollows); the reports agree because an    *)
(*     hour counts only events reported, each once (HourlyInv);              *)
(*   - Access: tokens and login attempts, for which requests in flight count *)
(*     as well (NamingInv, AttemptsInv);                                     *)
(*   - AnalysisScheduler: the budget is shared because the grants are right  *)
(*     after every round of the loop (SharesRight).                          *)
EXTENDS RtspClient, ChannelMonitor, HotReload, Rules, Access, AnalysisScheduler,
        FiniteSetTheorems, SumProofs, TLAPS

-----------------------------------------------------------------------------
(* RtspClient.                                                              *)

States == {"kDisconnected", "kConnecting", "kConnected", "kReconnecting",
           "kError"}
PullReading == {"allocate", "loop", "read", "deliver"}
PullRetrying == {"attempt", "wait", "connect"}
Calls == {"idle", "join", "disconnect", "disconnected", "configure",
          "connect", "start"}

ClientTypeOK ==
    /\ config_ \in [file : BOOLEAN, auto_reconnect : BOOLEAN,
                    max_reconnect_attempts : Nat]
    /\ state_ \in States /\ running_ \in BOOLEAN
    /\ fmt_ctx_ \in BOOLEAN /\ bsf_ctx_ \in BOOLEAN
    /\ reconnect_attempts_ \in Nat /\ delay_ms \in Nat
    /\ pull \in PullReading \union PullRetrying \union {"none", "ended"}
    /\ owner \in [op : {"open", "close"}, at : Calls]

(* Past the join there is no thread until StartPull makes one; a thread     *)
(* that the owner is not joining has running_ set.                          *)
ThreadJoined ==
    /\ owner.at \notin {"idle", "join"} => pull = "none"
    /\ owner.at = "idle" /\ pull # "none" => running_

(* The thread's place and state_ agree.                                     *)
StateMeans ==
    /\ pull \in PullReading => state_ = "kConnected"
    /\ pull \in PullRetrying => state_ = "kReconnecting"
    /\ owner.at = "idle" /\ pull = "ended" => state_ = "kError"
    /\ owner.at = "idle" /\ pull = "none" => state_ \in {"kDisconnected", "kError"}
    /\ owner.at = "start" => state_ = "kConnected"

ContextOpen ==
    /\ bsf_ctx_ => fmt_ctx_
    /\ pull \in PullReading \/ owner.at = "start" => fmt_ctx_
    /\ pull = "connect" => ~fmt_ctx_
    /\ owner.at \in {"disconnected", "configure", "connect"} => ~fmt_ctx_
    /\ owner.at = "idle" /\ pull = "none" => ~fmt_ctx_

RetriesBounded ==
    /\ owner.at \in {"connect", "start"} => reconnect_attempts_ = 0
    /\ config_.max_reconnect_attempts > 0 =>
         /\ reconnect_attempts_ <= config_.max_reconnect_attempts + 1
         /\ reconnect_attempts_ > config_.max_reconnect_attempts =>
               pull \in {"ended", "none"}

DelayBounded ==
    delay_ms <= reconnect_delay_ms \/ delay_ms <= reconnect_max_delay_ms

ClientInv == /\ ClientTypeOK /\ ThreadJoined /\ StateMeans /\ ContextOpen
             /\ RetriesBounded /\ DelayBounded

(* The invariant holds of a client nobody has opened.                       *)
LEMMA ClientStart == ClientInit => ClientInv
<1> SUFFICES ASSUME ClientInit PROVE ClientInv
  OBVIOUS
<1> USE DEF ClientInit, States, PullReading, PullRetrying, Calls
<1>1. ClientTypeOK
  BY ClientAssumption DEF ClientTypeOK
<1>2. ThreadJoined
  BY ClientAssumption DEF ThreadJoined
<1>3. StateMeans
  BY ClientAssumption DEF StateMeans
<1>4. ContextOpen
  BY ClientAssumption DEF ContextOpen
<1>5. RetriesBounded
  BY ClientAssumption DEF RetriesBounded
<1>6. DelayBounded
  BY ClientAssumption DEF DelayBounded
<1> QED
  BY <1>1, <1>2, <1>3, <1>4, <1>5, <1>6 DEF ClientInv

(* Connect opens the context, and the filter or not.                        *)
LEMMA OpenedContext ==
    ASSUME ClientTypeOK, ConnectOk
    PROVE  fmt_ctx_' = TRUE /\ bsf_ctx_' \in BOOLEAN
<1>1. config_.file \in BOOLEAN
  BY DEF ClientTypeOK
<1> QED
  BY <1>1, Zenon DEF ConnectOk

(* Every step of the owner, the pull thread and the source keeps it.        *)
LEMMA ClientStep == ClientInv /\ [ClientNext]_clientVars => ClientInv'
<1> SUFFICES ASSUME ClientInv, [ClientNext]_clientVars PROVE ClientInv'
  OBVIOUS
<1> USE DEF ClientInv, ClientTypeOK, ThreadJoined, StateMeans, ContextOpen,
        RetriesBounded, DelayBounded, States, PullReading, PullRetrying, Calls
<1>1. ASSUME NEW op \in {"open", "close"}, BeginClose(op) PROVE ClientInv'
  <2>1. owner' \in [op : {"open", "close"}, at : Calls] /\ owner'.at = "join"
    BY <1>1 DEF BeginClose
  <2>2. /\ running_' = FALSE /\ owner.at = "idle"
        /\ UNCHANGED <<config_, state_, fmt_ctx_, bsf_ctx_,
                       reconnect_attempts_, delay_ms, pull>>
    BY <1>1 DEF BeginClose, At, contextVars
  <2> QED
    BY <2>1, <2>2
<1>2. CASE JoinPull
  BY <1>2, ClientAssumption DEF JoinPull, At, GoTo, contextVars
<1>3. CASE CloseDisconnect
  BY <1>3, ClientAssumption DEF CloseDisconnect, Disconnect, At, GoTo
<1>4. CASE SetDisconnected
  BY <1>4, ClientAssumption DEF SetDisconnected, At, GoTo, contextVars
<1>5. CASE Configure
  BY <1>5, ClientAssumption DEF Configure, At, GoTo, contextVars
<1>6. CASE OpenConnect
  <2>1. CASE ConnectOk /\ state_' = "kConnected" /\ GoTo("start")
    <3>1. UNCHANGED <<config_, running_, reconnect_attempts_, delay_ms, pull>>
      BY <1>6 DEF OpenConnect
    <3>2. fmt_ctx_' = TRUE /\ bsf_ctx_' \in BOOLEAN
      BY <2>1, OpenedContext
    <3> QED
      BY <1>6, <2>1, <3>1, <3>2 DEF OpenConnect, At, GoTo
  <2>2. CASE ConnectFails /\ state_' = "kError" /\ GoTo("idle")
    BY <1>6, <2>2 DEF OpenConnect, ConnectFails, At, GoTo
  <2> QED
    BY <1>6, <2>1, <2>2 DEF OpenConnect
<1>7. CASE StartPull
  BY <1>7, ClientAssumption DEF StartPull, At, GoTo, contextVars
<1>8. CASE AllocatePacket
  BY <1>8, ClientAssumption DEF AllocatePacket, contextVars
<1>9. CASE LoopTest
  BY <1>9, ClientAssumption DEF LoopTest, contextVars
<1>10. CASE ReadFrame
  BY <1>10, ClientAssumption DEF ReadFrame, contextVars
<1>11. CASE Deliver
  BY <1>11, ClientAssumption DEF Deliver, contextVars
<1>12. CASE RewindFails
  BY <1>12, ClientAssumption DEF RewindFails, contextVars
<1>13. CASE ReadFails
  BY <1>13, ClientAssumption DEF ReadFails, contextVars
<1>14. CASE BeginAttempt
  BY <1>14, ClientAssumption DEF BeginAttempt, GiveUp, contextVars
<1>15. CASE WaitOver
  BY <1>15, ClientAssumption DEF WaitOver, Disconnect, GiveUp, contextVars
<1>16. CASE Reconnect
  <2>1. CASE ConnectOk /\ state_' = "kConnected" /\ pull' = "loop" /\ UNCHANGED delay_ms
    <3>1. UNCHANGED <<config_, running_, reconnect_attempts_, owner>>
      BY <1>16 DEF Reconnect
    <3>2. fmt_ctx_' = TRUE /\ bsf_ctx_' \in BOOLEAN
      BY <2>1, OpenedContext
    <3> QED
      BY <1>16, <2>1, <3>1, <3>2 DEF Reconnect
  <2>2. CASE /\ ConnectFails /\ pull' = "attempt" /\ UNCHANGED state_
             /\ delay_ms' = IF delay_ms * 2 < reconnect_max_delay_ms
                            THEN delay_ms * 2 ELSE reconnect_max_delay_ms
    <3>1. UNCHANGED <<config_, running_, reconnect_attempts_, owner>> /\ pull = "connect"
      BY <1>16 DEF Reconnect
    <3>2. delay_ms' \in Nat /\ delay_ms' <= reconnect_max_delay_ms
      BY <2>2, ClientAssumption
    <3> QED
      BY <2>2, <3>1, <3>2 DEF ConnectFails
  <2> QED
    BY <1>16, <2>1, <2>2 DEF Reconnect
<1>17. CASE SourceFails
  BY <1>17, ClientAssumption DEF SourceFails, contextVars
<1>18. CASE SourceReturns
  BY <1>18, ClientAssumption DEF SourceReturns, contextVars
<1>19. CASE UNCHANGED clientVars
  BY <1>19 DEF clientVars, contextVars
<1> QED
  BY <1>1, <1>2, <1>3, <1>4, <1>5, <1>6, <1>7, <1>8, <1>9, <1>10, <1>11,
     <1>12, <1>13, <1>14, <1>15, <1>16, <1>17, <1>18, <1>19
  DEF ClientNext, Open, Close

(* Whatever Open, Close, reading, back-off and the source's failures meet,  *)
(* the client says what is true of it.                                      *)
THEOREM Truthful == ClientSpec => []ClientTruthful
<1>1. ClientInv => ClientTruthful
  BY DEF ClientInv, ClientTruthful, ClientTypeOK, ThreadJoined, StateMeans,
     ContextOpen, RetriesBounded, DelayBounded, At, States, PullReading, PullRetrying,
     Calls
<1> QED
  BY ClientStart, ClientStep, <1>1, PTL DEF ClientSpec

-----------------------------------------------------------------------------
(* ChannelMonitor.                                                          *)

(* Ids are given once, so a channel that has lost its tracker has either    *)
(* not been tried yet or is gone for good.                                  *)
TrackersKnown ==
    /\ DOMAIN entries \subseteq createdIds /\ createdIds \subseteq MonitoredIds
    /\ DOMAIN trackers_ \subseteq createdIds
    /\ monitor.candidates \subseteq DOMAIN trackers_
    /\ \A id \in MonitoredIds :
          id \notin DOMAIN trackers_ /\ (id \in DOMAIN entries \/ id \notin createdIds)
            => recoveries[id] = <<>>

MonitorTypeOK ==
    /\ clock \in Nat
    /\ monitor \in [at : {"sleep", "recover", "stop", "start"},
                    id : Nat, candidates : SUBSET MonitoredIds, wake : Nat]
    /\ recoveries \in [MonitoredIds -> Seq(Nat)]
    /\ \A id \in DOMAIN trackers_ :
          /\ trackers_[id].recovery_attempts \in Nat
          /\ trackers_[id].consecutive_errors \in Nat
          /\ trackers_[id].last_progress_time \in Nat
          /\ trackers_[id] = [prev_frames_processed |-> trackers_[id].prev_frames_processed,
                              last_progress_time |-> trackers_[id].last_progress_time,
                              consecutive_errors |-> trackers_[id].consecutive_errors,
                              recovery_attempts |-> trackers_[id].recovery_attempts]
    /\ trackers_ = [id \in DOMAIN trackers_ |-> trackers_[id]]
    /\ entries = [id \in DOMAIN entries |-> entries[id]]

LastAttempt(id) == recoveries[id][Len(recoveries[id])]

(* A tracker counts the attempts; since the last one every error it counts  *)
(* took a round, and its progress is not older.                             *)
TrackersCount ==
    \A id \in DOMAIN trackers_ :
        LET t == trackers_[id]
        IN  /\ t.recovery_attempts = Len(recoveries[id])
            /\ t.last_progress_time <= clock
            /\ recoveries[id] # <<>> =>
                 /\ LastAttempt(id) <= t.last_progress_time
                 /\ LastAttempt(id) + t.consecutive_errors * interval_seconds_
                      <= clock
                 /\ monitor.at = "sleep" =>
                      LastAttempt(id)
                        + (t.consecutive_errors + 1) * interval_seconds_
                        <= monitor.wake

(* Why a channel is to be recovered still holds when its turn comes.        *)
CandidatesDue ==
    /\ monitor.at = "sleep" => monitor.candidates = {}
    /\ \A id \in monitor.candidates :
          \/ clock - trackers_[id].last_progress_time > stall_timeout_seconds_
          \/ trackers_[id].consecutive_errors >= error_threshold_

MonitorInv == /\ MonitorTypeOK /\ TrackersKnown /\ TrackersCount
              /\ CandidatesDue /\ RecoveriesPaced

(* A round per error: the arithmetic of TrackersCount.                      *)
LEMMA RoundsAdd ==
    ASSUME NEW n \in Nat, NEW m \in Nat
    PROVE  /\ n * interval_seconds_ \in Nat
           /\ (n + 1) * interval_seconds_ = n * interval_seconds_ + interval_seconds_
           /\ 0 * interval_seconds_ = 0
           /\ n >= m => n * interval_seconds_ >= m * interval_seconds_
<1>1. interval_seconds_ \in Nat
  BY MonitorAssumption
<1>2. ASSUME NEW i \in Nat
      PROVE  /\ n * i \in Nat /\ (n + 1) * i = n * i + i /\ 0 * i = 0
             /\ n >= m => n * i >= m * i
  <2>1. n * i \in Nat /\ (n + 1) * i = n * i + i /\ 0 * i = 0
    OBVIOUS
  <2>2. n >= m => n * i >= m * i
    <3> SUFFICES ASSUME n >= m PROVE n * i >= m * i
      OBVIOUS
    <3>1. PICK d \in Nat : n = m + d
      <4>1. n - m \in Nat /\ n = m + (n - m)
        OBVIOUS
      <4> QED BY <4>1
    <3>2. n * i = m * i + d * i /\ d * i \in Nat /\ m * i \in Nat
      BY <3>1
    <3> QED BY <3>2
  <2> QED BY <2>1, <2>2
<1> QED BY <1>1, <1>2

(* The invariant holds before there are channels.                           *)
LEMMA MonitorStart == MonitorInit => MonitorInv
<1> SUFFICES ASSUME MonitorInit PROVE MonitorInv
  OBVIOUS
<1>1. DOMAIN entries = {} /\ DOMAIN trackers_ = {}
  BY DEF MonitorInit
<1>2. MonitorTypeOK
  BY <1>1, MonitorAssumption DEF MonitorInit, MonitorTypeOK
<1>3. TrackersKnown
  BY <1>1 DEF MonitorInit, TrackersKnown
<1>4. TrackersCount
  BY <1>1 DEF MonitorInit, TrackersCount
<1>5. CandidatesDue
  BY DEF MonitorInit, CandidatesDue
<1>6. RecoveriesPaced
  BY MonitorAssumption DEF MonitorInit, RecoveriesPaced
<1> QED BY <1>2, <1>3, <1>4, <1>5, <1>6 DEF MonitorInv

(* The calls of ChannelManager that keep the set of channels.               *)
LEMMA SameChannels ==
    ASSUME NEW id, entries = [i \in DOMAIN entries |-> entries[i]],
           \/ StopOf(id) \/ StartOf(id)
           \/ EditOf(id)
           \/ \E state, frames : SetEntry(id, state, frames)
    PROVE  /\ DOMAIN entries' = DOMAIN entries
           /\ entries' = [i \in DOMAIN entries' |-> entries'[i]]
<1>1. ASSUME NEW state, NEW frames, SetEntry(id, state, frames)
      PROVE  /\ DOMAIN entries' = DOMAIN entries
             /\ entries' = [i \in DOMAIN entries' |-> entries'[i]]
  BY <1>1 DEF SetEntry
<1>2. CASE UNCHANGED entries
  BY <1>2
<1> QED BY <1>1, <1>2 DEF StopOf, StartOf, EditOf

(* A step that leaves the monitor's own state alone: only the clock may     *)
(* advance and channels come and go.                                        *)
LEMMA OthersKeep ==
    ASSUME MonitorInv, UNCHANGED <<trackers_, recoveries>>,
           monitor' = monitor \/
             (monitor' = [monitor EXCEPT !.at = "start"]
                /\ monitor.at = "stop") \/
             (monitor' = [monitor EXCEPT !.at = "recover"]
                /\ monitor.at = "start"),
           clock' \in Nat, clock <= clock',
           createdIds \subseteq createdIds', createdIds' \subseteq MonitoredIds,
           DOMAIN entries' \subseteq createdIds',
           DOMAIN entries' \subseteq DOMAIN entries \union (createdIds' \ createdIds),
           entries' = [i \in DOMAIN entries' |-> entries'[i]]
    PROVE  MonitorInv'
<1>1. /\ monitor'.candidates = monitor.candidates
      /\ monitor'.wake = monitor.wake
      /\ monitor'.at = "sleep" => monitor.at = "sleep"
      /\ monitor' \in [at : {"sleep", "recover", "stop", "start"},
                    id : Nat, candidates : SUBSET MonitoredIds, wake : Nat]
  BY DEF MonitorInv, MonitorTypeOK
<1>2. MonitorTypeOK'
  BY <1>1 DEF MonitorInv, MonitorTypeOK
<1>3. TrackersKnown'
  BY <1>1 DEF MonitorInv, TrackersKnown
<1>4. TrackersCount'
  <2> SUFFICES ASSUME NEW id \in DOMAIN trackers_
        PROVE  LET t == trackers_[id]
               IN  /\ t.recovery_attempts = Len(recoveries[id])
                   /\ t.last_progress_time <= clock'
                   /\ recoveries[id] # <<>> =>
                        /\ LastAttempt(id) <= t.last_progress_time
                        /\ LastAttempt(id) + t.consecutive_errors * interval_seconds_
                             <= clock'
                        /\ monitor'.at = "sleep" =>
                             LastAttempt(id)
                               + (t.consecutive_errors + 1) * interval_seconds_
                               <= monitor'.wake
    BY DEF TrackersCount, LastAttempt
  <2>1. id \in MonitoredIds /\ recoveries[id] \in Seq(Nat)
    BY DEF MonitorInv, MonitorTypeOK, TrackersKnown
  <2>2. recoveries[id] # <<>> => LastAttempt(id) \in Nat
    BY <2>1 DEF LastAttempt
  <2>3. /\ trackers_[id].consecutive_errors * interval_seconds_ \in Nat
        /\ trackers_[id].last_progress_time \in Nat
    BY RoundsAdd DEF MonitorInv, MonitorTypeOK
  <2>4. clock \in Nat
    BY DEF MonitorInv, MonitorTypeOK
  <2> HIDE DEF LastAttempt
  <2>5. LET t == trackers_[id]
        IN  /\ t.recovery_attempts = Len(recoveries[id])
            /\ t.last_progress_time <= clock
            /\ recoveries[id] # <<>> =>
                 /\ LastAttempt(id) <= t.last_progress_time
                 /\ LastAttempt(id) + t.consecutive_errors * interval_seconds_
                      <= clock
                 /\ monitor.at = "sleep" =>
                      LastAttempt(id)
                        + (t.consecutive_errors + 1) * interval_seconds_
                        <= monitor.wake
    BY DEF MonitorInv, TrackersCount
  <2> QED BY <1>1, <2>2, <2>3, <2>4, <2>5
<1>5. CandidatesDue'
  <2>1. \A id \in monitor.candidates : trackers_[id].last_progress_time \in Nat
    BY DEF MonitorInv, MonitorTypeOK, TrackersKnown
  <2>2. clock \in Nat /\ stall_timeout_seconds_ \in Nat
    BY MonitorAssumption DEF MonitorInv, MonitorTypeOK
  <2> QED BY <1>1, <2>1, <2>2 DEF MonitorInv, CandidatesDue
<1>6. RecoveriesPaced'
  BY DEF MonitorInv, RecoveriesPaced
<1> QED BY <1>2, <1>3, <1>4, <1>5, <1>6 DEF MonitorInv

(* A round looks at every channel.                                          *)
LEMMA RoundKeeps == MonitorInv /\ MonitorLoop => MonitorInv'
<1> SUFFICES ASSUME MonitorInv, MonitorLoop PROVE MonitorInv'
  OBVIOUS
<1>1. /\ clock \in Nat /\ monitor.wake \in Nat /\ monitor.wake <= clock
      /\ monitor.at = "sleep"
      /\ UNCHANGED <<clock, entries, createdIds, recoveries>>
      /\ trackers_' = [id \in DOMAIN entries |-> Looked(id)]
      /\ DOMAIN entries \subseteq createdIds /\ createdIds \subseteq MonitoredIds
      /\ recoveries \in [MonitoredIds -> Seq(Nat)]
  BY DEF MonitorInv, MonitorTypeOK, TrackersKnown, MonitorLoop
<1>2. RecoveryCandidates \subseteq DOMAIN entries
  BY DEF RecoveryCandidates
<1>3. /\ monitor'.at = "recover" /\ monitor'.candidates = RecoveryCandidates
      /\ monitor'.wake = monitor.wake
      /\ monitor' \in [at : {"sleep", "recover", "stop", "start"},
                       id : Nat, candidates : SUBSET MonitoredIds, wake : Nat]
  <2>1. monitor' = [monitor EXCEPT !.at = "recover", !.candidates = RecoveryCandidates]
    BY DEF MonitorLoop
  <2>2. monitor \in [at : {"sleep", "recover", "stop", "start"},
                     id : Nat, candidates : SUBSET MonitoredIds, wake : Nat]
    BY DEF MonitorInv, MonitorTypeOK
  <2> QED BY <1>1, <1>2, <2>1, <2>2
<1>4. ASSUME NEW id \in DOMAIN entries
      PROVE  LET t == TrackerOf(id)
             IN  /\ t.recovery_attempts = Len(recoveries[id])
                 /\ t.consecutive_errors \in Nat
                 /\ t.last_progress_time \in Nat
                 /\ t.last_progress_time <= clock
                 /\ t = [prev_frames_processed |-> t.prev_frames_processed,
                         last_progress_time |-> t.last_progress_time,
                         consecutive_errors |-> t.consecutive_errors,
                         recovery_attempts |-> t.recovery_attempts]
                 /\ recoveries[id] # <<>> =>
                      /\ LastAttempt(id) <= t.last_progress_time
                      /\ LastAttempt(id)
                           + (t.consecutive_errors + 1) * interval_seconds_
                           <= clock
  <2>1. CASE id \in DOMAIN trackers_
    <3>1. LET t == trackers_[id]
          IN  /\ t.recovery_attempts = Len(recoveries[id])
              /\ t.last_progress_time <= clock
              /\ recoveries[id] # <<>> =>
                   /\ LastAttempt(id) <= t.last_progress_time
                   /\ LastAttempt(id)
                        + (t.consecutive_errors + 1) * interval_seconds_
                        <= monitor.wake
      BY <1>1, <2>1 DEF MonitorInv, TrackersCount
    <3>2. LET t == trackers_[id]
          IN  /\ t.consecutive_errors \in Nat
              /\ t.last_progress_time \in Nat
              /\ t = [prev_frames_processed |-> t.prev_frames_processed,
                      last_progress_time |-> t.last_progress_time,
                      consecutive_errors |-> t.consecutive_errors,
                      recovery_attempts |-> t.recovery_attempts]
      BY <2>1 DEF MonitorInv, MonitorTypeOK
    <3>3. recoveries[id] # <<>> => LastAttempt(id) \in Nat
      BY <1>1 DEF LastAttempt
    <3>4. trackers_[id].consecutive_errors + 1 \in Nat
      BY <3>2
    <3>5. (trackers_[id].consecutive_errors + 1) * interval_seconds_ \in Nat
      BY <3>4, RoundsAdd
    <3>6. TrackerOf(id) = trackers_[id]
      BY <2>1 DEF TrackerOf
    <3> HIDE DEF LastAttempt
    <3> QED BY <1>1, <3>1, <3>2, <3>3, <3>5, <3>6
  <2>2. CASE id \notin DOMAIN trackers_
    <3>1. recoveries[id] = <<>>
      BY <1>1, <2>2 DEF MonitorInv, TrackersKnown
    <3> QED BY <1>1, <2>2, <3>1 DEF TrackerOf, NewTracker
  <2> QED BY <2>1, <2>2
<1>5. ASSUME NEW id \in DOMAIN entries
      PROVE  LET t == TrackerOf(id)
                 u == Looked(id)
             IN  /\ u.recovery_attempts = t.recovery_attempts
                 /\ u.consecutive_errors \in {0, 1, t.consecutive_errors,
                                              t.consecutive_errors + 1}
                 /\ u.last_progress_time \in {t.last_progress_time, clock}
                 /\ u = [prev_frames_processed |-> u.prev_frames_processed,
                         last_progress_time |-> u.last_progress_time,
                         consecutive_errors |-> u.consecutive_errors,
                         recovery_attempts |-> u.recovery_attempts]
  <2> DEFINE t == TrackerOf(id)
  <2>1. t = [prev_frames_processed |-> t.prev_frames_processed,
             last_progress_time |-> t.last_progress_time,
             consecutive_errors |-> t.consecutive_errors,
             recovery_attempts |-> t.recovery_attempts]
        /\ t.consecutive_errors \in Nat
    BY <1>4
  <2>2. Looked(id) =
          LET progress == entries[id].frames_processed > t.prev_frames_processed
              errors == IF progress THEN 0 ELSE t.consecutive_errors
          IN  [t EXCEPT !.prev_frames_processed = entries[id].frames_processed,
                  !.last_progress_time = IF progress THEN clock ELSE @,
                  !.consecutive_errors = IF entries[id].state = "kError"
                                         THEN errors + 1 ELSE errors]
    BY DEF Looked
  <2> DEFINE progress == entries[id].frames_processed > t.prev_frames_processed
             errors == IF progress THEN 0 ELSE t.consecutive_errors
             since == IF progress THEN clock ELSE t.last_progress_time
             counted == IF entries[id].state = "kError" THEN errors + 1 ELSE errors
  <2>4. Looked(id) = [prev_frames_processed |-> entries[id].frames_processed,
                      last_progress_time |-> since,
                      consecutive_errors |-> counted,
                      recovery_attempts |-> t.recovery_attempts]
    <3> HIDE DEF t
    <3>1. Looked(id) = [t EXCEPT !.prev_frames_processed = entries[id].frames_processed,
                                 !.last_progress_time = since,
                                 !.consecutive_errors = counted]
      BY <2>2
    <3> HIDE DEF since, counted
    <3> QED BY <2>1, <3>1
  <2>5. errors \in {0, t.consecutive_errors} /\ since \in {t.last_progress_time, clock}
    OBVIOUS
  <2>6. counted \in {0, 1, t.consecutive_errors, t.consecutive_errors + 1}
    BY <2>5
  <2> HIDE DEF t, since, counted
  <2>3. LET u == Looked(id)
        IN  /\ u.recovery_attempts = t.recovery_attempts
            /\ u.consecutive_errors \in {0, 1, t.consecutive_errors,
                                         t.consecutive_errors + 1}
            /\ u.last_progress_time \in {t.last_progress_time, clock}
            /\ u = [prev_frames_processed |-> u.prev_frames_processed,
                    last_progress_time |-> u.last_progress_time,
                    consecutive_errors |-> u.consecutive_errors,
                    recovery_attempts |-> u.recovery_attempts]
    BY <2>4, <2>5, <2>6
  <2> QED BY <2>3 DEF t
<1>6. ASSUME NEW id \in DOMAIN entries
      PROVE  LET u == Looked(id)
             IN  /\ u.recovery_attempts = Len(recoveries[id])
                 /\ u.consecutive_errors \in Nat
                 /\ u.last_progress_time \in Nat
                 /\ u.last_progress_time <= clock
                 /\ recoveries[id] # <<>> =>
                      /\ LastAttempt(id) <= u.last_progress_time
                      /\ LastAttempt(id)
                           + u.consecutive_errors * interval_seconds_ <= clock
  <2> DEFINE c == TrackerOf(id).consecutive_errors
             l == TrackerOf(id).last_progress_time
             e == Looked(id).consecutive_errors
             p == Looked(id).last_progress_time
  <2>1. /\ c \in Nat /\ l \in Nat /\ l <= clock
        /\ TrackerOf(id).recovery_attempts = Len(recoveries[id])
        /\ recoveries[id] # <<>> =>
             /\ LastAttempt(id) <= l
             /\ LastAttempt(id) + (c + 1) * interval_seconds_ <= clock
    BY <1>4
  <2>2. /\ e \in {0, 1, c, c + 1} /\ p \in {l, clock}
        /\ Looked(id).recovery_attempts = TrackerOf(id).recovery_attempts
    BY <1>5
  <2>3. recoveries[id] # <<>> => LastAttempt(id) \in Nat
    BY <1>1 DEF LastAttempt
  <2> HIDE DEF c, l, e, p, LastAttempt
  <2>4. c + 1 \in Nat /\ e \in Nat /\ c + 1 >= e
    BY <2>1, <2>2
  <2>5. /\ (c + 1) * interval_seconds_ >= e * interval_seconds_
        /\ (c + 1) * interval_seconds_ \in Nat /\ e * interval_seconds_ \in Nat
    BY <2>4, RoundsAdd
  <2>6. recoveries[id] # <<>> =>
             /\ LastAttempt(id) <= p
             /\ LastAttempt(id) + e * interval_seconds_ <= clock
    BY <1>1, <2>1, <2>2, <2>3, <2>5
  <2>7. p \in Nat /\ p <= clock
    BY <1>1, <2>1, <2>2
  <2> QED BY <2>1, <2>2, <2>4, <2>6, <2>7 DEF e, p
<1>7. MonitorTypeOK'
  <2>1. trackers_' = [id \in DOMAIN trackers_' |-> trackers_'[id]]
    BY <1>1
  <2>2. entries' = [id \in DOMAIN entries' |-> entries'[id]]
    BY <1>1 DEF MonitorInv, MonitorTypeOK
  <2>3. ASSUME NEW id \in DOMAIN trackers_'
        PROVE  LET u == trackers_'[id]
               IN  /\ u.recovery_attempts \in Nat
                   /\ u.consecutive_errors \in Nat
                   /\ u.last_progress_time \in Nat
                   /\ u = [prev_frames_processed |-> u.prev_frames_processed,
                           last_progress_time |-> u.last_progress_time,
                           consecutive_errors |-> u.consecutive_errors,
                           recovery_attempts |-> u.recovery_attempts]
    <3>1. id \in DOMAIN entries /\ trackers_'[id] = Looked(id)
      BY <1>1
    <3>2. Len(recoveries[id]) \in Nat
      BY <1>1, <3>1
    <3> QED BY <1>5, <1>6, <3>1, <3>2
  <2> QED BY <1>1, <1>3, <2>1, <2>2, <2>3 DEF MonitorTypeOK
<1>8. TrackersKnown'
  BY <1>1, <1>2, <1>3 DEF MonitorInv, TrackersKnown
<1>9. TrackersCount'
  <2>1. ASSUME NEW id \in DOMAIN trackers_'
        PROVE  /\ trackers_'[id] = Looked(id) /\ id \in DOMAIN entries
               /\ LastAttempt(id)' = LastAttempt(id)
    BY <1>1 DEF LastAttempt
  <2> QED BY <1>1, <1>3, <1>6, <2>1 DEF TrackersCount
<1>10. CandidatesDue'
  <2>1. ASSUME NEW id \in RecoveryCandidates
        PROVE  \/ clock - Looked(id).last_progress_time > stall_timeout_seconds_
               \/ Looked(id).consecutive_errors >= error_threshold_
    BY DEF RecoveryCandidates, IsStalled
  <2>2. \A id \in RecoveryCandidates : trackers_'[id] = Looked(id)
    BY <1>1, <1>2
  <2> QED BY <1>1, <1>3, <2>1, <2>2 DEF CandidatesDue
<1>11. RecoveriesPaced'
  BY <1>1 DEF MonitorInv, RecoveriesPaced
<1> QED BY <1>7, <1>8, <1>9, <1>10, <1>11 DEF MonitorInv

(* An attempt is due, within the limit, and recorded.                       *)
LEMMA AttemptKeeps ==
    ASSUME MonitorInv, NEW id \in MonitoredIds, AttemptRecovery(id)
    PROVE  MonitorInv'
<1>1. /\ monitor.at = "recover" /\ id \in monitor.candidates
      /\ id \in DOMAIN trackers_ /\ monitor.candidates \subseteq DOMAIN trackers_
      /\ UNCHANGED <<clock, entries, createdIds>>
      /\ clock \in Nat
      /\ recoveries \in [MonitoredIds -> Seq(Nat)]
      /\ DOMAIN trackers_ \subseteq MonitoredIds
  BY DEF MonitorInv, MonitorTypeOK, TrackersKnown, AttemptRecovery
<1>2. monitor \in [at : {"sleep", "recover", "stop", "start"},
                   id : Nat, candidates : SUBSET MonitoredIds, wake : Nat]
  BY DEF MonitorInv, MonitorTypeOK
<1>3. CASE trackers_[id].recovery_attempts >= kMaxRecoveryAttempts
  <2>1. /\ monitor' = [monitor EXCEPT !.candidates = @ \ {id}]
        /\ UNCHANGED <<trackers_, recoveries>>
    BY <1>3 DEF AttemptRecovery
  <2>2. /\ monitor'.at = "recover"
        /\ monitor'.candidates \subseteq monitor.candidates
        /\ monitor' \in [at : {"sleep", "recover", "stop", "start"},
                         id : Nat, candidates : SUBSET MonitoredIds, wake : Nat]
    BY <1>1, <1>2, <2>1
  <2>3. MonitorTypeOK'
    BY <1>1, <2>1, <2>2 DEF MonitorInv, MonitorTypeOK
  <2>4. TrackersKnown'
    BY <1>1, <2>1, <2>2 DEF MonitorInv, TrackersKnown
  <2>5. TrackersCount'
    BY <1>1, <2>1, <2>2 DEF MonitorInv, TrackersCount, LastAttempt
  <2>6. CandidatesDue'
    BY <1>1, <2>1, <2>2 DEF MonitorInv, CandidatesDue
  <2>7. RecoveriesPaced'
    BY <2>1 DEF MonitorInv, RecoveriesPaced
  <2> QED BY <2>3, <2>4, <2>5, <2>6, <2>7 DEF MonitorInv
<1>4. CASE ~(trackers_[id].recovery_attempts >= kMaxRecoveryAttempts)
  <2> DEFINE t == trackers_[id]
             R == recoveries[id]
             n == Len(R)
  <2>1. /\ monitor' = [monitor EXCEPT !.candidates = @ \ {id},
                                      !.at = "stop", !.id = id]
        /\ trackers_' = [trackers_ EXCEPT ![id] = Attempt(@)]
        /\ recoveries' = [recoveries EXCEPT ![id] = Append(@, clock)]
    BY <1>4 DEF AttemptRecovery
  <2>2. /\ monitor'.at = "stop"
        /\ monitor'.candidates = monitor.candidates \ {id}
        /\ monitor' \in [at : {"sleep", "recover", "stop", "start"},
                         id : Nat, candidates : SUBSET MonitoredIds, wake : Nat]
    <3>1. id \in Nat
      BY MonitorAssumption
    <3> QED BY <1>1, <1>2, <2>1, <3>1
  <2>3. /\ t.recovery_attempts \in Nat /\ t.consecutive_errors \in Nat
        /\ t.last_progress_time \in Nat
        /\ t = [prev_frames_processed |-> t.prev_frames_processed,
                last_progress_time |-> t.last_progress_time,
                consecutive_errors |-> t.consecutive_errors,
                recovery_attempts |-> t.recovery_attempts]
        /\ t.recovery_attempts = n /\ t.last_progress_time <= clock
        /\ R # <<>> => /\ R[n] <= t.last_progress_time
                       /\ R[n] + t.consecutive_errors * interval_seconds_ <= clock
    BY <1>1 DEF MonitorInv, MonitorTypeOK, TrackersCount, LastAttempt
  <2>4. R \in Seq(Nat) /\ n \in Nat
    BY <1>1
  <2>5. /\ Attempt(t) = [prev_frames_processed |-> t.prev_frames_processed,
                         last_progress_time |-> clock, consecutive_errors |-> 0,
                         recovery_attempts |-> n + 1]
    <3>1. Attempt(t) = [t EXCEPT !.recovery_attempts = t.recovery_attempts + 1,
                                 !.consecutive_errors = 0,
                                 !.last_progress_time = clock]
      BY DEF Attempt
    <3>2. /\ t = [prev_frames_processed |-> t.prev_frames_processed,
                  last_progress_time |-> t.last_progress_time,
                  consecutive_errors |-> t.consecutive_errors,
                  recovery_attempts |-> t.recovery_attempts]
          /\ t.recovery_attempts = n
      BY <2>3
    <3> HIDE DEF t, n
    <3> QED BY <3>1, <3>2
  <2>6. /\ DOMAIN trackers_' = DOMAIN trackers_ /\ trackers_'[id] = Attempt(t)
        /\ \A other \in DOMAIN trackers_ : other # id => trackers_'[other] = trackers_[other]
        /\ trackers_' = [i \in DOMAIN trackers_' |-> trackers_'[i]]
    <3>1. trackers_ = [i \in DOMAIN trackers_ |-> trackers_[i]]
      BY DEF MonitorInv, MonitorTypeOK
    <3> QED BY <1>1, <2>1, <3>1
  <2>7. /\ recoveries' \in [MonitoredIds -> Seq(Nat)]
        /\ recoveries'[id] = Append(R, clock)
        /\ \A other \in MonitoredIds : other # id => recoveries'[other] = recoveries[other]
    BY <1>1, <2>1
  <2>8. /\ Len(recoveries'[id]) = n + 1 /\ recoveries'[id][n + 1] = clock
        /\ \A k \in 1..n : recoveries'[id][k] = R[k]
    BY <1>1, <2>4, <2>7
  <2>9. MonitorTypeOK'
    <3>1. entries' = [i \in DOMAIN entries' |-> entries'[i]]
      BY <1>1 DEF MonitorInv, MonitorTypeOK
    <3>2. ASSUME NEW i \in DOMAIN trackers_'
          PROVE  LET u == trackers_'[i]
                 IN  /\ u.recovery_attempts \in Nat
                     /\ u.consecutive_errors \in Nat
                     /\ u.last_progress_time \in Nat
                     /\ u = [prev_frames_processed |-> u.prev_frames_processed,
                             last_progress_time |-> u.last_progress_time,
                             consecutive_errors |-> u.consecutive_errors,
                             recovery_attempts |-> u.recovery_attempts]
      <4>1. CASE i = id
        BY <1>1, <2>4, <2>5, <2>6, <4>1
      <4>2. CASE i # id
        BY <2>6, <4>2 DEF MonitorInv, MonitorTypeOK
      <4> QED BY <4>1, <4>2
    <3> QED BY <1>1, <2>2, <2>6, <2>7, <3>1, <3>2 DEF MonitorTypeOK
  <2>10. TrackersKnown'
    BY <1>1, <2>2, <2>6, <2>7 DEF MonitorInv, TrackersKnown
  <2>11. TrackersCount'
    <3> SUFFICES ASSUME NEW i \in DOMAIN trackers_'
          PROVE  /\ trackers_'[i].recovery_attempts = Len(recoveries'[i])
                 /\ trackers_'[i].last_progress_time <= clock
                 /\ recoveries'[i] # <<>> =>
                      /\ LastAttempt(i)' <= trackers_'[i].last_progress_time
                      /\ LastAttempt(i)'
                           + trackers_'[i].consecutive_errors * interval_seconds_
                           <= clock
      BY <1>1, <2>2 DEF TrackersCount
    <3>1. CASE i = id
      <4>1. LastAttempt(id)' = clock
        BY <2>8 DEF LastAttempt
      <4>2. 0 * interval_seconds_ = 0
        BY RoundsAdd
      <4>3. /\ trackers_'[id].recovery_attempts = n + 1
            /\ trackers_'[id].last_progress_time = clock
            /\ trackers_'[id].consecutive_errors = 0
        BY <2>5, <2>6
      <4> QED BY <1>1, <2>8, <3>1, <4>1, <4>2, <4>3
    <3>2. CASE i # id
      <4>1. i \in DOMAIN trackers_ /\ trackers_'[i] = trackers_[i]
            /\ recoveries'[i] = recoveries[i]
        BY <1>1, <2>6, <2>7, <3>2
      <4>2. LastAttempt(i)' = LastAttempt(i)
        BY <4>1 DEF LastAttempt
      <4> QED BY <4>1, <4>2 DEF MonitorInv, TrackersCount
    <3> QED BY <3>1, <3>2
  <2>12. CandidatesDue'
    BY <1>1, <2>2, <2>6 DEF MonitorInv, CandidatesDue
  <2>13. RecoveriesPaced'
    <3>1. n + 1 <= kMaxRecoveryAttempts
      BY <1>4, <2>3, <2>4, MonitorAssumption
    <3>2. R # <<>> =>
            clock - R[n] >= Shorter(error_threshold_ * interval_seconds_,
                                    stall_timeout_seconds_ + 1)
      <4> SUFFICES ASSUME R # <<>>
            PROVE  clock - R[n] >= Shorter(error_threshold_ * interval_seconds_,
                                           stall_timeout_seconds_ + 1)
        OBVIOUS
      <4>1. R[n] \in Nat
        BY <2>4
      <4>2. error_threshold_ \in Nat /\ stall_timeout_seconds_ \in Nat
        BY MonitorAssumption
      <4>3. \/ clock - t.last_progress_time > stall_timeout_seconds_
            \/ t.consecutive_errors >= error_threshold_
        BY <1>1 DEF MonitorInv, CandidatesDue
      <4>4. /\ error_threshold_ * interval_seconds_ \in Nat
            /\ t.consecutive_errors * interval_seconds_ \in Nat
            /\ t.consecutive_errors >= error_threshold_ =>
                 t.consecutive_errors * interval_seconds_
                   >= error_threshold_ * interval_seconds_
        BY <2>3, <4>2, RoundsAdd
      <4>5. /\ R[n] <= t.last_progress_time
            /\ R[n] + t.consecutive_errors * interval_seconds_ <= clock
        BY <2>3
      <4> DEFINE last == R[n]
                 progress == t.last_progress_time
                 waited == t.consecutive_errors * interval_seconds_
                 due == error_threshold_ * interval_seconds_
      <4>6. /\ last \in Nat /\ progress \in Nat /\ waited \in Nat /\ due \in Nat
            /\ last <= progress /\ last + waited <= clock
            /\ \/ clock - progress > stall_timeout_seconds_
               \/ waited >= due
        BY <2>3, <4>1, <4>3, <4>4, <4>5
      <4> HIDE DEF last, progress, waited, due
      <4>7. clock - last >= Shorter(due, stall_timeout_seconds_ + 1)
        BY <1>1, <4>2, <4>6 DEF Shorter
      <4> QED BY <4>7 DEF last, due
    <3> SUFFICES ASSUME NEW i \in MonitoredIds
          PROVE  /\ Len(recoveries'[i]) <= kMaxRecoveryAttempts
                 /\ \A k \in 2..Len(recoveries'[i]) :
                       recoveries'[i][k] - recoveries'[i][k-1]
                         >= Shorter(error_threshold_ * interval_seconds_,
                                    stall_timeout_seconds_ + 1)
      BY DEF RecoveriesPaced
    <3>3. CASE i # id
      BY <2>7, <3>3 DEF MonitorInv, RecoveriesPaced
    <3>4. CASE i = id
      <4>1. Len(recoveries'[i]) <= kMaxRecoveryAttempts
        BY <2>8, <3>1, <3>4
      <4>2. ASSUME NEW k \in 2..(n + 1)
            PROVE  recoveries'[id][k] - recoveries'[id][k-1]
                         >= Shorter(error_threshold_ * interval_seconds_,
                                    stall_timeout_seconds_ + 1)
        <5>1. CASE k = n + 1
          <6>1. n >= 1 /\ k - 1 = n /\ R # <<>> /\ n \in 1..n
            BY <2>4, <5>1
          <6> QED BY <2>8, <3>2, <5>1, <6>1
        <5>2. CASE k # n + 1
          <6>1. k \in 2..n /\ k \in 1..n /\ k - 1 \in 1..n
            BY <2>4, <5>2
          <6>2. R[k] - R[k-1] >= Shorter(error_threshold_ * interval_seconds_,
                                         stall_timeout_seconds_ + 1)
            BY <6>1 DEF MonitorInv, RecoveriesPaced
          <6> QED BY <2>8, <6>1, <6>2
        <5> QED BY <5>1, <5>2
      <4> QED BY <2>8, <3>4, <4>1, <4>2
    <3> QED BY <3>3, <3>4
  <2> QED BY <2>9, <2>10, <2>11, <2>12, <2>13 DEF MonitorInv
<1> QED BY <1>3, <1>4

(* The monitor goes to sleep for a round.                                   *)
LEMMA SleepKeeps == MonitorInv /\ MonitorSleeps => MonitorInv'
<1> SUFFICES ASSUME MonitorInv, MonitorSleeps PROVE MonitorInv'
  OBVIOUS
<1>1. /\ clock \in Nat /\ interval_seconds_ \in Nat
      /\ UNCHANGED <<clock, entries, createdIds, trackers_, recoveries>>
      /\ monitor \in [at : {"sleep", "recover", "stop", "start"},
                      id : Nat, candidates : SUBSET MonitoredIds, wake : Nat]
      /\ monitor' = [monitor EXCEPT !.at = "sleep",
                                    !.wake = clock + interval_seconds_]
      /\ monitor.candidates = {}
  BY MonitorAssumption DEF MonitorInv, MonitorTypeOK, MonitorSleeps
<1>2. /\ monitor'.candidates = {} /\ monitor'.wake = clock + interval_seconds_
      /\ monitor' \in [at : {"sleep", "recover", "stop", "start"},
                       id : Nat, candidates : SUBSET MonitoredIds, wake : Nat]
  <2> DEFINE wake == clock + interval_seconds_
  <2>1. wake \in Nat /\ monitor' = [monitor EXCEPT !.at = "sleep", !.wake = wake]
    BY <1>1
  <2> HIDE DEF wake
  <2>2. /\ monitor'.candidates = monitor.candidates /\ monitor'.wake = wake
        /\ monitor' \in [at : {"sleep", "recover", "stop", "start"},
                         id : Nat, candidates : SUBSET MonitoredIds, wake : Nat]
    BY <1>1, <2>1
  <2> QED BY <1>1, <2>2 DEF wake
<1>3. MonitorTypeOK'
  BY <1>1, <1>2 DEF MonitorInv, MonitorTypeOK
<1>4. TrackersKnown'
  BY <1>1, <1>2 DEF MonitorInv, TrackersKnown
<1>5. TrackersCount'
  <2> SUFFICES ASSUME NEW id \in DOMAIN trackers_
        PROVE  LET t == trackers_[id]
               IN  /\ t.recovery_attempts = Len(recoveries[id])
                   /\ t.last_progress_time <= clock
                   /\ recoveries[id] # <<>> =>
                        /\ LastAttempt(id) <= t.last_progress_time
                        /\ LastAttempt(id) + t.consecutive_errors * interval_seconds_
                             <= clock
                        /\ LastAttempt(id)
                             + (t.consecutive_errors + 1) * interval_seconds_
                             <= clock + interval_seconds_
    BY <1>1, <1>2 DEF TrackersCount, LastAttempt
  <2>1. id \in MonitoredIds /\ recoveries[id] \in Seq(Nat)
    BY DEF MonitorInv, MonitorTypeOK, TrackersKnown
  <2>2. recoveries[id] # <<>> => LastAttempt(id) \in Nat
    BY <2>1 DEF LastAttempt
  <2>3. trackers_[id].consecutive_errors \in Nat
    BY DEF MonitorInv, MonitorTypeOK
  <2> DEFINE waited == trackers_[id].consecutive_errors * interval_seconds_
  <2>4. /\ waited \in Nat
        /\ (trackers_[id].consecutive_errors + 1) * interval_seconds_
             = waited + interval_seconds_
    BY <2>3, RoundsAdd
  <2>5. LET t == trackers_[id]
        IN  /\ t.recovery_attempts = Len(recoveries[id])
            /\ t.last_progress_time <= clock
            /\ recoveries[id] # <<>> =>
                 /\ LastAttempt(id) <= t.last_progress_time
                 /\ LastAttempt(id) + waited <= clock
    BY DEF MonitorInv, TrackersCount
  <2> HIDE DEF waited, LastAttempt
  <2>6. recoveries[id] # <<>> =>
          LastAttempt(id) + (waited + interval_seconds_) <= clock + interval_seconds_
    BY <1>1, <2>2, <2>4, <2>5
  <2> QED BY <2>4, <2>5, <2>6 DEF waited
<1>6. CandidatesDue'
  BY <1>2 DEF CandidatesDue
<1>7. RecoveriesPaced'
  BY <1>1 DEF MonitorInv, RecoveriesPaced
<1> QED BY <1>3, <1>4, <1>5, <1>6, <1>7 DEF MonitorInv

(* Every step of users, pipelines, the monitor and RecoveryLoop.            *)
LEMMA MonitorStep == MonitorInv /\ [MonitorNext]_monitorVars => MonitorInv'
<1> SUFFICES ASSUME MonitorInv, [MonitorNext]_monitorVars PROVE MonitorInv'
  OBVIOUS
<1>1. /\ clock \in Nat /\ DOMAIN entries \subseteq createdIds
      /\ createdIds \subseteq MonitoredIds
      /\ entries = [i \in DOMAIN entries |-> entries[i]]
  BY DEF MonitorInv, MonitorTypeOK, TrackersKnown
<1>2. ASSUME NEW id, UNCHANGED <<clock, createdIds, trackers_, recoveries>>,
             monitor' = monitor \/
               (monitor' = [monitor EXCEPT !.at = "start"]
                  /\ monitor.at = "stop") \/
               (monitor' = [monitor EXCEPT !.at = "recover"]
                  /\ monitor.at = "start"),
             \/ StopOf(id) \/ StartOf(id) \/ EditOf(id)
             \/ \E state, frames : SetEntry(id, state, frames)
      PROVE  MonitorInv'
  <2>1. /\ DOMAIN entries' = DOMAIN entries
        /\ entries' = [i \in DOMAIN entries' |-> entries'[i]]
    BY <1>1, <1>2, SameChannels
  <2> QED BY <1>1, <1>2, <2>1, OthersKeep
<1>3. CASE UserCall
  <2>1. UNCHANGED <<clock, trackers_, monitor, recoveries>>
    BY <1>3 DEF UserCall
  <2>2. ASSUME NEW id \in DOMAIN entries, DeleteOf(id), UNCHANGED createdIds
        PROVE  MonitorInv'
    <3>1. /\ DOMAIN entries' = DOMAIN entries \ {id}
          /\ entries' = [i \in DOMAIN entries' |-> entries'[i]]
      BY <2>2 DEF DeleteOf
    <3> QED BY <1>1, <2>1, <2>2, <3>1, OthersKeep
  <2>3. ASSUME NEW id \in MonitoredIds \ createdIds, CreateOf(id),
               createdIds' = createdIds \union {id}
        PROVE  MonitorInv'
    <3>1. /\ DOMAIN entries' = DOMAIN entries \union {id}
          /\ entries' = [i \in DOMAIN entries' |-> entries'[i]]
      BY <2>3 DEF CreateOf
    <3> QED BY <1>1, <2>1, <2>3, <3>1, OthersKeep
  <2> QED BY <1>2, <1>3, <2>1, <2>2, <2>3 DEF UserCall
<1>4. CASE MonitorLoop
  BY <1>4, RoundKeeps
<1>5. CASE MonitorStops
  <2>1. /\ UNCHANGED <<clock, createdIds, trackers_, recoveries>>
        /\ StopOf(monitor.id) /\ monitor.at = "stop"
        /\ monitor' = [monitor EXCEPT !.at = "start"]
    BY <1>5 DEF MonitorStops
  <2> QED BY <1>2, <2>1
<1>6. CASE MonitorStarts
  BY <1>2, <1>6 DEF MonitorStarts
<1>7. CASE MonitorSleeps
  BY <1>7, SleepKeeps
<1>8. CASE LoopCollects
  BY <1>1, <1>8, OthersKeep DEF LoopCollects
<1>9. CASE LoopStarts
  BY <1>2, <1>9 DEF LoopStarts
<1>10. CASE MonitorTick
  BY <1>1, <1>10, OthersKeep DEF MonitorTick
<1>11. ASSUME NEW id \in MonitoredIds,
              ProcessFrame(id) \/ AttemptRecovery(id) \/ LoopStops(id)
       PROVE  MonitorInv'
  <2>1. CASE ProcessFrame(id)
    BY <1>2, <2>1 DEF ProcessFrame
  <2>2. CASE AttemptRecovery(id)
    BY <2>2, AttemptKeeps
  <2>3. CASE LoopStops(id)
    BY <1>2, <2>3 DEF LoopStops
  <2> QED BY <1>11, <2>1, <2>2, <2>3
<1>12. CASE UNCHANGED monitorVars
  BY <1>1, <1>12, OthersKeep DEF monitorVars
<1> QED BY <1>3, <1>4, <1>5, <1>6, <1>7, <1>8, <1>9, <1>10, <1>11, <1>12
  DEF MonitorNext

(* AttemptRecovery of ChannelMonitor never becomes a restart storm, for     *)
(* every interval, timeout, threshold and limit, whatever users and         *)
(* RecoveryLoop do to the channels between its polls and its calls.         *)
THEOREM RecoveriesAlwaysPaced == MonitorSpec => []RecoveriesPaced
<1>1. MonitorInv => RecoveriesPaced
  BY DEF MonitorInv
<1> QED BY MonitorStart, MonitorStep, <1>1, PTL DEF MonitorSpec

-----------------------------------------------------------------------------
(* HotReload.                                                               *)

IsConfig(c) == DOMAIN c \subseteq Sections

IsThread(thread, places) ==
    /\ thread = [at |-> thread.at, old |-> thread.old, new |-> thread.new,
                 left |-> thread.left]
    /\ thread.at \in places
    /\ IsConfig(thread.old) /\ IsConfig(thread.new)
    /\ thread.left \in Seq(Sections)

PatcherPlaces == {"idle", "load", "truncate", "write", "notify"}
WatcherPlaces == {"idle", "parse", "lock", "load", "notify"}

HotTypeOK ==
    /\ IsThread(patcher, PatcherPlaces) /\ IsThread(watcher, WatcherPlaces)
    /\ IsConfig(current_config_) /\ \A c \in configFile : IsConfig(c)
    /\ applied = [s \in Sections |-> applied[s]]
    /\ inotify \in BOOLEAN /\ unsaved \in BOOLEAN /\ overtaken \in BOOLEAN

(* The file is empty only while a patch writes it, and every change of it   *)
(* leaves an event: without one, what the watcher holds is what the file    *)
(* says, and so, once it has passed it on, do the two copies in memory.     *)
FileSeen ==
    /\ configFile = {} \/ configFile = {Content}
    /\ configFile = {} => patcher.at = "write"
    /\ patcher.at # "idle" => current_config_ = patcher.new
    /\ ~inotify =>
         /\ watcher.at \in {"lock", "load", "notify"} => configFile \subseteq {watcher.new}
         /\ (watcher.at \in {"idle", "load", "notify"}
              /\ patcher.at \in {"idle", "notify"} /\ ~unsaved)
              => configFile = {current_config_}
         /\ watcher.at \in {"idle", "notify"} => configFile \subseteq {singleton}

Matches(c) == \A s \in DOMAIN c : applied[s] = c[s]

(* What is left to notify covers what the components do not have yet.       *)
Covers(thread) ==
    \A s \in DOMAIN thread.new :
        \/ applied[s] = thread.new[s]
        \/ \E k \in 1..Len(thread.left) : thread.left[k] = s

(* Unless a patch overtook the watcher, one thread notifies at a time and   *)
(* starts from a state in which the components have the old configuration.  *)
Notified ==
    ~overtaken =>
      /\ patcher.at # "idle" => watcher.at \notin {"load", "notify"}
      /\ patcher.at = "idle" /\ watcher.at \notin {"load", "notify"} =>
           Matches(current_config_)
      /\ patcher.at \in {"load", "truncate", "write"} => Matches(patcher.old)
      /\ patcher.at = "notify" => Covers(patcher)
      /\ watcher.at \in {"load", "notify"} => current_config_ = watcher.new
      /\ watcher.at = "load" => Matches(watcher.old)
      /\ watcher.at = "notify" => Covers(watcher)

HotInv == HotTypeOK /\ FileSeen /\ Notified

(* SetToSeq lists every element of a finite set.                            *)
LEMMA SetListed ==
    ASSUME NEW S, IsFiniteSet(S)
    PROVE  /\ SetToSeq(S) \in Seq(S)
           /\ \A s \in S : \E k \in 1..Len(SetToSeq(S)) : SetToSeq(S)[k] = s
<1> DEFINE n == Cardinality(S)
<1>1. n \in Nat /\ ExistsBijection(1..n, S)
  BY FS_CardinalityType
<1>2. \E f \in [1..n -> S] : IsInjective(f)
  BY <1>1 DEF ExistsBijection, Bijection, Injection
<1>3. SetToSeq(S) \in [1..n -> S] /\ IsInjective(SetToSeq(S))
  BY <1>2 DEF SetToSeq
<1>4. SetToSeq(S) \in Injection(1..n, S)
  BY <1>3 DEF Injection
<1>5. Cardinality(1..n) = n
  BY <1>1, FS_Interval
<1>6. SetToSeq(S) \in Surjection(1..n, S)
  BY <1>4, <1>5, FS_Injection
<1> HIDE DEF n
<1>7. Len(SetToSeq(S)) = n /\ SetToSeq(S) \in Seq(S)
  BY <1>1, <1>3
<1> QED BY <1>6, <1>7 DEF Surjection

(* DiffAndNotify looks at every section whose content is new.               *)
LEMMA ChangedCovers ==
    ASSUME NEW old, NEW new, IsConfig(old), IsConfig(new)
    PROVE  /\ Changed(old, new) \in Seq(Sections)
           /\ \A s \in DOMAIN new : Differs(old, new, s) =>
                \E k \in 1..Len(Changed(old, new)) : Changed(old, new)[k] = s
<1> DEFINE D == {s \in DOMAIN new : Differs(old, new, s)}
           G == DOMAIN old \ DOMAIN new
           a == SetToSeq(D)
           b == SetToSeq(G)
<1>1. D \subseteq Sections /\ G \subseteq Sections
  BY DEF IsConfig
<1>2. IsFiniteSet(D) /\ IsFiniteSet(G)
  BY <1>1, HotReloadAssumption, FS_Subset
<1>3. /\ a \in Seq(D) /\ \A s \in D : \E k \in 1..Len(a) : a[k] = s
      /\ b \in Seq(G)
  <2> HIDE DEF D, G
  <2> QED BY <1>2, SetListed
<1>4. Changed(old, new) = a \o b
  BY DEF Changed
<1> HIDE DEF D, G, a, b
<1>5. a \in Seq(Sections) /\ b \in Seq(Sections)
  BY <1>1, <1>3
<1>6. /\ a \o b \in Seq(Sections)
      /\ \A k \in 1..Len(a) : k \in 1..Len(a \o b) /\ (a \o b)[k] = a[k]
  BY <1>5
<1>7. \A s \in DOMAIN new : Differs(old, new, s) => s \in D
  BY DEF D
<1> QED BY <1>3, <1>4, <1>6, <1>7

(* The old configuration and the list cover the new one.                    *)
LEMMA ListCovers ==
    ASSUME NEW old, NEW new, IsConfig(old), IsConfig(new), Matches(old)
    PROVE  \A s \in DOMAIN new :
             \/ applied[s] = new[s]
             \/ \E k \in 1..Len(Changed(old, new)) : Changed(old, new)[k] = s
BY ChangedCovers DEF Matches, Differs

(* One handler: the section's component has its content, or it is gone.     *)
LEMMA HandlerCovers ==
    ASSUME NEW thread, thread.left \in Seq(Sections), thread.left # <<>>,
           IsConfig(thread.new), applied = [s \in Sections |-> applied[s]],
           Handle(thread)
    PROVE  /\ applied' = [s \in Sections |-> applied'[s]]
           /\ Tail(thread.left) \in Seq(Sections)
           /\ Covers(thread) =>
                \A s \in DOMAIN thread.new :
                   \/ applied'[s] = thread.new[s]
                   \/ \E k \in 1..Len(Tail(thread.left)) : Tail(thread.left)[k] = s
<1> DEFINE first == thread.left[1]
<1>1. /\ first \in Sections /\ Tail(thread.left) \in Seq(Sections)
      /\ Len(Tail(thread.left)) = Len(thread.left) - 1
      /\ \A k \in 1..Len(thread.left) :
           k # 1 => k - 1 \in 1..Len(Tail(thread.left))
                    /\ Tail(thread.left)[k - 1] = thread.left[k]
  OBVIOUS
<1>2. applied' = IF first \in DOMAIN thread.new
                 THEN [applied EXCEPT ![first] = thread.new[first]] ELSE applied
  BY DEF Handle
<1> HIDE DEF first
<1>3. /\ applied' = [s \in Sections |-> applied'[s]]
      /\ \A s \in Sections : s # first => applied'[s] = applied[s]
      /\ first \in DOMAIN thread.new => applied'[first] = thread.new[first]
  BY <1>1, <1>2
<1>4. ASSUME Covers(thread), NEW s \in DOMAIN thread.new
      PROVE  \/ applied'[s] = thread.new[s]
             \/ \E k \in 1..Len(Tail(thread.left)) : Tail(thread.left)[k] = s
  <2>1. s \in Sections
    BY DEF IsConfig
  <2>2. CASE s = first
    BY <1>3, <2>2
  <2>3. CASE s # first /\ applied[s] = thread.new[s]
    BY <1>3, <2>1, <2>3
  <2>4. CASE s # first /\ \E k \in 1..Len(thread.left) : thread.left[k] = s
    <3>1. PICK k \in 1..Len(thread.left) : thread.left[k] = s
      BY <2>4
    <3>2. k # 1
      BY <2>4, <3>1 DEF first
    <3> QED BY <1>1, <3>1, <3>2
  <2> QED BY <1>4, <2>2, <2>3, <2>4 DEF Covers
<1> QED BY <1>1, <1>3, <1>4

(* A file with something in it has one content.                             *)
LEMMA OneContent ==
    ASSUME NEW c, configFile = {c} PROVE Content = c
BY DEF Content

(* The same of the file after a step.                                       *)
LEMMA OneContentNext ==
    ASSUME NEW c, configFile' = {c} PROVE Content' = c
BY DEF Content

(* What a thread at rest is.                                                *)
LEMMA Rest ==
    /\ AtRest.at = "idle" /\ DOMAIN AtRest.old = {} /\ DOMAIN AtRest.new = {}
    /\ AtRest.left = <<>>
    /\ \A places : "idle" \in places => IsThread(AtRest, places)
<1>1. DOMAIN <<>> = {} /\ <<>> \in Seq(Sections)
  OBVIOUS
<1>2. /\ AtRest.at = "idle" /\ AtRest.old = <<>> /\ AtRest.new = <<>>
      /\ AtRest.left = <<>>
  BY DEF AtRest
<1>3. AtRest = [at |-> AtRest.at, old |-> AtRest.old, new |-> AtRest.new,
                left |-> AtRest.left]
  BY <1>2 DEF AtRest
<1>4. IsConfig(AtRest.old) /\ IsConfig(AtRest.new) /\ AtRest.left \in Seq(Sections)
  BY <1>1, <1>2 DEF IsConfig
<1>5. ASSUME NEW places, "idle" \in places PROVE IsThread(AtRest, places)
  BY <1>2, <1>3, <1>4, <1>5 DEF IsThread
<1> QED BY <1>1, <1>2, <1>5

(* The invariant holds when main has given every component its section.     *)
LEMMA HotStart == HotInit => HotInv
<1> SUFFICES ASSUME HotInit PROVE HotInv
  OBVIOUS
<1>1. /\ DOMAIN current_config_ = Sections /\ patcher = AtRest /\ watcher = AtRest
      /\ applied = current_config_ /\ singleton = current_config_
      /\ configFile = {current_config_}
      /\ current_config_ = [s \in Sections |-> current_config_[s]]
      /\ inotify = FALSE /\ unsaved = FALSE /\ overtaken = FALSE
  BY DEF HotInit
<1>2. IsThread(patcher, PatcherPlaces) /\ IsThread(watcher, WatcherPlaces)
  BY <1>1, Rest DEF PatcherPlaces, WatcherPlaces
<1>3. HotTypeOK
  BY <1>1, <1>2 DEF HotTypeOK, IsConfig
<1>4. FileSeen
  BY <1>1, Rest, OneContent DEF FileSeen
<1>5. Notified
  BY <1>1, Rest DEF Notified, Matches
<1> QED BY <1>3, <1>4, <1>5 DEF HotInv

(* The three parts of a thread's notifications, for either thread.          *)
LEMMA NotifyMoves ==
    ASSUME NEW t, NEW places, IsThread(t, places), t.at = "notify",
           "idle" \in places, applied = [s \in Sections |-> applied[s]], NEW u,
           IF t.left = <<>> THEN u = AtRest /\ UNCHANGED applied
           ELSE Handle(t) /\ u = [t EXCEPT !.left = Tail(@)]
    PROVE  /\ IsThread(u, places)
           /\ applied' = [s \in Sections |-> applied'[s]]
           /\ \/ u.at = "idle" /\ t.left = <<>> /\ UNCHANGED applied
              \/ /\ u.at = "notify" /\ u.old = t.old /\ u.new = t.new
                 /\ Covers(t) => \A s \in DOMAIN u.new :
                      \/ applied'[s] = u.new[s]
                      \/ \E k \in 1..Len(u.left) : u.left[k] = s
<1>1. CASE t.left = <<>>
  BY <1>1, Rest
<1>2. CASE t.left # <<>>
  <2>1. t.left \in Seq(Sections) /\ IsConfig(t.new)
    BY DEF IsThread
  <2>2. Handle(t)
    BY <1>2
  <2>3. /\ applied' = [s \in Sections |-> applied'[s]]
        /\ Tail(t.left) \in Seq(Sections)
        /\ Covers(t) =>
             \A s \in DOMAIN t.new :
                \/ applied'[s] = t.new[s]
                \/ \E k \in 1..Len(Tail(t.left)) : Tail(t.left)[k] = s
    BY <1>2, <2>1, <2>2, HandlerCovers
  <2>4. t = [at |-> t.at, old |-> t.old, new |-> t.new, left |-> t.left]
        /\ t.at \in places
    BY DEF IsThread
  <2>5. u = [t EXCEPT !.left = Tail(t.left)]
    BY <1>2
  <2>6. u = [at |-> t.at, old |-> t.old, new |-> t.new, left |-> Tail(t.left)]
    BY <2>4, <2>5
  <2>7. /\ u.at = t.at /\ u.old = t.old /\ u.new = t.new /\ u.left = Tail(t.left)
        /\ u = [at |-> u.at, old |-> u.old, new |-> u.new, left |-> u.left]
    BY <2>6
  <2>8. IsThread(u, places)
    BY <2>1, <2>3, <2>4, <2>7 DEF IsThread
  <2> QED BY <2>3, <2>7, <2>8
<1> QED BY <1>1, <1>2

(* The steps of a patch.                                                    *)
LEMMA PatchSteps ==
    ASSUME HotInv,
           ApplyPatch \/ PatchLoad \/ PatchTruncate \/ PatchWrite \/ PatchNotify
    PROVE  HotInv'
<1>1. /\ HotTypeOK /\ FileSeen /\ Notified
      /\ IsThread(patcher, PatcherPlaces) /\ IsThread(watcher, WatcherPlaces)
      /\ patcher.at \in PatcherPlaces /\ watcher.at \in WatcherPlaces
      /\ patcher.left \in Seq(Sections)
  BY DEF HotInv, HotTypeOK, IsThread
<1>2. CASE ApplyPatch
  <2>1. PICK patch \in Configs(writes + 1) :
          LET merged == [s \in DOMAIN current_config_ \union DOMAIN patch |->
                           IF s \in DOMAIN patch THEN patch[s]
                           ELSE current_config_[s]]
          IN  /\ current_config_' = merged
              /\ patcher' = [at |-> "load", old |-> current_config_,
                             new |-> merged, left |-> <<>>]
    BY <1>2 DEF ApplyPatch
  <2>2. /\ patcher.at = "idle"
        /\ overtaken' = (overtaken \/ watcher.at \in {"load", "notify"})
        /\ UNCHANGED <<configFile, inotify, singleton, applied, watcher, unsaved>>
    BY <1>2 DEF ApplyPatch, MutexFree
  <2>3. DOMAIN patch \subseteq Sections
    <3>1. PICK some \in SUBSET Sections : patch \in [some -> {0, writes + 1}]
      BY DEF Configs
    <3> QED BY <3>1
  <2>4. IsConfig(current_config_) /\ IsConfig(current_config_')
    BY <1>1, <2>1, <2>3 DEF HotTypeOK, IsConfig
  <2>5. /\ patcher'.at = "load" /\ patcher'.old = current_config_
        /\ patcher'.new = current_config_' /\ patcher'.left = <<>>
        /\ patcher' = [at |-> patcher'.at, old |-> patcher'.old,
                       new |-> patcher'.new, left |-> patcher'.left]
    BY <2>1
  <2>6. IsThread(patcher', PatcherPlaces)
    BY <2>4, <2>5 DEF IsThread, PatcherPlaces
  <2>7. HotTypeOK'
    BY <1>1, <2>2, <2>4, <2>6 DEF HotTypeOK
  <2>8. FileSeen'
    BY <1>1, <2>2, <2>5 DEF FileSeen, Content
  <2>9. Notified'
    BY <1>1, <2>2, <2>5 DEF Notified, Matches, Covers, WatcherPlaces
  <2> QED BY <2>7, <2>8, <2>9 DEF HotInv
<1>3. CASE PatchLoad
  <2>1. /\ patcher.at = "load" /\ singleton' = LoadFromFile
        /\ patcher' = [patcher EXCEPT !.at = "truncate"]
        /\ UNCHANGED <<configFile, inotify, current_config_, applied, watcher,
                       unsaved, overtaken>>
    BY <1>3 DEF PatchLoad
  <2>2. /\ IsThread(patcher', PatcherPlaces) /\ patcher'.at = "truncate"
        /\ patcher'.old = patcher.old /\ patcher'.new = patcher.new
    <3>1. patcher = [at |-> patcher.at, old |-> patcher.old,
                    new |-> patcher.new, left |-> patcher.left]
      BY <1>1 DEF IsThread
    <3>2. patcher' = [at |-> "truncate", old |-> patcher.old,
                     new |-> patcher.new, left |-> patcher.left]
      BY <2>1, <3>1
    <3> QED BY <1>1, <2>1, <3>2 DEF IsThread, PatcherPlaces
  <2>3. HotTypeOK'
    BY <1>1, <2>1, <2>2 DEF HotTypeOK
  <2>4. configFile # {} /\ configFile = {Content} /\ singleton' = Content
    BY <1>1, <2>1 DEF FileSeen, LoadFromFile
  <2>5. FileSeen'
    <3>1. Content' = Content
      BY <2>1 DEF Content
    <3> QED BY <1>1, <2>1, <2>2, <2>4, <3>1 DEF FileSeen
  <2>6. Notified'
    BY <1>1, <2>1, <2>2 DEF Notified, Matches, Covers
  <2> QED BY <2>3, <2>5, <2>6 DEF HotInv
<1>4. CASE PatchTruncate
  <2> DEFINE list == Changed(patcher.old, patcher.new)
  <2>1. /\ patcher.at = "truncate"
        /\ UNCHANGED <<current_config_, singleton, applied, watcher, overtaken>>
    BY <1>4 DEF PatchTruncate
  <2>2. IsConfig(patcher.old) /\ IsConfig(patcher.new) /\ list \in Seq(Sections)
    BY <1>1, ChangedCovers DEF IsThread
  <2> HIDE DEF list
  <2>4. CASE /\ configFile' = {} /\ inotify' = TRUE /\ UNCHANGED unsaved
             /\ patcher' = [patcher EXCEPT !.at = "write"]
    <3>1. /\ IsThread(patcher', PatcherPlaces) /\ patcher'.at = "write"
          /\ patcher'.old = patcher.old /\ patcher'.new = patcher.new
      <4>1. patcher = [at |-> patcher.at, old |-> patcher.old,
                      new |-> patcher.new, left |-> patcher.left]
        BY <1>1 DEF IsThread
      <4>2. patcher' = [at |-> "write", old |-> patcher.old,
                       new |-> patcher.new, left |-> patcher.left]
        BY <2>4, <4>1
      <4> QED BY <1>1, <2>4, <4>2 DEF IsThread, PatcherPlaces
    <3>2. HotTypeOK'
      BY <1>1, <2>1, <2>4, <3>1 DEF HotTypeOK
    <3>3. FileSeen'
      BY <1>1, <2>1, <2>4, <3>1 DEF FileSeen
    <3>4. Notified'
      BY <1>1, <2>1, <2>4, <3>1 DEF Notified, Matches, Covers
    <3> QED BY <3>2, <3>3, <3>4 DEF HotInv
  <2>5. CASE /\ unsaved' = TRUE /\ UNCHANGED <<configFile, inotify>>
             /\ patcher' = [patcher EXCEPT !.at = "notify", !.left = list]
    <3>1. /\ IsThread(patcher', PatcherPlaces) /\ patcher'.at = "notify"
          /\ patcher'.new = patcher.new /\ patcher'.left = list
      <4>1. patcher = [at |-> patcher.at, old |-> patcher.old,
                      new |-> patcher.new, left |-> patcher.left]
        BY <1>1 DEF IsThread
      <4>2. patcher' = [at |-> "notify", old |-> patcher.old,
                       new |-> patcher.new, left |-> list]
        BY <2>2, <2>5, <4>1
      <4> QED BY <1>1, <2>2, <2>5, <4>2 DEF IsThread, PatcherPlaces
    <3>2. HotTypeOK'
      BY <1>1, <2>1, <2>5, <3>1 DEF HotTypeOK
    <3>3. FileSeen'
      <4>1. Content' = Content
        BY <2>5 DEF Content
      <4> QED BY <1>1, <2>1, <2>5, <3>1, <4>1 DEF FileSeen
    <3>4. ~overtaken => Covers(patcher)'
      <4> SUFFICES ASSUME ~overtaken
            PROVE \A s \in DOMAIN patcher.new :
                    \/ applied[s] = patcher.new[s]
                    \/ \E k \in 1..Len(list) : list[k] = s
        BY <2>1, <3>1 DEF Covers
      <4>1. Matches(patcher.old)
        BY <1>1, <2>1 DEF Notified
      <4> QED BY <2>2, <4>1, ListCovers DEF list
    <3>5. Notified'
      BY <1>1, <2>1, <2>5, <3>1, <3>4 DEF Notified, Matches, Covers
    <3> QED BY <3>2, <3>3, <3>5 DEF HotInv
  <2> QED BY <1>4, <2>4, <2>5 DEF PatchTruncate, list
<1>5. CASE PatchWrite
  <2> DEFINE list == Changed(patcher.old, patcher.new)
  <2>1. /\ patcher.at = "write" /\ configFile' = {current_config_}
        /\ inotify' = TRUE /\ unsaved' = FALSE
        /\ patcher' = [patcher EXCEPT !.at = "notify", !.left = list]
        /\ UNCHANGED <<current_config_, singleton, applied, watcher, overtaken>>
    BY <1>5 DEF PatchWrite
  <2>2. IsConfig(patcher.old) /\ IsConfig(patcher.new) /\ list \in Seq(Sections)
    BY <1>1, ChangedCovers DEF IsThread
  <2> HIDE DEF list
  <2>4. /\ IsThread(patcher', PatcherPlaces) /\ patcher'.at = "notify"
        /\ patcher'.new = patcher.new /\ patcher'.left = list
    <3>1. patcher = [at |-> patcher.at, old |-> patcher.old,
                    new |-> patcher.new, left |-> patcher.left]
      BY <1>1 DEF IsThread
    <3>2. patcher' = [at |-> "notify", old |-> patcher.old,
                     new |-> patcher.new, left |-> list]
      BY <2>1, <2>2, <3>1
    <3> QED BY <1>1, <2>1, <2>2, <3>2 DEF IsThread, PatcherPlaces
  <2>5. HotTypeOK'
    BY <1>1, <2>1, <2>4 DEF HotTypeOK
  <2>6. FileSeen'
    <3>1. Content' = current_config_
      BY <2>1, OneContentNext
    <3> QED BY <1>1, <2>1, <2>4, <3>1 DEF FileSeen
  <2>7. ~overtaken => Covers(patcher)'
    <3> SUFFICES ASSUME ~overtaken
          PROVE \A s \in DOMAIN patcher.new :
                  \/ applied[s] = patcher.new[s]
                  \/ \E k \in 1..Len(list) : list[k] = s
      BY <2>1, <2>4 DEF Covers
    <3>1. Matches(patcher.old)
      BY <1>1, <2>1 DEF Notified
    <3> QED BY <2>2, <3>1, ListCovers DEF list
  <2>8. Notified'
    BY <1>1, <2>1, <2>4, <2>7 DEF Notified, Matches, Covers
  <2> QED BY <2>5, <2>6, <2>8 DEF HotInv
<1>6. CASE PatchNotify
  <2>1. /\ patcher.at = "notify"
        /\ UNCHANGED <<configFile, inotify, current_config_, singleton, watcher,
                       unsaved, overtaken>>
        /\ IF patcher.left = <<>> THEN patcher' = AtRest /\ UNCHANGED applied
           ELSE Handle(patcher) /\ patcher' = [patcher EXCEPT !.left = Tail(@)]
    BY <1>6 DEF PatchNotify
  <2>2. /\ IsThread(patcher', PatcherPlaces)
        /\ applied' = [s \in Sections |-> applied'[s]]
        /\ \/ patcher'.at = "idle" /\ patcher.left = <<>> /\ UNCHANGED applied
           \/ /\ patcher'.at = "notify" /\ patcher'.new = patcher.new
              /\ Covers(patcher) => \A s \in DOMAIN patcher'.new :
                   \/ applied'[s] = patcher'.new[s]
                   \/ \E k \in 1..Len(patcher'.left) : patcher'.left[k] = s
    <3>1. "idle" \in PatcherPlaces /\ applied = [s \in Sections |-> applied[s]]
      BY <1>1 DEF PatcherPlaces, HotTypeOK
    <3> QED BY <1>1, <2>1, <3>1, NotifyMoves
  <2>3. HotTypeOK'
    BY <1>1, <2>1, <2>2 DEF HotTypeOK
  <2>4. FileSeen'
    <3>1. Content' = Content
      BY <2>1 DEF Content
    <3> QED BY <1>1, <2>1, <2>2, <3>1 DEF FileSeen
  <2>5. Notified'
    <3>1. CASE patcher'.at = "idle" /\ patcher.left = <<>> /\ UNCHANGED applied
      BY <1>1, <2>1, <3>1 DEF Notified, Matches, Covers, FileSeen
    <3>2. CASE /\ patcher'.at = "notify" /\ patcher'.new = patcher.new
               /\ Covers(patcher) => \A s \in DOMAIN patcher'.new :
                    \/ applied'[s] = patcher'.new[s]
                    \/ \E k \in 1..Len(patcher'.left) : patcher'.left[k] = s
      <4>1. ~overtaken => Covers(patcher) /\ watcher.at \notin {"load", "notify"}
        BY <1>1, <2>1 DEF Notified
      <4>2. ~overtaken => Covers(patcher)'
        BY <3>2, <4>1 DEF Covers
      <4> QED BY <2>1, <3>2, <4>1, <4>2 DEF Notified, Covers
    <3> QED BY <2>2, <3>1, <3>2
  <2> QED BY <2>3, <2>4, <2>5 DEF HotInv
<1> QED BY <1>2, <1>3, <1>4, <1>5, <1>6

(* The steps of the watcher, and of somebody who edits the file.            *)
LEMMA WatcherSteps ==
    ASSUME HotInv,
           \/ WatchLoop \/ OnFileChanged \/ ReplaceConfig \/ WatcherLoad
           \/ WatcherNotify \/ EditFile
    PROVE  HotInv'
<1>1. /\ HotTypeOK /\ FileSeen /\ Notified
      /\ IsThread(patcher, PatcherPlaces) /\ IsThread(watcher, WatcherPlaces)
      /\ patcher.at \in PatcherPlaces /\ watcher.at \in WatcherPlaces
      /\ watcher.left \in Seq(Sections)
  BY DEF HotInv, HotTypeOK, IsThread
<1>2. CASE WatchLoop
  <2>1. /\ watcher.at = "idle" /\ inotify' = FALSE
        /\ watcher' = [AtRest EXCEPT !.at = "parse"]
        /\ UNCHANGED <<configFile, current_config_, singleton, applied, patcher,
                       unsaved, overtaken>>
    BY <1>2 DEF WatchLoop
  <2>2. IsThread(watcher', WatcherPlaces) /\ watcher'.at = "parse"
    <3>1. watcher' = [at |-> "parse", old |-> <<>>, new |-> <<>>, left |-> <<>>]
      BY <2>1 DEF AtRest
    <3>2. IsConfig(<<>>) /\ <<>> \in Seq(Sections)
      BY DEF IsConfig
    <3> QED BY <3>1, <3>2 DEF IsThread, WatcherPlaces
  <2>3. HotTypeOK'
    BY <1>1, <2>1, <2>2 DEF HotTypeOK
  <2>4. FileSeen'
    <3>1. Content' = Content
      BY <2>1 DEF Content
    <3> QED BY <1>1, <2>1, <2>2, <3>1 DEF FileSeen
  <2>5. Notified'
    BY <1>1, <2>1, <2>2 DEF Notified, Matches, Covers
  <2> QED BY <2>3, <2>4, <2>5 DEF HotInv
<1>3. CASE OnFileChanged
  <2>1. /\ watcher.at = "parse"
        /\ watcher' = IF configFile = {} THEN AtRest
                      ELSE [watcher EXCEPT !.at = "lock", !.new = Content]
        /\ UNCHANGED <<configFile, inotify, current_config_, singleton, applied,
                       patcher, unsaved, overtaken>>
    BY <1>3 DEF OnFileChanged
  <2>2. Content' = Content
    BY <2>1 DEF Content
  <2>3. CASE configFile = {}
    <3>1. IsThread(watcher', WatcherPlaces) /\ watcher'.at = "idle"
      BY <2>1, <2>3, Rest DEF WatcherPlaces
    <3>2. HotTypeOK'
      BY <1>1, <2>1, <3>1 DEF HotTypeOK
    <3>3. FileSeen'
      BY <1>1, <2>1, <2>2, <2>3, <3>1 DEF FileSeen
    <3>4. Notified'
      BY <1>1, <2>1, <3>1 DEF Notified, Matches, Covers
    <3> QED BY <3>2, <3>3, <3>4 DEF HotInv
  <2>4. CASE configFile # {}
    <3>1. configFile = {Content} /\ IsConfig(Content)
      BY <1>1, <2>4 DEF FileSeen, HotTypeOK
    <3>2. watcher' = [at |-> "lock", old |-> watcher.old, new |-> Content,
                      left |-> watcher.left]
      <4>1. watcher' = [watcher EXCEPT !.at = "lock", !.new = Content]
        BY <2>1, <2>4
      <4>2. watcher = [at |-> watcher.at, old |-> watcher.old,
                       new |-> watcher.new, left |-> watcher.left]
        BY <1>1 DEF IsThread
      <4> QED BY <4>1, <4>2
    <3>3. IsThread(watcher', WatcherPlaces) /\ watcher'.at = "lock"
          /\ watcher'.new = Content
      BY <1>1, <3>1, <3>2 DEF IsThread, WatcherPlaces
    <3>4. HotTypeOK'
      BY <1>1, <2>1, <3>3 DEF HotTypeOK
    <3>5. FileSeen'
      BY <1>1, <2>1, <2>2, <3>1, <3>3 DEF FileSeen
    <3>6. Notified'
      BY <1>1, <2>1, <3>3 DEF Notified, Matches, Covers
    <3> QED BY <3>4, <3>5, <3>6 DEF HotInv
  <2> QED BY <2>3, <2>4
<1>4. CASE ReplaceConfig
  <2>1. /\ watcher.at = "lock" /\ patcher.at = "idle"
        /\ current_config_' = watcher.new /\ unsaved' = FALSE
        /\ watcher' = [watcher EXCEPT !.at = "load", !.old = current_config_]
        /\ UNCHANGED <<configFile, inotify, singleton, applied, patcher, overtaken>>
    BY <1>4 DEF ReplaceConfig, MutexFree
  <2>2. watcher' = [at |-> "load", old |-> current_config_,
                    new |-> watcher.new, left |-> watcher.left]
    <3>1. watcher = [at |-> watcher.at, old |-> watcher.old,
                     new |-> watcher.new, left |-> watcher.left]
      BY <1>1 DEF IsThread
    <3> QED BY <2>1, <3>1
  <2>3. /\ IsThread(watcher', WatcherPlaces) /\ watcher'.at = "load"
        /\ watcher'.new = watcher.new /\ watcher'.old = current_config_
    BY <1>1, <2>2 DEF IsThread, WatcherPlaces, HotTypeOK
  <2>4. HotTypeOK'
    BY <1>1, <2>1, <2>3 DEF HotTypeOK, IsThread
  <2>5. FileSeen'
    <3>1. Content' = Content
      BY <2>1 DEF Content
    <3>2. configFile # {} /\ (~inotify => configFile = {watcher.new})
      BY <1>1, <2>1 DEF FileSeen
    <3> QED BY <1>1, <2>1, <2>3, <3>1, <3>2 DEF FileSeen
  <2>6. Notified'
    BY <1>1, <2>1, <2>3 DEF Notified, Matches
  <2> QED BY <2>4, <2>5, <2>6 DEF HotInv
<1>5. CASE WatcherLoad
  <2> DEFINE list == Changed(watcher.old, watcher.new)
  <2>1. /\ watcher.at = "load" /\ singleton' = LoadFromFile
        /\ watcher' = [watcher EXCEPT !.at = "notify", !.left = list]
        /\ UNCHANGED <<configFile, inotify, current_config_, applied, patcher,
                       unsaved, overtaken>>
    BY <1>5 DEF WatcherLoad
  <2>2. IsConfig(watcher.old) /\ IsConfig(watcher.new) /\ list \in Seq(Sections)
    BY <1>1, ChangedCovers DEF IsThread
  <2> HIDE DEF list
  <2>4. /\ IsThread(watcher', WatcherPlaces) /\ watcher'.at = "notify"
        /\ watcher'.new = watcher.new /\ watcher'.left = list
    <3>1. watcher = [at |-> watcher.at, old |-> watcher.old,
                    new |-> watcher.new, left |-> watcher.left]
      BY <1>1 DEF IsThread
    <3>2. watcher' = [at |-> "notify", old |-> watcher.old,
                     new |-> watcher.new, left |-> list]
      BY <2>1, <2>2, <3>1
    <3> QED BY <1>1, <2>1, <2>2, <3>2 DEF IsThread, WatcherPlaces
  <2>5. HotTypeOK'
    BY <1>1, <2>1, <2>4 DEF HotTypeOK
  <2>6. FileSeen'
    <3>1. Content' = Content
      BY <2>1 DEF Content
    <3>2. configFile = {} \/ singleton' = Content
      BY <2>1 DEF LoadFromFile
    <3> QED BY <1>1, <2>1, <2>4, <3>1, <3>2 DEF FileSeen
  <2>7. ~overtaken => Covers(watcher)'
    <3> SUFFICES ASSUME ~overtaken
          PROVE \A s \in DOMAIN watcher.new :
                  \/ applied[s] = watcher.new[s]
                  \/ \E k \in 1..Len(list) : list[k] = s
      BY <2>1, <2>4 DEF Covers
    <3>1. Matches(watcher.old)
      BY <1>1, <2>1 DEF Notified
    <3> QED BY <2>2, <3>1, ListCovers DEF list
  <2>8. Notified'
    BY <1>1, <2>1, <2>4, <2>7 DEF Notified, Matches, Covers
  <2> QED BY <2>5, <2>6, <2>8 DEF HotInv
<1>6. CASE WatcherNotify
  <2>1. /\ watcher.at = "notify"
        /\ UNCHANGED <<configFile, inotify, current_config_, singleton, patcher,
                       unsaved, overtaken>>
        /\ IF watcher.left = <<>> THEN watcher' = AtRest /\ UNCHANGED applied
           ELSE Handle(watcher) /\ watcher' = [watcher EXCEPT !.left = Tail(@)]
    BY <1>6 DEF WatcherNotify
  <2>2. /\ IsThread(watcher', WatcherPlaces)
        /\ applied' = [s \in Sections |-> applied'[s]]
        /\ \/ watcher'.at = "idle" /\ watcher.left = <<>> /\ UNCHANGED applied
           \/ /\ watcher'.at = "notify" /\ watcher'.new = watcher.new
              /\ Covers(watcher) => \A s \in DOMAIN watcher'.new :
                   \/ applied'[s] = watcher'.new[s]
                   \/ \E k \in 1..Len(watcher'.left) : watcher'.left[k] = s
    <3>1. "idle" \in WatcherPlaces /\ applied = [s \in Sections |-> applied[s]]
      BY <1>1 DEF WatcherPlaces, HotTypeOK
    <3> QED BY <1>1, <2>1, <3>1, NotifyMoves
  <2>3. HotTypeOK'
    BY <1>1, <2>1, <2>2 DEF HotTypeOK
  <2>4. FileSeen'
    <3>1. Content' = Content
      BY <2>1 DEF Content
    <3> QED BY <1>1, <2>1, <2>2, <3>1 DEF FileSeen
  <2>5. Notified'
    <3>1. CASE watcher'.at = "idle" /\ watcher.left = <<>> /\ UNCHANGED applied
      BY <1>1, <2>1, <3>1 DEF Notified, Matches, Covers
    <3>2. CASE /\ watcher'.at = "notify" /\ watcher'.new = watcher.new
               /\ Covers(watcher) => \A s \in DOMAIN watcher'.new :
                    \/ applied'[s] = watcher'.new[s]
                    \/ \E k \in 1..Len(watcher'.left) : watcher'.left[k] = s
      <4>1. ~overtaken => /\ Covers(watcher) /\ patcher.at = "idle"
                          /\ current_config_ = watcher.new
        BY <1>1, <2>1 DEF Notified
      <4>2. ~overtaken => Covers(watcher)'
        BY <3>2, <4>1 DEF Covers
      <4> QED BY <2>1, <3>2, <4>1, <4>2 DEF Notified, Covers
    <3> QED BY <2>2, <3>1, <3>2
  <2> QED BY <2>3, <2>4, <2>5 DEF HotInv
<1>7. CASE EditFile
  <2>1. /\ inotify' = TRUE
        /\ UNCHANGED <<current_config_, singleton, applied, patcher, watcher,
                       unsaved, overtaken>>
    BY <1>7 DEF EditFile
  <2>2. PICK c \in Configs(writes + 1) : configFile' = {c}
    BY <1>7 DEF EditFile
  <2>3. IsConfig(c)
    <3>1. PICK some \in SUBSET Sections : c \in [some -> {0, writes + 1}]
      BY DEF Configs
    <3> QED BY <3>1 DEF IsConfig
  <2>4. HotTypeOK'
    BY <1>1, <2>1, <2>2, <2>3 DEF HotTypeOK
  <2>5. FileSeen'
    <3>1. Content' = c
      BY <2>2, OneContentNext
    <3> QED BY <1>1, <2>1, <2>2, <3>1 DEF FileSeen
  <2>6. Notified'
    BY <1>1, <2>1 DEF Notified, Matches, Covers
  <2> QED BY <2>4, <2>5, <2>6 DEF HotInv
<1> QED BY <1>2, <1>3, <1>4, <1>5, <1>6, <1>7

(* Every step of patches, the watcher and editors.                          *)
LEMMA HotStep == HotInv /\ [HotNext]_hotVars => HotInv'
<1>1. HotInv /\ HotNext => HotInv'
  BY PatchSteps, WatcherSteps DEF HotNext
<1>2. HotInv /\ UNCHANGED hotVars => HotInv'
  <2> SUFFICES ASSUME HotInv, UNCHANGED hotVars PROVE HotInv'
    OBVIOUS
  <2>1. UNCHANGED <<configFile, inotify, current_config_, singleton, applied,
                    patcher, watcher, unsaved, overtaken>>
    BY DEF hotVars
  <2>2. HotTypeOK'
    BY <2>1 DEF HotInv, HotTypeOK
  <2>3. Content' = Content
    BY <2>1 DEF Content
  <2>4. FileSeen'
    BY <2>1, <2>3 DEF HotInv, FileSeen
  <2>5. Notified'
    BY <2>1 DEF HotInv, Notified, Matches, Covers
  <2> QED BY <2>2, <2>4, <2>5 DEF HotInv
<1> QED BY <1>1, <1>2

(* However ApplyPatch, the watcher's reload and edits of the file           *)
(* interleave, the file, HotReloadManager, ConfigManager and the components *)
(* agree once they have come to rest, for every set of sections.            *)
THEOREM ConfigAlwaysSettles == HotSpec => []ConfigSettles
<1>1. HotInv => ConfigSettles
  <2> SUFFICES ASSUME HotInv, Settled PROVE
        /\ ~unsaved => configFile = {current_config_} /\ singleton = current_config_
        /\ ~overtaken => \A s \in DOMAIN current_config_ :
                            applied[s] = current_config_[s]
    BY DEF ConfigSettles
  <2>1. ~unsaved => configFile = {current_config_} /\ singleton = current_config_
    BY DEF HotInv, FileSeen, Settled
  <2>2. ~overtaken => \A s \in DOMAIN current_config_ :
                         applied[s] = current_config_[s]
    BY DEF HotInv, Notified, Matches, Settled
  <2> QED BY <2>1, <2>2
<1> QED BY HotStart, HotStep, <1>1, PTL DEF HotSpec

-----------------------------------------------------------------------------
(* RuleEngine and RuleStore.                                                *)

IsTable(f) == f = [i \in DOMAIN f |-> f[i]]

IsEntry(e) == e = [rev |-> e.rev, last |-> e.last]

IsEvaluators(es) == IsTable(es) /\ \A i \in DOMAIN es : IsEntry(es[i])

RuleRow == [channel : RuleChannels, enabled : BOOLEAN, rev : Nat]

CallPlaces == {"idle", "update", "delete", "build", "swap"}

(* A call for a rule knows the channel of its row: an id is given once and  *)
(* its row keeps its channel.                                               *)
IsCall(c) ==
    /\ c = [at |-> c.at, channel |-> c.channel, id |-> c.id, row |-> c.row,
            built |-> c.built]
    /\ c.at \in CallPlaces
    /\ c.at # "idle" => c.channel \in RuleChannels
    /\ c.at = "update" => \E r \in RuleRow : c.row = {r} /\ r.channel = c.channel
    /\ c.at \in {"update", "delete"} =>
         /\ c.id \in 1..ruleEdits
         /\ c.id \in DOMAIN ruleRows => ruleRows[c.id].channel = c.channel
    /\ c.at = "swap" => IsEvaluators(c.built)

RulesTypeOK ==
    /\ ruleEdits \in Nat
    /\ IsTable(ruleRows) /\ DOMAIN ruleRows \subseteq 1..ruleEdits
    /\ \A i \in DOMAIN ruleRows : ruleRows[i] \in RuleRow
    /\ evaluators_ = [ch \in RuleChannels |-> evaluators_[ch]]
    /\ \A ch \in RuleChannels : IsEvaluators(evaluators_[ch])
    /\ ruleCall = [t \in RuleCallers |-> ruleCall[t]]
    /\ \A t \in RuleCallers : IsCall(ruleCall[t])

(* These evaluators are the enabled rules of the channel, as last saved.    *)
Loaded(es, ch) ==
    /\ DOMAIN es = ListEnabledRulesByChannel(ch)
    /\ \A i \in DOMAIN es : es[i].rev = ruleRows[i].rev

Busy(t, ch) == ruleCall[t].at # "idle" /\ ruleCall[t].channel = ch

(* While its calls have not overlapped, a channel has one call, what that   *)
(* call has built is what the store holds, and without a call the engine    *)
(* holds it.                                                                *)
ChannelFollows(ch) ==
    /\ \A t, u \in RuleCallers : Busy(t, ch) /\ Busy(u, ch) => t = u
    /\ \A t \in RuleCallers :
          Busy(t, ch) /\ ruleCall[t].at = "swap" => Loaded(ruleCall[t].built, ch)
    /\ (\A t \in RuleCallers : ~Busy(t, ch)) => Loaded(evaluators_[ch], ch)

RulesInv ==
    /\ RulesTypeOK
    /\ \A ch \in RuleChannels \ overlapped : ChannelFollows(ch)

(* A change of the rows of other channels changes nothing for this one.     *)
LEMMA OtherRows ==
    ASSUME NEW ch, NEW es, Loaded(es, ch),
           \A i : i \in DOMAIN ruleRows /\ ruleRows[i].channel = ch
                    => i \in DOMAIN ruleRows' /\ ruleRows'[i] = ruleRows[i],
           \A i : i \in DOMAIN ruleRows' /\ ruleRows'[i].channel = ch
                    => i \in DOMAIN ruleRows /\ ruleRows'[i] = ruleRows[i]
    PROVE  /\ DOMAIN es = ListEnabledRulesByChannel(ch)'
           /\ \A i \in DOMAIN es : es[i].rev = ruleRows'[i].rev
<1>1. ListEnabledRulesByChannel(ch)' = ListEnabledRulesByChannel(ch)
  BY DEF ListEnabledRulesByChannel
<1>2. \A i \in ListEnabledRulesByChannel(ch) : ruleRows'[i] = ruleRows[i]
  BY DEF ListEnabledRulesByChannel
<1> QED BY <1>1, <1>2 DEF Loaded

(* What BuildEvaluators makes.                                              *)
LEMMA BuiltLoaded ==
    ASSUME NEW ch
    PROVE  IsEvaluators(BuildEvaluators(ch)) /\ Loaded(BuildEvaluators(ch), ch)
BY DEF IsEvaluators, IsTable, IsEntry, BuildEvaluators, Loaded

(* What the step of a call about channel c does to the rows, ...            *)
RowsStep(c) ==
    /\ ruleEdits' \in Nat /\ ruleEdits =< ruleEdits'
    /\ IsTable(ruleRows') /\ DOMAIN ruleRows' \subseteq 1..ruleEdits'
    /\ \A i \in DOMAIN ruleRows' :
          /\ ruleRows'[i] \in RuleRow
          /\ ruleRows'[i].channel # c =>
                i \in DOMAIN ruleRows /\ ruleRows'[i] = ruleRows[i]
    /\ \A i \in DOMAIN ruleRows : ruleRows[i].channel # c =>
          i \in DOMAIN ruleRows' /\ ruleRows'[i] = ruleRows[i]
    /\ \A i \in DOMAIN ruleRows \intersect DOMAIN ruleRows' :
          ruleRows'[i].channel = ruleRows[i].channel
    /\ DOMAIN ruleRows' \intersect (1..ruleEdits) \subseteq DOMAIN ruleRows

(* ... and to the calls and the engine.                                     *)
CallOnly(t, c) ==
    /\ ruleCall' = [ruleCall EXCEPT ![t] = ruleCall'[t]]
    /\ evaluators_' = [evaluators_ EXCEPT ![c] = evaluators_'[c]]
    /\ IsEvaluators(evaluators_'[c])
    /\ \A ch \in RuleChannels : ch # c => ~Busy(t, ch) /\ ~Busy(t, ch)'
    /\ overlapped \subseteq overlapped'
    /\ c \notin overlapped' => ChannelFollows(c)'

(* The others and what they rely on stay.                                   *)
LEMMA CallStep ==
    ASSUME RulesInv, NEW t \in RuleCallers, NEW c \in RuleChannels,
           RowsStep(c), CallOnly(t, c), IsCall(ruleCall[t])'
    PROVE  RulesInv'
<1> USE DEF RowsStep, CallOnly
<1>1. \A u \in RuleCallers : u # t => ruleCall'[u] = ruleCall[u]
  BY DEF RulesInv, RulesTypeOK
<1>2. ASSUME NEW u \in RuleCallers, u # t PROVE IsCall(ruleCall[u])'
  <2>1. ruleCall'[u] = ruleCall[u] /\ IsCall(ruleCall[u])
    BY <1>1, <1>2 DEF RulesInv, RulesTypeOK
  <2>2. ruleEdits \in Nat
    BY DEF RulesInv, RulesTypeOK
  <2>3. \A i \in 1..ruleEdits : i \in 1..ruleEdits'
    BY <2>2
  <2>4. ASSUME ruleCall[u].at \in {"update", "delete"}
        PROVE  /\ ruleCall[u].id \in 1..ruleEdits'
               /\ ruleCall[u].id \in DOMAIN ruleRows' =>
                     ruleRows'[ruleCall[u].id].channel = ruleCall[u].channel
    BY <2>1, <2>3, <2>4 DEF IsCall
  <2> QED BY <2>1, <2>4 DEF IsCall
<1>3. RulesTypeOK'
  <2>1. \A u \in RuleCallers : IsCall(ruleCall[u])'
    BY <1>2
  <2>2. evaluators_' = [ch \in RuleChannels |-> evaluators_'[ch]]
    BY DEF RulesInv, RulesTypeOK
  <2>3. ruleCall' = [u \in RuleCallers |-> ruleCall'[u]]
    BY DEF RulesInv, RulesTypeOK
  <2>4. \A ch \in RuleChannels : IsEvaluators(evaluators_'[ch])
    <3>1. \A ch \in RuleChannels : ch # c => evaluators_'[ch] = evaluators_[ch]
      BY DEF RulesInv, RulesTypeOK
    <3> QED BY <3>1 DEF RulesInv, RulesTypeOK
  <2> QED BY <2>1, <2>2, <2>3, <2>4 DEF RulesTypeOK
<1>4. ASSUME NEW ch \in RuleChannels, ch \notin overlapped', ch # c
      PROVE  ChannelFollows(ch)'
  <2>1. ChannelFollows(ch) /\ evaluators_'[ch] = evaluators_[ch]
    BY <1>4 DEF RulesInv, RulesTypeOK
  <2>2. \A u \in RuleCallers : /\ Busy(u, ch)' <=> Busy(u, ch)
                               /\ Busy(u, ch) => ruleCall'[u] = ruleCall[u]
    BY <1>1, <1>4 DEF Busy
  <2>3. /\ \A i : i \in DOMAIN ruleRows /\ ruleRows[i].channel = ch
                    => i \in DOMAIN ruleRows' /\ ruleRows'[i] = ruleRows[i]
        /\ \A i : i \in DOMAIN ruleRows' /\ ruleRows'[i].channel = ch
                    => i \in DOMAIN ruleRows /\ ruleRows'[i] = ruleRows[i]
    BY <1>4
  <2>4. ASSUME NEW es, Loaded(es, ch)
        PROVE  /\ DOMAIN es = ListEnabledRulesByChannel(ch)'
               /\ \A i \in DOMAIN es : es[i].rev = ruleRows'[i].rev
    BY <2>3, <2>4, OtherRows
  <2>5. \A u, v \in RuleCallers : Busy(u, ch)' /\ Busy(v, ch)' => u = v
    BY <2>1, <2>2 DEF ChannelFollows
  <2>6. ASSUME NEW u \in RuleCallers, Busy(u, ch)', ruleCall'[u].at = "swap"
        PROVE  Loaded(ruleCall[u].built, ch)'
    <3>1. ruleCall'[u] = ruleCall[u] /\ Loaded(ruleCall[u].built, ch)
      BY <2>1, <2>2, <2>6 DEF ChannelFollows
    <3> QED BY <2>4, <3>1 DEF Loaded
  <2>7. ASSUME \A u \in RuleCallers : ~Busy(u, ch)'
        PROVE  Loaded(evaluators_[ch], ch)'
    <3>1. Loaded(evaluators_[ch], ch)
      BY <2>1, <2>2, <2>7 DEF ChannelFollows
    <3> QED BY <2>1, <2>4, <3>1 DEF Loaded
  <2> QED BY <2>5, <2>6, <2>7 DEF ChannelFollows
<1> QED BY <1>3, <1>4 DEF RulesInv

(* A call that begins has the fields of NoCall.                             *)
LEMMA CallFields ==
    NoCall = [at |-> NoCall.at, channel |-> NoCall.channel, id |-> NoCall.id,
              row |-> NoCall.row, built |-> NoCall.built]
BY DEF NoCall

(* A call begins: alone on its channel, or the overlap is noted.            *)
LEMMA BeginFollows ==
    ASSUME RulesInv, NEW t \in RuleCallers, NEW entry, BeginCall(t, entry),
           entry.channel \in RuleChannels, entry.at \notin {"idle", "swap"}
    PROVE  /\ CallOnly(t, entry.channel) /\ ruleCall'[t] = entry
           /\ ruleEdits \in Nat /\ ruleEdits' = ruleEdits + 1
<1> DEFINE c == entry.channel
<1>1. /\ ruleCall[t].at = "idle" /\ ruleEdits' = ruleEdits + 1
      /\ ruleCall' = [ruleCall EXCEPT ![t] = entry] /\ evaluators_' = evaluators_
      /\ overlapped' = IF \E u \in RuleCallers \ {t} :
                             ruleCall[u].at # "idle" /\ ruleCall[u].channel = c
                       THEN overlapped \union {c} ELSE overlapped
  BY DEF BeginCall
<1>2. /\ ruleCall'[t] = entry /\ \A u \in RuleCallers : u # t => ruleCall'[u] = ruleCall[u]
      /\ ruleCall' = [ruleCall EXCEPT ![t] = ruleCall'[t]]
  BY <1>1 DEF RulesInv, RulesTypeOK
<1>3. /\ evaluators_' = [evaluators_ EXCEPT ![c] = evaluators_'[c]]
      /\ IsEvaluators(evaluators_'[c]) /\ ruleEdits \in Nat
  BY <1>1 DEF RulesInv, RulesTypeOK
<1>4. \A ch \in RuleChannels : ch # c => ~Busy(t, ch) /\ ~Busy(t, ch)'
  BY <1>1, <1>2 DEF Busy
<1>5. ASSUME c \notin overlapped' PROVE ChannelFollows(c)'
  <2>1. \A u \in RuleCallers : u # t => ~Busy(u, c)
    BY <1>1, <1>5 DEF Busy
  <2>2. Busy(t, c)' /\ ruleCall'[t].at # "swap"
    BY <1>2 DEF Busy
  <2>3. \A u \in RuleCallers : Busy(u, c)' => u = t
    BY <1>2, <2>1 DEF Busy
  <2> QED BY <2>2, <2>3 DEF ChannelFollows
<1> QED BY <1>1, <1>2, <1>3, <1>4, <1>5 DEF CallOnly

(* CreateRule: the row it inserts has a new id.                             *)
LEMMA CreateFollows ==
    ASSUME RulesInv, NEW t \in RuleCallers, NEW ch \in RuleChannels,
           NEW enabled \in BOOLEAN, CreateRule(t, ch, enabled)
    PROVE  RulesInv'
<1> DEFINE id == ruleEdits + 1
           row == [channel |-> ch, enabled |-> enabled, rev |-> ruleEdits]
<1>0. /\ ruleEdits \in Nat /\ IsTable(ruleRows) /\ DOMAIN ruleRows \subseteq 1..ruleEdits
      /\ \A i \in DOMAIN ruleRows : ruleRows[i] \in RuleRow
  BY DEF RulesInv, RulesTypeOK
<1>1. PICK entry : /\ entry = [NoCall EXCEPT !.at = "build", !.channel = ch]
                   /\ BeginCall(t, entry)
                   /\ ruleRows' = [i \in DOMAIN ruleRows \union {id} |->
                                     IF i = id THEN row ELSE ruleRows[i]]
  BY DEF CreateRule, InsertRule
<1>2. /\ entry.channel = ch /\ entry.at = "build"
      /\ entry = [at |-> "build", channel |-> ch, id |-> entry.id, row |-> entry.row,
                  built |-> entry.built]
  <2>1. entry = [NoCall EXCEPT !.at = "build", !.channel = ch]
    BY <1>1
  <2>2. entry = [at |-> "build", channel |-> ch, id |-> NoCall.id,
                 row |-> NoCall.row, built |-> NoCall.built]
    BY <2>1, CallFields
  <2> QED BY <2>2
<1>3. row \in RuleRow /\ row.channel = ch
  BY <1>0 DEF RuleRow
<1> HIDE DEF row
<1>4. CallOnly(t, ch) /\ ruleCall'[t] = entry /\ ruleEdits' = ruleEdits + 1
  BY <1>1, <1>2, BeginFollows
<1>5. id \notin DOMAIN ruleRows /\ id \notin 1..ruleEdits
      /\ DOMAIN ruleRows' = DOMAIN ruleRows \union {id}
      /\ id \in 1..ruleEdits' /\ 1..ruleEdits \subseteq 1..ruleEdits'
      /\ ruleEdits' \in Nat /\ ruleEdits =< ruleEdits'
  BY <1>0, <1>1, <1>4
<1>6. /\ ruleRows'[id] = row /\ IsTable(ruleRows')
      /\ \A i \in DOMAIN ruleRows : ruleRows'[i] = ruleRows[i]
  BY <1>1, <1>5 DEF IsTable
<1>7. IsCall(ruleCall[t])'
  BY <1>2, <1>4 DEF IsCall, CallPlaces
<1> HIDE DEF id
<1>8. RowsStep(ch)
  <2>1. DOMAIN ruleRows' \subseteq 1..ruleEdits'
        /\ DOMAIN ruleRows' \intersect (1..ruleEdits) \subseteq DOMAIN ruleRows
    BY <1>0, <1>5
  <2>2. \A i \in DOMAIN ruleRows' : i = id \/ i \in DOMAIN ruleRows
    BY <1>5
  <2>3. \A i \in DOMAIN ruleRows' : /\ ruleRows'[i] \in RuleRow
                                    /\ ruleRows'[i].channel # ch =>
                                         /\ i \in DOMAIN ruleRows
                                         /\ ruleRows'[i] = ruleRows[i]
    BY <1>0, <1>3, <1>6, <2>2
  <2>4. /\ \A i \in DOMAIN ruleRows : i \in DOMAIN ruleRows' /\ ruleRows'[i] = ruleRows[i]
        /\ \A i \in DOMAIN ruleRows \intersect DOMAIN ruleRows' :
              ruleRows'[i].channel = ruleRows[i].channel
    BY <1>5, <1>6
  <2>5. IsTable(ruleRows') /\ ruleEdits' \in Nat /\ ruleEdits =< ruleEdits'
    BY <1>5, <1>6
  <2> QED BY <2>1, <2>3, <2>4, <2>5 DEF RowsStep
<1> QED BY <1>4, <1>7, <1>8, CallStep

(* The routes that read a row before they change it.                        *)
LEMMA LookupFollows ==
    ASSUME RulesInv, NEW t \in RuleCallers, NEW id \in DOMAIN ruleRows,
           \/ HandleDeleteRule(t, id)
           \/ \E enabled \in BOOLEAN : HandleUpdateRule(t, id, enabled)
    PROVE  RulesInv'
<1>a. PICK c \in RuleChannels : c = ruleRows[id].channel
  BY DEF RulesInv, RulesTypeOK, RuleRow
<1>0. /\ ruleEdits \in Nat /\ IsTable(ruleRows) /\ DOMAIN ruleRows \subseteq 1..ruleEdits
      /\ \A i \in DOMAIN ruleRows : ruleRows[i] \in RuleRow
      /\ ruleRows' = ruleRows
  BY DEF RulesInv, RulesTypeOK, RuleRow, HandleDeleteRule, HandleUpdateRule
<1>1. PICK entry : /\ BeginCall(t, entry) /\ entry.at \in {"delete", "update"}
                   /\ entry = [at |-> entry.at, channel |-> c, id |-> id,
                               row |-> entry.row, built |-> entry.built]
                   /\ entry.at = "update" =>
                        \E r \in RuleRow : entry.row = {r} /\ r.channel = c
  <2>1. CASE HandleDeleteRule(t, id)
    <3>1. PICK e : /\ e = [NoCall EXCEPT !.at = "delete", !.id = id, !.channel = c]
                   /\ BeginCall(t, e)
      BY <1>a, <2>1 DEF HandleDeleteRule, GetRule
    <3>2. e = [at |-> "delete", channel |-> c, id |-> id, row |-> NoCall.row,
               built |-> NoCall.built]
      <4>1. e = [NoCall EXCEPT !.at = "delete", !.id = id, !.channel = c]
        BY <3>1
      <4> QED BY <4>1, CallFields
    <3>3. /\ e.at = "delete"
          /\ e = [at |-> e.at, channel |-> c, id |-> id, row |-> e.row, built |-> e.built]
      BY <3>2
    <3> QED BY <3>1, <3>3
  <2>2. ASSUME NEW enabled \in BOOLEAN, HandleUpdateRule(t, id, enabled)
        PROVE  \E entry : /\ BeginCall(t, entry) /\ entry.at \in {"delete", "update"}
                          /\ entry = [at |-> entry.at, channel |-> c, id |-> id,
                                      row |-> entry.row, built |-> entry.built]
                          /\ entry.at = "update" =>
                               \E r \in RuleRow : entry.row = {r} /\ r.channel = c
    <3>1. PICK r : r = [ruleRows[id] EXCEPT !.enabled = enabled, !.rev = ruleEdits]
      OBVIOUS
    <3>2. PICK e : /\ e = [NoCall EXCEPT !.at = "update", !.id = id, !.channel = c,
                                        !.row = {r}]
                   /\ BeginCall(t, e)
      BY <1>a, <2>2, <3>1 DEF HandleUpdateRule, GetRule
    <3>3. r \in RuleRow /\ r.channel = c
      BY <1>0, <1>a, <3>1 DEF RuleRow
    <3>4. e = [at |-> "update", channel |-> c, id |-> id, row |-> {r},
               built |-> NoCall.built]
      <4>1. e = [NoCall EXCEPT !.at = "update", !.id = id, !.channel = c, !.row = {r}]
        BY <3>2
      <4> QED BY <4>1, CallFields
    <3>5. /\ e.at = "update" /\ e.row = {r}
          /\ e = [at |-> e.at, channel |-> c, id |-> id, row |-> e.row, built |-> e.built]
      BY <3>4
    <3> QED BY <3>2, <3>3, <3>5
  <2> QED BY <2>1, <2>2
<1>2. entry.channel = c /\ entry.id = id /\ entry.at \notin {"idle", "swap"}
  BY <1>1
<1>3. CallOnly(t, c) /\ ruleCall'[t] = entry /\ ruleEdits' = ruleEdits + 1
  BY <1>0, <1>1, <1>2, BeginFollows
<1>4. /\ ruleEdits' \in Nat /\ ruleEdits =< ruleEdits'
      /\ 1..ruleEdits \subseteq 1..ruleEdits'
  BY <1>0, <1>3
<1>5. IsCall(ruleCall[t])'
  <2>1. id \in 1..ruleEdits' /\ ruleRows'[id].channel = c
    BY <1>0, <1>4, <1>a
  <2> QED BY <1>0, <1>1, <1>2, <1>3, <2>1 DEF IsCall, CallPlaces
<1>6. RowsStep(c)
  BY <1>0, <1>4 DEF RowsStep
<1> QED BY <1>0, <1>3, <1>5, <1>6, CallStep

(* UpdateRule and DeleteRule change the row the call looked up, if it is    *)
(* still there, and no row of another channel.                              *)
LEMMA RowFollows ==
    ASSUME RulesInv, NEW t \in RuleCallers, UpdateRule(t) \/ DeleteRule(t)
    PROVE  RulesInv'
<1>a. PICK c, id, mine : /\ c \in RuleChannels /\ c = mine.channel
                           /\ id = mine.id /\ mine = ruleCall[t]
  BY DEF RulesInv, RulesTypeOK, IsCall, UpdateRule, DeleteRule
<1>0. /\ ruleEdits \in Nat /\ IsTable(ruleRows) /\ DOMAIN ruleRows \subseteq 1..ruleEdits
      /\ \A i \in DOMAIN ruleRows : ruleRows[i] \in RuleRow
      /\ IsCall(mine) /\ mine.at \in {"update", "delete"} /\ c \in RuleChannels
      /\ id \in DOMAIN ruleRows => ruleRows[id].channel = c
      /\ UNCHANGED <<ruleEdits, overlapped, evaluators_>>
  BY <1>a DEF RulesInv, RulesTypeOK, IsCall, UpdateRule, DeleteRule
<1>1. /\ ruleCall' = [ruleCall EXCEPT ![t] = ruleCall'[t]]
      /\ ruleCall'[t].at = "build" /\ ruleCall'[t].channel = c
      /\ ruleCall'[t] = [at |-> "build", channel |-> c, id |-> ruleCall'[t].id,
                         row |-> ruleCall'[t].row, built |-> ruleCall'[t].built]
      /\ \A u \in RuleCallers : u # t => ruleCall'[u] = ruleCall[u]
  <2>1. ruleCall = [u \in RuleCallers |-> ruleCall[u]]
    BY DEF RulesInv, RulesTypeOK
  <2>2. mine = [at |-> mine.at, channel |-> mine.channel, id |-> mine.id,
                row |-> mine.row, built |-> mine.built]
    BY <1>0 DEF IsCall
  <2>3. \/ ruleCall' = [ruleCall EXCEPT ![t].at = "build", ![t].row = {}]
        \/ ruleCall' = [ruleCall EXCEPT ![t].at = "build"]
    BY DEF UpdateRule, DeleteRule
  <2>4. \/ ruleCall'[t] = [at |-> "build", channel |-> mine.channel, id |-> mine.id,
                           row |-> {}, built |-> mine.built]
        \/ ruleCall'[t] = [at |-> "build", channel |-> mine.channel, id |-> mine.id,
                           row |-> mine.row, built |-> mine.built]
    BY <1>a, <2>1, <2>2, <2>3
  <2>5. /\ ruleCall' = [ruleCall EXCEPT ![t] = ruleCall'[t]]
        /\ \A u \in RuleCallers : u # t => ruleCall'[u] = ruleCall[u]
    BY <2>1, <2>3
  <2> QED BY <1>a, <2>4, <2>5
<1>2. /\ IsTable(ruleRows') /\ DOMAIN ruleRows' \subseteq DOMAIN ruleRows
      /\ \A i \in DOMAIN ruleRows : i # id =>
            i \in DOMAIN ruleRows' /\ ruleRows'[i] = ruleRows[i]
      /\ id \in DOMAIN ruleRows' => ruleRows'[id] \in RuleRow /\ ruleRows'[id].channel = c
  <2>1. CASE UpdateRule(t)
    <3>1. PICK r \in RuleRow : mine.row = {r} /\ r.channel = c
      BY <1>0, <1>a, <2>1 DEF UpdateRule, IsCall
    <3>2. ruleRows' = [i \in DOMAIN ruleRows |-> IF i = id THEN r ELSE ruleRows[i]]
      BY <1>a, <2>1, <3>1 DEF UpdateRule
    <3> QED BY <3>1, <3>2 DEF IsTable
  <2>2. CASE DeleteRule(t)
    BY <1>0, <1>a, <2>2 DEF DeleteRule, Restrict, IsTable
  <2> QED BY <2>1, <2>2
<1>3. \A ch \in RuleChannels : ch # c => ~Busy(t, ch) /\ ~Busy(t, ch)'
  BY <1>1, <1>a DEF Busy
<1>4. ASSUME c \notin overlapped' PROVE ChannelFollows(c)'
  <2>1. Busy(t, c) /\ Busy(t, c)' /\ ruleCall'[t].at # "swap"
    BY <1>0, <1>1, <1>a DEF Busy
  <2>2. \A u \in RuleCallers : Busy(u, c)' => u = t
    <3>1. ChannelFollows(c)
      BY <1>0, <1>4 DEF RulesInv
    <3> QED BY <1>1, <2>1, <3>1 DEF ChannelFollows, Busy
  <2> QED BY <2>1, <2>2 DEF ChannelFollows
<1>5. IsCall(ruleCall[t])'
  BY <1>0, <1>1 DEF IsCall, CallPlaces
<1>6. /\ evaluators_' = [evaluators_ EXCEPT ![c] = evaluators_'[c]]
      /\ IsEvaluators(evaluators_'[c])
  BY <1>0 DEF RulesInv, RulesTypeOK
<1>7. RowsStep(c)
  BY <1>0, <1>2 DEF RowsStep
<1>8. CallOnly(t, c)
  BY <1>0, <1>1, <1>3, <1>4, <1>6 DEF CallOnly
<1> QED BY <1>0, <1>5, <1>7, <1>8, CallStep

(* ReloadChannel builds what the store holds.                               *)
LEMMA ReloadFollows ==
    ASSUME RulesInv, NEW t \in RuleCallers, ReloadChannel(t)
    PROVE  RulesInv'
<1>a. PICK c, mine : c \in RuleChannels /\ c = mine.channel /\ mine = ruleCall[t]
  BY DEF RulesInv, RulesTypeOK, IsCall, ReloadChannel
<1>0. /\ IsCall(mine) /\ mine.at = "build" /\ c \in RuleChannels
      /\ UNCHANGED <<ruleRows, ruleEdits, overlapped, evaluators_>>
      /\ ruleEdits \in Nat /\ IsTable(ruleRows) /\ DOMAIN ruleRows \subseteq 1..ruleEdits
      /\ \A i \in DOMAIN ruleRows : ruleRows[i] \in RuleRow
      /\ ruleCall = [u \in RuleCallers |-> ruleCall[u]]
  BY <1>a DEF RulesInv, RulesTypeOK, IsCall, ReloadChannel
<1>1. PICK built : /\ built = BuildEvaluators(c)
                   /\ ruleCall' = [ruleCall EXCEPT ![t].at = "swap", ![t].built = built]
  BY <1>a DEF ReloadChannel
<1>2. IsEvaluators(built) /\ Loaded(built, c)
  BY <1>1, BuiltLoaded
<1>3. ruleCall'[t] = [at |-> "swap", channel |-> c, id |-> mine.id, row |-> mine.row,
                      built |-> built]
  <2>1. mine = [at |-> mine.at, channel |-> mine.channel, id |-> mine.id,
                row |-> mine.row, built |-> mine.built]
    BY <1>0 DEF IsCall
  <2> QED BY <1>0, <1>1, <1>a, <2>1
<1>4. /\ ruleCall' = [ruleCall EXCEPT ![t] = ruleCall'[t]]
      /\ \A u \in RuleCallers : u # t => ruleCall'[u] = ruleCall[u]
  BY <1>0, <1>1
<1>5. ruleCall'[t].at = "swap" /\ ruleCall'[t].channel = c /\ ruleCall'[t].built = built
  BY <1>3
<1>6. IsCall(ruleCall[t])'
  BY <1>0, <1>2, <1>3 DEF IsCall, CallPlaces
<1>7. \A ch \in RuleChannels : ch # c => ~Busy(t, ch) /\ ~Busy(t, ch)'
  BY <1>5, <1>a DEF Busy
<1>8. ASSUME c \notin overlapped' PROVE ChannelFollows(c)'
  <2>1. Busy(t, c) /\ Busy(t, c)'
    BY <1>0, <1>5, <1>a DEF Busy
  <2>2. ChannelFollows(c)
    BY <1>0, <1>8 DEF RulesInv
  <2>3. \A u \in RuleCallers : Busy(u, c)' => u = t
    BY <1>4, <2>1, <2>2 DEF ChannelFollows, Busy
  <2>4. Loaded(ruleCall[t].built, c)'
    BY <1>0, <1>2, <1>5 DEF Loaded, ListEnabledRulesByChannel
  <2> QED BY <2>1, <2>3, <2>4 DEF ChannelFollows
<1>9. /\ evaluators_' = [evaluators_ EXCEPT ![c] = evaluators_'[c]]
      /\ IsEvaluators(evaluators_'[c])
  BY <1>0 DEF RulesInv, RulesTypeOK
<1>10. RowsStep(c)
  BY <1>0 DEF RowsStep
<1>11. CallOnly(t, c)
  BY <1>0, <1>4, <1>7, <1>8, <1>9 DEF CallOnly
<1> QED BY <1>0, <1>6, <1>10, <1>11, CallStep

(* SwapEvaluators gives the engine what the only call has built.            *)
LEMMA SwapFollows ==
    ASSUME RulesInv, NEW t \in RuleCallers, SwapEvaluators(t)
    PROVE  RulesInv'
<1>a. PICK c, mine : c \in RuleChannels /\ c = mine.channel /\ mine = ruleCall[t]
  BY DEF RulesInv, RulesTypeOK, IsCall, SwapEvaluators
<1>0. /\ IsCall(mine) /\ mine.at = "swap" /\ c \in RuleChannels
      /\ UNCHANGED <<ruleRows, ruleEdits, overlapped>> /\ IsEvaluators(mine.built)
      /\ ruleEdits \in Nat /\ IsTable(ruleRows) /\ DOMAIN ruleRows \subseteq 1..ruleEdits
      /\ \A i \in DOMAIN ruleRows : ruleRows[i] \in RuleRow
      /\ ruleCall = [u \in RuleCallers |-> ruleCall[u]]
      /\ evaluators_ = [ch \in RuleChannels |-> evaluators_[ch]]
  BY <1>a DEF RulesInv, RulesTypeOK, IsCall, SwapEvaluators
<1>1. /\ ruleCall' = [ruleCall EXCEPT ![t] = NoCall]
      /\ evaluators_' = [evaluators_ EXCEPT ![c] = mine.built]
  BY <1>a DEF SwapEvaluators
<1>2. /\ evaluators_'[c] = mine.built
      /\ evaluators_' = [evaluators_ EXCEPT ![c] = evaluators_'[c]]
      /\ IsEvaluators(evaluators_'[c])
  BY <1>0, <1>1
<1>3. /\ ruleCall'[t] = NoCall /\ ruleCall' = [ruleCall EXCEPT ![t] = ruleCall'[t]]
      /\ \A u \in RuleCallers : u # t => ruleCall'[u] = ruleCall[u]
  BY <1>0, <1>1
<1>4. NoCall.at = "idle" /\ IsCall(ruleCall[t])'
  BY <1>3 DEF NoCall, IsCall, CallPlaces
<1>5. \A ch \in RuleChannels : ch # c => ~Busy(t, ch) /\ ~Busy(t, ch)'
  BY <1>3, <1>4, <1>a DEF Busy
<1>6. ASSUME c \notin overlapped' PROVE ChannelFollows(c)'
  <2>1. Busy(t, c) /\ ~Busy(t, c)'
    BY <1>0, <1>3, <1>4, <1>a DEF Busy
  <2>2. ChannelFollows(c)
    BY <1>0, <1>6 DEF RulesInv
  <2>3. \A u \in RuleCallers : ~Busy(u, c)'
    BY <1>3, <2>1, <2>2 DEF ChannelFollows, Busy
  <2>4. Loaded(mine.built, c)
    BY <1>0, <1>a, <2>1, <2>2 DEF ChannelFollows
  <2>5. Loaded(evaluators_[c], c)'
    BY <1>0, <1>2, <2>4 DEF Loaded, ListEnabledRulesByChannel
  <2> QED BY <2>3, <2>5 DEF ChannelFollows
<1>7. RowsStep(c)
  BY <1>0 DEF RowsStep
<1>8. CallOnly(t, c)
  BY <1>0, <1>2, <1>3, <1>5, <1>6 DEF CallOnly
<1> QED BY <1>0, <1>4, <1>7, <1>8, CallStep

(* Evaluations, aggregation and the clock leave the rules and, but for the  *)
(* time of the last event, the entries.                                     *)
SameEntries ==
    /\ UNCHANGED ruleVars
    /\ evaluators_' = [ch \in RuleChannels |-> evaluators_'[ch]]
    /\ \A ch \in RuleChannels :
          /\ IsEvaluators(evaluators_'[ch])
          /\ DOMAIN evaluators_'[ch] = DOMAIN evaluators_[ch]
          /\ \A i \in DOMAIN evaluators_[ch] :
                evaluators_'[ch][i].rev = evaluators_[ch][i].rev

(* A step that leaves the entries alone keeps the engine following the      *)
(* store.                                                                   *)
LEMMA SameEntriesFollow ==
    ASSUME RulesInv, SameEntries
    PROVE  RulesInv'
<1> USE DEF SameEntries, ruleVars
<1>1. RulesTypeOK'
  BY DEF RulesInv, RulesTypeOK, IsCall
<1>2. ASSUME NEW ch \in RuleChannels \ overlapped PROVE ChannelFollows(ch)'
  <2>1. ChannelFollows(ch)
    BY DEF RulesInv
  <2>2. \A t \in RuleCallers : Busy(t, ch)' <=> Busy(t, ch)
    BY DEF Busy
  <2>3. ASSUME NEW es, Loaded(es, ch)
        PROVE  /\ DOMAIN es = ListEnabledRulesByChannel(ch)'
               /\ \A i \in DOMAIN es : es[i].rev = ruleRows'[i].rev
    BY <2>3 DEF Loaded, ListEnabledRulesByChannel
  <2>4. ASSUME Loaded(evaluators_[ch], ch) PROVE Loaded(evaluators_[ch], ch)'
    BY <2>3, <2>4 DEF Loaded
  <2>5. ASSUME NEW t \in RuleCallers, Loaded(ruleCall[t].built, ch)
        PROVE  Loaded(ruleCall[t].built, ch)'
    BY <2>3, <2>5 DEF Loaded
  <2> QED BY <2>1, <2>2, <2>4, <2>5 DEF ChannelFollows
<1> QED BY <1>1, <1>2 DEF RulesInv

(* An event changes no rule, only when it last fired.                       *)
LEMMA LogEventFollows ==
    ASSUME RulesInv, LogEvent
    PROVE  RulesInv'
<1>1. PICK c, rule, stamp :
             /\ UNCHANGED ruleVars
             /\ evaluators_' = [evaluators_ EXCEPT ![c][rule].last = stamp]
  <2>1. PICK e \in evaluation :
           /\ UNCHANGED ruleVars
           /\ evaluators_' =
                [evaluators_ EXCEPT ![e.channel][Min(e.left)].last = e.stamp]
    BY DEF LogEvent
  <2> QED BY <2>1
<1>2. /\ evaluators_ = [ch \in RuleChannels |-> evaluators_[ch]]
      /\ \A ch \in RuleChannels : IsEvaluators(evaluators_[ch])
  BY DEF RulesInv, RulesTypeOK
<1>3. evaluators_' = [ch \in RuleChannels |-> evaluators_'[ch]]
  BY <1>1, <1>2
<1>4. ASSUME NEW ch \in RuleChannels
      PROVE  /\ IsEvaluators(evaluators_'[ch])
             /\ DOMAIN evaluators_'[ch] = DOMAIN evaluators_[ch]
             /\ \A i \in DOMAIN evaluators_[ch] :
                   evaluators_'[ch][i].rev = evaluators_[ch][i].rev
  <2>1. CASE ch # c
    BY <1>1, <1>2, <2>1
  <2>2. CASE ch = c
    <3>1. PICK es : es = evaluators_[c] /\ IsEvaluators(es)
      BY <1>2, <2>2
    <3>2. evaluators_'[c] = [es EXCEPT ![rule].last = stamp]
      BY <1>1, <1>2, <2>2, <3>1
    <3>3. /\ DOMAIN evaluators_'[c] = DOMAIN es /\ IsTable(evaluators_'[c])
          /\ \A i \in DOMAIN es : i # rule => evaluators_'[c][i] = es[i]
          /\ rule \in DOMAIN es =>
                evaluators_'[c][rule] = [es[rule] EXCEPT !.last = stamp]
      BY <3>1, <3>2 DEF IsEvaluators, IsTable
    <3>4. ASSUME rule \in DOMAIN es
          PROVE  IsEntry(evaluators_'[c][rule]) /\ evaluators_'[c][rule].rev = es[rule].rev
      <4>1. PICK e : e = es[rule] /\ e = [rev |-> e.rev, last |-> e.last]
        BY <3>1, <3>4 DEF IsEvaluators, IsEntry
      <4>2. evaluators_'[c][rule] = [rev |-> e.rev, last |-> stamp]
        BY <3>3, <3>4, <4>1
      <4> QED BY <4>1, <4>2 DEF IsEntry
    <3>5. IsEvaluators(evaluators_'[c])
      BY <3>1, <3>3, <3>4 DEF IsEvaluators
    <3> QED BY <2>2, <3>1, <3>3, <3>4, <3>5
  <2> QED BY <2>1, <2>2
<1> QED BY <1>1, <1>3, <1>4, SameEntriesFollow DEF SameEntries

(* main loads the rules of every channel before calls are taken.            *)
LEMMA RestartFollows ==
    ASSUME RulesInv, RulesRestart
    PROVE  RulesInv'
<1>1. /\ ruleCall' = [t \in RuleCallers |-> NoCall] /\ overlapped' = {}
      /\ evaluators_' = [ch \in RuleChannels |-> BuildEvaluators(ch)]
      /\ UNCHANGED <<ruleRows, ruleEdits>>
  BY DEF RulesRestart, LoadRules
<1>2. \A t \in RuleCallers : ruleCall'[t] = NoCall
  BY <1>1
<1>3. \A ch \in RuleChannels : /\ evaluators_'[ch] = BuildEvaluators(ch)
                               /\ IsEvaluators(evaluators_'[ch])
                               /\ Loaded(evaluators_'[ch], ch)
  <2>1. \A ch \in RuleChannels : evaluators_'[ch] = BuildEvaluators(ch)
    BY <1>1
  <2> QED BY <2>1, BuiltLoaded
<1>4. \A t \in RuleCallers : IsCall(ruleCall[t])'
  BY <1>2 DEF IsCall, NoCall, CallPlaces
<1>5. RulesTypeOK'
  <2>1. evaluators_' = [ch \in RuleChannels |-> evaluators_'[ch]]
    BY <1>1
  <2>2. ruleCall' = [t \in RuleCallers |-> ruleCall'[t]]
    BY <1>1
  <2> QED BY <1>1, <1>3, <1>4, <2>1, <2>2 DEF RulesInv, RulesTypeOK
<1>6. ASSUME NEW ch \in RuleChannels PROVE ChannelFollows(ch)'
  <2>1. \A t \in RuleCallers : ~Busy(t, ch)'
    BY <1>2 DEF Busy, NoCall
  <2>2. Loaded(evaluators_[ch], ch)'
    BY <1>1, <1>3 DEF Loaded, ListEnabledRulesByChannel
  <2> QED BY <2>1, <2>2 DEF ChannelFollows
<1> QED BY <1>5, <1>6 DEF RulesInv

(* Every step keeps the engine following the store.                         *)
LEMMA RulesStep ==
    ASSUME RulesInv, [RulesNext]_rulesVars
    PROVE  RulesInv'
<1>1. ASSUME UNCHANGED <<ruleVars, evaluators_>> PROVE RulesInv'
  BY <1>1, SameEntriesFollow DEF SameEntries, RulesInv, RulesTypeOK
<1>2. CASE \E t \in RuleCallers :
              \/ UpdateRule(t) \/ DeleteRule(t) \/ ReloadChannel(t) \/ SwapEvaluators(t)
              \/ \E ch \in RuleChannels, enabled \in BOOLEAN : CreateRule(t, ch, enabled)
              \/ \E id \in DOMAIN ruleRows :
                    \/ HandleDeleteRule(t, id)
                    \/ \E enabled \in BOOLEAN : HandleUpdateRule(t, id, enabled)
  <2>1. PICK t \in RuleCallers :
              \/ UpdateRule(t) \/ DeleteRule(t) \/ ReloadChannel(t) \/ SwapEvaluators(t)
              \/ \E ch \in RuleChannels, enabled \in BOOLEAN : CreateRule(t, ch, enabled)
              \/ \E id \in DOMAIN ruleRows :
                    \/ HandleDeleteRule(t, id)
                    \/ \E enabled \in BOOLEAN : HandleUpdateRule(t, id, enabled)
    BY <1>2
  <2>2. CASE UpdateRule(t) \/ DeleteRule(t)
    BY <2>2, RowFollows
  <2>3. CASE ReloadChannel(t)
    BY <2>3, ReloadFollows
  <2>4. CASE SwapEvaluators(t)
    BY <2>4, SwapFollows
  <2>5. CASE \E ch \in RuleChannels, enabled \in BOOLEAN : CreateRule(t, ch, enabled)
    BY <2>5, CreateFollows
  <2>6. CASE \E id \in DOMAIN ruleRows :
                \/ HandleDeleteRule(t, id)
                \/ \E enabled \in BOOLEAN : HandleUpdateRule(t, id, enabled)
    BY <2>6, LookupFollows
  <2> QED BY <2>1, <2>2, <2>3, <2>4, <2>5, <2>6
<1>3. CASE \E ch \in RuleChannels : EvaluateBegin(ch)
  BY <1>1, <1>3 DEF EvaluateBegin
<1>4. CASE EvaluateQuiet \/ PublishEvent \/ EvaluateEnd \/ RunAggregation \/ RuleTick
  BY <1>1, <1>4 DEF EvaluateQuiet, PublishEvent, EvaluateEnd, RunAggregation, RuleTick
<1>5. CASE LogEvent
  BY <1>5, LogEventFollows
<1>6. CASE RulesRestart
  BY <1>6, RestartFollows
<1>7. CASE UNCHANGED rulesVars
  BY <1>1, <1>7 DEF rulesVars
<1> QED BY <1>2, <1>3, <1>4, <1>5, <1>6, <1>7 DEF RulesNext

(* At first there are no rules.                                             *)
LEMMA RulesStart ==
    ASSUME RulesInit
    PROVE  RulesInv
<1>1. \A t \in RuleCallers : ruleCall[t] = NoCall
  BY DEF RulesInit
<1>2. \A t \in RuleCallers : IsCall(ruleCall[t]) /\ ruleCall[t].at = "idle"
  BY <1>1 DEF IsCall, NoCall, CallPlaces
<1>3. /\ DOMAIN ruleRows = {} /\ IsTable(ruleRows)
      /\ \A ch \in RuleChannels : evaluators_[ch] = ruleRows
  BY DEF RulesInit, IsTable
<1>4. RulesTypeOK
  <2>1. /\ ruleEdits \in Nat
        /\ evaluators_ = [ch \in RuleChannels |-> evaluators_[ch]]
        /\ ruleCall = [t \in RuleCallers |-> ruleCall[t]]
    BY DEF RulesInit
  <2> QED BY <1>2, <1>3, <2>1 DEF RulesTypeOK, IsEvaluators
<1>5. \A ch \in RuleChannels : ChannelFollows(ch)
  BY <1>2, <1>3 DEF ChannelFollows, Busy, Loaded, ListEnabledRulesByChannel
<1> QED BY <1>4, <1>5 DEF RulesInv

(* RuleEngine::ReloadChannel reads the store before it takes the engine's   *)
(* mutex, and evaluations, other channels' calls and restarts fall between  *)
(* the two: as long as the calls for a channel have not overlapped, a       *)
(* channel without a call has exactly its enabled rules loaded, each as it  *)
(* was last saved.                                                          *)
THEOREM EngineAlwaysFollowsStore == RulesSpec => []EngineFollowsStore
<1>1. RulesInit => RulesInv
  BY RulesStart
<1>2. RulesInv /\ [RulesNext]_rulesVars => RulesInv'
  BY RulesStep
<1>3. RulesInv => EngineFollowsStore
  BY DEF RulesInv, ChannelFollows, Busy, Loaded, EngineFollowsStore
<1> QED BY <1>1, <1>2, <1>3, PTL DEF RulesSpec

-----------------------------------------------------------------------------
(* AnalyticsAggregator and AnalyticsStore.                                  *)

IsEvaluation(e) ==
    /\ e = [channel |-> e.channel, stamp |-> e.stamp,
            publishing |-> e.publishing, left |-> e.left]
    /\ e.channel \in RuleChannels
    /\ e.publishing \in {0} \union DOMAIN ruleLog

(* The rows of a bucket that the handler in main has seen or missed.        *)
Handled(b) == {i \in DOMAIN ruleLog : /\ Bucket(ruleLog[i]) = b
                                      /\ \A e \in evaluation : e.publishing # i}

(* A bucket never counts more than these: the event being published is in   *)
(* the log and not yet counted.                                             *)
HourlyInv ==
    /\ \E n \in Nat : DOMAIN ruleLog = 1..n
    /\ \A i \in DOMAIN ruleLog : ruleLog[i].channel \in RuleChannels
    /\ \A e, f \in evaluation : e = f
    /\ \A e \in evaluation : IsEvaluation(e)
    /\ IsTable(hourly) /\ IsFiniteSet(DOMAIN hourly)
    /\ \A b \in DOMAIN hourly :
          hourly[b] \in Nat /\ hourly[b] =< Cardinality(Handled(b))

(* They are rows of the log, which is finite.                               *)
LEMMA HandledFinite ==
    ASSUME HourlyInv, NEW b
    PROVE  IsFiniteSet(Handled(b)) /\ Cardinality(Handled(b)) \in Nat
<1>1. PICK n \in Nat : DOMAIN ruleLog = 1..n
  BY DEF HourlyInv
<1>2. IsFiniteSet(1..n) /\ Handled(b) \subseteq 1..n
  BY <1>1, FS_Interval DEF Handled
<1> QED BY <1>2, FS_Subset, FS_CardinalityType

(* The next row number is one that no row has.                              *)
LEMMA NextRow ==
    ASSUME HourlyInv, NEW row, row = Cardinality(DOMAIN ruleLog) + 1
    PROVE  /\ row \notin DOMAIN ruleLog /\ row # 0
           /\ \E n \in Nat : DOMAIN ruleLog \union {row} = 1..n
<1>1. PICK n \in Nat : DOMAIN ruleLog = 1..n
  BY DEF HourlyInv
<1>2. Cardinality(1..n) = n
  BY FS_Interval
<1>3. row = n + 1
  BY <1>1, <1>2
<1>4. 1..n \union {n + 1} = 1..(n + 1)
  OBVIOUS
<1> QED BY <1>1, <1>3, <1>4

(* A larger set of rows.                                                    *)
LEMMA HandledGrows ==
    ASSUME HourlyInv, NEW b, IsFiniteSet(Handled(b)'), Handled(b) \subseteq Handled(b)',
           b \in DOMAIN hourly
    PROVE  hourly[b] =< Cardinality(Handled(b)')
<1>1. Cardinality(Handled(b)) \in Nat /\ Cardinality(Handled(b)') \in Nat
  BY HandledFinite, FS_CardinalityType
<1>2. Cardinality(Handled(b)) =< Cardinality(Handled(b)')
  BY FS_Subset
<1> QED BY <1>1, <1>2 DEF HourlyInv

(* Steps that count nothing: rows are only added, and one that is taken out *)
(* of Handled was not in it.                                                *)
LEMMA CountsKept ==
    ASSUME HourlyInv, UNCHANGED hourly,
           \E n \in Nat : DOMAIN ruleLog' = 1..n,
           \A i \in DOMAIN ruleLog' : ruleLog'[i].channel \in RuleChannels,
           \A e, f \in evaluation' : e = f,
           \A e \in evaluation' : IsEvaluation(e)',
           \A b \in DOMAIN hourly : Handled(b) \subseteq Handled(b)'
    PROVE  HourlyInv'
<1>1. ASSUME NEW b \in DOMAIN hourly
      PROVE  hourly[b] \in Nat /\ hourly[b] =< Cardinality(Handled(b)')
  <2>1. PICK n \in Nat : DOMAIN ruleLog' = 1..n
    OBVIOUS
  <2> DEFINE H == Handled(b)'
  <2>2. H \subseteq 1..n
    BY <2>1 DEF Handled
  <2> HIDE DEF H
  <2>3. IsFiniteSet(1..n)
    BY FS_Interval
  <2>4. IsFiniteSet(H)
    BY <2>2, <2>3, FS_Subset
  <2> QED BY <2>4, HandledGrows DEF HourlyInv, H
<1> QED BY <1>1 DEF HourlyInv

(* The event that is logged is the one being published.                     *)
LEMMA LogCounts ==
    ASSUME HourlyInv, LogEvent
    PROVE  HourlyInv'
<1>0. PICK row : row = Cardinality(DOMAIN ruleLog) + 1
  OBVIOUS
<1>1. PICK e \in evaluation, logged \in BOOLEAN :
         /\ e.publishing = 0
         /\ ruleLog' = [i \in DOMAIN ruleLog \union {row} |->
               IF i = row THEN [channel |-> e.channel, time |-> e.stamp,
                                logged |-> logged]
               ELSE ruleLog[i]]
         /\ evaluation' = {[e EXCEPT !.publishing = row, !.left = @ \ {Min(e.left)}]}
         /\ UNCHANGED hourly
  BY <1>0 DEF LogEvent, analyticsVars
<1>2. /\ row \notin DOMAIN ruleLog /\ row # 0
      /\ \E n \in Nat : DOMAIN ruleLog \union {row} = 1..n
  BY <1>0, NextRow
<1>3. DOMAIN ruleLog' = DOMAIN ruleLog \union {row}
  BY <1>1
<1>4. IsEvaluation(e)
  BY DEF HourlyInv
<1> DEFINE g == [e EXCEPT !.publishing = row, !.left = @ \ {Min(e.left)}]
<1>5. PICK l : g = [channel |-> e.channel, stamp |-> e.stamp,
                    publishing |-> row, left |-> l]
  <2>1. e = [channel |-> e.channel, stamp |-> e.stamp,
             publishing |-> e.publishing, left |-> e.left]
    BY <1>4 DEF IsEvaluation
  <2> DEFINE l == e.left \ {Min(e.left)}
  <2>2. g = [e EXCEPT !.publishing = row, !.left = l]
    OBVIOUS
  <2> HIDE DEF g, l
  <2>3. g = [channel |-> e.channel, stamp |-> e.stamp,
             publishing |-> row, left |-> l]
    BY <2>1, <2>2
  <2> QED BY <2>3
<1>6. evaluation' = {g}
  BY <1>1
<1> HIDE DEF g
<1>7. IsEvaluation(g)'
  BY <1>3, <1>4, <1>5 DEF IsEvaluation
<1>8. \A i \in DOMAIN ruleLog' : ruleLog'[i].channel \in RuleChannels
  BY <1>1, <1>3, <1>4 DEF HourlyInv, IsEvaluation
<1>9. ASSUME NEW b \in DOMAIN hourly PROVE Handled(b) \subseteq Handled(b)'
  <2> SUFFICES ASSUME NEW i \in DOMAIN ruleLog, Bucket(ruleLog[i]) = b
               PROVE  /\ i \in DOMAIN ruleLog' /\ Bucket(ruleLog'[i]) = b
                      /\ \A f \in evaluation' : f.publishing # i
    BY DEF Handled
  <2>1. i # row /\ ruleLog'[i] = ruleLog[i] /\ i \in DOMAIN ruleLog'
    BY <1>1, <1>2, <1>3
  <2> QED BY <1>5, <1>6, <2>1
<1>10. \E n \in Nat : DOMAIN ruleLog' = 1..n
  BY <1>2, <1>3
<1> QED BY <1>1, <1>6, <1>7, <1>8, <1>9, <1>10, CountsKept

(* It is counted once, in its bucket.                                       *)
LEMMA PublishCounts ==
    ASSUME HourlyInv, PublishEvent
    PROVE  HourlyInv'
<1>1. PICK e \in evaluation :
         /\ e.publishing # 0
         /\ hourly' = IngestEvents({e.publishing})
         /\ evaluation' = {[e EXCEPT !.publishing = 0]}
         /\ UNCHANGED ruleLog
  BY DEF PublishEvent
<1> DEFINE p == e.publishing
           c == Bucket(ruleLog[p])
           g == [e EXCEPT !.publishing = 0]
<1>2. IsEvaluation(e) /\ \A f \in evaluation : f = e
  BY DEF HourlyInv
<1>3. p \in DOMAIN ruleLog
  BY <1>1, <1>2 DEF IsEvaluation
<1>4. g = [channel |-> e.channel, stamp |-> e.stamp, publishing |-> 0,
           left |-> e.left]
  BY <1>2 DEF IsEvaluation
<1>5. PICK n \in Nat : DOMAIN ruleLog = 1..n
  BY DEF HourlyInv
<1>6. IsEvaluation(g)'
  BY <1>1, <1>2, <1>4 DEF IsEvaluation
<1>7. evaluation' = {g} /\ g.publishing = 0
  BY <1>1, <1>4
<1> HIDE DEF g
<1>8. ASSUME NEW b
      PROVE  Handled(b)' = IF b = c THEN Handled(b) \union {p} ELSE Handled(b)
  <2>1. Handled(b)' = {i \in DOMAIN ruleLog : Bucket(ruleLog[i]) = b}
    BY <1>1, <1>5, <1>7 DEF Handled, Bucket
  <2>2. Handled(b) = {i \in DOMAIN ruleLog : Bucket(ruleLog[i]) = b /\ i # p}
    BY <1>2 DEF Handled
  <2> QED BY <1>3, <2>1, <2>2
<1>9. p \notin Handled(c)
  BY DEF Handled
<1>10. /\ DOMAIN hourly' = DOMAIN hourly \union {c} /\ IsTable(hourly')
       /\ \A b \in DOMAIN hourly' :
             hourly'[b] = (IF b \in DOMAIN hourly THEN hourly[b] ELSE 0)
                            + (IF b = c THEN 1 ELSE 0)
  <2>1. {Bucket(ruleLog[i]) : i \in {p}} = {c}
    OBVIOUS
  <2>2. hourly' = [b \in DOMAIN hourly \union {c} |->
            (IF b \in DOMAIN hourly THEN hourly[b] ELSE 0)
              + Cardinality({i \in {p} : Bucket(ruleLog[i]) = b})]
    BY <1>1, <2>1 DEF IngestEvents, UpsertHourly
  <2>3. ASSUME NEW b
        PROVE  Cardinality({i \in {p} : Bucket(ruleLog[i]) = b}) = IF b = c THEN 1 ELSE 0
    <3>1. {i \in {p} : Bucket(ruleLog[i]) = b} = IF b = c THEN {p} ELSE {}
      OBVIOUS
    <3>2. Cardinality({p}) = 1 /\ Cardinality({}) = 0
      BY FS_Singleton, FS_EmptySet
    <3> QED BY <3>1, <3>2
  <2> HIDE DEF c, p
  <2> QED BY <2>2, <2>3 DEF IsTable
<1> HIDE DEF c, p
<1>11. IsFiniteSet(DOMAIN hourly')
  BY <1>10, FS_AddElement DEF HourlyInv
<1>12. ASSUME NEW b \in DOMAIN hourly'
       PROVE  hourly'[b] \in Nat /\ hourly'[b] =< Cardinality(Handled(b)')
  <2>1. IsFiniteSet(Handled(b)) /\ Cardinality(Handled(b)) \in Nat
    BY HandledFinite
  <2>2. b \in DOMAIN hourly => hourly[b] \in Nat /\ hourly[b] =< Cardinality(Handled(b))
    BY DEF HourlyInv
  <2>3. CASE b = c
    <3>1. Cardinality(Handled(b)') = Cardinality(Handled(b)) + 1
      BY <1>8, <1>9, <2>1, <2>3, FS_AddElement
    <3> QED BY <1>10, <2>1, <2>2, <2>3, <3>1
  <2>4. CASE b # c
    <3>1. b \in DOMAIN hourly /\ Cardinality(Handled(b)') = Cardinality(Handled(b))
      BY <1>8, <1>10, <2>4
    <3> QED BY <1>10, <2>2, <2>4, <3>1
  <2> QED BY <2>3, <2>4
<1>13. \A i \in DOMAIN ruleLog' : ruleLog'[i].channel \in RuleChannels
  BY <1>1 DEF HourlyInv
<1>14. \E m \in Nat : DOMAIN ruleLog' = 1..m
  BY <1>1 DEF HourlyInv
<1>15. (\A f, h \in evaluation' : f = h) /\ \A f \in evaluation' : IsEvaluation(f)'
  BY <1>6, <1>7
<1> QED BY <1>10, <1>11, <1>12, <1>13, <1>14, <1>15 DEF HourlyInv

(* No row is of channel -1, so RunAggregation finds none and only purges.   *)
LEMMA AggregationCounts ==
    ASSUME HourlyInv, RunAggregation
    PROVE  HourlyInv'
<1>1. UNCHANGED <<ruleLog, evaluation>>
  BY DEF RunAggregation
<1>2. QueryEvents(-1, last_aggregated_ms_, ruleTime) = {}
  BY RulesAssumption DEF QueryEvents, HourlyInv
<1>3. IngestEvents({}) = hourly
  <2>1. /\ {Bucket(ruleLog[i]) : i \in {}} = {}
        /\ \A b : {i \in {} : Bucket(ruleLog[i]) = b} = {}
    OBVIOUS
  <2>2. IngestEvents({}) = [b \in DOMAIN hourly |-> hourly[b] + Cardinality({})]
    BY <2>1 DEF IngestEvents, UpsertHourly
  <2>3. \A b \in DOMAIN hourly : hourly[b] + Cardinality({}) = hourly[b]
    BY FS_EmptySet DEF HourlyInv
  <2> QED BY <2>2, <2>3 DEF HourlyInv, IsTable
<1>4. /\ IsTable(hourly') /\ DOMAIN hourly' \subseteq DOMAIN hourly
      /\ \A b \in DOMAIN hourly' : hourly'[b] = hourly[b]
  BY <1>2, <1>3 DEF RunAggregation, PurgeOlderThan, Restrict, IsTable, HourlyInv
<1>5. IsFiniteSet(DOMAIN hourly')
  BY <1>4, FS_Subset DEF HourlyInv
<1>6. \A b : Handled(b)' = Handled(b)
  BY <1>1 DEF Handled, Bucket
<1>7. \A e : IsEvaluation(e)' <=> IsEvaluation(e)
  BY <1>1 DEF IsEvaluation
<1> QED BY <1>1, <1>4, <1>5, <1>6, <1>7 DEF HourlyInv

(* Every step of the rules, the engine and the analytics keeps the counts.  *)
LEMMA HourlyStep ==
    ASSUME HourlyInv, [RulesNext]_rulesVars
    PROVE  HourlyInv'
<1>1. ASSUME UNCHANGED <<ruleLog, hourly>>,
             \A f, g \in evaluation' : f = g,
             \A f \in evaluation' : IsEvaluation(f)',
             \A f \in evaluation' : f.publishing = 0 \/
                 \E e \in evaluation : f.publishing = e.publishing
      PROVE  HourlyInv'
  <2>1. \A b \in DOMAIN hourly : Handled(b) \subseteq Handled(b)'
    <3>1. PICK n \in Nat : DOMAIN ruleLog = 1..n
      BY DEF HourlyInv
    <3> QED BY <1>1, <3>1 DEF Handled, Bucket
  <2>2. /\ \E n \in Nat : DOMAIN ruleLog' = 1..n
        /\ \A i \in DOMAIN ruleLog' : ruleLog'[i].channel \in RuleChannels
    BY <1>1 DEF HourlyInv
  <2> QED BY <1>1, <2>1, <2>2, CountsKept
<1>2. ASSUME UNCHANGED <<ruleLog, hourly, evaluation>> PROVE HourlyInv'
  BY <1>1, <1>2 DEF HourlyInv, IsEvaluation
<1>3. ASSUME NEW t \in RuleCallers,
              \/ UpdateRule(t) \/ DeleteRule(t) \/ ReloadChannel(t) \/ SwapEvaluators(t)
              \/ \E ch \in RuleChannels, enabled \in BOOLEAN : CreateRule(t, ch, enabled)
              \/ \E id \in DOMAIN ruleRows :
                    \/ HandleDeleteRule(t, id)
                    \/ \E enabled \in BOOLEAN : HandleUpdateRule(t, id, enabled)
      PROVE  HourlyInv'
  BY <1>2, <1>3 DEF UpdateRule, DeleteRule, ReloadChannel, SwapEvaluators, CreateRule,
     HandleDeleteRule, HandleUpdateRule, BeginCall, analyticsVars
<1>4. ASSUME NEW ch \in RuleChannels, EvaluateBegin(ch) PROVE HourlyInv'
  <2>1. PICK l, stamp : evaluation' = {[channel |-> ch, stamp |-> stamp,
                                        publishing |-> 0, left |-> l]}
    BY <1>4 DEF EvaluateBegin
  <2>2. UNCHANGED <<ruleLog, hourly>>
    BY <1>4 DEF EvaluateBegin, analyticsVars
  <2> QED BY <1>1, <2>1, <2>2 DEF IsEvaluation
<1>5. CASE EvaluateQuiet
  <2>1. PICK e \in evaluation : evaluation' = {[e EXCEPT !.left = @ \ {Min(@)}]}
                                  /\ UNCHANGED <<ruleLog, hourly>>
    BY <1>5 DEF EvaluateQuiet, analyticsVars
  <2>2. IsEvaluation(e)
    BY DEF HourlyInv
  <2> DEFINE m == e.left \ {Min(e.left)}
  <2>5. [e EXCEPT !.left = @ \ {Min(@)}] = [e EXCEPT !.left = m]
    OBVIOUS
  <2> HIDE DEF m
  <2>6. [e EXCEPT !.left = m] = [channel |-> e.channel, stamp |-> e.stamp,
                                 publishing |-> e.publishing, left |-> m]
    BY <2>2 DEF IsEvaluation
  <2>3. PICK l : [e EXCEPT !.left = @ \ {Min(@)}]
                   = [channel |-> e.channel, stamp |-> e.stamp,
                      publishing |-> e.publishing, left |-> l]
    BY <2>5, <2>6
  <2> QED BY <1>1, <2>1, <2>2, <2>3 DEF IsEvaluation
<1>6. CASE EvaluateEnd \/ RulesRestart
  <2>1. evaluation' = {} /\ UNCHANGED <<ruleLog, hourly>>
    BY <1>6 DEF EvaluateEnd, RulesRestart, analyticsVars
  <2> QED BY <1>1, <2>1
<1>7. CASE RuleTick \/ UNCHANGED rulesVars
  BY <1>2, <1>7 DEF RuleTick, rulesVars, analyticsVars
<1> QED BY <1>3, <1>4, <1>5, <1>6, <1>7, LogCounts, PublishCounts, AggregationCounts
     DEF RulesNext

(* The reports.                                                             *)
LEMMA ReportsAgree ==
    ASSUME HourlyInv, NEW ch, NEW start, NEW end, NEW hours
    PROVE  LET total == GetSummary(ch, start, end).total_events
           IN  /\ SumFunction(GetTrends(ch, start, end, hours)) = total
               /\ SumFunction(GetPeakHours(ch, start, end, hours)) = total
<1> DEFINE found == QueryHourly(ch, start, end)
           total == SumFunctionOnSet(hourly, found)
<1>1. IsFiniteSet(found) /\ \A b \in found : hourly[b] \in Nat
  <2>1. found \subseteq DOMAIN hourly
    BY DEF QueryHourly
  <2> QED BY <2>1, FS_Subset DEF HourlyInv
<1> HIDE DEF found
<1>2. ASSUME NEW K, NEW key \in [found -> K], K = {key[b] : b \in found}
      PROVE  LET part == [k \in K |->
                            SumFunctionOnSet(hourly, {b \in found : key[b] = k})]
             IN  SumFunction(part) = total
  <2> DEFINE part == [k \in K |-> SumFunctionOnSet(hourly, {b \in found : key[b] = k})]
  <2>1. IsFiniteSet(K)
    <3>1. key \in Surjection(found, K)
      BY <1>2 DEF Surjection
    <3> QED BY <1>1, <3>1, FS_Surjection
  <2>2. SumFunctionOnSet(part, K) = total
    BY <1>1, <2>1, SumByKey
  <2>3. DOMAIN part = K
    OBVIOUS
  <2> QED BY <2>2, <2>3 DEF SumFunction
<1>3. SumFunction(GetTrends(ch, start, end, hours)) = total
  <2> DEFINE key == [b \in found |-> (b[1] \div hours) * hours]
             K == {key[b] : b \in found}
             part == [k \in K |-> SumFunctionOnSet(hourly, {b \in found : key[b] = k})]
  <2>1. key \in [found -> K]
    OBVIOUS
  <2>2. K = {(b[1] \div hours) * hours : b \in found}
    OBVIOUS
  <2>3. \A k : {b \in found : key[b] = k} = {b \in found : (b[1] \div hours) * hours = k}
    OBVIOUS
  <2>4. GetTrends(ch, start, end, hours) = part
    BY <2>2, <2>3 DEF GetTrends, TotalOf, found
  <2> HIDE DEF key
  <2>5. SumFunction(part) = total
    BY <1>2, <2>1
  <2> QED BY <2>4, <2>5
<1>4. SumFunction(GetPeakHours(ch, start, end, hours)) = total
  <2> DEFINE key == [b \in found |-> b[1] % hours]
             K == {key[b] : b \in found}
             part == [k \in K |-> SumFunctionOnSet(hourly, {b \in found : key[b] = k})]
  <2>1. key \in [found -> K]
    OBVIOUS
  <2>2. K = {b[1] % hours : b \in found}
    OBVIOUS
  <2>3. \A k : {b \in found : key[b] = k} = {b \in found : b[1] % hours = k}
    OBVIOUS
  <2>4. GetPeakHours(ch, start, end, hours) = part
    BY <2>2, <2>3 DEF GetPeakHours, TotalOf, found
  <2> HIDE DEF key
  <2>5. SumFunction(part) = total
    BY <1>2, <2>1
  <2> QED BY <2>4, <2>5
<1>5. GetSummary(ch, start, end).total_events = total
  BY DEF GetSummary, TotalOf, found
<1> QED BY <1>3, <1>4, <1>5

(* However evaluations, aggregation runs, purges and restarts come,           *)
(* GetSummary, GetTrends and GetPeakHours report one total, and no hour      *)
(* counts more events than were reported in it, logged or not.              *)
THEOREM CountsAlwaysAgree == RulesSpec => []CountsAgree
<1>1. RulesInit => HourlyInv
  <2> SUFFICES ASSUME RulesInit PROVE HourlyInv
    OBVIOUS
  <2>1. /\ DOMAIN ruleLog = {} /\ DOMAIN hourly = {} /\ evaluation = {}
        /\ IsTable(hourly)
    BY DEF RulesInit, IsTable
  <2>2. DOMAIN ruleLog = 1..0
    BY <2>1
  <2> QED BY <2>1, <2>2, FS_EmptySet DEF HourlyInv
<1>2. HourlyInv /\ [RulesNext]_rulesVars => HourlyInv'
  BY HourlyStep
<1>3. HourlyInv => CountsAgree
  <2> SUFFICES ASSUME HourlyInv PROVE CountsAgree
    OBVIOUS
  <2>1. ASSUME NEW b \in DOMAIN hourly
        PROVE  hourly[b] <= Cardinality({i \in DOMAIN ruleLog : Bucket(ruleLog[i]) = b})
    <3> DEFINE all == {i \in DOMAIN ruleLog : Bucket(ruleLog[i]) = b}
    <3>1. PICK n \in Nat : DOMAIN ruleLog = 1..n
      BY DEF HourlyInv
    <3>2. IsFiniteSet(1..n) /\ all \subseteq 1..n /\ Handled(b) \subseteq all
      BY <3>1, FS_Interval DEF Handled
    <3> HIDE DEF all
    <3>3. IsFiniteSet(all) /\ Cardinality(all) \in Nat
      BY <3>2, FS_Subset, FS_CardinalityType
    <3>4. Cardinality(Handled(b)) =< Cardinality(all)
      BY <3>2, <3>3, FS_Subset
    <3>5. hourly[b] \in Nat /\ hourly[b] =< Cardinality(Handled(b))
      BY DEF HourlyInv
    <3>6. hourly[b] <= Cardinality(all)
      BY <3>3, <3>4, <3>5, HandledFinite
    <3> QED BY <3>6 DEF all
  <2> QED BY <2>1, ReportsAgree DEF CountsAgree
<1> QED BY <1>1, <1>2, <1>3, PTL DEF RulesSpec

-----------------------------------------------------------------------------
(* Users, tokens and the login lock.                                        *)

(* What a field of a request body, or the column it leaves alone, holds.    *)
LEMMA OrElseType ==
    ASSUME NEW S, NEW optional \in Optional(S), NEW default \in S
    PROVE  OrElse(optional, default) \in S
<1>1. CASE optional = {}
  BY <1>1 DEF OrElse
<1>2. CASE optional # {}
  <2>1. PICK v \in S : optional = {v}
    BY <1>2 DEF Optional
  <2>2. (CHOOSE w \in optional : TRUE) \in optional
    BY <2>1
  <2> QED
    BY <1>2, <2>1, <2>2 DEF OrElse
<1> QED
  BY <1>1, <1>2

(* The program point of a thread says which request it serves.              *)
LEMMA RequestAt ==
    ASSUME NEW r \in Requests
    PROVE  /\ r.pc = "authenticate" => r \in Authenticating
           /\ r.pc = "failure" => r \in Failing
           /\ r.pc \in {"success", "token"} => r \in LoggedIn
           /\ r.pc \in {"old", "change", "clear"} => r \in Changing
           /\ r.pc \in {"byName", "insert"} => r \in Creating
           /\ r.pc \in {"getUser", "update", "reset"} => r \in Updating
           /\ r.pc = "delete" => r \in Deleting
BY DEF Requests, Idle, Authenticating, Failing, LoggedIn, Reading, Changing,
       Creating, Updating, Deleting

-----------------------------------------------------------------------------
(* Types.                                                                   *)

(* A handler that goes to its next store call keeps its request's kind.     *)
LEMMA GotoType ==
    ASSUME AccessTypeOK, NEW t \in HttpThreads, NEW pc, Goto(t, pc),
           [call[t] EXCEPT !.pc = pc] \in Requests
    PROVE  call' \in [HttpThreads -> Requests]
BY DEF AccessTypeOK, Goto

(* A handler that answers is idle again.                                    *)
LEMMA ReturnType ==
    ASSUME AccessTypeOK, NEW t \in HttpThreads, Return(t)
    PROVE  call' \in [HttpThreads -> Requests]
BY DEF AccessTypeOK, Return, Requests

(* Entries of the login table.                                              *)
LEMMA AfterFailureType ==
    ASSUME NEW e \in [failed_count : Nat, first_failure : Nat, locked_until : Nat],
           now \in Nat
    PROVE  /\ AfterFailure(e) \in [failed_count : Nat, first_failure : Nat,
                                   locked_until : Nat]
           /\ AfterFailure(e).failed_count <= e.failed_count + 1
<1> DEFINE count == IF now - e.first_failure >= kLoginLockoutMinutes
                    THEN 0 ELSE e.failed_count
<1>1. count \in Nat /\ count <= e.failed_count
  OBVIOUS
<1>2. AfterFailure(e) =
        [failed_count  |-> count + 1,
         first_failure |-> IF count = 0 THEN now ELSE e.first_failure,
         locked_until  |-> IF count + 1 >= kMaxLoginAttempts
                           THEN now + kLoginLockoutMinutes
                           ELSE e.locked_until]
  BY DEF AfterFailure
<1> HIDE DEF count
<1> QED
  BY <1>1, <1>2, AccessAssumption

(* The service starts with the default admin and no attempts.               *)
LEMMA AccessInitType == AccessInit => AccessTypeOK
BY AccessAssumption DEF AccessInit, AccessTypeOK, CreateDefaultAdmin, Row, Rows,
   Roles, Ids, NoAttempts, Requests

(* Logins.                                                                  *)
LEMMA LoginType ==
    ASSUME AccessTypeOK, NEW t \in HttpThreads, LoginStep(t)
    PROVE  AccessTypeOK'
<1> USE AccessAssumption
<1>1. ASSUME NEW ip \in Ips, NEW c \in Credentials, HandleLogin(t, ip, c[1], c[2])
      PROVE  AccessTypeOK'
  <2>1. login_attempts_' \in [Ips -> [failed_count : Nat, first_failure : Nat,
                                      locked_until : Nat]]
    BY <1>1 DEF HandleLogin, AccessTypeOK, Unlocked, NoAttempts
  <2>2. [pc |-> "authenticate", ip |-> ip, username |-> c[1], password |-> c[2]]
            \in Requests
    BY DEF Requests, Authenticating
  <2>3. call' \in [HttpThreads -> Requests]
    BY <1>1, <2>2 DEF HandleLogin, AccessTypeOK
  <2> QED
    BY <1>1, <2>1, <2>3 DEF HandleLogin, AccessTypeOK, userVars
<1>2. ASSUME LoginAuthenticate(t) PROVE AccessTypeOK'
  <2> DEFINE found == Authenticate(call[t].username, call[t].password)
  <2>1. call[t] \in Authenticating
    BY <1>2, RequestAt DEF LoginAuthenticate, AccessTypeOK
  <2>2. CASE found = {}
    <3>1. [pc |-> "failure", ip |-> call[t].ip] \in Requests
      BY <2>1 DEF Authenticating, Requests, Failing
    <3>2. call' \in [HttpThreads -> Requests]
      BY <1>2, <2>2, <3>1 DEF LoginAuthenticate, AccessTypeOK
    <3> QED
      BY <1>2, <3>2 DEF LoginAuthenticate, AccessTypeOK, userVars
  <2>3. CASE found # {}
    <3> DEFINE id == CHOOSE i \in found : TRUE
    <3>1. id \in found
      BY <2>3
    <3>2. id \in Ids /\ users[id] \in Rows
      BY <3>1 DEF Authenticate, AccessTypeOK
    <3>3. [pc |-> "success", ip |-> call[t].ip, user_id |-> id,
           username |-> users[id].username, role |-> users[id].role] \in Requests
      BY <2>1, <3>2 DEF Authenticating, Requests, LoggedIn, Rows
    <3>4. call' \in [HttpThreads -> Requests]
      BY <1>2, <2>3, <3>3 DEF LoginAuthenticate, AccessTypeOK
    <3> QED
      BY <1>2, <3>4 DEF LoginAuthenticate, AccessTypeOK, userVars
  <2> QED
    BY <2>2, <2>3
<1>3. ASSUME RecordLoginFailure(t) PROVE AccessTypeOK'
  <2>1. login_attempts_' \in [Ips -> [failed_count : Nat, first_failure : Nat,
                                      locked_until : Nat]]
    <3>1. \A ip \in Ips : AfterFailure(login_attempts_[ip]) \in
             [failed_count : Nat, first_failure : Nat, locked_until : Nat]
      BY AfterFailureType DEF AccessTypeOK
    <3> QED
      BY <1>3, <3>1 DEF RecordLoginFailure, AccessTypeOK
  <2> QED
    BY <1>3, <2>1, ReturnType DEF RecordLoginFailure, AccessTypeOK, userVars
<1>4. ASSUME RecordLoginSuccess(t) PROVE AccessTypeOK'
  <2>1. login_attempts_' \in [Ips -> [failed_count : Nat, first_failure : Nat,
                                      locked_until : Nat]]
    BY <1>4 DEF RecordLoginSuccess, AccessTypeOK, NoAttempts
  <2>2. call[t] \in LoggedIn
    BY <1>4, RequestAt DEF RecordLoginSuccess, AccessTypeOK
  <2>3. [call[t] EXCEPT !.pc = "token"] \in Requests
    BY <2>2 DEF LoggedIn, Requests
  <2> QED
    BY <1>4, <2>1, <2>3, GotoType DEF RecordLoginSuccess, AccessTypeOK, userVars
<1>5. ASSUME GenerateToken(t) PROVE AccessTypeOK'
  <2>1. call[t] \in LoggedIn
    BY <1>5, RequestAt DEF GenerateToken, AccessTypeOK
  <2>2. tokens' \subseteq Claims
    BY <1>5, <2>1 DEF GenerateToken, AccessTypeOK, LoggedIn, Claims
  <2> QED
    BY <1>5, <2>2, ReturnType DEF GenerateToken, AccessTypeOK, userVars
<1> QED
  BY <1>1, <1>2, <1>3, <1>4, <1>5 DEF LoginStep

(* A request that was accepted is stored with its thread.                   *)
LEMMA AcceptType ==
    ASSUME AccessTypeOK, NEW t \in HttpThreads, NEW token, NEW method, NEW path,
           NEW request \in Requests, Accept(t, token, method, path, request)
    PROVE  AccessTypeOK'
BY AccessAssumption DEF Accept, AccessTypeOK, userVars

(* A user's own requests.                                                   *)
LEMMA PasswordType ==
    ASSUME AccessTypeOK, NEW t \in HttpThreads, PasswordStep(t)
    PROVE  AccessTypeOK'
<1> USE AccessAssumption
<1>1. ASSUME NEW token \in tokens, NEW path, HandleRead(t, token, path)
      PROVE  AccessTypeOK'
  <2>1. [pc |-> "read"] \in Requests
    BY DEF Requests, Reading
  <2> QED
    BY <1>1, <2>1, AcceptType DEF HandleRead
<1>2. ASSUME ReadStore(t) PROVE AccessTypeOK'
  BY <1>2, ReturnType DEF ReadStore, AccessTypeOK, userVars
<1>3. ASSUME NEW token \in tokens, NEW c \in Changes,
             HandleChangePassword(t, token, c[1], c[2])
      PROVE  AccessTypeOK'
  <2>1. token \in Claims /\ {c[2]} \in Optional(Passwords) /\ c[1] \in Passwords
    BY DEF AccessTypeOK, Optional
  <2>2. [pc |-> "old", user_id |-> token.user_id, username |-> token.username,
         old |-> c[1], new |-> {c[2]}] \in Requests
    BY <2>1 DEF Requests, Changing, Claims
  <2> QED
    BY <1>3, <2>2, AcceptType DEF HandleChangePassword
<1>4. ASSUME CheckOldPassword(t) PROVE AccessTypeOK'
  <2>1. call[t] \in Changing
    BY <1>4, RequestAt DEF CheckOldPassword, AccessTypeOK
  <2>2. [call[t] EXCEPT !.pc = "change"] \in Requests
    BY <2>1 DEF Changing, Requests
  <2> QED
    BY <1>4, <2>2, GotoType, ReturnType DEF CheckOldPassword, AccessTypeOK, userVars
<1>5. ASSUME ChangePassword(t) PROVE AccessTypeOK'
  <2> DEFINE id == call[t].user_id
  <2>1. call[t] \in Changing \union Updating
    BY <1>5, RequestAt DEF ChangePassword, AccessTypeOK
  <2>2. call[t].new \in Optional(Passwords)
    BY <2>1 DEF Changing, Updating
  <2>3. call[t].pc = "change" => [call[t] EXCEPT !.pc = "clear"] \in Requests
    BY <2>1 DEF Changing, Updating, Requests
  <2>4. call' \in [HttpThreads -> Requests]
    BY <1>5, <2>3, GotoType, ReturnType DEF ChangePassword
  <2>5. DOMAIN users' = DOMAIN users /\ \A i \in DOMAIN users' : users'[i] \in Rows
    <3>1. CASE id \in DOMAIN users
      <4>1. users[id] \in Rows
        BY <3>1 DEF AccessTypeOK
      <4>2. OrElse(call[t].new, users[id].password) \in Passwords
        BY <2>2, <4>1, OrElseType DEF Rows
      <4> HIDE DEF OrElse
      <4>3. [users[id] EXCEPT !.password = OrElse(call[t].new, users[id].password)]
               \in Rows
        BY <4>1, <4>2 DEF Rows
      <4>4. users' = [users EXCEPT ![id] =
               [users[id] EXCEPT !.password = OrElse(call[t].new, users[id].password)]]
        BY <1>5, <3>1 DEF ChangePassword
      <4> QED
        BY <4>3, <4>4 DEF AccessTypeOK
    <3>2. CASE id \notin DOMAIN users
      BY <1>5, <3>2 DEF ChangePassword, AccessTypeOK
    <3> QED
      BY <3>1, <3>2
  <2> QED
    BY <1>5, <2>4, <2>5 DEF ChangePassword, AccessTypeOK
<1>6. ASSUME ClearMustChangePassword(t) PROVE AccessTypeOK'
  <2>1. DOMAIN users' = DOMAIN users /\ \A i \in DOMAIN users' : users'[i] \in Rows
    BY <1>6 DEF ClearMustChangePassword, AccessTypeOK, Rows
  <2> QED
    BY <1>6, <2>1, ReturnType DEF ClearMustChangePassword, AccessTypeOK
<1> QED
  BY <1>1, <1>2, <1>3, <1>4, <1>5, <1>6 DEF PasswordStep

(* A row inserted at the next id leaves the other rows where they are.      *)
LEMMA InsertType ==
    ASSUME AccessTypeOK, NEW row \in Rows, nextId <= MaxUsers,
           users' = Insert(AutoIncrement, row), nextId' = AutoIncrement + 1
    PROVE  /\ DOMAIN users' = DOMAIN users \union {nextId}
           /\ DOMAIN users' \subseteq Ids
           /\ \A i \in DOMAIN users' : users'[i] \in Rows /\ i < nextId'
           /\ nextId' \in 1..(MaxUsers + 1)
BY AccessAssumption DEF AccessTypeOK, Insert, AutoIncrement, Ids

(* Requests of an administrator.                                            *)
LEMMA UsersType ==
    ASSUME AccessTypeOK, NEW t \in HttpThreads, UsersStep(t)
    PROVE  AccessTypeOK'
<1> USE AccessAssumption
<1>1. ASSUME NEW token \in tokens, NEW u \in NewUsers,
             HandleCreateUser(t, token, u.username, u.password, u.role)
      PROVE  AccessTypeOK'
  <2>1. [pc |-> "byName", username |-> u.username, password |-> u.password,
         role |-> u.role] \in Requests
    BY DEF Requests, Creating
  <2> QED
    BY <1>1, <2>1, AcceptType DEF HandleCreateUser
<1>2. ASSUME CheckNameFree(t) PROVE AccessTypeOK'
  <2>1. call[t] \in Creating
    BY <1>2, RequestAt DEF CheckNameFree, AccessTypeOK
  <2>2. [call[t] EXCEPT !.pc = "insert"] \in Requests
    BY <2>1 DEF Creating, Requests
  <2> QED
    BY <1>2, <2>2, GotoType, ReturnType DEF CheckNameFree, AccessTypeOK, userVars
<1>3. ASSUME CreateUser(t) PROVE AccessTypeOK'
  <2>1. call[t] \in Creating
    BY <1>3, RequestAt DEF CreateUser, AccessTypeOK
  <2>2. Row(call[t].username, call[t].password, call[t].role, FALSE) \in Rows
    BY <2>1 DEF Creating, Row, Rows
  <2>3. call' \in [HttpThreads -> Requests]
    BY <1>3, ReturnType DEF CreateUser
  <2>4. CASE CanInsert(call[t].username)
    <3>1. /\ DOMAIN users' \subseteq Ids
          /\ \A i \in DOMAIN users' : users'[i] \in Rows /\ i < nextId'
          /\ nextId' \in 1..(MaxUsers + 1)
      BY <1>3, <2>2, <2>4, InsertType DEF CreateUser, CanInsert
    <3> QED
      BY <1>3, <2>3, <3>1 DEF CreateUser, AccessTypeOK
  <2>5. CASE ~CanInsert(call[t].username)
    BY <1>3, <2>3, <2>5 DEF CreateUser, AccessTypeOK, userVars
  <2> QED
    BY <2>4, <2>5
<1>4. ASSUME NEW token \in tokens, NEW id \in Ids, NEW b \in Bodies,
             HandleUpdateUser(t, token, id, b.role, b.enabled, b.password)
      PROVE  AccessTypeOK'
  <2>1. [pc |-> "getUser", user_id |-> id, setRole |-> b.role,
         setEnabled |-> b.enabled, new |-> b.password] \in Requests
    BY DEF Requests, Updating
  <2> QED
    BY <1>4, <2>1, AcceptType DEF HandleUpdateUser
<1>5. ASSUME GetUserForUpdate(t) PROVE AccessTypeOK'
  <2> DEFINE row == users[call[t].user_id]
  <2>1. call[t] \in Updating
    BY <1>5, RequestAt DEF GetUserForUpdate, AccessTypeOK
  <2>2. CASE call[t].user_id \notin DOMAIN users
    BY <1>5, <2>2, ReturnType DEF GetUserForUpdate, AccessTypeOK, userVars
  <2>3. CASE call[t].user_id \in DOMAIN users
    <3> DEFINE role == OrElse(call[t].setRole, row.role)
               enabled == OrElse(call[t].setEnabled, row.enabled)
    <3>1. row \in Rows
      BY <2>3 DEF AccessTypeOK
    <3>2. role \in Roles
      BY <2>1, <3>1, OrElseType DEF Updating, Rows
    <3>3. enabled \in BOOLEAN
      BY <2>1, <3>1, OrElseType DEF Updating, Rows
    <3>4. call' = [call EXCEPT ![t] = [call[t] EXCEPT !.pc = "update",
                         !.setRole = {role}, !.setEnabled = {enabled}]]
      BY <1>5, <2>3 DEF GetUserForUpdate
    <3>5. {role} \in Optional(Roles) /\ {enabled} \in Optional(BOOLEAN)
      BY <3>2, <3>3 DEF Optional
    <3> HIDE DEF role, enabled
    <3>6. [call[t] EXCEPT !.pc = "update", !.setRole = {role},
                          !.setEnabled = {enabled}] \in Requests
      BY <2>1, <3>5 DEF Updating, Requests
    <3> QED
      BY <1>5, <3>4, <3>6 DEF GetUserForUpdate, AccessTypeOK, userVars
  <2> QED
    BY <2>2, <2>3
<1>6. ASSUME UpdateUser(t) PROVE AccessTypeOK'
  <2> DEFINE id == call[t].user_id
  <2>1. call[t] \in Updating
    BY <1>6, RequestAt DEF UpdateUser, AccessTypeOK
  <2>2. [call[t] EXCEPT !.pc = "reset"] \in Requests
    BY <2>1 DEF Updating, Requests
  <2>3. call' \in [HttpThreads -> Requests]
    BY <1>6, <2>2, GotoType, ReturnType DEF UpdateUser
  <2>4. DOMAIN users' = DOMAIN users /\ \A i \in DOMAIN users' : users'[i] \in Rows
    <3>1. CASE id \in DOMAIN users
      <4> DEFINE role == OrElse(call[t].setRole, users[id].role)
                 enabled == OrElse(call[t].setEnabled, users[id].enabled)
      <4>1. users[id] \in Rows
        BY <3>1 DEF AccessTypeOK
      <4>2. role \in Roles
        BY <2>1, <4>1, OrElseType DEF Updating, Rows
      <4>3. enabled \in BOOLEAN
        BY <2>1, <4>1, OrElseType DEF Updating, Rows
      <4>4. users' = [users EXCEPT ![id] = [users[id] EXCEPT !.role = role,
                                                           !.enabled = enabled]]
        BY <1>6, <3>1 DEF UpdateUser
      <4> HIDE DEF role, enabled
      <4>5. [users[id] EXCEPT !.role = role, !.enabled = enabled] \in Rows
        BY <4>1, <4>2, <4>3 DEF Rows
      <4> QED
        BY <4>4, <4>5 DEF AccessTypeOK
    <3>2. CASE id \notin DOMAIN users
      BY <1>6, <3>2 DEF UpdateUser, AccessTypeOK
    <3> QED
      BY <3>1, <3>2
  <2> QED
    BY <1>6, <2>3, <2>4 DEF UpdateUser, AccessTypeOK
<1>7. ASSUME NEW token \in tokens, NEW id \in Ids, HandleDeleteUser(t, token, id)
      PROVE  AccessTypeOK'
  <2>1. [pc |-> "delete", user_id |-> id] \in Requests
    BY DEF Requests, Deleting
  <2> QED
    BY <1>7, <2>1, AcceptType DEF HandleDeleteUser
<1>8. ASSUME DeleteRow(t) PROVE AccessTypeOK'
  <2>1. DOMAIN users' \subseteq DOMAIN users /\ \A i \in DOMAIN users' : users'[i] \in Rows
    BY <1>8 DEF DeleteRow, AccessTypeOK
  <2> QED
    BY <1>8, <2>1, ReturnType DEF DeleteRow, AccessTypeOK
<1> QED
  BY <1>1, <1>2, <1>3, <1>4, <1>5, <1>6, <1>7, <1>8 DEF UsersStep

(* A restart keeps the tables, or makes the default account.                *)
LEMMA RestartType == AccessTypeOK /\ AccessRestart => AccessTypeOK'
<1> SUFFICES ASSUME AccessTypeOK, AccessRestart PROVE AccessTypeOK'
  OBVIOUS
<1>1. CreateDefaultAdmin \in Rows
  BY AccessAssumption DEF CreateDefaultAdmin, Row, Rows, Roles
<1>2. /\ DOMAIN users' \subseteq Ids
      /\ \A i \in DOMAIN users' : users'[i] \in Rows /\ i < nextId'
      /\ nextId' \in 1..(MaxUsers + 1)
  <2>1. CASE DOMAIN users = {} /\ nextId <= MaxUsers
    BY <1>1, <2>1, InsertType DEF AccessRestart
  <2>2. CASE ~(DOMAIN users = {} /\ nextId <= MaxUsers)
    BY <2>2 DEF AccessRestart, AccessTypeOK, userVars
  <2> QED
    BY <2>1, <2>2
<1>3. /\ call' \in [HttpThreads -> Requests]
      /\ login_attempts_' \in [Ips -> [failed_count : Nat, first_failure : Nat,
                                       locked_until : Nat]]
  BY DEF AccessRestart, Requests, NoAttempts
<1> QED
  BY <1>2, <1>3 DEF AccessRestart, AccessTypeOK

(* Every step of a request, a restart and the clock keep the types.         *)
LEMMA AccessTypeStep == AccessTypeOK /\ [AccessNext]_accessVars => AccessTypeOK'
<1> SUFFICES ASSUME AccessTypeOK, [AccessNext]_accessVars PROVE AccessTypeOK'
  OBVIOUS
<1>1. CASE AccessTick
  BY <1>1, AccessAssumption DEF AccessTick, AccessTypeOK, userVars
<1>2. CASE UNCHANGED accessVars
  BY <1>2 DEF accessVars, AccessTypeOK
<1> QED
  BY <1>1, <1>2, LoginType, PasswordType, UsersType, RestartType DEF AccessNext

(* Requests, rows, tokens and login entries are well formed whatever the    *)
(* handlers' store calls interleave with, restarts included.                *)
THEOREM AccessTypeCorrect == AccessSpec => []AccessTypeOK
BY AccessInitType, AccessTypeStep, PTL DEF AccessSpec

-----------------------------------------------------------------------------
(* Tokens.  An id that was given names one account for ever: it is not      *)
(* given again, and no handler changes the name of a row.                   *)

Denotes(id, name) ==
    id < nextId /\ (id \in DOMAIN users => users[id].username = name)

(* The same of a pair of values in the state after a step.                 *)
StillDenotes(id, name) ==
    id < nextId' /\ (id \in DOMAIN users' => users'[id].username = name)

TokensName == \A token \in tokens : Denotes(token.user_id, token.username)

(* A login in flight holds the pair its token will carry; the account may   *)
(* be deleted, and others created, before the token is made.                *)
LoginsName ==
    \A t \in HttpThreads : call[t].pc \in {"success", "token"} =>
        Denotes(call[t].user_id, call[t].username)

NamingInv == AccessTypeOK /\ TokensName /\ LoginsName

(* What every step leaves of the accounts that exist.                       *)
NamesStay ==
    /\ nextId <= nextId'
    /\ \A id \in DOMAIN users' : id < nextId =>
          id \in DOMAIN users /\ users'[id].username = users[id].username

(* No step gives an account another name or hands its id out again.         *)
LEMMA AccountsKeepNames ==
    ASSUME AccessTypeOK, [AccessNext]_accessVars
    PROVE  NamesStay
<1> USE AccessAssumption
<1>1. nextId \in Int
  BY DEF AccessTypeOK
<1>2. ASSUME UNCHANGED userVars PROVE NamesStay
  BY <1>1, <1>2 DEF NamesStay, userVars
<1>3. ASSUME NEW row, users' = Insert(AutoIncrement, row), nextId' = AutoIncrement + 1
      PROVE  NamesStay
  BY <1>1, <1>3 DEF NamesStay, Insert, AutoIncrement
<1>4. ASSUME NEW t \in HttpThreads, LoginStep(t) PROVE NamesStay
  BY <1>2, <1>4 DEF LoginStep, HandleLogin, LoginAuthenticate, RecordLoginFailure,
     RecordLoginSuccess, GenerateToken
<1>5. ASSUME NEW t \in HttpThreads, PasswordStep(t) PROVE NamesStay
  <2>1. CASE ChangePassword(t) \/ ClearMustChangePassword(t)
    <3>1. nextId' = nextId /\ DOMAIN users' = DOMAIN users
      BY <2>1 DEF ChangePassword, ClearMustChangePassword
    <3>2. ASSUME NEW id \in DOMAIN users
          PROVE  users'[id].username = users[id].username
      <4>1. users[id] \in Rows
        BY DEF AccessTypeOK
      <4> QED
        BY <2>1, <4>1 DEF ChangePassword, ClearMustChangePassword, Rows
    <3> QED
      BY <1>1, <3>1, <3>2 DEF NamesStay
  <2> QED
    BY <1>2, <1>5, <2>1 DEF PasswordStep, HandleRead, ReadStore,
       HandleChangePassword, CheckOldPassword, Accept
<1>6. ASSUME NEW t \in HttpThreads, UsersStep(t) PROVE NamesStay
  <2>1. CASE CreateUser(t)
    BY <1>2, <1>3, <2>1 DEF CreateUser
  <2>2. CASE UpdateUser(t)
    <3>1. nextId' = nextId /\ DOMAIN users' = DOMAIN users
      BY <2>2 DEF UpdateUser
    <3>2. ASSUME NEW id \in DOMAIN users
          PROVE  users'[id].username = users[id].username
      <4>1. users[id] \in Rows
        BY DEF AccessTypeOK
      <4> QED
        BY <2>2, <4>1 DEF UpdateUser, Rows
    <3> QED
      BY <1>1, <3>1, <3>2 DEF NamesStay
  <2>3. CASE DeleteRow(t)
    BY <1>1, <2>3 DEF DeleteRow, NamesStay
  <2> QED
    BY <1>2, <1>6, <2>1, <2>2, <2>3 DEF UsersStep, HandleCreateUser,
       CheckNameFree, HandleUpdateUser, GetUserForUpdate, HandleDeleteUser, Accept
<1>7. CASE AccessTick
  BY <1>2, <1>7 DEF AccessTick
<1>8. CASE AccessRestart
  BY <1>2, <1>3, <1>8 DEF AccessRestart
<1>9. CASE UNCHANGED accessVars
  BY <1>2, <1>9 DEF accessVars, userVars
<1> QED
  BY <1>4, <1>5, <1>6, <1>7, <1>8, <1>9 DEF AccessNext

(* A pair of id and name that was right stays right.                        *)
LEMMA NamingStays ==
    ASSUME AccessTypeOK, AccessTypeOK', NamesStay, NEW id \in Ids, NEW name,
           Denotes(id, name)
    PROVE  StillDenotes(id, name)
BY AccessAssumption DEF Denotes, StillDenotes, NamesStay, AccessTypeOK, Ids

(* Where new tokens and new pairs in flight come from.                      *)
LEMMA TokensComeFromLogins ==
    ASSUME AccessTypeOK, [AccessNext]_accessVars
    PROVE  \/ tokens' = tokens
           \/ \E t \in HttpThreads, when \in Int :
                /\ call[t].pc = "token"
                /\ tokens' = tokens \union
                     {[user_id |-> call[t].user_id, username |-> call[t].username,
                       role |-> call[t].role, expires_at |-> when]}
<1>1. now + expiry_seconds_ \in Int
  BY AccessAssumption DEF AccessTypeOK
<1>2. ASSUME NEW t \in HttpThreads, GenerateToken(t)
      PROVE  \E u \in HttpThreads, when \in Int :
                /\ call[u].pc = "token"
                /\ tokens' = tokens \union
                     {[user_id |-> call[u].user_id, username |-> call[u].username,
                       role |-> call[u].role, expires_at |-> when]}
  BY <1>1, <1>2 DEF GenerateToken
<1> QED
  BY <1>2 DEF AccessNext, LoginStep, PasswordStep, UsersStep, HandleLogin,
     LoginAuthenticate, RecordLoginFailure, RecordLoginSuccess, HandleRead,
     ReadStore, HandleChangePassword, CheckOldPassword, ChangePassword,
     ClearMustChangePassword, HandleCreateUser, CheckNameFree, CreateUser,
     HandleUpdateUser, GetUserForUpdate, UpdateUser, HandleDeleteUser, DeleteRow,
     Accept, AccessTick, AccessRestart, accessVars

(* A login that got past the password check carries a row's id and name.    *)
LEMMA PairsComeFromRows ==
    ASSUME AccessTypeOK, [AccessNext]_accessVars, NEW u \in HttpThreads,
           call'[u].pc \in {"success", "token"}
    PROVE  \/ /\ call[u].pc \in {"success", "token"}
              /\ call'[u].user_id = call[u].user_id
              /\ call'[u].username = call[u].username
           \/ /\ call'[u].user_id \in DOMAIN users
              /\ call'[u].username = users[call'[u].user_id].username
<1> DEFINE Goal == \/ /\ call[u].pc \in {"success", "token"}
                      /\ call'[u].user_id = call[u].user_id
                      /\ call'[u].username = call[u].username
                   \/ /\ call'[u].user_id \in DOMAIN users
                      /\ call'[u].username = users[call'[u].user_id].username
<1> USE AccessAssumption
<1>1. call[u] \in Requests
  BY DEF AccessTypeOK
<1>2. ASSUME call'[u] = call[u] PROVE Goal
  BY <1>2
<1>3. ASSUME NEW t \in HttpThreads, Return(t) PROVE Goal
  BY <1>2, <1>3 DEF Return, Idle, AccessTypeOK
<1>4. ASSUME NEW t \in HttpThreads, NEW pc, Goto(t, pc),
             pc \notin {"success", "token"} \/ call[t] \in LoggedIn
      PROVE  Goal
  <2>1. CASE u = t
    <3>1. call[t] \in Requests => "pc" \in DOMAIN call[t]
      BY DEF Requests, Idle, Authenticating, Failing, LoggedIn, Reading, Changing,
         Creating, Updating, Deleting
    <3>2. call'[u] = [call[t] EXCEPT !.pc = pc]
      BY <1>4, <2>1 DEF Goto, AccessTypeOK
    <3>3. call'[u].pc = pc
      BY <1>1, <2>1, <3>1, <3>2
    <3>4. call[t] \in LoggedIn
      BY <1>4, <3>3
    <3> QED
      BY <2>1, <3>2, <3>4 DEF LoggedIn
  <2>2. CASE u # t
    BY <1>2, <1>4, <2>2 DEF Goto, AccessTypeOK
  <2> QED
    BY <2>1, <2>2
<1>5. ASSUME NEW t \in HttpThreads, NEW r, r.pc \notin {"success", "token"},
             call' = [call EXCEPT ![t] = r]
      PROVE  Goal
  BY <1>2, <1>5 DEF AccessTypeOK
<1>6. ASSUME NEW t \in HttpThreads, LoginAuthenticate(t) PROVE Goal
  <2> DEFINE found == Authenticate(call[t].username, call[t].password)
             id == CHOOSE i \in found : TRUE
  <2>1. CASE found = {}
    BY <1>5, <1>6, <2>1 DEF LoginAuthenticate
  <2>2. CASE found # {}
    <3>1. id \in DOMAIN users
      BY <2>2 DEF Authenticate
    <3>2. call' = [call EXCEPT ![t] =
             [pc |-> "success", ip |-> call[t].ip, user_id |-> id,
              username |-> users[id].username, role |-> users[id].role]]
      BY <1>6, <2>2 DEF LoginAuthenticate
    <3> HIDE DEF id
    <3> QED
      BY <1>2, <3>1, <3>2 DEF AccessTypeOK
  <2> QED
    BY <2>1, <2>2
<1>7. ASSUME NEW t \in HttpThreads, LoginStep(t) PROVE Goal
  <2>1. CASE RecordLoginSuccess(t)
    BY <1>4, <2>1, RequestAt DEF RecordLoginSuccess, AccessTypeOK
  <2>2. ASSUME NEW ip \in Ips, NEW c \in Credentials, HandleLogin(t, ip, c[1], c[2])
        PROVE  Goal
    BY <1>2, <1>5, <2>2 DEF HandleLogin
  <2> QED
    BY <1>3, <1>6, <1>7, <2>1, <2>2 DEF LoginStep, RecordLoginFailure, GenerateToken
<1>8. ASSUME NEW t \in HttpThreads, PasswordStep(t) PROVE Goal
  <2>1. CASE CheckOldPassword(t) \/ ChangePassword(t)
    BY <1>3, <1>4, <2>1 DEF CheckOldPassword, ChangePassword
  <2> QED
    BY <1>3, <1>5, <1>8, <2>1 DEF PasswordStep, HandleRead, ReadStore,
       HandleChangePassword, ClearMustChangePassword, Accept
<1>9. ASSUME NEW t \in HttpThreads, UsersStep(t) PROVE Goal
  <2>1. CASE CheckNameFree(t) \/ UpdateUser(t)
    BY <1>3, <1>4, <2>1 DEF CheckNameFree, UpdateUser
  <2>2. CASE GetUserForUpdate(t)
    <3>1. call[t] \in Updating
      BY <2>2, RequestAt DEF GetUserForUpdate, AccessTypeOK
    <3>2. CASE u # t
      BY <1>2, <2>2, <3>2 DEF GetUserForUpdate, Return, AccessTypeOK
    <3>3. CASE u = t
      BY <1>3, <2>2, <3>1, <3>3 DEF GetUserForUpdate, Updating, AccessTypeOK
    <3> QED
      BY <3>2, <3>3
  <2> QED
    BY <1>3, <1>5, <1>9, <2>1, <2>2 DEF UsersStep, HandleCreateUser, CreateUser,
       HandleUpdateUser, HandleDeleteUser, DeleteRow, Accept
<1>10. CASE AccessTick \/ UNCHANGED accessVars
  BY <1>2, <1>10 DEF AccessTick, accessVars
<1>11. CASE AccessRestart
  BY <1>11 DEF AccessRestart, Idle
<1> QED
  BY <1>7, <1>8, <1>9, <1>10, <1>11 DEF AccessNext

(* A pair taken from a row is right, before and after the step.             *)
LEMMA NamingStep == NamingInv /\ [AccessNext]_accessVars => NamingInv'
<1> SUFFICES ASSUME NamingInv, [AccessNext]_accessVars PROVE NamingInv'
  OBVIOUS
<1>1. AccessTypeOK /\ AccessTypeOK' /\ NamesStay
  BY AccessTypeStep, AccountsKeepNames DEF NamingInv
<1>2. ASSUME NEW id \in DOMAIN users PROVE id \in Ids /\ Denotes(id, users[id].username)
  BY <1>1 DEF AccessTypeOK, Denotes
<1>3. TokensName'
  <2>1. ASSUME NEW token \in tokens PROVE StillDenotes(token.user_id, token.username)
    <3>1. token.user_id \in Ids
      BY <1>1 DEF AccessTypeOK, Claims
    <3> QED
      BY <1>1, <3>1, NamingStays DEF NamingInv, TokensName
  <2>2. ASSUME NEW t \in HttpThreads, call[t].pc = "token"
        PROVE  StillDenotes(call[t].user_id, call[t].username)
    <3>1. call[t] \in LoggedIn
      BY <1>1, <2>2, RequestAt DEF AccessTypeOK
    <3> QED
      BY <1>1, <2>2, <3>1, NamingStays DEF NamingInv, LoginsName, LoggedIn
  <2> QED
    BY <1>1, <2>1, <2>2, TokensComeFromLogins DEF TokensName, Denotes, StillDenotes
<1>4. LoginsName'
  <2> SUFFICES ASSUME NEW u \in HttpThreads, call'[u].pc \in {"success", "token"}
               PROVE  StillDenotes(call'[u].user_id, call'[u].username)
    BY DEF LoginsName, Denotes, StillDenotes
  <2>1. CASE /\ call[u].pc \in {"success", "token"}
             /\ call'[u].user_id = call[u].user_id
             /\ call'[u].username = call[u].username
    <3>1. call[u].user_id \in Ids
      BY <1>1, <2>1, RequestAt DEF AccessTypeOK, LoggedIn
    <3>2. StillDenotes(call[u].user_id, call[u].username)
      BY <1>1, <2>1, <3>1, NamingStays DEF NamingInv, LoginsName
    <3> QED
      BY <2>1, <3>2
  <2>2. CASE /\ call'[u].user_id \in DOMAIN users
             /\ call'[u].username = users[call'[u].user_id].username
    BY <1>1, <1>2, <2>2, NamingStays
  <2> QED
    BY <1>1, <2>1, <2>2, PairsComeFromRows
<1> QED
  BY <1>1, <1>3, <1>4 DEF NamingInv

(* A token never comes to name another account than the one that logged in, *)
(* through any number of deletes, inserts and restarts: CheckAuth, which    *)
(* goes by the id, and HandleChangePassword, which goes by the name, mean   *)
(* the same row.                                                            *)
THEOREM TokensNameTheirUsers == AccessSpec => []TokenNamesItsUser
<1>1. AccessInit => NamingInv
  BY AccessInitType DEF AccessInit, NamingInv, TokensName, LoginsName, Idle
<1>2. NamingInv => TokenNamesItsUser
  BY DEF NamingInv, TokensName, Denotes, TokenNamesItsUser
<1> QED
  BY <1>1, <1>2, NamingStep, PTL DEF AccessSpec

-----------------------------------------------------------------------------
(* The login lock.  A failure is counted after the lock was tested, so the  *)
(* bound counts the logins in flight beside the failures; an attempt that   *)
(* ends moves from one to the other.                                        *)

TryingLogin == {"authenticate", "failure"}

InFlight(ip) == {t \in HttpThreads : call[t].pc \in TryingLogin /\ call[t].ip = ip}

FailuresAndFlights ==
    \A ip \in Ips : login_attempts_[ip].failed_count + Cardinality(InFlight(ip))
                       <= kMaxLoginAttempts - 1 + Cardinality(HttpThreads)

AttemptsInv == AccessTypeOK /\ FailuresAndFlights

(* There are at most as many logins in flight as HTTP threads.              *)
LEMMA InFlightFinite ==
    ASSUME NEW F \in SUBSET HttpThreads
    PROVE  /\ IsFiniteSet(F) /\ Cardinality(F) \in Nat
           /\ Cardinality(HttpThreads) \in Nat
           /\ Cardinality(F) <= Cardinality(HttpThreads)
BY AccessAssumption, FS_Subset, FS_CardinalityType

(* Failures that are not more and flights that are not others.              *)
LEMMA FewerKeepsBound ==
    ASSUME AttemptsInv, AccessTypeOK', NEW ip \in Ips,
           login_attempts_'[ip].failed_count <= login_attempts_[ip].failed_count,
           \A u \in HttpThreads : call'[u].pc \in TryingLogin /\ call'[u].ip = ip =>
               call[u].pc \in TryingLogin /\ call[u].ip = ip
    PROVE  login_attempts_'[ip].failed_count + Cardinality(InFlight(ip)')
              <= kMaxLoginAttempts - 1 + Cardinality(HttpThreads)
<1>1. InFlight(ip)' \subseteq InFlight(ip) /\ InFlight(ip) \subseteq HttpThreads
  BY DEF InFlight
<1>2. Cardinality(InFlight(ip)') <= Cardinality(InFlight(ip))
  BY <1>1, InFlightFinite, FS_Subset
<1>3. Cardinality(InFlight(ip)') \in Nat /\ Cardinality(InFlight(ip)) \in Nat
      /\ Cardinality(HttpThreads) \in Nat
  BY <1>1, InFlightFinite
<1>4. login_attempts_'[ip].failed_count \in Nat /\ login_attempts_[ip].failed_count \in Nat
  BY DEF AttemptsInv, AccessTypeOK
<1>5. login_attempts_[ip].failed_count + Cardinality(InFlight(ip))
        <= kMaxLoginAttempts - 1 + Cardinality(HttpThreads)
  BY DEF AttemptsInv, FailuresAndFlights
<1> QED
  BY <1>2, <1>3, <1>4, <1>5, AccessAssumption

(* An address below the limit may have every thread in flight.              *)
LEMMA BelowLimitKeepsBound ==
    ASSUME AccessTypeOK', NEW ip \in Ips,
           login_attempts_'[ip].failed_count <= kMaxLoginAttempts - 1
    PROVE  login_attempts_'[ip].failed_count + Cardinality(InFlight(ip)')
              <= kMaxLoginAttempts - 1 + Cardinality(HttpThreads)
<1>1. InFlight(ip)' \subseteq HttpThreads
  BY DEF InFlight
<1>2. /\ Cardinality(InFlight(ip)') \in Nat /\ Cardinality(HttpThreads) \in Nat
      /\ Cardinality(InFlight(ip)') <= Cardinality(HttpThreads)
  BY <1>1, InFlightFinite
<1>3. login_attempts_'[ip].failed_count \in Nat
  BY DEF AccessTypeOK
<1> QED
  BY <1>2, <1>3, AccessAssumption

(* HandleLogin lets an address in only below the limit.                     *)
LEMMA HandleLoginBounded ==
    ASSUME AttemptsInv, AccessTypeOK', NEW t \in HttpThreads, NEW at \in Ips,
           NEW name, NEW password, HandleLogin(t, at, name, password)
    PROVE  FailuresAndFlights'
<1> SUFFICES ASSUME NEW ip \in Ips
             PROVE  login_attempts_'[ip].failed_count + Cardinality(InFlight(ip)')
                      <= kMaxLoginAttempts - 1 + Cardinality(HttpThreads)
  BY DEF FailuresAndFlights
<1> USE AccessAssumption
<1>1. CASE ip # at
  <2>1. login_attempts_'[ip] = login_attempts_[ip]
    BY <1>1 DEF HandleLogin, AttemptsInv, AccessTypeOK
  <2>2. \A u \in HttpThreads : call'[u] = call[u] \/ call'[u].ip = at
    BY DEF HandleLogin, AttemptsInv, AccessTypeOK
  <2>3. login_attempts_[ip].failed_count \in Nat
    BY DEF AttemptsInv, AccessTypeOK
  <2> QED
    BY <1>1, <2>1, <2>2, <2>3, FewerKeepsBound
<1>2. CASE ip = at /\ Locked(login_attempts_[at])
  <2>1. login_attempts_'[ip] = login_attempts_[ip]
    BY <1>2 DEF HandleLogin, AttemptsInv, AccessTypeOK, Locked, Unlocked
  <2>2. call' = call
    BY <1>2 DEF HandleLogin
  <2>3. login_attempts_[ip].failed_count \in Nat
    BY DEF AttemptsInv, AccessTypeOK
  <2> QED
    BY <2>1, <2>2, <2>3, FewerKeepsBound
<1>3. CASE ip = at /\ ~Locked(login_attempts_[at])
  <2>1. login_attempts_'[ip] = Unlocked(login_attempts_[ip])
    BY <1>3 DEF HandleLogin, AttemptsInv, AccessTypeOK
  <2>2. login_attempts_'[ip].failed_count <= kMaxLoginAttempts - 1
    <3> DEFINE e == login_attempts_[ip]
    <3>1. now \in Int /\ e.failed_count \in Nat /\ e.locked_until \in Nat
      BY DEF AttemptsInv, AccessTypeOK
    <3>2. CASE e.failed_count >= kMaxLoginAttempts
      BY <1>3, <2>1, <3>1, <3>2 DEF Locked, Unlocked, NoAttempts
    <3>3. CASE e.failed_count < kMaxLoginAttempts
      BY <2>1, <3>1, <3>3 DEF Unlocked
    <3> QED
      BY <3>1, <3>2, <3>3
  <2> QED
    BY <2>2, BelowLimitKeepsBound
<1> QED
  BY <1>1, <1>2, <1>3

(* A failure is counted by the thread that leaves the flight.               *)
LEMMA FailureBounded ==
    ASSUME AttemptsInv, AccessTypeOK', NEW t \in HttpThreads, RecordLoginFailure(t)
    PROVE  FailuresAndFlights'
<1> SUFFICES ASSUME NEW ip \in Ips
             PROVE  login_attempts_'[ip].failed_count + Cardinality(InFlight(ip)')
                      <= kMaxLoginAttempts - 1 + Cardinality(HttpThreads)
  BY DEF FailuresAndFlights
<1> USE AccessAssumption
<1>1. login_attempts_[ip].failed_count \in Nat
  BY DEF AttemptsInv, AccessTypeOK
<1>2. CASE ip # call[t].ip
  <2>1. login_attempts_'[ip] = login_attempts_[ip]
    BY <1>2 DEF RecordLoginFailure, AttemptsInv, AccessTypeOK
  <2>2. \A u \in HttpThreads : call'[u] = call[u] \/ call'[u] = Idle
    BY DEF RecordLoginFailure, Return, AttemptsInv, AccessTypeOK
  <2> QED
    BY <1>1, <2>1, <2>2, FewerKeepsBound DEF Idle, TryingLogin
<1>3. CASE ip = call[t].ip
  <2>1. t \in InFlight(ip) /\ InFlight(ip)' = InFlight(ip) \ {t}
    BY <1>3 DEF RecordLoginFailure, Return, Idle, InFlight, TryingLogin, AttemptsInv,
       AccessTypeOK
  <2>2. InFlight(ip) \subseteq HttpThreads
    BY DEF InFlight
  <2>3. IsFiniteSet(InFlight(ip)) /\ Cardinality(InFlight(ip)) \in Nat
        /\ Cardinality(HttpThreads) \in Nat
    BY <2>2, InFlightFinite
  <2>4. Cardinality(InFlight(ip)') = Cardinality(InFlight(ip)) - 1
    BY <2>1, <2>3, FS_RemoveElement
  <2>5. login_attempts_'[ip] = AfterFailure(login_attempts_[ip])
    BY <1>3 DEF RecordLoginFailure, AttemptsInv, AccessTypeOK
  <2>6. /\ login_attempts_'[ip].failed_count \in Nat
        /\ login_attempts_'[ip].failed_count <= login_attempts_[ip].failed_count + 1
    BY <2>5, AfterFailureType DEF AttemptsInv, AccessTypeOK
  <2>7. login_attempts_[ip].failed_count + Cardinality(InFlight(ip))
          <= kMaxLoginAttempts - 1 + Cardinality(HttpThreads)
    BY DEF AttemptsInv, FailuresAndFlights
  <2> QED
    BY <1>1, <2>3, <2>4, <2>6, <2>7
<1> QED
  BY <1>2, <1>3

(* A login that succeeds clears its address.                                *)
LEMMA SuccessBounded ==
    ASSUME AttemptsInv, AccessTypeOK', NEW t \in HttpThreads, RecordLoginSuccess(t)
    PROVE  FailuresAndFlights'
<1> SUFFICES ASSUME NEW ip \in Ips
             PROVE  login_attempts_'[ip].failed_count + Cardinality(InFlight(ip)')
                      <= kMaxLoginAttempts - 1 + Cardinality(HttpThreads)
  BY DEF FailuresAndFlights
<1> USE AccessAssumption
<1>1. CASE ip = call[t].ip
  <2>1. login_attempts_'[ip].failed_count = 0
    BY <1>1 DEF RecordLoginSuccess, NoAttempts, AttemptsInv, AccessTypeOK
  <2> QED
    BY <2>1, BelowLimitKeepsBound
<1>2. CASE ip # call[t].ip
  <2>1. login_attempts_'[ip] = login_attempts_[ip]
    BY <1>2 DEF RecordLoginSuccess, AttemptsInv, AccessTypeOK
  <2>2. call[t] \in LoggedIn
    BY RequestAt DEF RecordLoginSuccess, AttemptsInv, AccessTypeOK
  <2>3. \A u \in HttpThreads : call'[u] = call[u] \/ call'[u].pc = "token"
    BY <2>2 DEF RecordLoginSuccess, Goto, AttemptsInv, AccessTypeOK, LoggedIn
  <2>4. login_attempts_[ip].failed_count \in Nat
    BY DEF AttemptsInv, AccessTypeOK
  <2> QED
    BY <2>1, <2>3, <2>4, FewerKeepsBound DEF TryingLogin
<1> QED
  BY <1>1, <1>2

(* Every other step counts nothing and puts nobody in flight.               *)
LEMMA OthersCountNothing ==
    ASSUME AccessTypeOK, [AccessNext]_accessVars, ~AccessRestart,
           \A t \in HttpThreads : /\ ~RecordLoginFailure(t) /\ ~RecordLoginSuccess(t)
               /\ \A ip \in Ips, c \in Credentials : ~HandleLogin(t, ip, c[1], c[2])
    PROVE  /\ login_attempts_' = login_attempts_
           /\ \A u \in HttpThreads : call'[u].pc \in TryingLogin =>
                 call[u].pc \in TryingLogin /\ call'[u].ip = call[u].ip
<1> DEFINE Goal == \A u \in HttpThreads : call'[u].pc \in TryingLogin =>
                      call[u].pc \in TryingLogin /\ call'[u].ip = call[u].ip
<1> USE AccessAssumption
<1>1. login_attempts_' = login_attempts_
  BY DEF AccessNext, LoginStep, PasswordStep, UsersStep, LoginAuthenticate,
     GenerateToken, HandleRead, ReadStore, HandleChangePassword,
     CheckOldPassword, ChangePassword, ClearMustChangePassword,
     HandleCreateUser, CheckNameFree, CreateUser, HandleUpdateUser,
     GetUserForUpdate, UpdateUser, HandleDeleteUser, DeleteRow, Accept,
     AccessTick, accessVars
<1>2. ASSUME NEW t \in HttpThreads, Return(t) PROVE Goal
  BY <1>2 DEF Return, Idle, AccessTypeOK, TryingLogin
<1>3. ASSUME NEW t \in HttpThreads, NEW r, r.pc \notin TryingLogin,
             call' = [call EXCEPT ![t] = r]
      PROVE  Goal
  BY <1>3 DEF AccessTypeOK
<1>4. ASSUME NEW t \in HttpThreads, NEW pc, pc \notin TryingLogin, Goto(t, pc)
      PROVE  Goal
  <2>1. call[t] \in Requests => "pc" \in DOMAIN call[t]
    BY DEF Requests, Idle, Authenticating, Failing, LoggedIn, Reading, Changing,
       Creating, Updating, Deleting
  <2>2. [call[t] EXCEPT !.pc = pc].pc = pc
    BY <2>1 DEF AccessTypeOK
  <2>3. call' = [call EXCEPT ![t] = [call[t] EXCEPT !.pc = pc]]
    BY <1>4 DEF Goto
  <2> QED
    BY <1>3, <1>4, <2>2, <2>3
<1>5. ASSUME NEW t \in HttpThreads, LoginAuthenticate(t) PROVE Goal
  <2> DEFINE found == Authenticate(call[t].username, call[t].password)
             id == CHOOSE i \in found : TRUE
  <2>1. CASE found = {}
    <3>1. call' = [call EXCEPT ![t] = [pc |-> "failure", ip |-> call[t].ip]]
      BY <1>5, <2>1 DEF LoginAuthenticate
    <3> QED
      BY <1>5, <3>1 DEF LoginAuthenticate, AccessTypeOK, TryingLogin
  <2>2. CASE found # {}
    <3>1. call' = [call EXCEPT ![t] =
             [pc |-> "success", ip |-> call[t].ip, user_id |-> id,
              username |-> users[id].username, role |-> users[id].role]]
      BY <1>5, <2>2 DEF LoginAuthenticate
    <3> HIDE DEF id
    <3> QED
      BY <1>3, <3>1 DEF TryingLogin
  <2> QED
    BY <2>1, <2>2
<1>6. ASSUME NEW t \in HttpThreads, LoginStep(t) PROVE Goal
  BY <1>2, <1>5, <1>6 DEF LoginStep, GenerateToken
<1>7. ASSUME NEW t \in HttpThreads, PasswordStep(t) PROVE Goal
  <2>1. CASE CheckOldPassword(t) \/ ChangePassword(t)
    BY <1>2, <1>4, <2>1 DEF CheckOldPassword, ChangePassword, TryingLogin
  <2> QED
    BY <1>2, <1>3, <1>7, <2>1 DEF PasswordStep, HandleRead, ReadStore,
       HandleChangePassword, ClearMustChangePassword, Accept, TryingLogin
<1>8. ASSUME NEW t \in HttpThreads, UsersStep(t) PROVE Goal
  <2>1. CASE CheckNameFree(t) \/ UpdateUser(t)
    BY <1>2, <1>4, <2>1 DEF CheckNameFree, UpdateUser, TryingLogin
  <2>2. CASE GetUserForUpdate(t)
    <3>1. call[t] \in Updating
      BY <2>2, RequestAt DEF GetUserForUpdate, AccessTypeOK
    <3>2. \A u \in HttpThreads : call'[u] = call[u] \/ call'[u].pc \in {"idle", "update"}
      BY <2>2, <3>1 DEF GetUserForUpdate, Return, Idle, Updating, AccessTypeOK
    <3> QED
      BY <3>2 DEF TryingLogin
  <2> QED
    BY <1>2, <1>3, <1>8, <2>1, <2>2 DEF UsersStep, HandleCreateUser, CreateUser,
       HandleUpdateUser, HandleDeleteUser, DeleteRow, Accept, TryingLogin
<1>9. CASE AccessTick \/ UNCHANGED accessVars
  BY <1>9 DEF AccessTick, accessVars
<1> QED
  BY <1>1, <1>6, <1>7, <1>8, <1>9 DEF AccessNext

(* Every step keeps the bound on failures and on the logins in flight.      *)
LEMMA AttemptsStep == AttemptsInv /\ [AccessNext]_accessVars => AttemptsInv'
<1> SUFFICES ASSUME AttemptsInv, [AccessNext]_accessVars PROVE AttemptsInv'
  OBVIOUS
<1>1. AccessTypeOK /\ AccessTypeOK'
  BY AccessTypeStep DEF AttemptsInv
<1>2. CASE AccessRestart
  <2>1. \A ip \in Ips : login_attempts_'[ip].failed_count = 0
    BY <1>2 DEF AccessRestart, NoAttempts
  <2>2. 0 <= kMaxLoginAttempts - 1
    BY AccessAssumption
  <2> QED
    BY <1>1, <2>1, <2>2, BelowLimitKeepsBound DEF AttemptsInv, FailuresAndFlights
<1>3. CASE /\ ~AccessRestart
           /\ \A t \in HttpThreads : /\ ~RecordLoginFailure(t) /\ ~RecordLoginSuccess(t)
               /\ \A ip \in Ips, c \in Credentials : ~HandleLogin(t, ip, c[1], c[2])
  <2>1. /\ login_attempts_' = login_attempts_
        /\ \A u \in HttpThreads : call'[u].pc \in TryingLogin =>
              call[u].pc \in TryingLogin /\ call'[u].ip = call[u].ip
    BY <1>1, <1>3, OthersCountNothing
  <2>2. \A ip \in Ips : login_attempts_[ip].failed_count \in Nat
    BY <1>1 DEF AccessTypeOK
  <2> QED
    BY <1>1, <2>1, <2>2, FewerKeepsBound DEF AttemptsInv, FailuresAndFlights
<1> QED
  BY <1>1, <1>2, <1>3, HandleLoginBounded, FailureBounded, SuccessBounded
     DEF AttemptsInv

(* Parallel logins from an address overrun kMaxLoginAttempts by at most the *)
(* other threads of the server: the failures counted and the attempts that  *)
(* passed the lock and are still under way stay within the limit and the    *)
(* threads less one.                                                        *)
THEOREM LoginAttemptsBounded == AccessSpec => []AttemptsBounded
<1>1. AccessInit => AttemptsInv
  <2> SUFFICES ASSUME AccessInit PROVE AttemptsInv
    OBVIOUS
  <2>1. AccessTypeOK
    BY AccessInitType
  <2>2. \A ip \in Ips : login_attempts_[ip].failed_count = 0 /\ InFlight(ip) = {}
    BY DEF AccessInit, NoAttempts, InFlight, Idle, TryingLogin
  <2>3. Cardinality({}) = 0 /\ Cardinality(HttpThreads) \in Nat
    BY FS_EmptySet, InFlightFinite
  <2> QED
    <3>1. \A ip \in Ips : Cardinality(InFlight(ip)) = 0
      BY <2>2, <2>3
    <3>2. 0 + 0 <= kMaxLoginAttempts - 1 + Cardinality(HttpThreads)
      BY <2>3, AccessAssumption
    <3>3. FailuresAndFlights
      BY <2>2, <3>1, <3>2 DEF FailuresAndFlights
    <3> QED
      BY <2>1, <3>3 DEF AttemptsInv
<1>2. AttemptsInv => AttemptsBounded
  <2> SUFFICES ASSUME AttemptsInv, NEW ip \in Ips
               PROVE  login_attempts_[ip].failed_count
                        <= kMaxLoginAttempts - 1 + Cardinality(HttpThreads)
    BY DEF AttemptsBounded
  <2>1. InFlight(ip) \subseteq HttpThreads
    BY DEF InFlight
  <2>2. Cardinality(InFlight(ip)) \in Nat /\ Cardinality(HttpThreads) \in Nat
    BY <2>1, InFlightFinite
  <2>3. login_attempts_[ip].failed_count \in Nat
    BY DEF AttemptsInv, AccessTypeOK
  <2> QED
    BY <2>2, <2>3, AccessAssumption DEF AttemptsInv, FailuresAndFlights
<1> QED
  BY <1>1, <1>2, AttemptsStep, PTL DEF AccessSpec

-----------------------------------------------------------------------------
(* AnalysisScheduler.  RebalanceBudget goes through the enabled tasks in an  *)
(* order and takes what it grants from the budget.  What it has granted     *)
(* after the tasks S is a recursive function of S; SharesRight says what is *)
(* true of it for every S, by a least S for which it would not be.          *)

(* Division rounds down.                                                    *)
LEMMA Quotient ==
    ASSUME NEW a \in Nat, NEW b \in Nat \ {0}
    PROVE  /\ a \div b \in Nat
           /\ b * (a \div b) =< a /\ a < b * (a \div b) + b
OBVIOUS

(* Products and quotients grow with their arguments.                        *)
LEMMA ProductGrows ==
    ASSUME NEW a \in Nat, NEW b \in Nat, NEW c \in Nat, b =< c
    PROVE  a * b =< a * c
OBVIOUS

(* The interval of a higher rate is not longer.                             *)
LEMMA QuotientFalls ==
    ASSUME NEW a \in Nat, NEW b \in Nat \ {0}, NEW c \in Nat, b =< c
    PROVE  a \div c =< a \div b
<1> DEFINE p == a \div b
           q == a \div c
<1>1. p \in Nat /\ q \in Nat /\ a < b * p + b /\ c * q =< a
  BY Quotient
<1> HIDE DEF p, q
<1>2. SUFFICES ASSUME p < q PROVE FALSE
  BY <1>1 DEF p, q
<1>3. b * (p + 1) =< b * q /\ q * b =< q * c
  BY <1>1, <1>2, ProductGrows
<1>4. b * (p + 1) = b * p + b /\ q * b = b * q /\ q * c = c * q
  BY <1>1
<1>5. b * p \in Nat /\ b * q \in Nat /\ c * q \in Nat
  BY <1>1
<1> QED BY <1>1, <1>3, <1>4, <1>5

(* What a task gets that needs more than the rest: at least one frame, no    *)
(* more than it asked for, and one more frame would not fit.                *)
LEMMA PartialShare ==
    ASSUME NEW rest \in Nat, NEW cost \in Nat, NEW target \in Nat, rest < cost * target,
           NEW f, f = IF rest > 0 /\ cost > 0 /\ rest \div cost > 1
                      THEN rest \div cost ELSE 1
    PROVE  /\ cost > 0 /\ f \in Nat /\ 1 =< f /\ f =< target
           /\ f = 1 \/ cost * f =< rest
           /\ cost * f + cost > rest
<1>1. cost > 0 /\ target > 0
  OBVIOUS
<1> DEFINE q == rest \div cost
<1>2. q \in Nat /\ cost * q =< rest /\ rest < cost * q + cost
  BY <1>1, Quotient
<1>3. f = IF rest > 0 /\ q > 1 THEN q ELSE 1
  BY <1>1
<1> HIDE DEF q
<1>4. q < target
  <2>1. CASE target =< q
    <3>1. cost * target =< cost * q
      BY <1>2, <2>1, ProductGrows
    <3> QED BY <1>2, <3>1
  <2> QED BY <1>2, <2>1
<1>5. CASE q > 1 /\ rest > 0
  BY <1>1, <1>2, <1>3, <1>4, <1>5
<1>6. CASE ~(q > 1 /\ rest > 0)
  <2>1. f = 1
    BY <1>2, <1>3, <1>6
  <2>2. cost * q =< cost * 1
    <3>1. CASE q =< 1
      BY <1>2, <3>1, ProductGrows
    <3>2. CASE rest = 0
      BY <1>2, <3>2
    <3> QED BY <1>2, <1>6, <3>1, <3>2
  <2> QED BY <1>1, <1>2, <2>1, <2>2
<1> QED BY <1>5, <1>6

AnalysisTask == [strategy : {"kRealtime", "kPolling", "kOnDemand"},
                 target_fps : Nat, enabled : BOOLEAN]

TaskState == [config : AnalysisTask, age : Nat, frame_interval : Nat,
              total_inferences : Nat, total_time : Nat,
              is_throttled : BOOLEAN, effective_fps : Nat]

SchedulerTypeOK ==
    /\ tasks_ \in [DOMAIN tasks_ -> TaskState] /\ DOMAIN tasks_ \subseteq TaskChannels
    /\ gpu_budget_ \in Nat /\ changes \in Nat

(* Costs are numbers.                                                       *)
LEMMA CostType ==
    ASSUME SchedulerTypeOK, NEW c \in DOMAIN tasks_
    PROVE  /\ Cost(c) \in Nat /\ Needed(c) \in Nat
           /\ tasks_[c].config.target_fps \in Nat
           /\ Needed(c) = Cost(c) * tasks_[c].config.target_fps
<1>1. tasks_[c] \in TaskState
  BY DEF SchedulerTypeOK
<1>2. /\ tasks_[c].total_inferences \in Nat /\ tasks_[c].total_time \in Nat
      /\ tasks_[c].config \in AnalysisTask
  BY <1>1 DEF TaskState
<1>3. tasks_[c].config.target_fps \in Nat
  BY <1>2 DEF AnalysisTask
<1>4. Cost(c) \in Nat
  BY <1>2, Quotient, SchedulerAssumption DEF Cost
<1>5. \A a, b \in Nat : a * b \in Nat
  OBVIOUS
<1> QED BY <1>3, <1>4, <1>5 DEF Needed

(* Precedes orders the tasks.                                               *)
LEMMA PrecedesOrders ==
    ASSUME SchedulerTypeOK, NEW c \in DOMAIN tasks_, NEW d \in DOMAIN tasks_,
           NEW e \in DOMAIN tasks_
    PROVE  /\ c # d => Precedes(c, d) \/ Precedes(d, c)
           /\ ~(Precedes(c, d) /\ Precedes(d, c)) /\ ~Precedes(c, c)
           /\ Precedes(c, d) /\ Precedes(d, e) => Precedes(c, e)
<1>1. ASSUME NEW x \in DOMAIN tasks_ PROVE Priority(x) \in 0..2 /\ x \in Int
  <2>1. tasks_[x].config.strategy \in {"kRealtime", "kPolling", "kOnDemand"}
    <3>1. tasks_[x] \in TaskState
      BY DEF SchedulerTypeOK
    <3> QED BY <3>1 DEF TaskState, AnalysisTask
  <2>2. x \in Int
    BY SchedulerAssumption DEF SchedulerTypeOK
  <2> QED BY <2>1, <2>2 DEF Priority
<1>2. /\ Priority(c) \in 0..2 /\ Priority(d) \in 0..2 /\ Priority(e) \in 0..2
      /\ c \in Int /\ d \in Int /\ e \in Int
  BY <1>1
<1> QED BY <1>2 DEF Precedes

(* The tasks that a rebalance looks at.                                     *)
LEMMA EnabledFinite ==
    ASSUME SchedulerTypeOK
    PROVE  IsFiniteSet(Enabled) /\ Enabled \subseteq DOMAIN tasks_
<1>1. Enabled \subseteq DOMAIN tasks_ /\ Enabled \subseteq TaskChannels
  BY DEF Enabled, SchedulerTypeOK
<1> QED BY <1>1, SchedulerAssumption, FS_Subset

(* So a set of tasks has a last one.                                        *)
LEMMA LastIsLast ==
    ASSUME SchedulerTypeOK, NEW S \in SUBSET Enabled, S # {}
    PROVE  /\ LastInOrder(S) \in S
           /\ \A d \in S \ {LastInOrder(S)} : Precedes(d, LastInOrder(S))
<1> DEFINE IsLast(T, c) == \A d \in T \ {c} : Precedes(d, c)
           Bad == {T \in SUBSET S : T # {} /\ ~\E c \in T : IsLast(T, c)}
<1>1. S \subseteq DOMAIN tasks_ /\ IsFiniteSet(S)
  BY EnabledFinite, FS_Subset
<1>2. ASSUME Bad # {} PROVE FALSE
  <2>1. PICK T \in Bad : \A U \in Bad : ~(U \subseteq T /\ U # T)
    <3>1. Bad \in SUBSET (SUBSET S)
      OBVIOUS
    <3> HIDE DEF Bad
    <3> QED BY <1>1, <1>2, <3>1, LeastSubset
  <2>2. PICK x \in T : TRUE
    OBVIOUS
  <2>3. CASE T = {x}
    BY <2>1, <2>3
  <2>4. CASE T # {x}
    <3>1. T \ {x} \notin Bad /\ T \ {x} # {}
      BY <2>1, <2>2, <2>4
    <3>2. PICK m \in T \ {x} : IsLast(T \ {x}, m)
      BY <3>1
    <3>3. x \in DOMAIN tasks_ /\ m \in DOMAIN tasks_ /\ T \subseteq DOMAIN tasks_
      BY <1>1
    <3>4. CASE Precedes(x, m)
      <4>1. IsLast(T, m)
        BY <3>2, <3>4
      <4> QED BY <2>1, <4>1
    <3>5. CASE Precedes(m, x)
      <4>1. ASSUME NEW d \in T \ {x} PROVE Precedes(d, x)
        <5>1. CASE d = m
          BY <3>5, <5>1
        <5>2. CASE d # m
          <6>1. Precedes(d, m) /\ d \in DOMAIN tasks_
            BY <3>2, <3>3, <5>2
          <6> QED BY <3>3, <3>5, <6>1, PrecedesOrders
        <5> QED BY <5>1, <5>2
      <4> QED BY <2>1, <4>1
    <3> QED BY <3>3, <3>4, <3>5, PrecedesOrders
  <2> QED BY <2>3, <2>4
<1>3. \E c \in S : IsLast(S, c)
  BY <1>2
<1> QED BY <1>3 DEF LastInOrder

-----------------------------------------------------------------------------
(* The loop of RebalanceBudget does define what it grants.                  *)
NoGrants == [remaining |-> gpu_budget_, fps |-> <<>>, throttled |-> {}]

GrantTable(F, U) ==
    F = [S \in SUBSET U |-> IF S = {} THEN NoGrants
                            ELSE Grant(F[S \ {LastInOrder(S)}], LastInOrder(S))]

(* Two tables agree where both are defined.                                 *)
LEMMA GrantTablesAgree ==
    ASSUME SchedulerTypeOK, NEW S, NEW U, NEW F, NEW G, GrantTable(F, S), GrantTable(G, U),
           NEW w, w \subseteq S, w \subseteq U, w \subseteq Enabled
    PROVE  F[w] = G[w]
<1> DEFINE Bad == {s \in SUBSET w : F[s] # G[s]}
<1> SUFFICES ASSUME Bad # {} PROVE FALSE
  OBVIOUS
<1>0. IsFiniteSet(w)
  BY EnabledFinite, FS_Subset
<1>1. PICK s \in Bad : \A t \in Bad : ~(t \subseteq s /\ t # s)
  <2>1. Bad \in SUBSET (SUBSET w)
    OBVIOUS
  <2> HIDE DEF Bad
  <2> QED BY <1>0, <2>1, LeastSubset
<1> DEFINE c == LastInOrder(s)
           r == s \ {c}
<1>2. s \in SUBSET S /\ s \in SUBSET U /\ s \in SUBSET Enabled
  OBVIOUS
<1>3. F[s] = IF s = {} THEN NoGrants ELSE Grant(F[r], c)
  BY <1>2 DEF GrantTable
<1>4. G[s] = IF s = {} THEN NoGrants ELSE Grant(G[r], c)
  BY <1>2 DEF GrantTable
<1>5. s # {}
  BY <1>3, <1>4
<1>6. c \in s
  BY <1>2, <1>5, LastIsLast
<1>7. F[r] = G[r]
  BY <1>1, <1>6
<1>8. F[s] # G[s]
  OBVIOUS
<1> HIDE DEF c, r
<1> QED BY <1>3, <1>4, <1>7, <1>8

(* There is one for all the enabled tasks.                                  *)
LEMMA GrantTableExists ==
    ASSUME SchedulerTypeOK
    PROVE  \E F : GrantTable(F, Enabled)
<1> DEFINE Bad == {s \in SUBSET Enabled : ~\E F : GrantTable(F, s)}
<1> SUFFICES ASSUME Bad # {} PROVE FALSE
  OBVIOUS
<1>1. PICK s \in Bad : \A t \in Bad : ~(t \subseteq s /\ t # s)
  <2>1. Bad \in SUBSET (SUBSET Enabled)
    OBVIOUS
  <2> HIDE DEF Bad
  <2> QED BY <2>1, EnabledFinite, LeastSubset
<1> DEFINE Table(t) == CHOOSE F : GrantTable(F, t)
           EarlierOf(t) == t \ {LastInOrder(t)}
           F == [t \in SUBSET s |->
                   IF t = {} THEN NoGrants ELSE Grant(Table(EarlierOf(t))[EarlierOf(t)], LastInOrder(t))]
<1>2. ASSUME NEW t, t \subseteq s, t # s
      PROVE  GrantTable(Table(t), t)
  <2>1. \E G : GrantTable(G, t)
    BY <1>1, <1>2
  <2> QED BY <2>1
<1>3. ASSUME NEW t \in SUBSET s, t # {}
      PROVE  EarlierOf(t) \subseteq s /\ EarlierOf(t) # s
  <2>1. LastInOrder(t) \in t
    BY <1>3, LastIsLast
  <2> QED BY <1>3, <2>1
<1> HIDE DEF Table
<1>5. ASSUME NEW t \in SUBSET s, t # {}
      PROVE  F[EarlierOf(t)] = Table(EarlierOf(t))[EarlierOf(t)]
  <2> DEFINE u == EarlierOf(t)
             v == EarlierOf(u)
  <2>1. u \in SUBSET s /\ u # s
    BY <1>3, <1>5
  <2>2. GrantTable(Table(u), u)
    BY <1>2, <2>1
  <2>3. F[u] = IF u = {} THEN NoGrants ELSE Grant(Table(v)[v], LastInOrder(u))
    BY <2>1
  <2>4. Table(u)[u] = IF u = {} THEN NoGrants ELSE Grant(Table(u)[v], LastInOrder(u))
    BY <2>2 DEF GrantTable
  <2>5. CASE u = {}
    BY <2>3, <2>4, <2>5
  <2>6. CASE u # {}
    <3>1. v \subseteq s /\ v # s /\ v \subseteq u /\ v \subseteq Enabled
      BY <1>3, <2>1, <2>6
    <3>2. GrantTable(Table(v), v)
      BY <1>2, <3>1
    <3> HIDE DEF u, v
    <3>4. Table(u)[v] = Table(v)[v]
      BY <2>2, <3>1, <3>2, GrantTablesAgree
    <3>5. F[u] = Table(u)[u]
      BY <2>3, <2>4, <3>4
    <3> QED BY <3>5 DEF u
  <2> QED BY <2>5, <2>6
<1>6. GrantTable(F, s)
  <2>1. F = [t \in SUBSET s |-> IF t = {} THEN NoGrants
                                ELSE Grant(F[EarlierOf(t)], LastInOrder(t))]
    BY <1>5
  <2> QED BY <2>1 DEF GrantTable
<1> QED BY <1>1, <1>6

(* What is granted after the tasks S.                                       *)
LEMMA GrantsUnfold ==
    ASSUME SchedulerTypeOK, NEW S \in SUBSET Enabled
    PROVE  Grants[S] = IF S = {} THEN NoGrants
                       ELSE Grant(Grants[S \ {LastInOrder(S)}], LastInOrder(S))
<1>1. Grants = CHOOSE F : GrantTable(F, Enabled)
  BY DEF Grants, GrantTable, NoGrants
<1>2. GrantTable(Grants, Enabled)
  BY <1>1, GrantTableExists
<1> QED BY <1>2 DEF GrantTable

-----------------------------------------------------------------------------
(* What the grants keep to.                                                 *)

Target(c) == tasks_[c].config.target_fps

Spent(g, T) == SumFunction([d \in T |-> Cost(d) * g.fps[d]])

Counted(g, S) == {c \in S : ~(c \in g.throttled /\ g.fps[c] = 1)}

(* A task gets its rate, or a part of it: at least one frame, and one more  *)
(* would not have fitted if it is the first that gets a part only.          *)
ShareRight(g, S, c) ==
    LET before == {d \in S : Precedes(d, c)}
    IN  /\ IF c \in g.throttled THEN 1 =< g.fps[c] /\ g.fps[c] =< Target(c)
           ELSE g.fps[c] = Target(c)
        /\ c \in g.throttled =>
             IF \E d \in before : d \in g.throttled THEN g.fps[c] = 1
             ELSE Spent(g, before \union {c}) + Cost(c) > gpu_budget_
        /\ Needed(c) > 0 /\ (\E d \in before : d \in g.throttled) => c \in g.throttled

SharesRight(S) ==
    LET g == Grants[S]
    IN  /\ g \in [remaining : Nat, fps : [S -> Nat], throttled : SUBSET S]
        /\ g.throttled # {} => g.remaining = 0
        /\ g.throttled = {} => Spent(g, S) + g.remaining = gpu_budget_
        /\ Spent(g, Counted(g, S)) + g.remaining =< gpu_budget_
        /\ \A c \in S : ShareRight(g, S, c)

GrantTypes(S) == [remaining : Nat, fps : [S -> Nat], throttled : SUBSET S]

(* One more task in a sum of costs, in which the others keep theirs.        *)
LEMMA SpentAdds ==
    ASSUME SchedulerTypeOK, NEW T \in SUBSET DOMAIN tasks_, NEW c \in DOMAIN tasks_,
           c \notin T, NEW g, \A d \in T \union {c} : g.fps[d] \in Nat
    PROVE  /\ Spent(g, T) \in Nat
           /\ Spent(g, T \union {c}) = Spent(g, T) + Cost(c) * g.fps[c]
<1>1. IsFiniteSet(T)
  BY SchedulerAssumption, FS_Subset DEF SchedulerTypeOK
<1> DEFINE U == T \union {c}
           f == [d \in U |-> Cost(d) * g.fps[d]]
<1>2. \A d \in U : f[d] \in Nat
  <2> SUFFICES ASSUME NEW d \in U PROVE Cost(d) * g.fps[d] \in Nat
    OBVIOUS
  <2>1. Cost(d) \in Nat /\ g.fps[d] \in Nat
    BY CostType
  <2>2. \A a, b \in Nat : a * b \in Nat
    OBVIOUS
  <2> QED BY <2>1, <2>2
<1>3. /\ [y \in T |-> f[y]] = [d \in T |-> Cost(d) * g.fps[d]]
      /\ [y \in U |-> f[y]] = [d \in U |-> Cost(d) * g.fps[d]]
      /\ f[c] = Cost(c) * g.fps[c]
  OBVIOUS
<1>4. /\ Spent(g, T) = SumFunction([y \in T |-> f[y]])
      /\ Spent(g, U) = SumFunction([y \in U |-> f[y]])
  BY <1>3 DEF Spent
<1> HIDE DEF f
<1>5. /\ SumFunction([y \in T |-> f[y]]) \in Nat
      /\ SumFunction([y \in U |-> f[y]]) = SumFunction([y \in T |-> f[y]]) + f[c]
  BY <1>1, <1>2, SumAdds
<1> QED BY <1>3, <1>4, <1>5

(* The same rates cost the same.                                            *)
LEMMA SpentSame ==
    ASSUME NEW g, NEW h, NEW T, \A d \in T : h.fps[d] = g.fps[d]
    PROVE  Spent(h, T) = Spent(g, T)
<1>1. [d \in T |-> Cost(d) * h.fps[d]] = [d \in T |-> Cost(d) * g.fps[d]]
  OBVIOUS
<1> QED BY <1>1 DEF Spent

(* Granting leaves what the others got, and takes from the rest.            *)
GrantStep(g, h, R, c) ==
    /\ h \in GrantTypes(R \union {c})
    /\ \A d \in R : h.fps[d] = g.fps[d] /\ (d \in h.throttled <=> d \in g.throttled)
    /\ c \notin h.throttled =>
         /\ h.fps[c] = Target(c)
         /\ g.remaining = h.remaining + Cost(c) * h.fps[c]
    /\ c \in h.throttled =>
         /\ Needed(c) > 0 /\ h.remaining = 0
         /\ 1 =< h.fps[c] /\ h.fps[c] =< Target(c)
         /\ h.fps[c] = 1 \/ Cost(c) * h.fps[c] =< g.remaining
         /\ Cost(c) * h.fps[c] + Cost(c) > g.remaining
    /\ g.remaining = 0 =>
         /\ h.remaining = 0
         /\ Needed(c) > 0 => c \in h.throttled
         /\ c \in h.throttled => h.fps[c] = 1

(* What one round of the loop does, in whichever of its branches.           *)
LEMMA GrantOutcome ==
    ASSUME SchedulerTypeOK, NEW R \in SUBSET DOMAIN tasks_, NEW c \in DOMAIN tasks_,
           c \notin R, NEW g \in GrantTypes(R)
    PROVE  GrantStep(g, Grant(g, c), R, c)
<1> DEFINE rest == g.remaining
           cost == Cost(c)
           target == Target(c)
           need == Needed(c)
           part == IF rest > 0 /\ cost > 0 /\ rest \div cost > 1 THEN rest \div cost ELSE 1
           full == rest >= need
           x == IF full THEN target ELSE part
           h == Grant(g, c)
           left == IF full THEN rest - need ELSE IF rest > 0 /\ cost > 0 THEN 0 ELSE rest
<1>1. /\ rest \in Nat /\ g.fps \in [R -> Nat] /\ g.throttled \in SUBSET R
      /\ cost \in Nat /\ need \in Nat /\ target \in Nat /\ need = cost * target
  BY CostType DEF GrantTypes, Target
<1>2. h = [remaining |-> left, fps |-> Put(g.fps, c, x),
           throttled |-> IF full THEN g.throttled ELSE g.throttled \union {c}]
  BY DEF Grant, Target
<1>3. /\ DOMAIN Put(g.fps, c, x) = R \union {c}
      /\ Put(g.fps, c, x) = [d \in R \union {c} |-> IF d \in R THEN g.fps[d] ELSE x]
  BY <1>1 DEF Put
<1>4. ASSUME ~full
      PROVE  /\ cost > 0 /\ part \in Nat /\ 1 =< part /\ part =< target
             /\ part = 1 \/ cost * part =< rest
             /\ cost * part + cost > rest /\ left = 0 /\ need > 0
  <2>1. rest < cost * target
    BY <1>1, <1>4
  <2>2. /\ cost > 0 /\ part \in Nat /\ 1 =< part /\ part =< target
        /\ part = 1 \/ cost * part =< rest
        /\ cost * part + cost > rest
    BY <1>1, <2>1, PartialShare
  <2> HIDE DEF part
  <2> QED BY <1>1, <1>4, <2>1, <2>2
<1>5. full => left \in Nat /\ rest = left + cost * target
  BY <1>1
<1>6. rest = 0 => part = 1 /\ left = 0 /\ (need > 0 => ~full)
  BY <1>1
<1>7. /\ h.remaining = left /\ h.fps = [d \in R \union {c} |-> IF d \in R THEN g.fps[d] ELSE x]
      /\ h.throttled = IF full THEN g.throttled ELSE g.throttled \union {c}
      /\ h = [remaining |-> h.remaining, fps |-> h.fps, throttled |-> h.throttled]
  BY <1>2, <1>3
<1>8. x \in Nat
  BY <1>1, <1>4
<1>9. c \in h.throttled <=> ~full
  BY <1>1, <1>7
<1>10. h.fps[c] = x
  BY <1>7
<1> HIDE DEF h, part, left, full, need, target, cost, rest
<1>11. h \in GrantTypes(R \union {c})
  <2>1. left \in Nat
    BY <1>4, <1>5
  <2>2. h.fps \in [R \union {c} -> Nat] /\ h.throttled \in SUBSET (R \union {c})
    BY <1>1, <1>7, <1>8
  <2> QED BY <1>7, <2>1, <2>2 DEF GrantTypes
<1>12. \A d \in R : h.fps[d] = g.fps[d] /\ (d \in h.throttled <=> d \in g.throttled)
  BY <1>7
<1>13. c \notin h.throttled => h.fps[c] = target /\ rest = h.remaining + cost * h.fps[c]
  BY <1>5, <1>7, <1>9, <1>10
<1>14. c \in h.throttled =>
         /\ need > 0 /\ h.remaining = 0
         /\ 1 =< h.fps[c] /\ h.fps[c] =< target
         /\ h.fps[c] = 1 \/ cost * h.fps[c] =< rest
         /\ cost * h.fps[c] + cost > rest
  BY <1>4, <1>7, <1>9, <1>10
<1>15. rest = 0 => /\ h.remaining = 0
                   /\ need > 0 => c \in h.throttled
                   /\ c \in h.throttled => h.fps[c] = 1
  BY <1>6, <1>7, <1>9, <1>10
<1> QED BY <1>11, <1>12, <1>13, <1>14, <1>15 DEF GrantStep, h, need, target, cost, rest

(* Granting to the last task of S keeps the shares right.                   *)
LEMMA ShareStep ==
    ASSUME SchedulerTypeOK, NEW S \in SUBSET Enabled, S # {},
           SharesRight(S \ {LastInOrder(S)})
    PROVE  SharesRight(S)
<1> DEFINE c == LastInOrder(S)
           R == S \ {c}
           g == Grants[R]
           h == Grants[S]
<1>1. c \in S /\ \A d \in R : Precedes(d, c)
  BY LastIsLast
<1>2. /\ S \subseteq DOMAIN tasks_ /\ R \in SUBSET DOMAIN tasks_ /\ c \in DOMAIN tasks_
      /\ c \notin R /\ R \union {c} = S /\ R \subseteq S
  BY <1>1, EnabledFinite
<1>3. /\ g \in GrantTypes(R)
      /\ g.throttled # {} => g.remaining = 0
      /\ g.throttled = {} => Spent(g, R) + g.remaining = gpu_budget_
      /\ Spent(g, Counted(g, R)) + g.remaining =< gpu_budget_
      /\ \A d \in R : ShareRight(g, R, d)
  BY DEF SharesRight, GrantTypes
<1>4. h = Grant(g, c)
  BY GrantsUnfold
<1>5. GrantStep(g, h, R, c)
  BY <1>2, <1>3, <1>4, GrantOutcome
<1> HIDE DEF c, R, g, h
<1>6. /\ h \in GrantTypes(S)
      /\ \A d \in R : h.fps[d] = g.fps[d] /\ (d \in h.throttled <=> d \in g.throttled)
      /\ c \notin h.throttled =>
           /\ h.fps[c] = Target(c)
           /\ g.remaining = h.remaining + Cost(c) * h.fps[c]
      /\ c \in h.throttled =>
           /\ Needed(c) > 0 /\ h.remaining = 0
           /\ 1 =< h.fps[c] /\ h.fps[c] =< Target(c)
           /\ h.fps[c] = 1 \/ Cost(c) * h.fps[c] =< g.remaining
           /\ Cost(c) * h.fps[c] + Cost(c) > g.remaining
      /\ g.remaining = 0 =>
           /\ h.remaining = 0
           /\ Needed(c) > 0 => c \in h.throttled
           /\ c \in h.throttled => h.fps[c] = 1
  BY <1>2, <1>5 DEF GrantStep
<1>7. /\ h.remaining \in Nat /\ h.throttled \in SUBSET S /\ (\A d \in S : h.fps[d] \in Nat)
      /\ g.remaining \in Nat /\ g.throttled \in SUBSET R
  BY <1>3, <1>6 DEF GrantTypes
<1>8. Cost(c) \in Nat /\ Cost(c) * h.fps[c] \in Nat /\ gpu_budget_ \in Nat
  <2>1. Cost(c) \in Nat /\ h.fps[c] \in Nat
    BY <1>1, <1>2, <1>7, CostType
  <2>2. \A a, b \in Nat : a * b \in Nat
    OBVIOUS
  <2> QED BY <2>1, <2>2 DEF SchedulerTypeOK
<1>9. ASSUME NEW T \in SUBSET R
      PROVE  /\ Spent(h, T) = Spent(g, T) /\ Spent(h, T) \in Nat
             /\ Spent(h, T \union {c}) = Spent(h, T) + Cost(c) * h.fps[c]
  <2>1. T \in SUBSET DOMAIN tasks_ /\ c \notin T /\ \A d \in T \union {c} : h.fps[d] \in Nat
    BY <1>1, <1>2, <1>7
  <2>2. Spent(h, T) = Spent(g, T)
    BY <1>6, SpentSame
  <2> QED BY <1>2, <2>1, <2>2, SpentAdds
<1>10. h.throttled # {} => h.remaining = 0
  <2>1. CASE c \in h.throttled
    BY <1>6, <2>1
  <2>2. CASE c \notin h.throttled /\ h.throttled # {}
    <3>1. g.throttled # {}
      BY <1>2, <1>6, <1>7, <2>2
    <3> QED BY <1>3, <1>6, <3>1
  <2> QED BY <2>1, <2>2
<1>11. h.throttled = {} => Spent(h, S) + h.remaining = gpu_budget_
  <2> SUFFICES ASSUME h.throttled = {} PROVE Spent(h, S) + h.remaining = gpu_budget_
    OBVIOUS
  <2>1. g.throttled = {}
    BY <1>6, <1>7
  <2>2. /\ Spent(h, R) = Spent(g, R) /\ Spent(h, R) \in Nat
        /\ Spent(h, S) = Spent(h, R) + Cost(c) * h.fps[c]
    BY <1>2, <1>9
  <2>3. g.remaining = h.remaining + Cost(c) * h.fps[c] /\ Spent(g, R) + g.remaining = gpu_budget_
    BY <1>3, <1>6, <2>1
  <2> QED BY <1>7, <1>8, <2>2, <2>3
<1>12. Spent(h, Counted(h, S)) + h.remaining =< gpu_budget_
  <2> DEFINE T == Counted(g, R)
  <2>1. T \in SUBSET R
    BY DEF Counted
  <2>2. Counted(h, S) = IF c \in h.throttled /\ h.fps[c] = 1 THEN T ELSE T \union {c}
    BY <1>2, <1>6 DEF Counted
  <2>3. Spent(g, T) + g.remaining =< gpu_budget_
    BY <1>3
  <2> HIDE DEF T
  <2>4. /\ Spent(h, T) = Spent(g, T) /\ Spent(h, T) \in Nat
        /\ Spent(h, T \union {c}) = Spent(h, T) + Cost(c) * h.fps[c]
    BY <1>9, <2>1
  <2>5. CASE c \in h.throttled /\ h.fps[c] = 1
    BY <1>6, <1>7, <1>8, <2>2, <2>3, <2>4, <2>5
  <2>6. CASE c \in h.throttled /\ h.fps[c] # 1
    BY <1>6, <1>7, <1>8, <2>2, <2>3, <2>4, <2>6
  <2>7. CASE c \notin h.throttled
    BY <1>6, <1>7, <1>8, <2>2, <2>3, <2>4, <2>7
  <2> QED BY <2>5, <2>6, <2>7
<1>13. ASSUME NEW d \in R PROVE ShareRight(h, S, d)
  <2> DEFINE B == {e \in R : Precedes(e, d)}
  <2>1. ~Precedes(c, d)
    BY <1>1, <1>2, PrecedesOrders DEF R, c
  <2>2. {e \in S : Precedes(e, d)} = B
    BY <1>2, <2>1
  <2>3. B \union {d} \in SUBSET R
    OBVIOUS
  <2>4. Spent(h, B \union {d}) = Spent(g, B \union {d})
    BY <1>9, <2>3
  <2>5. (\E e \in B : e \in h.throttled) <=> (\E e \in B : e \in g.throttled)
    BY <1>6
  <2>6. ShareRight(g, R, d) /\ h.fps[d] = g.fps[d] /\ (d \in h.throttled <=> d \in g.throttled)
    BY <1>3, <1>6
  <2> QED BY <2>2, <2>4, <2>5, <2>6 DEF ShareRight
<1>14. ShareRight(h, S, c)
  <2>1. {e \in S : Precedes(e, c)} = R
    <3>1. ~Precedes(c, c)
      BY <1>2, PrecedesOrders
    <3>2. \A d \in R : Precedes(d, c)
      BY <1>1
    <3> QED BY <1>2, <3>1, <3>2
  <2>2. (\E d \in R : d \in h.throttled) <=> g.throttled # {}
    BY <1>6, <1>7
  <2>3. IF c \in h.throttled THEN 1 =< h.fps[c] /\ h.fps[c] =< Target(c)
        ELSE h.fps[c] = Target(c)
    BY <1>6
  <2>4. CASE g.throttled # {}
    BY <1>3, <1>6, <2>1, <2>2, <2>3, <2>4 DEF ShareRight
  <2>5. CASE g.throttled = {}
    <3>1. ASSUME c \in h.throttled PROVE Spent(h, R \union {c}) + Cost(c) > gpu_budget_
      <4>1. /\ Spent(h, R) = Spent(g, R) /\ Spent(h, R) \in Nat
            /\ Spent(h, R \union {c}) = Spent(h, R) + Cost(c) * h.fps[c]
        BY <1>9
      <4>2. Spent(g, R) + g.remaining = gpu_budget_ /\ Cost(c) * h.fps[c] + Cost(c) > g.remaining
        BY <1>3, <1>6, <2>5, <3>1
      <4> QED BY <1>7, <1>8, <4>1, <4>2
    <3> QED BY <2>1, <2>2, <2>3, <2>5, <3>1 DEF ShareRight
  <2> QED BY <2>4, <2>5
<1>15. \A d \in S : ShareRight(h, S, d)
  BY <1>2, <1>13, <1>14
<1> QED BY <1>6, <1>10, <1>11, <1>12, <1>15 DEF SharesRight, GrantTypes, h

(* So they are right for all the tasks.                                     *)
LEMMA SharesAlwaysRight ==
    ASSUME SchedulerTypeOK
    PROVE  SharesRight(Enabled)
<1> DEFINE Bad == {S \in SUBSET Enabled : ~SharesRight(S)}
<1> SUFFICES ASSUME Bad # {} PROVE FALSE
  OBVIOUS
<1>1. PICK S \in Bad : \A T \in Bad : ~(T \subseteq S /\ T # S)
  <2>1. Bad \in SUBSET (SUBSET Enabled)
    OBVIOUS
  <2> HIDE DEF Bad
  <2> QED BY <2>1, EnabledFinite, LeastSubset
<1>2. CASE S = {}
  <2> DEFINE g == Grants[{}]
  <2>1. g = NoGrants
    BY GrantsUnfold
  <2>2. /\ g \in [remaining : Nat, fps : [{} -> Nat], throttled : SUBSET {}]
        /\ g.throttled = {} /\ g.remaining = gpu_budget_ /\ gpu_budget_ \in Nat
    BY <2>1 DEF NoGrants, SchedulerTypeOK
  <2> HIDE DEF g
  <2>3. Counted(g, {}) = {}
    BY DEF Counted
  <2>4. Spent(g, {}) = 0
    <3>1. DOMAIN [d \in {} |-> Cost(d) * g.fps[d]] = {}
      OBVIOUS
    <3> QED BY <3>1, SumOfNone DEF Spent
  <2>5. Spent(g, Counted(g, {})) = 0
    BY <2>3, <2>4, Zenon
  <2>6. Spent(g, {}) + g.remaining = gpu_budget_ /\ Spent(g, Counted(g, {})) + g.remaining =< gpu_budget_
    BY <2>2, <2>4, <2>5
  <2>7. SharesRight({})
    BY <2>2, <2>6 DEF SharesRight, g
  <2>8. SharesRight(S)
    BY <1>2, <2>7, Zenon
  <2> QED BY <2>8
<1>3. CASE S # {}
  <2>1. LastInOrder(S) \in S
    BY <1>3, LastIsLast
  <2>2. SharesRight(S \ {LastInOrder(S)})
    BY <1>1, <2>1
  <2> QED BY <1>3, <2>2, ShareStep
<1> QED BY <1>2, <1>3

-----------------------------------------------------------------------------
(* BudgetShared in two parts: what a rebalance leaves, and how often a      *)
(* channel is analysed.                                                     *)
SharedNow ==
    /\ Used({c \in Enabled : ~(tasks_[c].is_throttled
                               /\ tasks_[c].effective_fps = 1)})
         <= gpu_budget_
    /\ \A c \in Enabled :
         LET before == {d \in Enabled : Precedes(d, c)}
         IN  /\ tasks_[c].effective_fps <= tasks_[c].config.target_fps
             /\ tasks_[c].is_throttled =>
                  IF \E d \in before : tasks_[d].is_throttled
                  THEN tasks_[c].effective_fps = 1
                  ELSE Used(before \union {c}) + Cost(c) > gpu_budget_
             /\ Needed(c) > 0 /\ (\E d \in before : tasks_[d].is_throttled)
                  => tasks_[c].is_throttled

IntervalsKept ==
    \A c \in DOMAIN tasks_ : tasks_[c].config.target_fps > 0 =>
      tasks_[c].frame_interval >= Second \div tasks_[c].config.target_fps

SchedulerInv == SchedulerTypeOK /\ (changes = 0 => SharedNow) /\ IntervalsKept

(* The tasks' settings and reports, on which order and costs depend.        *)
SameTasks ==
    /\ DOMAIN tasks_' = DOMAIN tasks_
    /\ \A c \in DOMAIN tasks_ :
         /\ tasks_'[c].config = tasks_[c].config
         /\ tasks_'[c].total_inferences = tasks_[c].total_inferences
         /\ tasks_'[c].total_time = tasks_[c].total_time

(* They are all that order and costs depend on.                             *)
LEMMA SameOrder ==
    ASSUME SameTasks
    PROVE  /\ Enabled' = Enabled
           /\ \A c \in DOMAIN tasks_ : Cost(c)' = Cost(c) /\ Needed(c)' = Needed(c)
           /\ \A c, d \in DOMAIN tasks_ : Precedes(c, d)' <=> Precedes(c, d)
<1>1. Enabled' = Enabled
  BY DEF SameTasks, Enabled
<1>2. \A c \in DOMAIN tasks_ : Cost(c)' = Cost(c) /\ Needed(c)' = Needed(c)
  BY DEF SameTasks, Cost, Needed
<1>3. ASSUME NEW c \in DOMAIN tasks_ PROVE Priority(c)' = Priority(c)
  BY DEF SameTasks, Priority
<1>4. \A c, d \in DOMAIN tasks_ : Precedes(c, d)' <=> Precedes(c, d)
  BY <1>3 DEF Precedes
<1> QED BY <1>1, <1>2, <1>4

(* What a rebalance writes are grants that share the budget.                *)
SharedBy(g) ==
    /\ \A c \in Enabled :
         /\ g.fps[c] \in Nat /\ tasks_'[c].effective_fps = g.fps[c]
         /\ (tasks_'[c].is_throttled <=> c \in g.throttled)
         /\ ShareRight(g, Enabled, c)
    /\ Spent(g, Counted(g, Enabled)) =< gpu_budget_

(* If all get what they ask for, they cost what they need.                  *)
LEMMA NeededSum ==
    ASSUME SchedulerTypeOK, NEW g, \A c \in Enabled : g.fps[c] = Target(c)
    PROVE  /\ Spent(g, Enabled) = SumFunction([c \in Enabled |-> Needed(c)])
           /\ SumFunction([c \in Enabled |-> Needed(c)]) \in Nat
<1>1. ASSUME NEW c \in Enabled PROVE Needed(c) = Cost(c) * g.fps[c] /\ Needed(c) \in Nat
  BY CostType, EnabledFinite DEF Target
<1>2. [c \in Enabled |-> Cost(c) * g.fps[c]] = [c \in Enabled |-> Needed(c)]
  BY <1>1
<1>3. Spent(g, Enabled) = SumFunction([c \in Enabled |-> Needed(c)])
  BY <1>2 DEF Spent
<1> DEFINE f == [c \in Enabled |-> Needed(c)]
<1>4. SumFunctionOnSet(f, Enabled) \in Nat
  <2>1. \A c \in Enabled : f[c] \in Nat
    BY <1>1
  <2> HIDE DEF f
  <2> QED BY <2>1, EnabledFinite, SumType
<1>5. SumFunction(f) = SumFunctionOnSet(f, DOMAIN f)
  BY DEF SumFunction, SumFunctionOnSet, FoldFunction
<1>6. DOMAIN f = Enabled
  OBVIOUS
<1>7. SumFunction(f) \in Nat
  BY <1>4, <1>5, <1>6, Zenon
<1> QED BY <1>3, <1>7

(* Both branches of RebalanceBudget write such grants.                      *)
LEMMA RebalanceShares ==
    ASSUME SchedulerTypeOK, RebalanceBudget
    PROVE  SameTasks /\ \E g : SharedBy(g)
<1>0. ASSUME NEW c \in DOMAIN tasks_
      PROVE  tasks_[c] \in TaskState
  BY DEF SchedulerTypeOK
<1>1. ASSUME NEW c \in DOMAIN tasks_
      PROVE  /\ tasks_'[c].config = tasks_[c].config
             /\ tasks_'[c].total_inferences = tasks_[c].total_inferences
             /\ tasks_'[c].total_time = tasks_[c].total_time
  BY <1>0, <1>1 DEF RebalanceBudget, TaskState
<1>2. DOMAIN tasks_' = DOMAIN tasks_
  BY DEF RebalanceBudget
<1>3. CASE Oversubscribed
  <2> DEFINE g == Grants[Enabled]
  <2>1. ASSUME NEW c \in Enabled
        PROVE  /\ tasks_'[c].effective_fps = g.fps[c]
               /\ (tasks_'[c].is_throttled <=> c \in g.throttled)
    <3>1. c \in DOMAIN tasks_
      BY EnabledFinite
    <3> DEFINE fps == IF ~Oversubscribed THEN tasks_[c].config.target_fps
                      ELSE IF c \in Enabled THEN g.fps[c] ELSE tasks_[c].effective_fps
               t == Oversubscribed /\ c \in g.throttled
               i == Interval(fps, tasks_[c].frame_interval)
    <3>2. tasks_'[c] = [tasks_[c] EXCEPT !.is_throttled = t, !.effective_fps = fps,
                                         !.frame_interval = i]
      BY <1>3, <2>1, <3>1 DEF RebalanceBudget
    <3>3. tasks_[c] \in TaskState
      BY <1>0, <3>1
    <3> HIDE DEF fps, t, i
    <3>4. tasks_'[c].effective_fps = fps /\ (tasks_'[c].is_throttled <=> t)
      BY <3>2, <3>3 DEF TaskState
    <3>5. fps = g.fps[c] /\ (t <=> c \in g.throttled)
      BY <1>3, <2>1 DEF fps, t
    <3> QED BY <3>4, <3>5
  <2>2. /\ g.fps \in [Enabled -> Nat] /\ g.remaining \in Nat /\ g.throttled \in SUBSET Enabled
        /\ Spent(g, Counted(g, Enabled)) + g.remaining =< gpu_budget_
        /\ \A c \in Enabled : ShareRight(g, Enabled, c)
    BY SharesAlwaysRight DEF SharesRight
  <2> HIDE DEF g
  <2>3. Spent(g, Counted(g, Enabled)) \in Nat
    <3> DEFINE T == Counted(g, Enabled)
               f == [d \in T |-> Cost(d) * g.fps[d]]
    <3>1. T \subseteq Enabled /\ T \subseteq DOMAIN tasks_ /\ IsFiniteSet(T)
      BY EnabledFinite, FS_Subset DEF Counted
    <3>2. ASSUME NEW d \in T PROVE f[d] \in Nat
      <4>1. Cost(d) \in Nat /\ g.fps[d] \in Nat
        BY <2>2, <3>1, CostType
      <4>2. \A a, b \in Nat : a * b \in Nat
        OBVIOUS
      <4> QED BY <4>1, <4>2
    <3>3. SumFunction(f) = SumFunctionOnSet(f, DOMAIN f) /\ DOMAIN f = T
      BY DEF SumFunction, SumFunctionOnSet, FoldFunction
    <3>4. SumFunctionOnSet(f, T) \in Nat
      <4> HIDE DEF f, T
      <4> QED BY <3>1, <3>2, SumType
    <3>5. SumFunction(f) \in Nat
      BY <3>3, <3>4, Zenon
    <3> QED BY <3>5 DEF Spent
  <2>4. gpu_budget_ \in Nat
    BY DEF SchedulerTypeOK
  <2>5. SharedBy(g)
    BY <2>1, <2>2, <2>3, <2>4 DEF SharedBy
  <2> QED BY <1>1, <1>2, <2>5 DEF SameTasks
<1>4. CASE ~Oversubscribed
  <2> DEFINE g == [remaining |-> 0, fps |-> [c \in Enabled |-> Target(c)], throttled |-> {}]
  <2>1. g.fps = [c \in Enabled |-> Target(c)] /\ g.throttled = {}
    OBVIOUS
  <2> HIDE DEF g
  <2>2. ASSUME NEW c \in Enabled
        PROVE  /\ g.fps[c] \in Nat /\ tasks_'[c].effective_fps = g.fps[c]
               /\ (tasks_'[c].is_throttled <=> c \in g.throttled)
               /\ ShareRight(g, Enabled, c)
    <3>1. c \in DOMAIN tasks_ /\ g.fps[c] = Target(c) /\ Target(c) \in Nat
      BY <2>1, CostType, EnabledFinite DEF Target
    <3>2. tasks_'[c].effective_fps = Target(c) /\ tasks_'[c].is_throttled = FALSE
      BY <1>0, <1>4, <3>1 DEF RebalanceBudget, TaskState, Target
    <3>3. ShareRight(g, Enabled, c)
      BY <2>1, <3>1 DEF ShareRight
    <3> QED BY <2>1, <3>1, <3>2, <3>3
  <2>3. Counted(g, Enabled) = Enabled
    BY <2>1 DEF Counted
  <2>4. Spent(g, Enabled) = SumFunction([c \in Enabled |-> Needed(c)])
    BY <2>1, NeededSum
  <2>5. SumFunction([c \in Enabled |-> Needed(c)]) =< gpu_budget_
    <3>1. SumFunction([c \in Enabled |-> Needed(c)]) \in Nat /\ gpu_budget_ \in Nat
      BY <2>1, NeededSum DEF SchedulerTypeOK
    <3> QED BY <1>4, <3>1 DEF Oversubscribed
  <2>6. Spent(g, Counted(g, Enabled)) =< gpu_budget_
    BY <2>3, <2>4, <2>5, Zenon
  <2>7. SharedBy(g)
    BY <2>2, <2>6 DEF SharedBy
  <2> QED BY <1>1, <1>2, <2>7 DEF SameTasks
<1> QED BY <1>3, <1>4

(* Grants that share the budget, once written, leave it shared.             *)
LEMMA SharedByShares ==
    ASSUME SchedulerTypeOK, SameTasks, gpu_budget_' = gpu_budget_, NEW g, SharedBy(g)
    PROVE  SharedNow'
<1>1. PICK E : E = Enabled
  OBVIOUS
<1>2. /\ Enabled' = E
      /\ E \subseteq DOMAIN tasks_
      /\ \A c \in E : Cost(c)' = Cost(c) /\ Needed(c)' = Needed(c)
      /\ \A c, d \in E : Precedes(c, d)' <=> Precedes(c, d)
  BY <1>1, EnabledFinite, SameOrder
<1>3. /\ \A c \in E :
           /\ g.fps[c] \in Nat /\ tasks_'[c].effective_fps = g.fps[c]
           /\ (tasks_'[c].is_throttled <=> c \in g.throttled)
           /\ ShareRight(g, E, c)
           /\ tasks_'[c].config = tasks_[c].config
      /\ Spent(g, Counted(g, E)) =< gpu_budget_
  BY <1>1, <1>2 DEF SharedBy, SameTasks
<1>4. ASSUME NEW T \in SUBSET E PROVE Used(T)' = Spent(g, T)
  <2>1. [c \in T |-> Cost(c)' * tasks_'[c].effective_fps] = [c \in T |-> Cost(c) * g.fps[c]]
    BY <1>2, <1>3
  <2> QED BY <2>1 DEF Used, Spent
<1>5. Used({c \in Enabled : ~(tasks_[c].is_throttled /\ tasks_[c].effective_fps = 1)})'
        <= gpu_budget_'
  <2>1. PICK T : T = {c \in E : ~(tasks_'[c].is_throttled /\ tasks_'[c].effective_fps = 1)}
    OBVIOUS
  <2>2. T = Counted(g, E) /\ T \in SUBSET E
    BY <1>3, <2>1 DEF Counted
  <2>3. Used(T)' =< gpu_budget_'
    BY <1>3, <1>4, <2>2
  <2>4. T = {c \in Enabled' : ~(tasks_'[c].is_throttled /\ tasks_'[c].effective_fps = 1)}
    BY <1>2, <2>1
  <2> QED BY <2>3, <2>4, Zenon DEF Used
<1>6. ASSUME NEW c \in E
      PROVE  \E B :
               /\ B = {d \in Enabled' : Precedes(d, c)'}
               /\ tasks_'[c].effective_fps <= tasks_'[c].config.target_fps
               /\ tasks_'[c].is_throttled =>
                    IF \E d \in B : tasks_'[d].is_throttled
                    THEN tasks_'[c].effective_fps = 1
                    ELSE Used(B \union {c})' + Cost(c)' > gpu_budget_'
               /\ Needed(c)' > 0 /\ (\E d \in B : tasks_'[d].is_throttled)
                    => tasks_'[c].is_throttled
  <2>1. PICK B : B = {d \in E : Precedes(d, c)}
    OBVIOUS
  <2>2. B = {d \in Enabled' : Precedes(d, c)'} /\ B \union {c} \in SUBSET E
    BY <1>2, <2>1
  <2>3. Used(B \union {c})' = Spent(g, B \union {c})
    BY <1>4, <2>2
  <2>4. (\E d \in B : tasks_'[d].is_throttled) <=> (\E d \in B : d \in g.throttled)
    BY <1>3, <2>2
  <2>5. /\ tasks_'[c].effective_fps = g.fps[c] /\ g.fps[c] \in Nat
        /\ (tasks_'[c].is_throttled <=> c \in g.throttled)
        /\ tasks_'[c].config.target_fps = Target(c)
        /\ Cost(c)' = Cost(c) /\ Needed(c)' = Needed(c)
    BY <1>2, <1>3 DEF Target
  <2>6. /\ IF c \in g.throttled THEN 1 =< g.fps[c] /\ g.fps[c] =< Target(c)
           ELSE g.fps[c] = Target(c)
        /\ c \in g.throttled =>
             IF \E d \in B : d \in g.throttled THEN g.fps[c] = 1
             ELSE Spent(g, B \union {c}) + Cost(c) > gpu_budget_
        /\ Needed(c) > 0 /\ (\E d \in B : d \in g.throttled) => c \in g.throttled
    BY <1>3, <2>1 DEF ShareRight
  <2>7. g.fps[c] =< Target(c)
    BY <2>5, <2>6
  <2>8. /\ tasks_'[c].effective_fps <= tasks_'[c].config.target_fps
        /\ tasks_'[c].is_throttled =>
             IF \E d \in B : tasks_'[d].is_throttled
             THEN tasks_'[c].effective_fps = 1
             ELSE Used(B \union {c})' + Cost(c)' > gpu_budget_'
        /\ Needed(c)' > 0 /\ (\E d \in B : tasks_'[d].is_throttled)
             => tasks_'[c].is_throttled
    BY <2>3, <2>4, <2>5, <2>6, <2>7
  <2> QED BY <2>2, <2>8
<1>7. ASSUME NEW c \in E
      PROVE  (LET before == {d \in Enabled : Precedes(d, c)}
              IN  /\ tasks_[c].effective_fps <= tasks_[c].config.target_fps
                  /\ tasks_[c].is_throttled =>
                       IF \E d \in before : tasks_[d].is_throttled
                       THEN tasks_[c].effective_fps = 1
                       ELSE Used(before \union {c}) + Cost(c) > gpu_budget_
                  /\ Needed(c) > 0 /\ (\E d \in before : tasks_[d].is_throttled)
                       => tasks_[c].is_throttled)'
  BY <1>6, Zenon DEF Used
<1> QED BY <1>2, <1>5, <1>7 DEF SharedNow

(* Intervals are numbers.                                                   *)
LEMMA IntervalType ==
    ASSUME NEW fps \in Nat, NEW other \in Nat
    PROVE  Interval(fps, other) \in Nat
<1>1. fps > 0 => Second \div fps \in Nat
  BY SchedulerAssumption, Quotient
<1> QED BY <1>1 DEF Interval

(* No task is there at first.                                               *)
LEMMA SchedulerTypeInit == SchedulerInit => SchedulerTypeOK
<1> SUFFICES ASSUME SchedulerInit PROVE SchedulerTypeOK
  OBVIOUS
<1>1. DOMAIN tasks_ = {} /\ tasks_ = [c \in {} |-> <<>>]
  BY DEF SchedulerInit
<1> QED BY <1>1, SchedulerAssumption DEF SchedulerInit, SchedulerTypeOK

(* A rebalance writes numbers.                                              *)
LEMMA RebalanceType ==
    ASSUME SchedulerTypeOK, RebalanceBudget
    PROVE  /\ SchedulerTypeOK'
           /\ \A c \in DOMAIN tasks_ :
                \/ tasks_'[c] = tasks_[c]
                \/ \E fps \in Nat :
                     /\ c \in Enabled \/ fps = tasks_[c].config.target_fps
                     /\ fps = tasks_'[c].effective_fps
                     /\ tasks_'[c].frame_interval = Interval(fps, tasks_[c].frame_interval)
<1>1. ASSUME NEW c \in DOMAIN tasks_
      PROVE  /\ tasks_'[c] \in TaskState
             /\ \/ tasks_'[c] = tasks_[c]
                \/ \E fps \in Nat :
                     /\ c \in Enabled \/ fps = tasks_[c].config.target_fps
                     /\ fps = tasks_'[c].effective_fps
                     /\ tasks_'[c].frame_interval = Interval(fps, tasks_[c].frame_interval)
  <2> DEFINE g == Grants[Enabled]
             fps == IF ~Oversubscribed THEN tasks_[c].config.target_fps
                    ELSE IF c \in Enabled THEN g.fps[c] ELSE tasks_[c].effective_fps
             t == Oversubscribed /\ c \in g.throttled
             i == Interval(fps, tasks_[c].frame_interval)
             skipped == Oversubscribed /\ c \notin Enabled
  <2>1. tasks_'[c] = IF skipped THEN tasks_[c]
                     ELSE [tasks_[c] EXCEPT !.is_throttled = t, !.effective_fps = fps,
                                            !.frame_interval = i]
    BY <1>1 DEF RebalanceBudget
  <2>2. tasks_[c] \in TaskState
    BY DEF SchedulerTypeOK
  <2>3. CASE skipped
    BY <2>1, <2>2, <2>3
  <2>4. CASE ~skipped
    <3>1. fps \in Nat
      <4>1. tasks_[c].config.target_fps \in Nat
        BY CostType
      <4>2. c \in Enabled => g.fps[c] \in Nat
        BY SharesAlwaysRight DEF SharesRight
      <4> HIDE DEF g
      <4> QED BY <2>4, <4>1, <4>2
    <3>2. i \in Nat
      <4>1. tasks_[c].frame_interval \in Nat
        BY <2>2 DEF TaskState
      <4> HIDE DEF fps
      <4> QED BY <3>1, <4>1, IntervalType
    <3>3. c \in Enabled \/ fps = tasks_[c].config.target_fps
      BY <2>4
    <3>4. t \in BOOLEAN
      OBVIOUS
    <3>5. tasks_'[c] = [tasks_[c] EXCEPT !.is_throttled = t, !.effective_fps = fps,
                                         !.frame_interval = i]
      BY <2>1, <2>4
    <3>6. i = Interval(fps, tasks_[c].frame_interval)
      OBVIOUS
    <3> HIDE DEF fps, t, i, skipped, g
    <3>7. tasks_'[c] \in TaskState /\ tasks_'[c].effective_fps = fps
          /\ tasks_'[c].frame_interval = i
      BY <2>2, <3>1, <3>2, <3>4, <3>5 DEF TaskState
    <3> QED BY <3>1, <3>3, <3>6, <3>7
  <2> QED BY <2>3, <2>4
<1>2. /\ DOMAIN tasks_' = DOMAIN tasks_ /\ gpu_budget_' = gpu_budget_ /\ changes' = 0
      /\ tasks_' = [c \in DOMAIN tasks_ |-> tasks_'[c]]
  BY DEF RebalanceBudget
<1>3. SchedulerTypeOK'
  BY <1>1, <1>2 DEF SchedulerTypeOK
<1> QED BY <1>1, <1>3

(* No interval becomes shorter than that of the rate asked for.             *)
LEMMA RebalanceIntervals ==
    ASSUME SchedulerTypeOK, IntervalsKept, RebalanceBudget
    PROVE  IntervalsKept'
<1>1. SameTasks /\ SharedNow'
  <2>1. gpu_budget_' = gpu_budget_
    BY DEF RebalanceBudget
  <2> QED BY <2>1, RebalanceShares, SharedByShares
<1>2. Enabled' = Enabled
  BY <1>1, SameOrder
<1> SUFFICES ASSUME NEW c \in DOMAIN tasks_', tasks_'[c].config.target_fps > 0
             PROVE  tasks_'[c].frame_interval >= Second \div tasks_'[c].config.target_fps
  BY DEF IntervalsKept
<1>3. c \in DOMAIN tasks_ /\ tasks_'[c].config = tasks_[c].config
  BY <1>1 DEF SameTasks
<1> DEFINE target == tasks_[c].config.target_fps
<1>4. tasks_[c].frame_interval >= Second \div target /\ target \in Nat /\ target > 0
  BY <1>3, CostType DEF IntervalsKept
<1>5. CASE tasks_'[c] = tasks_[c]
  BY <1>4, <1>5
<1>6. CASE tasks_'[c] # tasks_[c]
  <2>1. PICK fps \in Nat :
          /\ c \in Enabled \/ fps = target
          /\ fps = tasks_'[c].effective_fps
          /\ tasks_'[c].frame_interval = Interval(fps, tasks_[c].frame_interval)
    BY <1>3, <1>6, RebalanceType
  <2>2. fps =< target
    <3>1. CASE c \in Enabled
      <4>1. tasks_'[c].effective_fps <= tasks_'[c].config.target_fps
        BY <1>1, <1>2, <3>1 DEF SharedNow
      <4> QED BY <1>3, <2>1, <4>1
    <3> QED BY <1>4, <2>1, <3>1
  <2>3. fps > 0 => Second \div fps >= Second \div target
    <3> SUFFICES ASSUME fps > 0 PROVE Second \div target =< Second \div fps
      <4>1. Second \div target \in Int /\ (fps > 0 => Second \div fps \in Int)
        BY <1>4, SchedulerAssumption, Quotient
      <4> QED BY <4>1
    <3>1. fps \in Nat \ {0} /\ Second \in Nat
      BY SchedulerAssumption
    <3> HIDE DEF target
    <3> QED BY <1>4, <2>2, <3>1, QuotientFalls
  <2>4. tasks_'[c].frame_interval >= Second \div target
    BY <1>4, <2>1, <2>3 DEF Interval
  <2> QED BY <1>3, <2>4
<1> QED BY <1>5, <1>6

(* A step that only looks at a task, or lets time pass, changes ages alone, *)
(* and every other call counts as a change.                                 *)
SameGrants ==
    /\ SameTasks /\ gpu_budget_' = gpu_budget_ /\ changes' = changes
    /\ \A c \in DOMAIN tasks_ :
         /\ (tasks_'[c].is_throttled <=> tasks_[c].is_throttled)
         /\ tasks_'[c].effective_fps = tasks_[c].effective_fps
         /\ tasks_'[c].frame_interval = tasks_[c].frame_interval

(* Such a step leaves the budget shared.                                    *)
LEMMA SameShares ==
    ASSUME SchedulerTypeOK, SameGrants, SharedNow
    PROVE  SharedNow'
<1>1. PICK E : E = Enabled
  OBVIOUS
<1>2. /\ Enabled' = E
      /\ E \subseteq DOMAIN tasks_
      /\ \A c \in E : Cost(c)' = Cost(c) /\ Needed(c)' = Needed(c)
      /\ \A c, d \in E : Precedes(c, d)' <=> Precedes(c, d)
  BY <1>1, EnabledFinite, SameOrder DEF SameGrants
<1>3. /\ \A c \in E :
           /\ tasks_'[c].effective_fps = tasks_[c].effective_fps
           /\ (tasks_'[c].is_throttled <=> tasks_[c].is_throttled)
           /\ tasks_'[c].config = tasks_[c].config
      /\ gpu_budget_' = gpu_budget_
  BY <1>2 DEF SameGrants, SameTasks
<1>4. ASSUME NEW T \in SUBSET E PROVE Used(T)' = Used(T)
  <2>1. [c \in T |-> Cost(c)' * tasks_'[c].effective_fps]
          = [c \in T |-> Cost(c) * tasks_[c].effective_fps]
    BY <1>2, <1>3
  <2> QED BY <2>1 DEF Used
<1>5. Used({c \in Enabled : ~(tasks_[c].is_throttled /\ tasks_[c].effective_fps = 1)})'
        <= gpu_budget_'
  <2>1. PICK T : T = {c \in Enabled : ~(tasks_[c].is_throttled /\ tasks_[c].effective_fps = 1)}
    OBVIOUS
  <2>2. T \in SUBSET E /\ Used(T) <= gpu_budget_
    BY <1>1, <2>1 DEF SharedNow
  <2>3. Used(T)' =< gpu_budget_'
    BY <1>3, <1>4, <2>2
  <2>4. T = {c \in Enabled' : ~(tasks_'[c].is_throttled /\ tasks_'[c].effective_fps = 1)}
    BY <1>1, <1>2, <1>3, <2>1
  <2> QED BY <2>3, <2>4, Zenon DEF Used
<1>6. ASSUME NEW c \in E
      PROVE  \E B :
               /\ B = {d \in Enabled' : Precedes(d, c)'}
               /\ tasks_'[c].effective_fps <= tasks_'[c].config.target_fps
               /\ tasks_'[c].is_throttled =>
                    IF \E d \in B : tasks_'[d].is_throttled
                    THEN tasks_'[c].effective_fps = 1
                    ELSE Used(B \union {c})' + Cost(c)' > gpu_budget_'
               /\ Needed(c)' > 0 /\ (\E d \in B : tasks_'[d].is_throttled)
                    => tasks_'[c].is_throttled
  <2>1. PICK B : B = {d \in Enabled : Precedes(d, c)}
    OBVIOUS
  <2>2. B = {d \in Enabled' : Precedes(d, c)'} /\ B \union {c} \in SUBSET E
    BY <1>1, <1>2, <2>1
  <2>3. Used(B \union {c})' = Used(B \union {c})
    BY <1>4, <2>2
  <2>4. (\E d \in B : tasks_'[d].is_throttled) <=> (\E d \in B : tasks_[d].is_throttled)
    BY <1>3, <2>2
  <2>5. /\ tasks_[c].effective_fps <= tasks_[c].config.target_fps
        /\ tasks_[c].is_throttled =>
             IF \E d \in B : tasks_[d].is_throttled
             THEN tasks_[c].effective_fps = 1
             ELSE Used(B \union {c}) + Cost(c) > gpu_budget_
        /\ Needed(c) > 0 /\ (\E d \in B : tasks_[d].is_throttled)
             => tasks_[c].is_throttled
    BY <1>1, <2>1 DEF SharedNow
  <2>6. /\ tasks_'[c].effective_fps <= tasks_'[c].config.target_fps
        /\ tasks_'[c].is_throttled =>
             IF \E d \in B : tasks_'[d].is_throttled
             THEN tasks_'[c].effective_fps = 1
             ELSE Used(B \union {c})' + Cost(c)' > gpu_budget_'
        /\ Needed(c)' > 0 /\ (\E d \in B : tasks_'[d].is_throttled)
             => tasks_'[c].is_throttled
    BY <1>2, <1>3, <2>3, <2>4, <2>5
  <2> QED BY <2>2, <2>6
<1>7. ASSUME NEW c \in E
      PROVE  (LET before == {d \in Enabled : Precedes(d, c)}
              IN  /\ tasks_[c].effective_fps <= tasks_[c].config.target_fps
                  /\ tasks_[c].is_throttled =>
                       IF \E d \in before : tasks_[d].is_throttled
                       THEN tasks_[c].effective_fps = 1
                       ELSE Used(before \union {c}) + Cost(c) > gpu_budget_
                  /\ Needed(c) > 0 /\ (\E d \in before : tasks_[d].is_throttled)
                       => tasks_[c].is_throttled)'
  BY <1>6, Zenon DEF Used
<1> QED BY <1>2, <1>5, <1>7 DEF SharedNow

(* And the invariant.                                                       *)
LEMMA SameInv ==
    ASSUME SchedulerInv, SameGrants, SchedulerTypeOK'
    PROVE  SchedulerInv'
<1>1. IntervalsKept'
  BY DEF SchedulerInv, IntervalsKept, SameGrants, SameTasks
<1>2. (changes = 0 => SharedNow)'
  BY SameShares DEF SchedulerInv, SameGrants
<1> QED BY <1>1, <1>2 DEF SchedulerInv

(* A task that is set, by a call after which changes are pending.           *)
LEMMA TaskSet ==
    ASSUME SchedulerInv, Change, gpu_budget_' = gpu_budget_,
           NEW c \in TaskChannels, NEW t \in TaskState,
           t.config.target_fps > 0 => t.frame_interval >= Second \div t.config.target_fps,
           \/ tasks_' = Put(tasks_, c, t)
           \/ c \in DOMAIN tasks_ /\ tasks_' = [tasks_ EXCEPT ![c] = t]
    PROVE  SchedulerInv'
<1>1. changes' \in Nat /\ changes' # 0
  BY DEF Change, SchedulerInv, SchedulerTypeOK
<1>2. /\ DOMAIN tasks_' = DOMAIN tasks_ \union {c}
      /\ tasks_' = [d \in DOMAIN tasks_ \union {c} |-> IF d = c THEN t ELSE tasks_[d]]
  BY DEF Put, SchedulerInv, SchedulerTypeOK
<1>3. SchedulerTypeOK'
  BY <1>1, <1>2 DEF SchedulerInv, SchedulerTypeOK
<1>4. IntervalsKept'
  BY <1>2 DEF SchedulerInv, IntervalsKept
<1> QED BY <1>1, <1>3, <1>4 DEF SchedulerInv

(* The calls, one by one.                                                   *)
LEMMA AddTaskInv ==
    ASSUME SchedulerInv, NEW c \in TaskChannels, NEW task \in Tasks, AddTask(c, task)
    PROVE  SchedulerInv'
<1> DEFINE i == Interval(task.target_fps, Second \div 5)
           t == [config |-> task, age |-> 0, frame_interval |-> i,
                 total_inferences |-> 0, total_time |-> 0,
                 is_throttled |-> FALSE, effective_fps |-> task.target_fps]
<1>1. task \in AnalysisTask /\ task.target_fps \in Nat
  BY SchedulerAssumption DEF AnalysisTask
<1>2. i \in Nat /\ (task.target_fps > 0 => i = Second \div task.target_fps)
  <2>1. Second \div 5 \in Nat
    BY SchedulerAssumption
  <2> QED BY <1>1, <2>1, IntervalType DEF Interval
<1>3. Change /\ gpu_budget_' = gpu_budget_ /\ tasks_' = Put(tasks_, c, t)
  BY DEF AddTask
<1>4. t.config.target_fps = task.target_fps /\ t.frame_interval = i
  OBVIOUS
<1> HIDE DEF i
<1>5. t \in TaskState
  BY <1>1, <1>2 DEF TaskState
<1>6. t.config.target_fps > 0 => t.frame_interval >= Second \div t.config.target_fps
  BY <1>1, <1>2, <1>4
<1> HIDE DEF t
<1> QED BY <1>3, <1>5, <1>6, TaskSet

(* UpdateTask.                                                              *)
LEMMA UpdateTaskInv ==
    ASSUME SchedulerInv, NEW c \in TaskChannels, NEW task \in Tasks, UpdateTask(c, task)
    PROVE  SchedulerInv'
<1> DEFINE i == Interval(task.target_fps, tasks_[c].frame_interval)
           t == [tasks_[c] EXCEPT !.config = task, !.frame_interval = i]
<1>1. task \in AnalysisTask /\ task.target_fps \in Nat
  BY SchedulerAssumption DEF AnalysisTask
<1>2. tasks_[c] \in TaskState /\ c \in DOMAIN tasks_
  BY DEF UpdateTask, SchedulerInv, SchedulerTypeOK
<1>3. i \in Nat /\ (task.target_fps > 0 => i = Second \div task.target_fps)
  BY <1>1, <1>2, IntervalType DEF Interval, TaskState
<1>4. Change /\ gpu_budget_' = gpu_budget_ /\ tasks_' = [tasks_ EXCEPT ![c] = t]
  BY <1>2 DEF UpdateTask, SchedulerInv, SchedulerTypeOK, TaskState
<1> HIDE DEF i
<1>5. t \in TaskState /\ t.config.target_fps = task.target_fps /\ t.frame_interval = i
  BY <1>1, <1>2, <1>3 DEF TaskState
<1>6. t.config.target_fps > 0 => t.frame_interval >= Second \div t.config.target_fps
  BY <1>1, <1>3, <1>5
<1> HIDE DEF t
<1> QED BY <1>2, <1>4, <1>5, <1>6, TaskSet

(* SetEnabled.                                                              *)
LEMMA SetEnabledInv ==
    ASSUME SchedulerInv, NEW c \in TaskChannels, NEW on \in BOOLEAN, SetEnabled(c, on)
    PROVE  SchedulerInv'
<1> DEFINE t == [tasks_[c] EXCEPT !.config.enabled = on]
<1>1. tasks_[c] \in TaskState /\ c \in DOMAIN tasks_ /\ tasks_[c].config \in AnalysisTask
  BY DEF SetEnabled, SchedulerInv, SchedulerTypeOK, TaskState
<1>2. Change /\ gpu_budget_' = gpu_budget_ /\ tasks_' = [tasks_ EXCEPT ![c] = t]
  BY <1>1 DEF SetEnabled, SchedulerInv, SchedulerTypeOK, TaskState
<1>3. /\ t \in TaskState /\ t.config.target_fps = tasks_[c].config.target_fps
      /\ t.frame_interval = tasks_[c].frame_interval
  <2> DEFINE k == [tasks_[c].config EXCEPT !.enabled = on]
  <2>1. k \in AnalysisTask /\ k.target_fps = tasks_[c].config.target_fps
    BY <1>1 DEF AnalysisTask
  <2>2. t = [tasks_[c] EXCEPT !.config = k]
    BY <1>1 DEF TaskState
  <2> HIDE DEF k
  <2> QED BY <1>1, <2>1, <2>2 DEF TaskState
<1>4. t.config.target_fps > 0 => t.frame_interval >= Second \div t.config.target_fps
  BY <1>1, <1>3 DEF SchedulerInv, IntervalsKept
<1> HIDE DEF t
<1> QED BY <1>1, <1>2, <1>3, <1>4, TaskSet

(* ReportInference.                                                         *)
LEMMA ReportInferenceInv ==
    ASSUME SchedulerInv, NEW c \in TaskChannels, NEW time \in InferenceTimes,
           ReportInference(c, time)
    PROVE  SchedulerInv'
<1> DEFINE n == tasks_[c].total_inferences + 1
           s == tasks_[c].total_time + time
           t == [tasks_[c] EXCEPT !.total_inferences = n, !.total_time = s]
<1>1. tasks_[c] \in TaskState /\ c \in DOMAIN tasks_
  BY DEF ReportInference, SchedulerInv, SchedulerTypeOK
<1>2. n \in Nat /\ s \in Nat
  BY <1>1, SchedulerAssumption DEF TaskState
<1>3. Change /\ gpu_budget_' = gpu_budget_ /\ tasks_' = [tasks_ EXCEPT ![c] = t]
  BY <1>1 DEF ReportInference, SchedulerInv, SchedulerTypeOK, TaskState
<1> HIDE DEF n, s
<1>4. /\ t \in TaskState /\ t.config = tasks_[c].config
      /\ t.frame_interval = tasks_[c].frame_interval
  BY <1>1, <1>2 DEF TaskState
<1>5. t.config.target_fps > 0 => t.frame_interval >= Second \div t.config.target_fps
  BY <1>1, <1>4 DEF SchedulerInv, IntervalsKept
<1> HIDE DEF t
<1> QED BY <1>1, <1>3, <1>4, <1>5, TaskSet

(* RemoveTask.                                                              *)
LEMMA RemoveTaskInv ==
    ASSUME SchedulerInv, NEW c \in TaskChannels, RemoveTask(c)
    PROVE  SchedulerInv'
<1>1. changes' \in Nat /\ changes' # 0 /\ gpu_budget_' = gpu_budget_
  BY DEF RemoveTask, Change, SchedulerInv, SchedulerTypeOK
<1>2. tasks_' = [d \in DOMAIN tasks_ \ {c} |-> tasks_[d]]
  BY DEF RemoveTask, Restrict
<1>3. SchedulerTypeOK'
  BY <1>1, <1>2 DEF SchedulerInv, SchedulerTypeOK
<1>4. IntervalsKept'
  BY <1>2 DEF SchedulerInv, IntervalsKept
<1> QED BY <1>1, <1>3, <1>4 DEF SchedulerInv

(* SetGpuBudget.                                                            *)
LEMMA SetGpuBudgetInv ==
    ASSUME SchedulerInv, NEW budget \in Budgets, SetGpuBudget(budget)
    PROVE  SchedulerInv'
<1>1. changes' \in Nat /\ changes' # 0 /\ gpu_budget_' \in Nat /\ tasks_' = tasks_
  BY SchedulerAssumption DEF SetGpuBudget, Change, SchedulerInv, SchedulerTypeOK
<1> QED BY <1>1 DEF SchedulerInv, SchedulerTypeOK, IntervalsKept

(* ShouldAnalyze and the clock.                                             *)
LEMMA AgesInv ==
    ASSUME SchedulerInv, (\E c \in TaskChannels : ShouldAnalyze(c)) \/ SchedulerTick
    PROVE  SchedulerInv'
<1>1. /\ DOMAIN tasks_' = DOMAIN tasks_ /\ gpu_budget_' = gpu_budget_ /\ changes' = changes
      /\ tasks_' = [d \in DOMAIN tasks_ |-> tasks_'[d]]
  BY DEF SchedulerInv, SchedulerTypeOK, ShouldAnalyze, SchedulerTick
<1>2. ASSUME NEW d \in DOMAIN tasks_
      PROVE  \E a \in Nat : tasks_'[d] = [tasks_[d] EXCEPT !.age = a]
  <2>1. tasks_[d] \in TaskState
    BY DEF SchedulerInv, SchedulerTypeOK
  <2>2. tasks_[d].age \in Nat /\ tasks_[d] = [tasks_[d] EXCEPT !.age = tasks_[d].age]
    BY <2>1 DEF TaskState
  <2>3. CASE SchedulerTick
    <3> DEFINE a == IF tasks_[d].age < 2 * Second THEN tasks_[d].age + 1 ELSE tasks_[d].age
    <3>1. tasks_'[d] = [tasks_[d] EXCEPT !.age = a]
      BY <2>3 DEF SchedulerTick
    <3>2. a \in Nat
      BY <2>2
    <3> QED BY <3>1, <3>2
  <2>4. ASSUME NEW c \in TaskChannels, ShouldAnalyze(c)
        PROVE  tasks_'[d] = tasks_[d] \/ tasks_'[d] = [tasks_[d] EXCEPT !.age = 0]
    BY <2>4 DEF ShouldAnalyze, SchedulerInv, SchedulerTypeOK
  <2> QED BY <2>2, <2>3, <2>4
<1>3. ASSUME NEW d \in DOMAIN tasks_
      PROVE  /\ tasks_'[d] \in TaskState
             /\ tasks_'[d].config = tasks_[d].config
             /\ tasks_'[d].total_inferences = tasks_[d].total_inferences
             /\ tasks_'[d].total_time = tasks_[d].total_time
             /\ (tasks_'[d].is_throttled <=> tasks_[d].is_throttled)
             /\ tasks_'[d].effective_fps = tasks_[d].effective_fps
             /\ tasks_'[d].frame_interval = tasks_[d].frame_interval
  <2>1. tasks_[d] \in TaskState
    BY DEF SchedulerInv, SchedulerTypeOK
  <2>2. PICK a \in Nat : tasks_'[d] = [tasks_[d] EXCEPT !.age = a]
    BY <1>2
  <2> QED BY <2>1, <2>2 DEF TaskState
<1>4. SchedulerTypeOK'
  BY <1>1, <1>3 DEF SchedulerInv, SchedulerTypeOK
<1>5. SameGrants
  BY <1>1, <1>3 DEF SameGrants, SameTasks
<1> QED BY <1>4, <1>5, SameInv

(* RebalanceBudget, after which no change is pending.                       *)
LEMMA RebalanceInv ==
    ASSUME SchedulerInv, RebalanceBudget
    PROVE  SchedulerInv'
<1>1. SchedulerTypeOK'
  BY RebalanceType DEF SchedulerInv
<1>2. SharedNow'
  <2>1. gpu_budget_' = gpu_budget_
    BY DEF RebalanceBudget
  <2> QED BY <2>1, RebalanceShares, SharedByShares DEF SchedulerInv
<1>3. IntervalsKept'
  BY RebalanceIntervals DEF SchedulerInv
<1> QED BY <1>1, <1>2, <1>3 DEF SchedulerInv

(* The invariant, and what follows from it.                                 *)
LEMMA SchedulerInvInit == SchedulerInit => SchedulerInv
<1> SUFFICES ASSUME SchedulerInit PROVE SchedulerInv
  OBVIOUS
<1>1. SchedulerTypeOK
  BY SchedulerTypeInit
<1>2. DOMAIN tasks_ = {}
  BY DEF SchedulerInit
<1>3. IntervalsKept
  BY <1>2 DEF IntervalsKept
<1>4. Enabled = {}
  BY <1>2 DEF Enabled
<1>5. SharedNow
  <2> DEFINE T == {c \in Enabled : ~(tasks_[c].is_throttled /\ tasks_[c].effective_fps = 1)}
             f == [c \in T |-> Cost(c) * tasks_[c].effective_fps]
  <2>1. DOMAIN f = {}
    BY <1>4
  <2>2. SumFunction(f) = 0
    BY <2>1, SumOfNone
  <2>3. Used(T) = 0
    BY <2>2 DEF Used
  <2>4. Used(T) <= gpu_budget_
    BY <1>1, <2>3 DEF SchedulerTypeOK
  <2> QED BY <1>4, <2>4 DEF SharedNow
<1> QED BY <1>1, <1>3, <1>5 DEF SchedulerInv

(* A throttled task waits for two intervals, so for at least one.           *)
LEMMA SchedulerInvShares == SchedulerInv => BudgetShared
<1> SUFFICES ASSUME SchedulerInv PROVE BudgetShared
  OBVIOUS
<1>1. changes = 0 => SharedNow
  BY DEF SchedulerInv
<1>2. ASSUME NEW c \in DOMAIN tasks_, tasks_[c].config.target_fps > 0
      PROVE  EffectiveInterval(c) >= Second \div tasks_[c].config.target_fps
  <2>1. tasks_[c].frame_interval \in Nat /\ tasks_[c].config.target_fps \in Nat
    BY CostType DEF SchedulerInv, SchedulerTypeOK, TaskState
  <2>2. tasks_[c].frame_interval >= Second \div tasks_[c].config.target_fps
    BY <1>2 DEF SchedulerInv, IntervalsKept
  <2>3. Second \div tasks_[c].config.target_fps \in Nat
    BY <1>2, <2>1, SchedulerAssumption, Quotient
  <2> QED BY <2>1, <2>2, <2>3 DEF EffectiveInterval
<1> QED BY <1>1, <1>2 DEF BudgetShared, SharedNow

(* Every step keeps it.                                                     *)
LEMMA SchedulerInvNext ==
    ASSUME SchedulerInv, [SchedulerNext]_schedulerVars
    PROVE  SchedulerInv'
<1>1. CASE UNCHANGED schedulerVars
  <2>1. SameGrants /\ SchedulerTypeOK'
    BY <1>1 DEF SchedulerInv, SchedulerTypeOK, SameGrants, SameTasks, schedulerVars
  <2> QED BY <2>1, SameInv
<1>2. CASE SchedulerNext
  <2>1. CASE \E c \in TaskChannels : \E task \in Tasks : AddTask(c, task) \/ UpdateTask(c, task)
    BY <2>1, AddTaskInv, UpdateTaskInv
  <2>2. CASE \E c \in TaskChannels : RemoveTask(c)
    BY <2>2, RemoveTaskInv
  <2>3. CASE (\E c \in TaskChannels : ShouldAnalyze(c)) \/ SchedulerTick
    BY <2>3, AgesInv
  <2>4. CASE \E c \in TaskChannels : \E on \in BOOLEAN : SetEnabled(c, on)
    BY <2>4, SetEnabledInv
  <2>5. CASE \E c \in TaskChannels : \E time \in InferenceTimes : ReportInference(c, time)
    BY <2>5, ReportInferenceInv
  <2>6. CASE \E budget \in Budgets : SetGpuBudget(budget)
    BY <2>6, SetGpuBudgetInv
  <2>7. CASE RebalanceBudget
    BY <2>7, RebalanceInv
  <2> QED BY <1>2, <2>1, <2>2, <2>3, <2>4, <2>5, <2>6, <2>7 DEF SchedulerNext
<1> QED BY <1>1, <1>2

(* However tasks come, go, change and report between two rebalances, the     *)
(* rates that RebalanceBudget writes cost no more than gpu_budget_us_ apart  *)
(* from the one frame a second nobody is refused, go to the channels in      *)
(* order and leave no frame that would have fitted; and ShouldAnalyze never *)
(* lets a channel be analysed more often than its target_fps.               *)
THEOREM BudgetAlwaysShared == SchedulerSpec => []BudgetShared
<1> QED BY SchedulerInvInit, SchedulerInvNext, SchedulerInvShares, PTL DEF SchedulerSpec
=============================================================================
