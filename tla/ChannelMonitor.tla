--------------------------- MODULE ChannelMonitor ---------------------------
(* ChannelMonitor (src/channel/channel_monitor) and RecoveryLoop of          *)
(* ChannelManager: two threads that restart channels on their own, beside    *)
(* users who start, stop, edit and delete them.  The monitor polls a         *)
(* snapshot, decides for all channels and then recovers one after the other; *)
(* what the manager's calls do in detail is in module ChannelManager, here a *)
(* call is one step with its result.  Time is counted in seconds.            *)
EXTENDS Integers, Sequences, FiniteSets

CONSTANTS
    MonitoredIds,           \* ids the manager gives, in order
    interval_seconds_, stall_timeout_seconds_, error_threshold_,
    kMaxRecoveryAttempts,
    MaxMonitorTime,         \* bound: the clock
    MaxProgress,            \* bound: frames a pipeline processes
    MaxUserCalls            \* bound: calls of users

ASSUME MonitorAssumption ==
    /\ MonitoredIds \subseteq Nat
    /\ interval_seconds_ \in Nat \ {0} /\ stall_timeout_seconds_ \in Nat
    /\ error_threshold_ \in Nat \ {0} /\ kMaxRecoveryAttempts \in Nat
    /\ MaxMonitorTime \in Nat /\ MaxProgress \in Nat /\ MaxUserCalls \in Nat

VARIABLES
    clock,
    entries,        \* the manager's channels: id -> [state, frames_processed]
    createdIds,     \* ids given
    trackers_,      \* id -> tracker
    monitor,        \* [at, id, candidates, wake]: the monitor's thread
    loop,           \* [at, id, error_ids]: RecoveryLoop
    userCalls,
    recoveries      \* history: id -> times of the monitor's attempts

monitorVars == <<clock, entries, createdIds, trackers_, monitor, loop,
                 userCalls, recoveries>>

-----------------------------------------------------------------------------
(* Calls of ChannelManager.  A channel that is gone is left alone.          *)

SetEntry(id, state, frames) ==
    entries' = [entries EXCEPT ![id] = [state |-> state,
                                        frames_processed |-> frames]]

Running(id) == id \in DOMAIN entries /\ entries[id].state = "kRunning"

StopOf(id) ==
    IF Running(id) THEN SetEntry(id, "kStopped", entries[id].frames_processed)
    ELSE UNCHANGED entries

StartOf(id) ==
    IF id \in DOMAIN entries /\ ~Running(id)
    THEN \E state \in {"kRunning", "kError"} :
            SetEntry(id, state, entries[id].frames_processed)
    ELSE UNCHANGED entries

(* A new pipeline counts from zero and is started if the old one ran; one   *)
(* that cannot be built leaves the old one in place.                        *)
EditOf(id) ==
    \/ SetEntry(id, "kError", entries[id].frames_processed)
    \/ \E state \in IF Running(id) THEN {"kRunning", "kError"}
                   ELSE {"kConfigured"} : SetEntry(id, state, 0)

DeleteOf(id) == entries' = [i \in DOMAIN entries \ {id} |-> entries[i]]

CreateOf(id) == entries' = [i \in DOMAIN entries \union {id} |->
                    IF i = id THEN [state |-> "kCreated", frames_processed |-> 0]
                    ELSE entries[i]]

UserCall ==
    /\ userCalls < MaxUserCalls
    /\ userCalls' = userCalls + 1
    /\ \/ /\ \E id \in DOMAIN entries :
                StartOf(id) \/ StopOf(id) \/ EditOf(id) \/ DeleteOf(id)
          /\ UNCHANGED createdIds
       \/ \E id \in MonitoredIds \ createdIds :
            /\ \A other \in createdIds : other < id
            /\ CreateOf(id) /\ createdIds' = createdIds \union {id}
    /\ UNCHANGED <<clock, trackers_, monitor, loop, recoveries>>

(* The pipeline of a running channel processes a frame.                     *)
ProcessFrame(id) ==
    /\ Running(id) /\ entries[id].frames_processed < MaxProgress
    /\ SetEntry(id, "kRunning", entries[id].frames_processed + 1)
    /\ UNCHANGED <<clock, createdIds, trackers_, monitor, loop, userCalls,
                   recoveries>>

-----------------------------------------------------------------------------
(* MonitorLoop.                                                             *)

NewTracker == [prev_frames_processed |-> 0, last_progress_time |-> clock,
               consecutive_errors |-> 0, recovery_attempts |-> 0]

TrackerOf(id) == IF id \in DOMAIN trackers_ THEN trackers_[id] ELSE NewTracker

(* The tracker of a channel after it has been looked at.                    *)
Looked(id) ==
    LET t == TrackerOf(id)
        progress == entries[id].frames_processed > t.prev_frames_processed
        errors == IF progress THEN 0 ELSE t.consecutive_errors
    IN  [t EXCEPT !.prev_frames_processed = entries[id].frames_processed,
                  !.last_progress_time = IF progress THEN clock ELSE @,
                  !.consecutive_errors = IF entries[id].state = "kError"
                                         THEN errors + 1 ELSE errors]

IsStalled(id) ==
    /\ Running(id)
    /\ clock - Looked(id).last_progress_time > stall_timeout_seconds_

RecoveryCandidates ==
    {id \in DOMAIN entries :
        \/ IsStalled(id)
        \/ /\ entries[id].state = "kError"
           /\ Looked(id).consecutive_errors >= error_threshold_}

(* A round: the trackers of channels that are gone go too.                  *)
MonitorLoop ==
    /\ monitor.at = "sleep" /\ clock >= monitor.wake
    /\ trackers_' = [id \in DOMAIN entries |-> Looked(id)]
    /\ monitor' = [monitor EXCEPT !.at = "recover",
                                  !.candidates = RecoveryCandidates]
    /\ UNCHANGED <<clock, entries, createdIds, loop, userCalls, recoveries>>

(* Mutant: the errors that led to the attempt are not forgotten.            *)
AttemptKeepsErrors(t) ==
    [t EXCEPT !.recovery_attempts = @ + 1, !.last_progress_time = clock]

Attempt(t) ==
    [t EXCEPT !.recovery_attempts = @ + 1, !.consecutive_errors = 0,
              !.last_progress_time = clock]

(* AttemptRecovery: the limit, ...                                          *)
AttemptRecovery(id) ==
    /\ monitor.at = "recover" /\ id \in monitor.candidates
    /\ IF trackers_[id].recovery_attempts >= kMaxRecoveryAttempts
       THEN /\ monitor' = [monitor EXCEPT !.candidates = @ \ {id}]
            /\ UNCHANGED <<trackers_, recoveries>>
       ELSE /\ monitor' = [monitor EXCEPT !.candidates = @ \ {id},
                                          !.at = "stop", !.id = id]
            /\ trackers_' = [trackers_ EXCEPT ![id] = Attempt(@)]
            /\ recoveries' = [recoveries EXCEPT ![id] = Append(@, clock)]
    /\ UNCHANGED <<clock, entries, createdIds, loop, userCalls>>

(* ... StopChannel, ...                                                     *)
MonitorStops ==
    /\ monitor.at = "stop"
    /\ StopOf(monitor.id)
    /\ monitor' = [monitor EXCEPT !.at = "start"]
    /\ UNCHANGED <<clock, createdIds, trackers_, loop, userCalls, recoveries>>

(* ... and, half a second later, StartChannel.                              *)
MonitorStarts ==
    /\ monitor.at = "start"
    /\ StartOf(monitor.id)
    /\ monitor' = [monitor EXCEPT !.at = "recover"]
    /\ UNCHANGED <<clock, createdIds, trackers_, loop, userCalls, recoveries>>

MonitorSleeps ==
    /\ monitor.at = "recover" /\ monitor.candidates = {}
    /\ monitor' = [monitor EXCEPT !.at = "sleep",
                                  !.wake = clock + interval_seconds_]
    /\ UNCHANGED <<clock, entries, createdIds, trackers_, loop, userCalls,
                   recoveries>>

-----------------------------------------------------------------------------
(* RecoveryLoop; its own period of five seconds may end at any time here.   *)

LoopCollects ==
    /\ loop.at = "collect"
    /\ \E id \in DOMAIN entries : entries[id].state = "kError"
    /\ loop' = [loop EXCEPT !.at = "stop", !.error_ids =
                  {id \in DOMAIN entries : entries[id].state = "kError"}]
    /\ UNCHANGED <<clock, entries, createdIds, trackers_, monitor, userCalls,
                   recoveries>>

LoopStops(id) ==
    /\ loop.at = "stop" /\ id \in loop.error_ids
    /\ StopOf(id)
    /\ loop' = [at |-> "start", id |-> id, error_ids |-> loop.error_ids \ {id}]
    /\ UNCHANGED <<clock, createdIds, trackers_, monitor, userCalls, recoveries>>

LoopStarts ==
    /\ loop.at = "start"
    /\ StartOf(loop.id)
    /\ loop' = [loop EXCEPT !.at = IF loop.error_ids = {} THEN "collect"
                                   ELSE "stop"]
    /\ UNCHANGED <<clock, createdIds, trackers_, monitor, userCalls, recoveries>>

-----------------------------------------------------------------------------
MonitorTick ==
    /\ clock < MaxMonitorTime
    /\ clock' = clock + 1
    /\ UNCHANGED <<entries, createdIds, trackers_, monitor, loop, userCalls,
                   recoveries>>

(* EnableAutoRecovery(true) at boot, before there are channels.             *)
MonitorInit ==
    /\ clock = 0 /\ userCalls = 0
    /\ entries = <<>> /\ createdIds = {} /\ trackers_ = <<>>
    /\ monitor = [at |-> "sleep", id |-> 0, candidates |-> {}, wake |-> 0]
    /\ loop = [at |-> "collect", id |-> 0, error_ids |-> {}]
    /\ recoveries = [id \in MonitoredIds |-> <<>>]

MonitorNext ==
    \/ UserCall \/ MonitorLoop \/ MonitorStops \/ MonitorStarts
    \/ MonitorSleeps \/ LoopCollects \/ LoopStarts \/ MonitorTick
    \/ \E id \in MonitoredIds :
          ProcessFrame(id) \/ AttemptRecovery(id) \/ LoopStops(id)

MonitorSpec == MonitorInit /\ [][MonitorNext]_monitorVars

-----------------------------------------------------------------------------
Shorter(a, b) == IF a < b THEN a ELSE b

(* The monitor is no restart storm: whatever users, RecoveryLoop and the    *)
(* pipelines do between its polls and its calls, its attempts for a channel *)
(* are apart by the rounds that make an error or by the stall timeout, and  *)
(* there are no more than the limit in the life of the channel.             *)
RecoveriesPaced ==
    \A id \in MonitoredIds :
        /\ Len(recoveries[id]) <= kMaxRecoveryAttempts
        /\ \A k \in 2..Len(recoveries[id]) :
              recoveries[id][k] - recoveries[id][k-1]
                >= Shorter(error_threshold_ * interval_seconds_,
                           stall_timeout_seconds_ + 1)
=============================================================================
