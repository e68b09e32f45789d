----------------------------- MODULE RtspClient -----------------------------
(* RtspClient (src/video_input/rtsp_client): one owner (InputStage) opens    *)
(* and closes it, its pull thread reads packets and reconnects with back-off *)
(* on its own.  FFmpeg is external: opening and reading succeed or fail as   *)
(* the source is up or down.  SetState is seen by other threads, so each one *)
(* is a step of its own where the code does more around it.                  *)
EXTENDS Integers

CONSTANTS
    ClientConfigs,      \* [file, auto_reconnect, max_reconnect_attempts]
    reconnect_delay_ms, reconnect_max_delay_ms,
    MaxOpens,           \* bound: calls of Open
    MaxAttempts,        \* bound: reconnects between two calls
    MaxOutages          \* bound: failures of the source

ASSUME ClientAssumption ==
    /\ ClientConfigs \subseteq [file : BOOLEAN, auto_reconnect : BOOLEAN,
                                max_reconnect_attempts : Nat]
    /\ reconnect_delay_ms \in Nat /\ reconnect_max_delay_ms \in Nat
    /\ MaxOpens \in Nat /\ MaxAttempts \in Nat /\ MaxOutages \in Nat

VARIABLES
    config_,
    state_,                 \* RtspConnectionState
    running_,
    fmt_ctx_, bsf_ctx_,     \* whether the context, the filter are there
    reconnect_attempts_,
    delay_ms,               \* local of TryReconnect
    pull,                   \* where pull_thread_ is
    owner,                  \* [op, at]: the owner's call, where it is
    opens,
    source                  \* external: [up, outages]

contextVars == <<fmt_ctx_, bsf_ctx_>>
clientVars == <<config_, state_, running_, contextVars, reconnect_attempts_,
                delay_ms, pull, owner, opens, source>>

-----------------------------------------------------------------------------
(* Connect leaves nothing behind when it fails; a container file gets a     *)
(* bitstream filter unless that cannot be set up.                           *)
ConnectOk ==
    /\ source.up
    /\ fmt_ctx_' = TRUE
    /\ bsf_ctx_' \in {FALSE, config_.file}

ConnectFails == fmt_ctx_' = FALSE /\ UNCHANGED bsf_ctx_

Disconnect == fmt_ctx_' = FALSE /\ bsf_ctx_' = FALSE

At(step) == owner.at = step
GoTo(step) == owner' = [owner EXCEPT !.at = step]

-----------------------------------------------------------------------------
(* The owner.  Open begins with Close.                                      *)

BeginClose(op) ==
    /\ At("idle")
    /\ op = "open" => opens < MaxOpens
    /\ opens' = IF op = "open" THEN opens + 1 ELSE opens
    /\ owner' = [op |-> op, at |-> "join"]
    /\ running_' = FALSE
    /\ UNCHANGED <<config_, state_, contextVars, reconnect_attempts_, delay_ms,
                   pull, source>>

Open == BeginClose("open")
Close == BeginClose("close")

JoinPull ==
    /\ At("join") /\ pull \in {"none", "ended"}
    /\ pull' = "none" /\ GoTo("disconnect")
    /\ UNCHANGED <<config_, state_, running_, contextVars, reconnect_attempts_,
                   delay_ms, opens, source>>

CloseDisconnect ==
    /\ At("disconnect")
    /\ Disconnect /\ GoTo("disconnected")
    /\ UNCHANGED <<config_, state_, running_, reconnect_attempts_, delay_ms,
                   pull, opens, source>>

SetDisconnected ==
    /\ At("disconnected")
    /\ state_' = "kDisconnected"
    /\ GoTo(IF owner.op = "open" THEN "configure" ELSE "idle")
    /\ UNCHANGED <<config_, running_, contextVars, reconnect_attempts_,
                   delay_ms, pull, opens, source>>

(* The new configuration; without a URL Open fails here.                    *)
Configure ==
    /\ At("configure")
    /\ config_' \in ClientConfigs
    /\ reconnect_attempts_' = 0
    /\ \/ state_' = "kConnecting" /\ GoTo("connect")
       \/ state_' = "kError" /\ GoTo("idle")
    /\ UNCHANGED <<running_, contextVars, delay_ms, pull, opens, source>>

OpenConnect ==
    /\ At("connect")
    /\ \/ ConnectOk /\ state_' = "kConnected" /\ GoTo("start")
       \/ ConnectFails /\ state_' = "kError" /\ GoTo("idle")
    /\ UNCHANGED <<config_, running_, reconnect_attempts_, delay_ms, pull,
                   opens, source>>

StartPull ==
    /\ At("start")
    /\ running_' = TRUE /\ pull' = "allocate" /\ GoTo("idle")
    /\ UNCHANGED <<config_, state_, contextVars, reconnect_attempts_, delay_ms,
                   opens, source>>

-----------------------------------------------------------------------------
(* PullLoop.                                                                *)

AllocatePacket ==
    /\ pull = "allocate"
    /\ \/ pull' = "loop" /\ UNCHANGED state_
       \/ pull' = "ended" /\ state_' = "kError"
    /\ UNCHANGED <<config_, running_, contextVars, reconnect_attempts_,
                   delay_ms, owner, opens, source>>

(* running_ is tested before a read, which may block while it is cleared.   *)
LoopTest ==
    /\ pull = "loop"
    /\ pull' = IF running_ THEN "read" ELSE "ended"
    /\ UNCHANGED <<config_, state_, running_, contextVars, reconnect_attempts_,
                   delay_ms, owner, opens, source>>

(* A packet is read; a file that ends is wound back to its start.           *)
ReadFrame ==
    /\ pull = "read" /\ source.up
    /\ pull' \in {"deliver"} \union (IF config_.file THEN {"loop"} ELSE {})
    /\ UNCHANGED <<config_, state_, running_, contextVars, reconnect_attempts_,
                   delay_ms, owner, opens, source>>

(* It is filtered and handed to the callback, or dropped; a file is paced.  *)
Deliver ==
    /\ pull = "deliver"
    /\ pull' = "loop"
    /\ UNCHANGED <<config_, state_, running_, contextVars, reconnect_attempts_,
                   delay_ms, owner, opens, source>>

(* A file that cannot be wound back is given up.                            *)
RewindFails ==
    /\ pull = "read" /\ config_.file /\ source.up
    /\ state_' = "kError" /\ pull' = "ended"
    /\ UNCHANGED <<config_, running_, contextVars, reconnect_attempts_,
                   delay_ms, owner, opens, source>>

ReadFails ==
    /\ pull = "read" /\ ~source.up
    /\ IF running_ /\ config_.auto_reconnect
       THEN /\ state_' = "kReconnecting" /\ pull' = "attempt"
            /\ delay_ms' = reconnect_delay_ms
       ELSE state_' = "kError" /\ pull' = "ended" /\ UNCHANGED delay_ms
    /\ UNCHANGED <<config_, running_, contextVars, reconnect_attempts_, owner,
                   opens, source>>

-----------------------------------------------------------------------------
(* TryReconnect.                                                            *)

GiveUp == state_' = "kError" /\ pull' = "ended"

(* Reconnects after a success go on from the same count.                    *)
BeginAttempt ==
    LET attempt == reconnect_attempts_ + 1
    IN  /\ pull = "attempt" /\ (running_ => attempt <= MaxAttempts)
        /\ reconnect_attempts_' = IF running_ THEN attempt ELSE reconnect_attempts_
        /\ IF \/ ~running_
              \/ /\ config_.max_reconnect_attempts > 0
                 /\ attempt > config_.max_reconnect_attempts
           THEN GiveUp
           ELSE pull' = "wait" /\ UNCHANGED state_
        /\ UNCHANGED <<config_, running_, contextVars, delay_ms, owner, opens,
                       source>>

(* After the delay, or as soon as running_ is cleared.                      *)
WaitOver ==
    /\ pull = "wait"
    /\ IF running_ THEN Disconnect /\ pull' = "connect" /\ UNCHANGED state_
       ELSE GiveUp /\ UNCHANGED contextVars
    /\ UNCHANGED <<config_, running_, reconnect_attempts_, delay_ms, owner,
                   opens, source>>

(* Mutant: a failed attempt ends the reconnection as a success does.        *)
ReconnectAnyway ==
    /\ pull = "connect"
    /\ ConnectOk \/ ConnectFails
    /\ state_' = "kConnected" /\ pull' = "loop" /\ UNCHANGED delay_ms
    /\ UNCHANGED <<config_, running_, reconnect_attempts_, owner, opens, source>>

Reconnect ==
    /\ pull = "connect"
    /\ \/ /\ ConnectOk
          /\ state_' = "kConnected" /\ pull' = "loop" /\ UNCHANGED delay_ms
       \/ /\ ConnectFails
          /\ delay_ms' = IF delay_ms * 2 < reconnect_max_delay_ms
                         THEN delay_ms * 2 ELSE reconnect_max_delay_ms
          /\ pull' = "attempt" /\ UNCHANGED state_
    /\ UNCHANGED <<config_, running_, reconnect_attempts_, owner, opens, source>>

-----------------------------------------------------------------------------
SourceFails ==
    /\ source.up /\ source.outages < MaxOutages
    /\ source' = [up |-> FALSE, outages |-> source.outages + 1]
    /\ UNCHANGED <<config_, state_, running_, contextVars, reconnect_attempts_,
                   delay_ms, pull, owner, opens>>

SourceReturns ==
    /\ ~source.up
    /\ source' = [source EXCEPT !.up = TRUE]
    /\ UNCHANGED <<config_, state_, running_, contextVars, reconnect_attempts_,
                   delay_ms, pull, owner, opens>>

ClientInit ==
    /\ config_ = [file |-> FALSE, auto_reconnect |-> TRUE,
                  max_reconnect_attempts |-> 0]
    /\ state_ = "kDisconnected" /\ running_ = FALSE
    /\ fmt_ctx_ = FALSE /\ bsf_ctx_ = FALSE
    /\ reconnect_attempts_ = 0 /\ delay_ms = 0 /\ pull = "none"
    /\ owner = [op |-> "close", at |-> "idle"] /\ opens = 0
    /\ source = [up |-> TRUE, outages |-> 0]

ClientNext ==
    \/ Open \/ Close \/ JoinPull \/ CloseDisconnect \/ SetDisconnected
    \/ Configure \/ OpenConnect \/ StartPull
    \/ AllocatePacket \/ LoopTest \/ ReadFrame \/ Deliver \/ RewindFails
    \/ ReadFails \/ BeginAttempt \/ WaitOver \/ Reconnect
    \/ SourceFails \/ SourceReturns

ClientSpec == ClientInit /\ [][ClientNext]_clientVars

-----------------------------------------------------------------------------
(* The client says what is true of it.  The pull thread never reads without *)
(* a context, whatever reconnect, back-off and Close meet; between calls, a *)
(* client that reports kConnected has a context and a thread that reads, a  *)
(* thread that has given up shows as kError, and a closed client has        *)
(* neither thread nor context.  Attempts and delay keep to their limits.    *)
ClientTruthful ==
    /\ pull \in {"loop", "read", "deliver"} => fmt_ctx_
    /\ bsf_ctx_ => fmt_ctx_
    /\ At("idle") =>
         /\ state_ = "kConnected" =>
               fmt_ctx_ /\ pull \in {"allocate", "loop", "read", "deliver"}
         /\ pull = "ended" => state_ = "kError"
         /\ state_ = "kDisconnected" => pull = "none" /\ ~fmt_ctx_
    /\ config_.max_reconnect_attempts > 0 =>
         /\ reconnect_attempts_ <= config_.max_reconnect_attempts + 1
         /\ reconnect_attempts_ > config_.max_reconnect_attempts =>
               pull \in {"ended", "none"}
    /\ delay_ms <= reconnect_delay_ms \/ delay_ms <= reconnect_max_delay_ms
=============================================================================
