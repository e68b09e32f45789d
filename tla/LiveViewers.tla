---------------------------- MODULE LiveViewers ----------------------------
(* Delivery of encoded frames to live viewers of one channel: HttpFlvService *)
(* (src/network/flv_stream) and WsMediaService (src/network/media_stream).   *)
(* OutputStage calls PushFrame of both; every viewer has a queue that its    *)
(* own thread writes to the socket.  A frame is its number and whether it is *)
(* a keyframe; parameter sets (SPS and PPS) are a version number.            *)
EXTENDS Integers, Sequences, FiniteSets

CONSTANTS
    Viewers,
    kMaxPendingTags,        \* FlvViewer::kMaxPendingTags (600)
    kMaxPendingSegments,    \* MediaViewer::kMaxPendingSegments (300)
    MaxFrames,              \* bound: frames pushed
    MaxRegistrations        \* bound: calls of RegisterChannel

ASSUME LiveAssumption ==
    /\ kMaxPendingTags \in Nat \ {0}
    /\ kMaxPendingSegments \in Nat /\ kMaxPendingSegments >= 4
    /\ MaxFrames \in Nat /\ MaxRegistrations \in Nat

VARIABLES
    flv,                    \* HttpFlvService and its ChannelStream
    flvViewers,             \* FlvViewer of each client
    wsm,                    \* WsMediaService and its ChannelStream
    wsViewers,              \* MediaViewer of each client, and its thread
    pushed,                 \* frames pushed
    registered              \* registrations made

flvVars == <<flv, flvViewers>>
wsVars == <<wsm, wsViewers>>
liveVars == <<flvVars, wsVars, pushed, registered>>

(* gen is the registration that made the ChannelStream, 0 when there is     *)
(* none; header and init are versions of parameter sets, 0 for none.        *)
NoFlvStream == [running |-> TRUE, gen |-> 0, header |-> 0, viewers |-> {}]
NoWsStream == [running |-> FALSE, stopped |-> FALSE, gen |-> 0, init |-> 0,
               active |-> FALSE, viewers |-> {}]

(* conn: where the thread of the connection is.  last: the newest frame the *)
(* client was sent (history).                                               *)
NewFlvViewer == [conn |-> "none", gen |-> 0, active |-> FALSE,
                 got_header |-> FALSE, got_keyframe |-> FALSE,
                 pending |-> <<>>, last |-> 0]
NewWsViewer == [conn |-> "none", active |-> FALSE, fd |-> "none",
                closes |-> 0, crossed |-> FALSE, got_init_segment |-> FALSE,
                got_keyframe |-> FALSE, pending |-> <<>>, last |-> 0]

Frames == [n : 1..MaxFrames, key : BOOLEAN]
InitSegment == [n |-> 0, key |-> FALSE]

DropOldest(q, n) == SubSeq(q, Len(q) - n + 1, Len(q))

(* The newest frame of the first k entries, or the one sent before.         *)
NewestOf(q, k, last) ==
    IF \E i \in 1..k : q[i].n > last
    THEN LET i == CHOOSE i \in 1..k : \A j \in 1..k : q[j].n <= q[i].n
         IN  q[i].n
    ELSE last

-----------------------------------------------------------------------------
(* HttpFlvService.                                                          *)

(* A stream that is replaced leaves its viewers as they are.                *)
FlvRegisterChannel ==
    /\ registered < MaxRegistrations
    /\ registered' = registered + 1
    /\ flv' = [NoFlvStream EXCEPT !.running = flv.running,
                                  !.gen = registered + 1]
    /\ UNCHANGED <<flvViewers, wsVars, pushed>>

Deactivated(S) ==
    [v \in Viewers |-> IF v \in S THEN [flvViewers[v] EXCEPT !.active = FALSE]
                       ELSE flvViewers[v]]

FlvUnregisterChannel ==
    /\ flv.gen # 0
    /\ flvViewers' = Deactivated(flv.viewers)
    /\ flv' = [NoFlvStream EXCEPT !.running = flv.running]
    /\ UNCHANGED <<wsVars, pushed, registered>>

(* The queue of a viewer after PushFrame: nothing before the first          *)
(* keyframe; when full, a keyframe drops the oldest half and the rest is    *)
(* skipped.                                                                 *)
FlvOffer(w, f) ==
    LET full == Len(w.pending) >= kMaxPendingTags
        kept == IF full THEN DropOldest(w.pending, kMaxPendingTags \div 2)
                ELSE w.pending
    IN  IF f.key \/ (w.got_keyframe /\ ~full)
        THEN [w EXCEPT !.got_keyframe = TRUE, !.pending = Append(kept, f)]
        ELSE w

(* params: the parameter sets ExtractSpsPps finds in a keyframe, 0 for      *)
(* none.  tag: MakeVideoTag gives one (the frame has slices).  Viewers that *)
(* are not active leave the list.                                           *)
FlvPushFrame(key, params, tag) ==
    LET fed == {v \in flv.viewers : flvViewers[v].active}
    IN  /\ flv.running /\ flv.gen # 0 /\ pushed < MaxFrames
        /\ pushed' = pushed + 1
        /\ flv' = [flv EXCEPT !.header = IF key /\ params # 0 THEN params
                                         ELSE @,
                              !.viewers = IF tag THEN fed ELSE @]
        /\ flvViewers' =
             [v \in Viewers |->
                IF tag /\ v \in fed
                THEN FlvOffer(flvViewers[v], [n |-> pushed + 1, key |-> key])
                ELSE flvViewers[v]]
        /\ UNCHANGED <<wsVars, registered>>

(* HandleFlvStream: CreateViewer; without a stream the answer is 404.       *)
FlvCreateViewer(v) ==
    /\ flvViewers[v].conn = "none" /\ flv.gen # 0
    /\ flvViewers' = [flvViewers EXCEPT ![v] =
                        [NewFlvViewer EXCEPT !.conn = "http", !.active = TRUE,
                                             !.gen = flv.gen]]
    /\ flv' = [flv EXCEPT !.viewers = @ \union {v}]
    /\ UNCHANGED <<wsVars, pushed, registered>>

(* The first call of StreamToViewer: the sequence header only if the        *)
(* channel has one by now.                                                  *)
FlvSendHeader(v) ==
    /\ flv.running /\ flvViewers[v].conn = "http" /\ ~flvViewers[v].got_header
    /\ flvViewers' = [flvViewers EXCEPT ![v].got_header = TRUE]
    /\ UNCHANGED <<flv, wsVars, pushed, registered>>

(* Mutant: the tags that were written stay in the queue.                    *)
FlvStreamNoPop(v, k) ==
    LET w == flvViewers[v]
    IN  /\ flv.running /\ w.conn = "http" /\ w.got_header /\ w.active
        /\ k \in 1..Len(w.pending)
        /\ flvViewers' = [flvViewers EXCEPT ![v] =
             [w EXCEPT !.last = NewestOf(w.pending, k, w.last)]]
        /\ UNCHANGED <<flv, wsVars, pushed, registered>>

(* A later call drains the queue under the viewer's lock; it stops early    *)
(* when the client is no longer writable.                                   *)
FlvStreamToViewer(v, k) ==
    LET w == flvViewers[v]
    IN  /\ flv.running /\ w.conn = "http" /\ w.got_header /\ w.active
        /\ k \in 1..Len(w.pending)
        /\ flvViewers' = [flvViewers EXCEPT ![v] =
             [w EXCEPT !.last = NewestOf(w.pending, k, w.last),
                       !.pending = SubSeq(@, k + 1, Len(@)),
                       !.conn = IF k = Len(w.pending) THEN @ ELSE "ended"]]
        /\ UNCHANGED <<flv, wsVars, pushed, registered>>

(* The content provider ends (not running, not active, or the client is     *)
(* gone): RemoveViewer first deactivates the viewer, ...                    *)
FlvEnd(v) ==
    /\ flvViewers[v].conn \in {"http", "ended"}
    /\ flvViewers' = [flvViewers EXCEPT ![v].conn = "remove",
                                        ![v].active = FALSE]
    /\ UNCHANGED <<flv, wsVars, pushed, registered>>

(* ... then takes it off the list, if the channel is still there.           *)
FlvRemoveViewer(v) ==
    /\ flvViewers[v].conn = "remove"
    /\ flvViewers' = [flvViewers EXCEPT ![v] = NewFlvViewer]
    /\ flv' = [flv EXCEPT !.viewers = @ \ {v}]
    /\ UNCHANGED <<wsVars, pushed, registered>>

FlvStopAll ==
    /\ flv.running
    /\ flv' = [flv EXCEPT !.running = FALSE]
    /\ flvViewers' = Deactivated(flv.viewers)
    /\ UNCHANGED <<wsVars, pushed, registered>>

-----------------------------------------------------------------------------
(* WsMediaService.                                                          *)

WsMediaStart ==
    /\ ~wsm.running /\ ~wsm.stopped
    /\ wsm' = [wsm EXCEPT !.running = TRUE]
    /\ UNCHANGED <<flvVars, wsViewers, pushed, registered>>

WsRegisterChannel ==
    /\ registered < MaxRegistrations
    /\ registered' = registered + 1
    /\ wsm' = [wsm EXCEPT !.gen = registered + 1, !.init = 0, !.active = TRUE,
                          !.viewers = {}]
    /\ UNCHANGED <<flvVars, wsViewers, pushed>>

(* Mutant: the sockets are closed as in Stop.                               *)
WsUnregisterAndClose ==
    /\ wsm.gen # 0
    /\ wsm' = [wsm EXCEPT !.gen = 0, !.init = 0, !.active = FALSE,
                          !.viewers = {}]
    /\ wsViewers' = [v \in Viewers |->
         IF v \in wsm.viewers /\ wsViewers[v].fd # "none"
         THEN [wsViewers[v] EXCEPT !.active = FALSE, !.fd = "none",
                                   !.closes = @ + 1]
         ELSE wsViewers[v]]
    /\ UNCHANGED <<flvVars, pushed, registered>>

(* The sockets are shut down and left to the viewers' threads to close.     *)
WsUnregisterChannel ==
    /\ wsm.gen # 0
    /\ wsm' = [wsm EXCEPT !.gen = 0, !.init = 0, !.active = FALSE,
                          !.viewers = {}]
    /\ wsViewers' = [v \in Viewers |->
         IF v \in wsm.viewers
         THEN [wsViewers[v] EXCEPT !.active = FALSE,
                                   !.fd = IF @ = "none" THEN @ ELSE "shut"]
         ELSE wsViewers[v]]
    /\ UNCHANGED <<flvVars, pushed, registered>>

(* Mutant: the test for a full queue is made before the init segment goes   *)
(* in.                                                                      *)
WsOfferLate(w, f) ==
    LET full == Len(w.pending) >= kMaxPendingSegments
        kept == IF full
                THEN DropOldest(w.pending, kMaxPendingSegments \div 2)
                ELSE w.pending
        headed == IF w.got_init_segment THEN kept
                  ELSE Append(kept, InitSegment)
    IN  IF ~(f.key \/ w.got_keyframe) THEN w
        ELSE IF full /\ ~f.key THEN w
        ELSE [w EXCEPT !.got_keyframe = TRUE, !.got_init_segment = ~full,
                       !.pending = Append(headed, f)]

(* The queue of a viewer after PushFrame: the init segment before the first *)
(* frame; when full, a keyframe drops the oldest half and asks for another  *)
(* init segment, which goes in before the frame that follows.               *)
WsOffer(w, f) ==
    LET headed == IF w.got_init_segment THEN w.pending
                  ELSE Append(w.pending, InitSegment)
        full == Len(headed) >= kMaxPendingSegments
        kept == IF full THEN DropOldest(headed, kMaxPendingSegments \div 2)
                ELSE headed
    IN  IF ~(f.key \/ w.got_keyframe) THEN w
        ELSE IF full /\ ~f.key
        THEN [w EXCEPT !.got_init_segment = TRUE, !.pending = headed]
        ELSE [w EXCEPT !.got_keyframe = TRUE, !.got_init_segment = ~full,
                       !.pending = Append(kept, f)]

(* No frame is muxed before a keyframe with parameter sets gave an init     *)
(* segment, and none is queued when MakeMediaSegment gives nothing.         *)
WsPushFrame(key, params, segment) ==
    LET init == IF key /\ params # 0 THEN params ELSE wsm.init
        fed == {v \in wsm.viewers : wsViewers[v].active}
    IN  /\ wsm.running /\ wsm.gen # 0 /\ wsm.active /\ pushed < MaxFrames
        /\ pushed' = pushed + 1
        /\ wsm' = [wsm EXCEPT !.init = init,
                              !.viewers = IF init # 0 /\ segment THEN fed
                                            ELSE @]
        /\ wsViewers' =
             [v \in Viewers |->
                IF init # 0 /\ segment /\ v \in fed
                THEN WsOffer(wsViewers[v], [n |-> pushed + 1, key |-> key])
                ELSE wsViewers[v]]
        /\ UNCHANGED <<flvVars, registered>>

(* AcceptLoop, for a client whose handshake names the channel; a connection *)
(* for a channel that is not there is closed at once.                       *)
WsAccept(v) ==
    /\ wsViewers[v].conn = "none" /\ wsm.running /\ wsm.gen # 0
    /\ wsViewers' = [wsViewers EXCEPT ![v] =
                       [NewWsViewer EXCEPT !.conn = "ws", !.active = TRUE,
                                           !.fd = "open"]]
    /\ wsm' = [wsm EXCEPT !.viewers = @ \union {v}]
    /\ UNCHANGED <<flvVars, pushed, registered>>

(* HandleClient sends what is pending, under the viewer's lock; a send that *)
(* fails after k segments deactivates the viewer.                           *)
WsSendPending(v, k) ==
    LET w == wsViewers[v]
    IN  /\ w.conn = "ws" /\ w.active /\ wsm.running
        /\ k \in 0..Len(w.pending) /\ w.pending # <<>>
        /\ wsViewers' = [wsViewers EXCEPT ![v] =
             [w EXCEPT !.last = NewestOf(w.pending, k, w.last),
                       !.pending = SubSeq(@, k + 1, Len(@)),
                       !.active = (k = Len(w.pending))]]
        /\ UNCHANGED <<flvVars, wsm, pushed, registered>>

(* A close frame from the client.                                           *)
WsReceiveClose(v) ==
    /\ wsViewers[v].conn = "ws" /\ wsViewers[v].active
    /\ wsViewers' = [wsViewers EXCEPT ![v].active = FALSE]
    /\ UNCHANGED <<flvVars, wsm, pushed, registered>>

(* HandleClient leaves its loop (not running, not active, or recv failed)   *)
(* and reads fd, ...                                                        *)
WsLeave(v) ==
    /\ wsViewers[v].conn = "ws"
    /\ wsViewers' = [wsViewers EXCEPT ![v].active = FALSE,
          ![v].conn = IF wsViewers[v].fd = "none" THEN "remove" ELSE "close"]
    /\ UNCHANGED <<flvVars, wsm, pushed, registered>>

(* ... closes what it read, ...                                             *)
WsClose(v) ==
    /\ wsViewers[v].conn = "close"
    /\ wsViewers' = [wsViewers EXCEPT ![v].conn = "remove",
                                      ![v].fd = "none", ![v].closes = @ + 1]
    /\ UNCHANGED <<flvVars, wsm, pushed, registered>>

(* ... and takes the viewer off the list.                                   *)
WsRemoveViewer(v) ==
    /\ wsViewers[v].conn = "remove"
    /\ wsViewers' = [wsViewers EXCEPT ![v] = NewWsViewer]
    /\ wsm' = [wsm EXCEPT !.viewers = @ \ {v}]
    /\ UNCHANGED <<flvVars, pushed, registered>>

(* Stop: no more connections, ...                                           *)
WsMediaStop ==
    /\ wsm.running
    /\ wsm' = [wsm EXCEPT !.running = FALSE, !.stopped = TRUE]
    /\ UNCHANGED <<flvVars, wsViewers, pushed, registered>>

(* ... then, under channels_mutex_, every viewer's socket is closed.  The   *)
(* viewer's thread closes it without that lock: where the two overlap both  *)
(* close it (`crossed`, a history).                                         *)
WsDisconnectAll ==
    /\ wsm.stopped /\ wsm.viewers # {}
    /\ wsm' = [wsm EXCEPT !.active = FALSE, !.viewers = {}]
    /\ wsViewers' = [v \in Viewers |->
         IF v \in wsm.viewers
         THEN [wsViewers[v] EXCEPT
                 !.active = FALSE, !.fd = "none",
                 !.closes = IF wsViewers[v].fd = "none" THEN @ ELSE @ + 1,
                 !.crossed = @ \/ /\ wsViewers[v].fd # "none"
                                  /\ wsViewers[v].conn = "close"]
         ELSE wsViewers[v]]
    /\ UNCHANGED <<flvVars, pushed, registered>>

-----------------------------------------------------------------------------
LiveInit ==
    /\ flv = NoFlvStream /\ flvViewers = [v \in Viewers |-> NewFlvViewer]
    /\ wsm = NoWsStream /\ wsViewers = [v \in Viewers |-> NewWsViewer]
    /\ pushed = 0 /\ registered = 0

FlvNext ==
    \/ FlvRegisterChannel \/ FlvUnregisterChannel \/ FlvStopAll
    \/ \E key, tag \in BOOLEAN, params \in {0, 1} :
          FlvPushFrame(key, params, tag)
    \/ \E v \in Viewers :
          \/ FlvCreateViewer(v) \/ FlvSendHeader(v) \/ FlvEnd(v)
          \/ FlvRemoveViewer(v)
          \/ \E k \in 1..Len(flvViewers[v].pending) : FlvStreamToViewer(v, k)

WsNext ==
    \/ WsMediaStart \/ WsMediaStop \/ WsDisconnectAll
    \/ WsRegisterChannel \/ WsUnregisterChannel
    \/ \E key, segment \in BOOLEAN, params \in {0, 1} :
          WsPushFrame(key, params, segment)
    \/ \E v \in Viewers :
          \/ WsAccept(v) \/ WsReceiveClose(v) \/ WsLeave(v) \/ WsClose(v)
          \/ WsRemoveViewer(v)
          \/ \E k \in 0..Len(wsViewers[v].pending) : WsSendPending(v, k)

LiveNext == FlvNext \/ WsNext

LiveSpec == LiveInit /\ [][LiveNext]_liveVars

-----------------------------------------------------------------------------
(* No viewer, however slow, holds more than its limit: although the init    *)
(* segment of WsMediaService goes in before the limit is tested, and is put *)
(* in again after the queue was cut.                                        *)
QueuesBounded ==
    \A v \in Viewers :
        /\ Len(flvViewers[v].pending) <= kMaxPendingTags
        /\ Len(wsViewers[v].pending) <= kMaxPendingSegments

Increasing(q, last) ==
    /\ \A i \in DOMAIN q : q[i].n > last \/ q[i] = InitSegment
    /\ \A i, j \in DOMAIN q : i < j /\ q[j] # InitSegment => q[i].n < q[j].n

(* A client gets frames in the order they were pushed and none twice,       *)
(* through cuts, reconnections and failed writes.                           *)
LiveInOrder ==
    \A v \in Viewers : /\ Increasing(flvViewers[v].pending, flvViewers[v].last)
                       /\ Increasing(wsViewers[v].pending, wsViewers[v].last)

(* A viewer's descriptor is closed once, by its thread or by Stop, for its  *)
(* number may already belong to another connection; and once more only      *)
(* where Stop crosses the thread that closes it.                            *)
WsClosedOnce ==
    \A v \in Viewers :
        wsViewers[v].closes <= IF wsViewers[v].crossed THEN 2 ELSE 1

=============================================================================
