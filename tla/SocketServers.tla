--------------------------- MODULE SocketServers ---------------------------
(* RtspServer (src/network/rtsp_server) and WebSocketServer                  *)
(* (src/network/websocket): an accept thread, one thread per connection and  *)
(* callers that push to all connections.  The list of connections has a      *)
(* lock; what a connection's own thread writes to its session has none, so   *)
(* a SETUP or a subscription is several steps for a push.  `server` says     *)
(* which of the two is looked at.                                            *)
EXTENDS Integers, FiniteSets

CONSTANTS
    Clients,
    Topics,
    MaxPushes           \* bound: frames and messages pushed

ASSUME SocketAssumption == MaxPushes \in Nat

VARIABLES
    server,             \* [kind, running, stopped]
    listed,             \* sessions_ or connections_
    client,             \* connection and the thread that serves it
    rtspChannel,        \* whether the channel is registered
    pushes

socketVars == <<server, listed, client, rtspChannel, pushes>>

(* at: where the thread is.  packetizer, channel: set by SETUP.  topics:    *)
(* subscribed_topics; left: what is still to be inserted.  crossed          *)
(* (history): Stop closed the descriptor that the thread is about to close. *)
NoClient == [at |-> "none", active |-> FALSE, fd |-> FALSE, closes |-> 0,
             crossed |-> FALSE, channel |-> FALSE, packetizer |-> FALSE,
             playing |-> FALSE, got_keyframe |-> FALSE, topics |-> {},
             left |-> {}]

SocketInit ==
    /\ server \in [kind : {"rtsp", "ws"}, running : {FALSE}, stopped : {FALSE}]
    /\ listed = {} /\ client = [c \in Clients |-> NoClient]
    /\ rtspChannel = FALSE /\ pushes = 0

Rtsp == server.kind = "rtsp"
WebSocket == server.kind = "ws"

-----------------------------------------------------------------------------
(* What the two servers share.                                              *)

SocketStart ==
    /\ ~server.running /\ ~server.stopped
    /\ server' = [server EXCEPT !.running = TRUE]
    /\ UNCHANGED <<listed, client, rtspChannel, pushes>>

SocketAccept(c) ==
    /\ server.running /\ client[c].at = "none"
    /\ client' = [client EXCEPT ![c] = [NoClient EXCEPT !.at = "serve",
                                          !.active = TRUE, !.fd = TRUE]]
    /\ listed' = listed \union {c}
    /\ UNCHANGED <<server, rtspChannel, pushes>>

(* The thread leaves its loop: not running, not active, or the client is    *)
(* gone.  It reads fd, ...                                                  *)
SocketLeave(c) ==
    /\ client[c].at = "serve"
    /\ client' = [client EXCEPT ![c].active = FALSE, ![c].playing = FALSE,
                    ![c].at = IF client[c].fd THEN "close" ELSE "remove"]
    /\ UNCHANGED <<server, listed, rtspChannel, pushes>>

(* ... closes what it read ...                                              *)
SocketClose(c) ==
    /\ client[c].at = "close"
    /\ client' = [client EXCEPT ![c].at = "remove", ![c].fd = FALSE,
                                ![c].closes = @ + 1]
    /\ UNCHANGED <<server, listed, rtspChannel, pushes>>

(* ... and takes the connection off the list.                               *)
SocketRemove(c) ==
    /\ client[c].at = "remove"
    /\ client' = [client EXCEPT ![c] = NoClient]
    /\ listed' = listed \ {c}
    /\ UNCHANGED <<server, rtspChannel, pushes>>

SocketStop ==
    /\ server.running
    /\ server' = [server EXCEPT !.running = FALSE, !.stopped = TRUE]
    /\ UNCHANGED <<listed, client, rtspChannel, pushes>>

(* The rest of Stop, after the accept thread is joined.  It has the lock of *)
(* the list, which the thread that closes its own descriptor has not: where *)
(* the two overlap both close the descriptor.                               *)
SocketCloseAll ==
    /\ server.stopped /\ listed # {}
    /\ listed' = {}
    /\ client' = [c \in Clients |->
         IF c \in listed
         THEN [client[c] EXCEPT !.active = FALSE, !.fd = FALSE,
                 !.closes = IF client[c].fd THEN @ + 1 ELSE @,
                 !.crossed = @ \/ (client[c].fd /\ client[c].at = "close")]
         ELSE client[c]]
    /\ UNCHANGED <<server, rtspChannel, pushes>>

-----------------------------------------------------------------------------
(* RtspServer.  OPTIONS and DESCRIBE change nothing.                        *)

RtspStart == Rtsp /\ SocketStart
RtspStop == Rtsp /\ (SocketStop \/ SocketCloseAll)
RtspAcceptLoop(c) == Rtsp /\ SocketAccept(c)
RtspHandleClient(c) ==
    Rtsp /\ (SocketLeave(c) \/ SocketClose(c) \/ SocketRemove(c))

(* Registered or unregistered; the sessions of the channel stay.            *)
RtspRegisterChannel ==
    /\ Rtsp /\ ~rtspChannel /\ rtspChannel' = TRUE
    /\ UNCHANGED <<server, listed, client, pushes>>

RtspUnregisterChannel ==
    /\ Rtsp /\ rtspChannel /\ rtspChannel' = FALSE
    /\ UNCHANGED <<server, listed, client, pushes>>

Serving(c) == client[c].at = "serve" /\ client[c].active /\ server.running

(* Mutant: the channel is stored before it is looked up.                    *)
HandleSetupUnchecked(c) ==
    /\ Rtsp /\ Serving(c)
    /\ client' = [client EXCEPT ![c].at = IF rtspChannel THEN "setup" ELSE @,
                    ![c].channel = TRUE]
    /\ UNCHANGED <<server, listed, rtspChannel, pushes>>

(* HandleSetup: 404 if the channel is not there; else the channel is        *)
(* stored, ...                                                              *)
HandleSetup(c) ==
    /\ Rtsp /\ Serving(c)
    /\ client' = [client EXCEPT ![c].at = IF rtspChannel THEN "setup" ELSE @,
                    ![c].channel = @ \/ rtspChannel]
    /\ UNCHANGED <<server, listed, rtspChannel, pushes>>

(* ... then its packetizer, in the place of one made before.                *)
MakePacketizer(c) ==
    /\ client[c].at = "setup"
    /\ client' = [client EXCEPT ![c].at = "serve", ![c].packetizer = TRUE]
    /\ UNCHANGED <<server, listed, rtspChannel, pushes>>

(* PLAY is not refused without SETUP.                                       *)
HandlePlay(c) ==
    /\ Rtsp /\ Serving(c)
    /\ client' = [client EXCEPT ![c].playing = TRUE, ![c].got_keyframe = FALSE]
    /\ UNCHANGED <<server, listed, rtspChannel, pushes>>

HandleTeardown(c) ==
    /\ Rtsp /\ Serving(c)
    /\ client' = [client EXCEPT ![c].playing = FALSE, ![c].active = FALSE]
    /\ UNCHANGED <<server, listed, rtspChannel, pushes>>

(* The sessions PushFrame sends a frame to.                                 *)
Watching == {c \in listed : client[c].channel /\ client[c].playing
                                              /\ client[c].active}

RtspPushFrame(key) ==
    /\ Rtsp /\ pushes < MaxPushes
    /\ pushes' = pushes + 1
    /\ client' = [c \in Clients |->
         IF c \in Watching /\ key
         THEN [client[c] EXCEPT !.got_keyframe = TRUE] ELSE client[c]]
    /\ UNCHANGED <<server, listed, rtspChannel>>

-----------------------------------------------------------------------------
(* WebSocketServer.  Broadcast sends to the active connections whose topics *)
(* are empty or hold its topic, and changes nothing.                        *)

WebSocketStart == WebSocket /\ SocketStart
WebSocketStop == WebSocket /\ (SocketStop \/ SocketCloseAll)
WebSocketAcceptLoop(c) == WebSocket /\ SocketAccept(c)
WebSocketHandleClient(c) ==
    WebSocket /\ (SocketLeave(c) \/ SocketClose(c) \/ SocketRemove(c))

(* A subscription clears the set, ...                                       *)
Subscribe(c, wanted) ==
    /\ WebSocket /\ Serving(c)
    /\ client' = [client EXCEPT ![c].at = "subscribe", ![c].topics = {},
                                ![c].left = wanted]
    /\ UNCHANGED <<server, listed, rtspChannel, pushes>>

(* ... and inserts the topics one by one.                                   *)
InsertTopic(c) ==
    /\ client[c].at = "subscribe"
    /\ IF client[c].left = {}
       THEN client' = [client EXCEPT ![c].at = "serve"]
       ELSE \E t \in client[c].left :
              client' = [client EXCEPT ![c].topics = @ \union {t},
                                       ![c].left = @ \ {t}]
    /\ UNCHANGED <<server, listed, rtspChannel, pushes>>

ReceiveClose(c) ==
    /\ WebSocket /\ Serving(c)
    /\ client' = [client EXCEPT ![c].active = FALSE]
    /\ UNCHANGED <<server, listed, rtspChannel, pushes>>

-----------------------------------------------------------------------------
SocketNext ==
    \/ RtspStart \/ RtspStop \/ RtspRegisterChannel \/ RtspUnregisterChannel
    \/ WebSocketStart \/ WebSocketStop
    \/ \E key \in BOOLEAN : RtspPushFrame(key)
    \/ \E c \in Clients :
          \/ RtspAcceptLoop(c) \/ RtspHandleClient(c) \/ HandleSetup(c)
          \/ MakePacketizer(c) \/ HandlePlay(c) \/ HandleTeardown(c)
          \/ WebSocketAcceptLoop(c) \/ WebSocketHandleClient(c)
          \/ InsertTopic(c) \/ ReceiveClose(c)
          \/ \E wanted \in SUBSET Topics : Subscribe(c, wanted)

SocketSpec == SocketInit /\ [][SocketNext]_socketVars

-----------------------------------------------------------------------------
(* PushFrame uses the packetizer of every session it sends to, while SETUP  *)
(* fills the session in without the lock.  Whatever requests the clients    *)
(* sent, in any order, and whether or not the channel was there: only a     *)
(* session whose thread is inside SETUP at that moment, having had PLAY     *)
(* before, can be met without one.                                          *)
PacketizerThere ==
    Rtsp => \A c \in Watching : client[c].packetizer \/ client[c].at = "setup"

(* The descriptor of a connection is closed once, by its thread or by Stop, *)
(* and once more only where Stop crosses the thread that closes it.         *)
SocketClosedOnce ==
    \A c \in Clients : client[c].closes <= IF client[c].crossed THEN 2 ELSE 1
=============================================================================
