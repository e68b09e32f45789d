----------------------------- MODULE Streaming -----------------------------
(* The services that send live video: HTTP-FLV and fMP4 over WebSocket, HLS, *)
(* WebRTC, and the RTSP and WebSocket servers.  main starts them and stops   *)
(* them one after another; they share no state.                              *)
EXTENDS LiveViewers, Hls, WebRtc, SocketServers

(* No descriptor of a client of WsMediaService, RtspServer or                *)
(* WebSocketServer is closed twice, whichever of unregister, push, client    *)
(* thread, removal and Stop come together, but for the one overlap of Stop   *)
(* with the closing thread.                                                  *)
DescriptorsClosedOnce == WsClosedOnce /\ SocketClosedOnce
=============================================================================
