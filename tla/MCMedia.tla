------------------------------ MODULE MCMedia ------------------------------
(* What the program does with encoded frames: files, index, playback and     *)
(* backup; the five streaming services; the packet formats.  The parts share *)
(* no state, so each behaviour looks at one of them: `focus`, chosen in the  *)
(* initial state.  Recorder, indexer, cleaner, playback and backup do share  *)
(* files and rows and are looked at in three combinations.                   *)
EXTENDS Recording, Streaming, Muxers

VARIABLE focus

mediaVars == <<recVars, liveVars, hlsVars, rtcVars, socketVars, muxVars, focus>>

MCHlsConfigs == {[segment_duration |-> 2, max_segments |-> 2],
                 [segment_duration |-> 1, max_segments |-> 1]}

(* SPS, PPS, slices; one with zero bytes and one that is fragmented.         *)
MCNalUnits == {<<7, 1, 0, 1>>, <<7>>, <<104, 2>>, <<101>>, <<97, 0, 0, 3, 5>>,
               <<65, 0, 1, 2, 3, 4, 5, 6, 1>>}

MCStamps == {-1, 0, 7, 8} \X {0, 127, 2^22 + 1, 2^30 - 1}

MediaInit ==
    /\ focus \in {"index", "playback", "backup", "flv", "ws", "hls", "rtc",
                  "socket", "mux"}
    /\ RecordingInit /\ LiveInit /\ RtcInit
    /\ HlsInit /\ SocketInit
    /\ IF focus = "mux" THEN MuxInit
       ELSE /\ frame = NoFrame /\ unit = NoUnit
            /\ video_cc_ = 0 /\ pat_cc_ = 0 /\ pmt_cc_ = 0 /\ seq_ = 0
            /\ tables = <<>> /\ tsPackets = <<>> /\ rtpPackets = <<>>
    /\ focus # "hls" => hlsConfig = CHOOSE c \in HlsConfigs : TRUE
    /\ focus # "socket" => server.kind = "rtsp"

FilesNext ==
    \/ RecorderNext \/ CleanerNext \/ NextSecond
    \/ focus = "index" /\ (IndexerNext \/ RecordingCrash)
    \/ focus = "playback" /\ PlaybackNext
    \/ focus = "backup" /\ BackupNext

MediaNext ==
    /\ UNCHANGED focus
    /\ \/ /\ focus \in {"index", "playback", "backup"} /\ FilesNext
          /\ UNCHANGED <<liveVars, hlsVars, rtcVars, socketVars, muxVars>>
       \/ /\ \/ focus = "flv" /\ FlvNext
             \/ focus = "ws" /\ WsNext
          /\ UNCHANGED <<recVars, hlsVars, rtcVars, socketVars, muxVars>>
       \/ /\ focus = "hls" /\ HlsNext
          /\ UNCHANGED <<recVars, liveVars, rtcVars, socketVars, muxVars>>
       \/ /\ focus = "rtc" /\ RtcNext
          /\ UNCHANGED <<recVars, liveVars, hlsVars, socketVars, muxVars>>
       \/ /\ focus = "socket" /\ SocketNext
          /\ UNCHANGED <<recVars, liveVars, hlsVars, rtcVars, muxVars>>
       \/ /\ focus = "mux" /\ MuxNext
          /\ UNCHANGED <<recVars, liveVars, hlsVars, rtcVars, socketVars>>

MediaSpec == MediaInit /\ [][MediaNext]_mediaVars
=============================================================================
