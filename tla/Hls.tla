-------------------------------- MODULE Hls --------------------------------
(* HlsService (src/network/hls_stream) for one channel: the segment being    *)
(* filled, the window of finished ones, playlist and segment requests.       *)
(* Frame n has time stamp n; a segment is the frames from..to.               *)
EXTENDS Integers, Sequences

CONSTANTS
    HlsConfigs,         \* [segment_duration, max_segments] that UpdateConfig may set
    MaxHlsFrames,       \* bound: frames pushed
    MaxHlsChannels      \* bound: calls of RegisterChannel

ASSUME HlsAssumption ==
    /\ HlsConfigs \subseteq [segment_duration : Nat, max_segments : Nat \ {0}]
    /\ HlsConfigs # {} /\ MaxHlsFrames \in Nat /\ MaxHlsChannels \in Nat

VARIABLES hls, hlsRunning, hlsConfig, hlsFrames, hlsChannels

hlsVars == <<hls, hlsRunning, hlsConfig, hlsFrames, hlsChannels>>

(* current is <<>> or <<the segment being filled>>; key records that its    *)
(* first frame is a keyframe.                                               *)
NewChannelHls == [there |-> TRUE, segments |-> <<>>, next_sequence |-> 0,
                  current |-> <<>>, waiting_for_keyframe |-> TRUE,
                  active |-> TRUE]

HlsInit ==
    /\ hls = [NewChannelHls EXCEPT !.there = FALSE]
    /\ hlsRunning = TRUE /\ hlsConfig \in HlsConfigs
    /\ hlsFrames = 0 /\ hlsChannels = 0

(* A second registration begins at sequence 0 again.                        *)
HlsRegisterChannel ==
    /\ hlsChannels < MaxHlsChannels
    /\ hlsChannels' = hlsChannels + 1
    /\ hls' = NewChannelHls
    /\ UNCHANGED <<hlsRunning, hlsConfig, hlsFrames>>

HlsUnregisterChannel ==
    /\ hls.there
    /\ hls' = [NewChannelHls EXCEPT !.there = FALSE]
    /\ UNCHANGED <<hlsRunning, hlsConfig, hlsFrames, hlsChannels>>

Window(segments) ==
    LET n == hlsConfig.max_segments
    IN  IF Len(segments) <= n THEN segments
        ELSE SubSeq(segments, Len(segments) - n + 1, Len(segments))

(* FinalizeSegment: the current segment, if any, enters the window.         *)
HlsFinalizeSegment(h) ==
    LET s == h.current[1]
    IN  IF h.current = <<>> THEN h
        ELSE [h EXCEPT !.segments = Window(Append(@,
                           [sequence |-> h.next_sequence, from |-> s.from,
                            to |-> s.to, key |-> s.key])),
                       !.next_sequence = @ + 1, !.current = <<>>]

(* Mutant: the keyframe that ends a segment still goes into it.             *)
LateRotate(h, n, key) ==
    IF key /\ h.current # <<>> /\ n - h.current[1].from >= hlsConfig.segment_duration
    THEN HlsFinalizeSegment([h EXCEPT !.current[1].to = n])
    ELSE h

(* A keyframe after the duration of the segment ends it.                    *)
HlsRotate(h, n, key) ==
    IF key /\ h.current # <<>>
       /\ n - h.current[1].from >= hlsConfig.segment_duration
    THEN HlsFinalizeSegment(h) ELSE h

(* The frame goes into the current segment or begins one.                   *)
HlsAppend(h, n, key) ==
    IF h.current = <<>>
    THEN [h EXCEPT !.current = <<[from |-> n, to |-> n, key |-> key]>>]
    ELSE [h EXCEPT !.current[1].to = n]

HlsPushFrame(key) ==
    /\ hlsRunning /\ hls.there /\ hls.active /\ hlsFrames < MaxHlsFrames
    /\ hlsFrames' = hlsFrames + 1
    /\ hls' = IF hls.waiting_for_keyframe /\ ~key THEN hls
              ELSE HlsAppend(HlsRotate([hls EXCEPT
                                          !.waiting_for_keyframe = FALSE],
                                       hlsFrames + 1, key),
                             hlsFrames + 1, key)
    /\ UNCHANGED <<hlsRunning, hlsConfig, hlsChannels>>

(* The window shrinks only when the next segment is finished.               *)
HlsUpdateConfig(config) ==
    /\ hlsConfig' = config
    /\ UNCHANGED <<hls, hlsRunning, hlsFrames, hlsChannels>>

HlsStopAll ==
    /\ hlsRunning
    /\ hlsRunning' = FALSE
    /\ hls' = [hls EXCEPT !.active = FALSE]
    /\ UNCHANGED <<hlsConfig, hlsFrames, hlsChannels>>

(* HandleHlsPlaylist: sequence numbers in order, none before the first      *)
(* segment is finished.                                                     *)
GeneratePlaylist ==
    IF hls.there THEN [i \in DOMAIN hls.segments |-> hls.segments[i].sequence]
    ELSE <<>>

(* HandleHlsSegment: the first segment with this number, or 404.            *)
GetSegment(sequence) ==
    LET found == {i \in DOMAIN hls.segments :
                     hls.segments[i].sequence = sequence}
    IN  IF ~hls.there \/ found = {} THEN <<>>
        ELSE <<hls.segments[CHOOSE i \in found : \A j \in found : i <= j]>>

HlsNext ==
    \/ HlsRegisterChannel \/ HlsUnregisterChannel \/ HlsStopAll
    \/ \E key \in BOOLEAN : HlsPushFrame(key)
    \/ \E config \in HlsConfigs : HlsUpdateConfig(config)

HlsSpec == HlsInit /\ [][HlsNext]_hlsVars

-----------------------------------------------------------------------------
(* What a player that follows the playlist gets is gapless and can be       *)
(* decoded from every segment on: the numbers are consecutive, every listed *)
(* segment can be fetched, begins with a keyframe and goes on where the one *)
(* before ended, through changes of the configuration.                      *)
HlsGapless ==
    LET p == GeneratePlaylist
    IN  /\ \A i \in DOMAIN p : /\ GetSegment(p[i]) # <<>>
                               /\ GetSegment(p[i])[1].key
        /\ \A i \in DOMAIN p : i > 1 =>
              /\ p[i] = p[i-1] + 1
              /\ GetSegment(p[i])[1].from = GetSegment(p[i-1])[1].to + 1
        /\ p # <<>> /\ hls.current # <<>> =>
              hls.current[1].from = GetSegment(p[Len(p)])[1].to + 1
=============================================================================
