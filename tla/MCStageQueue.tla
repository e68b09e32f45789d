---------------------------- MODULE MCStageQueue ----------------------------
(* Two channels share a queue of capacity 1 or 3 that may be resized.       *)
EXTENDS StageQueue

CONSTANTS c1, c2

MCChannels == {c1, c2}
=============================================================================
