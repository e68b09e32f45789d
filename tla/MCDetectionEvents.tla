------------------------- MODULE MCDetectionEvents -------------------------
(* One channel with an engine and one with a cascade.                       *)
EXTENDS DetectionEvents

MCChannels == {1, 2}
MCCascaded == {2}
MCMaxFrames == <<3, 1>>
MCRuleChannels == {-1, 1}
=============================================================================
