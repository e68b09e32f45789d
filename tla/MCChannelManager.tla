-------------------------- MODULE MCChannelManager --------------------------
(* Two callers besides the main thread, two slots, three ids.               *)
EXTENDS ChannelManager, TLC

CONSTANTS t1, t2

MCCallers == {t1, t2}
MCSymmetry == Permutations(MCCallers)
=============================================================================
