---------------------------- MODULE FrameStream ----------------------------
(* What a channel promises about its frames, whatever the number of stages, *)
(* queues and threads between the camera and the viewers: frames come out   *)
(* in the order they came in, none comes out twice or out of nothing, and a *)
(* frame that was overtaken is lost for good.  Any frame may be lost.       *)
EXTENDS Naturals, Sequences

VARIABLES
    produced,       \* frames received from the camera so far: 1..produced
    pending,        \* frames inside the channel
    delivered       \* frames handed to the output callback, in that order

vars == <<produced, pending, delivered>>

Init ==
    /\ produced = 0
    /\ pending = {}
    /\ delivered = <<>>

(* A frame enters; backpressure may drop it or others at the same moment.   *)
Arrive ==
    /\ produced' = produced + 1
    /\ pending' \subseteq pending \union {produced + 1}
    /\ UNCHANGED delivered

Lose ==
    /\ pending' \subseteq pending
    /\ UNCHANGED <<produced, delivered>>

(* Only the oldest frame inside may come out.                               *)
Deliver ==
    \E m \in pending :
        /\ \A n \in pending : m =< n
        /\ delivered' = Append(delivered, m)
        /\ pending' = pending \ {m}
        /\ UNCHANGED produced

Next == Arrive \/ Lose \/ Deliver

Spec == Init /\ [][Next]_vars
=============================================================================
