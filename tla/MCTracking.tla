----------------------------- MODULE MCTracking -----------------------------
(* Objects that move along a line of five places across a counting line and  *)
(* a square region; at the last place they are seen too faintly.  From the   *)
(* first to the third place the overlap is exactly the threshold, so an      *)
(* object may cross the line in one frame or stop on it.                     *)
EXTENDS Tracking

MCPerson(x, confidence) ==
    [at |-> <<x, 1>>, confidence |-> confidence, class |-> "person"]
MCDetections == {MCPerson(-1, 9), MCPerson(0, 9), MCPerson(2, 9),
                 MCPerson(4, 9), MCPerson(6, 1)}
MCFarApart == {MCPerson(-10, 9), MCPerson(10, 9)}
MCLineStart == <<0, 0>>
MCLineEnd == <<0, 2>>
MCSquare == << <<1, 0>>, <<5, 0>>, <<5, 2>>, <<1, 2>> >>
=============================================================================
