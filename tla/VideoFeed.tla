----------------------------- MODULE VideoFeed -----------------------------
(***************************************************************************)
(* What the whole stream promises the viewer: each picture in the window   *)
(* is one frame the camera captured, and the picture never goes back in    *)
(* time, however often the client has lost the server in between.  Frames  *)
(* may be skipped; those above the codec's limit always are.               *)
(***************************************************************************)
EXTENDS Integers

CONSTANT TooLong    \* the frames above the limit of the codec

VARIABLES captured, \* how many frames the camera has delivered
          shown     \* the frame in the window, 0 before the first

vars == <<captured, shown>>

Init == captured = 0 /\ shown = 0

Capture == captured' = captured + 1 /\ UNCHANGED shown

Show ==
    /\ shown' \in (shown + 1 .. captured) \ TooLong
    /\ UNCHANGED captured

Next == Capture \/ Show

Spec == Init /\ [][Next]_vars
=============================================================================
