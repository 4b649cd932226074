--------------------------- MODULE MCDisplayImage ---------------------------
(* A queue of six bytes, an empty image, an incomplete one and a complete   *)
(* one: five accepted images fill the queue, drain it and fill it again.    *)
EXTENDS DisplayImage, TLC

CONSTANTS empty, cut, whole

MCImage == {empty, cut, whole}
MCSize == (empty :> 0) @@ (cut :> 2) @@ (whole :> 3)
=============================================================================
