------------------------ MODULE MCLengthHeaderCodec ------------------------
(* Messages of no bytes, of one, of the longest length taken and of one     *)
(* byte more; three of them in every order, cut into pieces everywhere.     *)
EXTENDS LengthHeaderCodec, TLC

CONSTANTS zero, one, longest, oversize

MCMessage == {zero, one, longest, oversize}
MCSize == (zero :> 0) @@ (one :> 1) @@ (longest :> 3) @@ (oversize :> 4)
=============================================================================
