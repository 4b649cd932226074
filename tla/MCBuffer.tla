------------------------------ MODULE MCBuffer ------------------------------
(* Bytes of two values, chunks of up to four of them, a prepend area of two *)
(* and an array that must grow for the longest content.                     *)
EXTENDS Buffer

MCChunk == {<<1>>, <<2>>, <<1, 2>>, <<2, 1, 1, 2>>}
=============================================================================
