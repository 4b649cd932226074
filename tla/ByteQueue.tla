----------------------------- MODULE ByteQueue -----------------------------
(***************************************************************************)
(* What a muduo Buffer promises its users: a string of bytes that grows at *)
(* both ends and shrinks at both ends, of which nothing else is lost or    *)
(* changed.                                                                *)
(***************************************************************************)
EXTENDS Integers, Sequences

CONSTANT Chunk     \* the strings that are put into it

VARIABLE content

Init == content = <<>>

AppendChunk(chunk) == content' = content \o chunk
PrependChunk(chunk) == content' = chunk \o content
Retrieve(n) == content' = SubSeq(content, n + 1, Len(content))
Unwrite(n) == content' = SubSeq(content, 1, Len(content) - n)

Next ==
    \/ \E chunk \in Chunk : AppendChunk(chunk) \/ PrependChunk(chunk)
    \/ \E n \in 0 .. Len(content) : Retrieve(n) \/ Unwrite(n)

Spec == Init /\ [][Next]_content
=============================================================================
