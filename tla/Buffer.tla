------------------------------- MODULE Buffer -------------------------------
(***************************************************************************)
(* muduo::net::Buffer, on which the codec of the stream works: an array    *)
(* with the readable bytes between two indices, and room in front of them  *)
(* for a header.  A Buffer is a record, so that shrink can build another   *)
(* one and swap; byte i of the array is store[i + 1].                      *)
(***************************************************************************)
EXTENDS Integers, Sequences

CONSTANTS Byte, Zero,     \* what a byte can be, and the one resize fills with
          Chunk,          \* the strings that are appended and prepended
          kCheapPrepend,  \* 8
          kInitialSize,   \* 1024
          MaxContent      \* bound: the readable and reserved bytes of a user

ASSUME BufferAssumption ==
    /\ Zero \in Byte /\ Chunk \subseteq Seq(Byte)
    /\ kCheapPrepend \in Nat /\ kInitialSize \in Nat /\ MaxContent \in Nat

VARIABLE buf

NewBuffer == [store |-> [i \in 1 .. kCheapPrepend + kInitialSize |-> Zero],
              reader |-> kCheapPrepend, writer |-> kCheapPrepend]

readableBytes(b) == b.writer - b.reader
writableBytes(b) == Len(b.store) - b.writer
prependableBytes(b) == b.reader

toStringPiece(b) == SubSeq(b.store, b.reader + 1, b.writer)

(* std::copy of the bytes to the array from position at on.                 *)
CopyTo(store, at, bytes) ==
    [i \in 1 .. Len(store) |->
        IF i - at \in 1 .. Len(bytes) THEN bytes[i - at] ELSE store[i]]

resize(store, n) ==
    [i \in 1 .. n |-> IF i <= Len(store) THEN store[i] ELSE Zero]

-----------------------------------------------------------------------------
MustGrowAlways(b, len) == TRUE
MustGrow(b, len) == writableBytes(b) + prependableBytes(b) < len + kCheapPrepend

makeSpaceFaulty(b, len) ==   \* the content is moved over the prepend area
    IF MustGrow(b, len)
    THEN [b EXCEPT !.store = resize(b.store, b.writer + len)]
    ELSE [store |-> CopyTo(b.store, 0, toStringPiece(b)),
          reader |-> kCheapPrepend,
          writer |-> kCheapPrepend + readableBytes(b)]

(* Room for len bytes: a longer array, or the content moved to the front.   *)
makeSpace(b, len) ==
    IF MustGrow(b, len)
    THEN [b EXCEPT !.store = resize(b.store, b.writer + len)]
    ELSE [store |-> CopyTo(b.store, kCheapPrepend, toStringPiece(b)),
          reader |-> kCheapPrepend,
          writer |-> kCheapPrepend + readableBytes(b)]

ensureWritableBytesFaulty(b, len) == b
ensureWritableBytes(b, len) ==
    IF writableBytes(b) < len THEN makeSpace(b, len) ELSE b

append(b, bytes) ==
    LET room == ensureWritableBytes(b, Len(bytes))
    IN  [room EXCEPT !.store = CopyTo(room.store, room.writer, bytes),
                     !.writer = room.writer + Len(bytes)]

prepend(b, bytes) ==
    [b EXCEPT !.store = CopyTo(b.store, b.reader - Len(bytes), bytes),
              !.reader = b.reader - Len(bytes)]

retrieveAll(b) == [b EXCEPT !.reader = kCheapPrepend, !.writer = kCheapPrepend]

retrieve(b, len) ==
    IF len < readableBytes(b) THEN [b EXCEPT !.reader = b.reader + len]
                              ELSE retrieveAll(b)

unwrite(b, len) == [b EXCEPT !.writer = b.writer - len]

shrink(b, reserve) ==
    append(ensureWritableBytes(NewBuffer, readableBytes(b) + reserve),
           toStringPiece(b))

-----------------------------------------------------------------------------
(* The operations, within the assertions at their beginning.                *)
AppendChunk(chunk) ==
    /\ readableBytes(buf) + Len(chunk) <= MaxContent
    /\ buf' = append(buf, chunk)

PrependChunk(chunk) ==
    /\ Len(chunk) <= prependableBytes(buf)
    /\ buf' = prepend(buf, chunk)

Retrieve(len) == len <= readableBytes(buf) /\ buf' = retrieve(buf, len)
Unwrite(len) == len <= readableBytes(buf) /\ buf' = unwrite(buf, len)

(* Neither of these changes the content.                                    *)
Reserve(len) ==
    /\ readableBytes(buf) + len <= MaxContent
    /\ buf' = ensureWritableBytes(buf, len) \/ buf' = shrink(buf, len)

Init == buf = NewBuffer

Next ==
    \/ \E chunk \in Chunk : AppendChunk(chunk) \/ PrependChunk(chunk)
    \/ \E len \in 0 .. MaxContent + kCheapPrepend :
           Retrieve(len) \/ Unwrite(len) \/ Reserve(len)

Spec == Init /\ [][Next]_buf

-----------------------------------------------------------------------------
(* The class comment's 0 <= readerIndex <= writerIndex <= size.             *)
WellFormed(b) ==
    /\ b = [store |-> b.store, reader |-> b.reader, writer |-> b.writer]
    /\ b.store \in Seq(Byte)
    /\ b.reader \in Nat /\ b.writer \in b.reader .. Len(b.store)

TypeOK == WellFormed(buf)

(* The array is never longer than twice the content asked for: the bytes    *)
(* that were retrieved are used again, and a stream may run for ever.       *)
MemoryBounded ==
    \/ Len(buf.store) <= kCheapPrepend + kInitialSize
    \/ Len(buf.store) < kCheapPrepend + 2 * MaxContent

(* A Buffer is a string of bytes with two ends.                             *)
Queue == INSTANCE ByteQueue WITH content <- toStringPiece(buf)
ImplementsQueue == Queue!Spec
=============================================================================
