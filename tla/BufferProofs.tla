---------------------------- MODULE BufferProofs ----------------------------
(***************************************************************************)
(* Proofs about the buffer, for every size and every set of chunks.  Each  *)
(* operation gets a lemma that says what it does to the content; the       *)
(* theorems only put them together.                                        *)
(***************************************************************************)
EXTENDS Buffer, SequenceTheorems, TLAPS

-----------------------------------------------------------------------------
(* Copying into an array, and lengthening it.                               *)

LEMMA CopyToElements ==
    ASSUME NEW store \in Seq(Byte), NEW bytes \in Seq(Byte), NEW at \in Int
    PROVE  /\ CopyTo(store, at, bytes) \in Seq(Byte)
           /\ Len(CopyTo(store, at, bytes)) = Len(store)
           /\ \A i \in 1 .. Len(store) :
                  CopyTo(store, at, bytes)[i] =
                      IF i - at \in 1 .. Len(bytes) THEN bytes[i - at] ELSE store[i]
  <1>1. \A i \in 1 .. Len(store) :
            (IF i - at \in 1 .. Len(bytes) THEN bytes[i - at] ELSE store[i]) \in Byte
    BY ElementOfSeq
  <1> QED
    BY <1>1 DEF CopyTo

LEMMA ResizeElements ==
    ASSUME NEW store \in Seq(Byte), NEW n \in Nat
    PROVE  /\ resize(store, n) \in Seq(Byte)
           /\ Len(resize(store, n)) = n
           /\ \A i \in 1 .. n :
                  resize(store, n)[i] = IF i <= Len(store) THEN store[i] ELSE Zero
  <1>1. \A i \in 1 .. n : (IF i <= Len(store) THEN store[i] ELSE Zero) \in Byte
    BY ElementOfSeq, BufferAssumption
  <1> QED
    BY <1>1 DEF resize

(* A piece of an array, position by position.                               *)
LEMMA PieceElements ==
    ASSUME NEW store \in Seq(Byte), NEW r \in Nat, NEW w \in r .. Len(store)
    PROVE  /\ SubSeq(store, r + 1, w) \in Seq(Byte)
           /\ Len(SubSeq(store, r + 1, w)) = w - r
           /\ \A i \in 1 .. w - r : SubSeq(store, r + 1, w)[i] = store[r + i]
  <1>1. \A i \in r + 1 .. w : store[i] \in Byte
    BY ElementOfSeq
  <1>2. SubSeq(store, r + 1, w) \in Seq(Byte)
    BY <1>1, SMT
  <1>3. Len(SubSeq(store, r + 1, w)) = w - r
    BY <1>1, SMT
  <1> QED
    BY <1>1, <1>2, <1>3, SMT

(* The content, position by position.                                       *)
LEMMA ContentElements ==
    ASSUME NEW b, WellFormed(b)
    PROVE  /\ toStringPiece(b) \in Seq(Byte)
           /\ Len(toStringPiece(b)) = readableBytes(b) /\ readableBytes(b) \in Nat
           /\ \A i \in 1 .. readableBytes(b) :
                  toStringPiece(b)[i] = b.store[b.reader + i]
  <1>1. /\ b.store \in Seq(Byte) /\ b.reader \in Nat
        /\ b.writer \in b.reader .. Len(b.store) /\ b.writer - b.reader \in Nat
    BY DEF WellFormed
  <1> QED
    BY <1>1, PieceElements DEF toStringPiece, readableBytes

LEMMA NewBufferEmpty == WellFormed(NewBuffer) /\ toStringPiece(NewBuffer) = <<>>
  <1>1. /\ NewBuffer.store \in Seq(Byte) /\ Len(NewBuffer.store) = kCheapPrepend + kInitialSize
    BY BufferAssumption DEF NewBuffer
  <1>2. WellFormed(NewBuffer)
    BY <1>1, BufferAssumption DEF NewBuffer, WellFormed
  <1> QED
    BY <1>2, SubSeqEmpty, BufferAssumption DEF NewBuffer, toStringPiece

-----------------------------------------------------------------------------
(* makeSpace keeps the content and makes the room it was asked for: when it *)
(* moves, the content really goes towards the front, as its assertion says. *)
LEMMA MakeSpace ==
    ASSUME NEW b, WellFormed(b), NEW len \in Nat, writableBytes(b) < len
    PROVE  LET s == makeSpace(b, len)
           IN  /\ WellFormed(s) /\ toStringPiece(s) = toStringPiece(b)
               /\ writableBytes(s) >= len
               /\ MustGrow(b, len) \/ kCheapPrepend < b.reader
               /\ \/ Len(s.store) = Len(b.store)
                  \/ /\ Len(b.store) <= Len(s.store)
                     /\ Len(s.store) < kCheapPrepend + readableBytes(b) + len + len
  <1> DEFINE s == makeSpace(b, len)
             n == b.writer + len
  <1>1. /\ b.store \in Seq(Byte) /\ b.reader \in Nat /\ b.writer \in Nat
        /\ b.reader <= b.writer /\ b.writer <= Len(b.store) /\ Len(b.store) \in Nat
        /\ n \in Nat /\ Len(b.store) < n
    BY DEF WellFormed, writableBytes
  <1>2. MustGrow(b, len) => s = [b EXCEPT !.store = resize(b.store, n)]
    BY DEF makeSpace
  <1>3. ~MustGrow(b, len) =>
            s = [store |-> CopyTo(b.store, kCheapPrepend, toStringPiece(b)),
                 reader |-> kCheapPrepend, writer |-> kCheapPrepend + readableBytes(b)]
    BY DEF makeSpace
  <1> HIDE DEF s, n
  <1>4. ASSUME WellFormed(s), readableBytes(s) = readableBytes(b),
               \A i \in 1 .. readableBytes(b) : s.store[s.reader + i] = b.store[b.reader + i]
        PROVE  toStringPiece(s) = toStringPiece(b)
    <2>1. \A i \in 1 .. Len(toStringPiece(b)) : toStringPiece(s)[i] = toStringPiece(b)[i]
      BY <1>4, ContentElements
    <2> QED
      BY <1>4, <2>1, ContentElements, SeqEqual
  <1>5. CASE MustGrow(b, len)
    <2>1. /\ s.reader = b.reader /\ s.writer = b.writer
          /\ s.store = resize(b.store, n)
          /\ s = [store |-> s.store, reader |-> s.reader, writer |-> s.writer]
      BY <1>2, <1>5 DEF WellFormed
    <2>2. /\ s.store \in Seq(Byte) /\ Len(s.store) = n
          /\ \A i \in 1 .. n : s.store[i] = IF i <= Len(b.store) THEN b.store[i] ELSE Zero
      <3>1. resize(b.store, n) \in Seq(Byte)
        BY <1>1, ResizeElements
      <3>2. Len(resize(b.store, n)) = n
        BY <1>1, ResizeElements
      <3>3. \A i \in 1 .. n : resize(b.store, n)[i] =
                IF i <= Len(b.store) THEN b.store[i] ELSE Zero
        BY <1>1, ResizeElements
      <3> QED
        BY <2>1, <3>1, <3>2, <3>3
    <2>3. WellFormed(s)
      BY <1>1, <2>1, <2>2 DEF WellFormed
    <2>4. \A i \in 1 .. readableBytes(b) : s.store[s.reader + i] = b.store[b.reader + i]
      BY <1>1, <2>1, <2>2, SMTT(30) DEF readableBytes
    <2>5. toStringPiece(s) = toStringPiece(b)
      BY <1>4, <2>1, <2>3, <2>4 DEF readableBytes
    <2>6. writableBytes(s) >= len
      BY <1>1, <2>1, <2>2 DEF writableBytes, n
    <2>7. n < kCheapPrepend + readableBytes(b) + len + len
      BY <1>1, <1>5, BufferAssumption, SMTT(30)
         DEF MustGrow, writableBytes, prependableBytes, readableBytes, n
    <2> QED
      BY <1>1, <1>5, <2>2, <2>3, <2>5, <2>6, <2>7 DEF s
  <1>6. CASE ~MustGrow(b, len)
    <2>1. /\ s.store = CopyTo(b.store, kCheapPrepend, toStringPiece(b))
          /\ s.reader = kCheapPrepend /\ s.writer = kCheapPrepend + readableBytes(b)
          /\ s = [store |-> s.store, reader |-> s.reader, writer |-> s.writer]
      BY <1>3, <1>6
    <2>2. /\ kCheapPrepend < b.reader
          /\ kCheapPrepend + readableBytes(b) + len <= Len(b.store)
      BY <1>1, <1>6, BufferAssumption
         DEF MustGrow, writableBytes, prependableBytes, readableBytes
    <2> DEFINE c == toStringPiece(b)
    <2>9. /\ c \in Seq(Byte) /\ Len(c) = readableBytes(b) /\ readableBytes(b) \in Nat
          /\ \A i \in 1 .. readableBytes(b) : c[i] = b.store[b.reader + i]
      BY ContentElements
    <2> HIDE DEF c
    <2>3. /\ s.store \in Seq(Byte) /\ Len(s.store) = Len(b.store)
          /\ \A i \in 1 .. Len(b.store) : s.store[i] =
                 IF i - kCheapPrepend \in 1 .. Len(c) THEN c[i - kCheapPrepend] ELSE b.store[i]
      <3>1. s.store = CopyTo(b.store, kCheapPrepend, c)
        BY <2>1 DEF c
      <3>2. CopyTo(b.store, kCheapPrepend, c) \in Seq(Byte)
        BY <1>1, <2>9, CopyToElements, BufferAssumption
      <3>3. Len(CopyTo(b.store, kCheapPrepend, c)) = Len(b.store)
        BY <1>1, <2>9, CopyToElements, BufferAssumption
      <3>4. \A i \in 1 .. Len(b.store) : CopyTo(b.store, kCheapPrepend, c)[i] =
                IF i - kCheapPrepend \in 1 .. Len(c) THEN c[i - kCheapPrepend] ELSE b.store[i]
        <4>1. kCheapPrepend \in Int /\ c \in Seq(Byte) /\ b.store \in Seq(Byte)
          BY <1>1, <2>9, BufferAssumption
        <4> QED
          BY <4>1, CopyToElements, ZenonT(30)
      <3> QED
        BY <3>1, <3>2, <3>3, <3>4
    <2>4. WellFormed(s)
      BY <1>1, <2>1, <2>2, <2>3, <2>9, BufferAssumption DEF WellFormed
    <2>5. \A i \in 1 .. readableBytes(b) : s.store[s.reader + i] = b.store[b.reader + i]
      <3> SUFFICES ASSUME NEW i \in 1 .. readableBytes(b)
                   PROVE  s.store[s.reader + i] = b.store[b.reader + i]
        OBVIOUS
      <3>1. /\ kCheapPrepend + i \in 1 .. Len(b.store)
            /\ (kCheapPrepend + i) - kCheapPrepend = i
        BY <1>1, <2>2, <2>9, BufferAssumption
      <3>2. s.store[kCheapPrepend + i] = c[i]
        BY <2>3, <2>9, <3>1
      <3> QED
        BY <2>1, <2>9, <3>2
    <2>6. readableBytes(s) = readableBytes(b)
      BY <2>1, ContentElements, BufferAssumption DEF readableBytes
    <2>7. toStringPiece(s) = toStringPiece(b)
      BY <1>4, <2>4, <2>5, <2>6
    <2>8. writableBytes(s) >= len
      BY <1>1, <2>1, <2>2, <2>3, ContentElements, BufferAssumption DEF writableBytes
    <2> QED
      BY <2>2, <2>3, <2>4, <2>7, <2>8 DEF s
  <1> QED
    BY <1>5, <1>6

LEMMA EnsureWritable ==
    ASSUME NEW b, WellFormed(b), NEW len \in Nat
    PROVE  LET s == ensureWritableBytes(b, len)
           IN  /\ WellFormed(s) /\ toStringPiece(s) = toStringPiece(b)
               /\ writableBytes(s) >= len
               /\ \/ Len(s.store) = Len(b.store)
                  \/ /\ Len(b.store) <= Len(s.store)
                     /\ Len(s.store) < kCheapPrepend + readableBytes(b) + len + len
  <1>1. CASE writableBytes(b) < len
    BY <1>1, MakeSpace DEF ensureWritableBytes
  <1>2. CASE ~(writableBytes(b) < len)
    BY <1>2 DEF ensureWritableBytes, writableBytes, WellFormed
  <1> QED
    BY <1>1, <1>2

-----------------------------------------------------------------------------
(* Two well-formed buffers that agree position by position have one content.*)
LEMMA ContentIs ==
    ASSUME NEW b, WellFormed(b), NEW c \in Seq(Byte), Len(c) = readableBytes(b),
           \A i \in 1 .. Len(c) : b.store[b.reader + i] = c[i]
    PROVE  toStringPiece(b) = c
  <1>1. \A i \in 1 .. Len(c) : toStringPiece(b)[i] = c[i]
    BY ContentElements
  <1> QED
    BY <1>1, ContentElements, SeqEqual

(* append puts the bytes behind the content.                                *)
LEMMA AppendContent ==
    ASSUME NEW b, WellFormed(b), NEW bytes \in Seq(Byte)
    PROVE  LET a == append(b, bytes)
           IN  /\ WellFormed(a) /\ toStringPiece(a) = toStringPiece(b) \o bytes
               /\ \/ Len(a.store) = Len(b.store)
                  \/ /\ Len(b.store) <= Len(a.store)
                     /\ Len(a.store) < kCheapPrepend + readableBytes(b) + Len(bytes) + Len(bytes)
  <1> DEFINE a == append(b, bytes)
             room == ensureWritableBytes(b, Len(bytes))
             c == toStringPiece(b)
  <1>1. /\ WellFormed(room) /\ toStringPiece(room) = c
        /\ writableBytes(room) >= Len(bytes)
        /\ \/ Len(room.store) = Len(b.store)
           \/ /\ Len(b.store) <= Len(room.store)
              /\ Len(room.store) < kCheapPrepend + readableBytes(b) + Len(bytes) + Len(bytes)
    BY EnsureWritable
  <1>2. a = [room EXCEPT !.store = CopyTo(room.store, room.writer, bytes),
                         !.writer = room.writer + Len(bytes)]
    BY DEF append
  <1> HIDE DEF a, room, c
  <1>3. /\ room.store \in Seq(Byte) /\ room.reader \in Nat /\ room.writer \in Nat
        /\ room.reader <= room.writer /\ room.writer + Len(bytes) <= Len(room.store)
        /\ Len(bytes) \in Nat /\ Len(room.store) \in Nat
        /\ room = [store |-> room.store, reader |-> room.reader, writer |-> room.writer]
    BY <1>1 DEF WellFormed, writableBytes
  <1>4. /\ a.store = CopyTo(room.store, room.writer, bytes)
        /\ a.reader = room.reader /\ a.writer = room.writer + Len(bytes)
        /\ a = [store |-> a.store, reader |-> a.reader, writer |-> a.writer]
    BY <1>2, <1>3
  <1>5. /\ a.store \in Seq(Byte) /\ Len(a.store) = Len(room.store)
        /\ \A i \in 1 .. Len(room.store) : a.store[i] =
               IF i - room.writer \in 1 .. Len(bytes) THEN bytes[i - room.writer]
                                                      ELSE room.store[i]
    <2> DEFINE d == CopyTo(room.store, room.writer, bytes)
    <2>1. room.writer \in Int
      BY <1>3
    <2>2. /\ d \in Seq(Byte) /\ Len(d) = Len(room.store)
          /\ \A i \in 1 .. Len(room.store) : d[i] =
                 IF i - room.writer \in 1 .. Len(bytes) THEN bytes[i - room.writer]
                                                        ELSE room.store[i]
      BY <1>3, <2>1, CopyToElements, ZenonT(30)
    <2> QED
      BY <1>4, <2>2
  <1>6. WellFormed(a)
    BY <1>3, <1>4, <1>5 DEF WellFormed
  <1>7. /\ c \in Seq(Byte) /\ Len(c) = room.writer - room.reader
        /\ \A i \in 1 .. Len(c) : c[i] = room.store[room.reader + i]
    BY <1>1, ContentElements DEF readableBytes
  <1>8. /\ c \o bytes \in Seq(Byte) /\ Len(c \o bytes) = Len(c) + Len(bytes)
        /\ \A i \in 1 .. Len(c) + Len(bytes) : (c \o bytes)[i] =
               IF i <= Len(c) THEN c[i] ELSE bytes[i - Len(c)]
    BY <1>7, ConcatProperties
  <1>9. ASSUME NEW i \in 1 .. Len(c \o bytes)
        PROVE  a.store[a.reader + i] = (c \o bytes)[i]
    <2>1. CASE i <= Len(c)
      <3>1. /\ room.reader + i \in 1 .. Len(room.store)
            /\ ~((room.reader + i) - room.writer \in 1 .. Len(bytes))
        BY <1>3, <1>7, <2>1
      <3>2. a.store[room.reader + i] = room.store[room.reader + i]
        BY <1>5, <3>1
      <3> QED
        BY <1>3, <1>4, <1>7, <1>8, <2>1, <3>2
    <2>2. CASE ~(i <= Len(c))
      <3>1. /\ room.reader + i \in 1 .. Len(room.store)
            /\ (room.reader + i) - room.writer = i - Len(c)
            /\ i - Len(c) \in 1 .. Len(bytes)
        BY <1>3, <1>7, <1>8, <2>2, SMTT(30)
      <3>2. a.store[room.reader + i] = bytes[i - Len(c)]
        BY <1>5, <3>1
      <3> QED
        BY <1>4, <1>8, <2>2, <3>2
    <2> QED
      BY <2>1, <2>2
  <1>10. toStringPiece(a) = c \o bytes
    <2>1. Len(c \o bytes) = readableBytes(a)
      BY <1>3, <1>4, <1>7, <1>8 DEF readableBytes
    <2> QED
      BY <1>6, <1>8, <1>9, <2>1, ContentIs
  <1> QED
    BY <1>1, <1>5, <1>6, <1>10 DEF a, c

(* prepend puts them in front of it.                                        *)
LEMMA PrependContent ==
    ASSUME NEW b, WellFormed(b), NEW bytes \in Seq(Byte), Len(bytes) <= prependableBytes(b)
    PROVE  LET p == prepend(b, bytes)
           IN  /\ WellFormed(p) /\ toStringPiece(p) = bytes \o toStringPiece(b)
               /\ Len(p.store) = Len(b.store)
  <1> DEFINE p == prepend(b, bytes)
             at == b.reader - Len(bytes)
             c == toStringPiece(b)
  <1>1. /\ b.store \in Seq(Byte) /\ b.reader \in Nat /\ b.writer \in Nat
        /\ b.reader <= b.writer /\ b.writer <= Len(b.store) /\ Len(b.store) \in Nat
        /\ Len(bytes) \in Nat /\ at \in Nat /\ b.reader = at + Len(bytes)
        /\ b = [store |-> b.store, reader |-> b.reader, writer |-> b.writer]
    BY DEF WellFormed, prependableBytes
  <1>2. p = [b EXCEPT !.store = CopyTo(b.store, at, bytes), !.reader = at]
    BY DEF prepend
  <1> HIDE DEF p, at
  <1>3. /\ p.store = CopyTo(b.store, at, bytes) /\ p.reader = at /\ p.writer = b.writer
        /\ p = [store |-> p.store, reader |-> p.reader, writer |-> p.writer]
    BY <1>1, <1>2
  <1>4. /\ p.store \in Seq(Byte) /\ Len(p.store) = Len(b.store)
        /\ \A i \in 1 .. Len(b.store) : p.store[i] =
               IF i - at \in 1 .. Len(bytes) THEN bytes[i - at] ELSE b.store[i]
    <2> DEFINE d == CopyTo(b.store, at, bytes)
    <2>1. at \in Int
      BY <1>1
    <2>2. /\ d \in Seq(Byte) /\ Len(d) = Len(b.store)
          /\ \A i \in 1 .. Len(b.store) :
                 d[i] = IF i - at \in 1 .. Len(bytes) THEN bytes[i - at] ELSE b.store[i]
      BY <1>1, <2>1, CopyToElements, ZenonT(30)
    <2> QED
      BY <1>3, <2>2
  <1>5. WellFormed(p)
    BY <1>1, <1>3, <1>4 DEF WellFormed
  <1>6. /\ c \in Seq(Byte) /\ Len(c) = b.writer - b.reader
        /\ \A i \in 1 .. Len(c) : c[i] = b.store[b.reader + i]
    BY ContentElements DEF readableBytes
  <1> HIDE DEF c
  <1>7. /\ bytes \o c \in Seq(Byte) /\ Len(bytes \o c) = Len(bytes) + Len(c)
        /\ \A i \in 1 .. Len(bytes) + Len(c) : (bytes \o c)[i] =
               IF i <= Len(bytes) THEN bytes[i] ELSE c[i - Len(bytes)]
    BY <1>6, ConcatProperties
  <1>8. ASSUME NEW i \in 1 .. Len(bytes \o c)
        PROVE  p.store[p.reader + i] = (bytes \o c)[i]
    <2>1. CASE i <= Len(bytes)
      <3>1. at + i \in 1 .. Len(b.store) /\ (at + i) - at = i /\ i \in 1 .. Len(bytes)
        BY <1>1, <1>6, <1>7, <2>1, SMTT(30)
      <3>2. p.store[at + i] = bytes[i]
        BY <1>4, <3>1
      <3> QED
        BY <1>3, <1>7, <2>1, <3>2
    <2>2. CASE ~(i <= Len(bytes))
      <3>1. i \in Len(bytes) + 1 .. Len(bytes) + Len(c)
        BY <1>1, <1>6, <1>7, <2>2
      <3>2. at + i \in 1 .. Len(b.store) /\ i - Len(bytes) \in 1 .. Len(c)
        BY <1>1, <1>6, <3>1, SMTT(30)
      <3>3. at + i = b.reader + (i - Len(bytes)) /\ ~((at + i) - at \in 1 .. Len(bytes))
        BY <1>1, <1>6, <3>1, SMTT(30)
      <3>4. p.store[at + i] = b.store[at + i]
        BY <1>4, <3>2, <3>3
      <3> QED
        BY <1>3, <1>6, <1>7, <2>2, <3>2, <3>3, <3>4
    <2> QED
      BY <2>1, <2>2
  <1>9. toStringPiece(p) = bytes \o c
    <2>1. Len(bytes \o c) = readableBytes(p)
      BY <1>1, <1>3, <1>6, <1>7 DEF readableBytes
    <2> QED
      BY <1>5, <1>7, <1>8, <2>1, ContentIs
  <1> QED
    BY <1>4, <1>5, <1>9 DEF p, c

(* retrieve takes bytes from the front, and unwrite from the end.           *)
LEMMA RetrieveContent ==
    ASSUME NEW b, WellFormed(b), NEW len \in 0 .. readableBytes(b),
           kCheapPrepend <= Len(b.store)
    PROVE  LET r == retrieve(b, len)
           IN  /\ WellFormed(r) /\ r.store = b.store
               /\ toStringPiece(r) = SubSeq(toStringPiece(b), len + 1, Len(toStringPiece(b)))
  <1> DEFINE r == retrieve(b, len)
             c == toStringPiece(b)
  <1>1. /\ b.store \in Seq(Byte) /\ b.reader \in Nat /\ b.writer \in Nat
        /\ b.reader <= b.writer /\ b.writer <= Len(b.store)
        /\ b = [store |-> b.store, reader |-> b.reader, writer |-> b.writer]
        /\ readableBytes(b) = b.writer - b.reader
    BY DEF WellFormed, readableBytes
  <1>2. /\ c \in Seq(Byte) /\ Len(c) = b.writer - b.reader
        /\ \A i \in 1 .. Len(c) : c[i] = b.store[b.reader + i]
    BY <1>1, ContentElements
  <1>3. CASE len < readableBytes(b)
    <2>1. r = [b EXCEPT !.reader = b.reader + len]
      BY <1>3 DEF retrieve
    <2> HIDE DEF r, c
    <2>2. /\ r.store = b.store /\ r.reader = b.reader + len /\ r.writer = b.writer
          /\ WellFormed(r)
      BY <1>1, <1>3, <2>1 DEF WellFormed
    <2>3. /\ SubSeq(c, len + 1, Len(c)) \in Seq(Byte)
          /\ Len(SubSeq(c, len + 1, Len(c))) = Len(c) - len
          /\ \A i \in 1 .. Len(c) - len : SubSeq(c, len + 1, Len(c))[i] = c[len + i]
      <3>1. Len(c) \in len .. Len(c) /\ len \in Nat
        BY <1>1, <1>2, <1>3
      <3> QED
        BY <1>2, <3>1, PieceElements
    <2>4. ASSUME NEW i \in 1 .. Len(SubSeq(c, len + 1, Len(c)))
          PROVE  r.store[r.reader + i] = SubSeq(c, len + 1, Len(c))[i]
      <3>1. i \in 1 .. Len(c) - len /\ len + i \in 1 .. Len(c)
            /\ r.reader + i = b.reader + (len + i)
        BY <1>1, <1>2, <1>3, <2>2, <2>3, SMTT(30)
      <3> QED
        BY <1>2, <2>2, <2>3, <3>1
    <2>5. toStringPiece(r) = SubSeq(c, len + 1, Len(c))
      <3>1. Len(SubSeq(c, len + 1, Len(c))) = readableBytes(r)
        BY <1>1, <1>2, <2>2, <2>3 DEF readableBytes
      <3> QED
        BY <2>2, <2>3, <2>4, <3>1, ContentIs
    <2> QED
      BY <2>2, <2>5 DEF r, c
  <1>4. CASE len = readableBytes(b)
    <2>1. r = [b EXCEPT !.reader = kCheapPrepend, !.writer = kCheapPrepend]
      BY <1>1, <1>4 DEF retrieve, retrieveAll
    <2> HIDE DEF r, c
    <2>2. /\ r.store = b.store /\ r.reader = kCheapPrepend /\ r.writer = kCheapPrepend
          /\ r = [store |-> r.store, reader |-> r.reader, writer |-> r.writer]
      BY <1>1, <2>1
    <2>5. WellFormed(r)
      BY <1>1, <2>2, BufferAssumption DEF WellFormed
    <2>3. toStringPiece(r) = <<>>
      BY <2>2, SubSeqEmpty, BufferAssumption DEF toStringPiece
    <2>4. SubSeq(c, len + 1, Len(c)) = <<>>
      <3>1. len + 1 \in Int /\ Len(c) \in Int /\ Len(c) < len + 1
        BY <1>1, <1>2, <1>4
      <3> QED
        BY <3>1, SubSeqEmpty
    <2> QED
      BY <2>2, <2>3, <2>4, <2>5 DEF r, c
  <1> QED
    BY <1>1, <1>3, <1>4

LEMMA UnwriteContent ==
    ASSUME NEW b, WellFormed(b), NEW len \in 0 .. readableBytes(b)
    PROVE  LET u == unwrite(b, len)
           IN  /\ WellFormed(u) /\ u.store = b.store
               /\ toStringPiece(u) = SubSeq(toStringPiece(b), 1, Len(toStringPiece(b)) - len)
  <1> DEFINE u == unwrite(b, len)
             c == toStringPiece(b)
             w == Len(c) - len
  <1>1. /\ b.store \in Seq(Byte) /\ b.reader \in Nat /\ b.writer \in Nat
        /\ b.reader <= b.writer /\ b.writer <= Len(b.store)
        /\ b = [store |-> b.store, reader |-> b.reader, writer |-> b.writer]
        /\ readableBytes(b) = b.writer - b.reader
    BY DEF WellFormed, readableBytes
  <1>2. /\ c \in Seq(Byte) /\ Len(c) = b.writer - b.reader
        /\ \A i \in 1 .. Len(c) : c[i] = b.store[b.reader + i]
    BY <1>1, ContentElements
  <1>3. u = [b EXCEPT !.writer = b.writer - len]
    BY DEF unwrite
  <1> HIDE DEF u, c
  <1>4. /\ u.store = b.store /\ u.reader = b.reader /\ u.writer = b.writer - len
        /\ WellFormed(u)
    BY <1>1, <1>3 DEF WellFormed
  <1>5. w \in 0 .. Len(c) /\ readableBytes(u) = w
    BY <1>1, <1>2, <1>4 DEF readableBytes
  <1> HIDE DEF w
  <1>6. /\ SubSeq(c, 1, w) \in Seq(Byte) /\ Len(SubSeq(c, 1, w)) = w
        /\ \A i \in 1 .. w : SubSeq(c, 1, w)[i] = c[i]
    BY <1>2, <1>5, ElementOfSeq, SMT
  <1>7. toStringPiece(u) = SubSeq(c, 1, w)
    <2>1. \A i \in 1 .. Len(SubSeq(c, 1, w)) : u.store[u.reader + i] = SubSeq(c, 1, w)[i]
      BY <1>2, <1>4, <1>5, <1>6
    <2> QED
      BY <1>4, <1>5, <1>6, <2>1, ContentIs
  <1> QED
    BY <1>4, <1>7 DEF u, c, w

(* shrink moves the content to another array.                               *)
LEMMA ShrinkContent ==
    ASSUME NEW b, WellFormed(b), NEW reserve \in Nat
    PROVE  LET s == shrink(b, reserve)
           IN  /\ WellFormed(s) /\ toStringPiece(s) = toStringPiece(b)
               /\ \/ Len(s.store) = kCheapPrepend + kInitialSize
                  \/ /\ kCheapPrepend <= Len(s.store)
                     /\ Len(s.store) < kCheapPrepend + 2 * (readableBytes(b) + reserve)
  <1> DEFINE n == readableBytes(b) + reserve
             room == ensureWritableBytes(NewBuffer, n)
             c == toStringPiece(b)
  <1>1. n \in Nat /\ c \in Seq(Byte) /\ Len(c) \in Nat /\ Len(c) <= n
    BY ContentElements
  <1>2. /\ WellFormed(NewBuffer) /\ toStringPiece(NewBuffer) = <<>>
        /\ readableBytes(NewBuffer) = 0 /\ Len(NewBuffer.store) = kCheapPrepend + kInitialSize
    BY NewBufferEmpty, BufferAssumption DEF NewBuffer, readableBytes
  <1> HIDE DEF n, c
  <1>3. /\ WellFormed(room) /\ toStringPiece(room) = <<>> /\ readableBytes(room) = 0
        /\ \/ Len(room.store) = kCheapPrepend + kInitialSize
           \/ /\ kCheapPrepend <= Len(room.store)
              /\ Len(room.store) < kCheapPrepend + n + n
    <2>1. /\ WellFormed(room) /\ toStringPiece(room) = toStringPiece(NewBuffer)
          /\ \/ Len(room.store) = Len(NewBuffer.store)
             \/ /\ Len(NewBuffer.store) <= Len(room.store)
                /\ Len(room.store) < kCheapPrepend + readableBytes(NewBuffer) + n + n
      BY <1>1, <1>2, EnsureWritable
    <2>2. readableBytes(room) = 0
      BY <1>2, <2>1, ContentElements
    <2> QED
      BY <1>1, <1>2, <2>1, <2>2, BufferAssumption
  <1>4. shrink(b, reserve) = append(room, c)
    BY DEF shrink, n, c
  <1> HIDE DEF room
  <1>5. /\ WellFormed(append(room, c)) /\ toStringPiece(append(room, c)) = <<>> \o c
        /\ \/ Len(append(room, c).store) = Len(room.store)
           \/ /\ Len(room.store) <= Len(append(room, c).store)
              /\ Len(append(room, c).store) < kCheapPrepend + 0 + Len(c) + Len(c)
    BY <1>1, <1>3, AppendContent
  <1>6. <<>> \o c = c
    BY <1>1, ConcatEmptySeq
  <1>7. Len(append(room, c).store) \in Nat /\ Len(room.store) \in Nat
    BY <1>3, <1>5 DEF WellFormed
  <1>8. \/ Len(append(room, c).store) = kCheapPrepend + kInitialSize
        \/ /\ kCheapPrepend <= Len(append(room, c).store)
           /\ Len(append(room, c).store) < kCheapPrepend + 2 * n
    BY <1>1, <1>3, <1>5, <1>7, BufferAssumption
  <1> QED
    BY <1>4, <1>5, <1>6, <1>8 DEF n, c

-----------------------------------------------------------------------------
(* The invariant; a buffer never has less than its prepend area.            *)
IInv == TypeOK /\ MemoryBounded /\ kCheapPrepend <= Len(buf.store)

LEMMA InitInvariant == Init => IInv
  BY NewBufferEmpty, BufferAssumption DEF Init, IInv, TypeOK, MemoryBounded, NewBuffer

(* Every operation keeps the invariant and is a step of the queue of bytes. *)
LEMMA Step ==
    ASSUME IInv, [Next]_buf
    PROVE  IInv' /\ [Queue!Next]_(toStringPiece(buf))
  <1> DEFINE c == toStringPiece(buf)
  <1>1. /\ WellFormed(buf) /\ kCheapPrepend <= Len(buf.store) /\ MemoryBounded
        /\ c \in Seq(Byte) /\ Len(c) = readableBytes(buf) /\ readableBytes(buf) \in Nat
        /\ Len(buf.store) \in Nat
    BY ContentElements DEF IInv, TypeOK, WellFormed
  <1>2. ASSUME WellFormed(buf'), kCheapPrepend <= Len(buf'.store),
               \/ Len(buf'.store) = Len(buf.store)
               \/ Len(buf'.store) = kCheapPrepend + kInitialSize
               \/ Len(buf'.store) < kCheapPrepend + 2 * MaxContent
        PROVE  IInv'
    BY <1>1, <1>2 DEF IInv, TypeOK, MemoryBounded, WellFormed
  <1>3. ASSUME NEW chunk \in Chunk, AppendChunk(chunk)
        PROVE  IInv' /\ [Queue!Next]_(toStringPiece(buf))
    <2>1. /\ chunk \in Seq(Byte) /\ Len(chunk) \in Nat
          /\ readableBytes(buf) + Len(chunk) <= MaxContent /\ buf' = append(buf, chunk)
      BY <1>3, BufferAssumption DEF AppendChunk
    <2>2. /\ WellFormed(buf') /\ toStringPiece(buf') = c \o chunk
          /\ \/ Len(buf'.store) = Len(buf.store)
             \/ /\ Len(buf.store) <= Len(buf'.store)
                /\ Len(buf'.store)
                     < kCheapPrepend + readableBytes(buf) + Len(chunk) + Len(chunk)
      BY <1>1, <2>1, AppendContent
    <2>3. Len(buf'.store) \in Nat
      BY <2>2 DEF WellFormed
    <2>4. IInv'
      <3> USE BufferAssumption
      <3>1. Len(buf.store) <= Len(buf'.store)
        BY <1>1, <2>2, <2>3
      <3>2. Len(buf'.store) = Len(buf.store)
            \/ Len(buf'.store) < kCheapPrepend + 2 * MaxContent
        BY <1>1, <2>1, <2>2, <2>3
      <3>3. MemoryBounded'
        BY <1>1, <2>3, <3>2 DEF MemoryBounded
      <3> QED
        BY <1>1, <2>2, <2>3, <3>1, <3>3 DEF IInv, TypeOK
    <2>5. Queue!AppendChunk(chunk)
      BY <2>2 DEF Queue!AppendChunk, toStringPiece
    <2> QED
      BY <2>4, <2>5 DEF Queue!Next
  <1>4. ASSUME NEW chunk \in Chunk, PrependChunk(chunk)
        PROVE  IInv' /\ [Queue!Next]_(toStringPiece(buf))
    <2>1. /\ chunk \in Seq(Byte) /\ Len(chunk) <= prependableBytes(buf)
          /\ buf' = prepend(buf, chunk)
      BY <1>4, BufferAssumption DEF PrependChunk
    <2>2. /\ WellFormed(buf') /\ toStringPiece(buf') = chunk \o c
          /\ Len(buf'.store) = Len(buf.store)
      BY <1>1, <2>1, PrependContent
    <2>3. Queue!PrependChunk(chunk)
      BY <2>2 DEF Queue!PrependChunk, toStringPiece
    <2> QED
      BY <1>1, <1>2, <2>2, <2>3 DEF Queue!Next
  <1>5. ASSUME NEW len \in 0 .. MaxContent + kCheapPrepend, Retrieve(len)
        PROVE  IInv' /\ [Queue!Next]_(toStringPiece(buf))
    <2>1. len \in 0 .. readableBytes(buf) /\ buf' = retrieve(buf, len)
      BY <1>1, <1>5 DEF Retrieve
    <2>2. /\ WellFormed(buf') /\ buf'.store = buf.store
          /\ toStringPiece(buf') = SubSeq(c, len + 1, Len(c))
      BY <1>1, <2>1, RetrieveContent
    <2>3. Queue!Retrieve(len) /\ len \in 0 .. Len(c)
      BY <1>1, <2>1, <2>2 DEF Queue!Retrieve, toStringPiece
    <2> QED
      BY <1>1, <1>2, <2>2, <2>3 DEF Queue!Next
  <1>6. ASSUME NEW len \in 0 .. MaxContent + kCheapPrepend, Unwrite(len)
        PROVE  IInv' /\ [Queue!Next]_(toStringPiece(buf))
    <2>1. len \in 0 .. readableBytes(buf) /\ buf' = unwrite(buf, len)
      BY <1>1, <1>6 DEF Unwrite
    <2>2. /\ WellFormed(buf') /\ buf'.store = buf.store
          /\ toStringPiece(buf') = SubSeq(c, 1, Len(c) - len)
      BY <1>1, <2>1, UnwriteContent
    <2>3. Queue!Unwrite(len) /\ len \in 0 .. Len(c)
      BY <1>1, <2>1, <2>2 DEF Queue!Unwrite, toStringPiece
    <2> QED
      BY <1>1, <1>2, <2>2, <2>3 DEF Queue!Next
  <1>7. ASSUME NEW len \in 0 .. MaxContent + kCheapPrepend, Reserve(len)
        PROVE  IInv' /\ [Queue!Next]_(toStringPiece(buf))
    <2>1. len \in Nat /\ readableBytes(buf) + len <= MaxContent
      BY <1>7, BufferAssumption DEF Reserve
    <2>2. CASE buf' = ensureWritableBytes(buf, len)
      <3>1. /\ WellFormed(buf') /\ toStringPiece(buf') = c
            /\ \/ Len(buf'.store) = Len(buf.store)
               \/ /\ Len(buf.store) <= Len(buf'.store)
                  /\ Len(buf'.store) < kCheapPrepend + readableBytes(buf) + len + len
        BY <1>1, <2>1, <2>2, EnsureWritable
      <3>2. Len(buf'.store) \in Nat
        BY <3>1 DEF WellFormed
      <3>3. IInv'
        BY <1>1, <1>2, <2>1, <3>1, <3>2, BufferAssumption, SMTT(30)
      <3> QED
        BY <3>1, <3>3 DEF toStringPiece
    <2>3. CASE buf' = shrink(buf, len)
      <3>1. /\ WellFormed(buf') /\ toStringPiece(buf') = c
            /\ \/ Len(buf'.store) = kCheapPrepend + kInitialSize
               \/ /\ kCheapPrepend <= Len(buf'.store)
                  /\ Len(buf'.store) < kCheapPrepend + 2 * (readableBytes(buf) + len)
        BY <1>1, <2>1, <2>3, ShrinkContent
      <3>2. Len(buf'.store) \in Nat
        BY <3>1 DEF WellFormed
      <3>3. IInv'
        BY <1>1, <1>2, <2>1, <3>1, <3>2, BufferAssumption
      <3> QED
        BY <3>1, <3>3 DEF toStringPiece
    <2> QED
      BY <1>7, <2>2, <2>3 DEF Reserve
  <1>8. CASE UNCHANGED buf
    BY <1>8 DEF IInv, TypeOK, MemoryBounded, WellFormed, toStringPiece
  <1> QED
    BY <1>3, <1>4, <1>5, <1>6, <1>7, <1>8 DEF Next

(* In every reachable state the invariant holds.                            *)
THEOREM Invariant == Spec => []IInv
  BY InitInvariant, Step, PTL DEF Spec

(* The indices of a buffer are in order and within its array.               *)
THEOREM TypeCorrect == Spec => []TypeOK
  BY Invariant, PTL DEF IInv

(* The array is at most twice as long as the content ever asked for.        *)
THEOREM MemoryIsBounded == Spec => []MemoryBounded
  BY Invariant, PTL DEF IInv

(* The buffer implements the string of bytes with two ends.                 *)
THEOREM Refinement == Spec => ImplementsQueue
  <1>1. Init => Queue!Init
    BY NewBufferEmpty DEF Init, Queue!Init
  <1> QED
    BY <1>1, Step, Invariant, PTL DEF Spec, ImplementsQueue, Queue!Spec
=============================================================================
