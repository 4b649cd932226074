------------------------- MODULE StreamSystemProofs -------------------------
(***************************************************************************)
(* Proofs about the whole stream, for any number of frames, connections    *)
(* and pieces of a frame, and any capacity of the image queue.  The        *)
(* argument is about what the client has not yet delivered of its          *)
(* connection: its input buffer and the pieces on their way are together   *)
(* whole frames, not older than any frame that went before them.           *)
(***************************************************************************)
EXTENDS StreamSystem, SequenceTheorems, TLAPS

(* What is still to come on the client's connection.                        *)
Coming == IF connection_ = null THEN <<>> ELSE inputBuffer \o wire[connection_]

(* Pieces that are whole frames: each frame that begins is all there, and   *)
(* the next one begins behind it.                                           *)
WholeFrames(s) ==
    /\ s # <<>> => s[1].part = 1
    /\ \A i \in 1 .. Len(s) : s[i].part = 1 =>
           /\ i + Parts - 1 <= Len(s)
           /\ \A j \in 1 .. Parts : s[i + j - 1] = [frame |-> s[i].frame, part |-> j]
           /\ i + Parts <= Len(s) => s[i + Parts].part = 1

(* Nothing is left of the connections the client has lost.                  *)
OneWire ==
    /\ \A c \in Conn : c # connection_ => wire[c] = <<>>
    /\ connection_ = null => inputBuffer = <<>>

(* From the window through the queue to the wire the frames grow older in   *)
(* no place, and none is newer than the last captured.                      *)
InOrder ==
    /\ \A i \in 1 .. Len(Coming) : Coming[i].frame \in last .. captured
    /\ \A i, j \in 1 .. Len(Coming) : i <= j => Coming[i].frame <= Coming[j].frame
    /\ \A i \in 1 .. Len(queue) : queue[i] \in (shown .. captured) \ TooLong
    /\ \A i, j \in 1 .. Len(queue) : i <= j => queue[i] <= queue[j]
    /\ \A i \in 1 .. Len(Coming) :
           /\ shown <= Coming[i].frame
           /\ \A j \in 1 .. Len(queue) : queue[j] <= Coming[i].frame
    /\ shown <= captured /\ last <= captured

(* What the steps of the server and of push need.                           *)
Counted ==
    /\ bytes = Len(queue)
    /\ round => captured \in Frame
    /\ overlap => undefined

IInv == TypeOK /\ OneWire /\ WholeFrames(Coming) /\ InOrder /\ Counted

(* As long as no round was undefined, the frames on the connection follow   *)
(* each other, up to the one that the send thread has reached.              *)
Latest == IF Coming = <<>> THEN last ELSE Coming[Len(Coming)].frame

Consecutive ==
    ~undefined =>
        /\ \A i \in 1 .. Len(Coming) : Coming[i].part = 1 =>
               /\ i = 1 /\ last # 0 => Coming[i].frame = last + 1
               /\ i + Parts <= Len(Coming) =>
                      Coming[i + Parts].frame = Coming[i].frame + 1
        /\ connection_ \in connections_ /\ Latest # 0 =>
               Latest = IF round /\ connection_ \in toSend THEN captured - 1 ELSE captured
        /\ connection_ # null /\ serverEnd[connection_] = "backlog" => Latest = 0
-----------------------------------------------------------------------------
(* Pieces and whole frames.                                                 *)
LEMMA PiecesElements ==
    ASSUME NEW f \in Frame
    PROVE  /\ Pieces(f) \in Seq(Piece) /\ Len(Pieces(f)) = Parts /\ Parts \in Nat \ {0}
           /\ \A i \in 1 .. Parts : Pieces(f)[i] = [frame |-> f, part |-> i]
  BY StreamAssumption DEF Pieces, Piece

(* A frame joins whole frames.                                              *)
LEMMA WholeFramesGrow ==
    ASSUME NEW s \in Seq(Piece), WholeFrames(s), NEW f \in Frame
    PROVE  /\ s \o Pieces(f) \in Seq(Piece) /\ Len(s \o Pieces(f)) = Len(s) + Parts
           /\ \A i \in 1 .. Len(s) : (s \o Pieces(f))[i] = s[i]
           /\ \A i \in 1 .. Parts :
                  (s \o Pieces(f))[Len(s) + i] = [frame |-> f, part |-> i]
           /\ WholeFrames(s \o Pieces(f))
  <1> DEFINE t == s \o Pieces(f)
             n == Len(s)
  <1>1. n \in Nat /\ Parts \in Nat \ {0}
    BY StreamAssumption
  <1>2. /\ t \in Seq(Piece) /\ Len(t) = n + Parts
        /\ \A i \in 1 .. n + Parts : t[i] = IF i <= n THEN s[i] ELSE Pieces(f)[i - n]
    <2> DEFINE u == Pieces(f)
    <2>1. u \in Seq(Piece) /\ Len(u) = Parts
      BY PiecesElements
    <2> HIDE DEF u
    <2>2. /\ s \o u \in Seq(Piece) /\ Len(s \o u) = Len(s) + Len(u)
          /\ \A i \in 1 .. Len(s) + Len(u) :
                 (s \o u)[i] = IF i <= Len(s) THEN s[i] ELSE u[i - Len(s)]
      BY <2>1, ConcatProperties
    <2> QED
      BY <2>1, <2>2 DEF u
  <1>3. \A i \in 1 .. n : t[i] = s[i]
    BY <1>1, <1>2
  <1>4. ASSUME NEW i \in 1 .. Parts
        PROVE  t[n + i] = [frame |-> f, part |-> i]
    <2>1. n + i \in 1 .. n + Parts /\ ~(n + i <= n) /\ (n + i) - n = i
      BY <1>1
    <2> QED
      BY <1>2, <2>1, PiecesElements
  <1> HIDE DEF t, n
  <1>5. t[1].part = 1
    <2>1. CASE n = 0
      <3>1. 1 \in 1 .. Parts /\ n + 1 = 1
        BY <1>1, <2>1
      <3>2. t[n + 1] = [frame |-> f, part |-> 1]
        BY <1>4, <3>1
      <3> QED
        BY <3>1, <3>2
    <2>2. CASE n # 0
      <3>1. 1 \in 1 .. n /\ s # <<>>
        BY <1>1, <2>2 DEF n
      <3> QED
        BY <1>3, <3>1 DEF WholeFrames
    <2> QED
      BY <2>1, <2>2
  <1>6. ASSUME NEW i \in 1 .. Len(t), t[i].part = 1
        PROVE  /\ i + Parts - 1 <= Len(t)
               /\ \A j \in 1 .. Parts : t[i + j - 1] = [frame |-> t[i].frame, part |-> j]
               /\ i + Parts <= Len(t) => t[i + Parts].part = 1
    <2>1. CASE i <= n
      <3>1. i \in 1 .. n /\ t[i] = s[i]
        BY <1>1, <1>3, <2>1
      <3>2. /\ i + Parts - 1 <= n
            /\ \A j \in 1 .. Parts : s[i + j - 1] = [frame |-> s[i].frame, part |-> j]
            /\ i + Parts <= n => s[i + Parts].part = 1
        BY <1>6, <3>1 DEF WholeFrames, n
      <3>3. \A j \in 1 .. Parts : i + j - 1 \in 1 .. n
        BY <1>1, <3>1, <3>2
      <3>4. i + Parts <= n => i + Parts \in 1 .. n
        BY <1>1, <3>1
      <3>5. i + Parts > n => i + Parts = n + 1 /\ 1 \in 1 .. Parts
        BY <1>1, <3>1, <3>2
      <3>6. ASSUME i + Parts > n
            PROVE  t[i + Parts].part = 1
        <4>1. t[n + 1] = [frame |-> f, part |-> 1]
          BY <1>4, <3>5, <3>6
        <4> QED
          BY <3>5, <3>6, <4>1
      <3>7. i + Parts <= n => t[i + Parts].part = 1
        BY <1>3, <3>2, <3>4
      <3>8. \A j \in 1 .. Parts : t[i + j - 1] = [frame |-> t[i].frame, part |-> j]
        BY <1>3, <3>1, <3>2, <3>3
      <3>9. i + Parts - 1 <= Len(t)
        BY <1>1, <1>2, <3>1, <3>2
      <3> QED
        BY <1>1, <3>1, <3>6, <3>7, <3>8, <3>9
    <2>2. CASE i > n
      <3>1. i - n \in 1 .. Parts /\ n + (i - n) = i
        BY <1>1, <1>2, <2>2
      <3>2. i = n + 1 /\ t[i].frame = f
        <4>1. t[n + (i - n)] = [frame |-> f, part |-> i - n]
          BY <1>4, <3>1
        <4>2. i - n = 1
          BY <1>6, <3>1, <4>1
        <4> QED
          BY <1>1, <3>1, <4>1, <4>2
      <3>3. \A j \in 1 .. Parts : i + j - 1 = n + j
        BY <1>1, <3>2
      <3> QED
        <4>1. \A j \in 1 .. Parts : t[i + j - 1] = [frame |-> t[i].frame, part |-> j]
          BY <1>4, <3>2, <3>3
        <4>2. i + Parts - 1 <= Len(t) /\ ~(i + Parts <= Len(t))
          BY <1>1, <1>2, <3>2
        <4> QED
          BY <4>1, <4>2
    <2> QED
      BY <1>1, <2>1, <2>2
  <1>7. WholeFrames(t)
    BY <1>5, <1>6 DEF WholeFrames
  <1> QED
    BY <1>2, <1>3, <1>4, <1>7 DEF t, n

(* The first of them is all there.                                          *)
LEMMA FirstFrame ==
    ASSUME NEW s \in Seq(Piece), WholeFrames(s), s # <<>>
    PROVE  /\ Parts \in Nat \ {0} /\ Len(s) \in Nat /\ Parts <= Len(s)
           /\ s[1].part = 1 /\ s[1].frame \in Frame
           /\ \A j \in 1 .. Parts : s[j] = [frame |-> s[1].frame, part |-> j]
  <1>1. Parts \in Nat \ {0} /\ Len(s) \in Nat \ {0} /\ 1 \in 1 .. Len(s)
    BY EmptySeq, StreamAssumption
  <1>2. s[1].part = 1 /\ s[1] \in Piece
    BY <1>1, ElementOfSeq DEF WholeFrames
  <1>3. /\ 1 + Parts - 1 <= Len(s)
        /\ \A j \in 1 .. Parts : s[1 + j - 1] = [frame |-> s[1].frame, part |-> j]
    BY <1>1, <1>2 DEF WholeFrames
  <1>4. \A j \in 1 .. Parts : 1 + j - 1 = j
    BY <1>1
  <1> QED
    BY <1>1, <1>2, <1>3, <1>4 DEF Piece

(* And without it, whole frames are left.                                   *)
LEMMA WholeFramesShrink ==
    ASSUME NEW s \in Seq(Piece), WholeFrames(s), s # <<>>,
           NEW t \in Seq(Piece), Len(t) = Len(s) - Parts,
           \A i \in 1 .. Len(t) : t[i] = s[i + Parts]
    PROVE  WholeFrames(t)
  <1>1. Parts \in Nat \ {0} /\ Len(s) \in Nat /\ Len(t) \in Nat /\ s[1].part = 1
    BY FirstFrame
  <1>2. \A i \in 1 .. Len(t) : i + Parts \in 1 .. Len(s)
    BY <1>1
  <1>3. t # <<>> => t[1].part = 1
    <2>1. t # <<>> => 1 \in 1 .. Len(t) /\ 1 \in 1 .. Len(s) /\ 1 + Parts <= Len(s)
      BY <1>1, EmptySeq
    <2>2. 1 + Parts <= Len(s) => s[1 + Parts].part = 1
      <3>1. Len(s) # 0 => 1 \in 1 .. Len(s)
        BY <1>1
      <3> QED
        BY <1>1, <3>1 DEF WholeFrames
    <2>3. t # <<>> => t[1] = s[1 + Parts]
      BY <2>1
    <2> QED
      BY <2>1, <2>2, <2>3
  <1>4. ASSUME NEW i \in 1 .. Len(t), t[i].part = 1
        PROVE  /\ i + Parts - 1 <= Len(t)
               /\ \A j \in 1 .. Parts : t[i + j - 1] = [frame |-> t[i].frame, part |-> j]
               /\ i + Parts <= Len(t) => t[i + Parts].part = 1
    <2> DEFINE k == i + Parts
    <2>1. k \in 1 .. Len(s) /\ t[i] = s[k] /\ k \in Nat
      BY <1>1, <1>2
    <2>2. /\ k + Parts - 1 <= Len(s)
          /\ \A j \in 1 .. Parts : s[k + j - 1] = [frame |-> s[k].frame, part |-> j]
          /\ k + Parts <= Len(s) => s[k + Parts].part = 1
      BY <1>4, <2>1 DEF WholeFrames
    <2>3. i + Parts - 1 <= Len(t)
      BY <1>1, <2>2
    <2>4. \A j \in 1 .. Parts :
              i + j - 1 \in 1 .. Len(t) /\ (i + j - 1) + Parts = k + j - 1
      BY <1>1, <2>3
    <2>5. i + Parts <= Len(t) => i + Parts \in 1 .. Len(t) /\ k + Parts <= Len(s)
      BY <1>1
    <2>6. ASSUME NEW j \in 1 .. Parts
          PROVE  t[i + j - 1] = [frame |-> t[i].frame, part |-> j]
      BY <2>1, <2>2, <2>4
    <2> QED
      BY <2>2, <2>3, <2>5, <2>6
  <1> QED
    BY <1>3, <1>4 DEF WholeFrames

-----------------------------------------------------------------------------
(* What the steps do to that which is to come.                              *)
LEMMA ComingType == TypeOK => Coming \in Seq(Piece) /\ Len(Coming) \in Nat
  <1> SUFFICES ASSUME TypeOK PROVE Coming \in Seq(Piece)
    OBVIOUS
  <1>1. CASE connection_ = null
    BY <1>1, EmptySeq DEF Coming
  <1>2. CASE connection_ # null
    BY <1>2, ConcatProperties DEF Coming, TypeOK
  <1> QED
    BY <1>1, <1>2

LEMMA JoinAssociative ==
    \A s, t, u \in Seq(Piece) : (s \o t) \o u = s \o (t \o u)
  BY ConcatAssociative

LEMMA ComingKept ==
    UNCHANGED <<connection_, inputBuffer, wire>> => Coming' = Coming
  BY DEF Coming

(* A send to the client's connection adds the frame of the round; any other *)
(* adds nothing.                                                            *)
LEMMA ComingGrows ==
    ASSUME IInv, NEW c \in Conn, Send(c)
    PROVE  /\ OneWire'
           /\ \/ c = connection_ /\ c \in connections_ /\ Coming' = Coming \o Pieces(captured)
              \/ ~(c = connection_ /\ c \in connections_) /\ Coming' = Coming
  <1>1. /\ captured \in Frame /\ UNCHANGED <<connection_, inputBuffer>>
        /\ wire \in [Conn -> Seq(Piece)] /\ inputBuffer \in Seq(Piece)
    BY DEF IInv, Counted, TypeOK, Send, clientVars
  <1>2. CASE c = connection_ /\ c \in connections_
    <2>1. /\ wire'[c] = wire[c] \o Pieces(captured)
          /\ \A d \in Conn : d # c => wire'[d] = wire[d]
      BY <1>1, <1>2 DEF Send
    <2>2. connection_ # null /\ wire[c] \in Seq(Piece)
      BY <1>1, <1>2 DEF Conn, null
    <2>3. Coming' = inputBuffer \o (wire[c] \o Pieces(captured))
      BY <1>1, <1>2, <2>1, <2>2 DEF Coming
    <2>4. Coming' = (inputBuffer \o wire[c]) \o Pieces(captured)
      <3> DEFINE u == Pieces(captured)
      <3>1. u \in Seq(Piece)
        BY <1>1, PiecesElements
      <3> HIDE DEF u
      <3>2. inputBuffer \o (wire[c] \o u) = (inputBuffer \o wire[c]) \o u
        BY <1>1, <2>2, <3>1, JoinAssociative, Zenon
      <3> QED
        BY <2>3, <3>2 DEF u
    <2>5. OneWire'
      BY <1>1, <1>2, <2>1, <2>2 DEF IInv, OneWire
    <2> QED
      BY <1>2, <2>2, <2>4, <2>5 DEF Coming
  <1>3. CASE ~(c = connection_ /\ c \in connections_)
    <2>1. wire' = wire
      BY <1>3 DEF Send
    <2> QED
      BY <1>1, <1>3, <2>1 DEF IInv, OneWire, Coming
  <1> QED
    BY <1>2, <1>3

(* A read moves pieces to the input buffer.                                 *)
LEMMA ComingMoves ==
    ASSUME IInv, connection_ # null, NEW n \in 1 .. Len(wire[connection_]), Receive(n)
    PROVE  OneWire' /\ Coming' = Coming /\ inputBuffer' \in Seq(Piece)
           /\ wire' \in [Conn -> Seq(Piece)]
  <1> DEFINE w == wire[connection_]
  <1>1. /\ connection_ \in Conn /\ connection_' = connection_ /\ w \in Seq(Piece)
        /\ inputBuffer \in Seq(Piece) /\ wire \in [Conn -> Seq(Piece)]
        /\ n \in Nat /\ 1 <= n /\ n <= Len(w) /\ Len(w) \in Nat
    BY DEF IInv, TypeOK, Receive
  <1>2. /\ inputBuffer' = inputBuffer \o SubSeq(w, 1, n)
        /\ wire' = [wire EXCEPT ![connection_] = SubSeq(w, n + 1, Len(w))]
    BY <1>1 DEF Receive
  <1> HIDE DEF w
  <1>3. SubSeq(w, 1, n) \in Seq(Piece) /\ SubSeq(w, n + 1, Len(w)) \in Seq(Piece)
    BY <1>1
  <1>4. SubSeq(w, 1, n) \o SubSeq(w, n + 1, Len(w)) = w
    <2>1. 1 \in 1 .. Len(w) + 1 /\ n \in 1 - 1 .. Len(w) /\ Len(w) \in n .. Len(w)
      BY <1>1
    <2>2. SubSeq(w, 1, n) \o SubSeq(w, n + 1, Len(w)) = SubSeq(w, 1, Len(w))
      BY <1>1, <2>1, ConcatAdjacentSubSeq
    <2> QED
      BY <1>1, <2>2, SubSeqFull
  <1>5. wire'[connection_] = SubSeq(w, n + 1, Len(w))
        /\ \A d \in Conn : d # connection_ => wire'[d] = wire[d]
    BY <1>1, <1>2
  <1>6. Coming' = Coming
    <2>1. Coming' = (inputBuffer \o SubSeq(w, 1, n)) \o SubSeq(w, n + 1, Len(w))
      BY <1>1, <1>2, <1>5 DEF Coming
    <2>2. Coming' = inputBuffer \o (SubSeq(w, 1, n) \o SubSeq(w, n + 1, Len(w)))
      <3> DEFINE x == SubSeq(w, 1, n)
                 y == SubSeq(w, n + 1, Len(w))
      <3>1. x \in Seq(Piece) /\ y \in Seq(Piece)
        BY <1>3
      <3> HIDE DEF x, y
      <3>2. (inputBuffer \o x) \o y = inputBuffer \o (x \o y)
        BY <1>1, <3>1, JoinAssociative, Zenon
      <3> QED
        BY <2>1, <3>2 DEF x, y
    <2> QED
      BY <1>4, <2>2 DEF Coming, w
  <1>7. inputBuffer' \in Seq(Piece) /\ wire' \in [Conn -> Seq(Piece)]
    BY <1>1, <1>2, <1>3, ConcatProperties
  <1>8. OneWire'
    BY <1>1, <1>5 DEF IInv, OneWire
  <1> QED
    BY <1>6, <1>7, <1>8

(* A turn of onMessage that delivers takes the first frame, and delivers    *)
(* just that.                                                               *)
LEMMA ComingShrinks ==
    ASSUME IInv, NEW n \in 1 .. Parts, Deliver(n)
    PROVE  /\ OneWire' /\ inputBuffer' \in Seq(Piece)
           /\ Coming # <<>> /\ last' = Coming[1].frame /\ last' \in Frame \ TooLong
           /\ Coming' \in Seq(Piece) /\ Len(Coming') = Len(Coming) - Parts
           /\ \A i \in 1 .. Len(Coming') : Coming'[i] = Coming[i + Parts]
  <1> DEFINE b == inputBuffer
             w == wire[connection_]
  <1>1. /\ b # <<>> /\ b \in Seq(Piece) /\ n <= Len(b) /\ Len(b) \in Nat \ {0}
        /\ Head(b) = b[1] /\ b[1].frame \notin TooLong
        /\ last' = MessageOf(SubSeq(b, 1, n)) /\ b' = SubSeq(b, n + 1, Len(b))
        /\ n \in Lengths /\ UNCHANGED <<connection_, wire>>
    BY EmptySeq DEF IInv, TypeOK, Deliver, HeaderReadable, InvalidLength
  <1>2. connection_ \in Conn /\ connection_ # null /\ w \in Seq(Piece) /\ Len(w) \in Nat
    BY <1>1 DEF IInv, OneWire, TypeOK
  <1>3. /\ Coming = b \o w /\ Coming \in Seq(Piece) /\ Len(Coming) = Len(b) + Len(w)
        /\ \A i \in 1 .. Len(b) + Len(w) :
               Coming[i] = IF i <= Len(b) THEN b[i] ELSE w[i - Len(b)]
    BY <1>1, <1>2, ConcatProperties DEF Coming
  <1>4. Coming # <<>> /\ \A i \in 1 .. Len(b) : Coming[i] = b[i]
    BY <1>1, <1>2, <1>3, EmptySeq
  <1>5. /\ Parts \in Nat \ {0} /\ Coming[1].part = 1 /\ Coming[1].frame \in Frame
        /\ \A j \in 1 .. Parts : Coming[j] = [frame |-> Coming[1].frame, part |-> j]
    BY <1>3, <1>4, FirstFrame DEF IInv
  <1> DEFINE f == Coming[1].frame
  <1>6. n = Parts /\ b[1] = Coming[1]
    BY <1>1, <1>4, <1>5 DEF Lengths
  <1>7. last' = f /\ f \notin TooLong
    <2>1. /\ SubSeq(b, 1, Parts) \in Seq(Piece) /\ Len(SubSeq(b, 1, Parts)) = Parts
          /\ \A i \in 1 .. Parts : SubSeq(b, 1, Parts)[i] = b[i]
      BY <1>1, <1>5, <1>6
    <2>2. \A i \in 1 .. Parts : SubSeq(b, 1, Parts)[i] = Pieces(f)[i]
      <3>1. \A i \in 1 .. Parts : i \in 1 .. Len(b)
        BY <1>1, <1>5, <1>6
      <3>2. \A i \in 1 .. Parts : SubSeq(b, 1, Parts)[i] = [frame |-> f, part |-> i]
        BY <1>4, <1>5, <2>1, <3>1
      <3> QED
        BY <1>5, <3>2, PiecesElements
    <2>3. SubSeq(b, 1, Parts) = Pieces(f)
      BY <1>5, <2>1, <2>2, PiecesElements, SeqEqual
    <2>4. SubSeq(b, 1, Parts)[1].frame = f
      <3>1. 1 \in 1 .. Parts
        BY <1>5
      <3> QED
        BY <1>6, <2>1, <3>1
    <2> QED
      BY <1>1, <1>6, <2>3, <2>4 DEF MessageOf
  <1>8. /\ b' \in Seq(Piece) /\ Len(b') = Len(b) - Parts
        /\ \A i \in 1 .. Len(b) - Parts : b'[i] = b[i + Parts]
    BY <1>1, <1>5, <1>6
  <1>9. /\ Coming' \in Seq(Piece) /\ Len(Coming') = Len(b') + Len(w)
        /\ \A i \in 1 .. Len(b') + Len(w) :
               Coming'[i] = IF i <= Len(b') THEN b'[i] ELSE w[i - Len(b')]
    <2>1. Coming' = b' \o w
      BY <1>1, <1>2 DEF Coming
    <2> QED
      BY <1>2, <1>8, <2>1, ConcatProperties
  <1>10. /\ Len(b) \in Nat /\ Len(b') \in Nat /\ Len(w) \in Nat /\ Parts \in Nat
         /\ Len(b') = Len(b) - Parts /\ Len(Coming') = Len(b') + Len(w)
         /\ Len(Coming) = Len(b) + Len(w)
    <2>1. Len(b') \in Nat
      BY <1>8
    <2> QED
      BY <1>1, <1>2, <1>3, <1>5, <1>8, <1>9, <2>1
  <1> HIDE DEF b, w, f
  <1>11. ASSUME NEW i \in 1 .. Len(Coming')
         PROVE  Coming'[i] = Coming[i + Parts]
    <2>1. i \in 1 .. Len(b') + Len(w) /\ i + Parts \in 1 .. Len(b) + Len(w)
      BY <1>10
    <2>2. CASE i <= Len(b')
      <3>1. i \in 1 .. Len(b) - Parts /\ i + Parts <= Len(b)
        BY <1>10, <2>2
      <3> QED
        BY <1>3, <1>8, <1>9, <2>1, <2>2, <3>1
    <2>3. CASE ~(i <= Len(b'))
      <3>1. ~(i + Parts <= Len(b)) /\ i - Len(b') = (i + Parts) - Len(b)
        BY <1>10, <2>3
      <3> QED
        BY <1>3, <1>9, <2>1, <2>3, <3>1
    <2> QED
      BY <2>2, <2>3
  <1>12. Len(Coming') = Len(Coming) - Parts
    BY <1>10
  <1>13. OneWire'
    BY <1>1, <1>2 DEF IInv, OneWire
  <1> QED
    BY <1>4, <1>5, <1>7, <1>8, <1>9, <1>11, <1>12, <1>13 DEF b, f

-----------------------------------------------------------------------------
(* The types, one step per action.                                          *)
LEMMA Bounds ==
    /\ MaxFrames \in Nat /\ Capacity \in Nat /\ MaxConn \in Nat /\ Parts \in Nat \ {0}
    /\ Garbled \notin Nat /\ TooLong \subseteq Frame /\ Frame \subseteq Nat
    /\ 0 \in 0 .. MaxFrames /\ Frame \subseteq 0 .. MaxFrames /\ 0 \in 0 .. Capacity
    /\ Conn \subseteq Nat /\ null \notin Conn
  BY StreamAssumption DEF Frame, Conn, null

LEMMA Numbers ==
    ASSUME TypeOK
    PROVE  /\ MaxFrames \in Nat /\ Capacity \in Nat /\ Parts \in Nat \ {0} /\ Garbled \notin Nat
           /\ captured \in Nat /\ shown \in Nat /\ last \in Nat /\ bytes \in Nat
           /\ Coming \in Seq(Piece) /\ Len(Coming) \in Nat /\ Len(queue) \in Nat
           /\ \A i \in 1 .. Len(Coming) :
                  Coming[i].frame \in Frame /\ Coming[i].frame \in Nat
                  /\ Coming[i].part \in 1 .. Parts
  <1>1. Coming \in Seq(Piece) /\ Len(Coming) \in Nat /\ Len(queue) \in Nat
    BY ComingType DEF TypeOK
  <1>2. \A i \in 1 .. Len(Coming) : Coming[i] \in Piece
    BY <1>1, ElementOfSeq
  <1>3. shown \in Nat /\ last \in Nat /\ captured \in Nat /\ bytes \in Nat
    BY Bounds DEF TypeOK
  <1> QED
    BY <1>1, <1>2, <1>3, Bounds DEF Piece

LEMMA InitIInv == Init => IInv
  <1> SUFFICES ASSUME Init PROVE IInv
    OBVIOUS
  <1>1. Coming = <<>> /\ Len(Coming) = 0 /\ queue = <<>> /\ bytes = 0 /\ Len(queue) = 0
    BY EmptySeq DEF Init, Coming, Fifo!Init
  <1>2. TypeOK
    <2>1. /\ <<>> \in Seq(Piece) /\ <<>> \in Seq(Frame \cup {Garbled})
          /\ wire \in [Conn -> Seq(Piece)]
      BY EmptySeq DEF Init
    <2>2. /\ {round, overlap, undefined, hungUp, onMessage} \subseteq BOOLEAN
          /\ {shown, last, rejected, skipped} \subseteq 0 .. MaxFrames
          /\ captured \in 0 .. MaxFrames
          /\ bytes \in 0 .. Capacity
      BY <1>1, Bounds DEF Init
    <2> QED
      BY <1>1, <2>1, <2>2 DEF Init, TypeOK
  <1>3. OneWire /\ WholeFrames(Coming) /\ Counted
    BY <1>1 DEF Init, OneWire, WholeFrames, Counted
  <1>4. InOrder
    BY <1>1 DEF Init, InOrder
  <1> QED
    BY <1>2, <1>3, <1>4 DEF IInv

LEMMA StepTypeOK == IInv /\ [Next]_vars => TypeOK'
  <1> SUFFICES ASSUME IInv, [Next]_vars PROVE TypeOK'
    OBVIOUS
  <1>0. TypeOK /\ Counted
    BY DEF IInv
  <1>1. CASE Capture
    BY <1>0, <1>1, StreamAssumption
       DEF TypeOK, Capture, connections_, listVars, clientVars, queueVars, displayVars
  <1>2. CASE RoundEnds
    BY <1>0, <1>2 DEF TypeOK, RoundEnds, clientVars, queueVars, displayVars
  <1>3. ASSUME NEW c \in Conn, Send(c) PROVE TypeOK'
    <2>1. wire' \in [Conn -> Seq(Piece)]
      <3>1. captured \in Frame /\ wire[c] \in Seq(Piece)
        BY <1>0, <1>3 DEF TypeOK, Counted, Send
      <3> DEFINE u == wire[c] \o Pieces(captured)
      <3>2. u \in Seq(Piece)
        BY <3>1, PiecesElements, ConcatProperties
      <3>3. wire' = [wire EXCEPT ![c] = u] \/ wire' = wire
        BY <1>3 DEF Send
      <3> HIDE DEF u
      <3> QED
        BY <1>0, <3>2, <3>3 DEF TypeOK
    <2> QED
      BY <1>0, <1>3, <2>1 DEF TypeOK, Send, listVars, clientVars, queueVars, displayVars
  <1>4. ASSUME NEW c \in Conn, Accept(c) \/ ServerClose(c) PROVE TypeOK'
    <2>1. \E state \in {"listed", "closed"} : SetEnd(c, state)
      BY <1>4 DEF Accept, ServerClose
    <2>2. /\ serverEnd' \in [Conn -> {"new", "backlog", "listed", "closed"}]
          /\ overlap' = round /\ undefined' = (undefined \/ round) /\ toSend' \subseteq Conn
      BY <1>0, <2>1 DEF TypeOK, SetEnd, Made
    <2> QED
      BY <1>0, <1>4, <2>2 DEF TypeOK, Accept, ServerClose, clientVars, queueVars, displayVars
  <1>5. CASE Crash
    BY <1>0, <1>5 DEF TypeOK, Crash, listVars, sendVars, clientVars, queueVars, displayVars
  <1>6. ASSUME NEW c \in Conn, Connect(c) PROVE TypeOK'
    <2>1. serverEnd' \in [Conn -> {"new", "backlog", "listed", "closed"}]
      BY <1>0, <1>6 DEF TypeOK, Connect
    <2>2. {shown', last', rejected', skipped'} \subseteq 0 .. MaxFrames
      BY <1>0, <1>6, Bounds DEF TypeOK, Connect, queueVars, displayVars
    <2> QED
      BY <1>0, <1>6, <2>1, <2>2 DEF TypeOK, Connect, sendVars, queueVars, displayVars
  <1>7. CASE HandleClose
    BY <1>0, <1>7, EmptySeq DEF TypeOK, HandleClose, listVars, sendVars, queueVars, displayVars
  <1>8. CASE connection_ # null /\ Reads
    <2>1. PICK n \in 1 .. Len(wire[connection_]) : Receive(n)
      BY <1>8 DEF Reads
    <2>2. inputBuffer' \in Seq(Piece) /\ wire' \in [Conn -> Seq(Piece)]
      BY <1>8, <2>1, ComingMoves
    <2> QED
      BY <1>0, <2>1, <2>2 DEF TypeOK, Receive, listVars, sendVars, queueVars, displayVars
  <1>9. CASE NeedMore \/ Shutdown
    BY <1>0, <1>9 DEF TypeOK, NeedMore, Shutdown, listVars, sendVars, queueVars, displayVars
  <1>10. ASSUME NEW n \in 1 .. Parts, Deliver(n) PROVE TypeOK'
    <2>1. inputBuffer' \in Seq(Piece) /\ last' \in Frame
      BY <1>10, ComingShrinks
    <2>2. queue' \in Seq(Frame \cup {Garbled}) /\ bytes' \in 0 .. Capacity
          /\ rejected' \in 0 .. MaxFrames
      <3>1. CASE Fits /\ Fifo!Put(last') /\ UNCHANGED rejected
        <4>1. queue' = Append(queue, last') /\ bytes' = bytes + 1
          BY <2>1, <3>1 DEF Fifo!Put
        <4> QED
          BY <1>0, <2>1, <3>1, <4>1, AppendProperties, StreamAssumption DEF TypeOK, Fits
      <3>2. CASE rejected' = last' /\ UNCHANGED <<queue, bytes>>
        BY <1>0, <2>1, <3>2, StreamAssumption DEF TypeOK, Frame
      <3> QED
        BY <1>10, <3>1, <3>2 DEF Deliver, Push
    <2> QED
      <3>1. {shown', last', rejected', skipped'} \subseteq 0 .. MaxFrames
        BY <1>0, <1>10, <2>1, <2>2, Bounds DEF TypeOK, Deliver, displayVars
      <3> QED
        BY <1>0, <1>10, <2>1, <2>2, <3>1 DEF TypeOK, Deliver, listVars, sendVars, displayVars
  <1>11. CASE Show \/ Skip
    <2>1. queue # <<>> /\ queue' = Tail(queue) /\ queue \in Seq(Frame \cup {Garbled})
      BY <1>0, <1>11 DEF Show, Skip, Fifo!Take, TypeOK
    <2>2. Head(queue) = queue[1] /\ Len(queue) \in Nat \ {0}
      BY <2>1, EmptySeq
    <2>3. Head(queue) \in Frame
      <3>1. queue[1] \in Frame \cup {Garbled} /\ 1 \in 1 .. Len(queue)
        BY <2>1, <2>2, ElementOfSeq
      <3>2. queue[1] \in Nat
        BY <1>0, <3>1, Numbers DEF IInv, InOrder
      <3> QED
        BY <2>2, <3>1, <3>2, Bounds
    <2>4. bytes' = bytes - 1
      BY <1>11, <2>3 DEF Show, Skip, Fifo!Take
    <2>5. queue' \in Seq(Frame \cup {Garbled}) /\ bytes' \in 0 .. Capacity
      BY <1>0, <2>1, <2>2, <2>4, HeadTailProperties, StreamAssumption DEF TypeOK, Counted
    <2> QED
      <3>1. {shown', last', rejected', skipped'} \subseteq 0 .. MaxFrames
        BY <1>0, <1>11, <2>3, Bounds DEF TypeOK, Show, Skip, clientVars
      <3> QED
        BY <1>0, <1>11, <2>5, <3>1 DEF TypeOK, Show, Skip, listVars, sendVars, clientVars
  <1>12. CASE ClientDies
    <2>1. /\ <<>> \in Seq(Piece) /\ <<>> \in Seq(Frame \cup {Garbled}) /\ bytes' \in 0 .. Capacity
          /\ wire' \in [Conn -> Seq(Piece)]
      BY <1>0, <1>12, EmptySeq, Bounds DEF TypeOK, ClientDies
    <2> QED
      BY <1>0, <1>12, <2>1 DEF TypeOK, ClientDies, listVars, sendVars
  <1>13. CASE UNCHANGED vars
    BY <1>0, <1>13 DEF TypeOK, vars, listVars, sendVars, clientVars, queueVars, displayVars
  <1> QED
    BY <1>1, <1>2, <1>3, <1>4, <1>5, <1>6, <1>7, <1>8, <1>9, <1>10, <1>11, <1>12, <1>13
       DEF Next, Round, ServerLoop, Codec, Display, Idle

-----------------------------------------------------------------------------
(* The frames, one lemma per kind of step.                                  *)
Frames == OneWire /\ WholeFrames(Coming) /\ InOrder

LEMMA FramesKept ==
    ASSUME IInv, UNCHANGED <<connection_, inputBuffer, wire, last, queue, shown>>,
           captured' \in Nat, captured <= captured'
    PROVE  Frames'
  <1>1. Coming' = Coming
    BY ComingKept
  <1>2. OneWire' /\ WholeFrames(Coming)'
    BY <1>1 DEF IInv, OneWire
  <1>3. InOrder'
    <2>1. \A i \in 1 .. Len(Coming) : Coming[i].frame \in last .. captured'
      BY Numbers DEF IInv, InOrder
    <2>2. \A i \in 1 .. Len(queue) : queue[i] \in (shown .. captured') \ TooLong
      BY Numbers DEF IInv, InOrder
    <2>3. shown <= captured' /\ last <= captured'
      BY Numbers DEF IInv, InOrder
    <2> QED
      BY <1>1, <2>1, <2>2, <2>3 DEF IInv, InOrder
  <1> QED
    BY <1>2, <1>3 DEF Frames

LEMMA FramesConnect ==
    ASSUME IInv, HandleClose \/ ClientDies \/ \E c \in Conn : Connect(c)
    PROVE  Frames' /\ Coming' = <<>>
  <1>1. CASE HandleClose
    <2>1. connection_ \in Conn /\ connection_' = null /\ inputBuffer' = <<>>
          /\ wire' = [wire EXCEPT ![connection_] = <<>>]
      BY <1>1 DEF HandleClose, IInv, TypeOK
    <2>2. OneWire' /\ Coming' = <<>>
      BY <2>1 DEF IInv, OneWire, TypeOK, Coming
    <2> QED
      BY <1>1, <2>2, EmptySeq
         DEF HandleClose, Frames, WholeFrames, InOrder, IInv, sendVars, queueVars, displayVars
  <1>2. ASSUME NEW c \in Conn, Connect(c) PROVE Frames' /\ Coming' = <<>>
    <2>1. /\ connection_ = null /\ connection_' = c /\ last' = 0 /\ c # null
          /\ UNCHANGED <<wire, inputBuffer, captured, queue, shown>>
      BY <1>2, Bounds DEF Connect, sendVars, queueVars, displayVars
    <2>2. (\A d \in Conn : wire'[d] = <<>>) /\ inputBuffer' = <<>>
      BY <2>1, Bounds DEF IInv, OneWire
    <2>3. OneWire' /\ Coming' = <<>>
      <3>1. OneWire'
        BY <2>1, <2>2 DEF OneWire
      <3>2. Coming' = <<>> \o <<>>
        BY <2>1, <2>2 DEF Coming
      <3>3. <<>> \o <<>> = <<>>
        BY EmptySeq, ConcatEmptySeq
      <3> QED
        BY <3>1, <3>2, <3>3
    <2>4. 0 <= captured
      BY Numbers DEF IInv
    <2> QED
      BY <2>1, <2>3, <2>4, EmptySeq DEF Frames, WholeFrames, InOrder, IInv
  <1>3. CASE ClientDies
    <2>1. /\ connection_' = null /\ inputBuffer' = <<>> /\ queue' = <<>>
          /\ wire' = IF connection_ = null THEN wire ELSE [wire EXCEPT ![connection_] = <<>>]
          /\ UNCHANGED <<captured, last, shown>>
      BY <1>3 DEF ClientDies, sendVars
    <2>2. OneWire' /\ Coming' = <<>>
      BY <2>1, Bounds DEF IInv, OneWire, TypeOK, Coming
    <2> QED
      BY <2>1, <2>2, EmptySeq DEF Frames, WholeFrames, InOrder, IInv
  <1> QED
    BY <1>1, <1>2, <1>3

LEMMA FramesSend ==
    ASSUME IInv, NEW c \in Conn, Send(c)
    PROVE  Frames'
  <1>1. /\ captured \in Frame /\ UNCHANGED <<captured, last, queue, shown>>
        /\ Coming \in Seq(Piece) /\ WholeFrames(Coming) /\ Len(Coming) \in Nat
    BY Numbers DEF IInv, Counted, Send, clientVars, queueVars, displayVars
  <1>2. CASE Coming' = Coming
    BY <1>1, <1>2, ComingGrows DEF IInv, Frames, InOrder
  <1>3. CASE Coming' = Coming \o Pieces(captured)
    <2> DEFINE n == Len(Coming)
    <2>1. /\ Len(Coming') = n + Parts /\ WholeFrames(Coming')
          /\ \A i \in 1 .. n : Coming'[i] = Coming[i]
          /\ \A i \in 1 .. Parts : Coming'[n + i] = [frame |-> captured, part |-> i]
      BY <1>1, <1>3, WholeFramesGrow
    <2>2. n \in Nat /\ Parts \in Nat
      BY <1>1, Numbers DEF IInv
    <2> HIDE DEF n
    <2>3. ASSUME NEW i \in 1 .. Len(Coming')
          PROVE  \/ i \in 1 .. n /\ Coming'[i] = Coming[i]
                 \/ i > n /\ Coming'[i].frame = captured
      <3>1. i > n => i - n \in 1 .. Parts /\ n + (i - n) = i
        BY <2>1, <2>2
      <3>2. CASE i > n
        <4>1. Coming'[n + (i - n)] = [frame |-> captured, part |-> i - n]
          BY <2>1, <3>1, <3>2
        <4> QED
          BY <3>1, <3>2, <4>1
      <3>3. CASE i <= n
        BY <2>1, <2>2, <3>3
      <3> QED
        BY <2>2, <3>2, <3>3
    <2>4. /\ captured \in Nat /\ last \in Nat /\ shown \in Nat
          /\ last <= captured /\ shown <= captured
          /\ \A i \in 1 .. n : Coming[i].frame \in Nat /\ Coming[i].frame <= captured
                               /\ last <= Coming[i].frame /\ shown <= Coming[i].frame
      BY Numbers DEF IInv, InOrder, n
    <2>5. \A j \in 1 .. Len(queue) : queue[j] <= captured
      BY Numbers DEF IInv, InOrder
    <2>6. ASSUME NEW i \in 1 .. Len(Coming')
          PROVE  /\ Coming'[i].frame \in last .. captured /\ shown <= Coming'[i].frame
                 /\ \A j \in 1 .. Len(queue) : queue[j] <= Coming'[i].frame
      <3>1. CASE i \in 1 .. n /\ Coming'[i] = Coming[i]
        BY <2>4, <3>1 DEF IInv, InOrder, n
      <3>2. CASE Coming'[i].frame = captured
        BY <2>4, <2>5, <3>2
      <3> QED
        BY <2>3, <3>1, <3>2
    <2>7. ASSUME NEW i \in 1 .. Len(Coming'), NEW j \in 1 .. Len(Coming'), i <= j
          PROVE  Coming'[i].frame <= Coming'[j].frame
      <3>1. CASE j > n
        BY <2>2, <2>3, <2>4, <2>6, <3>1
      <3>2. CASE ~(j > n)
        <4>1. i \in 1 .. n /\ j \in 1 .. n
          BY <2>2, <2>7, <3>2
        <4> QED
          BY <2>1, <2>7, <4>1 DEF IInv, InOrder, n
      <3> QED
        BY <3>1, <3>2
    <2>8. InOrder'
      BY <1>1, <2>6, <2>7 DEF IInv, InOrder
    <2> QED
      BY <2>1, <2>8, ComingGrows DEF Frames
  <1> QED
    BY <1>2, <1>3, ComingGrows

LEMMA FramesReceive ==
    ASSUME IInv, connection_ # null, NEW n \in 1 .. Len(wire[connection_]), Receive(n)
    PROVE  Frames'
  BY ComingMoves DEF Receive, IInv, Frames, InOrder, sendVars, queueVars, displayVars

LEMMA FramesDeliver ==
    ASSUME IInv, NEW n \in 1 .. Parts, Deliver(n)
    PROVE  Frames'
  <1>1. /\ Coming # <<>> /\ last' = Coming[1].frame /\ last' \in Frame \ TooLong
        /\ Coming \in Seq(Piece) /\ WholeFrames(Coming)
        /\ Coming' \in Seq(Piece) /\ Len(Coming') = Len(Coming) - Parts
        /\ \A i \in 1 .. Len(Coming') : Coming'[i] = Coming[i + Parts]
        /\ UNCHANGED <<captured, shown>>
    BY ComingShrinks, Numbers DEF Deliver, sendVars, displayVars, IInv
  <1>2. WholeFrames(Coming')
    BY <1>1, WholeFramesShrink
  <1>3. /\ \A i \in 1 .. Len(Coming') : i + Parts \in 1 .. Len(Coming)
        /\ 1 \in 1 .. Len(Coming) /\ Len(Coming') \in Nat
        /\ \A i, j \in 1 .. Len(Coming') : i <= j => i + Parts <= j + Parts
        /\ \A i \in 1 .. Len(Coming) : 1 <= i
    BY <1>1, FirstFrame
  <1>4. /\ last' \in shown .. captured
        /\ \A j \in 1 .. Len(queue) : queue[j] <= last'
    BY <1>1, <1>3, Numbers DEF IInv, InOrder
  <1>5. ASSUME NEW i \in 1 .. Len(Coming')
        PROVE  /\ Coming'[i].frame \in last' .. captured' /\ shown' <= Coming'[i].frame
               /\ \A j \in 1 .. Len(queue) : queue[j] <= Coming'[i].frame
    <2>1. /\ i + Parts \in 1 .. Len(Coming) /\ 1 <= i + Parts
          /\ Coming'[i] = Coming[i + Parts] /\ last' <= Coming[i + Parts].frame
      BY <1>1, <1>3 DEF IInv, InOrder
    <2>2. /\ Coming[i + Parts].frame \in Nat /\ Coming[i + Parts].frame <= captured
          /\ captured \in Nat /\ last' \in Nat
      <3>1. Coming[i + Parts].frame \in last .. captured
        BY <2>1 DEF IInv, InOrder
      <3>2. last \in Nat /\ captured \in Nat /\ last' \in Nat
        BY <1>1, Numbers, Bounds DEF IInv
      <3> QED
        BY <3>1, <3>2
    <2>3. /\ shown <= Coming[i + Parts].frame
          /\ \A j \in 1 .. Len(queue) : queue[j] <= Coming[i + Parts].frame
      BY <2>1 DEF IInv, InOrder
    <2> QED
      BY <1>1, <2>1, <2>2, <2>3
  <1>6. \A i, j \in 1 .. Len(Coming') : i <= j => Coming'[i].frame <= Coming'[j].frame
    BY <1>1, <1>3 DEF IInv, InOrder
  <1>7. shown' <= captured' /\ last' <= captured'
    BY <1>1, <1>4, Numbers DEF IInv, InOrder
  <1>8. CASE UNCHANGED queue
    <2>1. \A i \in 1 .. Len(queue) : queue[i] \in (shown .. captured) \ TooLong
          /\ \A j \in 1 .. Len(queue) : i <= j => queue[i] <= queue[j]
      BY DEF IInv, InOrder
    <2>2. InOrder'
      BY <1>1, <1>5, <1>6, <1>8, <1>7, <2>1 DEF InOrder
    <2> QED
      BY <1>2, <2>2, ComingShrinks DEF Frames
  <1>9. CASE queue' = Append(queue, last')
    <2>1. /\ Len(queue') = Len(queue) + 1 /\ Len(queue) \in Nat
          /\ \A i \in 1 .. Len(queue) : queue'[i] = queue[i]
          /\ queue'[Len(queue) + 1] = last'
      BY <1>1, <1>9, AppendProperties DEF IInv, TypeOK
    <2>2. \A i \in 1 .. Len(queue') :
              \/ i \in 1 .. Len(queue) /\ queue'[i] = queue[i]
              \/ i = Len(queue) + 1 /\ queue'[i] = last'
      BY <2>1
    <2>3. \A i \in 1 .. Len(queue') : queue'[i] \in (shown .. captured) \ TooLong
      BY <1>1, <1>4, <2>2 DEF IInv, InOrder
    <2>4. ASSUME NEW i \in 1 .. Len(queue'), NEW j \in 1 .. Len(queue'), i <= j
          PROVE  queue'[i] <= queue'[j]
      <3>1. CASE j = Len(queue) + 1
        BY <1>1, <1>4, <2>1, <2>2, <3>1, Bounds
      <3>2. CASE j \in 1 .. Len(queue)
        <4>1. i \in 1 .. Len(queue)
          BY <2>1, <2>4, <3>2
        <4> QED
          BY <2>1, <2>4, <3>2, <4>1 DEF IInv, InOrder
      <3> QED
        BY <2>2, <3>1, <3>2
    <2>5. ASSUME NEW i \in 1 .. Len(Coming'), NEW j \in 1 .. Len(queue')
          PROVE  queue'[j] <= Coming'[i].frame
      <3>1. last' <= Coming'[i].frame
        BY <1>1, <1>5, Bounds, Numbers DEF IInv
      <3> QED
        BY <1>5, <2>2, <3>1
    <2>6. InOrder'
      BY <1>1, <1>5, <1>6, <1>7, <2>3, <2>4, <2>5 DEF InOrder
    <2> QED
      BY <1>2, <2>6, ComingShrinks DEF Frames
  <1> QED
    BY <1>8, <1>9 DEF Deliver, Push, Fifo!Put

(* The oldest image comes to the window, or is skipped.                     *)
LEMMA FramesShow ==
    ASSUME IInv, Show \/ Skip
    PROVE  /\ Frames' /\ shown' \in shown .. captured
           /\ Show => shown' \notin TooLong
  <1>1. /\ queue \in Seq(Frame \cup {Garbled}) /\ queue # <<>> /\ queue' = Tail(queue)
        /\ shown' \in {shown, Head(queue)} /\ (Show => shown' = Head(queue))
        /\ UNCHANGED <<connection_, inputBuffer, wire, captured, last>>
    BY DEF IInv, TypeOK, Show, Skip, Fifo!Take, sendVars, clientVars
  <1>2. /\ Head(queue) = queue[1] /\ Len(queue) \in Nat \ {0} /\ 1 \in 1 .. Len(queue)
        /\ Len(queue') = Len(queue) - 1
        /\ \A i \in 1 .. Len(queue') : queue'[i] = queue[i + 1]
    BY <1>1, EmptySeq, HeadTailProperties
  <1>3. Coming' = Coming
    BY <1>1, ComingKept
  <1>4. /\ \A i \in 1 .. Len(queue') : i + 1 \in 1 .. Len(queue) /\ 1 <= i + 1
        /\ \A i, j \in 1 .. Len(queue') : i <= j => i + 1 <= j + 1
    BY <1>2
  <1>5. /\ shown' \in shown .. captured /\ shown' \in Nat /\ shown' <= queue[1]
        /\ Show => shown' \notin TooLong
    <2>1. /\ shown \in Nat /\ captured \in Nat /\ shown <= captured
          /\ queue[1] \in (shown .. captured) \ TooLong
      BY <1>2, Numbers DEF IInv, InOrder
    <2> QED
      BY <1>1, <1>2, <2>1
  <1>6. \A i \in 1 .. Len(queue') : queue'[i] \in (shown' .. captured) \ TooLong
    <2>1. ASSUME NEW i \in 1 .. Len(queue')
          PROVE  queue'[i] \in (shown' .. captured) \ TooLong
      <3>1. queue[1] <= queue[i + 1] /\ queue[i + 1] \in (shown .. captured) \ TooLong
        BY <1>2, <1>4 DEF IInv, InOrder
      <3> QED
        BY <1>1, <1>2, <1>5, <3>1, Numbers DEF IInv
    <2> QED
      BY <2>1
  <1>7. \A i, j \in 1 .. Len(queue') : i <= j => queue'[i] <= queue'[j]
    BY <1>2, <1>4 DEF IInv, InOrder
  <1>8. \A i \in 1 .. Len(Coming') : /\ shown' <= Coming'[i].frame
                                     /\ \A j \in 1 .. Len(queue') : queue'[j] <= Coming'[i].frame
    BY <1>1, <1>2, <1>3, <1>4 DEF IInv, InOrder
  <1>9. InOrder'
    BY <1>1, <1>3, <1>5, <1>6, <1>7, <1>8 DEF IInv, InOrder
  <1>10. OneWire' /\ WholeFrames(Coming)'
    BY <1>1, <1>3 DEF IInv, OneWire
  <1> QED
    BY <1>5, <1>9, <1>10 DEF Frames

-----------------------------------------------------------------------------
(* The invariant is inductive.                                              *)
LEMMA StepCounted ==
    ASSUME IInv, [Next]_vars
    PROVE  Counted'
  <1>0. Counted /\ bytes \in Nat /\ Len(queue) \in Nat /\ captured \in Nat
    BY Numbers DEF IInv
  <1>1. CASE Capture
    BY <1>0, <1>1, Numbers DEF IInv, Counted, Capture, Frame, listVars, queueVars
  <1>2. CASE RoundEnds \/ \E c \in Conn : Send(c)
    BY <1>0, <1>2 DEF Counted, RoundEnds, Send, listVars, queueVars
  <1>3. CASE ServerLoop
    <2>1. /\ overlap' = round /\ undefined' = (undefined \/ round)
          /\ UNCHANGED <<round, captured, queue, bytes>>
      BY <1>3 DEF ServerLoop, Accept, ServerClose, SetEnd, queueVars
    <2> QED
      BY <1>0, <2>1, Zenon DEF Counted
  <1>4. CASE Crash \/ HandleClose \/ \E c \in Conn : Connect(c)
    BY <1>0, <1>4 DEF Counted, Crash, HandleClose, Connect, listVars, sendVars, queueVars
  <1>5. CASE (connection_ # null /\ Reads) \/ NeedMore \/ Shutdown
    BY <1>0, <1>5 DEF Counted, Reads, Receive, NeedMore, Shutdown, listVars, sendVars, queueVars
  <1>6. ASSUME NEW n \in 1 .. Parts, Deliver(n) PROVE Counted'
    <2>1. last' \in Frame /\ UNCHANGED <<round, captured, overlap, undefined>>
      BY <1>6, ComingShrinks DEF Deliver, listVars, sendVars
    <2>2. CASE Fifo!Put(last')
      <3>1. queue' = Append(queue, last') /\ bytes' = bytes + 1
        BY <2>1, <2>2 DEF Fifo!Put
      <3>2. Len(queue') = Len(queue) + 1
        BY <2>1, <3>1, AppendProperties DEF IInv, TypeOK
      <3> QED
        BY <1>0, <2>1, <3>1, <3>2 DEF Counted
    <2>3. CASE UNCHANGED <<queue, bytes>>
      BY <1>0, <2>1, <2>3 DEF Counted
    <2> QED
      BY <1>6, <2>2, <2>3 DEF Deliver, Push
  <1>7. CASE Show \/ Skip
    <2>1. /\ queue \in Seq(Frame \cup {Garbled}) /\ queue # <<>> /\ queue' = Tail(queue)
          /\ UNCHANGED <<round, captured, overlap, undefined>>
      BY <1>7 DEF IInv, TypeOK, Show, Skip, Fifo!Take, listVars, sendVars
    <2>2. Len(queue') = Len(queue) - 1 /\ Head(queue) \in Frame \cup {Garbled}
      BY <2>1, HeadTailProperties
    <2>3. bytes' = bytes - 1
      BY <1>7, <2>2 DEF Show, Skip, Fifo!Take
    <2> QED
      BY <1>0, <2>1, <2>2, <2>3 DEF Counted
  <1>8. CASE ClientDies
    BY <1>0, <1>8, EmptySeq DEF Counted, ClientDies, listVars, sendVars
  <1>9. CASE UNCHANGED vars
    BY <1>0, <1>9 DEF Counted, vars, listVars, sendVars, queueVars
  <1> QED
    BY <1>1, <1>2, <1>3, <1>4, <1>5, <1>6, <1>7, <1>8, <1>9
       DEF Next, Round, ServerLoop, Codec, Display, Idle

LEMMA StepFrames ==
    ASSUME IInv, [Next]_vars
    PROVE  Frames'
  <1>0. captured \in Nat
    BY Numbers DEF IInv
  <1>1. CASE Capture
    <2>1. UNCHANGED <<connection_, inputBuffer, wire, last, queue, shown>>
          /\ captured' = captured + 1
      BY <1>1 DEF Capture, clientVars, queueVars, displayVars
    <2> QED
      BY <1>0, <2>1, FramesKept
  <1>2. CASE RoundEnds \/ ServerLoop \/ Crash \/ NeedMore \/ Shutdown \/ UNCHANGED vars
    <2>1. UNCHANGED <<connection_, inputBuffer, wire, last, queue, shown, captured>>
      BY <1>2 DEF RoundEnds, ServerLoop, Accept, ServerClose, Crash, NeedMore, Shutdown,
                  vars, listVars, sendVars, clientVars, queueVars, displayVars
    <2> QED
      BY <1>0, <2>1, FramesKept
  <1>3. CASE \E c \in Conn : Send(c)
    BY <1>3, FramesSend
  <1>4. CASE HandleClose \/ ClientDies \/ \E c \in Conn : Connect(c)
    BY <1>4, FramesConnect
  <1>5. CASE connection_ # null /\ Reads
    BY <1>5, FramesReceive DEF Reads
  <1>6. CASE \E n \in 1 .. Parts : Deliver(n)
    BY <1>6, FramesDeliver
  <1>7. CASE Show \/ Skip
    BY <1>7, FramesShow
  <1> QED
    BY <1>1, <1>2, <1>3, <1>4, <1>5, <1>6, <1>7 DEF Next, Round, Codec, Display, Idle

LEMMA StepIInv == IInv /\ [Next]_vars => IInv'
  <1> SUFFICES ASSUME IInv, [Next]_vars PROVE IInv'
    OBVIOUS
  <1> QED
    BY StepTypeOK, StepCounted, StepFrames DEF IInv, Frames

LEMMA Invariant == Spec => []IInv
  BY InitIInv, StepIInv, PTL DEF Spec

(* The types; with them, that no message made of pieces of different        *)
(* frames is ever shown, delivered or rejected.                             *)
THEOREM TypeCorrect == Spec => []TypeOK
  <1>1. IInv => TypeOK
    BY DEF IInv
  <1> QED
    BY <1>1, Invariant, PTL

(* Whatever the connections, the hang-ups and the undefined rounds do, the  *)
(* window only goes forward through whole captured frames: the composed     *)
(* system implements VideoFeed.                                             *)
THEOREM Refinement == Spec => ImplementsFeed
  <1>1. Init => Feed!Init
    BY DEF Init, Feed!Init
  <1>2. ASSUME IInv, [Next]_vars
        PROVE  [Feed!Next]_(Feed!vars)
    <2>1. CASE Capture
      BY <2>1 DEF Capture, Feed!Next, Feed!Capture, displayVars
    <2>2. CASE Show
      <3>1. /\ shown' \in shown .. captured /\ shown' \notin TooLong
            /\ UNCHANGED captured /\ shown \in Nat /\ captured \in Nat
        BY <1>2, <2>2, FramesShow, Numbers DEF Show, sendVars, IInv
      <3>2. shown' = shown \/ shown' \in (shown + 1 .. captured) \ TooLong
        BY <3>1
      <3> QED
        BY <3>1, <3>2 DEF Feed!Next, Feed!Show, Feed!vars
    <2>3. CASE \/ Round \/ ServerLoop \/ Crash \/ HandleClose \/ Codec \/ Reads
               \/ (\E c \in Conn : Connect(c)) \/ Skip \/ ClientDies \/ UNCHANGED vars
      BY <2>3 DEF Round, RoundEnds, Send, ServerLoop, Accept, ServerClose, Crash,
                  HandleClose, Skip, ClientDies, Codec, NeedMore, Shutdown, Deliver, Reads,
                  Receive, Connect,
                  vars, listVars, sendVars, clientVars, queueVars, displayVars, Feed!vars
    <2> QED
      BY <1>2, <2>1, <2>2, <2>3 DEF Next, Display, Idle
  <1> QED
    BY <1>1, <1>2, Invariant, PTL DEF Spec, ImplementsFeed, Feed!Spec

-----------------------------------------------------------------------------
(* As long as no round was undefined, the frames on a connection have no    *)
(* gap.  First the steps that leave the pieces and the last message alone.  *)
LEMMA LatestType == TypeOK => Latest \in Nat
  <1> SUFFICES ASSUME TypeOK PROVE Latest \in Nat
    OBVIOUS
  <1>1. CASE Coming = <<>>
    BY <1>1, Numbers DEF Latest
  <1>2. CASE Coming # <<>>
    <2>1. Len(Coming) \in 1 .. Len(Coming)
      BY <1>2, Numbers, EmptySeq
    <2> QED
      BY <1>2, <2>1, Numbers DEF Latest
  <1> QED
    BY <1>1, <1>2

LEMMA ConsecutiveKept ==
    ASSUME IInv, Consecutive, UNCHANGED <<connection_, inputBuffer, wire, last>>,
           ~undefined' => ~undefined,
           ~undefined' /\ connection_ # null /\ serverEnd'[connection_] = "backlog" =>
               serverEnd[connection_] = "backlog",
           ~undefined' /\ connection_ \in connections_' /\ Latest # 0 =>
               Latest = IF round' /\ connection_ \in toSend' THEN captured' - 1 ELSE captured'
    PROVE  Consecutive'
  <1>1. Coming' = Coming /\ Latest' = Latest
    BY ComingKept DEF Latest
  <1> QED
    BY <1>1 DEF Consecutive

(* The send thread begins a round, and ends it.                             *)
LEMMA ConsecutiveServer ==
    ASSUME IInv, Consecutive, Capture \/ RoundEnds \/ ServerLoop \/ Crash
    PROVE  Consecutive'
  <1>1. UNCHANGED <<connection_, inputBuffer, wire, last>> /\ (~undefined' => ~undefined)
    <2>1. UNCHANGED <<connection_, inputBuffer, wire, last>>
      BY DEF Capture, RoundEnds, ServerLoop, Accept, ServerClose, Crash, clientVars
    <2>2. CASE UNCHANGED undefined
      BY <2>1, <2>2
    <2>3. CASE undefined' = (undefined \/ round)
      BY <2>1, <2>3
    <2> QED
      BY <2>2, <2>3 DEF Capture, RoundEnds, ServerLoop, Accept, ServerClose, SetEnd, Crash,
                        listVars
  <1>2. captured \in Nat /\ Latest \in Nat /\ (overlap => undefined)
    BY Numbers, LatestType DEF IInv, Counted
  <1>3. CASE Capture
    <2>1. /\ captured' = captured + 1 /\ ~round /\ toSend' = connections_ /\ round' = TRUE
          /\ UNCHANGED <<serverEnd, undefined>>
      BY <1>3 DEF Capture, listVars
    <2>2. connections_' = connections_
      BY <2>1 DEF connections_
    <2> QED
      BY <1>1, <1>2, <2>1, <2>2, ConsecutiveKept DEF Consecutive
  <1>4. CASE RoundEnds
    <2>1. /\ (overlap \/ toSend = {}) /\ round' = FALSE
          /\ UNCHANGED <<serverEnd, undefined, captured>>
      BY <1>4 DEF RoundEnds
    <2>2. connections_' = connections_
      BY <2>1 DEF connections_
    <2> QED
      BY <1>1, <1>2, <2>1, <2>2, ConsecutiveKept DEF Consecutive
  <1>5. ASSUME NEW c \in Conn, Accept(c) PROVE Consecutive'
    <2>1. /\ serverEnd[c] = "backlog" /\ serverEnd' = [serverEnd EXCEPT ![c] = "listed"]
          /\ undefined' = (undefined \/ round) /\ toSend' \in IF round THEN SUBSET Made ELSE {toSend}
          /\ UNCHANGED <<round, captured>>
      BY <1>5 DEF Accept, SetEnd
    <2>2. serverEnd \in [Conn -> {"new", "backlog", "listed", "closed"}]
          /\ connection_ \in Conn \cup {null}
      BY DEF IInv, TypeOK
    <2>3. \A d \in Conn : d # c => serverEnd'[d] = serverEnd[d]
      BY <2>1, <2>2
    <2>4. ~undefined' /\ connection_ = c => Latest = 0
      BY <1>1, <2>1, Bounds DEF Consecutive
    <2>5. connection_ # c /\ connection_ \in connections_' => connection_ \in connections_
      BY <2>3 DEF connections_
    <2>6. ~undefined' => ~round /\ ~round' /\ toSend' = toSend
      BY <2>1
    <2>7. connection_ # null /\ serverEnd'[connection_] = "backlog" =>
              serverEnd[connection_] = "backlog"
      BY <2>1, <2>2, <2>3
    <2> QED
      BY <1>1, <1>2, <2>1, <2>4, <2>5, <2>6, <2>7, ConsecutiveKept DEF Consecutive
  <1>6. ASSUME NEW c \in Conn, ServerClose(c) PROVE Consecutive'
    <2>1. /\ serverEnd' = [serverEnd EXCEPT ![c] = "closed"]
          /\ undefined' = (undefined \/ round) /\ toSend' \in IF round THEN SUBSET Made ELSE {toSend}
          /\ UNCHANGED <<round, captured>>
      BY <1>6 DEF ServerClose, SetEnd
    <2>2. serverEnd \in [Conn -> {"new", "backlog", "listed", "closed"}]
          /\ connection_ \in Conn \cup {null}
      BY DEF IInv, TypeOK
    <2>3. serverEnd'[c] = "closed" /\ \A d \in Conn : d # c => serverEnd'[d] = serverEnd[d]
      BY <2>1, <2>2
    <2>4. connection_ \in connections_' => connection_ \in connections_
      BY <2>3 DEF connections_
    <2>5. ~undefined' => ~round /\ ~round' /\ toSend' = toSend
      BY <2>1
    <2>6. connection_ # null /\ serverEnd'[connection_] = "backlog" =>
              serverEnd[connection_] = "backlog"
      BY <2>2, <2>3
    <2> QED
      BY <1>1, <1>2, <2>1, <2>4, <2>5, <2>6, ConsecutiveKept DEF Consecutive
  <1>7. CASE Crash
    <2>1. UNCHANGED <<serverEnd, undefined, captured, round, toSend>>
      BY <1>7 DEF Crash, listVars, sendVars
    <2>2. connections_' = connections_
      BY <2>1 DEF connections_
    <2> QED
      BY <1>1, <2>1, <2>2, ConsecutiveKept DEF Consecutive
  <1> QED
    BY <1>3, <1>4, <1>5, <1>6, <1>7 DEF ServerLoop

(* A new connection, and none, have no frame.                               *)
LEMMA ConsecutiveConnect ==
    ASSUME IInv, Consecutive, HandleClose \/ ClientDies \/ \E c \in Conn : Connect(c)
    PROVE  Consecutive'
  <1>1. Coming' = <<>> /\ Len(Coming') = 0
    BY FramesConnect, EmptySeq
  <1>2. CASE HandleClose \/ ClientDies
    <2>1. connection_' = null /\ undefined' = undefined
      BY <1>2 DEF HandleClose, ClientDies, listVars
    <2> QED
      BY <1>1, <2>1, Bounds DEF Consecutive, connections_
  <1>3. CASE \E c \in Conn : Connect(c)
    <2>1. last' = 0
      BY <1>3 DEF Connect
    <2>2. Latest' = 0
      BY <1>1, <2>1 DEF Latest
    <2> QED
      BY <1>1, <2>1, <2>2 DEF Consecutive
  <1> QED
    BY <1>2, <1>3

(* What a send adds is the frame after the latest.                          *)
LEMMA ConsecutiveSend ==
    ASSUME IInv, Consecutive, NEW c \in Conn, Send(c)
    PROVE  Consecutive'
  <1>1. /\ captured \in Frame /\ captured \in Nat /\ captured # 0 /\ round /\ c \in toSend
        /\ toSend' = toSend \ {c}
        /\ UNCHANGED <<connection_, inputBuffer, last, serverEnd, undefined, captured, round>>
        /\ Coming \in Seq(Piece) /\ WholeFrames(Coming) /\ Len(Coming) \in Nat
        /\ last \in Nat /\ Latest \in Nat
    BY Numbers, Bounds, LatestType
       DEF IInv, Counted, Send, clientVars, listVars, Frame
  <1>2. connections_' = connections_
    BY <1>1 DEF connections_
  <1>3. CASE ~(c = connection_ /\ c \in connections_) /\ Coming' = Coming
    <2>1. Latest' = Latest
      BY <1>1, <1>3 DEF Latest
    <2>2. connection_ \in connections_ => c # connection_
      BY <1>3
    <2> QED
      BY <1>1, <1>2, <1>3, <2>1, <2>2 DEF Consecutive
  <1>4. ASSUME c = connection_ /\ c \in connections_, Coming' = Coming \o Pieces(captured),
               ~undefined
        PROVE  Consecutive'
    <2> DEFINE n == Len(Coming)
    <2>1. /\ Len(Coming') = n + Parts
          /\ \A i \in 1 .. n : Coming'[i] = Coming[i]
          /\ \A i \in 1 .. Parts : Coming'[n + i] = [frame |-> captured, part |-> i]
          /\ n \in Nat /\ Parts \in Nat \ {0} /\ Coming' \in Seq(Piece)
      BY <1>1, <1>4, WholeFramesGrow, Bounds
    <2>2. Coming' # <<>> /\ Latest' = captured
      <3>1. Parts \in 1 .. Parts /\ Len(Coming') # 0
        BY <2>1
      <3>2. Coming' # <<>>
        BY <3>1, EmptySeq
      <3>3. Coming'[n + Parts].frame = captured
        <4>1. Coming'[n + Parts] = [frame |-> captured, part |-> Parts]
          BY <2>1, <3>1
        <4> QED
          BY <4>1
      <3> QED
        BY <2>1, <3>2, <3>3 DEF Latest
    <2>3. Latest # 0 => Latest = captured - 1
      BY <1>1, <1>4 DEF Consecutive
    <2>4. /\ n = 0 => Latest = last
          /\ n # 0 => Latest = Coming[n].frame /\ Coming[n].frame # 0
      <3>1. n = 0 => Coming = <<>>
        BY <1>1, EmptySeq
      <3>2. n # 0 => Coming # <<>> /\ n \in 1 .. n
        BY <2>1, EmptySeq
      <3>3. n # 0 => Coming[n].frame \in Frame
        BY <3>2, Numbers DEF IInv
      <3> QED
        BY <3>1, <3>2, <3>3 DEF Latest, Frame
    <2>5. ASSUME NEW i \in 1 .. Len(Coming'), Coming'[i].part = 1
          PROVE  /\ i = 1 /\ last # 0 => Coming'[i].frame = last + 1
                 /\ i + Parts <= Len(Coming') =>
                        Coming'[i + Parts].frame = Coming'[i].frame + 1
      <3>1. CASE i \in 1 .. n
        <4>1. Coming'[i] = Coming[i] /\ Coming[i].part = 1
          BY <2>1, <2>5, <3>1
        <4>2. /\ i = 1 /\ last # 0 => Coming[i].frame = last + 1
              /\ i + Parts <= n => Coming[i + Parts].frame = Coming[i].frame + 1
          BY <1>4, <3>1, <4>1 DEF Consecutive
        <4>3. /\ i + Parts - 1 <= n
              /\ Coming[i + Parts - 1] = [frame |-> Coming[i].frame, part |-> Parts]
          <5>1. Parts \in 1 .. Parts
            BY <2>1
          <5> QED
            BY <1>1, <3>1, <4>1, <5>1 DEF WholeFrames
        <4>4. CASE i + Parts <= n
          <5>1. i + Parts \in 1 .. n
            BY <2>1, <3>1, <4>4
          <5> QED
            BY <2>1, <4>1, <4>2, <4>4, <5>1
        <4>5. CASE i + Parts > n
          <5>1. i + Parts = n + 1 /\ i + Parts - 1 = n /\ 1 \in 1 .. Parts
            <6>1. /\ n \in Nat /\ Parts \in Nat \ {0} /\ i \in Nat
                  /\ i + Parts - 1 <= n /\ i + Parts > n
              BY <2>1, <3>1, <4>3, <4>5
            <6> QED
              BY <6>1
          <5>2. n # 0
            BY <3>1
          <5>3. Coming[i].frame = captured - 1
            BY <2>3, <2>4, <4>3, <5>1, <5>2
          <5>4. Coming'[n + 1] = [frame |-> captured, part |-> 1]
            BY <2>1, <5>1
          <5> QED
            BY <1>1, <4>1, <4>2, <5>1, <5>3, <5>4
        <4> QED
          BY <2>1, <3>1, <4>4, <4>5
      <3>2. CASE i > n
        <4>1. i - n \in 1 .. Parts /\ n + (i - n) = i
          BY <2>1, <3>2
        <4>2. Coming'[n + (i - n)] = [frame |-> captured, part |-> i - n]
          BY <2>1, <4>1
        <4>3. i = n + 1 /\ Coming'[i].frame = captured
          BY <2>1, <2>5, <4>1, <4>2
        <4>4. ~(i + Parts <= Len(Coming'))
          BY <2>1, <4>3
        <4>5. i = 1 /\ last # 0 => captured = last + 1
          BY <1>1, <2>1, <2>3, <2>4, <4>3
        <4> QED
          BY <4>3, <4>4, <4>5
      <3> QED
        BY <2>1, <3>1, <3>2
    <2>6. connection_' \notin toSend' /\ serverEnd'[connection_'] # "backlog"
      BY <1>1, <1>4 DEF connections_
    <2> QED
      BY <1>1, <2>2, <2>5, <2>6 DEF Consecutive
  <1>5. CASE undefined
    BY <1>1, <1>5 DEF Consecutive
  <1> QED
    BY <1>3, <1>4, <1>5, ComingGrows

(* What the codec delivers is the frame after the last one.                 *)
LEMMA ConsecutiveDeliver ==
    ASSUME IInv, Consecutive, NEW n \in 1 .. Parts, Deliver(n)
    PROVE  /\ Consecutive'
           /\ ~undefined /\ last # 0 => last' = last + 1
  <1>1. /\ Coming # <<>> /\ last' = Coming[1].frame /\ last' \in Frame
        /\ Coming \in Seq(Piece) /\ WholeFrames(Coming)
        /\ Coming' \in Seq(Piece) /\ Len(Coming') = Len(Coming) - Parts
        /\ \A i \in 1 .. Len(Coming') : Coming'[i] = Coming[i + Parts]
        /\ UNCHANGED <<connection_, serverEnd, undefined, captured, round, toSend>>
    BY ComingShrinks, Numbers DEF Deliver, listVars, sendVars, IInv
  <1>2. connections_' = connections_
    BY <1>1 DEF connections_
  <1>3. /\ Parts \in Nat \ {0} /\ Len(Coming) \in Nat /\ Parts <= Len(Coming)
        /\ Coming[1].part = 1 /\ 1 \in 1 .. Len(Coming)
        /\ \A j \in 1 .. Parts : Coming[j] = [frame |-> Coming[1].frame, part |-> j]
    BY <1>1, FirstFrame
  <1>4. ~undefined /\ last # 0 => last' = last + 1
    BY <1>1, <1>3 DEF Consecutive
  <1>5. ASSUME ~undefined PROVE Consecutive'
    <2>1. ASSUME NEW i \in 1 .. Len(Coming'), Coming'[i].part = 1
          PROVE  /\ i = 1 /\ last' # 0 => Coming'[i].frame = last' + 1
                 /\ i + Parts <= Len(Coming') =>
                        Coming'[i + Parts].frame = Coming'[i].frame + 1
      <3>1. i + Parts \in 1 .. Len(Coming) /\ Coming'[i] = Coming[i + Parts]
        BY <1>1, <1>3
      <3>2. i = 1 => Coming[1 + Parts].frame = Coming[1].frame + 1
        <4>1. i = 1 => 1 + Parts <= Len(Coming)
          BY <1>3, <3>1
        <4> QED
          BY <1>3, <1>5, <4>1 DEF Consecutive
      <3>3. i + Parts <= Len(Coming') =>
                /\ i + Parts \in 1 .. Len(Coming') /\ (i + Parts) + Parts <= Len(Coming)
        BY <1>1, <1>3, <3>1
      <3>4. (i + Parts) + Parts <= Len(Coming) =>
                Coming[(i + Parts) + Parts].frame = Coming[i + Parts].frame + 1
        BY <1>5, <2>1, <3>1 DEF Consecutive
      <3>5. i + Parts <= Len(Coming') => Coming'[i + Parts] = Coming[(i + Parts) + Parts]
        BY <1>1, <3>3
      <3> QED
        BY <1>1, <3>1, <3>2, <3>3, <3>4, <3>5
    <2>2. Latest' = Latest
      <3>1. Latest = Coming[Len(Coming)].frame
        BY <1>1 DEF Latest
      <3>2. CASE Len(Coming) = Parts
        <4>1. Len(Coming') = 0 /\ Parts \in 1 .. Parts
          BY <1>1, <1>3, <3>2
        <4>2. Coming' = <<>>
          BY <1>1, <4>1, EmptySeq
        <4>3. Coming[Parts].frame = Coming[1].frame
          <5>1. Coming[Parts] = [frame |-> Coming[1].frame, part |-> Parts]
            BY <1>3, <4>1
          <5> QED
            BY <5>1
        <4> QED
          BY <1>1, <3>1, <3>2, <4>2, <4>3 DEF Latest
      <3>3. CASE Len(Coming) # Parts
        <4>1. /\ Len(Coming') \in 1 .. Len(Coming') /\ Len(Coming') + Parts = Len(Coming)
              /\ Len(Coming') # 0
          <5>1. /\ Len(Coming) \in Nat /\ Parts \in Nat /\ Parts <= Len(Coming)
                /\ Len(Coming') = Len(Coming) - Parts
            BY <1>1, <1>3
          <5> QED
            BY <3>3, <5>1
        <4>2. Coming' # <<>>
          BY <1>1, <4>1, EmptySeq
        <4>3. Coming'[Len(Coming')] = Coming[Len(Coming)]
          BY <1>1, <4>1
        <4> QED
          BY <3>1, <4>2, <4>3 DEF Latest
      <3> QED
        BY <3>2, <3>3
    <2> QED
      BY <1>1, <1>2, <1>5, <2>1, <2>2 DEF Consecutive
  <1>6. CASE undefined
    BY <1>1, <1>6 DEF Consecutive
  <1> QED
    BY <1>4, <1>5, <1>6

LEMMA StepConsecutive == IInv /\ Consecutive /\ [Next]_vars => Consecutive'
  <1> SUFFICES ASSUME IInv, Consecutive, [Next]_vars PROVE Consecutive'
    OBVIOUS
  <1>1. CASE Capture \/ RoundEnds \/ ServerLoop \/ Crash
    BY <1>1, ConsecutiveServer
  <1>2. CASE \E c \in Conn : Send(c)
    BY <1>2, ConsecutiveSend
  <1>3. CASE HandleClose \/ ClientDies \/ \E c \in Conn : Connect(c)
    BY <1>3, ConsecutiveConnect
  <1>4. CASE connection_ # null /\ Reads
    <2>1. /\ Coming' = Coming
          /\ UNCHANGED <<connection_, serverEnd, undefined, captured, round, toSend, last>>
      BY <1>4, ComingMoves DEF Reads, Receive, listVars, sendVars
    <2>2. Latest' = Latest /\ connections_' = connections_
      BY <2>1 DEF Latest, connections_
    <2> QED
      BY <2>1, <2>2 DEF Consecutive
  <1>5. CASE \E n \in 1 .. Parts : Deliver(n)
    BY <1>5, ConsecutiveDeliver
  <1>6. CASE NeedMore \/ Shutdown \/ Show \/ Skip \/ UNCHANGED vars
    <2>1. UNCHANGED <<connection_, inputBuffer, wire, last, serverEnd, undefined, captured,
                      round, toSend>>
      BY <1>6 DEF NeedMore, Shutdown, Show, Skip, vars, listVars, sendVars, clientVars
    <2>2. connections_' = connections_
      BY <2>1 DEF connections_
    <2> QED
      BY <2>1, <2>2, ConsecutiveKept DEF Consecutive
  <1> QED
    BY <1>1, <1>2, <1>3, <1>4, <1>5, <1>6 DEF Next, Round, Codec, Display, Idle

LEMMA InitConsecutive == Init => Consecutive
  <1> SUFFICES ASSUME Init PROVE Consecutive
    OBVIOUS
  <1>1. Coming = <<>> /\ Len(Coming) = 0 /\ Latest = 0
    BY EmptySeq DEF Init, Coming, Latest
  <1> QED
    BY <1>1 DEF Consecutive

(* Between two messages of one connection no frame is missing, as long as   *)
(* the list was left alone during the rounds.                               *)
THEOREM NoFrameMissing == Spec => NoGapOnAConnection
  <1>1. ASSUME IInv, Consecutive, [Next]_vars
        PROVE  [~undefined /\ connection_' = connection_ /\ last # 0 /\ last' # last
                  => last' = last + 1]_vars
    <2>1. CASE \E n \in 1 .. Parts : Deliver(n)
      BY <1>1, <2>1, ConsecutiveDeliver
    <2>2. CASE \E c \in Conn : Connect(c)
      BY <2>2, Bounds DEF Connect
    <2>3. CASE \/ Capture \/ Round \/ ServerLoop \/ Crash \/ HandleClose \/ Reads
               \/ NeedMore \/ Shutdown \/ Show \/ Skip \/ ClientDies \/ UNCHANGED vars
      <3>1. last' = last
        BY <2>3 DEF Capture, Round, RoundEnds, Send, ServerLoop, Accept, ServerClose, Crash,
                    HandleClose, Reads, Receive, NeedMore, Shutdown, Show, Skip, ClientDies,
                    vars, clientVars
      <3> QED
        BY <3>1
    <2> QED
      BY <1>1, <2>1, <2>2, <2>3 DEF Next, Codec, Display, Idle
  <1>2. IInv /\ Consecutive /\ [Next]_vars => Consecutive'
    BY StepConsecutive
  <1> QED
    BY <1>1, <1>2, InitConsecutive, Invariant, PTL DEF Spec, NoGapOnAConnection
=============================================================================
