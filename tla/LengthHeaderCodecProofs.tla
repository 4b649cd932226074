----------------------- MODULE LengthHeaderCodecProofs -----------------------
(***************************************************************************)
(* Proofs about the codec, for every set of messages and lengths, every    *)
(* limit, and every way of cutting the stream.  The invariant rests on one *)
(* idea: frames begin at strictly increasing positions, so that a receiver *)
(* that stands at the beginning of a frame reads that frame's length.      *)
(***************************************************************************)
EXTENDS LengthHeaderCodec, SequenceTheorems, TLAPS

(* Frame i + 1 begins where frame i ends; no two begin at the same place.   *)
FramesFollow ==
    /\ start[1] = 0
    /\ \A i \in 1 .. Len(sent) :
           start[i + 1] = start[i] + kHeaderLen + Size[sent[i]]
    /\ \A i, j \in 1 .. Len(start) : i < j => start[i] < start[j]

(* What was delivered is what was sent first.                               *)
DeliveredInOrder == \A i \in 1 .. Len(delivered) : delivered[i] = sent[i]

(* A connection is torn down between two calls of onMessage.                *)
ClosedIsIdle == conn = "kDisconnected" => pc = "idle"

IInv ==
    /\ TypeOK /\ OnFrameBoundary /\ FramesFollow /\ DeliveredInOrder
    /\ HangsUpOnOversize /\ LeftoverBounded /\ ClosedIsIdle

-----------------------------------------------------------------------------
(* The initial state satisfies the invariant: nothing was sent.             *)
LEMMA InitInvariant == Init => IInv
  <1> SUFFICES ASSUME Init PROVE IInv
    OBVIOUS
  <1>1. /\ Len(sent) = 0 /\ Len(start) = 1 /\ start[1] = 0 /\ Len(delivered) = 0
        /\ sent \in Seq(Message) /\ start \in Seq(Nat)
        /\ delivered \in Seq(Message \cup {Garbled})
    BY DEF Init
  <1> QED
    BY <1>1, CodecAssumption
       DEF Init, IInv, TypeOK, OnFrameBoundary, FramesFollow, DeliveredInOrder,
           HangsUpOnOversize, LeftoverBounded, ClosedIsIdle, End, readableBytes, kHeaderLen

(* The length of the stream is a number.                                    *)
LEMMA EndNat == TypeOK => End \in Nat
  BY ElementOfSeq DEF TypeOK, End

(* A receiver that can read a header reads that of the next message.        *)
LEMMA HeaderIsNext ==
    ASSUME IInv, HeaderReadable
    PROVE  LET next == Len(delivered) + 1
           IN  /\ next \in 1 .. Len(sent)
               /\ sent[next] \in Message /\ Size[sent[next]] \in Nat
               /\ Lengths = {Size[sent[next]]} /\ Messages = {sent[next]}
               /\ start[next + 1] = consumed + kHeaderLen + Size[sent[next]]
  <1> DEFINE next == Len(delivered) + 1
  <1>1. /\ sent \in Seq(Message) /\ start \in Seq(Nat) /\ Len(start) = Len(sent) + 1
        /\ Len(sent) \in Nat /\ Len(delivered) \in Nat /\ Len(delivered) <= Len(sent)
        /\ consumed = start[next] /\ arrived \in Nat /\ arrived <= start[Len(sent) + 1]
        /\ consumed \in Nat /\ consumed + kHeaderLen <= arrived
    <2>1. start[Len(sent) + 1] \in Nat
      BY ElementOfSeq DEF IInv, TypeOK
    <2> QED
      BY <2>1 DEF IInv, TypeOK, OnFrameBoundary, HeaderReadable, readableBytes, End, kHeaderLen
  <1>2. next \in 1 .. Len(sent)
    <2>1. Len(delivered) # Len(sent)
      BY <1>1 DEF kHeaderLen
    <2> QED BY <2>1, <1>1
  <1>3. sent[next] \in Message /\ Size[sent[next]] \in Nat
    BY <1>1, <1>2, ElementOfSeq, CodecAssumption
  <1>4. FramesHere = {next}
    <2>1. ASSUME NEW i \in 1 .. Len(sent), start[i] = consumed
          PROVE  i = next
      <3>1. i \in 1 .. Len(start) /\ next \in 1 .. Len(start)
        BY <1>1, <1>2
      <3>2. start[i] \in Nat /\ start[next] = start[i]
        BY <1>1, <2>1
      <3>3. ~(i < next) /\ ~(next < i)
        <4>1. \A j, k \in 1 .. Len(start) : j < k => start[j] < start[k]
          BY DEF IInv, FramesFollow
        <4>2. (i < next => start[i] < start[next]) /\ (next < i => start[next] < start[i])
          BY <3>1, <4>1
        <4> QED BY <3>2, <4>2
      <3>4. i \in Nat /\ next \in Nat
        BY <1>1
      <3> QED BY <3>3, <3>4
    <2> QED BY <2>1, <1>1, <1>2 DEF FramesHere
  <1>5. Lengths = {Size[sent[next]]} /\ Messages = {sent[next]}
    BY <1>4 DEF Lengths, Messages
  <1>6. start[next + 1] = consumed + kHeaderLen + Size[sent[next]]
    BY <1>1, <1>2 DEF IInv, FramesFollow
  <1> QED BY <1>2, <1>3, <1>5, <1>6

-----------------------------------------------------------------------------
(* A send puts one more frame behind those already sent.                    *)
LEMMA SendStep ==
    ASSUME IInv, NEW msg \in Message, send(msg)
    PROVE  IInv'
  <1> DEFINE n == Len(sent)
  <1>1. /\ sent \in Seq(Message) /\ start \in Seq(Nat) /\ Len(start) = n + 1
        /\ n \in Nat /\ start[n + 1] \in Nat /\ Size[msg] \in Nat
        /\ Len(delivered) \in Nat /\ Len(delivered) <= n
    BY ElementOfSeq, CodecAssumption DEF IInv, TypeOK, OnFrameBoundary
  <1>2. UNCHANGED <<arrived, consumed, pc, conn, peer, delivered>>
    BY DEF send
  <1>3. /\ sent' \in Seq(Message) /\ Len(sent') = n + 1
        /\ \A i \in 1 .. n : sent'[i] = sent[i]
        /\ sent'[n + 1] = msg
    BY <1>1 DEF send
  <1>4. /\ start' \in Seq(Nat) /\ Len(start') = n + 2
        /\ \A i \in 1 .. n + 1 : start'[i] = start[i]
        /\ start'[n + 2] = start[n + 1] + kHeaderLen + Size[msg]
    BY <1>1 DEF send, End, kHeaderLen
  <1>5. TypeOK'
    <2>1. Len(sent') + 1 = n + 2 /\ End' = start[n + 1] + kHeaderLen + Size[msg]
      BY <1>1, <1>3, <1>4 DEF End
    <2> QED
      BY <1>1, <1>2, <1>3, <1>4, <2>1, SMTT(30) DEF IInv, TypeOK, End, kHeaderLen
  <1>6. OnFrameBoundary' /\ DeliveredInOrder'
    <2>1. Len(delivered) + 1 \in 1 .. n + 1
      BY <1>1
    <2>2. OnFrameBoundary'
      BY <1>1, <1>2, <1>3, <1>4, <2>1 DEF IInv, OnFrameBoundary
    <2>3. \A i \in 1 .. Len(delivered) : i \in 1 .. n
      BY <1>1
    <2>4. DeliveredInOrder'
      BY <1>2, <1>3, <2>3 DEF IInv, DeliveredInOrder
    <2> QED BY <2>2, <2>4
  <1>7. FramesFollow'
    <2>1. start'[1] = 0
      BY <1>1, <1>4 DEF IInv, FramesFollow
    <2>2. ASSUME NEW i \in 1 .. n + 1
          PROVE  start'[i + 1] = start'[i] + kHeaderLen + Size[sent'[i]]
      <3>1. CASE i \in 1 .. n
        <4>1. start[i + 1] = start[i] + kHeaderLen + Size[sent[i]]
          BY <3>1 DEF IInv, FramesFollow
        <4>2. i \in 1 .. n + 1 /\ i + 1 \in 1 .. n + 1
          BY <3>1, <1>1
        <4> QED BY <3>1, <4>1, <4>2, <1>3, <1>4
      <3>2. CASE i = n + 1
        BY <3>2, <1>1, <1>3, <1>4
      <3> QED BY <3>1, <3>2, <1>1
    <2>3. ASSUME NEW i \in 1 .. n + 2, NEW j \in 1 .. n + 2, i < j
          PROVE  start'[i] < start'[j]
      <3>1. \A k \in 1 .. n + 1 : start[k] \in Nat /\ start[k] <= start[n + 1]
        <4>1. ASSUME NEW k \in 1 .. n + 1 PROVE start[k] \in Nat /\ start[k] <= start[n + 1]
          <5>1. start[k] \in Nat
            BY <1>1, ElementOfSeq
          <5>2. CASE k = n + 1
            BY <5>1, <5>2, <1>1
          <5>3. CASE k < n + 1
            <6>1. start[k] < start[n + 1]
              BY <5>3, <1>1 DEF IInv, FramesFollow
            <6> QED BY <5>1, <6>1, <1>1
          <5> QED BY <5>2, <5>3, <1>1
        <4> QED BY <4>1
      <3>2. CASE j \in 1 .. n + 1
        <4>1. /\ i \in 1 .. Len(start) /\ j \in 1 .. Len(start)
              /\ start'[i] = start[i] /\ start'[j] = start[j]
          <5>1. i \in 1 .. n + 1
            BY <2>3, <3>2, <1>1
          <5> QED BY <3>2, <5>1, <1>1, <1>4
        <4> QED BY <2>3, <4>1 DEF IInv, FramesFollow
      <3>3. CASE j = n + 2
        <4>1. i \in 1 .. n + 1
          BY <2>3, <3>3, <1>1
        <4> QED BY <3>1, <3>3, <4>1, <1>1, <1>4, SMTT(30) DEF kHeaderLen
      <3> QED BY <3>2, <3>3, <1>1
    <2> QED
      BY <2>1, <2>2, <2>3, <1>3, <1>4 DEF FramesFollow
  <1>8. HangsUpOnOversize'
    <2>1. conn = "kDisconnecting" => Len(delivered) + 1 \in 1 .. n
      BY <1>1 DEF IInv, HangsUpOnOversize
    <2> QED
      BY <1>1, <1>2, <1>3, <2>1 DEF IInv, HangsUpOnOversize
  <1>9. LeftoverBounded' /\ ClosedIsIdle'
    BY <1>2 DEF IInv, LeftoverBounded, ClosedIsIdle, readableBytes
  <1> QED BY <1>5, <1>6, <1>7, <1>8, <1>9 DEF IInv

(* A delivery retrieves exactly the next frame.                             *)
LEMMA DeliverStep ==
    ASSUME IInv, Deliver
    PROVE  LET next == Len(delivered) + 1
           IN  /\ IInv'
               /\ conn = "kConnected" /\ next \in 1 .. Len(sent)
               /\ Size[sent[next]] <= MaxLen
               /\ delivered' = Append(delivered, sent[next])
  <1> DEFINE next == Len(delivered) + 1
             len == Size[sent[next]]
  <1>1. HeaderReadable /\ pc = "onMessage" /\ Len(delivered) \in Nat
    BY DEF Deliver, HeaderReadable, IInv, TypeOK
  <1>2. /\ next \in 1 .. Len(sent) /\ sent[next] \in Message /\ len \in Nat
        /\ Lengths = {len} /\ Messages = {sent[next]}
        /\ start[next + 1] = consumed + kHeaderLen + len
    BY <1>1, HeaderIsNext
  <1>3. /\ len <= MaxLen /\ readableBytes >= len + kHeaderLen
        /\ consumed' = consumed + kHeaderLen + len
        /\ delivered' = Append(delivered, sent[next])
    BY <1>2, CodecAssumption DEF Deliver, InvalidLength, FrameReadable
  <1>4. UNCHANGED <<sent, start, arrived, pc, conn, peer>>
    BY DEF Deliver, stream
  <1>5. conn = "kConnected"
    BY <1>1, <1>2, <1>3, CodecAssumption, SMTT(30)
       DEF IInv, TypeOK, HangsUpOnOversize, ClosedIsIdle
  <1>6. /\ delivered' \in Seq(Message \cup {Garbled}) /\ Len(delivered') = next
        /\ \A i \in 1 .. Len(delivered) : delivered'[i] = delivered[i]
        /\ delivered'[next] = sent[next]
    BY <1>2, <1>3 DEF IInv, TypeOK
  <1>7. TypeOK'
    <2>1. consumed' \in 0 .. arrived
      <3>1. consumed \in Nat /\ arrived \in Nat
        <4>1. arrived \in 0 .. End /\ consumed \in 0 .. arrived
          BY DEF IInv, TypeOK
        <4> QED BY <4>1, EndNat DEF IInv
      <3> QED
        BY <1>2, <1>3, <3>1 DEF readableBytes, kHeaderLen
    <2> QED
      BY <1>4, <1>6, <2>1 DEF IInv, TypeOK, End
  <1>8. OnFrameBoundary' /\ DeliveredInOrder'
    <2>1. \A i \in 1 .. next : delivered'[i] = sent[i]
      BY <1>1, <1>6 DEF IInv, DeliveredInOrder
    <2> QED
      BY <1>2, <1>3, <1>4, <1>6, <2>1 DEF OnFrameBoundary, DeliveredInOrder
  <1>9. FramesFollow' /\ HangsUpOnOversize' /\ LeftoverBounded' /\ ClosedIsIdle'
    BY <1>1, <1>4, <1>5
       DEF IInv, FramesFollow, HangsUpOnOversize, LeftoverBounded, ClosedIsIdle
  <1> QED BY <1>2, <1>3, <1>5, <1>7, <1>8, <1>9 DEF IInv

(* The other steps of the receiver and of the connection.                   *)
LEMMA OtherStep ==
    ASSUME IInv,
           \/ \E n \in 1 .. End - arrived : Receive(n)
           \/ NeedMore \/ Shutdown \/ PeerClose \/ HandleClose
           \/ Finished \/ UNCHANGED vars
    PROVE  IInv'
  <1>1. UNCHANGED <<sent, start, consumed, delivered>>
    BY DEF Receive, NeedMore, Shutdown, PeerClose, HandleClose, Finished, vars, stream
  <1>2. End' = End /\ End \in Nat /\ arrived \in Nat /\ consumed \in Nat
    BY <1>1, ElementOfSeq DEF End, IInv, TypeOK
  <1>3. OnFrameBoundary' /\ FramesFollow' /\ DeliveredInOrder'
    BY <1>1 DEF IInv, OnFrameBoundary, FramesFollow, DeliveredInOrder
  <1>8. HeaderReadable =>
            \E len \in Nat : /\ Lengths = {len} /\ Len(delivered) < Len(sent)
                             /\ len = Size[sent[Len(delivered) + 1]]
    <2> SUFFICES ASSUME HeaderReadable
                 PROVE  /\ Size[sent[Len(delivered) + 1]] \in Nat
                        /\ Lengths = {Size[sent[Len(delivered) + 1]]}
                        /\ Len(delivered) < Len(sent)
      OBVIOUS
    <2>1. Len(delivered) \in Nat /\ Len(sent) \in Nat
      BY DEF IInv, TypeOK
    <2> QED BY <2>1, HeaderIsNext
  <1> USE DEF IInv, TypeOK, HangsUpOnOversize, LeftoverBounded, ClosedIsIdle, readableBytes
  <1>4. ASSUME NEW n \in 1 .. End - arrived, Receive(n)
        PROVE  IInv'
    <2>1. arrived' = arrived + n /\ arrived' \in 0 .. End /\ consumed \in 0 .. arrived'
      BY <1>4, <1>2 DEF Receive
    <2>2. TypeOK'
      BY <1>4, <1>1, <1>2, <2>1 DEF Receive
    <2> QED
      BY <1>4, <1>1, <1>3, <2>2 DEF Receive
  <1>5. CASE NeedMore
    <2>1. readableBytes < kHeaderLen + MaxLen
      <3>1. CASE readableBytes < kHeaderLen
        BY <3>1, <1>2, CodecAssumption DEF kHeaderLen
      <3>2. CASE ~(readableBytes < kHeaderLen)
        <4>1. HeaderReadable
          BY <1>2, <1>5, <3>2 DEF NeedMore, HeaderReadable, kHeaderLen
        <4>2. \E len \in Nat : len <= MaxLen /\ ~(readableBytes >= len + kHeaderLen)
          BY <1>5, <3>2, <4>1, <1>8, CodecAssumption
             DEF NeedMore, InvalidLength, FrameReadable
        <4> QED BY <4>2, <1>2, CodecAssumption DEF kHeaderLen
      <3> QED BY <3>1, <3>2
    <2> QED
      BY <1>5, <1>1, <1>2, <1>3, <2>1 DEF NeedMore, stream
  <1>6. CASE Shutdown
    <2>1. Len(delivered) < Len(sent) /\ Size[sent[Len(delivered) + 1]] > MaxLen
      <3>1. HeaderReadable
        BY <1>6 DEF Shutdown
      <3> QED
        BY <1>6, <3>1, <1>8, CodecAssumption, SMTT(30) DEF Shutdown, InvalidLength
    <2>2. pc = "onMessage" /\ conn' = "kDisconnecting"
      BY <1>6 DEF Shutdown, HeaderReadable
    <2> QED
      BY <1>6, <1>1, <1>2, <1>3, <2>1, <2>2 DEF Shutdown, stream
  <1>7. CASE PeerClose \/ HandleClose \/ Finished \/ UNCHANGED vars
    BY <1>7, <1>1, <1>2, <1>3 DEF PeerClose, HandleClose, Finished, vars, stream
  <1> QED BY <1>4, <1>5, <1>6, <1>7

-----------------------------------------------------------------------------
(* Every step keeps the invariant.                                          *)
LEMMA InductiveStep == IInv /\ [Next]_vars => IInv'
  BY SendStep, DeliverStep, OtherStep DEF Next, onMessage

(* The invariant holds of every reachable state.                            *)
THEOREM Invariance == Spec => []IInv
  BY InitInvariant, InductiveStep, PTL DEF Spec

(* Every variable has its type; in particular nothing is retrieved that has *)
(* not arrived, which Buffer::retrieve asserts.                             *)
THEOREM TypeCorrect == Spec => []TypeOK
  <1>1. IInv => TypeOK
    BY DEF IInv
  <1> QED BY <1>1, Invariance, PTL

(* The receiver never loses the frame boundaries.                           *)
THEOREM InStep == Spec => []OnFrameBoundary
  <1>1. IInv => OnFrameBoundary
    BY DEF IInv
  <1> QED BY <1>1, Invariance, PTL

(* The receiver never hangs up on a message it should take.                 *)
THEOREM HangUpIsJustified == Spec => []HangsUpOnOversize
  <1>1. IInv => HangsUpOnOversize
    BY DEF IInv
  <1> QED BY <1>1, Invariance, PTL

(* The input buffer of a live connection holds less than one longest frame  *)
(* between two reads.                                                       *)
THEOREM LeftoverIsBounded == Spec => []LeftoverBounded
  <1>1. IInv => LeftoverBounded
    BY DEF IInv
  <1> QED BY <1>1, Invariance, PTL

(* The codec implements the channel of whole messages: a send is its Send,  *)
(* a delivery its Deliver, the hang-up and the end its Close.               *)
THEOREM Refinement == Spec => ImplementsChannel
  <1>1. Init => Channel!Init
    BY DEF Init, Channel!Init
  <1>2. IInv /\ [Next]_vars => [Channel!Next]_(Channel!vars)
    <2> SUFFICES ASSUME IInv, [Next]_vars
                 PROVE  [Channel!Next]_(Channel!vars)
      OBVIOUS
    <2>1. ASSUME NEW msg \in Message, send(msg) PROVE Channel!Next
      BY <2>1 DEF send, Channel!Send, Channel!Next
    <2>2. CASE Deliver
      <3>1. Channel!Deliver
        <4>1. UNCHANGED <<sent, conn>> /\ Len(delivered) \in Nat /\ Len(sent) \in Nat
          BY <2>2 DEF Deliver, stream, IInv, TypeOK
        <4> QED
          BY <2>2, <4>1, DeliverStep DEF Channel!Deliver, Channel!NextMessage
      <3> QED BY <3>1 DEF Channel!Next
    <2>3. CASE Shutdown \/ HandleClose
      <3>1. UNCHANGED <<sent, delivered>> /\ (conn # "kConnected" => conn' # "kConnected")
        BY <2>3 DEF Shutdown, HandleClose, stream
      <3> QED BY <3>1 DEF Channel!Close, Channel!Next, Channel!vars
    <2>4. CASE \/ \E n \in 1 .. End - arrived : Receive(n)
               \/ NeedMore \/ PeerClose \/ Finished \/ UNCHANGED vars
      BY <2>4 DEF Receive, NeedMore, PeerClose, Finished, vars, stream, Channel!vars
    <2> QED BY <2>1, <2>2, <2>3, <2>4 DEF Next, onMessage
  <1> QED
    BY <1>1, <1>2, Invariance, PTL DEF Spec, ImplementsChannel, Channel!Spec
=============================================================================
