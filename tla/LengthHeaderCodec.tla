-------------------------- MODULE LengthHeaderCodec --------------------------
(***************************************************************************)
(* The framing of the video stream (common/codec.h) on one TCP connection: *)
(* the server's send puts a length header before each message, TCP hands   *)
(* the bytes over in pieces of any size, and the client's onMessage takes  *)
(* the messages out again.  Bytes are positions in the connection's        *)
(* stream; what the receiver finds at a position depends on whether a      *)
(* frame begins there.                                                     *)
(***************************************************************************)
EXTENDS Integers, Sequences

CONSTANTS Message,  \* the messages that may be sent
          Size,     \* the length of each, in bytes
          Garbled,  \* what a receiver that lost the frames would deliver
          MaxLen,   \* 65536*20, the longest message onMessage takes
          MaxSent   \* bound: how many messages are sent

ASSUME CodecAssumption ==
    /\ Size \in [Message -> Nat] /\ Garbled \notin Message
    /\ MaxLen \in Nat /\ MaxSent \in Nat

VARIABLES sent,      \* history: the messages put on the connection, in order
          start,     \* history: start[i] is the position where frame i begins
          arrived,   \* how many bytes the input buffer has received
          consumed,  \* how many of them were retrieved from it
          pc,        \* "onMessage" while the loop of onMessage runs
          conn,      \* the receiver's TcpConnection::state_
          peer,      \* the sender's TcpConnection::state_
          delivered  \* the messages given to messageCallback_, in order

stream == <<sent, start>>
vars == <<stream, arrived, consumed, pc, conn, peer, delivered>>

kHeaderLen == 4   \* sizeof(int32_t)

End == start[Len(sent) + 1]   \* how many bytes were sent

Init ==
    /\ sent = <<>> /\ start = <<0>>
    /\ arrived = 0 /\ consumed = 0
    /\ pc = "idle" /\ conn = "kConnected" /\ peer = "kConnected"
    /\ delivered = <<>>

-----------------------------------------------------------------------------
(* LengthHeaderCodec::send: the header and the message are one buffer, so   *)
(* that they stay together whatever else is sent.  A connection that is no  *)
(* longer kConnected drops the buffer.                                      *)
send(msg) ==
    /\ peer = "kConnected" /\ Len(sent) < MaxSent
    /\ sent' = Append(sent, msg)
    /\ start' = Append(start, End + kHeaderLen + Size[msg])
    /\ UNCHANGED <<arrived, consumed, pc, conn, peer, delivered>>

(* The receiver's loop reads some of the bytes on their way and calls       *)
(* onMessage.  It goes on reading after shutdown, which closes only the     *)
(* other direction.                                                         *)
Receive(n) ==
    /\ pc = "idle" /\ conn # "kDisconnected"
    /\ arrived + n <= End
    /\ arrived' = arrived + n /\ pc' = "onMessage"
    /\ UNCHANGED <<stream, consumed, conn, peer, delivered>>

-----------------------------------------------------------------------------
(* LengthHeaderCodec::onMessage, one turn of the loop a step.               *)

readableBytes == arrived - consumed

(* The frames that begin where the receiver peeks: one, as long as it is in *)
(* step with the sender; elsewhere the header is any four bytes.            *)
FramesHere == {i \in 1 .. Len(sent) : start[i] = consumed}
Lengths == IF FramesHere # {} THEN {Size[sent[i]] : i \in FramesHere}
                              ELSE -1 .. MaxLen + 1
Messages == IF FramesHere # {} THEN {sent[i] : i \in FramesHere} ELSE {Garbled}

HeaderReadable == pc = "onMessage" /\ readableBytes >= kHeaderLen

InvalidLengthFaulty(len) == len > MaxLen + 1 \/ len < 0
InvalidLengthStrict(len) == len >= MaxLen \/ len < 0
InvalidLength(len) == len > MaxLen \/ len < 0

FrameReadableFaulty(len) == readableBytes > len + kHeaderLen
FrameReadable(len) == readableBytes >= len + kHeaderLen

(* The loop ends: no header, or not yet all of the message.                 *)
NeedMore ==
    /\ pc = "onMessage"
    /\ \/ readableBytes < kHeaderLen
       \/ \E len \in Lengths : ~InvalidLength(len) /\ ~FrameReadable(len)
    /\ pc' = "idle"
    /\ UNCHANGED <<stream, arrived, consumed, conn, peer, delivered>>

(* shutdown() acts on a connection that is kConnected; the header stays in  *)
(* the buffer, so that the next read comes to the same end.                 *)
Shutdown ==
    /\ HeaderReadable /\ \E len \in Lengths : InvalidLength(len)
    /\ conn' = IF conn = "kConnected" THEN "kDisconnecting" ELSE conn
    /\ pc' = "idle"
    /\ UNCHANGED <<stream, arrived, consumed, peer, delivered>>

DeliverFaulty ==   \* a break after the callback
    /\ HeaderReadable
    /\ \E len \in Lengths, msg \in Messages :
           /\ ~InvalidLength(len) /\ FrameReadable(len)
           /\ consumed' = consumed + kHeaderLen + len
           /\ delivered' = Append(delivered, msg)
    /\ pc' = "idle"
    /\ UNCHANGED <<stream, arrived, conn, peer>>

DeliverShort ==   \* the header is not retrieved
    /\ HeaderReadable
    /\ \E len \in Lengths, msg \in Messages :
           /\ ~InvalidLength(len) /\ FrameReadable(len)
           /\ consumed' = consumed + len
           /\ delivered' = Append(delivered, msg)
    /\ UNCHANGED <<stream, arrived, pc, conn, peer>>

(* A whole frame: header and message are retrieved, and the loop goes on.   *)
Deliver ==
    /\ HeaderReadable
    /\ \E len \in Lengths, msg \in Messages :
           /\ ~InvalidLength(len) /\ FrameReadable(len)
           /\ consumed' = consumed + kHeaderLen + len
           /\ delivered' = Append(delivered, msg)
    /\ UNCHANGED <<stream, arrived, pc, conn, peer>>

-----------------------------------------------------------------------------
(* The sender's end goes away: it crashes, or it has read the end that the  *)
(* receiver's shutdown sent.                                                *)
PeerClose ==
    /\ peer = "kConnected" /\ peer' = "kDisconnected"
    /\ UNCHANGED <<stream, arrived, consumed, pc, conn, delivered>>

(* The receiver's read finds the end of the stream, or that the connection  *)
(* was reset, with bytes lost on the way.                                   *)
HandleClose ==
    /\ pc = "idle" /\ peer = "kDisconnected" /\ conn # "kDisconnected"
    /\ conn' = "kDisconnected"
    /\ UNCHANGED <<stream, arrived, consumed, pc, peer, delivered>>

Finished ==
    /\ conn = "kDisconnected" \/ (Len(sent) = MaxSent /\ arrived = End)
    /\ UNCHANGED vars

onMessage == NeedMore \/ Shutdown \/ Deliver

Next ==
    \/ \E msg \in Message : send(msg)
    \/ \E n \in 1 .. End - arrived : Receive(n)
    \/ onMessage
    \/ PeerClose \/ HandleClose \/ Finished

Spec == Init /\ [][Next]_vars

(* TCP delivers what was sent while both ends are up, a loop that runs      *)
(* onMessage finishes it, and the end of the stream is noticed.             *)
Fairness ==
    /\ WF_vars(\E n \in 1 .. End - arrived : Receive(n))
    /\ WF_vars(onMessage)
    /\ WF_vars(HandleClose)

FairSpec == Spec /\ Fairness

-----------------------------------------------------------------------------
TypeOK ==
    /\ sent \in Seq(Message)
    /\ start \in Seq(Nat) /\ Len(start) = Len(sent) + 1
    /\ arrived \in 0 .. End /\ consumed \in 0 .. arrived
    /\ pc \in {"idle", "onMessage"}
    /\ conn \in {"kConnected", "kDisconnecting", "kDisconnected"}
    /\ peer \in {"kConnected", "kDisconnected"}
    /\ delivered \in Seq(Message \cup {Garbled})

(* However TCP cuts the stream into pieces, the receiver always stands      *)
(* where the frame begins that follows the last one delivered.              *)
OnFrameBoundary ==
    /\ Len(delivered) <= Len(sent)
    /\ consumed = start[Len(delivered) + 1]

(* The receiver hangs up only because of a message above the limit, the     *)
(* very next one to be delivered, never because it misread a header.        *)
HangsUpOnOversize ==
    conn = "kDisconnecting" =>
        /\ Len(delivered) < Len(sent)
        /\ Size[sent[Len(delivered) + 1]] > MaxLen

(* On a connection that is up, onMessage leaves less than one longest frame *)
(* in the input buffer: the buffer does not grow with the stream.           *)
LeftoverBounded ==
    pc = "idle" /\ conn = "kConnected" => readableBytes < kHeaderLen + MaxLen

(* The codec makes the TCP byte stream a channel of whole messages, in the  *)
(* order sent, cut off at the first message above the limit.                *)
Channel == INSTANCE MessageChannel WITH open <- conn = "kConnected"
ImplementsChannel == Channel!Spec

(* A message that was sent is delivered in the end, or the connection is    *)
(* given up: the receiver never waits for ever on a message that came.      *)
EverySendAnswered ==
    \A i \in 1 .. MaxSent :
        Len(sent) >= i ~> (Len(delivered) >= i \/ conn # "kConnected")
=============================================================================
