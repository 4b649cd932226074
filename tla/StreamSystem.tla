---------------------------- MODULE StreamSystem ----------------------------
(***************************************************************************)
(* The whole stream: the server's send thread (server/server.cc) puts each *)
(* captured frame on every connection of its list, TCP carries the pieces, *)
(* the client's codec (common/codec.h) puts them together, onStringMessage *)
(* (client/client.cc) pushes the image whether it fits or not, and the     *)
(* display thread shows it, skips it or ends the client with it.  The      *)
(* client loses the connection, or hangs up, and connects again, while the *)
(* server may still have the old one in its list.  The image queue is the  *)
(* specification ImageFifo, which DisplayImage implements; what ChatServer *)
(* shows of the unlocked list is here: a change during a round makes the   *)
(* rest of the round arbitrary.                                            *)
(***************************************************************************)
EXTENDS Integers, Sequences

CONSTANTS TooLong,   \* the frames above the codec's limit
          Complete,  \* the frames that hold a complete JPEG
          Garbled,   \* a message whose bytes are not those of one frame
          Parts,     \* the pieces of a frame; the first holds the header
          Capacity,  \* how many images the client's queue has room for
          MaxFrames, \* bound: how many frames are captured
          MaxConn    \* bound: how many connections the client makes

Frame == 1 .. MaxFrames
Conn == 1 .. MaxConn
null == 0

ASSUME StreamAssumption ==
    /\ TooLong \subseteq Frame /\ Complete \subseteq Frame /\ Garbled \notin Nat
    /\ Parts \in Nat \ {0} /\ {Capacity, MaxFrames, MaxConn} \subseteq Nat

VARIABLES
    server,       \* "running", or "crashed" by an undefined step
    serverEnd,    \* the server's end: "new", "backlog", "listed", "closed"
    captured,     \* the frame in the send thread's buf
    round,        \* whether the send thread walks the list
    toSend,       \* the connections it has not come to
    overlap,      \* the list changed in this round
    undefined,    \* history: it did so in some round
    wire,         \* the pieces on their way on each connection
    connection_,  \* the client's connection
    hungUp,       \* the client has shut it down for writing
    inputBuffer,  \* the pieces in its input buffer
    onMessage,    \* whether the loop of onMessage runs
    queue, bytes, \* the image queue and the room that is taken
    client,       \* "running", or "dead"
    shown,        \* the frame in the window
    last,         \* history: the last message of this connection
    rejected,     \* history: the last message that push rejected
    skipped       \* history: the last one that did not decode

listVars == <<serverEnd, overlap, undefined>>
sendVars == <<captured, round, toSend>>
clientVars == <<connection_, hungUp, inputBuffer, onMessage, last>>
queueVars == <<queue, bytes, rejected>>
displayVars == <<client, shown, skipped>>
vars == <<server, listVars, sendVars, wire, clientVars, queueVars, displayVars>>

connections_ == {c \in Conn : serverEnd[c] = "listed"}
Made == {c \in Conn : serverEnd[c] # "new"}

(* The queue counts images; what a garbled one would do is the same.        *)
Fifo == INSTANCE ImageFifo
          WITH Image <- Frame \cup {Garbled},
               Size <- [i \in Frame \cup {Garbled} |-> 1]

Init ==
    /\ server = "running" /\ serverEnd = [c \in Conn |-> "new"]
    /\ overlap = FALSE /\ undefined = FALSE
    /\ captured = 0 /\ round = FALSE /\ toSend = {}
    /\ wire = [c \in Conn |-> <<>>]
    /\ connection_ = null /\ hungUp = FALSE /\ inputBuffer = <<>>
    /\ onMessage = FALSE /\ last = 0
    /\ Fifo!Init /\ rejected = 0
    /\ client = "running" /\ shown = 0 /\ skipped = 0

-----------------------------------------------------------------------------
(* The server.  An entry that is added or erased while the send thread      *)
(* walks the list makes the rest of its round undefined: it may end, or go  *)
(* to any connection, once (a bound) for every such change.                 *)

SetEnd(c, state) ==
    /\ serverEnd' = [serverEnd EXCEPT ![c] = state]
    /\ overlap' = round /\ undefined' = (undefined \/ round)
    /\ toSend' \in IF round THEN SUBSET Made ELSE {toSend}

Accept(c) ==
    /\ server = "running" /\ serverEnd[c] = "backlog" /\ SetEnd(c, "listed")
    /\ UNCHANGED <<server, captured, round, wire, clientVars, queueVars, displayVars>>

(* The read finds that the client has left, or that it has hung up.  The    *)
(* connection leaves the list, and is closed as nothing else owns it.       *)
Gone(c) == connection_ # c \/ hungUp

ServerCloseFaulty(c) ==   \* a connection shut down for writing is kept
    /\ server = "running" /\ c \in connections_ /\ connection_ # c
    /\ SetEnd(c, "closed")
    /\ UNCHANGED <<server, captured, round, wire, clientVars, queueVars, displayVars>>

ServerClose(c) ==
    /\ server = "running" /\ c \in connections_ /\ Gone(c)
    /\ SetEnd(c, "closed")
    /\ UNCHANGED <<server, captured, round, wire, clientVars, queueVars, displayVars>>

Capture ==
    /\ server = "running" /\ ~round /\ captured < MaxFrames
    /\ captured' = captured + 1 /\ round' = TRUE /\ toSend' = connections_
    /\ UNCHANGED <<server, listVars, wire, clientVars, queueVars, displayVars>>

Pieces(f) == [i \in 1 .. Parts |-> [frame |-> f, part |-> i]]

(* codec_.send: the frame follows what is on the connection; to one that    *)
(* the client has left, or that is closed, nothing goes.                    *)
Send(c) ==
    /\ server = "running" /\ round /\ c \in toSend
    /\ toSend' = toSend \ {c}
    /\ wire' = IF c = connection_ /\ c \in connections_
                 THEN [wire EXCEPT ![c] = @ \o Pieces(captured)] ELSE wire
    /\ UNCHANGED <<server, listVars, captured, round, clientVars, queueVars, displayVars>>

RoundEndsFaulty ==   \* a return at the first connection that is not there
    /\ server = "running" /\ round
    /\ round' = FALSE /\ toSend' = {} /\ overlap' = FALSE
    /\ UNCHANGED <<server, serverEnd, undefined, captured, wire, clientVars, queueVars,
                   displayVars>>

RoundEnds ==
    /\ server = "running" /\ round /\ (overlap \/ toSend = {})
    /\ round' = FALSE /\ toSend' = {} /\ overlap' = FALSE
    /\ UNCHANGED <<server, serverEnd, undefined, captured, wire, clientVars, queueVars,
                   displayVars>>

(* An undefined step may end the server.                                    *)
Crash ==
    /\ server = "running" /\ overlap /\ server' = "crashed"
    /\ UNCHANGED <<listVars, sendVars, wire, clientVars, queueVars, displayVars>>

-----------------------------------------------------------------------------
(* The client's connection.  The kernel of the server's host may complete   *)
(* it before the server accepts it.                                         *)
Connect(c) ==
    /\ server = "running" /\ client = "running" /\ connection_ = null
    /\ serverEnd[c] = "new" /\ \A d \in Conn : d < c => serverEnd[d] # "new"
    /\ connection_' = c /\ hungUp' = FALSE /\ last' = 0
    /\ serverEnd' = [serverEnd EXCEPT ![c] = "backlog"]
    /\ UNCHANGED <<server, overlap, undefined, sendVars, wire, inputBuffer, onMessage,
                   queueVars, displayVars>>

(* The connection is reset, or its end is read, in the middle of a frame    *)
(* too; its TcpConnection goes, with the input buffer.                      *)
HandleCloseFaulty ==   \* what is in the input buffer is kept
    /\ connection_ # null /\ ~onMessage
    /\ connection_' = null /\ hungUp' = FALSE
    /\ wire' = [wire EXCEPT ![connection_] = <<>>]
    /\ UNCHANGED <<server, listVars, sendVars, inputBuffer, onMessage, last, queueVars,
                   displayVars>>

HandleClose ==
    /\ connection_ # null /\ ~onMessage
    /\ connection_' = null /\ hungUp' = FALSE /\ inputBuffer' = <<>>
    /\ wire' = [wire EXCEPT ![connection_] = <<>>]
    /\ UNCHANGED <<server, listVars, sendVars, onMessage, last, queueVars, displayVars>>

(* A read of some of the pieces on their way.                               *)
Receive(n) ==
    /\ connection_ # null /\ ~onMessage /\ n <= Len(wire[connection_])
    /\ inputBuffer' = inputBuffer \o SubSeq(wire[connection_], 1, n)
    /\ wire' = [wire EXCEPT ![connection_] = SubSeq(@, n + 1, Len(@))]
    /\ onMessage' = TRUE
    /\ UNCHANGED <<server, listVars, sendVars, connection_, hungUp, last, queueVars, displayVars>>

-----------------------------------------------------------------------------
(* LengthHeaderCodec::onMessage with onStringMessage as its callback.       *)

HeaderReadable == onMessage /\ inputBuffer # <<>>

(* Where no frame begins, any length may be read.                           *)
Lengths == IF Head(inputBuffer).part = 1 THEN {Parts} ELSE 1 .. Parts
InvalidLength == inputBuffer # <<>> /\ Head(inputBuffer).frame \in TooLong

MessageOf(pieces) ==
    IF pieces = Pieces(pieces[1].frame) THEN pieces[1].frame ELSE Garbled

NeedMore ==
    /\ onMessage
    /\ inputBuffer = <<>> \/ (~InvalidLength /\ Len(inputBuffer) < Parts)
    /\ onMessage' = FALSE
    /\ UNCHANGED <<server, listVars, sendVars, wire, connection_, hungUp, inputBuffer,
                   last, queueVars, displayVars>>

Shutdown ==
    /\ HeaderReadable /\ InvalidLength
    /\ hungUp' = TRUE /\ onMessage' = FALSE
    /\ UNCHANGED <<server, listVars, sendVars, wire, connection_, inputBuffer, last,
                   queueVars, displayVars>>

Fits == bytes + 1 <= Capacity

(* push, whose result nobody looks at.                                      *)
Push(message) ==
    \/ Fits /\ Fifo!Put(message) /\ UNCHANGED rejected
    \/ ~Fits /\ rejected' = message /\ UNCHANGED <<queue, bytes>>

Deliver(n) ==
    /\ HeaderReadable /\ ~InvalidLength /\ n \in Lengths /\ n <= Len(inputBuffer)
    /\ last' = MessageOf(SubSeq(inputBuffer, 1, n))
    /\ inputBuffer' = SubSeq(inputBuffer, n + 1, Len(inputBuffer))
    /\ Push(last')
    /\ UNCHANGED <<server, listVars, sendVars, wire, connection_, hungUp, onMessage, displayVars>>

(* The display thread takes the oldest image and shows it.                  *)
Show ==
    /\ Fifo!Take /\ shown' = Head(queue)
    /\ UNCHANGED <<server, listVars, sendVars, wire, clientVars, rejected, client, skipped>>

(* What holds no complete JPEG may decode to an empty matrix: it is skipped *)
(* and the window stays as it is.                                           *)
Skip ==
    /\ Fifo!Take /\ Head(queue) \notin Complete /\ skipped' = Head(queue)
    /\ UNCHANGED <<server, listVars, sendVars, wire, clientVars, rejected, client, shown>>

(* Or imdecode, which is told a length that the image does not have, reads  *)
(* past its end and the client dies, with its queue and its connection.     *)
ClientDies ==
    /\ queue # <<>> /\ Head(queue) \notin Complete /\ client' = "dead"
    /\ queue' = <<>> /\ bytes' = 0
    /\ connection_' = null /\ hungUp' = FALSE /\ inputBuffer' = <<>> /\ onMessage' = FALSE
    /\ wire' = IF connection_ = null THEN wire ELSE [wire EXCEPT ![connection_] = <<>>]
    /\ UNCHANGED <<server, listVars, sendVars, last, rejected, shown, skipped>>

-----------------------------------------------------------------------------
Round == RoundEnds \/ \E c \in Conn : Send(c)
ServerLoop == \E c \in Conn : Accept(c) \/ ServerClose(c)
Codec == NeedMore \/ Shutdown \/ \E n \in 1 .. Parts : Deliver(n)
Display == Show \/ Skip \/ ClientDies
Reads == \E n \in 1 .. Len(wire[connection_]) : Receive(n)
EndRead == (server = "crashed" \/ serverEnd[connection_] = "closed") /\ HandleClose

Idle == connection_ = null /\ UNCHANGED vars   \* until the client connects, or for good

Next ==
    \/ Capture \/ Round \/ ServerLoop \/ Crash
    \/ \E c \in Conn : Connect(c)
    \/ HandleClose \/ (connection_ # null /\ Reads) \/ Codec \/ Display
    \/ Idle

Spec == Init /\ [][Next]_vars

(* A round that stays defined ends, both loops handle what they find, TCP   *)
(* delivers, and the display thread goes on.  A running server is reached   *)
(* by one of the retries.  Nothing makes the camera deliver.                *)
Fairness ==
    /\ WF_vars(~overlap /\ \E c \in toSend : Send(c)) /\ WF_vars(RoundEnds)
    /\ WF_vars(\E c \in Conn : Accept(c)) /\ \A c \in Conn : WF_vars(ServerClose(c))
    /\ WF_vars(\E c \in Conn : Connect(c))
    /\ WF_vars(connection_ # null /\ EndRead)
    /\ WF_vars(connection_ # null /\ Reads) /\ WF_vars(Codec) /\ WF_vars(Display)

FairSpec == Spec /\ Fairness

-----------------------------------------------------------------------------
Piece == [frame : Frame, part : 1 .. Parts]

TypeOK ==
    /\ server \in {"running", "crashed"}
    /\ serverEnd \in [Conn -> {"new", "backlog", "listed", "closed"}]
    /\ {round, overlap, undefined, hungUp, onMessage} \subseteq BOOLEAN
    /\ captured \in 0 .. MaxFrames /\ toSend \subseteq Conn
    /\ wire \in [Conn -> Seq(Piece)] /\ inputBuffer \in Seq(Piece)
    /\ connection_ \in Conn \cup {null}
    /\ queue \in Seq(Frame \cup {Garbled}) /\ bytes \in 0 .. Capacity
    /\ client \in {"running", "dead"}
    /\ {shown, last, rejected, skipped} \subseteq 0 .. MaxFrames

(* Across lost connections, reconnects in the middle of a frame, hang-ups   *)
(* and undefined rounds, the viewer sees whole captured frames, and none    *)
(* older than the one before.                                               *)
Feed == INSTANCE VideoFeed
ImplementsFeed == Feed!Spec

(* On one connection no frame is missing between two messages, as long as   *)
(* the list was left alone during the rounds.                               *)
NoGapOnAConnection ==
    [][~undefined /\ connection_' = connection_ /\ last # 0 /\ last' # last
         => last' = last + 1]_vars

(* A frame captured while the client is in the list comes to the window,    *)
(* unless the queue is full, the connection is lost, a round was undefined, *)
(* or its turn comes and it is no complete JPEG; such a frame may also take *)
(* the client with it, and all that was queued behind.                      *)
FrameArrives ==
    \A c \in Conn, f \in Frame :
        captured = f /\ round /\ c \in toSend /\ connection_ = c
          ~> (\/ shown = f \/ rejected = f \/ connection_ # c \/ undefined
              \/ f \notin Complete /\ skipped = f)

(* A frame above the limit costs the client its connection, but not the     *)
(* stream: it always gets another connection, if it lives.                  *)
ComesBack ==
    hungUp ~> (\/ connection_ # null /\ ~hungUp
               \/ server = "crashed" \/ client = "dead" \/ Made = Conn)
=============================================================================
