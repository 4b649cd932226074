----------------------------- MODULE ChatServer -----------------------------
(***************************************************************************)
(* The server's two threads (server/server.cc) and the part of muduo they  *)
(* meet in.  The loop thread accepts and closes connections and keeps      *)
(* connections_; the send thread walks the same std::set, without a lock,  *)
(* for every captured frame and queues the frame for each connection with  *)
(* a raw pointer.  A read that meets a change of the set, an iterator      *)
(* whose node is gone and a connection that was destroyed have no defined  *)
(* effect: the process may die or go on with a stale or a wild value.      *)
(***************************************************************************)
EXTENDS Integers, Sequences

CONSTANTS Conn,      \* the connections, by the address that orders the set
          end,       \* connections_.end()
          none,      \* no connection is being handled
          MaxFrames, \* bound: how many frames the camera delivers
          MaxUndefined \* bound: how many undefined steps the process may survive

ASSUME ServerAssumption ==
    /\ Conn \subseteq Nat /\ end \notin Conn /\ none \notin Conn
    /\ {MaxFrames, MaxUndefined} \subseteq Nat

VARIABLES
    server,          \* "running", or "crashed" by an undefined step
    undefined,       \* history: how many steps had no defined effect
    overlap,         \* history: the list changed during a round of sends
    connections_,    \* ChatServer::connections_
    connState,       \* TcpConnection::state_ of each connection
    halfClosed,      \* those shut down, not yet closed, that can no longer be written to
    destroyed,       \* the connections whose object has been freed
    loopPc, handled, \* where the loop thread is, and with which connection
    pendingFunctors, \* EventLoop::pendingFunctors_
    batch, ran,      \* the functors left to run, and those of connectDestroyed run
    sendPc, it,      \* where the send thread is, and its iterator
    frame,           \* the number of the frame in buf
    written          \* the frames written to each connection

historyVars == <<undefined, overlap>>
connVars == <<connState, halfClosed, destroyed>>
loopVars == <<loopPc, handled, batch, ran>>
sendVars == <<sendPc, it, frame>>
vars == <<server, historyVars, connections_, connVars, loopVars,
          pendingFunctors, sendVars, written>>

(* The states in which a connection is in the list; connected() is the first*)
(* of them only.                                                            *)
Up == {"kConnected", "kDisconnecting"}

Init ==
    /\ server = "running" /\ undefined = 0 /\ overlap = FALSE
    /\ connections_ = {} /\ halfClosed = {} /\ destroyed = {}
    /\ connState = [c \in Conn |-> "new"]
    /\ loopPc = "poll" /\ handled = none
    /\ pendingFunctors = <<>> /\ batch = <<>> /\ ran = {}
    /\ sendPc = "init" /\ it = end /\ frame = 0
    /\ written = [c \in Conn |-> <<>>]

-----------------------------------------------------------------------------
(* The loop thread: onConnection, called by muduo when a connection comes   *)
(* up and when it goes down.  The change of the set takes time.             *)

(* Nothing is ready: the loop waits in poll.                                *)
Poll ==
    /\ loopPc = "poll" /\ pendingFunctors = <<>>
    /\ UNCHANGED <<connections_, connVars, loopVars, pendingFunctors, sendVars, written>>

NewConnection(c) ==
    /\ loopPc = "poll" /\ connState[c] = "new"
    /\ connState' = [connState EXCEPT ![c] = "kConnected"]
    /\ loopPc' = "insert" /\ handled' = c
    /\ UNCHANGED <<connections_, halfClosed, destroyed, batch, ran, pendingFunctors, sendVars,
                   written>>

InsertFaulty ==   \* the connection is not kept
    /\ loopPc = "insert"
    /\ loopPc' = "poll" /\ handled' = none
    /\ UNCHANGED <<connections_, connVars, batch, ran, pendingFunctors, sendVars, written>>

Insert ==
    /\ loopPc = "insert"
    /\ connections_' = connections_ \cup {handled}
    /\ loopPc' = "poll" /\ handled' = none
    /\ UNCHANGED <<connVars, batch, ran, pendingFunctors, sendVars, written>>

(* A header that is no length comes from the client: LengthHeaderCodec reads *)
(* on the server too, and its shutdown leaves the connection in the list.    *)
(* The write end goes down at once, or behind the bytes that wait for it.    *)
Shutdown(c) ==
    /\ loopPc = "poll" /\ connState[c] = "kConnected"
    /\ connState' = [connState EXCEPT ![c] = "kDisconnecting"]
    /\ halfClosed' \in {halfClosed, halfClosed \cup {c}}
    /\ UNCHANGED <<connections_, destroyed, loopVars, pendingFunctors, sendVars, written>>

ShutdownWrite(c) ==
    /\ loopPc = "poll" /\ connState[c] = "kDisconnecting" /\ c \notin halfClosed
    /\ halfClosed' = halfClosed \cup {c}
    /\ UNCHANGED <<connections_, connState, destroyed, loopVars, pendingFunctors, sendVars,
                   written>>

(* The read finds that the client is gone: handleClose sets the state and   *)
(* then calls onConnection.                                                 *)
HandleClose(c) ==
    /\ loopPc = "poll" /\ connState[c] \in Up
    /\ connState' = [connState EXCEPT ![c] = "kDisconnected"] /\ halfClosed' = halfClosed \ {c}
    /\ loopPc' = "erase" /\ handled' = c
    /\ UNCHANGED <<connections_, destroyed, batch, ran, pendingFunctors, sendVars, written>>

EraseFaulty ==   \* onConnection takes every call for a connection that is up
    /\ loopPc = "erase"
    /\ connections_' = connections_ \cup {handled}
    /\ loopPc' = "remove"
    /\ UNCHANGED <<connVars, handled, batch, ran, pendingFunctors, sendVars, written>>

Erase ==
    /\ loopPc = "erase"
    /\ connections_' = connections_ \ {handled}
    /\ loopPc' = "remove"
    /\ UNCHANGED <<connVars, handled, batch, ran, pendingFunctors, sendVars, written>>

(* TcpServer::removeConnection queues connectDestroyed, which owns the      *)
(* connection, behind everything that was queued before.                    *)
Remove ==
    /\ loopPc = "remove"
    /\ pendingFunctors' = Append(pendingFunctors, [do |-> "destroy", conn |-> handled])
    /\ loopPc' = "poll" /\ handled' = none
    /\ UNCHANGED <<connections_, connVars, batch, ran, sendVars, written>>

-----------------------------------------------------------------------------
(* EventLoop::doPendingFunctors: the queue is swapped out, run from front   *)
(* to back, and freed, with the connections its functors own.               *)

TakeBatch ==
    /\ loopPc = "poll" /\ pendingFunctors # <<>>
    /\ batch' = pendingFunctors /\ pendingFunctors' = <<>>
    /\ loopPc' = "functors"
    /\ UNCHANGED <<connections_, connVars, handled, ran, sendVars, written>>

(* The functor of a send holds a raw pointer to its connection.             *)
FunctorUndefined ==
    /\ loopPc = "functors" /\ batch # <<>>
    /\ Head(batch).do = "send" /\ Head(batch).conn \in destroyed

(* TcpConnection::sendInLoop gives up when the connection is closed; behind *)
(* shutdownWrite the write fails.                                           *)
Writable == {c \in Conn : connState[c] \in Up} \ halfClosed

(* Of a freed one it reads any state, and may write with what it finds as   *)
(* descriptor to any socket that is open.                                   *)
StaleDescriptor == {c \in Conn : connState[c] # "new"} \ destroyed

Wrote(targets, f) == {[written EXCEPT ![c] = Append(@, f)] : c \in targets}

SendInLoopFaulty ==   \* the functor refers to buf, not to a copy of it
    /\ loopPc = "functors" /\ batch # <<>> /\ Head(batch).do = "send"
    /\ batch' = Tail(batch)
    /\ written' \in IF Head(batch).conn \in Writable THEN Wrote({Head(batch).conn}, frame)
                                                    ELSE {written}
    /\ UNCHANGED <<connections_, connVars, loopPc, handled, ran, pendingFunctors, sendVars>>

SendInLoop ==
    /\ loopPc = "functors" /\ batch # <<>> /\ Head(batch).do = "send"
    /\ batch' = Tail(batch)
    /\ LET c == Head(batch).conn
           f == Head(batch).frame IN
       written' \in IF FunctorUndefined THEN {written} \cup Wrote(StaleDescriptor, f)
                   ELSE IF c \in Writable THEN Wrote({c}, f) ELSE {written}
    /\ UNCHANGED <<connections_, connVars, loopPc, handled, ran, pendingFunctors, sendVars>>

ConnectDestroyed ==
    /\ loopPc = "functors" /\ batch # <<>> /\ Head(batch).do = "destroy"
    /\ batch' = Tail(batch) /\ ran' = ran \cup {Head(batch).conn}
    /\ UNCHANGED <<connections_, connVars, loopPc, handled, pendingFunctors, sendVars, written>>

(* A connection that is still in the list has an owner there and lives on.  *)
FreeBatch ==
    /\ loopPc = "functors" /\ batch = <<>>
    /\ destroyed' = destroyed \cup (ran \ connections_) /\ ran' = {}
    /\ loopPc' = "poll"
    /\ UNCHANGED <<connections_, connState, halfClosed, handled, batch, pendingFunctors,
                   sendVars, written>>

-----------------------------------------------------------------------------
(* ChatServer::sendThreadFunc.                                              *)

ListChanging == loopPc \in {"insert", "erase"}
InRound == sendPc \in {"begin", "deref", "check", "queue", "next"}
Moved == UNCHANGED <<connections_, connVars, loopVars, written>>

(* cam_init succeeds and the stream is switched on, or the thread returns.  *)
CamInit ==
    /\ sendPc = "init" /\ sendPc' \in {"capture", "returned"}
    /\ Moved /\ UNCHANGED <<it, frame, pendingFunctors>>

(* camera_capture puts the next frame into buf.                             *)
Capture ==
    /\ sendPc = "capture" /\ frame < MaxFrames
    /\ frame' = frame + 1 /\ sendPc' = "begin"
    /\ Moved /\ UNCHANGED <<it, pendingFunctors>>

(* It fails, for now or for ever: the thread yields and tries again.        *)
CaptureFails ==
    /\ sendPc = "capture"
    /\ Moved /\ UNCHANGED <<sendVars, pendingFunctors>>

(* Which reads of the send thread have no defined effect.                   *)
SendUndefined ==
    \/ sendPc = "begin" /\ ListChanging
    \/ sendPc = "deref" /\ (it \notin connections_ \/ (loopPc = "erase" /\ handled = it))
    \/ sendPc \in {"check", "queue"} /\ it \in destroyed
    \/ sendPc = "next" /\ (it \notin connections_ \/ ListChanging)

(* The smallest of the connections S, or the end of the list.               *)
FirstOf(S) == IF S = {} THEN end ELSE CHOOSE c \in S : \A d \in S : c <= d

(* Where an iterator may point that was read while the set changed.         *)
Anywhere == {c \in Conn : connState[c] # "new"} \cup {end}

GoTo(targets) ==
    /\ it' \in targets
    /\ sendPc' = IF it' = end THEN "capture" ELSE "deref"
    /\ Moved /\ UNCHANGED <<frame, pendingFunctors>>

BeginFaulty ==   \* the first iterator is not compared with end()
    /\ sendPc = "begin"
    /\ it' \in IF SendUndefined THEN Anywhere ELSE {FirstOf(connections_)}
    /\ sendPc' = "deref"
    /\ Moved /\ UNCHANGED <<frame, pendingFunctors>>

Begin ==
    /\ sendPc = "begin"
    /\ GoTo(IF SendUndefined THEN Anywhere ELSE {FirstOf(connections_)})

(* get_pointer and the copy of buf; a stale node gives the old pointer.     *)
Deref ==
    /\ sendPc = "deref" /\ sendPc' = "check"
    /\ Moved /\ UNCHANGED <<it, frame, pendingFunctors>>

(* TcpConnection::send looks at the state; a freed one may read as any.     *)
Check ==
    /\ sendPc = "check"
    /\ sendPc' \in IF SendUndefined THEN {"queue", "next"}
                   ELSE {IF connState[it] = "kConnected" THEN "queue" ELSE "next"}
    /\ Moved /\ UNCHANGED <<it, frame, pendingFunctors>>

SendFunctor == [do |-> "send", conn |-> it, frame |-> frame]

(* EventLoop::queueInLoop, under the loop's own mutex.                      *)
Queue ==
    /\ sendPc = "queue" /\ sendPc' = "next"
    /\ pendingFunctors' = Append(pendingFunctors, SendFunctor)
    /\ Moved /\ UNCHANGED <<it, frame>>

AdvanceFaulty ==   \* a return in place of the next turn of the loop
    sendPc = "next" /\ GoTo({end})

(* ++it, and the comparison with end().                                     *)
Advance ==
    /\ sendPc = "next"
    /\ GoTo(IF SendUndefined THEN Anywhere ELSE {FirstOf({c \in connections_ : c > it})})

-----------------------------------------------------------------------------
LoopHandler == Insert \/ Erase \/ Remove
Functors == TakeBatch \/ SendInLoop \/ ConnectDestroyed \/ FreeBatch

LoopThread ==
    /\ \/ Poll
       \/ \E c \in Conn : NewConnection(c) \/ Shutdown(c) \/ ShutdownWrite(c) \/ HandleClose(c)
       \/ LoopHandler \/ Functors
    /\ undefined' = IF FunctorUndefined THEN undefined + 1 ELSE undefined

Round == Begin \/ Deref \/ Check \/ Queue \/ Advance

SendThread ==
    /\ \/ CamInit \/ Capture \/ CaptureFails
       \/ Round
    /\ undefined' = IF SendUndefined THEN undefined + 1 ELSE undefined

(* The threads run until one of them dies of an undefined step.             *)
Run ==
    /\ server = "running" /\ UNCHANGED server
    /\ LoopThread \/ SendThread
    /\ undefined' <= MaxUndefined
    /\ overlap' = (overlap \/ (ListChanging' /\ InRound'))

Crash ==
    /\ server = "running" /\ (SendUndefined \/ FunctorUndefined)
    /\ server' = "crashed" /\ undefined' = undefined + 1
    /\ UNCHANGED <<overlap, connections_, connVars, loopVars, pendingFunctors, sendVars, written>>

Crashed == server = "crashed" /\ UNCHANGED vars

Next == Run \/ Crash \/ Crashed

Spec == Init /\ [][Next]_vars

Continue(A) == Run /\ A

(* The loop finishes what it handles and runs what is queued; the send      *)
(* thread finishes a round it has begun.  Nothing makes the camera deliver, *)
(* or a client come or go.  The last undefined step within the bound is one *)
(* that the process does not survive.                                       *)
Fairness ==
    /\ WF_vars(Continue(LoopHandler)) /\ WF_vars(Continue(Functors))
    /\ WF_vars(Continue(Round)) /\ WF_vars(undefined = MaxUndefined /\ Crash)

FairSpec == Spec /\ Fairness

-----------------------------------------------------------------------------
Functor == [do : {"send"}, conn : Conn, frame : 1 .. MaxFrames]
           \cup [do : {"destroy"}, conn : Conn]

TypeOK ==
    /\ server \in {"running", "crashed"}
    /\ undefined \in 0 .. MaxUndefined + 1 /\ overlap \in BOOLEAN
    /\ connections_ \subseteq Conn /\ destroyed \subseteq Conn /\ ran \subseteq Conn
    /\ connState \in [Conn -> {"new", "kConnected", "kDisconnecting", "kDisconnected"}]
    /\ halfClosed \subseteq {c \in Conn : connState[c] = "kDisconnecting"}
    /\ loopPc \in {"poll", "insert", "erase", "remove", "functors"}
    /\ handled \in Conn \cup {none}
    /\ pendingFunctors \in Seq(Functor) /\ batch \in Seq(Functor)
    /\ sendPc \in {"init", "returned", "capture", "begin", "deref", "check", "queue", "next"}
    /\ it \in Conn \cup {end} /\ frame \in 0 .. MaxFrames
    /\ sendPc \in {"deref", "check", "queue", "next"} => it \in Conn
    /\ written \in [Conn -> Seq(1 .. MaxFrames)]

(* Outside onConnection, the list holds exactly the connections that have   *)
(* come up and are not closed: also one that the codec has shut down, which *)
(* every round visits and send passes over until its client goes.           *)
ListIsConnected ==
    loopPc \in {"poll", "functors"} => connections_ = {c \in Conn : connState[c] \in Up}

(* The missing lock and the raw pointers do harm only when a client comes   *)
(* or goes during a round of sends: a send that was queued before its       *)
(* client left still finds the connection alive.                            *)
UndefinedOnlyOnOverlap == undefined > 0 => overlap

(* As long as every step was defined, a client gets the frames without a    *)
(* gap and without a repetition from the first one it gets.                 *)
FramesConsecutive ==
    undefined = 0 => \A c \in Conn : \A i \in 2 .. Len(written[c]) :
                      written[c][i] = written[c][i - 1] + 1

(* Whatever the threads do to each other, what a client gets is captured    *)
(* frames that never go back.  Steps that are defined write only to         *)
(* connections that are up, and short of an undefined one without a gap.    *)
Broadcast == INSTANCE FrameBroadcast WITH defined <- undefined = 0
ImplementsBroadcast == Broadcast!Spec

(* Every connection that closes is freed in the end: neither the list nor a *)
(* functor keeps it alive.                                                  *)
EveryCloseFreed ==
    \A c \in Conn :
        connState[c] = "kDisconnected" ~> (c \in destroyed \/ server = "crashed")

(* A frame captured while a client is in the list is written to it, unless  *)
(* the client goes first, was shut down for a bad header, or a step had no  *)
(* defined effect.                                                          *)
EveryFrameWritten ==
    \A c \in Conn, f \in 1 .. MaxFrames :
        sendPc = "begin" /\ frame = f /\ c \in connections_
          ~> (\/ \E i \in 1 .. Len(written[c]) : written[c][i] = f
              \/ connState[c] # "kConnected" \/ undefined > 0)
=============================================================================

