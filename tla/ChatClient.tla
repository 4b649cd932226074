----------------------------- MODULE ChatClient -----------------------------
(***************************************************************************)
(* The client's connection (client/client.cc) and the part of muduo's      *)
(* TcpClient and event loop under it.  The loop thread connects, retries,  *)
(* and calls onConnection when a connection comes up or goes down; other   *)
(* threads call write and disconnect.  connection_ is shared under mutex_, *)
(* but what write leaves behind in the loop's queue is a functor with a    *)
(* raw pointer.  The process as main starts it only connects; its calls of *)
(* write and disconnect are commented out or never reached.                *)
(***************************************************************************)
EXTENDS Integers, Sequences

CONSTANTS Caller,    \* the threads that call write and disconnect
          none,      \* no thread; the null pointer is connection 0
          MaxConn,   \* bound: how many connections are made
          MaxWrites  \* bound: how often write is called

ASSUME ClientAssumption ==
    none \notin Caller /\ {MaxConn, MaxWrites} \subseteq Nat

Conn == 1 .. MaxConn
null == 0

VARIABLES
    connect_,        \* TcpClient::connect_: nobody has disconnected
    connector,       \* "connecting", waiting to "retry", or "idle"
    tcpConnection,   \* TcpClient::connection_
    connection_,     \* ChatClient::connection_
    mutex_,          \* ChatClient::mutex_: the thread in write, if any
    connState,       \* TcpConnection::state_ of each connection
    destroyed,       \* the connections whose object has been freed
    loopPc,          \* where the loop thread is
    pendingFunctors, \* EventLoop::pendingFunctors_
    batch, ran,      \* the functors left to run, and those of connectDestroyed run
    callerPc, ptr,   \* where each caller is, and the raw pointer it holds
    message, writes, \* the message it writes, numbered by the calls of write
    written          \* the messages written to each connection

connectorVars == <<connect_, connector, tcpConnection>>
connVars == <<connState, destroyed>>
loopVars == <<loopPc, batch, ran>>
callerVars == <<callerPc, ptr, message, writes>>
vars == <<connectorVars, connection_, mutex_, connVars, loopVars,
          pendingFunctors, callerVars, written>>

(* The constructor, enableRetry and connect().                              *)
Init ==
    /\ connect_ = TRUE /\ connector = "connecting" /\ tcpConnection = null
    /\ connection_ = null /\ mutex_ = none
    /\ connState = [c \in Conn |-> "new"] /\ destroyed = {}
    /\ loopPc = "poll" /\ pendingFunctors = <<>> /\ batch = <<>> /\ ran = {}
    /\ callerPc = [p \in Caller |-> "idle"] /\ ptr = [p \in Caller |-> null]
    /\ message = [p \in Caller |-> 0] /\ writes = 0
    /\ written = [c \in Conn |-> <<>>]

-----------------------------------------------------------------------------
(* The loop thread: muduo's connector and TcpClient.                        *)

Connects(c) ==
    /\ loopPc = "poll" /\ connector = "connecting"
    /\ connState[c] = "new" /\ \A d \in Conn : d < c => connState[d] # "new"
    /\ connState' = [connState EXCEPT ![c] = "kConnected"]
    /\ tcpConnection' = c /\ connector' = "idle" /\ loopPc' = "up"
    /\ UNCHANGED <<connect_, connection_, mutex_, destroyed, batch, ran,
                   pendingFunctors, callerVars, written>>

ConnectFails ==
    /\ loopPc = "poll" /\ connector = "connecting" /\ connector' = "retry"
    /\ UNCHANGED <<connect_, tcpConnection, connection_, mutex_, connVars, loopVars,
                   pendingFunctors, callerVars, written>>

Retry ==
    /\ loopPc = "poll" /\ connector = "retry" /\ connector' = "connecting"
    /\ UNCHANGED <<connect_, tcpConnection, connection_, mutex_, connVars, loopVars,
                   pendingFunctors, callerVars, written>>

(* The read finds that the server is gone; handleClose calls onConnection.  *)
HandleClose ==
    /\ loopPc = "poll" /\ tcpConnection # null
    /\ connState' = [connState EXCEPT ![tcpConnection] = "kDisconnected"]
    /\ loopPc' = "down"
    /\ UNCHANGED <<connectorVars, connection_, mutex_, destroyed, batch, ran,
                   pendingFunctors, callerVars, written>>

(* ChatClient::onConnection waits for the mutex and then asks again whether *)
(* the connection is up; a disconnect may have come in between.             *)
onConnectionFaulty ==   \* connection_ is never reset
    /\ mutex_ = none /\ loopPc \in {"up", "down"}
    /\ connection_' = IF connState[tcpConnection] = "kConnected" THEN tcpConnection ELSE connection_
    /\ loopPc' = IF loopPc = "up" THEN "poll" ELSE "remove"
    /\ UNCHANGED <<connectorVars, mutex_, connVars, batch, ran, pendingFunctors,
                   callerVars, written>>

onConnection ==
    /\ mutex_ = none /\ loopPc \in {"up", "down"}
    /\ connection_' = IF connState[tcpConnection] = "kConnected" THEN tcpConnection ELSE null
    /\ loopPc' = IF loopPc = "up" THEN "poll" ELSE "remove"
    /\ UNCHANGED <<connectorVars, mutex_, connVars, batch, ran, pendingFunctors,
                   callerVars, written>>

(* TcpClient::removeConnection, under TcpClient's own mutex.                *)
DestroyFunctor(c) == [do |-> "destroy", conn |-> c]
Disconnecting == \E p \in Caller : callerPc[p] = "shutdown"

RestartFaulty == "idle"   \* enableRetry is not called
Restart == IF connect_ THEN "connecting" ELSE "idle"

Remove ==
    /\ loopPc = "remove" /\ ~Disconnecting
    /\ tcpConnection' = null /\ connector' = Restart
    /\ pendingFunctors' = Append(pendingFunctors, DestroyFunctor(tcpConnection))
    /\ loopPc' = "poll"
    /\ UNCHANGED <<connect_, connection_, mutex_, connVars, batch, ran, callerVars, written>>

-----------------------------------------------------------------------------
(* EventLoop::doPendingFunctors.                                            *)
TakeBatch ==
    /\ loopPc = "poll" /\ pendingFunctors # <<>>
    /\ batch' = pendingFunctors /\ pendingFunctors' = <<>> /\ loopPc' = "functors"
    /\ UNCHANGED <<connectorVars, connection_, mutex_, connVars, ran, callerVars, written>>

RunFunctor ==
    /\ loopPc = "functors" /\ batch # <<>>
    /\ batch' = Tail(batch)
    /\ LET f == Head(batch) IN
         /\ ran' = IF f.do = "destroy" THEN ran \cup {f.conn} ELSE ran
         /\ written' = IF f.do = "send" /\ connState[f.conn] # "kDisconnected"
                         THEN [written EXCEPT ![f.conn] = Append(@, f.message)]
                         ELSE written
    /\ UNCHANGED <<connectorVars, connection_, mutex_, connVars, loopPc, pendingFunctors,
                   callerVars>>

(* The functors are freed, with the connections that nothing else owns.     *)
FreeBatch ==
    /\ loopPc = "functors" /\ batch = <<>>
    /\ destroyed' = destroyed \cup (ran \ {connection_, tcpConnection}) /\ ran' = {}
    /\ loopPc' = "poll"
    /\ UNCHANGED <<connectorVars, connection_, mutex_, connState, batch, pendingFunctors,
                   callerVars, written>>

-----------------------------------------------------------------------------
(* ChatClient::write: connection_ and the state of the connection are       *)
(* looked at, and the send is queued, while the mutex is held.              *)

Idle(p) == callerPc[p] = "idle"
GoTo(p, pc) == callerPc' = [callerPc EXCEPT ![p] = pc]

WriteLockFaulty(p) ==   \* the mutex is not taken
    /\ Idle(p) /\ mutex_' = mutex_ /\ writes < MaxWrites
    /\ GoTo(p, "look")
    /\ writes' = writes + 1 /\ message' = [message EXCEPT ![p] = writes']
    /\ UNCHANGED <<connectorVars, connection_, connVars, loopVars, pendingFunctors,
                   ptr, written>>

WriteLock(p) ==
    /\ Idle(p) /\ mutex_ = none /\ mutex_' = p /\ writes < MaxWrites
    /\ GoTo(p, "look")
    /\ writes' = writes + 1 /\ message' = [message EXCEPT ![p] = writes']
    /\ UNCHANGED <<connectorVars, connection_, connVars, loopVars, pendingFunctors,
                   ptr, written>>

WriteLook(p) ==
    /\ callerPc[p] = "look"
    /\ IF connection_ = null THEN GoTo(p, "idle") /\ mutex_' = none /\ UNCHANGED ptr
       ELSE GoTo(p, "check") /\ ptr' = [ptr EXCEPT ![p] = connection_] /\ UNCHANGED mutex_
    /\ UNCHANGED <<connectorVars, connection_, connVars, loopVars, pendingFunctors,
                   message, writes, written>>

WriteCheck(p) ==
    /\ callerPc[p] = "check"
    /\ IF connState[ptr[p]] = "kConnected" THEN GoTo(p, "queue") /\ UNCHANGED mutex_
                                           ELSE GoTo(p, "idle") /\ mutex_' = none
    /\ UNCHANGED <<connectorVars, connection_, connVars, loopVars, pendingFunctors, ptr,
                   message, writes, written>>

SendFunctor(p) == [do |-> "send", conn |-> ptr[p], message |-> message[p]]

WriteQueue(p) ==
    /\ callerPc[p] = "queue" /\ GoTo(p, "idle") /\ mutex_' = none
    /\ pendingFunctors' = Append(pendingFunctors, SendFunctor(p))
    /\ UNCHANGED <<connectorVars, connection_, connVars, loopVars, ptr, message, writes, written>>

(* ChatClient::disconnect, once: TcpClient::disconnect looks at the state   *)
(* and then sets it, while the loop thread may set it too.                  *)
Disconnect(p) ==
    /\ Idle(p) /\ connect_ /\ connect_' = FALSE
    /\ IF tcpConnection # null /\ connState[tcpConnection] = "kConnected"
         THEN GoTo(p, "shutdown") /\ ptr' = [ptr EXCEPT ![p] = tcpConnection]
         ELSE UNCHANGED <<callerPc, ptr>>
    /\ UNCHANGED <<connector, tcpConnection, connection_, mutex_, connVars, loopVars,
                   pendingFunctors, message, writes, written>>

ShutdownFunctor(c) == [do |-> "shutdown", conn |-> c]

Shutdown(p) ==
    /\ callerPc[p] = "shutdown" /\ GoTo(p, "idle")
    /\ connState' = [connState EXCEPT ![ptr[p]] = "kDisconnecting"]
    /\ pendingFunctors' = Append(pendingFunctors, ShutdownFunctor(ptr[p]))
    /\ UNCHANGED <<connectorVars, connection_, mutex_, destroyed, loopVars, ptr,
                   message, writes, written>>

-----------------------------------------------------------------------------
Loop == onConnection \/ Remove \/ TakeBatch \/ RunFunctor \/ FreeBatch
InCall(p) == WriteLook(p) \/ WriteCheck(p) \/ WriteQueue(p) \/ Shutdown(p)

(* Nobody calls, and the loop waits in poll.                                *)
Wait == loopPc = "poll" /\ UNCHANGED vars

Next ==
    \/ \E c \in Conn : Connects(c)
    \/ ConnectFails \/ Retry \/ HandleClose \/ Loop \/ Wait
    \/ \E p \in Caller : WriteLock(p) \/ Disconnect(p) \/ InCall(p)

Spec == Init /\ [][Next]_vars

(* The loop finishes what it handles, a call returns and a timer expires.   *)
(* Nothing makes the server accept, or stay.                                *)
FairSpec ==
    Spec /\ WF_vars(Loop) /\ WF_vars(Retry) /\ \A p \in Caller : WF_vars(InCall(p))

-----------------------------------------------------------------------------
Functor == [do : {"send"}, conn : Conn, message : 1 .. MaxWrites]
           \cup [do : {"destroy", "shutdown"}, conn : Conn]

TypeOK ==
    /\ connect_ \in BOOLEAN /\ connector \in {"connecting", "retry", "idle"}
    /\ tcpConnection \in Conn \cup {null} /\ connection_ \in {null, tcpConnection}
    /\ mutex_ \in Caller \cup {none}
    /\ connState \in [Conn -> {"new", "kConnected", "kDisconnecting", "kDisconnected"}]
    /\ destroyed \subseteq Conn /\ ran \subseteq Conn
    /\ loopPc \in {"poll", "up", "down", "remove", "functors"}
    /\ pendingFunctors \in Seq(Functor) /\ batch \in Seq(Functor)
    /\ callerPc \in [Caller -> {"idle", "look", "check", "queue", "shutdown"}]
    /\ ptr \in [Caller -> Conn \cup {null}]
    /\ message \in [Caller -> 0 .. MaxWrites] /\ writes \in 0 .. MaxWrites
    /\ written \in [Conn -> Seq(1 .. MaxWrites)]

Functors == {batch[i] : i \in 1 .. Len(batch)}
            \cup {pendingFunctors[i] : i \in 1 .. Len(pendingFunctors)}

(* The raw pointers are good: neither a caller nor a functor that may still *)
(* run refers to a connection that has been freed.                          *)
NoDanglingPointer ==
    /\ \A p \in Caller :
           callerPc[p] \in {"check", "queue", "shutdown"} => ptr[p] \in Conn \ destroyed
    /\ \A f \in Functors : f.conn \notin destroyed

(* Messages go out in the order of the calls of write, each once, also when *)
(* the connection changes in between.                                       *)
WrittenInOrder ==
    \A c, d \in Conn : \A i \in 1 .. Len(written[c]), j \in 1 .. Len(written[d]) :
        c < d \/ (c = d /\ i < j) => written[c][i] < written[d][j]

(* Without a connection the client always tries again, until it is told to  *)
(* disconnect.                                                              *)
KeepsTrying == tcpConnection = null ~> (connector = "connecting" \/ ~connect_)

(* A connection that was lost is freed in the end.                          *)
EveryCloseFreed ==
    \A c \in Conn : connState[c] = "kDisconnected" ~> c \in destroyed
=============================================================================
