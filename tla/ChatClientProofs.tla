-------------------------- MODULE ChatClientProofs --------------------------
(***************************************************************************)
(* Proofs about the client's connection, for any number of callers,        *)
(* connections and writes.  Everything rests on the order of the loop's    *)
(* queue: the functor that destroys a connection is queued after           *)
(* connection_ was reset under the mutex, so that a send queued under the  *)
(* mutex stands before it.                                                 *)
(***************************************************************************)
EXTENDS ChatClient, SequenceTheorems, TLAPS

Queue == batch \o pendingFunctors

(* A caller in write has the mutex, and the newest message; once it has     *)
(* looked at connection_, its pointer is the connection.                    *)
MutexHeld ==
    \A p \in Caller :
        /\ callerPc[p] \in {"look", "check", "queue"} <=> mutex_ = p
        /\ mutex_ = p => message[p] = writes /\ writes > 0

PtrCurrent ==
    \A p \in Caller :
        /\ callerPc[p] \in {"check", "queue"} => ptr[p] = connection_ /\ connection_ # null
        /\ callerPc[p] = "shutdown" => ptr[p] = tcpConnection /\ tcpConnection # null

ConnectorState ==
    /\ connector # "idle" => tcpConnection = null
    /\ loopPc \in {"up", "down", "remove"} => tcpConnection # null
    /\ loopPc = "down" => connState[tcpConnection] # "kConnected"
    /\ loopPc = "remove" => connection_ = null
    /\ loopPc # "functors" => batch = <<>>
    /\ \A c \in Conn : tcpConnection # null /\ tcpConnection < c => connState[c] = "new"
    /\ \A c, d \in Conn : c < d /\ connState[c] = "new" => connState[d] = "new"
    /\ tcpConnection # null => connState[tcpConnection] # "new"

Control == TypeOK /\ MutexHeld /\ PtrCurrent /\ ConnectorState

-----------------------------------------------------------------------------
(* The state that is not the queue: one step per action.                    *)
LEMMA FunctorTypes ==
    /\ \A c \in Conn : DestroyFunctor(c) \in Functor /\ ShutdownFunctor(c) \in Functor
    /\ \A p \in Caller : ptr[p] \in Conn /\ message[p] \in 1 .. MaxWrites => SendFunctor(p) \in Functor
    /\ \A f \in Functor : f.conn \in Conn /\ f.do \in {"send", "destroy", "shutdown"}
                          /\ (f.do = "send" => f.message \in 1 .. MaxWrites)
  BY DEF DestroyFunctor, ShutdownFunctor, SendFunctor, Functor

LEMMA InitControl == Init => Control
  <1> SUFFICES ASSUME Init PROVE Control
    OBVIOUS
  <1>1. <<>> \in Seq(Functor) /\ <<>> \in Seq(1 .. MaxWrites)
    BY EmptySeq
  <1> QED
    BY <1>1, ClientAssumption
       DEF Init, Control, TypeOK, MutexHeld, PtrCurrent, ConnectorState, Conn, null

LEMMA ControlStep ==
    ASSUME Control, [Next]_vars
    PROVE  Control'
  <1> USE ClientAssumption DEF Control, MutexHeld, PtrCurrent, ConnectorState, null
  <1>1. ASSUME NEW c \in Conn, Connects(c) PROVE Control'
    BY <1>1 DEF Connects, TypeOK, connVars, callerVars, Conn
  <1>2. CASE ConnectFails
    BY <1>2 DEF ConnectFails, TypeOK, connVars, loopVars, callerVars
  <1>3. CASE Retry
    BY <1>3 DEF Retry, TypeOK, connVars, loopVars, callerVars
  <1>4. CASE HandleClose
    BY <1>4 DEF HandleClose, TypeOK, connectorVars, callerVars, Conn
  <1>5. CASE onConnection
    <2>1. /\ connection_' \in {null, tcpConnection'} /\ loopPc' \in {"poll", "remove"}
          /\ loopPc' = "remove" => connection_' = null
      BY <1>5 DEF onConnection, TypeOK, connectorVars
    <2>2. mutex_ = none
      BY <1>5 DEF onConnection
    <2>3. UNCHANGED <<connectorVars, mutex_, connVars, batch, ran, pendingFunctors, callerVars,
                      written>>
      BY <1>5 DEF onConnection
    <2> QED
      BY <1>5, <2>1, <2>2, <2>3 DEF onConnection, TypeOK, connectorVars, connVars, callerVars
  <1>6. CASE Remove
    <2>1. pendingFunctors' \in Seq(Functor)
      BY <1>6, FunctorTypes, AppendProperties DEF Remove, TypeOK
    <2> QED
      BY <1>6, <2>1 DEF Remove, Restart, Disconnecting, TypeOK, connVars, callerVars
  <1>7. CASE TakeBatch
    BY <1>7, EmptySeq DEF TakeBatch, TypeOK, connectorVars, connVars, callerVars
  <1>8. CASE RunFunctor
    <2> DEFINE f == Head(batch)
    <2>1. f \in Functor /\ batch' \in Seq(Functor)
      BY <1>8, HeadTailProperties, EmptySeq DEF RunFunctor, TypeOK
    <2>2. f.conn \in Conn /\ (f.do = "send" => f.message \in 1 .. MaxWrites)
      BY <2>1, FunctorTypes
    <2> HIDE DEF f
    <2>3. ran' \subseteq Conn
      BY <1>8, <2>2 DEF RunFunctor, TypeOK, f
    <2>4. written' \in [Conn -> Seq(1 .. MaxWrites)]
      <3>1. f.do = "send" => Append(written[f.conn], f.message) \in Seq(1 .. MaxWrites)
        BY <2>2, AppendProperties DEF TypeOK
      <3> QED
        BY <1>8, <2>2, <3>1 DEF RunFunctor, TypeOK, f
    <2> QED
      BY <1>8, <2>1, <2>3, <2>4 DEF RunFunctor, TypeOK, connectorVars, connVars, callerVars
  <1>9. CASE FreeBatch
    BY <1>9 DEF FreeBatch, TypeOK, connectorVars, callerVars
  <1>10. ASSUME NEW p \in Caller, WriteLock(p) PROVE Control'
    BY <1>10 DEF WriteLock, Idle, GoTo, TypeOK, connectorVars, connVars, loopVars
  <1>11. ASSUME NEW p \in Caller, Disconnect(p) PROVE Control'
    <2>1. /\ p \in Caller /\ callerPc[p] = "idle" /\ connect_' = FALSE
          /\ UNCHANGED <<connector, tcpConnection, connection_, mutex_, connVars, loopVars,
                         pendingFunctors, message, writes, written>>
      BY <1>11 DEF Disconnect, Idle
    <2>2. ConnectorState'
      BY <2>1 DEF connVars, loopVars
    <2>3. CASE UNCHANGED <<callerPc, ptr>>
      BY <2>1, <2>2, <2>3 DEF TypeOK, connVars, loopVars
    <2>4. CASE /\ tcpConnection # null
               /\ callerPc' = [callerPc EXCEPT ![p] = "shutdown"]
               /\ ptr' = [ptr EXCEPT ![p] = tcpConnection]
      <3>1. TypeOK'
        BY <2>1, <2>4 DEF TypeOK, connVars, loopVars
      <3>2. MutexHeld'
        BY <2>1, <2>4 DEF TypeOK
      <3>3. PtrCurrent'
        BY <2>1, <2>4 DEF TypeOK
      <3> QED
        BY <2>2, <3>1, <3>2, <3>3
    <2> QED
      BY <1>11, <2>3, <2>4 DEF Disconnect, GoTo
  <1>12. ASSUME NEW p \in Caller, WriteLook(p) PROVE Control'
    <2>1. /\ p \in Caller /\ callerPc[p] = "look" /\ connection_ \in Conn \cup {null}
          /\ UNCHANGED <<connectorVars, connection_, connVars, loopVars, pendingFunctors,
                         message, writes, written>>
      BY <1>12 DEF WriteLook, TypeOK
    <2>2. CASE connection_ = null
      BY <1>12, <2>1, <2>2 DEF WriteLook, GoTo, TypeOK, connectorVars, connVars, loopVars
    <2>3. CASE connection_ # null
      <3>1. /\ callerPc' = [callerPc EXCEPT ![p] = "check"]
            /\ ptr' = [ptr EXCEPT ![p] = connection_] /\ mutex_' = mutex_
        BY <1>12, <2>3 DEF WriteLook, GoTo
      <3>2. TypeOK'
        BY <2>1, <3>1 DEF TypeOK, connectorVars, connVars, loopVars
      <3>3. MutexHeld'
        BY <2>1, <3>1 DEF TypeOK
      <3>4. PtrCurrent'
        BY <2>1, <2>3, <3>1 DEF TypeOK, connectorVars
      <3>5. ConnectorState'
        BY <2>1 DEF connectorVars, connVars, loopVars
      <3> QED
        BY <3>2, <3>3, <3>4, <3>5
    <2> QED
      BY <2>2, <2>3
  <1>13. ASSUME NEW p \in Caller, WriteCheck(p) PROVE Control'
    <2>1. /\ UNCHANGED <<connectorVars, connection_, connVars, loopVars, pendingFunctors,
                         ptr, message, writes, written>>
          /\ \/ callerPc' = [callerPc EXCEPT ![p] = "queue"] /\ mutex_' = mutex_
             \/ callerPc' = [callerPc EXCEPT ![p] = "idle"] /\ mutex_' = none
          /\ callerPc[p] = "check"
      BY <1>13 DEF WriteCheck, GoTo
    <2>2. TypeOK'
      BY <2>1 DEF TypeOK, connectorVars, connVars, loopVars
    <2>3. MutexHeld'
      BY <2>1, ZenonT(60) DEF TypeOK
    <2>4. PtrCurrent'
      BY <2>1 DEF TypeOK, connectorVars
    <2>5. ConnectorState'
      BY <2>1 DEF connectorVars, connVars, loopVars
    <2> QED
      BY <2>2, <2>3, <2>4, <2>5
  <1>14. ASSUME NEW p \in Caller, WriteQueue(p) PROVE Control'
    <2>1. pendingFunctors' \in Seq(Functor)
      BY <1>14, FunctorTypes, AppendProperties DEF WriteQueue, TypeOK
    <2> QED
      BY <1>14, <2>1 DEF WriteQueue, GoTo, TypeOK, connectorVars, connVars, loopVars
  <1>15. ASSUME NEW p \in Caller, Shutdown(p) PROVE Control'
    <2>1. pendingFunctors' \in Seq(Functor)
      BY <1>15, FunctorTypes, AppendProperties DEF Shutdown, TypeOK
    <2> QED
      BY <1>15, <2>1, SMTT(30) DEF Shutdown, GoTo, TypeOK, connectorVars, loopVars, Conn
  <1>16. CASE UNCHANGED vars
    BY <1>16 DEF vars, TypeOK, connectorVars, connVars, loopVars, callerVars
  <1> QED
    BY <1>1, <1>2, <1>3, <1>4, <1>5, <1>6, <1>7, <1>8, <1>9, <1>10, <1>11, <1>12, <1>13,
       <1>14, <1>15, <1>16 DEF Next, Loop, InCall, Wait

-----------------------------------------------------------------------------
(* The queue of functors.                                                   *)

Gone == destroyed \cup ran

(* Behind the functor that destroys a connection nothing refers to it, and  *)
(* nothing in the queue refers to one that is gone; the connection of now   *)
(* is neither gone nor about to be.                                         *)
QueueSound ==
    /\ \A i, j \in 1 .. Len(Queue) :
           i < j /\ Queue[i].do = "destroy" => Queue[j].conn # Queue[i].conn
    /\ \A i \in 1 .. Len(Queue) :
           /\ Queue[i].conn \notin Gone /\ connState[Queue[i].conn] # "new"
           /\ Queue[i].do = "destroy" => Queue[i].conn # tcpConnection
    /\ \A c \in Gone : connState[c] # "new" /\ c # tcpConnection

(* Sends stand in the queue in the order of the calls of write, behind all  *)
(* that was written, and each for a connection no older than those before.  *)
Sends == {i \in 1 .. Len(Queue) : Queue[i].do = "send"}
IsOlder(m) == m <= writes /\ (mutex_ # none => m < writes)

QueueOrdered ==
    /\ \A i, j \in Sends :
           i < j => Queue[i].message < Queue[j].message /\ Queue[i].conn <= Queue[j].conn
    /\ \A i \in Sends : IsOlder(Queue[i].message)
    /\ \A c \in Conn : \A k \in 1 .. Len(written[c]) :
           /\ IsOlder(written[c][k]) /\ connState[c] # "new"
           /\ \A i \in Sends : written[c][k] < Queue[i].message /\ c <= Queue[i].conn

IInv == Control /\ QueueSound /\ QueueOrdered /\ WrittenInOrder

LEMMA InitInvariant == Init => IInv
  <1> SUFFICES ASSUME Init PROVE IInv
    OBVIOUS
  <1>1. Queue = <<>> /\ Len(Queue) = 0
    BY ConcatEmptySeq, EmptySeq DEF Init, Queue
  <1>2. \A c \in Conn : Len(written[c]) = 0
    BY EmptySeq DEF Init
  <1> QED
    BY <1>1, <1>2, InitControl
       DEF Init, IInv, QueueSound, QueueOrdered, Sends, WrittenInOrder, Gone

(* What each kind of step does to the queue.                                *)
LEMMA QueueKept ==
    UNCHANGED <<batch, pendingFunctors>> => Queue' = Queue
  BY DEF Queue

LEMMA QueueType == Control => Queue \in Seq(Functor)
  BY ConcatProperties DEF Control, TypeOK, Queue

LEMMA QueueGrows ==
    ASSUME Control, NEW f \in Functor, batch' = batch,
           pendingFunctors' = Append(pendingFunctors, f)
    PROVE  /\ Len(Queue') = Len(Queue) + 1 /\ Len(Queue) \in Nat
           /\ \A i \in 1 .. Len(Queue) + 1 :
                  Queue'[i] = IF i = Len(Queue) + 1 THEN f ELSE Queue[i]
  <1>1. batch \in Seq(Functor) /\ pendingFunctors \in Seq(Functor) /\ Queue \in Seq(Functor)
    BY QueueType DEF Control, TypeOK
  <1>2. Queue' = Append(Queue, f)
    <2>1. <<f>> \in Seq(Functor)
      OBVIOUS
    <2>2. Queue' = batch \o (pendingFunctors \o <<f>>)
      BY <1>1, AppendIsConcat DEF Queue
    <2>3. Queue' = (batch \o pendingFunctors) \o <<f>>
      BY <1>1, <2>1, <2>2, ConcatAssociative
    <2> QED
      BY <1>1, <2>3, AppendIsConcat DEF Queue
  <1>3. /\ Len(Queue') = Len(Queue) + 1 /\ Len(Queue) \in Nat
        /\ \A i \in 1 .. Len(Queue) : Queue'[i] = Queue[i]
        /\ Queue'[Len(Queue) + 1] = f
    BY <1>1, <1>2, AppendProperties
  <1>4. \A i \in 1 .. Len(Queue) + 1 : i = Len(Queue) + 1 \/ i \in 1 .. Len(Queue)
    BY <1>3
  <1> QED
    BY <1>3, <1>4

LEMMA QueueMoves ==
    ASSUME Control, TakeBatch
    PROVE  Queue' = Queue
  <1>1. batch = <<>> /\ pendingFunctors \in Seq(Functor)
        /\ batch' = pendingFunctors /\ pendingFunctors' = <<>>
    BY DEF Control, ConnectorState, TypeOK, TakeBatch
  <1> QED
    BY <1>1, ConcatEmptySeq DEF Queue

LEMMA QueueShrinks ==
    ASSUME Control, RunFunctor
    PROVE  /\ Head(batch) = Queue[1] /\ Head(batch) \in Functor
           /\ Len(Queue) \in Nat \ {0} /\ Len(Queue') = Len(Queue) - 1
           /\ \A i \in 1 .. Len(Queue) - 1 : Queue'[i] = Queue[i + 1]
  <1>1. batch \in Seq(Functor) /\ pendingFunctors \in Seq(Functor) /\ batch # <<>>
        /\ batch' = Tail(batch) /\ pendingFunctors' = pendingFunctors
    BY DEF Control, TypeOK, RunFunctor
  <1>2. /\ Head(batch) = batch[1] /\ Head(batch) \in Functor /\ Len(batch) \in Nat \ {0}
        /\ batch' \in Seq(Functor) /\ Len(batch') = Len(batch) - 1
        /\ \A i \in 1 .. Len(batch) - 1 : batch'[i] = batch[i + 1]
    BY <1>1, HeadTailProperties, EmptySeq
  <1>3. /\ Len(pendingFunctors) \in Nat /\ Len(Queue) = Len(batch) + Len(pendingFunctors)
        /\ \A i \in 1 .. Len(batch) + Len(pendingFunctors) :
               Queue[i] = IF i <= Len(batch) THEN batch[i]
                                             ELSE pendingFunctors[i - Len(batch)]
    BY <1>1, ConcatProperties DEF Queue
  <1>4. /\ Len(Queue') = Len(batch') + Len(pendingFunctors)
        /\ \A i \in 1 .. Len(batch') + Len(pendingFunctors) :
               Queue'[i] = IF i <= Len(batch') THEN batch'[i]
                                               ELSE pendingFunctors[i - Len(batch')]
    BY <1>1, <1>2, ConcatProperties DEF Queue
  <1>5. ASSUME NEW i \in 1 .. Len(Queue) - 1
        PROVE  Queue'[i] = Queue[i + 1]
    <2>1. i - Len(batch') = (i + 1) - Len(batch) /\ (i <= Len(batch') <=> i + 1 <= Len(batch))
      BY <1>2, <1>3
    <2>2. i \in 1 .. Len(batch') + Len(pendingFunctors) /\ i + 1 \in 1 .. Len(Queue)
      BY <1>2, <1>3
    <2>3. CASE i <= Len(batch')
      BY <1>2, <1>3, <1>4, <2>1, <2>2, <2>3
    <2>4. CASE ~(i <= Len(batch'))
      BY <1>3, <1>4, <2>1, <2>2, <2>4
    <2> QED
      BY <2>3, <2>4
  <1>6. /\ Queue[1] = batch[1] /\ Len(Queue) \in Nat \ {0}
        /\ Len(Queue') = Len(Queue) - 1
    BY <1>2, <1>3, <1>4
  <1> QED
    BY <1>2, <1>5, <1>6

-----------------------------------------------------------------------------
(* The queue stays sound.  Most steps leave it as it is.                    *)
Opened(c) == connState[c] # "new"

LEMMA SoundKept ==
    ASSUME Control, QueueSound, Queue' = Queue, Gone' \subseteq Gone,
           \A c \in Conn : Opened(c) => Opened(c)',
           \/ tcpConnection' \in {tcpConnection, null}
           \/ tcpConnection' \in Conn /\ ~Opened(tcpConnection')
    PROVE  QueueSound'
  <1>1. /\ Queue \in Seq(Functor) /\ Len(Queue) \in Nat /\ Gone \subseteq Conn
        /\ \A i \in 1 .. Len(Queue) : Queue[i].conn \in Conn
    BY QueueType, ElementOfSeq, FunctorTypes DEF Control, TypeOK, Gone
  <1>2. \A i \in 1 .. Len(Queue) : Queue[i].conn # null
    BY <1>1, ClientAssumption DEF Conn, null
  <1>3. \A c \in Gone : c # null
    BY <1>1, ClientAssumption DEF Conn, null
  <1> QED
    BY <1>1, <1>2, <1>3 DEF QueueSound, Opened

LEMMA SoundGrows ==
    ASSUME Control, QueueSound, NEW f \in Functor, batch' = batch,
           pendingFunctors' = Append(pendingFunctors, f),
           Gone' = Gone, \A c \in Conn : Opened(c) => Opened(c)',
           f.conn = tcpConnection, tcpConnection # null,
           tcpConnection' = IF f.do = "destroy" THEN null ELSE tcpConnection
    PROVE  QueueSound'
  <1>1. /\ Queue \in Seq(Functor) /\ Len(Queue) \in Nat /\ Gone \subseteq Conn
        /\ \A i \in 1 .. Len(Queue) : Queue[i].conn \in Conn
        /\ tcpConnection \in Conn /\ Opened(tcpConnection)
    BY QueueType, ElementOfSeq, FunctorTypes
       DEF Control, TypeOK, Gone, ConnectorState, Opened
  <1>2. /\ Len(Queue') = Len(Queue) + 1
        /\ \A i \in 1 .. Len(Queue) : Queue'[i] = Queue[i]
        /\ Queue'[Len(Queue) + 1] = f
    BY <1>1, QueueGrows
  <1>3. /\ \A i \in 1 .. Len(Queue) : Queue[i].conn # null
        /\ \A c \in Gone : c # null
    BY <1>1, ClientAssumption DEF Conn, null
  <1>4. \A i \in 1 .. Len(Queue') : i \in 1 .. Len(Queue) \/ i = Len(Queue) + 1
    BY <1>1, <1>2
  <1>5. ASSUME NEW i \in 1 .. Len(Queue'), NEW j \in 1 .. Len(Queue'),
               i < j, Queue'[i].do = "destroy"
        PROVE  Queue'[j].conn # Queue'[i].conn
    <2>1. i \in 1 .. Len(Queue)
      BY <1>1, <1>2, <1>5
    <2> QED
      BY <1>2, <1>4, <1>5, <2>1 DEF QueueSound
  <1>6. ASSUME NEW i \in 1 .. Len(Queue')
        PROVE  /\ Queue'[i].conn \notin Gone' /\ connState'[Queue'[i].conn] # "new"
               /\ Queue'[i].do = "destroy" => Queue'[i].conn # tcpConnection'
    <2>1. CASE i \in 1 .. Len(Queue)
      BY <1>1, <1>2, <1>3, <2>1 DEF QueueSound, Opened
    <2>2. CASE i = Len(Queue) + 1
      BY <1>1, <1>2, <2>2, ClientAssumption DEF QueueSound, Opened, Conn, null
    <2> QED
      BY <1>4, <2>1, <2>2
  <1>7. \A c \in Gone' : Opened(c)' /\ c # tcpConnection'
    BY <1>1, <1>3 DEF QueueSound, Opened
  <1> QED
    BY <1>5, <1>6, <1>7 DEF QueueSound, Opened

LEMMA SoundShrinks ==
    ASSUME Control, QueueSound, RunFunctor
    PROVE  QueueSound'
  <1>1. /\ Head(batch) = Queue[1] /\ Len(Queue) \in Nat \ {0}
        /\ Len(Queue') = Len(Queue) - 1
        /\ \A i \in 1 .. Len(Queue) - 1 : Queue'[i] = Queue[i + 1]
    BY QueueShrinks
  <1>2. /\ Gone' = IF Queue[1].do = "destroy" THEN Gone \cup {Queue[1].conn} ELSE Gone
        /\ UNCHANGED <<tcpConnection, connState>>
    BY <1>1 DEF RunFunctor, Gone, connectorVars, connVars
  <1>3. \A i \in 1 .. Len(Queue) - 1 : i + 1 \in 1 .. Len(Queue) /\ 1 < i + 1
    BY <1>1
  <1>4. 1 \in 1 .. Len(Queue)
    BY <1>1
  <1>5. \A i, j \in 1 .. Len(Queue) - 1 : i < j => i + 1 < j + 1
    BY <1>1
  <1>6. \A i, j \in 1 .. Len(Queue') :
            i < j /\ Queue'[i].do = "destroy" => Queue'[j].conn # Queue'[i].conn
    BY <1>1, <1>3, <1>5 DEF QueueSound
  <1>7. \A i \in 1 .. Len(Queue') :
            /\ Queue'[i].conn \notin Gone' /\ connState'[Queue'[i].conn] # "new"
            /\ Queue'[i].do = "destroy" => Queue'[i].conn # tcpConnection'
    BY <1>1, <1>2, <1>3, <1>4 DEF QueueSound
  <1>8. \A c \in Gone' : connState'[c] # "new" /\ c # tcpConnection'
    BY <1>2, <1>4 DEF QueueSound
  <1> QED
    BY <1>6, <1>7, <1>8 DEF QueueSound

LEMMA SoundStep ==
    ASSUME Control, QueueSound, [Next]_vars
    PROVE  QueueSound'
  <1>1. ASSUME NEW c \in Conn, Connects(c) PROVE QueueSound'
    <2>1. /\ Queue' = Queue /\ Gone' = Gone
          /\ tcpConnection' \in Conn /\ ~Opened(tcpConnection')
      BY <1>1, QueueKept DEF Connects, Gone, Opened
    <2>2. \A d \in Conn : Opened(d) => Opened(d)'
      BY <1>1 DEF Connects, Opened, Control, TypeOK
    <2> QED
      BY <2>1, <2>2, SoundKept
  <1>2. CASE ConnectFails \/ Retry
    BY <1>2, QueueKept, SoundKept
       DEF ConnectFails, Retry, Gone, Opened, connVars, loopVars
  <1>3. CASE HandleClose
    <2>1. Queue' = Queue /\ Gone' = Gone /\ tcpConnection' = tcpConnection
      BY <1>3, QueueKept DEF HandleClose, Gone, connectorVars
    <2>2. \A d \in Conn : Opened(d) => Opened(d)'
      BY <1>3 DEF HandleClose, Opened, Control, TypeOK
    <2> QED
      BY <2>1, <2>2, SoundKept
  <1>4. CASE onConnection
    BY <1>4, QueueKept, SoundKept DEF onConnection, Gone, Opened, connectorVars, connVars
  <1>5. CASE Remove
    <2>1. tcpConnection \in Conn /\ tcpConnection # null
      BY <1>5 DEF Remove, Control, TypeOK, ConnectorState
    <2>2. DestroyFunctor(tcpConnection) \in Functor
      BY <2>1, FunctorTypes
    <2> QED
      BY <1>5, <2>1, <2>2, SoundGrows
         DEF Remove, DestroyFunctor, Gone, Opened, connVars
  <1>6. CASE TakeBatch
    <2>1. Queue' = Queue
      BY <1>6, QueueMoves
    <2> QED
      BY <1>6, <2>1, SoundKept DEF TakeBatch, Gone, Opened, connectorVars, connVars
  <1>7. CASE RunFunctor
    BY <1>7, SoundShrinks
  <1>8. CASE FreeBatch
    <2>1. Queue' = Queue
      BY <1>8, QueueKept DEF FreeBatch
    <2> QED
      BY <1>8, <2>1, SoundKept DEF FreeBatch, Gone, Opened, connectorVars
  <1>9. ASSUME NEW p \in Caller,
               WriteLock(p) \/ WriteLook(p) \/ WriteCheck(p) \/ Disconnect(p)
        PROVE  QueueSound'
    <2>1. UNCHANGED <<tcpConnection, connState, destroyed, ran, batch, pendingFunctors>>
      BY <1>9 DEF WriteLock, WriteLook, WriteCheck, Disconnect, connectorVars, connVars, loopVars
    <2> QED
      BY <2>1, QueueKept, SoundKept DEF Gone, Opened
  <1>10. ASSUME NEW p \in Caller, WriteQueue(p) PROVE QueueSound'
    <2>1. /\ ptr[p] = tcpConnection /\ tcpConnection # null /\ tcpConnection \in Conn
          /\ message[p] \in 1 .. MaxWrites
      BY <1>10 DEF WriteQueue, Control, TypeOK, MutexHeld, PtrCurrent
    <2>2. SendFunctor(p) \in Functor
      BY <2>1, FunctorTypes
    <2> QED
      BY <1>10, <2>1, <2>2, SoundGrows
         DEF WriteQueue, SendFunctor, Gone, Opened, connectorVars, connVars, loopVars
  <1>11. ASSUME NEW p \in Caller, Shutdown(p) PROVE QueueSound'
    <2>1. ptr[p] = tcpConnection /\ tcpConnection # null /\ tcpConnection \in Conn
      BY <1>11 DEF Shutdown, Control, TypeOK, PtrCurrent
    <2>2. ShutdownFunctor(tcpConnection) \in Functor
      BY <2>1, FunctorTypes
    <2>3. \A d \in Conn : Opened(d) => Opened(d)'
      BY <1>11, <2>1 DEF Shutdown, Opened, Control, TypeOK
    <2> QED
      BY <1>11, <2>1, <2>2, <2>3, SoundGrows
         DEF Shutdown, ShutdownFunctor, Gone, connectorVars, loopVars
  <1>12. CASE UNCHANGED vars
    BY <1>12, QueueKept, SoundKept
       DEF vars, Gone, Opened, connectorVars, connVars, loopVars
  <1> QED
    BY <1>1, <1>2, <1>3, <1>4, <1>5, <1>6, <1>7, <1>8, <1>9, <1>10, <1>11, <1>12
       DEF Next, Loop, InCall, Wait

-----------------------------------------------------------------------------
(* The order of the messages.                                               *)
Ordered == QueueOrdered /\ WrittenInOrder

LEMMA QueueTypes ==
    ASSUME Control
    PROVE  /\ Len(Queue) \in Nat /\ tcpConnection \in Conn \cup {null}
           /\ \A i \in 1 .. Len(Queue) : Queue[i].conn \in Conn
           /\ \A i \in Sends : i \in 1 .. Len(Queue) /\ Queue[i].message \in Nat
           /\ \A c \in Conn : /\ written[c] \in Seq(1 .. MaxWrites) /\ Len(written[c]) \in Nat
                              /\ \A k \in 1 .. Len(written[c]) : written[c][k] \in Nat
           /\ writes \in Nat /\ Conn \subseteq Nat
  <1>1. /\ Queue \in Seq(Functor) /\ writes \in Nat /\ Conn \subseteq Nat
        /\ tcpConnection \in Conn \cup {null} /\ written \in [Conn -> Seq(1 .. MaxWrites)]
    BY QueueType, ClientAssumption DEF Control, TypeOK, Conn
  <1>2. \A i \in 1 .. Len(Queue) : Queue[i] \in Functor
    BY <1>1, ElementOfSeq
  <1>3. \A i \in Sends : i \in 1 .. Len(Queue) /\ Queue[i].message \in 1 .. MaxWrites
    BY <1>2, FunctorTypes DEF Sends
  <1>4. \A c \in Conn : \A k \in 1 .. Len(written[c]) : written[c][k] \in 1 .. MaxWrites
    BY <1>1, ElementOfSeq
  <1> QED
    BY <1>1, <1>2, <1>3, <1>4, FunctorTypes

LEMMA OrderedKept ==
    ASSUME Control, Ordered, Queue' = Queue, written' = written,
           \A c \in Conn : Opened(c) => Opened(c)',
           \A m \in Nat : IsOlder(m) => IsOlder(m)'
    PROVE  Ordered'
  <1>1. Sends' = Sends
    BY DEF Sends
  <1>2. QueueOrdered'
    BY <1>1, QueueTypes DEF Ordered, QueueOrdered, Opened, IsOlder
  <1> QED
    BY <1>2 DEF Ordered, WrittenInOrder

(* A functor that is no send.                                               *)
LEMMA OrderedGrows ==
    ASSUME Control, Ordered, NEW f \in Functor, f.do # "send", batch' = batch,
           pendingFunctors' = Append(pendingFunctors, f), written' = written,
           \A c \in Conn : Opened(c) => Opened(c)',
           UNCHANGED <<writes, mutex_>>
    PROVE  Ordered'
  <1>1. /\ Len(Queue') = Len(Queue) + 1 /\ Len(Queue) \in Nat
        /\ \A i \in 1 .. Len(Queue) + 1 :
               Queue'[i] = IF i = Len(Queue) + 1 THEN f ELSE Queue[i]
    BY QueueGrows
  <1>2. Sends' = Sends /\ \A i \in Sends : Queue'[i] = Queue[i]
    BY <1>1 DEF Sends
  <1>3. QueueOrdered'
    BY <1>2, QueueTypes DEF Ordered, QueueOrdered, Opened, IsOlder
  <1> QED
    BY <1>3 DEF Ordered, WrittenInOrder

(* The newest message joins the queue, for the newest connection.           *)
LEMMA OrderedSend ==
    ASSUME Control, QueueSound, Ordered, NEW p \in Caller, WriteQueue(p)
    PROVE  Ordered'
  <1> DEFINE f == SendFunctor(p)
  <1>1. /\ f \in Functor /\ f.do = "send" /\ f.message = writes /\ f.conn = tcpConnection
        /\ mutex_ = p /\ p # none /\ mutex_' = none /\ writes' = writes /\ written' = written
        /\ connState' = connState /\ tcpConnection \in Conn
        /\ batch' = batch /\ pendingFunctors' = Append(pendingFunctors, f)
    <2>1. /\ callerPc[p] = "queue" /\ mutex_ = p /\ message[p] = writes /\ writes > 0
          /\ ptr[p] = tcpConnection /\ ptr[p] \in Conn /\ message[p] \in 1 .. MaxWrites
      BY DEF WriteQueue, Control, TypeOK, MutexHeld, PtrCurrent
    <2>2. f \in Functor
      BY <2>1, FunctorTypes
    <2> QED
      BY <2>1, <2>2, ClientAssumption DEF WriteQueue, SendFunctor, connVars, loopVars
  <1> HIDE DEF f
  <1>2. /\ Len(Queue') = Len(Queue) + 1 /\ Len(Queue) \in Nat
        /\ \A i \in 1 .. Len(Queue) : Queue'[i] = Queue[i]
        /\ Queue'[Len(Queue) + 1] = f
    BY <1>1, QueueGrows
  <1>3. Sends' = Sends \cup {Len(Queue) + 1}
    BY <1>1, <1>2 DEF Sends
  <1>4. \A i \in Sends : Queue'[i] = Queue[i] /\ i < Len(Queue) + 1
    BY <1>2, QueueTypes DEF Sends
  <1>5. /\ \A c \in Conn : Opened(c) => c <= tcpConnection
        /\ \A i \in Sends : Opened(Queue[i].conn)
    <2>1. \A c \in Conn : tcpConnection < c => connState[c] = "new"
      BY <1>1, ClientAssumption DEF Control, ConnectorState, Conn, null
    <2> QED
      BY <1>1, <2>1, QueueTypes DEF QueueSound, Sends, Opened
  <1>6. \A m \in Nat : IsOlder(m) => m < f.message /\ IsOlder(m)'
    BY <1>1, QueueTypes DEF IsOlder
  <1>7. \A i, j \in Sends' :
            i < j => Queue'[i].message < Queue'[j].message /\ Queue'[i].conn <= Queue'[j].conn
    <2> SUFFICES ASSUME NEW i \in Sends', NEW j \in Sends', i < j
                 PROVE  /\ Queue'[i].message < Queue'[j].message
                        /\ Queue'[i].conn <= Queue'[j].conn
      OBVIOUS
    <2>1. i \in Sends
      <3>1. /\ j \in 1 .. Len(Queue) \/ j = Len(Queue) + 1
            /\ i \in Sends \/ i = Len(Queue) + 1
        BY <1>3, QueueTypes
      <3> QED
        BY <1>2, <3>1
    <2>2. CASE j \in Sends
      BY <1>4, <2>1, <2>2 DEF Ordered, QueueOrdered
    <2>3. CASE j = Len(Queue) + 1
      BY <1>1, <1>2, <1>4, <1>5, <1>6, <2>1, <2>3, QueueTypes DEF Ordered, QueueOrdered
    <2> QED
      BY <1>3, <2>2, <2>3
  <1>8. \A i \in Sends' : Queue'[i].message <= writes
    <2>1. \A i \in Sends : Queue'[i].message <= writes
      BY <1>1, <1>4, QueueTypes DEF Ordered, QueueOrdered, IsOlder
    <2> QED
      BY <1>1, <1>2, <1>3, <2>1, QueueTypes
  <1>9. \A c \in Conn : \A k \in 1 .. Len(written[c]) :
            /\ IsOlder(written[c][k])' /\ connState[c] # "new"
            /\ \A i \in Sends' : written[c][k] < Queue'[i].message /\ c <= Queue'[i].conn
    BY <1>1, <1>2, <1>3, <1>4, <1>5, <1>6, QueueTypes DEF Ordered, QueueOrdered, Opened
  <1> QED
    <2>1. \A i \in Sends' : Queue'[i].message <= writes' /\ mutex_' = none
      BY <1>1, <1>8
    <2>2. QueueOrdered'
      BY <1>1, <1>7, <2>1, <1>9 DEF QueueOrdered, IsOlder
    <2> QED
      BY <1>1, <2>2 DEF Ordered, WrittenInOrder

(* The oldest functor is run: a send moves from the queue to its connection.*)
LEMMA OrderedShrinks ==
    ASSUME Control, QueueSound, Ordered, RunFunctor
    PROVE  Ordered'
  <1> DEFINE f == Queue[1]
  <1>1. /\ Head(batch) = f /\ f \in Functor /\ Len(Queue) \in Nat \ {0}
        /\ Len(Queue') = Len(Queue) - 1
        /\ \A i \in 1 .. Len(Queue) - 1 : Queue'[i] = Queue[i + 1]
    BY QueueShrinks
  <1>2. /\ UNCHANGED <<connState, writes, mutex_>>
        /\ f.conn \in Conn /\ (f.do = "send" => f.message \in 1 .. MaxWrites)
        /\ \/ written' = written
           \/ f.do = "send" /\ written' = [written EXCEPT ![f.conn] = Append(@, f.message)]
    BY <1>1, FunctorTypes DEF RunFunctor, connVars, callerVars
  <1> HIDE DEF f
  <1>3. /\ \A i \in Sends' : i \in Nat /\ i + 1 \in Sends /\ Queue'[i] = Queue[i + 1] /\ 1 < i + 1
        /\ f.do = "send" => 1 \in Sends
    BY <1>1 DEF Sends, f
  <1>4. \A i, j \in Sends' :
            i < j => Queue'[i].message < Queue'[j].message /\ Queue'[i].conn <= Queue'[j].conn
    <2>1. \A i, j \in Sends' : i < j => i + 1 < j + 1
      BY <1>3
    <2> QED
      BY <1>3, <2>1 DEF Ordered, QueueOrdered
  <1>5. \A i \in Sends' : Queue'[i].message <= writes /\ (mutex_ # none => Queue'[i].message < writes)
    BY <1>3 DEF Ordered, QueueOrdered, IsOlder
  (* What is now written to c is what was, and the message of f.            *)
  <1>6. ASSUME NEW c \in Conn, NEW k \in 1 .. Len(written'[c])
        PROVE  /\ written'[c][k] \in Nat
               /\ \/ k \in 1 .. Len(written[c]) /\ written'[c][k] = written[c][k]
                  \/ /\ f.do = "send" /\ c = f.conn /\ written'[c][k] = f.message
                     /\ k = Len(written[c]) + 1
    <2>1. CASE written' = written
      BY <1>6, <2>1, QueueTypes
    <2>2. CASE f.do = "send" /\ written' = [written EXCEPT ![f.conn] = Append(@, f.message)]
      <3>1. written'[c] = IF c = f.conn THEN Append(written[c], f.message) ELSE written[c]
        BY <2>2 DEF Control, TypeOK
      <3>2. CASE c = f.conn
        <4>1. /\ Len(written'[c]) = Len(written[c]) + 1
              /\ written'[c][k] = IF k = Len(written[c]) + 1 THEN f.message ELSE written[c][k]
          BY <1>2, <1>6, <2>2, <3>1, <3>2, AppendProperties, QueueTypes
        <4>2. k \in 1 .. Len(written[c]) \/ k = Len(written[c]) + 1
          BY <1>6, <4>1, QueueTypes
        <4> QED
          BY <1>2, <2>2, <3>2, <4>1, <4>2, QueueTypes
      <3>3. CASE c # f.conn
        BY <1>6, <3>1, <3>3, QueueTypes
      <3> QED
        BY <3>2, <3>3
    <2> QED
      BY <1>2, <2>1, <2>2
  (* Before it stands everything else that was written or is queued.        *)
  <1>7. f.do = "send" =>
            /\ \A c \in Conn : \A k \in 1 .. Len(written[c]) :
                   written[c][k] < f.message /\ c <= f.conn
            /\ \A i \in Sends' : f.message < Queue'[i].message /\ f.conn <= Queue'[i].conn
            /\ IsOlder(f.message) /\ Opened(f.conn)
    <2>1. 1 \in 1 .. Len(Queue)
      BY <1>1
    <2> QED
      BY <1>3, <2>1 DEF Ordered, QueueOrdered, QueueSound, Opened, f
  <1>8. ASSUME NEW c \in Conn, NEW k \in 1 .. Len(written'[c])
        PROVE  /\ written'[c][k] <= writes /\ (mutex_ # none => written'[c][k] < writes)
               /\ connState[c] # "new"
               /\ \A i \in Sends' : written'[c][k] < Queue'[i].message /\ c <= Queue'[i].conn
    BY <1>3, <1>6, <1>7, <1>8 DEF Ordered, QueueOrdered, IsOlder, Opened
  <1>9. QueueOrdered'
    BY <1>2, <1>4, <1>5, <1>8 DEF QueueOrdered, IsOlder
  <1>10. ASSUME NEW c \in Conn, NEW d \in Conn,
                NEW i \in 1 .. Len(written'[c]), NEW j \in 1 .. Len(written'[d]),
                c < d \/ (c = d /\ i < j)
         PROVE  written'[c][i] < written'[d][j]
    <2>1. /\ c \in Nat /\ d \in Nat /\ i \in Nat /\ j \in Nat /\ Len(written[c]) \in Nat
          /\ f.conn \in Nat
      BY <1>2, <1>10, QueueTypes
    <2>2. CASE /\ i \in 1 .. Len(written[c]) /\ written'[c][i] = written[c][i]
               /\ j \in 1 .. Len(written[d]) /\ written'[d][j] = written[d][j]
      BY <1>10, <2>2 DEF Ordered, WrittenInOrder
    <2>3. CASE /\ i \in 1 .. Len(written[c]) /\ written'[c][i] = written[c][i]
               /\ f.do = "send" /\ written'[d][j] = f.message
      BY <1>7, <2>3
    <2>4. CASE /\ f.do = "send" /\ c = f.conn /\ written'[c][i] = f.message
               /\ i = Len(written[c]) + 1
               /\ j \in 1 .. Len(written[d])
      <3>1. d <= f.conn
        BY <1>7, <2>4
      <3> QED
        BY <1>10, <2>1, <2>4, <3>1
    <2>5. CASE /\ f.do = "send" /\ c = f.conn /\ i = Len(written[c]) + 1
               /\ d = f.conn /\ j = Len(written[d]) + 1
      BY <1>10, <2>1, <2>5
    <2> QED
      BY <1>6, <2>2, <2>3, <2>4, <2>5
  <1> QED
    BY <1>9, <1>10 DEF Ordered, WrittenInOrder

LEMMA OrderedStep ==
    ASSUME Control, QueueSound, Ordered, [Next]_vars
    PROVE  Ordered'
  <1>1. ASSUME NEW c \in Conn, Connects(c) PROVE Ordered'
    <2>1. Queue' = Queue /\ UNCHANGED <<written, writes, mutex_>>
      BY <1>1, QueueKept DEF Connects, callerVars
    <2>2. \A d \in Conn : Opened(d) => Opened(d)'
      BY <1>1 DEF Connects, Opened, Control, TypeOK
    <2> QED
      BY <2>1, <2>2, OrderedKept DEF IsOlder
  <1>2. CASE HandleClose
    <2>1. Queue' = Queue /\ UNCHANGED <<written, writes, mutex_>>
      BY <1>2, QueueKept DEF HandleClose, callerVars
    <2>2. \A d \in Conn : Opened(d) => Opened(d)'
      BY <1>2 DEF HandleClose, Opened, Control, TypeOK
    <2> QED
      BY <2>1, <2>2, OrderedKept DEF IsOlder
  <1>3. CASE ConnectFails \/ Retry \/ onConnection \/ FreeBatch \/ UNCHANGED vars
    <2>1. UNCHANGED <<batch, pendingFunctors, written, writes, mutex_, connState>>
      BY <1>3 DEF ConnectFails, Retry, onConnection, FreeBatch, vars, connVars, loopVars, callerVars
    <2> QED
      BY <2>1, QueueKept, OrderedKept DEF IsOlder, Opened
  <1>4. CASE Remove
    <2>1. DestroyFunctor(tcpConnection) \in Functor /\ DestroyFunctor(tcpConnection).do # "send"
      BY <1>4, FunctorTypes DEF Remove, Control, TypeOK, ConnectorState, DestroyFunctor
    <2> QED
      BY <1>4, <2>1, OrderedGrows DEF Remove, Opened, connVars, callerVars
  <1>5. CASE TakeBatch
    BY <1>5, QueueMoves, OrderedKept DEF TakeBatch, IsOlder, Opened, connVars, callerVars
  <1>6. CASE RunFunctor
    BY <1>6, OrderedShrinks
  <1>7. ASSUME NEW p \in Caller, WriteLock(p) PROVE Ordered'
    <2>1. /\ Queue' = Queue /\ UNCHANGED <<written, connState>>
          /\ mutex_ = none /\ writes' = writes + 1
      BY <1>7, QueueKept DEF WriteLock, connVars, loopVars
    <2>2. \A m \in Nat : IsOlder(m) => IsOlder(m)'
      BY <2>1, QueueTypes DEF IsOlder
    <2> QED
      BY <2>1, <2>2, OrderedKept DEF Opened
  <1>8. ASSUME NEW p \in Caller, WriteLook(p) \/ WriteCheck(p) \/ Disconnect(p) PROVE Ordered'
    <2>1. /\ UNCHANGED <<batch, pendingFunctors, written, connState, writes>>
          /\ mutex_' \in {mutex_, none}
      BY <1>8 DEF WriteLook, WriteCheck, Disconnect, connVars, loopVars
    <2>2. \A m \in Nat : IsOlder(m) => IsOlder(m)'
      BY <2>1, QueueTypes DEF IsOlder
    <2> QED
      BY <2>1, <2>2, QueueKept, OrderedKept DEF Opened
  <1>9. ASSUME NEW p \in Caller, WriteQueue(p) PROVE Ordered'
    BY <1>9, OrderedSend
  <1>10. ASSUME NEW p \in Caller, Shutdown(p) PROVE Ordered'
    <2>1. /\ ptr[p] = tcpConnection /\ tcpConnection \in Conn
          /\ ShutdownFunctor(tcpConnection) \in Functor
          /\ ShutdownFunctor(tcpConnection).do # "send"
      BY <1>10, FunctorTypes
         DEF Shutdown, Control, TypeOK, PtrCurrent, ShutdownFunctor
    <2>2. \A d \in Conn : Opened(d) => Opened(d)'
      BY <1>10, <2>1 DEF Shutdown, Opened, Control, TypeOK
    <2> QED
      BY <1>10, <2>1, <2>2, OrderedGrows DEF Shutdown, loopVars
  <1> QED
    BY <1>1, <1>2, <1>3, <1>4, <1>5, <1>6, <1>7, <1>8, <1>9, <1>10 DEF Next, Loop, InCall, Wait

-----------------------------------------------------------------------------
LEMMA Step ==
    ASSUME IInv, [Next]_vars
    PROVE  IInv'
  BY ControlStep, SoundStep, OrderedStep DEF IInv, Ordered

(* In every reachable state the invariant holds.                            *)
THEOREM Invariant == Spec => []IInv
  BY InitInvariant, Step, PTL DEF Spec

(* The types of the client's state; in particular, connection_ is null or   *)
(* TcpClient's own connection.                                              *)
THEOREM TypeCorrect == Spec => []TypeOK
  BY Invariant, PTL DEF IInv, Control

(* No raw pointer, in a call of write or disconnect or in a queued functor, *)
(* outlives its connection.                                                 *)
THEOREM PointersAreLive == Spec => []NoDanglingPointer
  <1>1. IInv => NoDanglingPointer
    <2> SUFFICES ASSUME IInv PROVE NoDanglingPointer
      OBVIOUS
    <2>1. ASSUME NEW p \in Caller, callerPc[p] \in {"check", "queue", "shutdown"}
          PROVE  ptr[p] \in Conn \ destroyed
      <3>1. ptr[p] = tcpConnection /\ tcpConnection # null /\ tcpConnection \in Conn
        BY <2>1 DEF IInv, Control, TypeOK, PtrCurrent
      <3> QED
        BY <3>1 DEF IInv, QueueSound, Gone
    <2>2. \A f \in Functors : f.conn \notin destroyed
      <3>1. /\ batch \in Seq(Functor) /\ pendingFunctors \in Seq(Functor)
            /\ Len(batch) \in Nat /\ Len(pendingFunctors) \in Nat
            /\ Len(Queue) = Len(batch) + Len(pendingFunctors)
            /\ \A i \in 1 .. Len(batch) + Len(pendingFunctors) : Queue[i] =
                   IF i <= Len(batch) THEN batch[i] ELSE pendingFunctors[i - Len(batch)]
        BY ConcatProperties DEF IInv, Control, TypeOK, Queue
      <3>2. \A i \in 1 .. Len(batch) : i \in 1 .. Len(Queue) /\ Queue[i] = batch[i]
        BY <3>1
      <3>3. ASSUME NEW i \in 1 .. Len(pendingFunctors)
            PROVE  /\ Len(batch) + i \in 1 .. Len(Queue)
                   /\ Queue[Len(batch) + i] = pendingFunctors[i]
        <4>1. /\ Len(batch) + i \in 1 .. Len(batch) + Len(pendingFunctors)
              /\ ~(Len(batch) + i <= Len(batch)) /\ (Len(batch) + i) - Len(batch) = i
          BY <3>1
        <4> QED
          BY <3>1, <4>1
      <3>4. \A i \in 1 .. Len(Queue) : Queue[i].conn \notin destroyed
        BY DEF IInv, QueueSound, Gone
      <3> QED
        BY <3>2, <3>3, <3>4 DEF Functors
    <2> QED
      BY <2>1, <2>2 DEF NoDanglingPointer
  <1> QED
    BY <1>1, Invariant, PTL

(* Messages are written in the order of the calls, each at most once, over  *)
(* all the connections of the client's life.                                *)
THEOREM WritesKeepOrder == Spec => []WrittenInOrder
  BY Invariant, PTL DEF IInv
=============================================================================
