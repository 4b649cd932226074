-------------------------- MODULE ChatServerProofs --------------------------
(***************************************************************************)
(* Proofs about the server's two threads, for any number of connections,   *)
(* frames and undefined steps.  The list follows the states of the         *)
(* connections whatever the send thread does.  As long as no change of the *)
(* list overlapped a round of sends, the send thread's iterator stands on  *)
(* a listed connection, and behind the functor that destroys a connection  *)
(* no other refers to it.  As long as no step was undefined, the frames    *)
(* written to a connection and those queued for it are consecutive.        *)
(***************************************************************************)
EXTENDS ChatServer, SequenceTheorems, WellFoundedInduction, TLAPS

Queued == batch \o pendingFunctors

Walking == sendPc \in {"deref", "check", "queue", "next"}

(* onConnection has a connection in hand, and the list is one behind.       *)
Inserting(c) == loopPc = "insert" /\ handled = c
Leaving(c) == loopPc \in {"erase", "remove"} /\ handled = c

ListState ==
    /\ loopPc \in {"insert", "erase", "remove"} => handled \in Conn
    /\ \A c \in Conn : /\ Inserting(c) => connState[c] = "kConnected"
                       /\ Leaving(c) => connState[c] = "kDisconnected"
                       /\ c \in connections_ <=> \/ connState[c] \in Up /\ ~Inserting(c)
                                                 \/ loopPc = "erase" /\ handled = c
    /\ loopPc # "functors" => batch = <<>>
    /\ server = "running" => undefined <= MaxUndefined
    /\ InRound => frame > 0

Control == TypeOK /\ ListState

-----------------------------------------------------------------------------
LEMMA FunctorTypes ==
    /\ \A c \in Conn : [do |-> "destroy", conn |-> c] \in Functor
    /\ it \in Conn /\ frame \in 1 .. MaxFrames => SendFunctor \in Functor
    /\ \A f \in Functor : /\ f.conn \in Conn /\ f.do \in {"send", "destroy"}
                          /\ f.do = "send" => f.frame \in 1 .. MaxFrames
  BY DEF Functor, SendFunctor

(* The least connection of a set of them.                                   *)
LEMMA FirstIsLeast ==
    ASSUME NEW S \in SUBSET Conn
    PROVE  /\ S = {} => FirstOf(S) = end
           /\ S # {} => FirstOf(S) \in S /\ \A d \in S : FirstOf(S) <= d
           /\ FirstOf(S) \in Conn \cup {end}
  <1>1. CASE S = {}
    BY <1>1 DEF FirstOf
  <1>2. CASE S # {}
    <2>1. \E c \in S : \A d \in S : ~ (<<d, c>> \in OpToRel(<, Nat))
      BY <1>2, WFMin, NatLessThanWellFounded, ServerAssumption, Zenon
    <2>2. \A c, d \in S : ~ (<<d, c>> \in OpToRel(<, Nat)) => c <= d
      <3>1. S \subseteq Nat
        BY ServerAssumption
      <3> QED
        BY <3>1 DEF OpToRel
    <2>3. \E c \in S : \A d \in S : c <= d
      BY <2>1, <2>2
    <2>4. FirstOf(S) = CHOOSE c \in S : \A d \in S : c <= d
      BY <1>2 DEF FirstOf
    <2>5. FirstOf(S) \in S /\ \A d \in S : FirstOf(S) <= d
      BY <2>3, <2>4
    <2> QED
      BY <1>2, <2>5
  <1> QED
    BY <1>1, <1>2

LEMMA InitControl == Init => Control
  <1> SUFFICES ASSUME Init PROVE Control
    OBVIOUS
  <1>1. <<>> \in Seq(Functor) /\ <<>> \in Seq(1 .. MaxFrames)
    BY EmptySeq
  <1>2. TypeOK
    <2>1. MaxFrames \in Nat /\ MaxUndefined \in Nat
      BY ServerAssumption
    <2>2. /\ written \in [Conn -> Seq(1 .. MaxFrames)]
          /\ connState \in [Conn -> {"new", "kConnected", "kDisconnecting", "kDisconnected"}]
      BY <1>1 DEF Init
    <2>3. undefined \in 0 .. MaxUndefined + 1 /\ frame \in 0 .. MaxFrames
      BY <2>1 DEF Init
    <2>4. /\ connections_ \subseteq Conn /\ destroyed \subseteq Conn /\ ran \subseteq Conn
          /\ halfClosed = {}
          /\ handled \in Conn \cup {none} /\ it \in Conn \cup {end}
          /\ pendingFunctors \in Seq(Functor) /\ batch \in Seq(Functor)
      BY <1>1 DEF Init
    <2>5. loopPc = "poll" /\ sendPc = "init" /\ server = "running" /\ overlap = FALSE
      BY DEF Init
    <2> QED
      BY <2>2, <2>3, <2>4, <2>5 DEF TypeOK
  <1>3. ListState
    BY ServerAssumption DEF Init, ListState, Inserting, Leaving, InRound, Up
  <1> QED
    BY <1>2, <1>3 DEF Control

(* What any step does to the history, and the send thread to the rest.      *)
LEMMA HistoryStep ==
    ASSUME Control, [Next]_vars
    PROVE  /\ server' \in {"running", "crashed"} /\ overlap' \in BOOLEAN
           /\ undefined' \in 0 .. MaxUndefined + 1 /\ undefined <= undefined'
           /\ server' = "running" => undefined' <= MaxUndefined
           /\ overlap => overlap'
  <1> USE ServerAssumption DEF Control, TypeOK, ListState
  <1>1. CASE Run /\ LoopThread
    BY <1>1 DEF Run, LoopThread
  <1>2. CASE Run /\ SendThread
    BY <1>2 DEF Run, SendThread
  <1>3. CASE Crash
    BY <1>3 DEF Crash
  <1>4. CASE Crashed \/ UNCHANGED vars
    BY <1>4 DEF Crashed, vars, historyVars
  <1> QED
    BY <1>1, <1>2, <1>3, <1>4 DEF Next, Run

LEMMA SendStep ==
    ASSUME Control, SendThread
    PROVE  /\ Moved
           /\ UNCHANGED pendingFunctors \/ Queue
           /\ sendPc' \in {"init", "returned", "capture", "begin", "deref", "check", "queue",
                           "next"}
           /\ it' \in Conn \cup {end} /\ frame' \in 0 .. MaxFrames
           /\ sendPc' \in {"deref", "check", "queue", "next"} => it' \in Conn
           /\ InRound' => frame' > 0
  <1> USE DEF Control, TypeOK, ListState, InRound
  <1>0. /\ FirstOf(connections_) \in Conn \cup {end}
        /\ FirstOf({c \in connections_ : c > it}) \in Conn \cup {end}
        /\ Anywhere \subseteq Conn \cup {end}
    BY FirstIsLeast DEF Anywhere
  <1>1. CASE CamInit \/ CaptureFails
    BY <1>1, ServerAssumption DEF CamInit, CaptureFails, sendVars
  <1>2. CASE Capture
    BY <1>2, ServerAssumption DEF Capture
  <1>3. CASE Begin \/ Advance
    <2>1. PICK targets \in SUBSET (Conn \cup {end}) : GoTo(targets) /\ sendPc \in {"begin", "next"}
      BY <1>0, <1>3 DEF Begin, Advance
    <2> QED
      BY <2>1 DEF GoTo
  <1>4. CASE Deref \/ Check
    BY <1>4 DEF Deref, Check
  <1>5. CASE Queue
    BY <1>5 DEF Queue
  <1> QED
    BY <1>1, <1>2, <1>3, <1>4, <1>5 DEF SendThread, Round

(* A functor that is run writes its frame to its own connection, if that    *)
(* can be written to; with a freed connection, to any one or to none.       *)
LEMMA WhatIsWritten ==
    ASSUME SendInLoop
    PROVE  /\ \/ written' = written
              \/ \E d \in Conn : /\ connState[d] # "new"
                                 /\ written' = [written EXCEPT ![d] = Append(@, Head(batch).frame)]
           /\ ~FunctorUndefined =>
                  IF Head(batch).conn \in Writable
                  THEN written' = [written EXCEPT ![Head(batch).conn] = Append(@, Head(batch).frame)]
                  ELSE written' = written
  <1>1. CASE FunctorUndefined
    BY <1>1 DEF SendInLoop, StaleDescriptor, Wrote
  <1>2. CASE ~FunctorUndefined
    BY <1>2 DEF SendInLoop, Writable, Up, Wrote
  <1> QED
    BY <1>1, <1>2

LEMMA ControlStep ==
    ASSUME Control, [Next]_vars
    PROVE  Control'
  <1> DEFINE Kept == /\ connections_' \subseteq Conn /\ destroyed' \subseteq Conn /\ ran' \subseteq Conn
                     /\ connState' \in [Conn -> {"new", "kConnected", "kDisconnecting",
                                                 "kDisconnected"}]
                     /\ halfClosed' \subseteq {c \in Conn : connState'[c] = "kDisconnecting"}
                     /\ loopPc' \in {"poll", "insert", "erase", "remove", "functors"}
                     /\ handled' \in Conn \cup {none}
                     /\ pendingFunctors' \in Seq(Functor) /\ batch' \in Seq(Functor)
                     /\ written' \in [Conn -> Seq(1 .. MaxFrames)]
                     /\ loopPc' \in {"insert", "erase", "remove"} => handled' \in Conn
                     /\ loopPc' # "functors" => batch' = <<>>
             Listed == \A c \in Conn :
                     /\ Inserting(c)' => connState'[c] = "kConnected"
                     /\ Leaving(c)' => connState'[c] = "kDisconnected"
                     /\ c \in connections_' <=>
                            \/ connState'[c] \in Up /\ ~Inserting(c)'
                            \/ loopPc' = "erase" /\ handled' = c
             Sent == /\ InRound' => frame' > 0
                     /\ sendPc' \in {"init", "returned", "capture", "begin", "deref", "check",
                                     "queue", "next"}
                     /\ it' \in Conn \cup {end} /\ frame' \in 0 .. MaxFrames
                     /\ sendPc' \in {"deref", "check", "queue", "next"} => it' \in Conn
  <1>1. CASE LoopThread
    <2> USE DEF LoopHandler, Functors
    <2>0. Sent
      <3>1. UNCHANGED sendVars
        BY <1>1 DEF LoopThread, Poll, NewConnection, Shutdown, ShutdownWrite, HandleClose, Insert,
                    Erase, Remove, TakeBatch, SendInLoop, ConnectDestroyed, FreeBatch
      <3> QED
        BY <3>1 DEF sendVars, Control, TypeOK, ListState, InRound
    <2>1. ASSUME Poll PROVE Kept /\ Listed
      BY <2>1 DEF Poll, connVars, loopVars, Control, TypeOK, ListState, Inserting, Leaving
    <2>2. ASSUME NEW c \in Conn, NewConnection(c) PROVE Kept /\ Listed
      <3>1. Kept
        BY <2>2, ServerAssumption DEF NewConnection, Control, TypeOK, ListState
      <3>2. Listed
        BY <2>2, ServerAssumption
           DEF NewConnection, Control, TypeOK, ListState, Inserting, Leaving, Up
      <3> QED
        BY <3>1, <3>2
    <2>3. ASSUME NEW c \in Conn, HandleClose(c) PROVE Kept /\ Listed
      <3>1. Kept
        BY <2>3, ServerAssumption DEF HandleClose, Control, TypeOK, ListState
      <3>2. Listed
        BY <2>3, ServerAssumption
           DEF HandleClose, Control, TypeOK, ListState, Inserting, Leaving, Up
      <3> QED
        BY <3>1, <3>2
    <2>11. ASSUME NEW c \in Conn, Shutdown(c) \/ ShutdownWrite(c) PROVE Kept /\ Listed
      <3>1. Kept
        <4>1. CASE Shutdown(c)
          BY <4>1, ServerAssumption DEF Shutdown, loopVars, Control, TypeOK, ListState
        <4>2. CASE ShutdownWrite(c)
          BY <4>2, ServerAssumption DEF ShutdownWrite, loopVars, Control, TypeOK, ListState
        <4> QED
          BY <2>11, <4>1, <4>2
      <3>2. Listed
        BY <2>11, ServerAssumption
           DEF Shutdown, ShutdownWrite, loopVars, Control, TypeOK, ListState, Inserting, Leaving, Up
      <3> QED
        BY <3>1, <3>2
    <2>4. ASSUME Insert PROVE Kept /\ Listed
      <3>1. Kept
        BY <2>4 DEF Insert, connVars, Control, TypeOK, ListState
      <3>2. Listed
        BY <2>4 DEF Insert, connVars, Control, ListState, Inserting, Leaving, Up
      <3> QED
        BY <3>1, <3>2
    <2>5. ASSUME Erase PROVE Kept /\ Listed
      <3>1. Kept
        BY <2>5 DEF Erase, connVars, Control, TypeOK, ListState
      <3>2. Listed
        BY <2>5 DEF Erase, connVars, Control, ListState, Inserting, Leaving, Up
      <3> QED
        BY <3>1, <3>2
    <2>6. ASSUME Remove PROVE Kept /\ Listed
      <3>1. pendingFunctors' \in Seq(Functor)
        BY <2>6, FunctorTypes, AppendProperties DEF Remove, Control, TypeOK, ListState
      <3>2. Kept
        BY <2>6, <3>1 DEF Remove, connVars, Control, TypeOK, ListState
      <3>3. Listed
        BY <2>6 DEF Remove, connVars, Control, ListState, Inserting, Leaving, Up
      <3> QED
        BY <3>2, <3>3
    <2>7. ASSUME TakeBatch PROVE Kept /\ Listed
      <3>1. Kept
        BY <2>7, EmptySeq DEF TakeBatch, connVars, Control, TypeOK, ListState
      <3>2. Listed
        BY <2>7 DEF TakeBatch, connVars, Control, ListState, Inserting, Leaving
      <3> QED
        BY <3>1, <3>2
    <2>8. ASSUME SendInLoop \/ ConnectDestroyed PROVE Kept /\ Listed
      <3>1. Head(batch) \in Functor /\ batch' \in Seq(Functor)
        <4>1. batch # <<>> /\ batch' = Tail(batch)
          BY <2>8 DEF SendInLoop, ConnectDestroyed
        <4>2. batch \in Seq(Functor)
          BY DEF Control, TypeOK
        <4> QED
          BY <4>1, <4>2, HeadTailProperties, EmptySeq
      <3>2. /\ Head(batch).conn \in Conn
            /\ Head(batch).do = "send" => Head(batch).frame \in 1 .. MaxFrames
        BY <3>1, FunctorTypes
      <3>3. written' \in [Conn -> Seq(1 .. MaxFrames)] /\ ran' \subseteq Conn
        <4>2. CASE ConnectDestroyed
          BY <3>2, <4>2 DEF ConnectDestroyed, Control, TypeOK
        <4>3. CASE SendInLoop
          <5>1. ran' = ran /\ Head(batch).frame \in 1 .. MaxFrames
            BY <3>2, <4>3 DEF SendInLoop
          <5>2. CASE written' = written
            BY <5>1, <5>2 DEF Control, TypeOK
          <5>3. CASE \E d \in Conn : written' = [written EXCEPT ![d] = Append(@, Head(batch).frame)]
            <6>1. PICK d \in Conn : written' = [written EXCEPT ![d] = Append(@, Head(batch).frame)]
              BY <5>3
            <6>2. Append(written[d], Head(batch).frame) \in Seq(1 .. MaxFrames)
              BY <5>1, AppendProperties DEF Control, TypeOK
            <6> QED
              BY <5>1, <6>1, <6>2 DEF Control, TypeOK
          <5> QED
            BY <4>3, <5>2, <5>3, WhatIsWritten
        <4> QED
          BY <2>8, <4>2, <4>3
      <3>4. /\ UNCHANGED <<connections_, connVars, loopPc, handled, pendingFunctors>>
            /\ loopPc = "functors"
        BY <2>8 DEF SendInLoop, ConnectDestroyed
      <3>5. Kept
        BY <3>1, <3>3, <3>4 DEF connVars, Control, TypeOK, ListState
      <3>6. Listed
        BY <3>4 DEF connVars, Control, ListState, Inserting, Leaving
      <3> QED
        BY <3>5, <3>6
    <2>9. ASSUME FreeBatch PROVE Kept /\ Listed
      <3>1. Kept
        BY <2>9 DEF FreeBatch, Control, TypeOK, ListState
      <3>2. Listed
        BY <2>9 DEF FreeBatch, Control, ListState, Inserting, Leaving
      <3> QED
        BY <3>1, <3>2
    <2>10. Kept /\ Listed
      BY <1>1, <2>1, <2>2, <2>3, <2>4, <2>5, <2>6, <2>7, <2>8, <2>9, <2>11 DEF LoopThread
    <2> QED
      BY <2>0, <2>10, HistoryStep DEF Control, TypeOK, ListState
  <1>2. CASE SendThread
    <2>1. /\ Moved /\ Sent /\ (UNCHANGED pendingFunctors \/ Queue)
      BY <1>2, SendStep
    <2>2. pendingFunctors' \in Seq(Functor)
      <3>1. CASE Queue
        <4>1. SendFunctor \in Functor
          BY <3>1, FunctorTypes DEF Queue, Control, TypeOK, ListState, InRound
        <4> QED
          BY <3>1, <4>1, AppendProperties DEF Queue, Control, TypeOK
      <3> QED
        BY <2>1, <3>1 DEF Control, TypeOK
    <2> QED
      BY <2>1, <2>2, HistoryStep
         DEF Moved, connVars, loopVars, Control, TypeOK, ListState, Inserting, Leaving
  <1>3. CASE Crash \/ Crashed \/ UNCHANGED vars
    <2>1. UNCHANGED <<connections_, connVars, loopVars, pendingFunctors, sendVars, written>>
      BY <1>3 DEF Crash, Crashed, vars
    <2>2. Kept /\ Listed
      BY <2>1 DEF connVars, loopVars, Control, TypeOK, ListState, Inserting, Leaving
    <2>3. Sent
      BY <2>1 DEF sendVars, Control, TypeOK, ListState, InRound
    <2> QED
      BY <2>2, <2>3, HistoryStep DEF Control, TypeOK, ListState
  <1> QED
    BY <1>1, <1>2, <1>3 DEF Next, Run

-----------------------------------------------------------------------------
(* What each kind of step does to the queue of functors.                    *)
LEMMA QueuedKept ==
    UNCHANGED <<batch, pendingFunctors>> => Queued' = Queued
  BY DEF Queued

LEMMA QueuedType == Control => Queued \in Seq(Functor)
  BY ConcatProperties DEF Control, TypeOK, Queued

LEMMA QueuedGrows ==
    ASSUME Control, NEW f \in Functor, batch' = batch,
           pendingFunctors' = Append(pendingFunctors, f)
    PROVE  /\ Len(Queued') = Len(Queued) + 1 /\ Len(Queued) \in Nat
           /\ \A i \in 1 .. Len(Queued) + 1 :
                  Queued'[i] = IF i = Len(Queued) + 1 THEN f ELSE Queued[i]
  <1>1. batch \in Seq(Functor) /\ pendingFunctors \in Seq(Functor) /\ Queued \in Seq(Functor)
    BY QueuedType DEF Control, TypeOK
  <1>2. Queued' = Append(Queued, f)
    <2>1. <<f>> \in Seq(Functor)
      OBVIOUS
    <2>2. Queued' = batch \o (pendingFunctors \o <<f>>)
      BY <1>1, AppendIsConcat DEF Queued
    <2>3. Queued' = (batch \o pendingFunctors) \o <<f>>
      BY <1>1, <2>1, <2>2, ConcatAssociative
    <2> QED
      BY <1>1, <2>3, AppendIsConcat DEF Queued
  <1>3. /\ Len(Queued') = Len(Queued) + 1 /\ Len(Queued) \in Nat
        /\ \A i \in 1 .. Len(Queued) : Queued'[i] = Queued[i]
        /\ Queued'[Len(Queued) + 1] = f
    BY <1>1, <1>2, AppendProperties
  <1>4. \A i \in 1 .. Len(Queued) + 1 : i = Len(Queued) + 1 \/ i \in 1 .. Len(Queued)
    BY <1>3
  <1> QED
    BY <1>3, <1>4

LEMMA QueuedMoves ==
    ASSUME Control, TakeBatch
    PROVE  Queued' = Queued
  <1>1. batch = <<>> /\ pendingFunctors \in Seq(Functor)
        /\ batch' = pendingFunctors /\ pendingFunctors' = <<>>
    BY DEF Control, ListState, TypeOK, TakeBatch
  <1> QED
    BY <1>1, ConcatEmptySeq DEF Queued

LEMMA QueuedShrinks ==
    ASSUME Control, SendInLoop \/ ConnectDestroyed
    PROVE  /\ Head(batch) = Queued[1] /\ Head(batch) \in Functor
           /\ Len(Queued) \in Nat \ {0} /\ Len(Queued') = Len(Queued) - 1
           /\ \A i \in 1 .. Len(Queued) - 1 : Queued'[i] = Queued[i + 1]
  <1>1. batch \in Seq(Functor) /\ pendingFunctors \in Seq(Functor) /\ batch # <<>>
        /\ batch' = Tail(batch) /\ pendingFunctors' = pendingFunctors
    BY DEF Control, TypeOK, SendInLoop, ConnectDestroyed
  <1>2. /\ Head(batch) = batch[1] /\ Head(batch) \in Functor /\ Len(batch) \in Nat \ {0}
        /\ batch' \in Seq(Functor) /\ Len(batch') = Len(batch) - 1
        /\ \A i \in 1 .. Len(batch) - 1 : batch'[i] = batch[i + 1]
    BY <1>1, HeadTailProperties, EmptySeq
  <1>3. /\ Len(pendingFunctors) \in Nat /\ Len(Queued) = Len(batch) + Len(pendingFunctors)
        /\ \A i \in 1 .. Len(batch) + Len(pendingFunctors) :
               Queued[i] = IF i <= Len(batch) THEN batch[i]
                                             ELSE pendingFunctors[i - Len(batch)]
    BY <1>1, ConcatProperties DEF Queued
  <1>4. /\ Len(Queued') = Len(batch') + Len(pendingFunctors)
        /\ \A i \in 1 .. Len(batch') + Len(pendingFunctors) :
               Queued'[i] = IF i <= Len(batch') THEN batch'[i]
                                               ELSE pendingFunctors[i - Len(batch')]
    BY <1>1, <1>2, ConcatProperties DEF Queued
  <1>5. ASSUME NEW i \in 1 .. Len(Queued) - 1
        PROVE  Queued'[i] = Queued[i + 1]
    <2>1. i - Len(batch') = (i + 1) - Len(batch) /\ (i <= Len(batch') <=> i + 1 <= Len(batch))
      BY <1>2, <1>3
    <2>2. i \in 1 .. Len(batch') + Len(pendingFunctors) /\ i + 1 \in 1 .. Len(Queued)
      BY <1>2, <1>3
    <2>3. CASE i <= Len(batch')
      BY <1>2, <1>3, <1>4, <2>1, <2>2, <2>3
    <2>4. CASE ~(i <= Len(batch'))
      BY <1>3, <1>4, <2>1, <2>2, <2>4
    <2> QED
      BY <2>3, <2>4
  <1>6. /\ Queued[1] = batch[1] /\ Len(Queued) \in Nat \ {0}
        /\ Len(Queued') = Len(Queued) - 1
    BY <1>2, <1>3, <1>4
  <1> QED
    BY <1>2, <1>5, <1>6

LEMMA QueuedTypes ==
    ASSUME Control
    PROVE  /\ Len(Queued) \in Nat
           /\ \A i \in 1 .. Len(Queued) :
                  /\ Queued[i].conn \in Conn /\ Queued[i].do \in {"send", "destroy"}
                  /\ Queued[i].do = "send" => Queued[i].frame \in Nat
  <1>1. Queued \in Seq(Functor)
    BY QueuedType
  <1>2. \A i \in 1 .. Len(Queued) : Queued[i] \in Functor
    BY <1>1, ElementOfSeq
  <1> QED
    BY <1>1, <1>2, FunctorTypes

-----------------------------------------------------------------------------
(* Short of an overlap.                                                     *)

Gone == destroyed \cup ran

(* The connection has left the list, and its functor is queued or was run.  *)
Left(c) == connState[c] = "kDisconnected" /\ ~Leaving(c)

(* The same of the next state, for a c that may itself be of that state.    *)
LeftNext(c) ==
    connState'[c] = "kDisconnected" /\ ~(loopPc' \in {"erase", "remove"} /\ handled' = c)

QueueSound ==
    /\ \A i, j \in 1 .. Len(Queued) :
           i < j /\ Queued[i].do = "destroy" => Queued[j].conn # Queued[i].conn
    /\ \A i \in 1 .. Len(Queued) :
           /\ Queued[i].conn \notin Gone
           /\ Queued[i].do = "destroy" => Left(Queued[i].conn)
    /\ \A c \in Gone : Left(c)

Sound ==
    ~overlap =>
        /\ undefined = 0 /\ ~(InRound /\ ListChanging)
        /\ Walking => it \in connections_
        /\ QueueSound

LEMMA InitSound == Init => Sound
  <1> SUFFICES ASSUME Init PROVE Sound
    OBVIOUS
  <1>1. Len(Queued) = 0 /\ 1 .. Len(Queued) = {}
    BY ConcatEmptySeq, EmptySeq DEF Init, Queued
  <1> QED
    BY <1>1 DEF Init, Sound, QueueSound, Walking, InRound, Gone

(* None of the steps that the threads can take is undefined.                *)
LEMMA AllDefined ==
    ASSUME Control, Sound, ~overlap
    PROVE  ~SendUndefined /\ ~FunctorUndefined
  <1>1. QueueSound /\ ~(InRound /\ ListChanging) /\ (Walking => it \in connections_)
    BY DEF Sound
  <1>2. \A c \in Gone : c \notin connections_
    BY <1>1 DEF QueueSound, Left, Leaving, Control, TypeOK, ListState, Gone, Up
  <1>3. ~SendUndefined
    BY <1>1, <1>2 DEF SendUndefined, InRound, ListChanging, Walking, Gone
  <1>4. ASSUME FunctorUndefined PROVE FALSE
    <2>1. batch # <<>> /\ Head(batch).conn \in destroyed
      BY <1>4 DEF FunctorUndefined
    <2>2. Head(batch) = Queued[1] /\ 1 \in 1 .. Len(Queued)
      <3>1. /\ batch \in Seq(Functor) /\ pendingFunctors \in Seq(Functor)
            /\ Head(batch) = batch[1] /\ Len(batch) \in Nat \ {0} /\ Len(pendingFunctors) \in Nat
        BY <2>1, EmptySeq DEF Control, TypeOK
      <3> QED
        BY <3>1, ConcatProperties DEF Queued
    <2> QED
      BY <1>1, <2>1, <2>2 DEF QueueSound, Gone
  <1> QED
    BY <1>3, <1>4

LEMMA SoundKept ==
    ASSUME Control, QueueSound, Queued' = Queued, Gone' \subseteq Gone,
           \A c \in Conn : Left(c) => Left(c)'
    PROVE  QueueSound'
  <1>1. Gone \subseteq Conn
    BY DEF Control, TypeOK, Gone
  <1> QED
    BY <1>1, QueuedTypes DEF QueueSound

LEMMA SoundGrows ==
    ASSUME Control, QueueSound, NEW f \in Functor, batch' = batch,
           pendingFunctors' = Append(pendingFunctors, f), Gone' = Gone,
           \A c \in Conn : Left(c) => Left(c)',
           ~Left(f.conn), f.do = "destroy" => LeftNext(f.conn)
    PROVE  QueueSound'
  <1>1. /\ Len(Queued') = Len(Queued) + 1 /\ Len(Queued) \in Nat
        /\ \A i \in 1 .. Len(Queued) : Queued'[i] = Queued[i]
        /\ Queued'[Len(Queued) + 1] = f
    BY QueuedGrows
  <1>2. \A i \in 1 .. Len(Queued') : i \in 1 .. Len(Queued) \/ i = Len(Queued) + 1
    BY <1>1
  <1>3. \A i, j \in 1 .. Len(Queued') : i < j => i \in 1 .. Len(Queued)
    BY <1>1
  <1>4. \A i, j \in 1 .. Len(Queued') :
            i < j /\ Queued'[i].do = "destroy" => Queued'[j].conn # Queued'[i].conn
    BY <1>1, <1>2, <1>3 DEF QueueSound
  <1>5. Gone \subseteq Conn /\ \A i \in 1 .. Len(Queued) : Queued[i].conn \in Conn
    BY QueuedTypes DEF Control, TypeOK, Gone
  <1>6. \A c \in Conn : Left(c) => LeftNext(c)
    BY DEF Left, LeftNext, Leaving
  <1>7. f.conn \notin Gone
    BY DEF QueueSound
  <1>8. \A i \in 1 .. Len(Queued') : /\ Queued'[i].conn \notin Gone
                                     /\ Queued'[i].do = "destroy" => LeftNext(Queued'[i].conn)
    BY <1>1, <1>2, <1>5, <1>6, <1>7 DEF QueueSound
  <1>9. \A c \in Gone : LeftNext(c)
    BY <1>5, <1>6 DEF QueueSound
  <1> QED
    BY <1>4, <1>8, <1>9 DEF QueueSound, Left, LeftNext, Leaving

LEMMA SoundShrinks ==
    ASSUME Control, QueueSound, SendInLoop \/ ConnectDestroyed
    PROVE  QueueSound'
  <1>1. /\ Head(batch) = Queued[1] /\ Len(Queued) \in Nat \ {0}
        /\ Len(Queued') = Len(Queued) - 1
        /\ \A i \in 1 .. Len(Queued) - 1 : Queued'[i] = Queued[i + 1]
    BY QueuedShrinks
  <1>2. /\ Gone' \subseteq IF Queued[1].do = "destroy" THEN Gone \cup {Queued[1].conn} ELSE Gone
        /\ UNCHANGED <<connState, loopPc, handled>>
    BY <1>1 DEF SendInLoop, ConnectDestroyed, Gone, connVars
  <1>3. \A i \in 1 .. Len(Queued') : i + 1 \in 1 .. Len(Queued) /\ 1 < i + 1
    BY <1>1
  <1>4. 1 \in 1 .. Len(Queued) /\ \A i, j \in 1 .. Len(Queued') : i < j => i + 1 < j + 1
    BY <1>1
  <1>5. \A c : Left(c)' = Left(c)
    BY <1>2 DEF Left, Leaving
  <1>6. \A i, j \in 1 .. Len(Queued') :
            i < j /\ Queued'[i].do = "destroy" => Queued'[j].conn # Queued'[i].conn
    BY <1>1, <1>3, <1>4 DEF QueueSound
  <1>7. \A i \in 1 .. Len(Queued') :
            /\ Queued'[i].conn \notin Gone'
            /\ Queued'[i].do = "destroy" => Left(Queued'[i].conn)
    BY <1>1, <1>2, <1>3, <1>4, SMTT(30) DEF QueueSound
  <1>8. \A c \in Gone' : Left(c)
    BY <1>2, <1>4 DEF QueueSound
  <1> QED
    BY <1>5, <1>6, <1>7, <1>8 DEF QueueSound

LEMMA LoopSound ==
    ASSUME Control, QueueSound, LoopThread
    PROVE  QueueSound'
  <1> USE DEF LoopHandler, Functors
  <1>1. CASE Poll
    BY <1>1, QueuedKept, SoundKept DEF Poll, Gone, Left, Leaving, connVars, loopVars
  <1>2. ASSUME NEW c \in Conn,
               NewConnection(c) \/ Shutdown(c) \/ ShutdownWrite(c) \/ HandleClose(c)
        PROVE  QueueSound'
    <2>1. Queued' = Queued /\ Gone' = Gone
      BY <1>2, QueuedKept DEF NewConnection, Shutdown, ShutdownWrite, HandleClose, Gone, loopVars
    <2>2. \A d \in Conn : Left(d) => Left(d)'
      BY <1>2 DEF NewConnection, Shutdown, ShutdownWrite, HandleClose, Left, Leaving, Control,
                  TypeOK, Up, loopVars
    <2> QED
      BY <2>1, <2>2, SoundKept
  <1>3. CASE Insert \/ Erase
    <2>1. Queued' = Queued /\ Gone' = Gone
      BY <1>3, QueuedKept DEF Insert, Erase, Gone, connVars
    <2>2. \A d \in Conn : Left(d) => Left(d)'
      BY <1>3 DEF Insert, Erase, Left, Leaving, connVars
    <2> QED
      BY <2>1, <2>2, SoundKept
  <1>4. CASE Remove
    <2>1. /\ handled \in Conn /\ Leaving(handled) /\ connState[handled] = "kDisconnected"
          /\ loopPc' = "poll" /\ UNCHANGED <<connState, destroyed, ran, batch>>
          /\ pendingFunctors' = Append(pendingFunctors, [do |-> "destroy", conn |-> handled])
      BY <1>4 DEF Remove, Control, ListState, Leaving, connVars
    <2>2. /\ [do |-> "destroy", conn |-> handled] \in Functor
          /\ [do |-> "destroy", conn |-> handled].conn = handled
      BY <2>1, FunctorTypes
    <2>3. \A d \in Conn : Left(d) => Left(d)'
      BY <2>1 DEF Left, Leaving
    <2>4. ~Left(handled) /\ LeftNext(handled)
      BY <2>1 DEF Left, LeftNext, Leaving
    <2> QED
      BY <2>1, <2>2, <2>3, <2>4, SoundGrows DEF Gone
  <1>5. CASE TakeBatch
    <2>1. Queued' = Queued
      BY <1>5, QueuedMoves
    <2> QED
      BY <1>5, <2>1, SoundKept DEF TakeBatch, Gone, Left, Leaving, connVars
  <1>6. CASE SendInLoop \/ ConnectDestroyed
    BY <1>6, SoundShrinks
  <1>7. CASE FreeBatch
    <2>1. Queued' = Queued
      BY <1>7, QueuedKept DEF FreeBatch
    <2> QED
      BY <1>7, <2>1, SoundKept DEF FreeBatch, Gone, Left, Leaving
  <1> QED
    BY <1>1, <1>2, <1>3, <1>4, <1>5, <1>6, <1>7 DEF LoopThread

LEMMA SendSound ==
    ASSUME Control, QueueSound, SendThread, Walking => it \in connections_,
           ~(InRound /\ ListChanging)
    PROVE  QueueSound'
  <1>1. Moved /\ (UNCHANGED pendingFunctors \/ Queue)
    BY SendStep
  <1>2. Gone' = Gone /\ batch' = batch /\ \A c : Left(c)' = Left(c)
    BY <1>1 DEF Moved, connVars, loopVars, Gone, Left, Leaving
  <1>3. CASE UNCHANGED pendingFunctors
    BY <1>2, <1>3, QueuedKept, SoundKept
  <1>4. CASE Queue
    <2>1. it \in connections_ /\ it \in Conn /\ loopPc # "erase"
      BY <1>4 DEF Queue, Walking, InRound, ListChanging, Control, TypeOK
    <2>2. SendFunctor \in Functor /\ SendFunctor.conn = it /\ SendFunctor.do = "send"
      BY <1>4, <2>1, FunctorTypes DEF Queue, SendFunctor, Control, TypeOK, ListState, InRound
    <2>3. ~Left(SendFunctor.conn)
      BY <2>1, <2>2 DEF Left, Control, ListState, Up
    <2>4. pendingFunctors' = Append(pendingFunctors, SendFunctor)
      BY <1>4 DEF Queue
    <2> QED
      BY <1>2, <2>2, <2>3, <2>4, SoundGrows
  <1> QED
    BY <1>1, <1>3, <1>4

(* A round that no change of the list overlaps keeps its iterator in it.    *)
LEMMA WalkingStep ==
    ASSUME Control, Sound, ~overlap', Run
    PROVE  Walking' => it' \in connections_'
  <1>0. /\ ~overlap /\ ~(InRound /\ ListChanging) /\ (Walking => it \in connections_)
        /\ ~SendUndefined /\ connections_ \subseteq Conn /\ end \notin Conn
    BY AllDefined, ServerAssumption DEF Sound, Run, Control, TypeOK
  <1>1. CASE LoopThread
    <2>1. UNCHANGED sendVars
      BY <1>1 DEF LoopThread, LoopHandler, Functors, Poll, NewConnection, Shutdown, ShutdownWrite,
                  HandleClose, Insert, Erase, Remove, TakeBatch, SendInLoop, ConnectDestroyed,
                  FreeBatch
    <2>2. connections_' = connections_ \/ ListChanging
      BY <1>1 DEF LoopThread, LoopHandler, Functors, Poll, NewConnection, Shutdown, ShutdownWrite,
                  HandleClose, Insert, Erase, Remove, TakeBatch, SendInLoop, ConnectDestroyed,
                  FreeBatch, ListChanging
    <2> QED
      BY <1>0, <2>1, <2>2 DEF sendVars, Walking, InRound
  <1>2. CASE SendThread
    <2>1. connections_' = connections_
      BY <1>2, SendStep DEF Moved
    <2>2. CASE CamInit \/ Capture \/ CaptureFails
      BY <1>0, <2>1, <2>2 DEF CamInit, Capture, CaptureFails, Walking, sendVars
    <2>3. CASE Deref \/ Check \/ Queue
      BY <1>0, <2>1, <2>3 DEF Deref, Check, Queue, Walking
    <2>4. CASE Begin \/ Advance
      <3>1. PICK S \in SUBSET connections_ : GoTo({FirstOf(S)})
        BY <1>0, <2>4 DEF Begin, Advance
      <3>2. it' = FirstOf(S) /\ (Walking' => it' # end)
        BY <3>1 DEF GoTo, Walking
      <3>3. S \in SUBSET Conn
        BY <1>0
      <3>4. FirstOf(S) = end \/ FirstOf(S) \in S
        BY <3>3, FirstIsLeast
      <3> QED
        BY <2>1, <3>2, <3>4
    <2> QED
      BY <1>2, <2>2, <2>3, <2>4 DEF SendThread, Round
  <1> QED
    BY <1>1, <1>2 DEF Run

LEMMA SoundStep ==
    ASSUME Control, Sound, [Next]_vars
    PROVE  Sound'
  <1> SUFFICES ASSUME ~overlap' PROVE Sound'
    BY DEF Sound
  <1>0. /\ ~overlap /\ undefined = 0 /\ QueueSound /\ (Walking => it \in connections_)
        /\ ~(InRound /\ ListChanging) /\ ~SendUndefined /\ ~FunctorUndefined
    BY HistoryStep, AllDefined DEF Sound
  <1>1. CASE Run
    <2>1. undefined' = 0
      BY <1>0, <1>1 DEF Run, LoopThread, SendThread
    <2>2. ~(InRound /\ ListChanging)'
      BY <1>1 DEF Run
    <2>3. QueueSound'
      BY <1>0, <1>1, LoopSound, SendSound DEF Run
    <2> QED
      BY <1>1, <2>1, <2>2, <2>3, WalkingStep DEF Sound
  <1>2. CASE Crash
    BY <1>0, <1>2 DEF Crash
  <1>3. CASE Crashed \/ UNCHANGED vars
    <2>1. UNCHANGED <<historyVars, connections_, connVars, loopVars, pendingFunctors, sendVars>>
      BY <1>3 DEF Crashed, vars
    <2>2. Queued' = Queued /\ Gone' = Gone /\ \A c : Left(c)' = Left(c)
      BY <2>1, QueuedKept DEF loopVars, connVars, Gone, Left, Leaving
    <2>3. QueueSound'
      BY <1>0, <2>2, SoundKept
    <2> QED
      BY <1>0, <2>1, <2>3
         DEF Sound, historyVars, sendVars, loopVars, Walking, InRound, ListChanging
  <1> QED
    BY <1>1, <1>2, <1>3 DEF Next

-----------------------------------------------------------------------------
(* Short of an undefined step.                                              *)

Fresh(c) == connState[c] = "new" \/ Inserting(c)

(* The send thread has been to c in this round, or there is no round.       *)
Visited(c) ==
    \/ ~InRound
    \/ sendPc \in {"deref", "check", "queue"} /\ c < it
    \/ sendPc = "next" /\ c <= it

Latest(c) == IF Visited(c) THEN frame ELSE frame - 1

Sends(c) == {i \in 1 .. Len(Queued) : Queued[i].do = "send" /\ Queued[i].conn = c}

NothingFor(c) == written[c] = <<>> /\ Sends(c) = {}

(* The frames queued for c ascend without a gap to frame e.                 *)
QueueGapless(c, e) ==
    /\ \A i, j \in Sends(c) : i < j => Queued[i].frame < Queued[j].frame
    /\ \A i \in Sends(c) :
           /\ Queued[i].frame <= e
           /\ Queued[i].frame < e =>
                  \E j \in Sends(c) : i < j /\ Queued[j].frame = Queued[i].frame + 1

(* And they go on from the last that was written.                           *)
GoesOn(c, e) ==
    LET w == written[c][Len(written[c])] IN
    written[c] # <<>> =>
        /\ w <= e /\ \A i \in Sends(c) : w < Queued[i].frame
        /\ w < e => \E i \in Sends(c) : Queued[i].frame = w + 1

(* The latest frame is, or will be, queued for c: send still takes it, or   *)
(* has just taken it before c was shut down.                                *)
Following(c) == connState[c] = "kConnected" \/ (sendPc = "queue" /\ it = c)

Consecutive ==
    \A c \in Conn : \A i \in 2 .. Len(written[c]) : written[c][i] = written[c][i - 1] + 1

Stream ==
    undefined = 0 =>
        /\ Walking => ~Fresh(it)
        /\ \A c \in Conn : Fresh(c) => NothingFor(c)
        /\ \A c \in Writable : \E e \in Int : /\ QueueGapless(c, e) /\ GoesOn(c, e)
                                              /\ Following(c) => e = Latest(c)
        /\ Consecutive

LEMMA InitStream == Init => Stream
  <1> SUFFICES ASSUME Init PROVE Stream
    OBVIOUS
  <1>1. 1 .. Len(Queued) = {}
    BY ConcatEmptySeq, EmptySeq DEF Init, Queued
  <1>2. \A c \in Conn : written[c] = <<>> /\ Len(written[c]) = 0 /\ connState[c] = "new"
    BY EmptySeq DEF Init
  <1> QED
    BY <1>1, <1>2 DEF Init, Stream, Walking, NothingFor, Sends, Consecutive, Writable, Up

(* The sends and their frames are numbers.                                  *)
LEMMA StreamTypes ==
    ASSUME Control
    PROVE  /\ Conn \subseteq Nat /\ frame \in Nat /\ it \in Conn \cup {end} /\ end \notin Conn
           /\ \A c : \A i \in Sends(c) :
                  i \in 1 .. Len(Queued) /\ i \in Nat /\ Queued[i].frame \in Nat
           /\ \A c \in Conn : /\ written[c] \in Seq(1 .. MaxFrames) /\ Len(written[c]) \in Nat
                              /\ \A i \in 1 .. Len(written[c]) : written[c][i] \in Nat
  <1>1. /\ Conn \subseteq Nat /\ frame \in Nat /\ it \in Conn \cup {end} /\ end \notin Conn
        /\ \A c \in Conn : written[c] \in Seq(1 .. MaxFrames)
    BY ServerAssumption DEF Control, TypeOK
  <1>2. \A c : \A i \in Sends(c) : i \in 1 .. Len(Queued) /\ i \in Nat /\ Queued[i].frame \in Nat
    BY QueuedTypes DEF Sends
  <1>3. ASSUME NEW c \in Conn
        PROVE  /\ written[c] \in Seq(1 .. MaxFrames) /\ Len(written[c]) \in Nat
               /\ \A i \in 1 .. Len(written[c]) : written[c][i] \in Nat
    <2>1. written[c] \in Seq(1 .. MaxFrames) /\ Len(written[c]) \in Nat
      BY <1>1
    <2>2. \A i \in 1 .. Len(written[c]) : written[c][i] \in 1 .. MaxFrames
      BY <2>1, ElementOfSeq
    <2> QED
      BY <2>1, <2>2
  <1> QED
    BY <1>1, <1>2, <1>3

(* Steps that move neither the queued sends nor what is written: it is      *)
(* enough that for each connection that had something the latest frame      *)
(* stays the same.                                                          *)
SendsKept == \A c : Sends(c)' = Sends(c) /\ \A i \in Sends(c) : Queued'[i] = Queued[i]

LEMMA StreamKept ==
    ASSUME Control, Stream, undefined' = 0, undefined = 0, SendsKept, written' = written,
           \A c \in Conn : Fresh(c)' => Fresh(c),
           \A c \in Conn : c \in Writable' =>
               Fresh(c) \/ (c \in Writable /\ (Following(c)' => Following(c) /\ Latest(c)' = Latest(c))),
           Walking' => ~Fresh(it)', frame' \in Nat
    PROVE  Stream'
  <1>1. \A c : Sends(c)' = Sends(c) /\ \A i \in Sends(c) : Queued'[i] = Queued[i]
    BY DEF SendsKept
  <1>2. \A c \in Conn : Fresh(c)' => NothingFor(c)'
    BY <1>1 DEF Stream, NothingFor
  <1>3. ASSUME NEW c \in Conn, c \in Writable'
        PROVE  \E e \in Int : /\ QueueGapless(c, e)' /\ GoesOn(c, e)'
                              /\ Following(c)' => e = Latest(c)'
    <2>1. CASE Fresh(c)
      <3>0. Latest(c)' \in Int
        BY DEF Latest
      <3>1. PICK e \in Int : e = Latest(c)'
        BY <3>0
      <3>2. QueueGapless(c, e)' /\ GoesOn(c, e)'
        BY <1>1, <2>1 DEF Stream, NothingFor, QueueGapless, GoesOn
      <3> QED
        BY <3>1, <3>2
    <2>2. CASE c \in Writable /\ (Following(c)' => Following(c) /\ Latest(c)' = Latest(c))
      <3>1. PICK e \in Int : QueueGapless(c, e) /\ GoesOn(c, e) /\ (Following(c) => e = Latest(c))
        BY <2>2 DEF Stream
      <3>2. QueueGapless(c, e)' /\ GoesOn(c, e)'
        BY <1>1, <3>1 DEF QueueGapless, GoesOn
      <3> QED
        BY <2>2, <3>1, <3>2
    <2> QED
      BY <1>3, <2>1, <2>2
  <1>4. Consecutive'
    BY DEF Stream, Consecutive
  <1>5. \A c \in Writable' : c \in Conn
    BY DEF Writable
  <1> QED
    BY <1>2, <1>3, <1>4, <1>5 DEF Stream

(* The latest frame is queued for the connection the iterator stands on.    *)
LEMMA StreamGrows ==
    ASSUME Control, Stream, undefined = 0, Queue, Moved, frame' = frame, it' = it
    PROVE  Stream'
  <1>1. /\ it \in Conn /\ SendFunctor \in Functor /\ sendPc = "queue" /\ sendPc' = "next"
        /\ UNCHANGED <<connState, loopPc, handled, written, batch>> /\ Writable' = Writable
        /\ pendingFunctors' = Append(pendingFunctors, SendFunctor)
        /\ ~Fresh(it)
    BY FunctorTypes
       DEF Queue, Moved, connVars, loopVars, Control, TypeOK, ListState, InRound, Stream, Walking,
           Writable
  <1> DEFINE n == Len(Queued) + 1
             f == SendFunctor
  <1>2. /\ Len(Queued') = n /\ Len(Queued) \in Nat /\ n \in Nat
        /\ \A i \in 1 .. Len(Queued) : Queued'[i] = Queued[i]
        /\ Queued'[n] = f /\ f.do = "send" /\ f.conn = it /\ f.frame = frame
    BY <1>1, QueuedGrows DEF SendFunctor
  <1>3. \A c : /\ Sends(c)' = IF c = it THEN Sends(c) \cup {n} ELSE Sends(c)
               /\ \A i \in Sends(c) : Queued'[i] = Queued[i] /\ i < n
    <2> HIDE DEF f
    <2> QED
      BY <1>2 DEF Sends
  <1> HIDE DEF f
  <1>4. /\ Latest(it) = frame - 1 /\ Latest(it)' = frame
        /\ \A c \in Conn \ {it} : Latest(c)' = Latest(c)
        /\ \A c \in Conn : Fresh(c)' = Fresh(c) /\ (c # it /\ Following(c)' => Following(c))
    BY <1>1, StreamTypes DEF Latest, Visited, InRound, Fresh, Inserting, Following
  <1>5. \A c \in Conn : Fresh(c) => NothingFor(c)'
    BY <1>1, <1>3 DEF Stream, NothingFor
  <1>6. ASSUME NEW c \in Conn, c # it, c \in Writable
        PROVE  \E e \in Int : /\ QueueGapless(c, e)' /\ GoesOn(c, e)'
                              /\ Following(c)' => e = Latest(c)'
    <2>1. PICK e \in Int : QueueGapless(c, e) /\ GoesOn(c, e) /\ (Following(c) => e = Latest(c))
      BY <1>6 DEF Stream
    <2>2. QueueGapless(c, e)' /\ GoesOn(c, e)'
      BY <1>1, <1>3, <1>6, <2>1 DEF QueueGapless, GoesOn
    <2> QED
      BY <1>4, <1>6, <2>1, <2>2
  <1>7. ASSUME it \in Writable
        PROVE  QueueGapless(it, frame)' /\ GoesOn(it, frame)'
    <2>1. /\ QueueGapless(it, frame - 1) /\ GoesOn(it, frame - 1) /\ frame \in Nat
          /\ \A i \in Sends(it) : Queued[i].frame \in Nat
      BY <1>1, <1>4, <1>7, StreamTypes DEF Stream, Following
    <2>2. \A i \in Sends(it) : Queued[i].frame < frame
      BY <1>4, <2>1 DEF QueueGapless
    <2>3. \A i, j \in Sends(it)' : i < j => Queued'[i].frame < Queued'[j].frame
      <3>1. \A i, j \in Sends(it)' : i < j => i \in Sends(it)
        BY <1>2, <1>3, StreamTypes
      <3>2. \A i \in Sends(it), j \in Sends(it)' : i < j => Queued'[i].frame < Queued'[j].frame
        BY <1>2, <1>3, <2>1, <2>2 DEF QueueGapless
      <3> QED
        BY <3>1, <3>2
    <2>4. ASSUME NEW i \in Sends(it)'
          PROVE  /\ Queued'[i].frame <= frame
                 /\ Queued'[i].frame < frame =>
                        \E j \in Sends(it)' : i < j /\ Queued'[j].frame = Queued'[i].frame + 1
      <3>1. CASE i = n
        BY <1>2, <2>1, <3>1
      <3>2. CASE i \in Sends(it)
        <4>1. Queued'[i].frame = Queued[i].frame /\ Queued[i].frame < frame /\ i < n
          BY <1>3, <2>2, <3>2
        <4>2. CASE Queued[i].frame = frame - 1
          BY <1>2, <1>3, <2>1, <4>1, <4>2
        <4>3. CASE Queued[i].frame < frame - 1
          <5>1. PICK j \in Sends(it) : i < j /\ Queued[j].frame = Queued[i].frame + 1
            BY <1>4, <2>1, <3>2, <4>3 DEF QueueGapless
          <5> QED
            BY <1>3, <4>1, <5>1, <2>1
        <4> QED
          BY <2>1, <3>2, <4>1, <4>2, <4>3
      <3> QED
        BY <1>3, <3>1, <3>2
    <2>5. GoesOn(it, frame)'
      <3> DEFINE w == written[it][Len(written[it])]
      <3> SUFFICES ASSUME written[it] # <<>>
                   PROVE  /\ w <= frame /\ \A i \in Sends(it)' : w < Queued'[i].frame
                          /\ w < frame => \E i \in Sends(it)' : Queued'[i].frame = w + 1
        BY <1>1, <1>4 DEF GoesOn
      <3>1. w \in Nat
        <4>1. Len(written[it]) \in 1 .. Len(written[it])
          BY <1>1, StreamTypes, EmptySeq
        <4> QED
          BY <1>1, <4>1, StreamTypes
      <3>2. /\ w <= frame - 1 /\ \A i \in Sends(it) : w < Queued[i].frame
            /\ w < frame - 1 => \E i \in Sends(it) : Queued[i].frame = w + 1
        BY <1>4, <2>1 DEF GoesOn
      <3> HIDE DEF w
      <3>3. \A i \in Sends(it)' : w < Queued'[i].frame
        BY <1>2, <1>3, <2>1, <3>1, <3>2
      <3>4. CASE w = frame - 1
        <4>1. n \in Sends(it)' /\ Queued'[n].frame = w + 1 /\ w <= frame
          BY <1>2, <1>3, <2>1, <3>1, <3>4
        <4> QED
          BY <3>3, <4>1
      <3>5. CASE w < frame - 1
        BY <1>3, <2>1, <3>1, <3>2, <3>3, <3>5
      <3> QED
        BY <2>1, <3>1, <3>2, <3>3, <3>4, <3>5
    <2> QED
      BY <1>4, <2>3, <2>4, <2>5 DEF QueueGapless
  <1>8. Walking' => ~Fresh(it)'
    BY <1>1, <1>4
  <1>9. ASSUME NEW c \in Writable
        PROVE  \E e \in Int : /\ QueueGapless(c, e)' /\ GoesOn(c, e)'
                              /\ Following(c)' => e = Latest(c)'
    <2>1. CASE c = it
      <3>1. PICK e \in Int : e = frame
        BY StreamTypes
      <3>2. QueueGapless(c, e)' /\ GoesOn(c, e)'
        BY <1>7, <1>9, <2>1, <3>1 DEF QueueGapless, GoesOn
      <3> QED
        BY <1>4, <2>1, <3>1, <3>2
    <2>2. CASE c # it
      BY <1>6, <1>9, <2>2 DEF Writable
    <2> QED
      BY <2>1, <2>2
  <1>10. Consecutive'
    BY <1>1 DEF Stream, Consecutive
  <1> QED
    BY <1>1, <1>4, <1>5, <1>8, <1>9, <1>10 DEF Stream

(* The oldest functor is run: a send moves from the queue to its connection *)
(* while that is up.                                                        *)
LEMMA StreamShrinks ==
    ASSUME Control, Stream, undefined = 0, ~FunctorUndefined, SendInLoop \/ ConnectDestroyed
    PROVE  Stream'
  <1> DEFINE f == Queued[1]
  <1>1. /\ Head(batch) = f /\ f \in Functor /\ Len(Queued) \in Nat \ {0}
        /\ Len(Queued') = Len(Queued) - 1
        /\ \A i \in 1 .. Len(Queued) - 1 : Queued'[i] = Queued[i + 1]
    BY QueuedShrinks
  <1>2. /\ UNCHANGED <<connState, loopPc, handled, sendPc, it, frame>> /\ Writable' = Writable
        /\ f.conn \in Conn /\ (f.do = "send" => f.frame \in 1 .. MaxFrames)
        /\ written' = IF f.do = "send" /\ f.conn \in Writable
                        THEN [written EXCEPT ![f.conn] = Append(@, f.frame)] ELSE written
    <2>1. f.conn \in Conn /\ (f.do = "send" => f.frame \in 1 .. MaxFrames)
      BY <1>1, FunctorTypes
    <2>2. UNCHANGED <<connState, halfClosed, loopPc, handled, sendPc, it, frame>>
      BY DEF SendInLoop, ConnectDestroyed, connVars, sendVars
    <2>3. Writable' = Writable
      BY <2>2 DEF Writable
    <2>4. CASE SendInLoop
      BY <1>1, <2>1, <2>2, <2>3, <2>4, WhatIsWritten DEF SendInLoop
    <2>5. CASE ConnectDestroyed
      BY <1>1, <2>1, <2>2, <2>3, <2>5 DEF ConnectDestroyed
    <2> QED
      BY <2>4, <2>5
  <1> HIDE DEF f
  <1>3. \A c : /\ \A i \in Sends(c)' : i + 1 \in Sends(c) /\ Queued'[i] = Queued[i + 1] /\ i \in Nat \ {0}
               /\ \A i \in Sends(c) : i = 1 \/ (i - 1 \in Sends(c)' /\ Queued'[i - 1] = Queued[i])
               /\ 1 \in Sends(c) <=> f.do = "send" /\ f.conn = c
    <2>1. /\ \A i \in 1 .. Len(Queued) - 1 : i + 1 \in 1 .. Len(Queued)
          /\ \A i \in 1 .. Len(Queued) : i = 1 \/ (i - 1 \in 1 .. Len(Queued) - 1 /\ (i - 1) + 1 = i)
          /\ 1 \in 1 .. Len(Queued)
      BY <1>1
    <2> QED
      BY <1>1, <2>1 DEF Sends, f
  <1>4. /\ \A c : Fresh(c)' = Fresh(c) /\ Latest(c)' = Latest(c) /\ Following(c)' = Following(c)
        /\ Walking' => ~Fresh(it)'
    BY <1>2 DEF Fresh, Inserting, Latest, Visited, InRound, Walking, Stream, Following
  <1>5. \A c \in Conn : Fresh(c) => NothingFor(c)'
    <2>1. ASSUME NEW c \in Conn, Fresh(c)
          PROVE  NothingFor(c)'
      <3>1. written[c] = <<>> /\ Sends(c) = {}
        BY <2>1 DEF Stream, NothingFor
      <3>2. Sends(c)' = {} /\ ~(f.do = "send" /\ f.conn = c)
        BY <1>3, <3>1
      <3>3. written'[c] = written[c]
        BY <1>2, <3>2 DEF Control, TypeOK
      <3> QED
        BY <3>1, <3>2, <3>3 DEF NothingFor
    <2> QED
      BY <2>1
  <1>6. ASSUME NEW c \in Writable, NEW e \in Int, QueueGapless(c, e)
        PROVE  QueueGapless(c, e)'
    <2>1. QueueGapless(c, e) /\ \A i \in Sends(c) : Queued[i].frame \in Nat /\ i \in Nat
      BY <1>6, StreamTypes
    <2>2. \A i, j \in Sends(c)' : i < j => Queued'[i].frame < Queued'[j].frame
      <3>1. \A i, j \in Sends(c)' : i < j => i + 1 < j + 1
        BY <1>3
      <3> QED
        BY <1>3, <2>1, <3>1 DEF QueueGapless
    <2>3. ASSUME NEW i \in Sends(c)', Queued'[i].frame < e
          PROVE  \E j \in Sends(c)' : i < j /\ Queued'[j].frame = Queued'[i].frame + 1
      <3>1. PICK j \in Sends(c) : i + 1 < j /\ Queued[j].frame = Queued[i + 1].frame + 1
        BY <1>3, <2>1, <2>3 DEF QueueGapless
      <3>2. j - 1 \in Sends(c)' /\ Queued'[j - 1] = Queued[j] /\ i < j - 1
        BY <1>3, <2>1, <3>1
      <3> QED
        BY <1>3, <3>1, <3>2
    <2>4. \A i \in Sends(c)' : Queued'[i].frame <= e
      BY <1>3, <2>1 DEF QueueGapless
    <2> QED
      BY <2>2, <2>3, <2>4 DEF QueueGapless
  (* Where nothing is written.                                              *)
  <1>7. ASSUME NEW c \in Writable, ~(f.do = "send" /\ f.conn = c),
               NEW e \in Int, GoesOn(c, e)
        PROVE  GoesOn(c, e)'
    <2>1. GoesOn(c, e) /\ 1 \notin Sends(c) /\ written'[c] = written[c]
      BY <1>2, <1>3, <1>7 DEF Control, TypeOK, Writable
    <2> QED
      BY <1>3, <2>1 DEF GoesOn
  (* Where it is, the frame is the next one.                                *)
  <1>8. ASSUME NEW c \in Writable, f.conn = c, f.do = "send",
               NEW e \in Int, QueueGapless(c, e), GoesOn(c, e)
        PROVE  /\ GoesOn(c, e)'
               /\ \A i \in 2 .. Len(written'[c]) : written'[c][i] = written'[c][i - 1] + 1
    <2> DEFINE w == written[c]
    <2>1. /\ c \in Conn /\ 1 \in Sends(c) /\ Queued[1].frame = f.frame /\ f.frame \in Nat
          /\ w \in Seq(1 .. MaxFrames) /\ Len(w) \in Nat
          /\ \A i \in 1 .. Len(w) : w[i] \in Nat
      BY <1>2, <1>3, <1>8, StreamTypes DEF f, Writable
    <2>2. written'[c] = Append(w, f.frame)
      BY <1>2, <1>8 DEF Control, TypeOK, Writable
    <2>3. /\ Len(written'[c]) = Len(w) + 1 /\ written'[c] # <<>>
          /\ \A i \in 1 .. Len(w) + 1 :
                 written'[c][i] = IF i = Len(w) + 1 THEN f.frame ELSE w[i]
      <3>1. f.frame \in 1 .. MaxFrames
        BY <1>2, <1>8
      <3> HIDE DEF w
      <3> QED
        <4>1. /\ Len(Append(w, f.frame)) = Len(w) + 1
              /\ \A i \in 1 .. Len(w) + 1 :
                     Append(w, f.frame)[i] = IF i = Len(w) + 1 THEN f.frame ELSE w[i]
          BY <2>1, <3>1, AppendProperties
        <4>2. Append(w, f.frame) # <<>>
          BY <2>1, <4>1
        <4> QED
          BY <2>2, <4>1, <4>2, Zenon
    <2>4. /\ QueueGapless(c, e) /\ GoesOn(c, e) /\ e \in Int
          /\ \A i \in Sends(c) : Queued[i].frame \in Nat /\ i \in Nat /\ i >= 1
      BY <1>8, <2>1, StreamTypes
    <2>5. \A i \in Sends(c) : i = 1 \/ (1 < i /\ f.frame < Queued[i].frame)
      BY <2>1, <2>4 DEF QueueGapless
    <2>6. GoesOn(c, e)'
      <3>1. written'[c][Len(written'[c])] = f.frame /\ f.frame <= e
        <4>1. f.frame <= e
          BY <2>1, <2>4 DEF QueueGapless
        <4>2. Len(written'[c]) = Len(w) + 1 /\ Len(w) + 1 \in 1 .. Len(w) + 1
          BY <2>1, <2>3
        <4> QED
          BY <2>3, <4>1, <4>2
      <3>2. \A i \in Sends(c)' : f.frame < Queued'[i].frame
        BY <1>3, <2>5
      <3>3. ASSUME f.frame < e
            PROVE  \E i \in Sends(c)' : Queued'[i].frame = f.frame + 1
        <4>1. PICK j \in Sends(c) : 1 < j /\ Queued[j].frame = f.frame + 1
          BY <2>1, <2>4, <3>3 DEF QueueGapless
        <4> QED
          BY <1>3, <4>1
      <3> QED
        BY <3>1, <3>2, <3>3 DEF GoesOn
    <2>7. w # <<>> => f.frame = w[Len(w)] + 1
      <3> SUFFICES ASSUME w # <<>> PROVE f.frame = w[Len(w)] + 1
        OBVIOUS
      <3>1. Len(w) \in 1 .. Len(w)
        BY <2>1, EmptySeq
      <3> DEFINE last == w[Len(w)]
      <3>2. /\ last \in Nat /\ last <= e /\ last < f.frame
            /\ last < e => \E i \in Sends(c) : Queued[i].frame = last + 1
        BY <2>1, <2>4, <3>1 DEF GoesOn
      <3> HIDE DEF last
      <3>3. f.frame <= e
        BY <2>1, <2>4 DEF QueueGapless
      <3>4. PICK i \in Sends(c) : Queued[i].frame = last + 1
        BY <2>1, <2>4, <3>2, <3>3
      <3> QED
        BY <2>1, <2>5, <3>2, <3>4 DEF last
    <2>8. \A i \in 2 .. Len(w) + 1 : written'[c][i] = written'[c][i - 1] + 1
      <3>1. \A i \in 2 .. Len(w) : w[i] = w[i - 1] + 1
        BY <2>1 DEF Stream, Consecutive
      <3>2. ASSUME NEW i \in 2 .. Len(w) + 1
            PROVE  written'[c][i] = written'[c][i - 1] + 1
        <4>1. i \in 1 .. Len(w) + 1 /\ i - 1 \in 1 .. Len(w) + 1 /\ i - 1 # Len(w) + 1
          BY <2>1, <3>2
        <4>2. CASE i = Len(w) + 1
          <5>1. w # <<>> /\ i - 1 = Len(w)
            BY <2>1, <3>2, <4>2, EmptySeq
          <5> QED
            BY <2>3, <2>7, <4>1, <4>2, <5>1
        <4>3. CASE i # Len(w) + 1
          <5>1. i \in 2 .. Len(w)
            BY <2>1, <3>2, <4>3
          <5> QED
            BY <2>3, <3>1, <4>1, <4>3, <5>1
        <4> QED
          BY <4>2, <4>3
      <3> QED
        BY <3>2
    <2> QED
      BY <2>3, <2>6, <2>8
  <1>9. ASSUME NEW c \in Writable
        PROVE  /\ \E e \in Int : /\ QueueGapless(c, e)' /\ GoesOn(c, e)'
                                 /\ Following(c)' => e = Latest(c)'
               /\ f.do = "send" /\ f.conn = c =>
                      \A i \in 2 .. Len(written'[c]) : written'[c][i] = written'[c][i - 1] + 1
    <2>1. PICK e \in Int : QueueGapless(c, e) /\ GoesOn(c, e) /\ (Following(c) => e = Latest(c))
      BY <1>9 DEF Stream
    <2>2. QueueGapless(c, e)' /\ GoesOn(c, e)'
      BY <1>6, <1>7, <1>8, <1>9, <2>1
    <2>3. f.do = "send" /\ f.conn = c =>
              \A i \in 2 .. Len(written'[c]) : written'[c][i] = written'[c][i - 1] + 1
      BY <1>8, <1>9, <2>1
    <2> QED
      BY <1>4, <2>1, <2>2, <2>3
  <1>10. Consecutive'
    <2>1. ASSUME NEW c \in Conn, ~(f.do = "send" /\ f.conn = c /\ c \in Writable)
          PROVE  written'[c] = written[c]
      BY <1>2, <2>1 DEF Control, TypeOK
    <2> QED
      BY <1>9, <2>1 DEF Stream, Consecutive
  <1> QED
    BY <1>2, <1>4, <1>5, <1>9, <1>10 DEF Stream

(* The other steps of the send thread: none of them changes the latest      *)
(* frame of a connection that is up, because the walk visits every one.     *)
LEMMA StreamWalks ==
    ASSUME Control, Stream, undefined = 0, ~SendUndefined,
           CamInit \/ Capture \/ CaptureFails \/ Begin \/ Deref \/ Check \/ Advance
    PROVE  /\ Walking' => ~Fresh(it)'
           /\ \A c \in Conn : Fresh(c) \/ (Following(c)' => Following(c) /\ Latest(c)' = Latest(c))
  <1>0. /\ Conn \subseteq Nat /\ frame \in Nat /\ end \notin Conn /\ connections_ \subseteq Conn
        /\ it \in Conn \cup {end}
        /\ UNCHANGED <<connState, loopPc, handled, connections_>>
        /\ \A c \in Conn : Fresh(c)' = Fresh(c)
    <2>1. Moved
      BY DEF CamInit, Capture, CaptureFails, Begin, Deref, Check, Advance, GoTo
    <2> QED
      BY <2>1, StreamTypes
         DEF Moved, connVars, loopVars, Fresh, Inserting, Control, TypeOK
  (* Only a connection that is up is followed afterwards.                   *)
  <1>01. \A c \in Conn : Following(c)' => connState[c] = "kConnected"
    BY <1>0 DEF Following, CamInit, Capture, CaptureFails, Begin, Deref, Check, Advance, GoTo,
        sendVars
  <1> SUFFICES /\ Walking' => ~Fresh(it)'
               /\ \A c \in Conn : connState[c] = "kConnected" => Fresh(c) \/ Latest(c)' = Latest(c)
    BY <1>01 DEF Following
  <1>1. CASE CamInit \/ CaptureFails
    BY <1>0, <1>1 DEF CamInit, CaptureFails, sendVars, Walking, Latest, Visited, InRound
  <1>2. CASE Capture
    BY <1>0, <1>2 DEF Capture, Walking, Latest, Visited, InRound
  <1>3. CASE Deref
    BY <1>0, <1>3 DEF Deref, Walking, Latest, Visited, InRound, Stream, Control, TypeOK
  <1>4. CASE Check
    <2>1. /\ sendPc = "check" /\ it \in Conn /\ it' = it /\ frame' = frame
          /\ sendPc' = IF connState[it] = "kConnected" THEN "queue" ELSE "next"
      BY <1>4 DEF Check, Control, TypeOK
    <2>2. ~Fresh(it)' /\ it' \in Conn
      BY <1>0, <2>1 DEF Stream, Walking
    <2>3. ASSUME NEW c \in Conn, connState[c] = "kConnected"
          PROVE  Latest(c)' = Latest(c)
      BY <1>0, <2>1, <2>3 DEF Latest, Visited, InRound
    <2> QED
      BY <2>2, <2>3
  <1>5. CASE Begin \/ Advance
    <2> DEFINE S == IF sendPc = "begin" THEN connections_ ELSE {c \in connections_ : c > it}
    <2>1. /\ sendPc \in {"begin", "next"} /\ frame' = frame /\ it' = FirstOf(S)
          /\ sendPc' = IF it' = end THEN "capture" ELSE "deref"
          /\ ~ListChanging /\ (sendPc = "next" => it \in Conn)
      BY <1>5 DEF Begin, Advance, GoTo, SendUndefined, Control, TypeOK
    <2>2. S \in SUBSET Conn /\ S \subseteq connections_
      BY <1>0
    <2>3. /\ S = {} => it' = end
          /\ S # {} => it' \in S /\ \A d \in S : it' <= d
      BY <2>1, <2>2, FirstIsLeast
    (* The set is whole: no change of it is under way.                      *)
    <2>4. \A c \in Conn : c \in connections_ => ~Fresh(c)
      BY <1>0, <2>1 DEF ListChanging, Fresh, Inserting, Control, ListState, Up
    <2>5. Walking' => ~Fresh(it)'
      <3>1. Walking' => it' \in S
        BY <1>0, <2>1, <2>3 DEF Walking
      <3> QED
        BY <1>0, <2>2, <2>4, <3>1
    <2>6. ASSUME NEW c \in Conn, connState[c] = "kConnected"
          PROVE  Latest(c)' = Latest(c)
      <3>1. c \in connections_ /\ c \in Nat
        BY <1>0, <2>1, <2>6 DEF ListChanging, Inserting, Control, ListState, Up
      <3>2. Visited(c) <=> c \notin S
        BY <1>0, <2>1, <3>1 DEF Visited, InRound
      <3>3. CASE S = {}
        BY <2>1, <2>3, <3>2, <3>3 DEF Latest, Visited, InRound
      <3>4. CASE S # {}
        <4>1. it' \in S /\ it' \in Conn /\ it' # end /\ sendPc' = "deref"
          BY <1>0, <2>1, <2>2, <2>3, <3>4
        <4>2. c \in S => ~(c < it')
          <5>1. c \in S => it' <= c
            BY <2>3, <3>4
          <5>2. it' \in Nat
            BY <1>0, <4>1
          <5> QED
            BY <3>1, <5>1, <5>2
        <4>3. c \notin S => c < it'
          <5>1. CASE sendPc = "begin"
            BY <3>1, <5>1
          <5>2. CASE sendPc = "next"
            BY <1>0, <2>1, <3>1, <4>1, <5>2
          <5> QED
            BY <2>1, <5>1, <5>2
        <4>4. Visited(c)' <=> c \notin S
          BY <4>1, <4>2, <4>3 DEF Visited, InRound
        <4> QED
          BY <2>1, <3>2, <4>4 DEF Latest
      <3> QED
        BY <3>3, <3>4
    <2> QED
      BY <2>5, <2>6
  <1> QED
    BY <1>1, <1>2, <1>3, <1>4, <1>5

LEMMA StreamStep ==
    ASSUME Control, Stream, [Next]_vars
    PROVE  Stream'
  <1> SUFFICES ASSUME undefined' = 0 PROVE Stream'
    BY DEF Stream
  <1>0. undefined = 0
    BY HistoryStep DEF Control, TypeOK
  <1>1. CASE LoopThread
    <2> USE DEF LoopHandler, Functors
    <2>0. UNCHANGED sendVars
      BY <1>1 DEF LoopThread, Poll, NewConnection, Shutdown, ShutdownWrite, HandleClose, Insert,
                  Erase, Remove, TakeBatch, SendInLoop, ConnectDestroyed, FreeBatch
    <2>1. CASE SendInLoop \/ ConnectDestroyed
      <3>1. ~FunctorUndefined
        BY <1>0, <1>1 DEF LoopThread
      <3> QED
        BY <1>0, <2>1, <3>1, StreamShrinks
    <2>2. CASE \/ Poll \/ Insert \/ Erase \/ Remove \/ TakeBatch \/ FreeBatch
               \/ \E c \in Conn : NewConnection(c) \/ Shutdown(c) \/ ShutdownWrite(c) \/ HandleClose(c)
      <3>1. \A c \in Conn : Latest(c)' = Latest(c)
        BY <2>0 DEF sendVars, Latest, Visited, InRound
      <3>2. written' = written
        BY <2>2 DEF Poll, NewConnection, Shutdown, ShutdownWrite, HandleClose, Insert, Erase,
                    Remove, TakeBatch, FreeBatch
      <3>3. \A c \in Conn :
                /\ Fresh(c)' => Fresh(c)
                /\ connState'[c] = "kConnected" => Fresh(c) \/ connState[c] = "kConnected"
                /\ c \in Writable' => Fresh(c) \/ c \in Writable
        <4>1. CASE \/ Poll \/ Insert \/ Erase \/ Remove \/ TakeBatch \/ FreeBatch
          BY <4>1 DEF Poll, Insert, Erase, Remove, TakeBatch, FreeBatch, connVars, loopVars, Fresh,
                      Inserting, Writable, Control, ListState
        <4>2. CASE \E c \in Conn : NewConnection(c) \/ Shutdown(c) \/ ShutdownWrite(c) \/ HandleClose(c)
          BY <4>2 DEF NewConnection, Shutdown, ShutdownWrite, HandleClose, loopVars, Fresh,
                      Inserting, Writable, Up, Control, TypeOK, ListState
        <4> QED
          BY <2>2, <4>1, <4>2
      <3>4. Walking' => ~Fresh(it)'
        BY <1>0, <2>0, <3>3 DEF sendVars, Walking, Stream, Control, TypeOK
      <3>5. SendsKept
        <4>1. CASE Remove
          <5>1. /\ [do |-> "destroy", conn |-> handled] \in Functor /\ batch' = batch
                /\ pendingFunctors' =
                       Append(pendingFunctors, [do |-> "destroy", conn |-> handled])
            BY <4>1, FunctorTypes DEF Remove, Control, ListState
          <5>2. /\ Len(Queued') = Len(Queued) + 1 /\ Len(Queued) \in Nat
                /\ \A i \in 1 .. Len(Queued) : Queued'[i] = Queued[i]
                /\ Queued'[Len(Queued) + 1].do = "destroy"
            BY <5>1, QueuedGrows
          <5> QED
            BY <5>2 DEF SendsKept, Sends
        <4>2. CASE ~Remove
          <5>1. Queued' = Queued
            BY <2>2, <4>2, QueuedKept, QueuedMoves
               DEF Poll, NewConnection, Shutdown, ShutdownWrite, HandleClose, Insert, Erase,
                   FreeBatch, loopVars
          <5> QED
            BY <5>1 DEF SendsKept, Sends
        <4> QED
          BY <4>1, <4>2
      <3>6. frame' \in Nat /\ \A c \in Conn : Following(c)' => Fresh(c) \/ Following(c)
        BY <2>0, <3>3, StreamTypes DEF Following, sendVars
      <3> QED
        BY <1>0, <3>1, <3>2, <3>3, <3>4, <3>5, <3>6, StreamKept
    <2> QED
      BY <1>1, <2>1, <2>2 DEF LoopThread
  <1>2. CASE SendThread
    <2>0. Moved /\ ~SendUndefined
      BY <1>0, <1>2, SendStep DEF SendThread
    <2>1. CASE Queue
      BY <1>0, <2>0, <2>1, StreamGrows DEF Queue
    <2>2. CASE CamInit \/ Capture \/ CaptureFails \/ Begin \/ Deref \/ Check \/ Advance
      <3>1. /\ Walking' => ~Fresh(it)'
            /\ \A c \in Conn : Fresh(c) \/ (Following(c)' => Following(c) /\ Latest(c)' = Latest(c))
        BY <1>0, <2>0, <2>2, StreamWalks
      <3>2. UNCHANGED <<batch, pendingFunctors, written, connState, halfClosed, loopPc, handled>>
        BY <2>0, <2>2 DEF Moved, connVars, loopVars, CamInit, Capture, CaptureFails, Begin,
                          Deref, Check, Advance, GoTo
      <3>3. SendsKept
        BY <3>2, QueuedKept DEF SendsKept, Sends
      <3>4. /\ Writable' = Writable /\ frame' \in Nat
            /\ \A c \in Conn : Fresh(c)' = Fresh(c)
        BY <1>2, <3>2, SendStep DEF Writable, Fresh, Inserting
      <3> QED
        BY <1>0, <3>1, <3>2, <3>3, <3>4, StreamKept
    <2> QED
      BY <1>2, <2>1, <2>2 DEF SendThread, Round
  <1>3. CASE Crash
    BY <1>0, <1>3 DEF Crash
  <1>4. CASE Crashed \/ UNCHANGED vars
    <2>1. UNCHANGED <<connections_, connVars, loopVars, pendingFunctors, sendVars, written>>
      BY <1>4 DEF Crashed, vars
    <2>2. SendsKept
      BY <2>1, QueuedKept DEF SendsKept, Sends, loopVars
    <2>3. /\ \A c \in Conn : /\ Fresh(c)' = Fresh(c) /\ Latest(c)' = Latest(c)
                             /\ Following(c)' = Following(c)
          /\ UNCHANGED <<connState, it, sendPc>> /\ Writable' = Writable /\ frame' \in Nat
      BY <2>1, StreamTypes DEF connVars, loopVars, sendVars, Fresh, Inserting, Latest, Visited,
                               InRound, Following, Writable
    <2>4. Walking' => ~Fresh(it)'
      BY <1>0, <2>1, <2>3 DEF Stream, Walking, Fresh, Inserting, connVars, loopVars
    <2> QED
      BY <1>0, <2>1, <2>2, <2>3, <2>4, StreamKept
  <1> QED
    BY <1>1, <1>2, <1>3, <1>4 DEF Next, Run

-----------------------------------------------------------------------------
IInv == Control /\ Sound /\ Stream

(* In every reachable state the invariant holds.                            *)
THEOREM Invariant == Spec => []IInv
  <1>1. Init => IInv
    BY InitControl, InitSound, InitStream DEF IInv
  <1>2. IInv /\ [Next]_vars => IInv'
    BY ControlStep, SoundStep, StreamStep DEF IInv
  <1> QED
    BY <1>1, <1>2, PTL DEF Spec

(* The types of the server's state; in particular, the send thread goes on  *)
(* only with an iterator that is not end().                                 *)
THEOREM TypeCorrect == Spec => []TypeOK
  BY Invariant, PTL DEF IInv, Control

(* Outside onConnection connections_ holds exactly the connections that     *)
(* have come up and are not closed, those that the codec has shut down      *)
(* included, whatever the send thread does meanwhile.                       *)
THEOREM ListFollowsState == Spec => []ListIsConnected
  <1>1. IInv => ListIsConnected
    <2> SUFFICES ASSUME IInv, loopPc \in {"poll", "functors"}
                 PROVE  connections_ = {c \in Conn : connState[c] \in Up}
      BY DEF ListIsConnected
    <2>1. connections_ \subseteq Conn
      BY DEF IInv, Control, TypeOK
    <2>2. \A c \in Conn : c \in connections_ <=> connState[c] \in Up
      BY DEF IInv, Control, ListState, Inserting
    <2> QED
      BY <2>1, <2>2
  <1> QED
    BY <1>1, Invariant, PTL

(* No step is undefined before a change of the list overlaps a round: the   *)
(* raw pointers alone do no harm.                                           *)
THEOREM HarmNeedsOverlap == Spec => []UndefinedOnlyOnOverlap
  <1>1. IInv => UndefinedOnlyOnOverlap
    BY DEF IInv, Control, TypeOK, Sound, UndefinedOnlyOnOverlap
  <1> QED
    BY <1>1, Invariant, PTL

(* As long as every step was defined, each client gets consecutive frames.  *)
THEOREM GaplessStreams == Spec => []FramesConsecutive
  <1>1. IInv => FramesConsecutive
    BY DEF IInv, Stream, Consecutive, FramesConsecutive
  <1> QED
    BY <1>1, Invariant, PTL

-----------------------------------------------------------------------------
(* Whatever was undefined: frames only grow older from the send thread      *)
(* through the functors to what was written.                                *)
Sending(i) == i \in 1 .. Len(Queued) /\ Queued[i].do = "send"

Ordered ==
    /\ \A i, j \in 1 .. Len(Queued) :
           i <= j /\ Sending(i) /\ Sending(j) => Queued[i].frame <= Queued[j].frame
    /\ \A i \in 1 .. Len(Queued) : Sending(i) => Queued[i].frame <= frame
    /\ \A c \in Conn : \A k \in 1 .. Len(written[c]) :
           /\ written[c][k] <= frame
           /\ \A i \in 1 .. Len(Queued) : Sending(i) => written[c][k] <= Queued[i].frame

LEMMA OrderedTypes ==
    ASSUME Control
    PROVE  /\ frame \in Nat /\ Len(Queued) \in Nat
           /\ \A i \in 1 .. Len(Queued) :
                  /\ Queued[i].conn \in Conn /\ Queued[i].do \in {"send", "destroy"}
                  /\ Sending(i) => Queued[i].frame \in Nat
           /\ \A c \in Conn : /\ Len(written[c]) \in Nat
                              /\ \A k \in 1 .. Len(written[c]) : written[c][k] \in Nat
  BY QueuedTypes, StreamTypes DEF Sending

LEMMA OrderedKept ==
    ASSUME Control, Ordered, Queued' = Queued, written' = written,
           frame' \in Nat, frame <= frame'
    PROVE  Ordered'
  <1>1. \A i : Sending(i)' <=> Sending(i)
    BY DEF Sending
  <1>2. \A i \in 1 .. Len(Queued) : Sending(i) => Queued[i].frame <= frame'
    BY OrderedTypes DEF Ordered
  <1>3. \A c \in Conn : \A k \in 1 .. Len(written[c]) : written[c][k] <= frame'
    BY OrderedTypes DEF Ordered
  <1> QED
    BY <1>1, <1>2, <1>3 DEF Ordered

(* A frame that is queued is the latest there is.                           *)
LEMMA OrderedGrows ==
    ASSUME Control, Ordered, NEW f \in Functor, f.do = "send" => f.frame = frame,
           batch' = batch, pendingFunctors' = Append(pendingFunctors, f),
           UNCHANGED <<written, frame>>
    PROVE  Ordered'
  <1> DEFINE n == Len(Queued) + 1
  <1>1. /\ Len(Queued') = n /\ Len(Queued) \in Nat /\ n \in Nat
        /\ \A i \in 1 .. Len(Queued) : Queued'[i] = Queued[i]
        /\ Queued'[n] = f
    BY QueuedGrows
  <1>2. \A i \in 1 .. n : i = n \/ (i \in 1 .. Len(Queued) /\ i < n)
    BY <1>1
  <1>3. \A i \in 1 .. n : Sending(i)' <=> IF i = n THEN f.do = "send" ELSE Sending(i)
    BY <1>1, <1>2 DEF Sending
  <1>4. ASSUME NEW i \in 1 .. n, Sending(i)'
        PROVE  Queued'[i].frame <= frame /\ (i = n => Queued'[i].frame = frame)
    BY <1>1, <1>2, <1>3, <1>4, OrderedTypes DEF Ordered
  <1>5. ASSUME NEW i \in 1 .. n, NEW j \in 1 .. n, i <= j, Sending(i)', Sending(j)'
        PROVE  Queued'[i].frame <= Queued'[j].frame
    <2>1. CASE j = n
      BY <1>4, <1>5, <2>1
    <2>2. CASE j # n
      <3>1. i \in 1 .. Len(Queued) /\ j \in 1 .. Len(Queued) /\ i # n
        BY <1>1, <1>2, <1>5, <2>2
      <3> QED
        BY <1>1, <1>3, <1>5, <2>2, <3>1 DEF Ordered
    <2> QED
      BY <2>1, <2>2
  <1>6. ASSUME NEW c \in Conn, NEW k \in 1 .. Len(written[c]), NEW i \in 1 .. n, Sending(i)'
        PROVE  written[c][k] <= Queued'[i].frame
    <2>1. CASE i = n
      BY <1>4, <1>6, <2>1 DEF Ordered
    <2>2. CASE i # n
      BY <1>1, <1>2, <1>3, <1>6, <2>2 DEF Ordered
    <2> QED
      BY <2>1, <2>2
  <1> HIDE DEF n
  <1> QED
    BY <1>1, <1>4, <1>5, <1>6 DEF Ordered

(* The oldest functor is run: what it writes is no older than what was      *)
(* written, and no newer than what is still queued.                         *)
LEMMA OrderedShrinks ==
    ASSUME Control, Ordered, SendInLoop \/ ConnectDestroyed
    PROVE  Ordered'
  <1> DEFINE f == Queued[1]
  <1>1. /\ Head(batch) = f /\ f \in Functor /\ Len(Queued) \in Nat \ {0}
        /\ Len(Queued') = Len(Queued) - 1
        /\ \A i \in 1 .. Len(Queued) - 1 : Queued'[i] = Queued[i + 1]
    BY QueuedShrinks
  <1>2. /\ frame' = frame /\ (f.do = "send" => f.frame \in 1 .. MaxFrames)
        /\ \/ written' = written
           \/ f.do = "send" /\ \E d \in Conn : written' = [written EXCEPT ![d] = Append(@, f.frame)]
    <2>1. f.do = "send" => f.frame \in 1 .. MaxFrames
      BY <1>1, FunctorTypes
    <2>2. CASE SendInLoop
      BY <1>1, <2>1, <2>2, WhatIsWritten DEF SendInLoop, sendVars
    <2>3. CASE ConnectDestroyed
      BY <2>1, <2>3 DEF ConnectDestroyed, sendVars
    <2> QED
      BY <2>2, <2>3
  <1>3. /\ 1 \in 1 .. Len(Queued)
        /\ \A i \in 1 .. Len(Queued') : /\ i + 1 \in 1 .. Len(Queued) /\ i \in 1 .. Len(Queued) - 1
                                        /\ 1 <= i + 1
    BY <1>1
  <1>4. \A i \in 1 .. Len(Queued') :
            Queued'[i] = Queued[i + 1] /\ (Sending(i)' => Sending(i + 1))
    BY <1>1, <1>3 DEF Sending
  <1>5. Sending(1) <=> f.do = "send"
    BY <1>3 DEF Sending
  <1> HIDE DEF f
  <1>6. \A i, j \in 1 .. Len(Queued') :
            i <= j /\ Sending(i)' /\ Sending(j)' => Queued'[i].frame <= Queued'[j].frame
    <2>1. \A i, j \in 1 .. Len(Queued') : i <= j => i + 1 <= j + 1
      BY <1>1
    <2> QED
      BY <1>3, <1>4, <2>1 DEF Ordered
  <1>7. \A i \in 1 .. Len(Queued') : Sending(i)' => Queued'[i].frame <= frame
    BY <1>3, <1>4 DEF Ordered
  <1>8. ASSUME NEW c \in Conn
        PROVE  \A k \in 1 .. Len(written'[c]) :
                   /\ written'[c][k] <= frame
                   /\ \A i \in 1 .. Len(Queued') : Sending(i)' => written'[c][k] <= Queued'[i].frame
    <2>1. \A k \in 1 .. Len(written[c]) :
              /\ written[c][k] <= frame
              /\ \A i \in 1 .. Len(Queued') : Sending(i)' => written[c][k] <= Queued'[i].frame
      BY <1>3, <1>4 DEF Ordered
    <2>2. CASE f.do = "send" /\ written' = [written EXCEPT ![c] = Append(@, f.frame)]
      <3>1. written'[c] = Append(written[c], f.frame) /\ written[c] \in Seq(1 .. MaxFrames)
            /\ f.frame \in 1 .. MaxFrames
        BY <1>2, <2>2 DEF Control, TypeOK
      <3>2. /\ Len(written'[c]) = Len(written[c]) + 1
            /\ \A k \in 1 .. Len(written[c]) : written'[c][k] = written[c][k]
            /\ written'[c][Len(written[c]) + 1] = f.frame
        BY <3>1, AppendProperties
      <3>3. /\ f.frame <= frame
            /\ \A i \in 1 .. Len(Queued') : Sending(i)' => f.frame <= Queued'[i].frame
        BY <1>3, <1>4, <1>5, <2>2 DEF Ordered, f
      <3>4. \A k \in 1 .. Len(written'[c]) : k \in 1 .. Len(written[c]) \/ k = Len(written[c]) + 1
        BY <3>2, OrderedTypes
      <3> QED
        BY <2>1, <3>2, <3>3, <3>4
    <2>3. CASE ~(f.do = "send" /\ written' = [written EXCEPT ![c] = Append(@, f.frame)])
      <3>1. written'[c] = written[c]
        BY <1>2, <2>3 DEF Control, TypeOK
      <3> QED
        BY <2>1, <3>1
    <2> QED
      BY <2>2, <2>3
  <1> QED
    BY <1>2, <1>6, <1>7, <1>8 DEF Ordered

LEMMA OrderedStep ==
    ASSUME Control, Ordered, [Next]_vars
    PROVE  Ordered'
  <1>0. frame \in Nat
    BY OrderedTypes
  <1>1. CASE LoopThread
    <2> USE DEF LoopHandler, Functors
    <2>0. UNCHANGED sendVars
      BY <1>1 DEF LoopThread, Poll, NewConnection, Shutdown, ShutdownWrite, HandleClose, Insert,
                  Erase, Remove, TakeBatch, SendInLoop, ConnectDestroyed, FreeBatch
    <2>1. CASE SendInLoop \/ ConnectDestroyed
      BY <2>1, OrderedShrinks
    <2>2. CASE Remove
      <3>1. /\ [do |-> "destroy", conn |-> handled] \in Functor /\ UNCHANGED <<batch, written>>
            /\ pendingFunctors' =
                   Append(pendingFunctors, [do |-> "destroy", conn |-> handled])
        BY <2>2, FunctorTypes DEF Remove, Control, ListState
      <3> QED
        BY <2>0, <3>1, OrderedGrows DEF sendVars
    <2>3. CASE \/ Poll \/ Insert \/ Erase \/ TakeBatch \/ FreeBatch
               \/ \E c \in Conn : NewConnection(c) \/ Shutdown(c) \/ ShutdownWrite(c) \/ HandleClose(c)
      <3>1. Queued' = Queued /\ written' = written
        BY <2>3, QueuedKept, QueuedMoves
           DEF Poll, NewConnection, Shutdown, ShutdownWrite, HandleClose, Insert, Erase,
               TakeBatch, FreeBatch, loopVars
      <3> QED
        BY <1>0, <2>0, <3>1, OrderedKept DEF sendVars
    <2> QED
      BY <1>1, <2>1, <2>2, <2>3 DEF LoopThread
  <1>2. CASE SendThread
    <2>0. Moved
      BY <1>2, SendStep
    <2>1. CASE Queue
      <3>1. /\ SendFunctor \in Functor /\ SendFunctor.frame = frame
            /\ UNCHANGED <<batch, written, frame>>
            /\ pendingFunctors' = Append(pendingFunctors, SendFunctor)
        BY <2>0, <2>1, FunctorTypes
           DEF Queue, Moved, loopVars, Control, TypeOK, ListState, InRound, SendFunctor
      <3> QED
        BY <3>1, OrderedGrows
    <2>2. CASE CamInit \/ Capture \/ CaptureFails \/ Begin \/ Deref \/ Check \/ Advance
      <3>1. UNCHANGED <<batch, pendingFunctors, written>> /\ frame' \in {frame, frame + 1}
        BY <2>0, <2>2 DEF Moved, loopVars, CamInit, Capture, CaptureFails, Begin,
                          Deref, Check, Advance, GoTo, sendVars
      <3>2. Queued' = Queued
        BY <3>1, QueuedKept
      <3> QED
        BY <1>0, <3>1, <3>2, OrderedKept
    <2> QED
      BY <1>2, <2>1, <2>2 DEF SendThread, Round
  <1>3. CASE Crash \/ Crashed \/ UNCHANGED vars
    <2>1. UNCHANGED <<batch, pendingFunctors, written, frame>>
      BY <1>3 DEF Crash, Crashed, vars, loopVars, sendVars
    <2>2. Queued' = Queued
      BY <2>1, QueuedKept
    <2> QED
      BY <1>0, <2>1, <2>2, OrderedKept
  <1> QED
    BY <1>1, <1>2, <1>3 DEF Next, Run

(* It is an invariant.                                                      *)
LEMMA OrderedInvariant == Spec => []Ordered
  <1>1. Init => Ordered
    <2> SUFFICES ASSUME Init PROVE Ordered
      OBVIOUS
    <2>1. 1 .. Len(Queued) = {} /\ \A c \in Conn : 1 .. Len(written[c]) = {}
      BY ConcatEmptySeq, EmptySeq DEF Init, Queued
    <2> QED
      BY <2>1 DEF Init, Ordered
  <1>2. IInv /\ Ordered /\ [Next]_vars => Ordered'
    BY OrderedStep DEF IInv
  <1> QED
    BY <1>1, <1>2, Invariant, PTL DEF Spec

(* The frame of the oldest functor may follow what was written to any       *)
(* connection.                                                              *)
LEMMA MayFollow ==
    ASSUME IInv, Ordered, SendInLoop
    PROVE  /\ Head(batch).frame \in 1 .. frame /\ Head(batch).conn \in Conn
           /\ \A d \in Conn : written[d] # <<>> =>
                  /\ Len(written[d]) \in 1 .. Len(written[d])
                  /\ written[d][Len(written[d])] \in Nat
                  /\ written[d][Len(written[d])] <= Head(batch).frame
  <1>1. /\ Head(batch) = Queued[1] /\ Head(batch) \in Functor /\ Head(batch).do = "send"
        /\ 1 \in 1 .. Len(Queued)
    <2>1. Head(batch) = Queued[1] /\ Head(batch) \in Functor /\ Len(Queued) \in Nat \ {0}
      BY QueuedShrinks DEF IInv
    <2> QED
      BY <2>1 DEF SendInLoop
  <1>2. Sending(1) /\ Head(batch).frame \in 1 .. MaxFrames /\ Head(batch).conn \in Conn
    BY <1>1, FunctorTypes DEF Sending
  <1>3. Head(batch).frame \in 1 .. frame
    <2>1. Head(batch).frame <= frame /\ frame \in Nat
      BY <1>1, <1>2, OrderedTypes DEF Ordered, IInv
    <2> QED
      BY <1>2, <2>1
  <1>4. ASSUME NEW d \in Conn, written[d] # <<>>
        PROVE  /\ Len(written[d]) \in 1 .. Len(written[d])
               /\ written[d][Len(written[d])] \in Nat
               /\ written[d][Len(written[d])] <= Head(batch).frame
    <2>1. Len(written[d]) \in 1 .. Len(written[d])
      BY <1>4, StreamTypes, EmptySeq DEF IInv
    <2> QED
      BY <1>1, <1>2, <2>1, OrderedTypes DEF Ordered, IInv
  <1> QED
    BY <1>2, <1>3, <1>4

(* A functor that is run writes a frame that may follow, to a connection    *)
(* that is up; with a freed connection the threads have met.                *)
LEMMA WriteStep ==
    ASSUME IInv, Ordered, SendInLoop, LoopThread
    PROVE  \/ Broadcast!Meet
           \/ \E c \in Conn, f \in 1 .. frame : Broadcast!Send(c, f)
           \/ UNCHANGED Broadcast!vars
  <1> DEFINE f == Head(batch).frame
             c == Head(batch).conn
  <1>1. /\ f \in 1 .. frame /\ c \in Conn /\ UNCHANGED <<frame, connState>>
        /\ \A d \in Conn : written[d] # <<>> => written[d][Len(written[d])] <= f
    BY MayFollow DEF SendInLoop, connVars, sendVars
  <1>2. CASE FunctorUndefined
    <2>1. (undefined = 0)' = FALSE
      BY <1>2 DEF LoopThread, IInv, Control, TypeOK
    <2>2. CASE written' = written
      BY <1>1, <2>1, <2>2 DEF Broadcast!Meet
    <2>3. CASE \E d \in Conn : connState[d] # "new" /\ written' = [written EXCEPT ![d] = Append(@, f)]
      <3>1. PICK d \in Conn : connState[d] # "new" /\ written' = [written EXCEPT ![d] = Append(@, f)]
        BY <2>3
      <3>2. Broadcast!Write(d, f)
        BY <1>1, <3>1 DEF Broadcast!Write
      <3> QED
        BY <1>1, <2>1, <3>1, <3>2 DEF Broadcast!Meet
    <2> QED
      BY <2>2, <2>3, WhatIsWritten
  <1>3. CASE ~FunctorUndefined
    <2>1. undefined' = undefined
      BY <1>3 DEF LoopThread
    <2>2. CASE c \notin Writable
      BY <1>1, <1>3, <2>1, <2>2, WhatIsWritten DEF Broadcast!vars
    <2>3. CASE c \in Writable
      <3> DEFINE w == written[c]
      <3>1. written' = [written EXCEPT ![c] = Append(@, f)]
        BY <1>3, <2>3, WhatIsWritten
      <3>2. undefined = 0 /\ w # <<>> => f = w[Len(w)] + 1
        <4> SUFFICES ASSUME undefined = 0, w # <<>> PROVE f = w[Len(w)] + 1
          OBVIOUS
        <4>1. Consecutive'
          <5>1. Stream'
            BY <1>3, StreamShrinks DEF IInv
          <5> QED
            BY <2>1, <5>1 DEF Stream
        <4>2. /\ w \in Seq(1 .. MaxFrames) /\ Len(w) \in 1 .. Len(w) /\ Len(w) \in Nat
              /\ f \in Nat /\ written'[c] = Append(w, f)
          BY <1>1, <3>1, MayFollow, StreamTypes DEF IInv, Control, TypeOK
        <4> HIDE DEF w, f, c
        <4>3. /\ Len(Append(w, f)) = Len(w) + 1
              /\ \A i \in 1 .. Len(w) : Append(w, f)[i] = w[i]
              /\ Append(w, f)[Len(w) + 1] = f
          BY <4>2, AppendProperties
        <4>4. Len(w) + 1 \in 2 .. Len(w) + 1 /\ (Len(w) + 1) - 1 = Len(w)
          BY <4>2
        <4>5. Append(w, f)[Len(w) + 1] = Append(w, f)[(Len(w) + 1) - 1] + 1
          BY <1>1, <4>1, <4>2, <4>3, <4>4 DEF Consecutive
        <4> QED
          BY <4>2, <4>3, <4>4, <4>5
      <3>3. connState[c] \in {"kConnected", "kDisconnecting"}
        BY <2>3 DEF Writable, Up
      <3>4. Broadcast!Send(c, f)
        BY <1>1, <2>1, <3>1, <3>2, <3>3 DEF Broadcast!Send, Broadcast!Write
      <3> QED
        BY <1>1, <3>4
    <2> QED
      BY <2>2, <2>3
  <1> QED
    BY <1>2, <1>3

(* The two threads, with all that is undefined between them, implement the  *)
(* broadcast: what a client gets never goes back; as long as every step was *)
(* defined it has no gap, and only a connection that is up, or shut down    *)
(* but not closed, is written to.                                           *)
THEOREM Refinement == Spec => ImplementsBroadcast
  <1>1. Init => Broadcast!Init
    BY DEF Init, Broadcast!Init
  <1>2. ASSUME IInv, Ordered, [Next]_vars
        PROVE  [Broadcast!Next]_(Broadcast!vars)
    <2>0. /\ undefined \in Nat /\ undefined' \in Nat
          /\ undefined' = undefined \/ undefined' = undefined + 1
      <3>1. undefined \in Nat /\ MaxUndefined \in Nat
        BY <1>2, ServerAssumption DEF IInv, Control, TypeOK
      <3>2. undefined' = undefined \/ undefined' = undefined + 1
        BY <1>2 DEF Next, Run, LoopThread, SendThread, Crash, Crashed, vars, historyVars
      <3> QED
        BY <3>1, <3>2
    <2>1. CASE Run /\ LoopThread /\ SendInLoop
      BY <1>2, <2>1, WriteStep DEF Broadcast!Next
    <2>2. CASE Run /\ LoopThread /\ \E c \in Conn : NewConnection(c) \/ Shutdown(c) \/ HandleClose(c)
      <3>1. PICK c \in Conn : NewConnection(c) \/ Shutdown(c) \/ HandleClose(c)
        BY <2>2
      <3>2. undefined' = undefined
        BY <2>2, <3>1 DEF LoopThread, FunctorUndefined, NewConnection, Shutdown, HandleClose
      <3>3. Broadcast!ComesUp(c) \/ Broadcast!ShutDown(c) \/ Broadcast!GoesDown(c)
        BY <3>1, <3>2 DEF NewConnection, Shutdown, HandleClose, Up, sendVars,
                          Broadcast!ComesUp, Broadcast!ShutDown, Broadcast!GoesDown
      <3> QED
        BY <3>3 DEF Broadcast!Next
    <2>3. CASE Run /\ SendThread /\ Capture
      <3>1. undefined' = undefined
        BY <2>3 DEF SendThread, SendUndefined, Capture
      <3> QED
        BY <2>3, <3>1 DEF Capture, Moved, connVars, Broadcast!Next, Broadcast!Capture
    <2>4. CASE \/ Poll \/ Insert \/ Erase \/ Remove \/ TakeBatch \/ ConnectDestroyed \/ FreeBatch
               \/ \E c \in Conn : ShutdownWrite(c)
               \/ CamInit \/ CaptureFails \/ Begin \/ Deref \/ Check \/ Queue \/ Advance
               \/ Crash \/ Crashed \/ UNCHANGED vars
      <3>1. UNCHANGED <<frame, connState, written>>
        BY <2>4 DEF Poll, Insert, Erase, Remove, TakeBatch, ConnectDestroyed, FreeBatch, CamInit,
                    ShutdownWrite, CaptureFails, Begin, Deref, Check, Queue, Advance, GoTo, Moved,
                    Crash, Crashed, vars, connVars, sendVars
      <3>2. (undefined = 0)' = (undefined = 0) \/ (undefined = 0)' = FALSE
        BY <2>0
      <3> QED
        BY <3>1, <3>2 DEF Broadcast!Next, Broadcast!Meet, Broadcast!vars
    <2> QED
      BY <1>2, <2>1, <2>2, <2>3, <2>4
         DEF Next, Run, LoopThread, LoopHandler, Functors, SendThread, Round
  <1> QED
    BY <1>1, <1>2, Invariant, OrderedInvariant, PTL DEF Spec, ImplementsBroadcast, Broadcast!Spec
=============================================================================
