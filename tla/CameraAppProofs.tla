--------------------------- MODULE CameraAppProofs ---------------------------
(***************************************************************************)
(* Proofs about the camera API, for any number of buffers and frames, with *)
(* either interface and either kind of caller.  The argument is about who  *)
(* has a buffer: it is queued to the driver, done and not yet taken, in    *)
(* the hands of a capture, or lost; and the frames in the done buffers are *)
(* newer than the one in hand, which is newer than all that was returned.  *)
(***************************************************************************)
EXTENDS CameraApp, SequenceTheorems, TLAPS

Handing == pc \in {"copy", "qbuf"} /\ ret = 0

(* What the control state says of the device and of vbuf.                   *)
DeviceState ==
    /\ pc # "idle" => devOpen
    /\ devOpen => buffers = "live" /\ mapped = Granted \ mapFailed
    /\ devOpen /\ started => index \in Granted
    /\ ~devOpen => incoming = {} /\ done = <<>> /\ ~streaming
    /\ pc = "dead" => planes = "freed" \/ index \notin mapped
    /\ planes = "freed" => ~streamOn /\ ~streaming
    /\ mplane => copied = 0 /\ bytesFrom = 0

(* The done buffers hold frames in the order of their capture, newer than   *)
(* any that was returned.                                                   *)
DoneInOrder ==
    /\ \A i, j \in 1 .. Len(done) : i < j => content[done[i]] < content[done[j]]
    /\ \A i \in 1 .. Len(done) : done[i] \notin incoming /\ taken < content[done[i]]
    /\ taken <= frames /\ \A b \in Buf : content[b] <= frames

(* The buffer in hand holds a frame between those.                          *)
FrameInHand ==
    Handing =>
        /\ index \in Granted \ InDriver /\ taken < content[index]
        /\ \A i \in 1 .. Len(done) : content[index] < content[done[i]]
        /\ ~mplane => bytesFrom = content[index]
        /\ pc = "qbuf" /\ ~mplane => copied = content[index]

EveryBufferSomewhere ==
    /\ InDriver \subseteq Granted
    /\ devOpen /\ ~restarted /\ pc # "dead" =>
           InDriver = IF Handing THEN Granted \ (lost \cup {index}) ELSE Granted \ lost

IInv == TypeOK /\ DeviceState /\ DoneInOrder /\ FrameInHand /\ EveryBufferSomewhere

-----------------------------------------------------------------------------
(* The driver grants no more buffers than it is asked for.                  *)
LEMMA SomeOfAll == \A n \in 1 .. BufCount : (0 .. n - 1) \subseteq Buf
  BY CameraAssumption DEF Buf

LEMMA InitIInv == Init => IInv
  <1> SUFFICES ASSUME Init PROVE IInv
    OBVIOUS
  <1>1. <<>> \in Seq(Buf) /\ Len(<<>>) = 0 /\ 0 \in Buf /\ 1 .. 0 = {} /\ BufCount \in 1 .. BufCount
    BY EmptySeq, CameraAssumption DEF Buf
  <1>2. TypeOK
    BY <1>1, CameraAssumption DEF Init, TypeOK
  <1>3. DeviceState
    BY DEF Init, DeviceState
  <1>4. DoneInOrder
    BY <1>1, CameraAssumption DEF Init, DoneInOrder
  <1>5. FrameInHand /\ EveryBufferSomewhere
    BY <1>1 DEF Init, FrameInHand, Handing, EveryBufferSomewhere, InDriver
  <1> QED
    BY <1>2, <1>3, <1>4, <1>5 DEF IInv

LEMMA StepTypeOK == IInv /\ [Next]_vars => TypeOK'
  <1> SUFFICES ASSUME IInv, [Next]_vars PROVE TypeOK'
    OBVIOUS
  <1> USE CameraAssumption DEF IInv
  <1>0. <<>> \in Seq(Buf) /\ 0 \in Buf
    BY EmptySeq DEF Buf
  <1> USE <1>0
  <1>1. CASE InitFails \/ StreamOffFails \/ DqbufBlocks \/ Dead \/ UNCHANGED vars
    BY <1>1 DEF TypeOK, InitFails, StreamOffFails, DqbufBlocks, Dead, vars, apiVars,
                driverVars, captureVars, historyVars
  <1>2. CASE InitFailsHalfWay
    <2>1. /\ incoming' = {} /\ done' = <<>> /\ waiting' = TRUE /\ streaming' = FALSE
          /\ buffers' = "freed"
          /\ UNCHANGED <<mplane, granted, devOpen, streamOn, planes, mapped, frames, content,
                         caller, index, bytesFrom, pc, ret, copied, mapFailed, lost, started,
                         restarted, taken, timedOut>>
      BY <1>2 DEF InitFailsHalfWay, TakeAll, captureVars, historyVars
    <2> QED
      BY <2>1 DEF TypeOK
  <1>3. CASE InitSucceeds
    <2>1. mapped' \subseteq Buf /\ mapFailed' \subseteq Buf /\ incoming' \subseteq Buf
          /\ lost' \subseteq Buf /\ granted' \in 1 .. BufCount
      <3>0. granted' \in 1 .. BufCount
        BY <1>3 DEF InitSucceeds
      <3>1. granted' \in 1 .. BufCount /\ Granted' \subseteq Buf
        BY <3>0, SomeOfAll DEF Granted
      <3> QED
        BY <1>3, <3>1 DEF InitSucceeds
    <2>2. content' \in [Buf -> 0 .. MaxFrames]
      BY <1>3 DEF InitSucceeds
    <2>3. /\ caller' = "open" /\ buffers' = "live" /\ devOpen' = TRUE
          /\ started' = FALSE /\ restarted' = FALSE /\ waiting' = FALSE
      BY <1>3 DEF InitSucceeds
    <2> QED
      BY <1>3, <2>1, <2>2, <2>3 DEF TypeOK, InitSucceeds, captureVars
  <1>4. CASE StreamOnFails
    BY <1>4 DEF TypeOK, StreamOnFails, MayStreamOn, apiVars, driverVars, captureVars, historyVars
  <1>5. CASE camera_streamon
    BY <1>5 DEF TypeOK, camera_streamon, historyVars
  <1>6. CASE camera_streamoff
    BY <1>6 DEF TypeOK, camera_streamoff, FreePlanes, TakeAll, captureVars
  <1>7. CASE camera_deinit
    BY <1>7 DEF TypeOK, camera_deinit, TakeAll, captureVars, historyVars
  <1>8. CASE BeginCapture
    BY <1>8 DEF TypeOK, BeginCapture, apiVars, driverVars, historyVars
  <1>9. CASE SelectFails \/ SelectTimeout \/ SelectReady
    <2>1. /\ pc' \in {"idle", "dqbuf"} /\ ret' \in {ret, -1} /\ timedOut' \in {timedOut, TRUE}
          /\ UNCHANGED <<apiVars, driverVars, caller, index, bytesFrom, copied, mapFailed,
                         lost, started, restarted, taken>>
      BY <1>9 DEF SelectFails, SelectTimeout, SelectReady, Return, historyVars
    <2> QED
      BY <2>1 DEF TypeOK, apiVars, driverVars
  <1>10. CASE DqbufFails
    BY <1>10 DEF TypeOK, DqbufFails, apiVars, driverVars, historyVars
  <1>11. CASE Dqbuf
    <2>1. Head(done) \in Buf /\ Tail(done) \in Seq(Buf)
      BY <1>11, HeadTailProperties, EmptySeq DEF Dqbuf, TypeOK
    <2>2. content[Head(done)] \in 0 .. MaxFrames
      BY <2>1 DEF TypeOK
    <2> QED
      BY <1>11, <2>1, <2>2 DEF TypeOK, Dqbuf, apiVars, historyVars
  <1>12. CASE Copy \/ CopyFaults \/ CopyWild \/ PlanesFault
    BY <1>12 DEF TypeOK, Copy, CopyFaults, CopyWild, PlanesFault, apiVars, driverVars,
                 historyVars
  <1>13. CASE QbufFails \/ Qbuf
    <2>1. CaptureReturns /\ index \in Buf
      BY <1>13 DEF QbufFails, Qbuf, TypeOK
    <2>2. incoming' \subseteq Buf /\ lost' \subseteq Buf /\ waiting' \in BOOLEAN
      BY <1>13, <2>1 DEF QbufFails, Qbuf, TypeOK
    <2> QED
      BY <2>1, <2>2 DEF TypeOK, CaptureReturns, apiVars
  <1>14. CASE DriverCaptures
    <2>1. PICK b \in incoming : incoming' = incoming \ {b} /\ done' = Append(done, b)
                                /\ content' = [content EXCEPT ![b] = frames']
      BY <1>14 DEF DriverCaptures
    <2>2. b \in Buf /\ done' \in Seq(Buf)
      BY <2>1, AppendProperties DEF TypeOK
    <2> QED
      BY <1>14, <2>1, <2>2 DEF TypeOK, DriverCaptures, apiVars, captureVars, historyVars
  <1> QED
    BY <1>1, <1>2, <1>3, <1>4, <1>5, <1>6, <1>7, <1>8, <1>9, <1>10, <1>11, <1>12, <1>13,
       <1>14 DEF Next, camera_capture

LEMMA StepDeviceState == IInv /\ [Next]_vars => DeviceState'
  <1> SUFFICES ASSUME IInv, [Next]_vars PROVE DeviceState'
    OBVIOUS
  <1> USE DEF IInv, TypeOK, DeviceState, Granted, MayStreamOn, MayStreamOff
  <1>1. CASE InitFails \/ StreamOffFails \/ DqbufBlocks \/ Dead \/ UNCHANGED vars
    BY <1>1 DEF InitFails, StreamOffFails, DqbufBlocks, Dead, vars, apiVars, driverVars,
                captureVars, historyVars
  <1>2. CASE InitFailsHalfWay
    BY <1>2 DEF InitFailsHalfWay, MayInit, TakeAll, captureVars, historyVars
  <1>3. CASE InitSucceeds
    BY <1>3 DEF InitSucceeds, MayInit, captureVars
  <1>4. CASE StreamOnFails
    BY <1>4 DEF StreamOnFails, apiVars, driverVars, captureVars, historyVars
  <1>5. CASE camera_streamon
    BY <1>5 DEF camera_streamon, historyVars
  <1>6. CASE camera_streamoff
    BY <1>6 DEF camera_streamoff, FreePlanes, TakeAll, captureVars
  <1>7. CASE camera_deinit
    BY <1>7 DEF camera_deinit, TakeAll, captureVars, historyVars
  <1>8. CASE BeginCapture
    BY <1>8 DEF BeginCapture, apiVars, driverVars, historyVars
  <1>9. CASE SelectFails \/ SelectTimeout \/ SelectReady
    BY <1>9 DEF SelectFails, SelectTimeout, SelectReady, Return, apiVars, driverVars,
                historyVars
  <1>10. CASE DqbufFails
    BY <1>10 DEF DqbufFails, apiVars, driverVars, historyVars
  <1>11. CASE Dqbuf
    <2>1. Head(done) \in InDriver
      <3>1. Head(done) = done[1] /\ 1 \in 1 .. Len(done)
        BY <1>11, EmptySeq DEF Dqbuf
      <3> QED
        BY <3>1 DEF InDriver
    <2>2. Head(done) \in Granted
      BY <2>1 DEF EveryBufferSomewhere
    <2> QED
      BY <1>11, <2>2 DEF Dqbuf, apiVars, historyVars
  <1>12. CASE Copy \/ CopyFaults \/ CopyWild \/ PlanesFault
    BY <1>12 DEF Copy, CopyFaults, CopyWild, PlanesFault, apiVars, driverVars, historyVars
  <1>13. CASE QbufFails \/ Qbuf
    BY <1>13 DEF QbufFails, Qbuf, CaptureReturns, apiVars
  <1>14. CASE DriverCaptures
    BY <1>14 DEF DriverCaptures, apiVars, captureVars, historyVars
  <1> QED
    BY <1>1, <1>2, <1>3, <1>4, <1>5, <1>6, <1>7, <1>8, <1>9, <1>10, <1>11, <1>12, <1>13,
       <1>14 DEF Next, camera_capture

-----------------------------------------------------------------------------
(* The steps that leave the frames and the buffers alone.                   *)
LEMMA Untouched ==
    ASSUME IInv, ~Handing',
           UNCHANGED <<granted, devOpen, incoming, done, content, frames, taken, lost, restarted>>,
           Handing \/ pc = "dead" => pc' = "dead"
    PROVE  DoneInOrder' /\ FrameInHand' /\ EveryBufferSomewhere'
  <1>1. DoneInOrder' /\ FrameInHand'
    BY DEF IInv, DoneInOrder, FrameInHand
  <1>2. InDriver' = InDriver /\ Granted' = Granted
    BY DEF InDriver, Granted
  <1>3. pc' # "dead" => ~Handing /\ pc # "dead"
    OBVIOUS
  <1> QED
    BY <1>1, <1>2, <1>3 DEF IInv, EveryBufferSomewhere

LEMMA StepFramesEmptied ==
    ASSUME IInv, InitFailsHalfWay \/ InitSucceeds \/ camera_streamoff \/ camera_deinit
    PROVE  DoneInOrder' /\ FrameInHand' /\ EveryBufferSomewhere'
  <1>1. done' = <<>> /\ pc' = "idle"
    BY DEF InitFailsHalfWay, InitSucceeds, camera_streamoff, camera_deinit, MayInit, TakeAll,
           MayStreamOff, captureVars, IInv, TypeOK, DeviceState
  <1>2. Len(done') = 0 /\ 1 .. Len(done') = {} /\ InDriver' = incoming'
    BY <1>1, EmptySeq DEF InDriver
  <1>3. taken' <= frames' /\ \A b \in Buf : content'[b] <= frames'
    BY DEF InitFailsHalfWay, InitSucceeds, camera_streamoff, camera_deinit, IInv, TypeOK,
           DoneInOrder, historyVars
  <1>4. devOpen' /\ ~restarted' => incoming' = Granted' /\ lost' = {}
    BY DEF InitFailsHalfWay, InitSucceeds, camera_streamoff, camera_deinit, MayInit,
           historyVars, IInv, TypeOK
  <1>5. ~Handing'
    BY <1>1 DEF Handing
  <1>6. incoming' \subseteq Granted'
    BY DEF InitFailsHalfWay, InitSucceeds, camera_streamoff, camera_deinit, TakeAll
  <1> QED
    BY <1>2, <1>3, <1>4, <1>5, <1>6 DEF DoneInOrder, FrameInHand, EveryBufferSomewhere

LEMMA StepFramesDqbuf ==
    ASSUME IInv, Dqbuf
    PROVE  DoneInOrder' /\ FrameInHand' /\ EveryBufferSomewhere'
  <1>1. /\ index' = done[1] /\ index' \in Buf /\ Len(done) \in Nat \ {0}
        /\ Len(done') = Len(done) - 1 /\ \A i \in 1 .. Len(done) - 1 : done'[i] = done[i + 1]
        /\ done \in Seq(Buf) /\ content \in [Buf -> 0 .. MaxFrames]
    BY HeadTailProperties, EmptySeq DEF Dqbuf, IInv, TypeOK
  <1>2. /\ UNCHANGED <<granted, devOpen, incoming, content, frames, taken, lost, restarted>>
        /\ Handing' /\ ~Handing /\ pc # "dead"
    BY DEF Dqbuf, Handing, apiVars, historyVars
  <1>3. \A i \in 1 .. Len(done) : done[i] \in Buf /\ content[done[i]] \in Int
    BY <1>1, CameraAssumption
  <1>4. \A i \in 1 .. Len(done') : i + 1 \in 1 .. Len(done) /\ done'[i] = done[i + 1]
    BY <1>1
  <1>5. DoneInOrder'
    <2>1. ASSUME NEW i \in 1 .. Len(done'), NEW j \in 1 .. Len(done'), i < j
          PROVE  content[done'[i]] < content[done'[j]]
      <3>1. i + 1 < j + 1
        BY <1>1, <2>1
      <3> QED
        BY <1>4, <3>1 DEF DoneInOrder, IInv
    <2>2. \A i \in 1 .. Len(done') : done'[i] \notin incoming /\ taken < content[done'[i]]
      BY <1>4 DEF DoneInOrder, IInv
    <2> QED
      BY <1>2, <2>1, <2>2 DEF DoneInOrder, IInv
  <1>6. \A i \in 1 .. Len(done') : content[index'] < content[done'[i]]
    <2>1. \A i \in 1 .. Len(done') : 1 < i + 1 /\ 1 \in 1 .. Len(done)
      BY <1>1
    <2> QED
      BY <1>1, <1>4, <2>1 DEF DoneInOrder, IInv
  <1>7. InDriver' = InDriver \ {index'}
    <2>1. ASSUME NEW i \in 1 .. Len(done), i # 1
          PROVE  i - 1 \in 1 .. Len(done') /\ done'[i - 1] = done[i]
      <3>1. i - 1 \in 1 .. Len(done') /\ (i - 1) + 1 = i
        BY <1>1, <2>1
      <3> QED
        BY <1>4, <3>1
    <2>2. \A i \in 1 .. Len(done') : done'[i] # index'
      <3>1. content[index'] \in Int
        BY <1>1, CameraAssumption
      <3>2. ~(content[index'] < content[index'])
        BY <3>1
      <3> QED
        BY <1>6, <3>2
    <2>3. index' \notin incoming
      BY <1>1 DEF IInv, DoneInOrder
    <2>4. \A b : b \in InDriver' => b \in InDriver \ {index'}
      BY <1>2, <1>4, <2>2, <2>3 DEF InDriver
    <2>5. \A b : b \in InDriver \ {index'} => b \in InDriver'
      <3>1. \A i \in 1 .. Len(done) : done[i] # index' => i # 1
        BY <1>1
      <3>2. ASSUME NEW i \in 1 .. Len(done), done[i] # index'
            PROVE  \E j \in 1 .. Len(done') : done'[j] = done[i]
        BY <2>1, <3>1, <3>2
      <3> QED
        BY <1>2, <3>2 DEF InDriver
    <2> QED
      BY <2>4, <2>5
  <1>8. FrameInHand'
    <2>1. index' \in InDriver
      <3>1. 1 \in 1 .. Len(done)
        BY <1>1
      <3> QED
        BY <1>1, <3>1 DEF InDriver
    <2>2. index' \in Granted'
      BY <1>2, <2>1 DEF IInv, EveryBufferSomewhere, Granted
    <2>3. 1 \in 1 .. Len(done) /\ taken < content[index']
      BY <1>1 DEF IInv, DoneInOrder
    <2>4. ~mplane => bytesFrom' = content[index']
      BY <1>1, HeadTailProperties DEF Dqbuf
    <2>5. pc' = "copy" /\ mplane' = mplane
      BY DEF Dqbuf, apiVars
    <2> QED
      BY <1>2, <1>6, <1>7, <2>2, <2>3, <2>4, <2>5 DEF FrameInHand
  <1>9. EveryBufferSomewhere'
    BY <1>2, <1>7 DEF EveryBufferSomewhere, IInv, Granted
  <1> QED
    BY <1>5, <1>8, <1>9

LEMMA StepFramesQbuf ==
    ASSUME IInv, QbufFails \/ Qbuf
    PROVE  DoneInOrder' /\ FrameInHand' /\ EveryBufferSomewhere'
  <1>1. /\ UNCHANGED <<granted, devOpen, done, content, frames, index, restarted>> /\ pc = "qbuf"
        /\ pc' = "idle" /\ ~Handing' /\ taken' = IF ret = 0 THEN copied ELSE taken
    BY DEF QbufFails, Qbuf, CaptureReturns, Handing, apiVars
  <1>2. Handing <=> ret = 0
    BY <1>1 DEF Handing
  <1>3. taken' <= frames /\ \A i \in 1 .. Len(done) : taken' < content[done[i]]
    <2>1. CASE ret = 0 /\ ~mplane
      BY <1>1, <1>2, <2>1 DEF IInv, FrameInHand, DoneInOrder, TypeOK
    <2>2. CASE ret = 0 /\ mplane
      <3>1. taken' = 0 /\ taken \in Nat /\ frames \in Nat
        BY <1>1, <2>2 DEF IInv, DeviceState, TypeOK
      <3>2. \A i \in 1 .. Len(done) : taken < content[done[i]] /\ content[done[i]] \in Int
        BY CameraAssumption DEF IInv, DoneInOrder, TypeOK
      <3> QED
        BY <3>1, <3>2 DEF IInv, TypeOK
    <2>3. CASE ret # 0
      BY <1>1, <2>3 DEF IInv, DoneInOrder
    <2> QED
      BY <2>1, <2>2, <2>3
  <1>4. CASE QbufFails
    <2>1. incoming' = incoming /\ lost' = IF index \in InDriver \/ index \notin Granted THEN lost ELSE lost \cup {index}
      BY <1>4 DEF QbufFails
    <2>2. DoneInOrder'
      BY <1>1, <1>3, <2>1 DEF DoneInOrder, IInv
    <2>3. InDriver' = InDriver
      BY <1>1, <2>1 DEF InDriver
    <2>4. EveryBufferSomewhere'
      BY <1>1, <1>2, <2>1, <2>3 DEF EveryBufferSomewhere, FrameInHand, IInv, Granted
    <2> QED
      BY <1>1, <2>2, <2>4 DEF FrameInHand
  <1>5. CASE Qbuf
    <2>1. incoming' = incoming \cup {index} /\ lost' = lost \ {index} /\ index \in Granted \ InDriver
      BY <1>5 DEF Qbuf
    <2>2. \A i \in 1 .. Len(done) : done[i] # index
      BY <2>1 DEF InDriver
    <2>3. DoneInOrder'
      BY <1>1, <1>3, <2>1, <2>2 DEF DoneInOrder, IInv
    <2>4. InDriver' = InDriver \cup {index} /\ index \in Buf
      BY <1>1, <2>1 DEF InDriver, IInv, TypeOK
    <2>5. EveryBufferSomewhere'
      BY <1>1, <1>2, <2>1, <2>4 DEF EveryBufferSomewhere, IInv, Granted
    <2> QED
      BY <1>1, <2>3, <2>5 DEF FrameInHand
  <1> QED
    BY <1>4, <1>5

LEMMA StepFramesCapture ==
    ASSUME IInv, DriverCaptures
    PROVE  DoneInOrder' /\ FrameInHand' /\ EveryBufferSomewhere'
  <1>1. PICK b \in incoming : incoming' = incoming \ {b} /\ done' = Append(done, b)
                              /\ content' = [content EXCEPT ![b] = frames']
    BY DEF DriverCaptures
  <1>2. /\ frames' = frames + 1 /\ UNCHANGED <<mplane, granted, devOpen, index, taken, lost,
                                               restarted, pc, ret>>
        /\ UNCHANGED <<bytesFrom, copied>>
    BY DEF DriverCaptures, apiVars, captureVars, historyVars
  <1>3. /\ b \in Buf /\ frames \in Nat /\ done \in Seq(Buf) /\ Len(done) \in Nat
        /\ taken \in Nat /\ content \in [Buf -> Nat]
    BY <1>1, CameraAssumption DEF IInv, TypeOK
  <1>4. /\ Len(done') = Len(done) + 1
        /\ \A i \in 1 .. Len(done) + 1 : done'[i] = IF i = Len(done) + 1 THEN b ELSE done[i]
    BY <1>1, <1>3, AppendProperties
  <1>5. \A i \in 1 .. Len(done) : /\ i \in 1 .. Len(done') /\ done'[i] = done[i]
                                  /\ done[i] \in Buf /\ done[i] # b
    BY <1>1, <1>3, <1>4 DEF IInv, DoneInOrder
  <1>6. \A i \in 1 .. Len(done') : (i = Len(done') /\ done'[i] = b) \/ i \in 1 .. Len(done)
    BY <1>3, <1>4
  <1>7. /\ content'[b] = frames + 1
        /\ \A c \in Buf \ {b} : content'[c] = content[c] /\ content[c] < frames + 1
    BY <1>1, <1>2, <1>3 DEF IInv, DoneInOrder
  <1>8. taken < frames + 1
    BY <1>3 DEF IInv, DoneInOrder
  <1>9. DoneInOrder'
    <2>1. ASSUME NEW i \in 1 .. Len(done'), NEW j \in 1 .. Len(done'), i < j
          PROVE  content'[done'[i]] < content'[done'[j]]
      <3>1. i \in 1 .. Len(done)
        BY <1>3, <1>4, <2>1
      <3>2. CASE j = Len(done')
        BY <1>4, <1>5, <1>6, <1>7, <3>1, <3>2
      <3>3. CASE j \in 1 .. Len(done)
        <4>1. content[done[i]] < content[done[j]]
          BY <2>1, <3>1, <3>3 DEF IInv, DoneInOrder
        <4> QED
          BY <1>5, <1>7, <3>1, <3>3, <4>1
      <3> QED
        BY <1>6, <3>2, <3>3
    <2>2. ASSUME NEW i \in 1 .. Len(done')
          PROVE  done'[i] \notin incoming' /\ taken < content'[done'[i]]
      <3>1. CASE done'[i] = b
        BY <1>1, <1>7, <1>8, <3>1
      <3>2. CASE i \in 1 .. Len(done)
        BY <1>1, <1>5, <1>7, <3>2 DEF IInv, DoneInOrder
      <3> QED
        BY <1>6, <3>1, <3>2
    <2>3. taken <= frames' /\ \A c \in Buf : content'[c] <= frames'
      BY <1>2, <1>3, <1>7 DEF IInv, DoneInOrder
    <2> QED
      BY <1>2, <2>1, <2>2, <2>3 DEF DoneInOrder
  <1>10. InDriver' = InDriver
    <2>1. \A c : c \in InDriver' => c \in InDriver
      BY <1>1, <1>5, <1>6 DEF InDriver
    <2>2. \A c : c \in InDriver => c \in InDriver'
      <3>1. b \in InDriver'
        <4>1. Len(done') \in 1 .. Len(done') /\ done'[Len(done')] = b
          BY <1>3, <1>4
        <4> QED
          BY <4>1 DEF InDriver
      <3> QED
        BY <1>1, <1>5, <3>1 DEF InDriver
    <2> QED
      BY <2>1, <2>2
  <1>11. FrameInHand'
    <2> SUFFICES ASSUME Handing PROVE FrameInHand'
      BY <1>2 DEF FrameInHand, Handing
    <2>1. index # b /\ index \in Buf /\ index \in Granted' \ InDriver'
      BY <1>1, <1>2, <1>10 DEF IInv, FrameInHand, InDriver, TypeOK, Granted
    <2>2. content'[index] = content[index]
      BY <1>7, <2>1
    <2>3. \A i \in 1 .. Len(done') : content[index] < content'[done'[i]]
      <3>1. \A i \in 1 .. Len(done) : content[index] < content[done[i]]
        BY DEF IInv, FrameInHand
      <3> QED
        BY <1>5, <1>6, <1>7, <2>1, <3>1
    <2> QED
      BY <1>2, <2>1, <2>2, <2>3 DEF IInv, FrameInHand, Handing
  <1>12. EveryBufferSomewhere'
    BY <1>2, <1>10 DEF EveryBufferSomewhere, IInv, Handing, Granted
  <1> QED
    BY <1>9, <1>11, <1>12

LEMMA StepFrames == IInv /\ [Next]_vars => DoneInOrder' /\ FrameInHand' /\ EveryBufferSomewhere'
  <1> SUFFICES ASSUME IInv, [Next]_vars
      PROVE  DoneInOrder' /\ FrameInHand' /\ EveryBufferSomewhere'
    OBVIOUS
  <1>1. CASE InitFails \/ StreamOffFails \/ DqbufBlocks \/ Dead \/ UNCHANGED vars
    BY <1>1 DEF InitFails, StreamOffFails, DqbufBlocks, Dead, vars, apiVars, driverVars,
                captureVars, historyVars, IInv, DoneInOrder, FrameInHand,
                EveryBufferSomewhere, InDriver, Handing, Granted
  <1>2. CASE \/ StreamOnFails \/ camera_streamon \/ BeginCapture \/ SelectFails
             \/ SelectTimeout \/ SelectReady \/ DqbufFails \/ CopyFaults \/ PlanesFault
    <2>1. /\ UNCHANGED <<granted, devOpen, incoming, done, content, frames, taken, lost, restarted>>
          /\ pc \in {"idle", "select", "dqbuf"} \/ pc' = "dead"
          /\ pc' \in {"idle", "select", "dqbuf", "dead"} \/ ret' = -1
          /\ pc # "dead"
      BY <1>2 DEF StreamOnFails, camera_streamon, BeginCapture, SelectFails, SelectTimeout,
                  SelectReady, DqbufFails, CopyFaults, PlanesFault, Return, apiVars, driverVars,
                  captureVars, historyVars, MayStreamOn
    <2>2. ~Handing' /\ (Handing \/ pc = "dead" => pc' = "dead")
      BY <2>1 DEF Handing
    <2> QED
      BY <2>1, <2>2, Untouched
  <1>3. CASE Copy
    <2>1. /\ UNCHANGED <<apiVars, driverVars, index, bytesFrom, ret, historyVars>>
          /\ pc = "copy" /\ pc' = "qbuf"
          /\ copied' = IF bytesFrom = 0 THEN copied ELSE content[index]
      BY <1>3 DEF Copy
    <2>2. /\ UNCHANGED <<granted, devOpen, incoming, done, content, frames, taken, lost, restarted>>
          /\ InDriver' = InDriver /\ Handing' = Handing /\ Granted' = Granted /\ mplane' = mplane
      BY <2>1 DEF apiVars, driverVars, historyVars, InDriver, Handing, Granted
    <2>3. Handing /\ ~mplane => copied' = content[index]
      <3>1. Handing => index \in Buf /\ content[index] \in Nat /\ taken \in Nat /\ taken < content[index]
        BY CameraAssumption DEF IInv, FrameInHand, TypeOK
      <3> QED
        BY <2>1, <3>1 DEF IInv, FrameInHand
    <2> QED
      BY <2>1, <2>2, <2>3 DEF IInv, DoneInOrder, FrameInHand, EveryBufferSomewhere
  <1>4. CASE CopyWild
    <2>1. /\ UNCHANGED <<apiVars, driverVars, index, ret, historyVars>>
          /\ pc = "copy" /\ pc' = "qbuf" /\ index \notin Granted
      BY <1>4 DEF CopyWild
    <2>2. ~Handing /\ ~Handing'
      BY <2>1 DEF IInv, FrameInHand, Handing
    <2> QED
      BY <2>1, <2>2, Untouched DEF apiVars, driverVars, historyVars
  <1> QED
    BY <1>1, <1>2, <1>3, <1>4, StepFramesEmptied, StepFramesDqbuf, StepFramesQbuf,
       StepFramesCapture DEF Next, camera_capture

(* The inductive invariant: who has each buffer, and in which order the     *)
(* frames are (camera_capture with DQBUF and QBUF around its copy).         *)
THEOREM Invariant == Spec => []IInv
  <1>1. IInv /\ [Next]_vars => IInv'
    BY StepTypeOK, StepDeviceState, StepFrames DEF IInv
  <1> QED
    BY <1>1, InitIInv, PTL DEF Spec

(* The statics of cameraapp.cc and the driver's queues keep their types.    *)
THEOREM TypeCorrect == Spec => []TypeOK
  BY Invariant, PTL DEF IInv

(* No buffer is copied by a successful capture while the driver has it.     *)
THEOREM StableCopy == Spec => []CopyIsStable
  <1>1. IInv => CopyIsStable
    BY DEF IInv, FrameInHand, Handing, CopyIsStable
  <1> QED
    BY <1>1, Invariant, PTL

(* The length a successful capture reports is the length of what it copied. *)
THEOREM LengthOfTheFrame == Spec => []WholeFrame
  <1>1. IInv => WholeFrame
    BY DEF IInv, FrameInHand, Handing, WholeFrame
  <1> QED
    BY <1>1, Invariant, PTL

(* From the first streamon on the copy reads a buffer of the open device,   *)
(* whatever an earlier one left in vbuf and whatever failed since.          *)
THEOREM CopySource == Spec => []CopySourceMapped
  <1>1. IInv => CopySourceMapped
    BY DEF IInv, TypeOK, DeviceState, CopySourceMapped
  <1> QED
    BY <1>1, Invariant, PTL

(* No buffer is lost but by a failed QBUF, and none is in two places.       *)
THEOREM Accounted == Spec => []BuffersAccounted
  <1>1. ASSUME IInv PROVE BuffersAccounted
    <2>1. ASSUME NEW i \in 1 .. Len(done), NEW j \in 1 .. Len(done), done[i] = done[j]
          PROVE  i = j
      <3>1. ~(content[done[i]] < content[done[j]])
        BY <1>1, <2>1, CameraAssumption DEF IInv, TypeOK
      <3>2. ~(content[done[j]] < content[done[i]])
        BY <1>1, <2>1, CameraAssumption DEF IInv, TypeOK
      <3> QED
        BY <1>1, <3>1, <3>2 DEF IInv, DoneInOrder
    <2>2. \A i \in 1 .. Len(done) : done[i] \notin incoming
      BY <1>1 DEF IInv, DoneInOrder
    <2>3. devOpen /\ ~restarted /\ pc \in {"idle", "select"} => InDriver = Granted \ lost
      BY <1>1 DEF IInv, EveryBufferSomewhere, Handing
    <2> QED
      BY <2>1, <2>2, <2>3 DEF BuffersAccounted
  <1> QED
    BY <1>1, Invariant, PTL

(* The planes of vbuf are freed once, and are not freed while the device    *)
(* streams, in whatever order the functions are called.                     *)
THEOREM PlanesLive == Spec => []PlanesNotFreed
  <1>1. IInv => PlanesNotFreed
    BY DEF IInv, TypeOK, DeviceState, PlanesNotFreed
  <1> QED
    BY <1>1, Invariant, PTL

(* The frames that successful captures return only get newer.               *)
THEOREM OnlyNewerFrames == Spec => CapturesAdvance
  <1>1. ASSUME IInv, [Next]_vars, pc = "qbuf", pc' = "idle", ret = 0, ~mplane
        PROVE  taken' > taken
    <2>1. QbufFails \/ Qbuf
      BY <1>1 DEF Next, camera_capture, InitFails, InitFailsHalfWay, InitSucceeds, MayInit,
                  StreamOnFails, camera_streamon, StreamOffFails, camera_streamoff,
                  camera_deinit, BeginCapture, SelectFails, SelectTimeout, SelectReady,
                  DqbufFails, Dqbuf, DqbufBlocks, Copy, CopyFaults, CopyWild, PlanesFault,
                  DriverCaptures, Dead, MayStreamOn, MayStreamOff, vars, captureVars
    <2>2. taken' = copied
      BY <1>1, <2>1 DEF QbufFails, Qbuf, CaptureReturns
    <2>3. copied = content[index] /\ taken < content[index]
      BY <1>1 DEF IInv, FrameInHand, Handing
    <2>4. copied \in Int /\ taken \in Int
      BY <1>1, CameraAssumption DEF IInv, TypeOK
    <2> QED
      BY <2>2, <2>3, <2>4
  <1>2. IInv /\ [Next]_vars =>
            [pc = "qbuf" /\ pc' = "idle" /\ ret = 0 /\ ~mplane => taken' > taken]_vars
    BY <1>1
  <1> QED
    BY <1>2, Invariant, PTL DEF Spec, CapturesAdvance
=============================================================================
