------------------------------ MODULE CameraApp ------------------------------
(***************************************************************************)
(* The camera API of the server (server/cameraapp.cc) over a V4L2 driver   *)
(* that captures into memory-mapped buffers.  One thread calls the API;    *)
(* the driver captures at any time while it streams.  camera_capture goes  *)
(* through select, VIDIOC_DQBUF, the copy and VIDIOC_QBUF in steps of      *)
(* their own, each of which may fail.  Frames are numbered as captured.    *)
(***************************************************************************)
EXTENDS Integers, Sequences

CONSTANTS BufCount,  \* req.count, as VIDIOC_REQBUFS is asked for it
          AnyOrder,  \* whether the caller, unlike the server, stops, and calls in any order
          MaxFrames  \* bound: how many frames the driver captures

Buf == 0 .. BufCount - 1

ASSUME CameraAssumption ==
    BufCount \in Nat \ {0} /\ AnyOrder \in BOOLEAN /\ MaxFrames \in Nat

VARIABLES
    mplane,            \* whether the camera has the multi-planar interface: camera.driver_type
    granted,           \* camera.buf_count: how many buffers the open device has
    devOpen, streamOn, \* the statics of cameraapp.cc
    buffers, planes,   \* camera.buffers and vbuf.m.planes: "null", "live", "freed"
    index, bytesFrom,  \* vbuf.index, and the frame whose length vbuf.bytesused is (0: no bytes)
    mapped,            \* the buffers whose memory camera.buffers maps
    streaming,         \* the driver is between STREAMON and STREAMOFF
    incoming, done,    \* its buffers to fill, and those filled, oldest first
    waiting,           \* no buffer was queued since they were last taken away
    frames, content,   \* how many frames it captured, and the one in each buffer
    caller,            \* "closed", "open" or "on": what the caller has asked for
    pc,                \* where camera_capture is; "dead" once the process died in it
    ret, copied,       \* its result so far, and the frame in the caller's memory
    mapFailed,         \* history: the buffers that mmap failed to map
    lost,              \* history: the buffers that a failed QBUF kept from the driver
    started,           \* history: streamon succeeded since cam_init
    restarted,         \* history: streamoff succeeded since cam_init
    taken,             \* history: the last frame that a capture returned with 0
    timedOut           \* history: a select has timed out

apiVars == <<mplane, granted, devOpen, streamOn, buffers, planes, mapped>>
driverVars == <<streaming, incoming, done, waiting, frames, content>>
captureVars == <<index, bytesFrom, pc, ret, copied>>
historyVars == <<mapFailed, lost, started, restarted, taken, timedOut>>
vars == <<apiVars, driverVars, caller, captureVars, historyVars>>

Granted == 0 .. granted - 1   \* the buffers of the device

Init ==
    /\ mplane \in BOOLEAN /\ granted = BufCount
    /\ devOpen = FALSE /\ streamOn = FALSE
    /\ buffers = "null" /\ planes = "null" /\ mapped = {}
    /\ index = 0 /\ bytesFrom = 0
    /\ streaming = FALSE /\ incoming = {} /\ done = <<>> /\ waiting = TRUE
    /\ frames = 0 /\ content = [b \in Buf |-> 0]
    /\ caller = "closed" /\ pc = "idle" /\ ret = 0 /\ copied = 0
    /\ mapFailed = {} /\ lost = {} /\ started = FALSE /\ restarted = FALSE
    /\ taken = 0 /\ timedOut = FALSE

-----------------------------------------------------------------------------
(* The driver, as V4L2 specifies it.                                        *)

(* A frame is captured into one of the buffers that were queued.            *)
DriverCaptures ==
    /\ streaming /\ frames < MaxFrames /\ frames' = frames + 1
    /\ \E b \in incoming :
           /\ incoming' = incoming \ {b} /\ done' = Append(done, b)
           /\ content' = [content EXCEPT ![b] = frames']
    /\ UNCHANGED <<apiVars, streaming, waiting, caller, captureVars, historyVars>>

InDriver == incoming \cup {done[i] : i \in 1 .. Len(done)}

(* Closing the device and STREAMOFF take every buffer away from the driver. *)
TakeAll == incoming' = {} /\ done' = <<>> /\ waiting' = TRUE /\ streaming' = FALSE

-----------------------------------------------------------------------------
(* cam_init, of a device that is not open.                                  *)

MayInit == ~devOpen /\ pc = "idle"

(* Any call before the buffers are allocated fails: the device is closed.   *)
InitFails ==
    /\ MayInit
    /\ UNCHANGED vars

(* VIDIOC_QUERYBUF or VIDIOC_QBUF fails at one of the buffers: the array is *)
(* freed and the device closed; what was mapped stays so for good.          *)
InitFailsHalfWay ==
    /\ MayInit
    /\ buffers' = "freed"
    /\ TakeAll
    /\ UNCHANGED <<mplane, granted, devOpen, streamOn, planes, mapped, frames, content, caller,
                   captureVars, historyVars>>

(* Every buffer is fresh, queued, and mapped unless mmap failed: nobody     *)
(* looks at its result.  The driver may grant fewer than it is asked for.   *)
InitSucceeds ==
    /\ MayInit
    /\ devOpen' = TRUE /\ buffers' = "live"
    /\ granted' \in 1 .. BufCount
    /\ mapFailed' \in SUBSET Granted' /\ mapped' = Granted' \ mapFailed'
    /\ incoming' = Granted' /\ waiting' = FALSE /\ content' = [b \in Buf |-> 0]
    /\ caller' = "open" /\ lost' = {} /\ started' = FALSE /\ restarted' = FALSE
    /\ UNCHANGED <<mplane, streamOn, planes, streaming, done, frames, captureVars, taken, timedOut>>

-----------------------------------------------------------------------------
(* camera_streamon and camera_streamoff; without a device their ioctl fails. *)

MayStreamOn == devOpen /\ pc = "idle" /\ (AnyOrder \/ caller = "open")

StreamOnFails ==
    /\ MayStreamOn
    /\ caller' = IF AnyOrder THEN caller ELSE "on"   \* the server ignores the result
    /\ UNCHANGED <<apiVars, driverVars, captureVars, historyVars>>

camera_streamon_Faulty ==   \* vbuf is not zeroed
    /\ MayStreamOn
    /\ streaming' = TRUE /\ streamOn' = TRUE /\ started' = TRUE
    /\ planes' = IF mplane THEN "live" ELSE "null"
    /\ caller' = "on"
    /\ UNCHANGED <<mplane, granted, devOpen, buffers, mapped, incoming, done, waiting, frames,
                   content, captureVars, mapFailed, lost, restarted, taken, timedOut>>

(* vbuf is zeroed, and gets planes of its own from a multi-planar device.   *)
camera_streamon ==
    /\ MayStreamOn
    /\ streaming' = TRUE /\ streamOn' = TRUE /\ started' = TRUE
    /\ index' = 0 /\ bytesFrom' = 0 /\ planes' = IF mplane THEN "live" ELSE "null"
    /\ caller' = "on"
    /\ UNCHANGED <<mplane, granted, devOpen, buffers, mapped, incoming, done, waiting, frames,
                   content, pc, ret, copied, mapFailed, lost, restarted, taken, timedOut>>

MayStreamOff == AnyOrder /\ devOpen /\ pc = "idle" /\ streamOn

StreamOffFails ==
    /\ MayStreamOff
    /\ UNCHANGED vars

FreePlanesFaulty ==   \* streamOn stays set
    /\ planes' = IF mplane THEN "freed" ELSE planes
    /\ UNCHANGED streamOn

FreePlanes ==
    /\ planes' = IF mplane THEN "freed" ELSE planes
    /\ streamOn' = FALSE

camera_streamoff ==
    /\ MayStreamOff
    /\ TakeAll /\ FreePlanes
    /\ caller' = "open" /\ restarted' = TRUE
    /\ UNCHANGED <<mplane, granted, devOpen, buffers, mapped, frames, content, captureVars,
                   mapFailed, lost, started, taken, timedOut>>

camera_deinit_Faulty ==   \* devOpen stays set
    /\ AnyOrder /\ devOpen /\ pc = "idle"
    /\ mapped' = {} /\ buffers' = "freed" /\ TakeAll
    /\ caller' = "closed"
    /\ UNCHANGED <<mplane, granted, devOpen, streamOn, planes, frames, content, captureVars,
                   historyVars>>

(* The caller may leave the stream on; streamOn and the planes stay.        *)
camera_deinit ==
    /\ AnyOrder /\ devOpen /\ pc = "idle"
    /\ mapped' = {} /\ buffers' = "freed" /\ devOpen' = FALSE /\ TakeAll
    /\ caller' = "closed"
    /\ UNCHANGED <<mplane, granted, streamOn, planes, frames, content, captureVars, historyVars>>

-----------------------------------------------------------------------------
(* camera_capture.  It asks only whether the device is open, so that it may  *)
(* be called with the stream off; the server has always tried to turn it on. *)

Return(r) == pc' = "idle" /\ ret' = r

BeginCaptureFaulty ==   \* devOpen is not looked at
    /\ pc = "idle" /\ (AnyOrder \/ caller # "open")
    /\ pc' = "select"
    /\ UNCHANGED <<apiVars, driverVars, caller, index, bytesFrom, ret, copied, historyVars>>

BeginCapture ==
    /\ pc = "idle" /\ devOpen /\ (AnyOrder \/ caller # "open")
    /\ pc' = "select"
    /\ UNCHANGED <<apiVars, driverVars, caller, index, bytesFrom, ret, copied, historyVars>>

(* select is interrupted, or waits two seconds in vain; the device counts   *)
(* as readable when a buffer is done and when there is nothing to wait for. *)
Readable == done # <<>> \/ ~streaming \/ waiting

SelectFails ==
    /\ pc = "select"
    /\ Return(-1)
    /\ UNCHANGED <<apiVars, driverVars, caller, index, bytesFrom, copied, historyVars>>

SelectTimeout ==
    /\ pc = "select" /\ ~Readable
    /\ Return(-1) /\ timedOut' = TRUE
    /\ UNCHANGED <<apiVars, driverVars, caller, index, bytesFrom, copied, mapFailed,
                   lost, started, restarted, taken>>

SelectReadyFaulty ==   \* DQBUF without waiting for a buffer
    /\ pc = "select"
    /\ pc' = "dqbuf"
    /\ UNCHANGED <<apiVars, driverVars, caller, index, bytesFrom, ret, copied, historyVars>>

SelectReady ==
    /\ pc = "select" /\ Readable
    /\ pc' = "dqbuf"
    /\ UNCHANGED <<apiVars, driverVars, caller, index, bytesFrom, ret, copied, historyVars>>

(* DQBUF gives the oldest buffer that is done; it blocks while the driver   *)
(* streams and none is.  The function goes on when it fails, with the      *)
(* index and the length of an earlier buffer.                               *)
DqbufFaulty ==   \* the result is not kept
    /\ pc = "dqbuf" /\ (done # <<>> \/ ~streaming)
    /\ ret' = 0 /\ pc' = "copy"
    /\ UNCHANGED <<apiVars, driverVars, caller, index, bytesFrom, copied, historyVars>>

DqbufFails ==
    /\ pc = "dqbuf" /\ (done # <<>> \/ ~streaming)
    /\ ret' = -1 /\ pc' = "copy"
    /\ UNCHANGED <<apiVars, driverVars, caller, index, bytesFrom, copied, historyVars>>

(* A multi-planar device tells the lengths in the planes, not in vbuf.      *)
Dqbuf ==
    /\ pc = "dqbuf" /\ streaming /\ done # <<>>
    /\ index' = Head(done) /\ done' = Tail(done)
    /\ bytesFrom' = IF mplane THEN 0 ELSE content[Head(done)]
    /\ ret' = 0 /\ pc' = "copy"
    /\ UNCHANGED <<apiVars, streaming, incoming, waiting, frames, content, caller, copied,
                   historyVars>>

DqbufBlocks ==
    pc = "dqbuf" /\ streaming /\ done = <<>> /\ UNCHANGED vars

(* The copy of vbuf.bytesused bytes into the caller's memory, while the     *)
(* driver goes on capturing.  A copy of no bytes touches nothing.           *)
CopyFaulty ==   \* from the first buffer
    /\ pc = "copy" /\ (index \in mapped \/ bytesFrom = 0)
    /\ copied' = IF bytesFrom = 0 THEN copied ELSE content[0]
    /\ pc' = "qbuf"
    /\ UNCHANGED <<apiVars, driverVars, caller, index, bytesFrom, ret, historyVars>>

Copy ==
    /\ pc = "copy" /\ (index \in mapped \/ bytesFrom = 0)
    /\ copied' = IF bytesFrom = 0 THEN copied ELSE content[index]
    /\ pc' = "qbuf"
    /\ UNCHANGED <<apiVars, driverVars, caller, index, bytesFrom, ret, historyVars>>

(* Where nothing is mapped the copy is a fault, which ends the process.     *)
CopyFaults ==
    /\ pc = "copy" /\ index \notin mapped /\ bytesFrom # 0
    /\ pc' = "dead"
    /\ UNCHANGED <<apiVars, driverVars, caller, index, bytesFrom, ret, copied, historyVars>>

(* Behind the end of camera.buffers the address is a wild one, from which   *)
(* anything may be copied.                                                  *)
CopyWild ==
    /\ pc = "copy" /\ index \notin Granted /\ bytesFrom # 0
    /\ copied' = 0 /\ pc' = "qbuf"
    /\ UNCHANGED <<apiVars, driverVars, caller, index, bytesFrom, ret, historyVars>>

(* DQBUF and QBUF write to the planes of vbuf.  To write to freed ones may  *)
(* end the process, there or later.                                         *)
PlanesFault ==
    /\ pc \in {"dqbuf", "qbuf"} /\ planes = "freed"
    /\ pc' = "dead"
    /\ UNCHANGED <<apiVars, driverVars, caller, index, bytesFrom, ret, copied, historyVars>>

(* camera_capture returns what DQBUF returned, whatever became of QBUF,     *)
(* which may leave the length in vbuf or clear it.                          *)
CaptureReturns ==
    /\ pc' = "idle" /\ taken' = IF ret = 0 THEN copied ELSE taken
    /\ bytesFrom' \in {bytesFrom, 0}
    /\ UNCHANGED <<apiVars, streaming, done, frames, content, caller, index, ret, copied,
                   mapFailed, started, restarted, timedOut>>

(* A buffer that QBUF fails to give back is lost to the driver.             *)
QbufFails ==
    /\ pc = "qbuf" /\ CaptureReturns
    /\ lost' = IF index \in InDriver \/ index \notin Granted THEN lost ELSE lost \cup {index}
    /\ UNCHANGED <<incoming, waiting>>

QbufFaulty ==   \* buffer 0 is given back
    /\ pc = "qbuf" /\ 0 \notin InDriver /\ CaptureReturns
    /\ incoming' = incoming \cup {0} /\ waiting' = FALSE /\ lost' = lost

(* The driver takes back a buffer of its own that it does not have, also    *)
(* when it does not stream.                                                 *)
Qbuf ==
    /\ pc = "qbuf" /\ index \in Granted \ InDriver /\ CaptureReturns
    /\ incoming' = incoming \cup {index} /\ waiting' = FALSE
    /\ lost' = lost \ {index}

-----------------------------------------------------------------------------
camera_capture ==
    \/ SelectFails \/ SelectTimeout \/ SelectReady
    \/ DqbufFails \/ Dqbuf \/ DqbufBlocks \/ Copy \/ CopyFaults \/ CopyWild
    \/ PlanesFault \/ QbufFails \/ Qbuf

Dead == pc = "dead" /\ UNCHANGED vars

Next ==
    \/ InitFails \/ InitFailsHalfWay \/ InitSucceeds
    \/ StreamOnFails \/ camera_streamon \/ StreamOffFails \/ camera_streamoff
    \/ camera_deinit
    \/ BeginCapture \/ camera_capture
    \/ DriverCaptures \/ Dead

Spec == Init /\ [][Next]_vars

(* A call that has begun goes on; a blocked DQBUF waits for the driver.     *)
FairSpec == Spec /\ WF_vars(camera_capture)

-----------------------------------------------------------------------------
TypeOK ==
    /\ {mplane, devOpen, streamOn, streaming, waiting} \subseteq BOOLEAN
    /\ {started, restarted, timedOut} \subseteq BOOLEAN
    /\ granted \in 1 .. BufCount
    /\ {buffers, planes} \subseteq {"null", "live", "freed"}
    /\ index \in Buf /\ {mapped, mapFailed, incoming, lost} \subseteq SUBSET Buf
    /\ done \in Seq(Buf) /\ content \in [Buf -> 0 .. MaxFrames]
    /\ caller \in {"closed", "open", "on"} /\ (caller = "closed") = ~devOpen
    /\ pc \in {"idle", "select", "dqbuf", "copy", "qbuf", "dead"} /\ ret \in {0, -1}
    /\ {frames, bytesFrom, copied, taken} \subseteq 0 .. MaxFrames

(* The driver does not have the buffer that a successful capture copies, so *)
(* that the copy is one whole frame.                                        *)
CopyIsStable == pc \in {"copy", "qbuf"} /\ ret = 0 => index \notin InDriver

(* What a successful capture leaves in the caller's memory and the length   *)
(* it reports are of one frame, whichever earlier capture failed half way.  *)
(* Of a multi-planar device this is not said: its lengths are never read.   *)
WholeFrame == pc = "qbuf" /\ ret = 0 /\ ~mplane => bytesFrom = copied

(* From the first streamon after cam_init on, a copy reads a buffer of the  *)
(* open device, also when DQBUF fails and vbuf was left over from a device  *)
(* with more buffers that was closed.  What ends the process is a buffer    *)
(* that mmap failed to map, planes that streamoff freed, or a capture       *)
(* before that streamon.                                                    *)
CopySourceMapped ==
    /\ started /\ pc \in {"copy", "qbuf"} => index \in Granted
    /\ started /\ pc = "dead" => planes = "freed" \/ index \in mapFailed

(* Each successful capture returns a newer frame than the one before.       *)
CapturesAdvance ==
    [][pc = "qbuf" /\ pc' = "idle" /\ ret = 0 /\ ~mplane => taken' > taken]_vars

(* Between captures the driver has every buffer, in one place each, except  *)
(* those that a failed QBUF kept from it.                                   *)
BuffersAccounted ==
    devOpen /\ ~restarted /\ pc \in {"idle", "select"} =>
        /\ InDriver = Granted \ lost
        /\ \A i, j \in 1 .. Len(done) : done[i] = done[j] => i = j
        /\ \A i \in 1 .. Len(done) : done[i] \notin incoming

(* The planes of vbuf are freed once, and freed ones are in vbuf only while *)
(* the device does not stream: nothing but a capture between streamoff and  *)
(* the next streamon can give them to the driver.                           *)
PlanesNotFreed == streamOn \/ streaming => planes # "freed"

(* A capture returns in the end, or the process dies of it.  The one place  *)
(* where it may wait for ever is a DQBUF after streamoff and streamon, when *)
(* the driver streams and has no buffer at all.                             *)
EveryCaptureReturns ==
    pc # "idle" ~> \/ pc \in {"idle", "dead"}
                   \/ restarted /\ pc = "dqbuf" /\ streaming /\ InDriver = {}

(* camera_capture says of a timeout that it ends the capture thread.        *)
TimeoutEndsCapture == timedOut => pc = "idle"
=============================================================================
