# TLA+ models of the camera video stream

The repository streams JPEG frames from a V4L2 camera on a server to a window
on its clients. These modules model its own code (`src/server`, `src/client`,
`src/common`); the networking library (muduo) and the image library (OpenCV)
are vendored, and modelled only as far as that code relies on them; of muduo, the
class `Buffer`, whose code is in its header, has a module of its own.

## 1. The system

```
 server process                                  client process
 ----------------------------------------        ---------------------------------------
 send thread             loop thread             I/O thread              display thread
 cam_init, streamon      accept, close           connect, retry          poll the queue
 camera_capture   ---->  onConnection            onMessage (codec)       pop, imdecode
 walk connections_ <---- insert / erase          onStringMessage         imshow, test_fps
 codec_.send             doPendingFunctors ==TCP==>  push   ---- queue ---->
```

| component | code | state | operations | how it meets the others |
|---|---|---|---|---|
| camera API | `server/cameraapp.cc` | statics `devOpen`, `streamOn`, `vbuf`, `camera` (buffers mapped from the driver) | `cam_init`, `camera_streamon`, `camera_capture`, `camera_streamoff`, `camera_deinit` | called by the send thread; the driver fills the queued buffers at any time |
| `ChatServer` | `server/server.cc` | `connections_` (a `std::set`, no lock), the frame `buf` | `onConnection` (loop thread), `sendThreadFunc` (send thread), `onStringMessage` (does nothing) | both threads use the set; a send becomes a functor of the event loop with a raw connection pointer |
| `LengthHeaderCodec` | `common/codec.h` | none of its own: the connection's input buffer | `send`, `onMessage` | one end on the server's send thread, the other on the client's I/O thread, TCP between |
| `DisplayImage` | `client/display_image.cc` | `image_queue_`, `total_image_size_`, `mutex_` | `push`, `pop`, `threadFunction` | `push` from the I/O thread, the rest on the display thread |
| `test_fps` | `common/common.cc` | statics `last_ms`, `count` | `test_fps` | called by the display thread for each image shown |
| `ChatClient` | `client/client.cc` | `connection_` under `mutex_` | `onConnection`, `onStringMessage`, `write`, `disconnect`, retry of the connect | hands each message to `push`; a write becomes a functor of the loop with a raw connection pointer |
| `Buffer` | muduo's `net/Buffer.h` | a vector with a reader and a writer index | `append`, `prepend`, `retrieve`, `unwrite`, `ensureWritableBytes`, `shrink` | the codec's input and output |
| helpers | `common/common.cc` | none | `set_value`, `get_value`, `print_hex_data`, `save_data_to_file` | nothing calls them |

What is hard in it, and what makes each part correct:

* **DisplayImage.** The display thread looks at the queue *without* the lock
  and pops under it. Correct: it never pops an empty queue; the byte total is
  exact although two threads update it; the bound holds; only images that do
  not fit are dropped; every image queued is shown.
* **LengthHeaderCodec.** TCP cuts the stream anywhere and either end may close
  at any point. Correct: messages arrive whole and in order, the receiver hangs
  up only on a message that is really too long, and never waits for ever on one
  that has come.
* **ChatServer.** The list is read and written by two threads without a lock,
  and a queued send holds a raw pointer to a connection that may be freed. The
  codec reads here too: a bad header of a client shuts its connection down,
  which stays in the list until the client closes. Correct: outside such an
  overlap nothing undefined happens; each client gets the frames without gaps;
  a closed connection is freed.
* **Camera API.** Every call may fail half-way and the driver runs all the
  time. Correct: the copied buffer is not the driver's, frames advance, no
  buffer is lost without a failure, memory is freed once, captures return.
* **ChatClient.** Callers write while the loop loses the connection and makes
  a new one; what they queue are raw pointers. Correct: no pointer dangles,
  messages go out in order and once, a lost connection is freed and replaced.
* **Buffer.** Grows, moves its content to the front, and prepends into the
  room there. Correct: it is a string of bytes, in memory that does not grow
  with the stream.
* **The whole stream.** Reconnects in the middle of a frame, hang-ups, a full
  image queue, images that do not decode or end the client, and undefined
  rounds of sends meet. Correct: the viewer sees
  whole frames that never go back in time, and the stream comes back.
* **test_fps.** Reads a clock that may be set. Correct: prints the rate.

`PROJECT.json` lists every hazard at its line with the properties that guard it.

## 2. Modules

| module | models | state and actions |
|---|---|---|
| `ImageFifo` | *abstract:* a FIFO of images bounded in bytes | `Put`, `Take` |
| `DisplayImage` | `display_image.cc`, both threads | a step is one access to shared state: `PushLock`/`PushReject`/`PushEnqueue`/`PushAccount` are `push`; `Poll` is the unlocked `empty()`; `PopLock`/`PopFront`/`PopAccount` are `pop`; `Decode`/`Crash` the rest of the thread |
| `DisplayImageProofs` | proofs | |
| `MessageChannel` | *abstract:* whole messages in order, cut off at the first that is too long or when the receiver closes | `Send`, `Deliver`, `Close` |
| `LengthHeaderCodec` | `codec.h`, one connection | bytes are positions of the stream; `send`; `Receive(n)` is a read of any size; `NeedMore`/`Shutdown`/`Deliver` are one turn each of `onMessage`'s loop. A receiver that is *not* at the start of a frame reads any length and delivers garbage, so staying in step is not built in |
| `LengthHeaderCodecProofs` | proofs | |
| `ByteQueue` | *abstract:* a string of bytes with two ends | `AppendChunk`, `PrependChunk`, `Retrieve`, `Unwrite` |
| `Buffer` | muduo's `Buffer.h` | a record of the array and its two indices; each method is an operator on it, `makeSpace` with both its branches; `Next` calls them within their assertions |
| `ChatClient` | `client.cc` and the part of muduo's `TcpClient` under it | loop thread: `Connects`/`ConnectFails`/`Retry`, `HandleClose`, `onConnection`, `Remove`, `TakeBatch`/`RunFunctor`/`FreeBatch`; callers: `WriteLock`/`WriteLook`/`WriteCheck`/`WriteQueue` are `write`, `Disconnect`/`Shutdown` are `disconnect` |
| `VideoFeed` | *abstract:* the frame in the window, which only goes forward | `Capture`, `Show` |
| `StreamSystem` | the composition of server, connections, codec, client and image queue | `Capture`/`Send`/`RoundEnds` and `Accept`/`ServerClose`/`Crash` on the server, `Connect`/`HandleClose`/`Receive` and `NeedMore`/`Shutdown`/`Deliver` on the client, whose queue takes the steps of `ImageFifo`; `Show`, `Skip` and `ClientDies` are what becomes of the oldest image on the display thread |
| `BufferProofs`, `ChatClientProofs`, `ChatServerProofs`, `CameraAppProofs`, `StreamSystemProofs` | proofs | |
| `FrameBroadcast` | *abstract:* captured frames that never go back; as long as every step was defined, only on connections that are up, and without a gap | `Capture`, `ComesUp`, `ShutDown`, `GoesDown`, `Write`, and `Meet` for an undefined step |
| `ChatServer` | `server.cc` and the part of muduo where its threads meet | loop thread: `NewConnection`/`Insert`, `Shutdown`/`ShutdownWrite` for a bad header, `HandleClose`/`Erase`/`Remove`, `TakeBatch`/`SendInLoop`/`ConnectDestroyed`/`FreeBatch`; send thread: `CamInit`, `Capture`, then `Begin`/`Deref`/`Check`/`Queue`/`Advance` for the round |
| `CameraApp` | `cameraapp.cc` and the driver's queues | one action per outcome of each call; `camera_capture` in the steps select, DQBUF, copy, QBUF, with `DriverCaptures` between them |
| `FpsMeter`, `FpsMeterProofs` | `test_fps` and the system clock | `FirstFrame`, `CountFrame`, `PrintFrame`; `TimePasses`, `ClockSet` |
| `MC*` | the finite instances of the modules that need definitions for their constants | |

Operators whose name ends in `Faulty`, `Eager`, `Strict`, `Short` or `Always`
are plausible mistakes in the code. No specification uses them; they
stand next to the operator they would replace, and `PROJECT.json` pairs each
with the property that notices it.

**Undefined behaviour.** In `ChatServer`, a read of the set while it changes,
the use of an iterator whose node is gone, and the use of a freed connection
are choices: the process dies (`Crash`), or goes on with any iterator that
could be read, any connection state, or an old pointer. A functor that runs for
a freed connection reads any state and writes nothing, or its frame to whatever
socket the stale descriptor now belongs to. What a wild write may do to the rest of
the memory is not modelled, nor that such a frame could be cut. `undefined`
counts such steps; the properties that cannot hold after one say so. In
`CameraApp` the freed planes that a capture after streamoff gives to the driver
may end the process (`PlanesFault`) or seem to work, and a copy with an index
behind the buffers dies or copies anything (`CopyWild`). In `DisplayImage` the
racing read of `empty()` compares two pointers, one of which `push` changes
with one store, so it sees the queue before or after the `push`: the order of
`PushEnqueue` and `Poll`.

**Abstractions.** An image or a message is a model value with a size. In the
codec a byte has no value, only a position. In `CameraApp` frames are numbered
as captured, and of the length in `vbuf.bytesused` the model keeps which frame
it belongs to (`bytesFrom`; 0 for no bytes, as a multi-planar driver leaves it),
not how long it is, so that its comparison with the caller's memory is outside
the model. Its caller may do anything at any time, captures with the stream off
included, except that `cam_init` is called only on a closed device and always
for the same camera, so that `mplane` is chosen once; how many buffers the driver grants is
chosen at each opening. `StreamSystem` has the connections' outcome rather than their steps:
the functors that are queued for a connection and the bytes on their way are
one sequence, `wire`, of which a close loses any rest; a frame is `Parts` pieces,
the first with the header; the image queue counts images. Its components are
the specifications they are shown to implement (`ImageFifo`, and the codec and
the server as their own runs and proofs describe them: after a change of the
list during a round, the rest of the round goes to any connections at all,
each at most once more for every such change, or crashes). Its clients send
nothing, as in `client.cc`'s `main`, so the server has nothing to shut down
there; `ChatServer` has other clients too. A client that an image has ended is
not started again. The address of a freed connection is not reused.
`MaxLen` stands for 65536*20, `MAX_TOTAL_IMAGE_SIZE` for ten megabytes,
`UintMod` for 2^32, `ClockMod` for 2^64.

## 3. Runs

| run | question | answer |
|---|---|---|
| `display_image` | is the queue right under every interleaving of the two threads? | yes, all properties hold |
| `display_image_bad` | is a bad image skipped, as documented? | **no**, see finding 1 |
| `length_header_codec` | does the codec make a message channel of a stream cut anywhere, with lengths on both sides of the limit and either end closing? | yes |
| `chat_server` | what do the missing lock and raw pointers cost? | undefined steps occur, but only when a client comes or goes during a round; even after one no client gets a frame older than the last; until then streams are gapless; the list is the connections not yet closed, those shut down for a bad header included |
| `chat_server_live` | is every closed connection freed, and every frame written? | yes, short of an undefined step, and of a client that goes or was shut down |
| `camera_app` | is the API safe for a caller that opens, stops and captures in any order, on both interfaces, with any call failing? | what a successful capture returns is whole, stable while copied and newer each time (on a multi-planar device its length is never read); buffers are lost only by a failed QBUF. The properties name the exceptions: a capture after streamoff and streamon may block for ever, and a failed `mmap`, freed planes or a capture before the first streamon may be fatal |
| `camera_timeout` | does a timeout end the capture thread, as the message says? | **no**, see finding 2 |
| `buffer` | is a `Buffer` a string of bytes in bounded memory, whatever the order of calls? | yes |
| `chat_client` | are writes safe and in order while the connection changes, and does the client keep trying? | yes |
| `stream_system` | what does the viewer see when connections are lost in mid-frame, frames are too long, the queue is full and rounds are undefined? | whole frames that never go back; short of those reasons every frame arrives; the client comes back |
| `fps_meter` | is the printed rate ever too low in an undisturbed window? | no |
| `fps_meter_rate` | is it ever too high? | **yes**, see finding 3 |

### Bounds, and why they are enough

* `MCDisplayImage`: six bytes of queue, images of 0, 2 and 3 bytes, five
  accepted images: the queue fills with different mixes (3+3, 2+2+2 with empty
  ones), rejects, drains and fills again. Rejected images are not bounded.
  `UintMod = 16` lets the sum in `push`'s test fit, as 32 bits do, and shows a
  total that falls below zero. The proofs cover every value.
* `MCLengthHeaderCodec`: messages of 0, 1, the longest and one byte too many;
  three of them give every sequence of a good frame before, at and after the
  limit; every cut of the stream. The header has its four bytes. Proved for
  every value.
* `MCChatServer`: two connections with ordered addresses (the set is sorted, so
  no symmetry is used) and three frames: one client can join before, inside or
  after the other, and close while a send to it is in the round, in the queue
  or in the running batch. One undefined step may be survived; the proofs
  take any number. The liveness run has two frames, since its graph of fair
  behaviours is large: a send of the first may still be queued in the round of
  the second.
* `CameraApp`: two buffers (one in the driver, one in the caller's hands), of
  which the device grants one or both, and four frames, so that each buffer is
  reused; closing and opening again, with another number of buffers, is not
  bounded. Proved for every number of buffers.
* `MCBuffer`: a prepend area of two bytes and three more, contents of up to
  five: the array grows by each of its branches, moves its content down, and
  prepends before and after. Bytes of two values besides the zeroes of a fresh
  array show an overlap. Proved for every size.
* `ChatClient`: two callers, two connections and three writes: both callers are
  in `write` or `disconnect` while the connection changes, and writes remain
  for the second connection. Proved for any number of each.
* `StreamSystem`: four frames of two pieces, the third above the limit, and two
  connections: two frames in a row on one connection, one of them cut by its
  loss, a hang-up, and a frame after it; the old connection may still be listed
  when the new one is. One image fits into the queue, so that `push` rejects.
  The second frame holds no complete image, so that it is shown, skipped or fatal
  before and after frames that are good.
  Proved for any number of frames, connections and pieces, and any capacity.

Deadlock is checked in every run; where a system may rest (a dead process, the
bounds of a run) a stuttering action named for it says so (`Dead`, `Crashed`,
`Finished`, `Poll`, `Wait`, `Idle`).

### Fairness, and what justifies it

* `DisplayImage`: a `push` that has begun ends, and the display thread keeps
  running (the OS schedules both). `SF_vars(PopLock)`: the mutex is free
  between two pushes, and the display thread gets it in one of these gaps. This
  is an assumption: `std::mutex` does not promise it. Without it
  `EveryImageTaken` fails, since the I/O thread may take the lock each time.
* `LengthHeaderCodec`: TCP delivers what was sent while both ends are up, the
  loop of `onMessage` ends, the end of the stream is noticed. Nobody is obliged
  to send.
* `ChatServer`: the loop finishes what it handles and runs what is queued, and
  the send thread finishes a round it has begun. Nothing makes a client come or
  go, or the camera deliver. When the bound on survived undefined steps is
  reached, the next one ends the process, or the run would stop there.
* `ChatClient`: the loop finishes what it handles, a call returns, and the
  retry's timer expires. Nothing makes the server accept, or stay. The bound on
  the calls of `write` means that a caller cannot keep the mutex from the loop
  for ever; as with the image queue, `std::mutex` would not promise that.
* `StreamSystem`: TCP delivers, both loops and the display thread go on, a
  defined round ends, and a server that runs is reached by one of the client's
  retries (`ComesBack` needs this; the retry itself is `KeepsTrying`).
  Captures, losses of the connection and crashes are not fair.
* `CameraApp`: a call that has begun goes on. The driver is *not* fair: select
  times out instead. A blocked DQBUF (`DqbufBlocks`) is a stuttering step, so
  only the driver can end it.

## 4. Proofs

Checked by TLAPS for every value of the constants that satisfies the modules'
assumptions (sizes are natural numbers, no sum exceeds the word; the clock fits
its width for the time the meter runs).

* **`DisplayImageProofs`**: `TypeOK`, `NoPopOfEmptyQueue`, `AccountingExact`,
  `QueueBounded`, `RejectedOnlyWhenFull`, and that `DisplayImage` implements
  `ImageFifo`. The invariants are not inductive alone. The strengthening says
  who holds the mutex at each place of each thread, that the queue is the part
  of the history not yet popped (`image_queue_[i] = accepted[popped + i]`),
  that `bytesBefore` sums the sizes of that history, and what
  `total_image_size_` is in the steps between the two updates of `push` and
  `pop`. The safety of the unlocked look follows from the place of the display
  thread: between `Poll` and `PopFront` nobody else removes an image. Exact
  accounting needs the bound and the bound needs exact accounting, so they are
  one invariant; the lemma `NoWrap` takes the arithmetic modulo 2^32 away.
* **`LengthHeaderCodecProofs`**: `TypeOK`, `OnFrameBoundary`,
  `HangsUpOnOversize`, `LeftoverBounded`, and that the codec implements
  `MessageChannel`. The strengthening says that `start` is strictly increasing
  with the frames' lengths (so that exactly one frame begins where the receiver
  stands, and the length it reads is that of the message), that what was
  delivered is a prefix of what was sent, and that a connection goes down only
  between two calls of `onMessage`.
* **`FpsMeterProofs`**: `TypeOK` and `NeverUnderstates`. The strengthening:
  in a window in which nobody set the clock, the clock's difference is the real
  time that passed; the arithmetic (a third of `n + 1`, rounded down, plus one,
  over a window longer than three seconds) is the lemma `ThirdIsEnough`.

* **`CameraAppProofs`**: all safety properties of `CameraApp`, for any number
  of buffers asked for and granted, both interfaces and both kinds of caller. That
  the copy stays within the buffers after a reopening rests on streamon's
  clearing `vbuf`; `started` says since when. The strengthening says
  where each buffer is (queued, done, in the hands of a capture, or lost) and
  orders the frames: those in the done buffers are newer, in their order, than
  the one in hand, which is newer than what was returned. The clause for the
  frame in hand is what makes a failed DQBUF harmless: it claims nothing when
  `ret` is -1, and the next success sets index and length together.
* **`ChatServerProofs`**: `TypeOK`, `ListIsConnected`,
  `UndefinedOnlyOnOverlap`, `FramesConsecutive`, and that `ChatServer` implements
  `FrameBroadcast`, for any number of connections. Layers of the invariant:
  `Control`: the list is the connections that came up and are not closed,
  give or take the one that onConnection has in hand. `Sound`: as long as nothing overlapped, the
  iterator stands on a listed connection, and no functor behind the one that
  destroys a connection refers to it. `Stream`: as long as no step was
  undefined, what was written to a connection and what is queued for it
  together are consecutive frames up to the one the round has reached. The
  iterator's minimum comes from the well-foundedness of the naturals. A
  connection that was shut down is listed and gets what is still queued until
  its write end goes down: `Following` says which connections the sequence must
  still reach, so that the others may miss its end, not its middle. `Ordered`
  claims what undefined steps leave true: there is one send thread and one
  queue, so that frames grow older from `buf` through the functors to what was
  written wherever a wild iterator or a stale descriptor sends them.
* **`ChatClientProofs`**: `TypeOK`, `NoDanglingPointer`, `WrittenInOrder`, for
  any number of callers. Everything rests on the order of the loop's queue:
  `connection_` is reset under the mutex *before* the functor that destroys the
  connection is queued, so a send queued under the mutex stands before it.
* **`BufferProofs`**: `TypeOK`, `MemoryBounded`, and that `Buffer` implements
  `ByteQueue`, for every initial size and prepend area. One lemma per method
  says what it does to the content; the branch of `makeSpace` that moves the
  content is right because the space in front is really there.

* **`StreamSystemProofs`**: `TypeOK`, `NoGapOnAConnection`, and that
  `StreamSystem` implements `VideoFeed`. The argument is about `Coming`, the client's input buffer followed by the pieces on their way. It is
  whole frames (`WholeFrames`: a frame that begins is all there and the next
  begins behind it, said piece by piece so that no induction over the
  sequence is needed), because a lost connection takes buffer and wire with it
  (`OneWire`). Its frames are in order, none older than the last message,
  the queue and the window, none newer than the last capture (`InOrder`). The
  codec therefore never meets a piece where no frame begins, although the model
  lets it read any length there, and never delivers a message put together from two frames.
  `NoGapOnAConnection` needs more: as long as no round was undefined, the frames
  of `Coming` are consecutive and the newest is the one the round has reached on
  this connection (`Consecutive`, with `Latest`). That the queue has
  no older frames of an earlier connection behind newer ones rests on
  `captured` alone, which never goes back. An image that is skipped leaves the
  window where it was, and a client that dies leaves nothing to come.

The type invariants of `DisplayImage`, `LengthHeaderCodec`, `FpsMeter` and
`ChatServer` are proved and not run. Every safety property and every refinement
that a passing run checks is proved. Only model-checked: the liveness properties
(fairness and ENABLED are out of the prover's reach), and the findings, which
are counterexamples.

## 5. Findings

1. **A bad image may end the client** (`display_image.cc:67`). The popped bytes
   are wrapped in a `cv::Mat` of the size of the *decoded* picture. For an empty
   image (which the codec delivers for a message of no bytes) `data()` is null
   and `cv::Mat` throws; for a short one `imdecode` may read past the end. The
   documentation of `imdecode` and `threadFunction`'s test at line 69 promise
   that such an image is skipped. Run `display_image_bad`.
2. **A timeout does not end the capture thread** (`cameraapp.cc:308` says it
   does; `server.cc:87` tries again). Run `camera_timeout`.
3. **The frame rate is `count/3` whatever the window lasted**
   (`common.cc:101`), too high when the frames come slowly at the end of it.
   Run `fps_meter_rate`.

The data race on `connections_` (`server.cc:93` against 49 and 53) is real, but
nothing in the repository claims that there is none: it is in the model, and
`UndefinedOnlyOnOverlap` says exactly when it bites.

## 6. Not modelled

* `set_value` and `get_value`, two conversions of one expression each, and
  `print_hex_data` and `save_data_to_file`, which print and write: nothing calls
  any of them. Logging, build files.
* Inside `cam_init`, the negotiation of the camera's format and rate other than
  as a call that may fail.
* `client.cc`'s `main` only connects: its call of `write` is commented out and
  its `disconnect` is never reached. `ChatClient` models the class, with
  callers that use all of it.
* The rest of muduo: the repository has headers and archives. `handleRead`,
  `doPendingFunctors`, `removeConnection` and what else the code's threads meet
  in are in the modules, marked external in the map, since their source is not
  in the repository. The headers whose code is complete (queues, singletons,
  HTTP parsing) are not used by this program, except `Buffer.h`, which is
  modelled.
* OpenCV: more than nine tenths of the repository's lines are its headers, of
  which the program calls `imdecode`, `imshow` and `waitKey`; these are
  declarations, their code is in the libraries. A model of the templates and
  intrinsics in these headers would say nothing about this program, so the
  share of all lines that the map covers stays small while the map covers the
  code in `src/server`, `src/client` and `src/common` nearly completely.
* Hazards that no property covers, each with its reason in `PROJECT.json`: the
  backlog of a slow client, the input buffer behind an invalid header, the
  fairness of the mutex, a DQBUF that blocks after streamoff and streamon, the
  length of a frame against the caller's memory, and the lengths of a
  multi-planar device. The code has no bound or check there and no text of the
  repository claims one, so there is nothing to hold it to.

## 7. Plan

Done, in this order, as the importance of the behaviour asked: the image queue
and its refinement; the codec and its refinement; the server's two threads; the
camera; the meter; their proofs; the buffer and its refinement; the client; the
composed stream and its refinement; the proofs of buffer, client, camera and
server; the broadcast that the server implements, and the proofs of the
composed stream.

Left: a component-wise composition, in which `wire` is `MessageChannel` and the
server of `StreamSystem` is `FrameBroadcast` (both need histories that
`StreamSystem` does not keep).

## 8. How to run

    tlc -config MCDisplayImage.cfg MCDisplayImage.tla
    tlc -config CameraApp.cfg CameraApp.tla
    tlapm DisplayImageProofs.tla

`PROJECT.json` names the module and the configuration of every run, the map from
definitions to source lines, and for each property the mistake it notices.
