---------------------------- MODULE DisplayImage ----------------------------
(***************************************************************************)
(* The client's bounded image queue and display thread                     *)
(* (client/display_image.cc).  The I/O thread calls push for every message *)
(* the codec delivers; the display thread polls the queue without the      *)
(* lock, pops under it, decodes and shows.  A step is one access to the    *)
(* state the threads share, so that every interleaving of the two, with    *)
(* the lock and without it, is a behaviour.                                *)
(***************************************************************************)
EXTENDS Integers, Sequences

CONSTANTS Image,                 \* the encoded images the server may send
          Size,                  \* the number of bytes of each
          Complete,              \* the images that hold a complete JPEG
          NoImage,               \* no image in hand
          MAX_TOTAL_IMAGE_SIZE,  \* the queue's bound, in bytes
          UintMod,               \* 2^32: the width of uint32_t
          MaxAccepted            \* bound: how many images are ever accepted

(* The codec delivers no message above its own limit, so that the sum in    *)
(* push's test stays within 32 bits.  An empty image holds no JPEG.         *)
ASSUME DisplayAssumption ==
    /\ Size \in [Image -> Nat]
    /\ NoImage \notin Image
    /\ Complete \subseteq {img \in Image : Size[img] > 0}
    /\ MAX_TOTAL_IMAGE_SIZE \in Nat /\ UintMod \in Nat /\ MaxAccepted \in Nat
    /\ MAX_TOTAL_IMAGE_SIZE < UintMod
    /\ \A img \in Image : MAX_TOTAL_IMAGE_SIZE + Size[img] < UintMod

VARIABLES image_queue_, total_image_size_,
          mutex_,       \* the thread that holds mutex_, or "free"
          loopPc,       \* where the I/O thread is in push
          incoming,     \* push's argument
          displayPc,    \* where the display thread is in threadFunction
          image,        \* the image it popped
          accepted,     \* history: every image push has queued, in order
          bytesBefore,  \* history: bytesBefore[i] bytes were queued before accepted[i]
          popped        \* history: how many images pop has taken

queueVars == <<image_queue_, total_image_size_>>
loopVars == <<loopPc, incoming>>
displayVars == <<displayPc, image>>
history == <<accepted, bytesBefore, popped>>
vars == <<queueVars, mutex_, loopVars, displayVars, history>>

-----------------------------------------------------------------------------
(* The bytes of the images queued and not yet taken, by the history.        *)
QueuedBytes == bytesBefore[Len(accepted) + 1] - bytesBefore[popped + 1]

Init ==
    /\ image_queue_ = <<>> /\ total_image_size_ = 0
    /\ mutex_ = "free"
    /\ loopPc = "idle" /\ incoming = NoImage
    /\ displayPc = "poll" /\ image = NoImage
    /\ accepted = <<>> /\ bytesBefore = <<0>> /\ popped = 0

-----------------------------------------------------------------------------
(* DisplayImage::push, called by the I/O thread.                            *)

AcquiredByFaulty(thread) == mutex_' = thread   \* nobody waits

(* lock_guard's constructor: the thread waits until the mutex is free.      *)
AcquiredBy(thread) == mutex_ = "free" /\ mutex_' = thread

PushLock(img) ==
    /\ loopPc = "idle" /\ Len(accepted) < MaxAccepted
    /\ AcquiredBy("loop")
    /\ loopPc' = "push" /\ incoming' = img
    /\ UNCHANGED <<queueVars, displayVars, history>>

WouldOverflowFaulty(size) == MAX_TOTAL_IMAGE_SIZE < total_image_size_

WouldOverflowEager(size) ==
    MAX_TOTAL_IMAGE_SIZE < (total_image_size_ + size + 1) % UintMod

(* The test of push, in the 32-bit arithmetic of total_image_size_ + size.  *)
WouldOverflow(size) ==
    MAX_TOTAL_IMAGE_SIZE < (total_image_size_ + size) % UintMod

(* The image does not fit: push returns false and the image is lost.        *)
PushReject ==
    /\ loopPc = "push" /\ WouldOverflow(Size[incoming])
    /\ loopPc' = "idle" /\ incoming' = NoImage /\ mutex_' = "free"
    /\ UNCHANGED <<queueVars, displayVars, history>>

(* image_queue_.push(item): the poll of the display thread may already see  *)
(* the image, although push still holds the lock.                           *)
PushEnqueue ==
    /\ loopPc = "push" /\ ~WouldOverflow(Size[incoming])
    /\ image_queue_' = Append(image_queue_, incoming)
    /\ loopPc' = "account"
    /\ accepted' = Append(accepted, incoming)
    /\ bytesBefore' = Append(bytesBefore,
                             bytesBefore[Len(accepted) + 1] + Size[incoming])
    /\ UNCHANGED <<total_image_size_, mutex_, incoming, displayVars, popped>>

(* total_image_size_ += size, and the lock_guard's destructor.              *)
PushAccount ==
    /\ loopPc = "account"
    /\ total_image_size_' = (total_image_size_ + Size[incoming]) % UintMod
    /\ loopPc' = "idle" /\ incoming' = NoImage /\ mutex_' = "free"
    /\ UNCHANGED <<image_queue_, displayVars, history>>

-----------------------------------------------------------------------------
(* DisplayImage::threadFunction, on the display thread.                     *)

PollFaulty ==
    /\ displayPc = "poll" /\ displayPc' = "lock"
    /\ UNCHANGED <<queueVars, mutex_, loopVars, image, history>>

(* image_queue_.empty() is read without the lock.  The racing read finds    *)
(* push's write to the queue either made or not, which is the order of the  *)
(* two steps; an empty queue makes the thread yield and read again.         *)
Poll ==
    /\ displayPc = "poll" /\ image_queue_ # <<>>
    /\ displayPc' = "lock"
    /\ UNCHANGED <<queueVars, mutex_, loopVars, image, history>>

PollAgain == displayPc = "poll" /\ image_queue_ = <<>> /\ UNCHANGED vars

PopLock ==
    /\ displayPc = "lock"
    /\ AcquiredBy("display")
    /\ displayPc' = "front"
    /\ UNCHANGED <<queueVars, loopVars, image, history>>

PopFrontFaulty ==   \* front() without pop()
    /\ displayPc = "front" /\ image_queue_ # <<>>
    /\ image' = Head(image_queue_)
    /\ displayPc' = "account" /\ popped' = popped + 1
    /\ UNCHANGED <<queueVars, mutex_, loopVars, accepted, bytesBefore>>

(* front() and pop() of the std::queue, which must not be empty.            *)
PopFront ==
    /\ displayPc = "front" /\ image_queue_ # <<>>
    /\ image' = Head(image_queue_) /\ image_queue_' = Tail(image_queue_)
    /\ displayPc' = "account" /\ popped' = popped + 1
    /\ UNCHANGED <<total_image_size_, mutex_, loopVars, accepted, bytesBefore>>

(* total_image_size_ -= image->size(), and the lock_guard's destructor.     *)
PopAccount ==
    /\ displayPc = "account"
    /\ total_image_size_' = (total_image_size_ - Size[image]) % UintMod
    /\ displayPc' = "decode" /\ mutex_' = "free"
    /\ UNCHANGED <<image_queue_, loopVars, image, history>>

DecodeFaulty ==   \* waitKey(0): wait for a key that nobody presses
    displayPc = "decode" /\ Size[image] > 0 /\ UNCHANGED vars

(* imdecode returns a matrix, shown or skipped as empty; the loop goes on.  *)
Decode ==
    /\ displayPc = "decode" /\ Size[image] > 0
    /\ displayPc' = "poll" /\ image' = NoImage
    /\ UNCHANGED <<queueVars, mutex_, loopVars, history>>

(* The process dies in the display thread.  The data() of an empty vector   *)
(* is null, which the constructor of cv::Mat refuses with an exception that *)
(* nothing catches; and imdecode is told that the image is HEIGHT * WIDTH   *)
(* * 3 bytes long, so that it may read past the end of an incomplete one.   *)
Crash ==
    /\ displayPc = "decode" /\ image \notin Complete
    /\ displayPc' = "dead" /\ loopPc' = "dead"
    /\ UNCHANGED <<queueVars, mutex_, incoming, image, history>>

Dead == displayPc = "dead" /\ UNCHANGED vars

-----------------------------------------------------------------------------
LoopThread ==
    \/ \E img \in Image : PushLock(img)
    \/ PushReject \/ PushEnqueue \/ PushAccount

DisplayThread ==
    Poll \/ PollAgain \/ PopLock \/ PopFront \/ PopAccount \/ Decode \/ Crash

Next == LoopThread \/ DisplayThread \/ Dead

Spec == Init /\ [][Next]_vars

(* Both threads keep running: a push that has begun ends (nothing in it     *)
(* waits), and the display thread's next step is taken when it stays        *)
(* possible.  Nothing makes the I/O thread call push.  The mutex is free    *)
(* between two pushes, while the I/O thread reads the next message off the  *)
(* socket, but not for good: that the display thread gets it in one of      *)
(* these gaps is strong fairness, an assumption about the C++ runtime.      *)
Fairness ==
    /\ WF_vars(PushReject \/ PushEnqueue \/ PushAccount)
    /\ WF_vars(DisplayThread)
    /\ SF_vars(PopLock)

FairSpec == Spec /\ Fairness

-----------------------------------------------------------------------------
TypeOK ==
    /\ image_queue_ \in Seq(Image)
    /\ total_image_size_ \in 0 .. UintMod - 1
    /\ mutex_ \in {"free", "loop", "display"}
    /\ loopPc \in {"idle", "push", "account", "dead"}
    /\ displayPc \in {"poll", "lock", "front", "account", "decode", "dead"}
    /\ incoming \in Image \cup {NoImage}
    /\ image \in Image \cup {NoImage}
    /\ accepted \in Seq(Image)
    /\ bytesBefore \in Seq(Nat) /\ Len(bytesBefore) = Len(accepted) + 1
    /\ popped \in 0 .. Len(accepted)

(* Although the display thread looks at the queue without the lock, pop     *)
(* never takes the front of an empty queue.                                 *)
NoPopOfEmptyQueue == displayPc \in {"lock", "front"} => image_queue_ # <<>>

(* Whenever no thread is inside push or pop, total_image_size_ is the exact *)
(* number of bytes in the queue: no update is lost and none wraps.          *)
AccountingExact == mutex_ = "free" => total_image_size_ = QueuedBytes

(* The queue never holds more than MAX_TOTAL_IMAGE_SIZE bytes, not even     *)
(* between an enqueue and the update of the total.                          *)
QueueBounded == QueuedBytes <= MAX_TOTAL_IMAGE_SIZE

(* push drops an image only when the images then queued leave it no room.   *)
RejectedOnlyWhenFull ==
    [][loopPc = "push" /\ loopPc' = "idle"
         => QueuedBytes + Size[incoming] > MAX_TOTAL_IMAGE_SIZE]_vars

(* The two threads together implement the byte-bounded FIFO.                *)
Fifo == INSTANCE ImageFifo
          WITH Capacity <- MAX_TOTAL_IMAGE_SIZE,
               queue <- image_queue_, bytes <- QueuedBytes
ImplementsFifo == Fifo!Spec

(* Every image push has queued is taken by the display thread, unless the   *)
(* process dies first.                                                      *)
EveryImageTaken ==
    \A i \in 1 .. MaxAccepted :
        Len(accepted) >= i ~> (popped >= i \/ displayPc = "dead")

(* imgcodecs.hpp says of imdecode that invalid data gives an empty matrix,  *)
(* and threadFunction skips an empty matrix: no image ends the client.      *)
BadImageIsSkipped == displayPc # "dead"
=============================================================================
