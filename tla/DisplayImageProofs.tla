------------------------- MODULE DisplayImageProofs -------------------------
(***************************************************************************)
(* Proofs about the client's image queue, for every set of images, every   *)
(* bound and every number of images.  The invariant that is inductive says *)
(* who is where while the mutex is held, that the queue is the suffix of   *)
(* the accepted images that pop has not taken, and how far the total may   *)
(* be behind the queue at each point of push and pop.                      *)
(***************************************************************************)
EXTENDS DisplayImage, SequenceTheorems, TLAPS

(* The holder of the mutex is inside push or pop, and nobody else is.       *)
Locking ==
    /\ loopPc \in {"push", "account"} => mutex_ = "loop"
    /\ displayPc \in {"front", "account"} <=> mutex_ = "display"
    /\ mutex_ = "loop" => loopPc \in {"push", "account", "dead"}

(* A thread that works on an image has one in hand.                         *)
InHand ==
    /\ loopPc \in {"push", "account"} => incoming \in Image
    /\ displayPc \in {"account", "decode"} => image \in Image

(* The queue is what was accepted and not yet popped, in order.             *)
QueueIsSuffix ==
    /\ Len(image_queue_) = Len(accepted) - popped
    /\ \A i \in 1 .. Len(image_queue_) : image_queue_[i] = accepted[popped + i]

(* bytesBefore holds the prefix sums of the sizes of the accepted images.   *)
PrefixSums ==
    /\ bytesBefore[1] = 0
    /\ \A i \in 1 .. Len(accepted) :
           bytesBefore[i + 1] = bytesBefore[i] + Size[accepted[i]]
    /\ \A i, j \in 1 .. Len(bytesBefore) :
           i <= j => bytesBefore[i] <= bytesBefore[j]

(* The total is behind the queue only between push's, or pop's, two writes. *)
Accounting ==
    /\ loopPc = "push" \/ displayPc = "front" \/ mutex_ = "free"
         => total_image_size_ = QueuedBytes
    /\ loopPc = "account" => total_image_size_ + Size[incoming] = QueuedBytes
    /\ displayPc = "account" => total_image_size_ = QueuedBytes + Size[image]

IInv ==
    /\ TypeOK /\ Locking /\ InHand /\ QueueIsSuffix /\ PrefixSums
    /\ Accounting /\ QueueBounded /\ NoPopOfEmptyQueue

-----------------------------------------------------------------------------
(* The initial state satisfies the invariant: nothing is queued.            *)
LEMMA InitInvariant == Init => IInv
  <1> SUFFICES ASSUME Init PROVE IInv
    OBVIOUS
  <1> USE DisplayAssumption DEF Init
  <1>1. /\ Len(accepted) = 0 /\ Len(bytesBefore) = 1 /\ bytesBefore[1] = 0
        /\ image_queue_ \in Seq(Image) /\ accepted \in Seq(Image)
        /\ bytesBefore \in Seq(Nat) /\ Len(image_queue_) = 0
    OBVIOUS
  <1> QED
    BY <1>1 DEF IInv, TypeOK, Locking, InHand, QueueIsSuffix, PrefixSums,
       Accounting, QueueBounded, NoPopOfEmptyQueue, QueuedBytes

(* Arithmetic of w-bit integers is exact as long as the result fits.        *)
LEMMA NoWrap ==
    ASSUME NEW m \in Nat, NEW x \in 0 .. m - 1
    PROVE  x % m = x
  OBVIOUS

(* The queue never holds a negative number of bytes, and an image that      *)
(* passes push's test fits without wrapping the 32-bit total.               *)
LEMMA QueuedBytesNat == IInv => QueuedBytes \in Nat
  <1> SUFFICES ASSUME IInv PROVE QueuedBytes \in Nat
    OBVIOUS
  <1>1. /\ Len(accepted) + 1 \in 1 .. Len(bytesBefore)
        /\ popped + 1 \in 1 .. Len(bytesBefore)
        /\ popped + 1 <= Len(accepted) + 1
    BY DEF IInv, TypeOK
  <1>2. /\ bytesBefore[Len(accepted) + 1] \in Nat
        /\ bytesBefore[popped + 1] \in Nat
    BY <1>1, ElementOfSeq DEF IInv, TypeOK
  <1> QED
    BY <1>1, <1>2 DEF IInv, PrefixSums, QueuedBytes

(* Steps that only move a thread: the lock, the polls, the rejected push,   *)
(* the decoding and the death of the client leave the accounts alone.       *)
LEMMA ControlStep ==
    ASSUME IInv,
           \/ \E img \in Image : PushLock(img)
           \/ PushReject \/ Poll \/ PollAgain \/ PopLock
           \/ Decode \/ Crash \/ Dead \/ UNCHANGED vars
    PROVE  IInv'
  <1> USE DisplayAssumption
          DEF IInv, TypeOK, vars, queueVars, loopVars, displayVars, history
  <1>1. /\ image_queue_' = image_queue_ /\ total_image_size_' = total_image_size_
        /\ accepted' = accepted /\ bytesBefore' = bytesBefore /\ popped' = popped
    BY DEF PushLock, PushReject, Poll, PollAgain, PopLock, Decode, Crash, Dead
  <1>2. QueueIsSuffix' /\ PrefixSums' /\ QueueBounded' /\ QueuedBytes' = QueuedBytes
    BY <1>1 DEF QueueIsSuffix, PrefixSums, QueueBounded, QueuedBytes
  <1>3. TypeOK' /\ Locking' /\ InHand' /\ Accounting' /\ NoPopOfEmptyQueue'
    <2> USE <1>1, <1>2 DEF Locking, InHand, Accounting, NoPopOfEmptyQueue, AcquiredBy
    <2>1. ASSUME NEW img \in Image, PushLock(img)
          PROVE  TypeOK' /\ Locking' /\ InHand' /\ Accounting' /\ NoPopOfEmptyQueue'
      BY <2>1 DEF PushLock
    <2>2. CASE PushReject
      BY <2>2 DEF PushReject
    <2>3. CASE Poll
      BY <2>3 DEF Poll
    <2>4. CASE PollAgain \/ Dead \/ UNCHANGED vars
      BY <2>4 DEF PollAgain, Dead
    <2>5. CASE PopLock
      BY <2>5 DEF PopLock
    <2>6. CASE Decode
      BY <2>6 DEF Decode
    <2>7. CASE Crash
      BY <2>7 DEF Crash
    <2> QED BY <2>1, <2>2, <2>3, <2>4, <2>5, <2>6, <2>7
  <1> QED BY <1>2, <1>3

(* push's enqueue: the image goes to the back of the queue and of the       *)
(* history, and the total is one image behind.                              *)
LEMMA PushEnqueueStep ==
    IInv /\ PushEnqueue
      => /\ IInv' /\ incoming \in Image
         /\ QueuedBytes' = QueuedBytes + Size[incoming]
         /\ QueuedBytes + Size[incoming] <= MAX_TOTAL_IMAGE_SIZE
  <1> SUFFICES ASSUME IInv, PushEnqueue
               PROVE  /\ IInv' /\ incoming \in Image
                      /\ QueuedBytes' = QueuedBytes + Size[incoming]
                      /\ QueuedBytes + Size[incoming] <= MAX_TOTAL_IMAGE_SIZE
    OBVIOUS
  <1> DEFINE size == Size[incoming]
             n == Len(accepted)
  <1>1. /\ loopPc = "push" /\ mutex_ = "loop" /\ incoming \in Image /\ size \in Nat
        /\ total_image_size_ = QueuedBytes
        /\ displayPc \notin {"front", "account"}
    BY DisplayAssumption DEF IInv, TypeOK, Locking, InHand, Accounting, PushEnqueue
  <1>2. total_image_size_ + size <= MAX_TOTAL_IMAGE_SIZE
    <2>1. total_image_size_ \in Nat /\ total_image_size_ <= MAX_TOTAL_IMAGE_SIZE
      BY <1>1, QueuedBytesNat DEF IInv, QueueBounded
    <2>2. total_image_size_ + size \in 0 .. UintMod - 1
      BY <1>1, <2>1, DisplayAssumption
    <2>3. (total_image_size_ + size) % UintMod = total_image_size_ + size
      BY <2>2, NoWrap, DisplayAssumption
    <2> QED
      BY <2>2, <2>3, <1>1, DisplayAssumption DEF PushEnqueue, WouldOverflow
  <1>3. /\ accepted \in Seq(Image) /\ bytesBefore \in Seq(Nat) /\ image_queue_ \in Seq(Image)
        /\ n \in Nat /\ Len(bytesBefore) = n + 1 /\ popped \in 0 .. n
        /\ bytesBefore[n + 1] \in Nat
    BY ElementOfSeq DEF IInv, TypeOK
  <1>4. /\ accepted' \in Seq(Image) /\ Len(accepted') = n + 1
        /\ \A i \in 1 .. n : accepted'[i] = accepted[i]
        /\ accepted'[n + 1] = incoming
    BY <1>1, <1>3 DEF PushEnqueue
  <1>5. /\ bytesBefore' \in Seq(Nat) /\ Len(bytesBefore') = n + 2
        /\ \A i \in 1 .. n + 1 : bytesBefore'[i] = bytesBefore[i]
        /\ bytesBefore'[n + 2] = bytesBefore[n + 1] + size
    BY <1>1, <1>3 DEF PushEnqueue
  <1>6. /\ image_queue_' \in Seq(Image) /\ Len(image_queue_') = Len(image_queue_) + 1
        /\ \A i \in 1 .. Len(image_queue_) : image_queue_'[i] = image_queue_[i]
        /\ image_queue_'[Len(image_queue_) + 1] = incoming
    BY <1>1, <1>3 DEF PushEnqueue
  <1>7. popped' = popped /\ QueuedBytes' = QueuedBytes + size
    BY <1>1, <1>3, <1>4, <1>5, ElementOfSeq, SMTT(30) DEF PushEnqueue, QueuedBytes
  <1>8. TypeOK' /\ Locking' /\ InHand'
    BY <1>1, <1>3, <1>4, <1>5, <1>6, <1>7
       DEF IInv, TypeOK, Locking, InHand, PushEnqueue, displayVars
  <1>9. QueueIsSuffix'
    <2>1. Len(image_queue_) = n - popped
      BY DEF IInv, QueueIsSuffix
    <2>2. ASSUME NEW i \in 1 .. Len(image_queue_')
          PROVE  image_queue_'[i] = accepted'[popped + i]
      <3>1. CASE i \in 1 .. Len(image_queue_)
        BY <3>1, <2>1, <1>3, <1>4, <1>6 DEF IInv, QueueIsSuffix
      <3>2. CASE i = Len(image_queue_) + 1
        BY <3>2, <2>1, <1>3, <1>4, <1>6
      <3> QED BY <3>1, <3>2, <1>6, <1>3
    <2> QED
      BY <2>1, <2>2, <1>3, <1>4, <1>6, <1>7 DEF QueueIsSuffix
  <1>10. PrefixSums'
    <2>1. bytesBefore'[1] = 0
      BY <1>3, <1>5 DEF IInv, PrefixSums
    <2>2. ASSUME NEW i \in 1 .. Len(accepted')
          PROVE  bytesBefore'[i + 1] = bytesBefore'[i] + Size[accepted'[i]]
      <3>1. CASE i \in 1 .. n
        <4>1. bytesBefore[i + 1] = bytesBefore[i] + Size[accepted[i]]
          BY <3>1 DEF IInv, PrefixSums
        <4>2. /\ accepted'[i] = accepted[i] /\ bytesBefore'[i] = bytesBefore[i]
              /\ bytesBefore'[i + 1] = bytesBefore[i + 1]
          <5>1. i \in 1 .. n + 1 /\ i + 1 \in 1 .. n + 1
            BY <3>1, <1>3
          <5> QED BY <3>1, <5>1, <1>4, <1>5
        <4> QED BY <4>1, <4>2
      <3>2. CASE i = n + 1
        <4>1. i + 1 = n + 2 /\ n + 1 \in 1 .. n + 1
          BY <3>2, <1>3
        <4>2. accepted'[i] = incoming
          BY <3>2, <1>4
        <4>3. bytesBefore'[i] = bytesBefore[n + 1]
          BY <3>2, <4>1, <1>5
        <4>4. bytesBefore'[i + 1] = bytesBefore[n + 1] + size
          BY <4>1, <1>5
        <4> QED BY <4>2, <4>3, <4>4
      <3> QED BY <3>1, <3>2, <1>4, <1>3
    <2>3. ASSUME NEW i \in 1 .. Len(bytesBefore'), NEW j \in 1 .. Len(bytesBefore'), i <= j
          PROVE  bytesBefore'[i] <= bytesBefore'[j]
      <3>1. \A k \in 1 .. n + 1 : bytesBefore[k] \in Nat /\ bytesBefore[k] <= bytesBefore[n + 1]
        BY <1>3, ElementOfSeq DEF IInv, PrefixSums
      <3>2. CASE j \in 1 .. n + 1
        <4>1. /\ i \in 1 .. Len(bytesBefore) /\ j \in 1 .. Len(bytesBefore)
              /\ bytesBefore'[i] = bytesBefore[i] /\ bytesBefore'[j] = bytesBefore[j]
          BY <2>3, <3>2, <1>3, <1>5
        <4> QED BY <2>3, <4>1 DEF IInv, PrefixSums
      <3>3. CASE j = n + 2 /\ i \in 1 .. n + 1
        BY <3>1, <3>3, <1>1, <1>3, <1>5
      <3>4. CASE j = n + 2 /\ i = n + 2
        BY <3>4, <1>5, <1>1, <1>3
      <3> QED BY <3>2, <3>3, <3>4, <1>5, <1>3
    <2> QED BY <2>1, <2>2, <2>3 DEF PrefixSums
  <1>11. Accounting' /\ QueueBounded' /\ NoPopOfEmptyQueue'
    <2>1. image_queue_' # <<>>
      BY <1>6, <1>3
    <2> QED
      BY <1>1, <1>2, <1>7, <2>1
         DEF PushEnqueue, displayVars, Accounting, QueueBounded, NoPopOfEmptyQueue
  <1> QED BY <1>1, <1>2, <1>7, <1>8, <1>9, <1>10, <1>11 DEF IInv

(* push's update of the total: it catches up with the queue.                *)
LEMMA PushAccountStep == IInv /\ PushAccount => IInv'
  <1> SUFFICES ASSUME IInv, PushAccount PROVE IInv'
    OBVIOUS
  <1>1. /\ loopPc = "account" /\ mutex_ = "loop" /\ incoming \in Image
        /\ Size[incoming] \in Nat /\ total_image_size_ \in Nat
        /\ total_image_size_ + Size[incoming] = QueuedBytes
        /\ displayPc \notin {"front", "account"}
    BY DisplayAssumption DEF IInv, TypeOK, Locking, InHand, Accounting, PushAccount
  <1>2. UNCHANGED <<image_queue_, displayPc, image, accepted, bytesBefore, popped>>
    BY DEF PushAccount, displayVars, history
  <1>3. total_image_size_' = QueuedBytes
    <2>1. QueuedBytes \in 0 .. UintMod - 1
      BY QueuedBytesNat, DisplayAssumption DEF IInv, QueueBounded
    <2> QED
      BY <1>1, <2>1, NoWrap, DisplayAssumption DEF PushAccount
  <1>4. QueueIsSuffix' /\ PrefixSums' /\ QueueBounded' /\ QueuedBytes' = QueuedBytes
    BY <1>2 DEF IInv, QueueIsSuffix, PrefixSums, QueueBounded, QueuedBytes
  <1>5. TypeOK'
    <2>1. QueuedBytes \in 0 .. UintMod - 1
      BY QueuedBytesNat, DisplayAssumption DEF IInv, QueueBounded
    <2> QED
      BY <1>2, <1>3, <2>1 DEF IInv, TypeOK, PushAccount
  <1>6. Locking' /\ InHand' /\ Accounting' /\ NoPopOfEmptyQueue'
    BY <1>1, <1>2, <1>3, <1>4
       DEF IInv, Locking, InHand, Accounting, NoPopOfEmptyQueue, PushAccount
  <1> QED BY <1>4, <1>5, <1>6 DEF IInv

(* pop's front() and pop(): the oldest image leaves, and the total is one   *)
(* image ahead.                                                             *)
LEMMA PopFrontStep ==
    IInv /\ PopFront => IInv' /\ QueuedBytes' = QueuedBytes - Size[Head(image_queue_)]
  <1> SUFFICES ASSUME IInv, PopFront
               PROVE  IInv' /\ QueuedBytes' = QueuedBytes - Size[Head(image_queue_)]
    OBVIOUS
  <1> DEFINE n == Len(accepted)
  <1>1. /\ displayPc = "front" /\ mutex_ = "display" /\ image_queue_ # <<>>
        /\ loopPc \notin {"push", "account"}
        /\ total_image_size_ = QueuedBytes
    BY DEF IInv, Locking, Accounting, PopFront
  <1>2. UNCHANGED <<total_image_size_, mutex_, loopPc, incoming, accepted, bytesBefore>>
    BY DEF PopFront, loopVars
  <1>3. /\ accepted \in Seq(Image) /\ bytesBefore \in Seq(Nat) /\ image_queue_ \in Seq(Image)
        /\ n \in Nat /\ Len(bytesBefore) = n + 1 /\ popped \in 0 .. n
        /\ Len(image_queue_) = n - popped /\ Len(image_queue_) > 0
    BY <1>1, EmptySeq DEF IInv, TypeOK, QueueIsSuffix
  <1>4. /\ image' = image_queue_[1] /\ image' = accepted[popped + 1] /\ image' \in Image
        /\ popped + 1 \in 1 .. n /\ Size[image'] \in Nat
    <2>1. image' = image_queue_[1] /\ 1 \in 1 .. Len(image_queue_) /\ popped + 1 \in 1 .. n
      BY <1>3 DEF PopFront
    <2>2. image_queue_[1] = accepted[popped + 1] /\ image_queue_[1] \in Image
      BY <2>1, <1>3, ElementOfSeq DEF IInv, QueueIsSuffix
    <2> QED BY <2>1, <2>2, DisplayAssumption
  <1>5. /\ image_queue_' \in Seq(Image) /\ Len(image_queue_') = Len(image_queue_) - 1
        /\ \A i \in 1 .. Len(image_queue_') : image_queue_'[i] = image_queue_[i + 1]
    BY <1>1, <1>3, HeadTailProperties DEF PopFront
  <1>6. popped' = popped + 1
    BY DEF PopFront
  <1>7. QueuedBytes' = QueuedBytes - Size[image'] /\ QueuedBytes' <= QueuedBytes
    <2>1. bytesBefore[popped + 2] = bytesBefore[popped + 1] + Size[image']
      <3>1. bytesBefore[popped + 1 + 1] = bytesBefore[popped + 1] + Size[accepted[popped + 1]]
        BY <1>4 DEF IInv, PrefixSums
      <3>2. popped + 1 + 1 = popped + 2
        BY <1>3
      <3> QED BY <3>1, <3>2, <1>4
    <2>2. /\ bytesBefore[n + 1] \in Nat /\ bytesBefore[popped + 1] \in Nat
          /\ bytesBefore[popped + 2] \in Nat
      <3>1. {n + 1, popped + 1, popped + 2} \subseteq 1 .. Len(bytesBefore)
        BY <1>3, <1>4, SMTT(30)
      <3> QED BY <3>1, <1>3, ElementOfSeq
    <2>3. QueuedBytes' = bytesBefore[n + 1] - bytesBefore[popped + 2]
      <3>1. popped + 1 + 1 = popped + 2
        BY <1>3
      <3> QED BY <1>2, <1>6, <3>1 DEF QueuedBytes
    <2> QED
      BY <1>4, <2>1, <2>2, <2>3 DEF QueuedBytes
  <1>8. TypeOK' /\ Locking' /\ InHand' /\ PrefixSums'
    <2>1. popped' \in 0 .. n
      BY <1>3, <1>4, <1>6
    <2>2. TypeOK'
      BY <1>2, <1>4, <1>5, <2>1 DEF IInv, TypeOK, PopFront
    <2>3. Locking' /\ InHand'
      BY <1>1, <1>2, <1>4 DEF IInv, Locking, InHand, PopFront
    <2>4. PrefixSums'
      BY <1>2 DEF IInv, PrefixSums
    <2> QED BY <2>2, <2>3, <2>4
  <1>9. QueueIsSuffix'
    <2>1. Len(image_queue_') = Len(accepted') - popped'
      BY <1>2, <1>3, <1>5, <1>6
    <2>2. ASSUME NEW i \in 1 .. Len(image_queue_')
          PROVE  image_queue_'[i] = accepted'[popped' + i]
      <3>1. i + 1 \in 1 .. Len(image_queue_) /\ popped' + i = popped + (i + 1)
        <4>1. i \in 1 .. Len(image_queue_) - 1
          BY <1>5
        <4> QED BY <4>1, <1>3, <1>6
      <3>2. image_queue_[i + 1] = accepted[popped + (i + 1)]
        BY <3>1 DEF IInv, QueueIsSuffix
      <3> QED BY <3>1, <3>2, <1>2, <1>5
    <2> QED BY <2>1, <2>2 DEF QueueIsSuffix
  <1>10. Accounting' /\ QueueBounded' /\ NoPopOfEmptyQueue'
    <2>1. displayPc' = "account"
      BY DEF PopFront
    <2>2. QueuedBytes \in Nat
      BY QueuedBytesNat
    <2>3. Accounting'
      BY <1>1, <1>2, <1>4, <1>7, <2>1, <2>2 DEF Accounting
    <2>4. QueueBounded'
      BY <1>4, <1>7, <2>2, DisplayAssumption DEF IInv, QueueBounded
    <2> QED BY <2>1, <2>3, <2>4 DEF NoPopOfEmptyQueue
  <1>11. image_queue_[1] = Head(image_queue_)
    BY <1>1, <1>3
  <1> QED BY <1>4, <1>7, <1>8, <1>9, <1>10, <1>11 DEF IInv

(* pop's update of the total: it catches up with the queue.                 *)
LEMMA PopAccountStep == IInv /\ PopAccount => IInv'
  <1> SUFFICES ASSUME IInv, PopAccount PROVE IInv'
    OBVIOUS
  <1>1. /\ displayPc = "account" /\ mutex_ = "display" /\ image \in Image
        /\ Size[image] \in Nat /\ QueuedBytes \in Nat
        /\ total_image_size_ = QueuedBytes + Size[image]
        /\ loopPc \notin {"push", "account"}
    BY QueuedBytesNat, DisplayAssumption
       DEF IInv, TypeOK, Locking, InHand, Accounting, PopAccount
  <1>2. UNCHANGED <<image_queue_, loopPc, incoming, image, accepted, bytesBefore, popped>>
    BY DEF PopAccount, loopVars, history
  <1>3. QueuedBytes \in 0 .. UintMod - 1 /\ total_image_size_' = QueuedBytes
    <2>1. QueuedBytes \in 0 .. UintMod - 1
      BY <1>1, DisplayAssumption DEF IInv, QueueBounded
    <2> QED
      BY <1>1, <2>1, NoWrap, DisplayAssumption DEF PopAccount
  <1>4. QueueIsSuffix' /\ PrefixSums' /\ QueueBounded' /\ QueuedBytes' = QueuedBytes
    BY <1>2 DEF IInv, QueueIsSuffix, PrefixSums, QueueBounded, QueuedBytes
  <1>5. TypeOK'
    BY <1>2, <1>3 DEF IInv, TypeOK, PopAccount
  <1>6. Locking' /\ InHand' /\ Accounting' /\ NoPopOfEmptyQueue'
    BY <1>1, <1>2, <1>3, <1>4
       DEF IInv, Locking, InHand, Accounting, NoPopOfEmptyQueue, PopAccount
  <1> QED BY <1>4, <1>5, <1>6 DEF IInv

-----------------------------------------------------------------------------
(* Every step of the client's two threads keeps the invariant.              *)
LEMMA InductiveStep == IInv /\ [Next]_vars => IInv'
  <1> SUFFICES ASSUME IInv, [Next]_vars PROVE IInv'
    OBVIOUS
  <1>1. CASE \/ \E img \in Image : PushLock(img)
             \/ PushReject \/ Poll \/ PollAgain \/ PopLock
             \/ Decode \/ Crash \/ Dead \/ UNCHANGED vars
    BY <1>1, ControlStep
  <1>2. CASE PushEnqueue
    BY <1>2, PushEnqueueStep
  <1>3. CASE PushAccount
    BY <1>3, PushAccountStep
  <1>4. CASE PopFront
    BY <1>4, PopFrontStep
  <1>5. CASE PopAccount
    BY <1>5, PopAccountStep
  <1> QED
    BY <1>1, <1>2, <1>3, <1>4, <1>5 DEF Next, LoopThread, DisplayThread

(* The invariant holds of every reachable state.                            *)
THEOREM Invariance == Spec => []IInv
  BY InitInvariant, InductiveStep, PTL DEF Spec

(* The queue's variables always have their types; the 32-bit total is never *)
(* out of its range.                                                        *)
THEOREM TypeCorrect == Spec => []TypeOK
  <1>1. IInv => TypeOK
    BY DEF IInv
  <1> QED BY <1>1, Invariance, PTL

(* pop never takes the front of an empty queue, although the display thread *)
(* looked at the queue without the lock.                                    *)
THEOREM PopFindsAnImage == Spec => []NoPopOfEmptyQueue
  <1>1. IInv => NoPopOfEmptyQueue
    BY DEF IInv
  <1> QED BY <1>1, Invariance, PTL

(* With the mutex free, the total is the number of bytes in the queue.      *)
THEOREM TotalIsExact == Spec => []AccountingExact
  <1>1. IInv => AccountingExact
    BY DEF IInv, Accounting, AccountingExact
  <1> QED BY <1>1, Invariance, PTL

(* The queue never holds more bytes than its bound.                         *)
THEOREM QueueIsBounded == Spec => []QueueBounded
  <1>1. IInv => QueueBounded
    BY DEF IInv
  <1> QED BY <1>1, Invariance, PTL

-----------------------------------------------------------------------------
(* push rejects an image only when there is no room for it.                 *)
THEOREM RejectionIsJustified == Spec => RejectedOnlyWhenFull
  <1> DEFINE Justified == loopPc = "push" /\ loopPc' = "idle"
                            => QueuedBytes + Size[incoming] > MAX_TOTAL_IMAGE_SIZE
  <1>1. IInv /\ [Next]_vars => [Justified]_vars
    <2> SUFFICES ASSUME IInv, Next, loopPc = "push", loopPc' = "idle"
                 PROVE  QueuedBytes + Size[incoming] > MAX_TOTAL_IMAGE_SIZE
      OBVIOUS
    <2>1. PushReject
      BY DEF Next, LoopThread, DisplayThread, PushLock, PushEnqueue, PushAccount, Poll,
             PollAgain, PopLock, PopFront, PopAccount, Decode, Crash, Dead,
             vars, loopVars
    <2>2. /\ total_image_size_ = QueuedBytes /\ incoming \in Image
          /\ QueuedBytes \in Nat /\ Size[incoming] \in Nat
          /\ QueuedBytes <= MAX_TOTAL_IMAGE_SIZE
      BY QueuedBytesNat, DisplayAssumption
         DEF IInv, Accounting, InHand, QueueBounded
    <2>3. total_image_size_ + Size[incoming] \in 0 .. UintMod - 1
      BY <2>2, DisplayAssumption
    <2>4. (total_image_size_ + Size[incoming]) % UintMod = total_image_size_ + Size[incoming]
      BY <2>3, NoWrap, DisplayAssumption
    <2> QED
      BY <2>1, <2>2, <2>4, DisplayAssumption DEF PushReject, WouldOverflow
  <1> QED
    BY <1>1, Invariance, PTL DEF Spec, RejectedOnlyWhenFull

(* The two threads implement the byte-bounded FIFO: an enqueue is its Put,  *)
(* a pop its Take, and every other step leaves the queue alone.             *)
THEOREM Refinement == Spec => ImplementsFifo
  <1>1. Init => Fifo!Init
    BY DEF Init, Fifo!Init, QueuedBytes
  <1>2. IInv /\ [Next]_vars => [Fifo!Next]_(Fifo!vars)
    <2> SUFFICES ASSUME IInv, [Next]_vars
                 PROVE  [Fifo!Next]_(Fifo!vars)
      OBVIOUS
    <2>1. CASE PushEnqueue
      <3>1. Fifo!Put(incoming) /\ incoming \in Image
        BY <2>1, PushEnqueueStep DEF PushEnqueue, Fifo!Put
      <3> QED BY <3>1 DEF Fifo!Next
    <2>2. CASE PopFront
      <3>1. Fifo!Take
        BY <2>2, PopFrontStep DEF PopFront, Fifo!Take
      <3> QED BY <3>1 DEF Fifo!Next
    <2>3. CASE ~PushEnqueue /\ ~PopFront
      <3>1. UNCHANGED <<image_queue_, accepted, bytesBefore, popped>>
        BY <2>3 DEF Next, LoopThread, DisplayThread, PushLock, PushReject, PushAccount,
             Poll, PollAgain, PopLock, PopAccount, Decode, Crash, Dead,
             vars, queueVars, loopVars, displayVars, history
      <3> QED BY <3>1 DEF Fifo!vars, QueuedBytes
    <2> QED BY <2>1, <2>2, <2>3
  <1> QED
    BY <1>1, <1>2, Invariance, PTL DEF Spec, ImplementsFifo, Fifo!Spec
=============================================================================
