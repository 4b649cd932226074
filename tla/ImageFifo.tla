------------------------------ MODULE ImageFifo ------------------------------
(***************************************************************************)
(* What the client's image queue promises its two threads: a FIFO of       *)
(* images that never holds more than Capacity bytes.  A put that does not  *)
(* fit leaves the queue alone, so it is not a step of this specification.  *)
(***************************************************************************)
EXTENDS Integers, Sequences

CONSTANTS Image,     \* the images that may be queued
          Size,      \* the encoded size of each image, in bytes
          Capacity   \* the most bytes the queue may hold

VARIABLES queue,     \* the images waiting, oldest first
          bytes      \* the bytes they take together

vars == <<queue, bytes>>

Init == queue = <<>> /\ bytes = 0

(* An image that fits goes to the back of the queue.                       *)
Put(img) ==
    /\ bytes + Size[img] <= Capacity
    /\ queue' = Append(queue, img)
    /\ bytes' = bytes + Size[img]

(* The oldest image leaves.                                                *)
Take ==
    /\ queue # <<>>
    /\ queue' = Tail(queue)
    /\ bytes' = bytes - Size[Head(queue)]

Next == Take \/ \E img \in Image : Put(img)

Spec == Init /\ [][Next]_vars
=============================================================================
