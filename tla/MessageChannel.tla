--------------------------- MODULE MessageChannel ---------------------------
(***************************************************************************)
(* What the length-header codec promises its two users over one TCP        *)
(* connection: the messages arrive whole and in the order they were sent,  *)
(* as far as they arrive; a message above the limit is never delivered,    *)
(* and nothing after it is; once the receiver has closed, nothing is.      *)
(***************************************************************************)
EXTENDS Integers, Sequences

CONSTANTS Message,   \* the messages that may be sent
          Size,      \* the length of each
          MaxLen     \* the longest message the receiver takes

VARIABLES sent,      \* the messages given to the connection, in order
          delivered, \* the messages the receiver's callback got, in order
          open       \* whether the receiver has not closed

vars == <<sent, delivered, open>>

Init == sent = <<>> /\ delivered = <<>> /\ open = TRUE

Send(msg) ==
    /\ sent' = Append(sent, msg)
    /\ UNCHANGED <<delivered, open>>

NextMessage == sent[Len(delivered) + 1]

Deliver ==
    /\ open /\ Len(delivered) < Len(sent)
    /\ Size[NextMessage] <= MaxLen
    /\ delivered' = Append(delivered, NextMessage)
    /\ UNCHANGED <<sent, open>>

Close == open /\ open' = FALSE /\ UNCHANGED <<sent, delivered>>

Next == Deliver \/ Close \/ \E msg \in Message : Send(msg)

Spec == Init /\ [][Next]_vars
=============================================================================
