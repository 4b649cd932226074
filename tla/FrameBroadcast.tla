--------------------------- MODULE FrameBroadcast ---------------------------
(***************************************************************************)
(* What the server's two threads together promise the clients: a client    *)
(* gets captured frames, none of them older than the one before, and only  *)
(* while its connection is up.  As long as every step of the server was    *)
(* defined, no frame is missing or repeated between two of them.  A step   *)
(* that is not defined may write to any connection that has come up, but   *)
(* it does not go back either.                                             *)
(***************************************************************************)
EXTENDS Integers, Sequences

CONSTANT Conn       \* the connections

VARIABLES frame,     \* how many frames the camera has delivered
          connState, \* the state of each connection
          written,   \* the frames written to each connection
          defined    \* whether every step so far had a defined effect

vars == <<frame, connState, written, defined>>

Init ==
    /\ frame = 0 /\ defined = TRUE
    /\ connState = [c \in Conn |-> "new"] /\ written = [c \in Conn |-> <<>>]

Capture == frame' = frame + 1 /\ UNCHANGED <<connState, written, defined>>

ComesUp(c) ==
    /\ connState[c] = "new" /\ connState' = [connState EXCEPT ![c] = "kConnected"]
    /\ UNCHANGED <<frame, written, defined>>

ShutDown(c) ==
    /\ connState[c] = "kConnected"
    /\ connState' = [connState EXCEPT ![c] = "kDisconnecting"]
    /\ UNCHANGED <<frame, written, defined>>

GoesDown(c) ==
    /\ connState[c] \in {"kConnected", "kDisconnecting"}
    /\ connState' = [connState EXCEPT ![c] = "kDisconnected"]
    /\ UNCHANGED <<frame, written, defined>>

(* A captured frame f is written to c.                                      *)
Write(c, f) ==
    /\ f \in 1 .. frame /\ (written[c] # <<>> => written[c][Len(written[c])] <= f)
    /\ written' = [written EXCEPT ![c] = Append(@, f)]
    /\ UNCHANGED <<frame, connState>>

Send(c, f) ==
    /\ connState[c] \in {"kConnected", "kDisconnecting"}
    /\ defined /\ written[c] # <<>> => f = written[c][Len(written[c])] + 1
    /\ Write(c, f) /\ UNCHANGED defined

(* The threads meet in a way that C++ does not define.                      *)
Meet ==
    /\ \/ UNCHANGED <<frame, connState, written>>
       \/ \E c \in Conn, f \in 1 .. frame : connState[c] # "new" /\ Write(c, f)
    /\ defined' = FALSE

Next ==
    \/ Capture \/ Meet
    \/ \E c \in Conn : ComesUp(c) \/ ShutDown(c) \/ GoesDown(c)
    \/ \E c \in Conn, f \in 1 .. frame : Send(c, f)

Spec == Init /\ [][Next]_vars
=============================================================================
