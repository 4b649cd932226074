------------------------------ MODULE FpsMeter ------------------------------
(***************************************************************************)
(* The frame-rate meter of the display thread (test_fps in                 *)
(* common/common.cc).  It reads the system clock, which may be set, counts *)
(* the frames of a window and prints a third of them when it finds, at a   *)
(* frame, that more than three seconds have passed.                        *)
(***************************************************************************)
EXTENDS Integers

CONSTANTS PerSecond,  \* 1000: how many units of the clock a second has
          ClockMod,   \* 2^64: the width of the difference now_value - last_ms
          ClockTimes, \* what the clock may show at first and be set to
          MaxTime,    \* bound: how long the meter runs
          MaxCount    \* bound: how many frames a window has

ASSUME MeterAssumption ==
    /\ PerSecond \in Nat \ {0} /\ ClockMod \in Nat /\ MaxTime \in Nat /\ MaxCount \in Nat \ {0}
    /\ MaxTime < ClockMod /\ ClockTimes \subseteq 0 .. ClockMod - 1 - MaxTime

VARIABLES time,           \* how much time has really passed
          clock,          \* what the system clock shows
          last_ms, count, \* the statics of test_fps
          began, stepped, \* history: when the window began; whether the clock was set in it
          printed         \* history: the last line printed, with the window it is about

clockVars == <<time, clock>>
meterVars == <<last_ms, count, began, stepped, printed>>
vars == <<clockVars, meterVars>>

Init ==
    /\ time = 0 /\ clock \in ClockTimes
    /\ last_ms = 0 /\ count = 0 /\ began = 0 /\ stepped = FALSE
    /\ printed = [fps |-> 0, frames |-> 0, elapsed |-> 0, stepped |-> FALSE]

TimePasses ==
    /\ time < MaxTime
    /\ time' = time + 1 /\ clock' = clock + 1
    /\ UNCHANGED meterVars

(* Somebody, or NTP, sets the clock, back or forth.                         *)
ClockSet ==
    /\ \E t \in ClockTimes : t # clock /\ clock' = t
    /\ stepped' = TRUE
    /\ UNCHANGED <<time, last_ms, count, began, printed>>

FirstFrameFaulty ==   \* the end of the last window begins the next
    /\ count = 0
    /\ count' = 1
    /\ began' = time /\ stepped' = FALSE
    /\ UNCHANGED <<clockVars, last_ms, printed>>

(* The first frame of a window only starts it.                              *)
FirstFrame ==
    /\ count = 0
    /\ count' = 1 /\ last_ms' = clock
    /\ began' = time /\ stepped' = FALSE
    /\ UNCHANGED <<clockVars, printed>>

WindowOver == (clock - last_ms) % ClockMod > 3 * PerSecond

CountFrame ==
    /\ count > 0 /\ count < MaxCount /\ ~WindowOver
    /\ count' = count + 1
    /\ UNCHANGED <<clockVars, last_ms, began, stepped, printed>>

(* More than three seconds have passed, by the clock, in unsigned 64 bits.  *)
PrintFrame ==
    /\ count > 0 /\ WindowOver
    /\ printed' = [fps |-> (count + 1) \div 3, frames |-> count + 1,
                   elapsed |-> time - began, stepped |-> stepped]
    /\ count' = 0 /\ last_ms' = clock
    /\ UNCHANGED <<clockVars, began, stepped>>

test_fps == FirstFrame \/ CountFrame \/ PrintFrame

Finished == time = MaxTime /\ UNCHANGED vars

Next == TimePasses \/ ClockSet \/ test_fps \/ Finished

Spec == Init /\ [][Next]_vars

-----------------------------------------------------------------------------
TypeOK ==
    /\ time \in 0 .. MaxTime /\ clock \in 0 .. ClockMod - 1
    /\ last_ms \in 0 .. ClockMod - 1 /\ count \in 0 .. MaxCount
    /\ began \in 0 .. time /\ stepped \in BOOLEAN
    /\ printed \in [fps : Nat, frames : Nat, elapsed : 0 .. MaxTime, stepped : BOOLEAN]

(* In a window in which nobody set the clock, the printed rate is never     *)
(* more than one below the rate at which the frames came; a clock that is   *)
(* set back, so that the difference wraps, spoils no later window.          *)
NeverUnderstates ==
    ~printed.stepped =>
        (printed.fps + 1) * printed.elapsed >= (printed.frames - 1) * PerSecond

(* test_fps measures the frame rate, says its comment: the printed rate is  *)
(* not more than one above the rate at which the frames came.               *)
PrintsTheRate ==
    ~printed.stepped =>
        (printed.fps - 1) * printed.elapsed <= printed.frames * PerSecond
=============================================================================
