--------------------------- MODULE FpsMeterProofs ---------------------------
(***************************************************************************)
(* Proofs about the frame-rate meter, for every unit of time, every width  *)
(* of the clock and every frame rate.  The clock and the real time advance *)
(* together in a window in which nobody sets the clock.                    *)
(***************************************************************************)
EXTENDS FpsMeter, TLAPS

(* The clock stays within its width.                                        *)
ClockInRange == clock <= ClockMod - 1 - MaxTime + time

(* Without a setting, the clock shows how long the window has lasted.       *)
ClockMeasures == count > 0 /\ ~stepped => clock - last_ms = time - began

IInv == TypeOK /\ ClockInRange /\ ClockMeasures /\ NeverUnderstates

-----------------------------------------------------------------------------
(* A third of the frames, rounded down, is not too low for a window that    *)
(* lasts longer than three seconds.                                         *)
LEMMA ThirdIsEnough ==
    ASSUME NEW n \in Nat, NEW p \in Nat, NEW e \in Nat, e > 3 * p
    PROVE  (((n + 1) \div 3) + 1) * e >= n * p
  <1> DEFINE f == ((n + 1) \div 3) + 1
  <1>1. f \in Nat /\ 3 * f >= n
    OBVIOUS
  <1> HIDE DEF f
  <1>2. f * e >= f * (3 * p)
    BY <1>1
  <1>3. f * (3 * p) = (3 * f) * p
    BY <1>1
  <1>4. (3 * f) * p >= n * p
    BY <1>1
  <1>5. f * e \in Nat /\ f * (3 * p) \in Nat /\ (3 * f) * p \in Nat /\ n * p \in Nat
    BY <1>1
  <1>6. f * e >= n * p
    BY <1>2, <1>3, <1>4, <1>5
  <1> QED BY <1>6 DEF f

(* The initial state satisfies the invariant: nothing was printed.          *)
LEMMA InitInvariant == Init => IInv
  <1> SUFFICES ASSUME Init PROVE IInv
    OBVIOUS
  <1>1. clock \in 0 .. ClockMod - 1 - MaxTime
    BY MeterAssumption DEF Init
  <1>2. TypeOK
    <2>1. time \in 0 .. MaxTime /\ clock \in 0 .. ClockMod - 1 /\ began \in 0 .. time
      BY <1>1, MeterAssumption DEF Init
    <2>2. last_ms \in 0 .. ClockMod - 1 /\ count \in 0 .. MaxCount
      BY MeterAssumption DEF Init
    <2>3. stepped \in BOOLEAN
      BY DEF Init
    <2>4. printed \in [fps : Nat, frames : Nat, elapsed : 0 .. MaxTime, stepped : BOOLEAN]
      <3>1. 0 \in Nat /\ 0 \in 0 .. MaxTime /\ FALSE \in BOOLEAN
        BY MeterAssumption
      <3> QED BY <3>1 DEF Init
    <2> QED BY <2>1, <2>2, <2>3, <2>4 DEF TypeOK
  <1>3. ClockInRange /\ ClockMeasures
    BY <1>1, MeterAssumption DEF Init, ClockInRange, ClockMeasures
  <1>4. NeverUnderstates
    <2>1. printed.fps = 0 /\ printed.elapsed = 0 /\ printed.frames = 0
      BY DEF Init
    <2>2. (0 - 1) * PerSecond <= 0
      BY MeterAssumption
    <2> QED
      BY <2>1, <2>2 DEF NeverUnderstates
  <1> QED BY <1>2, <1>3, <1>4 DEF IInv

(* The clock's steps and the frames that print nothing.                     *)
LEMMA QuietStep ==
    ASSUME IInv, TimePasses \/ ClockSet \/ FirstFrame \/ CountFrame \/ UNCHANGED vars
    PROVE  IInv'
  <1> USE MeterAssumption
          DEF IInv, TypeOK, ClockInRange, ClockMeasures, NeverUnderstates,
              clockVars, meterVars, vars
  <1>1. CASE TimePasses
    BY <1>1 DEF TimePasses
  <1>2. CASE ClockSet
    BY <1>2 DEF ClockSet
  <1>3. CASE FirstFrame
    <2>1. /\ count' = 1 /\ last_ms' = clock /\ began' = time /\ stepped' = FALSE
          /\ UNCHANGED <<time, clock, printed>>
      BY <1>3 DEF FirstFrame
    <2>2. TypeOK'
      <3>1. count' \in 0 .. MaxCount /\ began' \in 0 .. time'
        BY <2>1
      <3>2. last_ms' \in 0 .. ClockMod - 1 /\ stepped' \in BOOLEAN
        BY <2>1
      <3>3. /\ time' \in 0 .. MaxTime /\ clock' \in 0 .. ClockMod - 1
            /\ printed' \in [fps : Nat, frames : Nat, elapsed : 0 .. MaxTime,
                             stepped : BOOLEAN]
        BY <2>1
      <3> QED BY <3>1, <3>2, <3>3
    <2>3. ClockInRange' /\ ClockMeasures'
      BY <2>1
    <2>4. NeverUnderstates'
      BY <2>1
    <2> QED BY <2>2, <2>3, <2>4
  <1>4. CASE CountFrame
    BY <1>4 DEF CountFrame
  <1>5. CASE UNCHANGED vars
    BY <1>5
  <1> QED BY <1>1, <1>2, <1>3, <1>4, <1>5

(* The frame that prints: by the invariant the clock's window is the real   *)
(* one, so that more than three seconds have really passed.                 *)
LEMMA PrintStep == IInv /\ PrintFrame => IInv'
  <1> SUFFICES ASSUME IInv, PrintFrame PROVE IInv'
    OBVIOUS
  <1>1. /\ count \in Nat /\ time - began \in 0 .. MaxTime /\ PerSecond \in Nat
        /\ UNCHANGED <<time, clock, began, stepped>> /\ last_ms' = clock /\ count' = 0
        /\ printed' = [fps |-> (count + 1) \div 3, frames |-> count + 1,
                       elapsed |-> time - began, stepped |-> stepped]
    BY MeterAssumption DEF IInv, TypeOK, PrintFrame, clockVars
  <1>2. TypeOK' /\ ClockInRange' /\ ClockMeasures'
    <2>1. (count + 1) \div 3 \in Nat
      BY <1>1
    <2> QED
      BY <1>1, <2>1, MeterAssumption DEF IInv, TypeOK, ClockInRange, ClockMeasures
  <1>3. NeverUnderstates'
    <2>1. SUFFICES ASSUME ~stepped
                   PROVE  (((count + 1) \div 3) + 1) * (time - began) >= count * PerSecond
      BY <1>1 DEF NeverUnderstates
    <2>2. clock - last_ms = time - began
      BY <2>1 DEF IInv, ClockMeasures, PrintFrame
    <2>3. (time - began) % ClockMod = time - began
      BY <1>1, MeterAssumption
    <2>4. time - began > 3 * PerSecond
      BY <2>2, <2>3 DEF PrintFrame, WindowOver
    <2> QED
      BY <1>1, <2>4, ThirdIsEnough
  <1> QED BY <1>2, <1>3 DEF IInv

(* Every step keeps the invariant.                                          *)
LEMMA InductiveStep == IInv /\ [Next]_vars => IInv'
  BY QuietStep, PrintStep DEF Next, test_fps, Finished

(* The meter's variables always have their types.                           *)
THEOREM TypeCorrect == Spec => []TypeOK
  <1>1. IInv => TypeOK
    BY DEF IInv
  <1> QED BY <1>1, InitInvariant, InductiveStep, PTL DEF Spec

(* The printed rate is never more than one too low, in a window in which    *)
(* nobody set the clock, whatever happened to the clock before.             *)
THEOREM RateIsNotTooLow == Spec => []NeverUnderstates
  <1>1. IInv => NeverUnderstates
    BY DEF IInv
  <1> QED BY <1>1, InitInvariant, InductiveStep, PTL DEF Spec
=============================================================================
