SPECIFICATION Spec
CONSTANTS
    PerSecond = 2
    ClockMod = 64
    ClockTimes = {0, 5, 20}
    MaxTime = 10
    MaxCount = 5
INVARIANTS
    NeverUnderstates
