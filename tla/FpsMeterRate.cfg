SPECIFICATION Spec
CONSTANTS
    PerSecond = 2
    ClockMod = 64
    ClockTimes = {0}
    MaxTime = 14
    MaxCount = 9
INVARIANTS
    PrintsTheRate
