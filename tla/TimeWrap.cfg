\* A timed wait for a time near 2^64.
CONSTANTS
    Main = main
    Idle = idle
    UserMain = userMain
    putter = putter
    w1 = w1
    w2 = w2
    s1 = s1
    Workers = {w1}
    Services = {}
    BootOrder <- MCIdleOnly
    TIME_SLICE = 2
    MaxTime = 3
    TimeMod = 8
    Delays = {1, 7}
    Sems = {s1}
    NoSem = noSem
    InitVals = {0, 1}
    MaxDebt = 3
    MaxVal = 1
    CountMod = 8
    Calls = {"open", "timedwait", "signal"}
SPECIFICATION Spec
INVARIANTS
    NoEarlyWake
