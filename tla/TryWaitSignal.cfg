\* What sem_signal does after a sem_trywait of a semaphore without units.
CONSTANTS
    Main = main
    Idle = idle
    UserMain = userMain
    putter = putter
    w1 = w1
    w2 = w2
    s1 = s1
    Workers = {w1}
    Services = {}
    BootOrder <- MCIdleOnly
    TIME_SLICE = 2
    MaxTime = 3
    TimeMod = 16
    Delays = {0, 1, 2}
    Sems = {s1}
    NoSem = noSem
    InitVals = {0, 1}
    MaxDebt = 3
    MaxVal = 1
    CountMod = 8
    Calls = {"create", "dispatch", "open", "close", "wait", "timedwait", "trywait", "signal"}
SPECIFICATION Spec
CHECK_DEADLOCK FALSE
INVARIANTS
    NoFault
