\* Every call, sem_trywait among them, with a service, the shutdown and the
\* fairness of interrupts and handlers.
CONSTANTS
    Main = main
    Idle = idle
    UserMain = userMain
    putter = putter
    w1 = w1
    w2 = w2
    s1 = s1
    Workers = {w1}
    Services = {putter}
    BootOrder <- MCPutterIdle
    TIME_SLICE = 2
    MaxTime = 3
    TimeMod = 16
    Delays = {0, 1, 2}
    Sems = {s1}
    NoSem = noSem
    InitVals = {0, 1}
    MaxDebt = 2
    MaxVal = 1
    CountMod = 8
    Calls = {"create", "dispatch", "sleep", "open", "close", "wait", "timedwait", "trywait", "signal"}
SPECIFICATION FairSpec
CHECK_DEADLOCK FALSE
INVARIANTS
    OnePlace
    RunningCanBePut
    ServicesGone
    NobodyForgotten
PROPERTIES
    ReadyRuns
    SleeperReturns
    ShutdownEnds
