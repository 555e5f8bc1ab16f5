\* A program's thread, a periodic one and those of the boot, on five control
\* blocks, nine threads in all, so that freed ones are used again.
CONSTANTS
    Main = main
    Idle = idle
    UserMain = userMain
    putter = putter
    Workers = {w1}
    Services = {putter}
    BootOrder <- MCPutterIdle
    TIME_SLICE = 1
    Periodics = {p1}
    NoThread = noThread
    MaxID = 9
SPECIFICATION Spec
CHECK_DEADLOCK FALSE
INVARIANTS
    ChildrenAreCounted
    UserMainIsOver
PROPERTIES
    ShutdownBegins
    PeriodicEnds
