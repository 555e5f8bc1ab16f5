\* Idle and two control blocks for all other threads, made again and again.
SPECIFICATION Spec
CONSTANTS
    main = main
    idle = idle
    w1 = w1
    w2 = w2
    Main <- main
    Idle <- idle
    Workers <- TrapWorkers
INVARIANTS
    TrapsTypeOK
    PrivilegeIsKept
    OneFrameEach
PROPERTIES
    ResumesAsLeft
    TimerIsServed
CHECK_DEADLOCK FALSE
