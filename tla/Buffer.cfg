\* Up to two producers, the keyboard's among them, and a buffer of up to two.
CONSTANTS
    MaxThreads = 2
    MaxSize = 2
    Main = main
    Consumer = consumer
    Key = key
    Mark = mark
SPECIFICATION Spec
INVARIANTS
    BufferIsFifo
    NoUseAfterClose
PROPERTIES
    TestEnds
CHECK_DEADLOCK FALSE
