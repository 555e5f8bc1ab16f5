\* Buffers of three slots that fill up and wrap around, keys pressed at most
\* two ahead of the readers, one key with an echo and one without.
CONSTANTS
    NUM_OF_CHARS = 3
    Readers = {r1, r2}
    MaxPut = 3
    MaxTyped = 3
    MaxAhead = 2
    Printable = {1}
SPECIFICATION FairSpec
CHECK_DEADLOCK FALSE
INVARIANTS
    OutputInOrder
    InputInOrder
    UnitsCountCharacters
    ClaimIsNotForgotten
PROPERTIES
    OnlyEchoReplaces
    OutputIsPrinted
    ReaderIsAnswered
