\* A heap of seven blocks and requests for one to four of them.
CONSTANTS
    TotalBlocks = 7
    MEM_BLOCK_SIZE = 64
    SIZE_HEADER = 16
    SizeMod = 4096
    Sizes = {0, 48, 49, 150, 240, 3000}
SPECIFICATION HeapSpec
INVARIANTS
    BlocksArePartitioned
    FreeListIsMerged
    ChunkHoldsRequest
PROPERTIES
    ImplementsHeap
