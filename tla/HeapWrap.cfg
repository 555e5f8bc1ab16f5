\* Requests close to 2^64 bytes.
CONSTANTS
    TotalBlocks = 5
    MEM_BLOCK_SIZE = 64
    SIZE_HEADER = 16
    SizeMod = 4096
    Sizes = {0, 48, 49, 240, 4000, 4095}
SPECIFICATION HeapSpec
INVARIANTS
    ChunkHoldsRequest
