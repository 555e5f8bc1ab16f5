-------------------------- MODULE MemoryAllocator --------------------------
(***************************************************************************)
(* The kernel's heap: h/ and src/ _memoryAllocator, with the rounding of   *)
(* requests in mem_alloc and in the operators new of the kernel's classes. *)
(*                                                                         *)
(* Addresses are block numbers: the header of a chunk is at the start of   *)
(* its first block.  The free list is linked through the headers in the    *)
(* order of the addresses.  Nothing of the list of taken chunks but its    *)
(* members is ever read, so it is a set.                                   *)
(***************************************************************************)
EXTENDS Integers, SequencesExt

CONSTANTS
    TotalBlocks,     \* _memoryAllocator::totalBlocks
    MEM_BLOCK_SIZE,
    SIZE_HEADER,
    SizeMod,         \* stands for 2^64: size_t counts modulo SizeMod
    Sizes            \* the numbers of bytes that programs ask for

ASSUME AllocatorAssumption ==
    /\ TotalBlocks \in Nat \ {0}
    /\ SIZE_HEADER \in Nat \ {0}
    /\ MEM_BLOCK_SIZE \in Nat \ {0}
    /\ SIZE_HEADER <= MEM_BLOCK_SIZE
    /\ SizeMod \in Nat \ {0}
    /\ Sizes \subseteq 0..SizeMod - 1

VARIABLES
    free,     \* the chunks of the free list, from headFree on
    taken,    \* the chunks of the taken list
    asked,    \* not in the code: the bytes that each taken chunk was asked for
    wanted,   \* not in the code: the last argument of _kmalloc
    answer    \* of the last call

heapVars == <<free, taken, asked, wanted, answer>>

\* init(), which the first _kmalloc calls.
HeapInit ==
    /\ free = <<[addr |-> 0, size |-> TotalBlocks]>>
    /\ taken = {}
    /\ asked = [a \in 0..TotalBlocks - 1 |-> 0]
    /\ wanted = 0
    /\ answer = "none"

-----------------------------------------------------------------------------
\* mem_alloc rounds up to whole blocks, header included.
NumOfBlocks_NoHeader(size) ==
    ((size + MEM_BLOCK_SIZE - 1) % SizeMod) \div MEM_BLOCK_SIZE  \* mutant

NumOfBlocks(size) ==
    ((SIZE_HEADER + size + MEM_BLOCK_SIZE - 1) % SizeMod) \div MEM_BLOCK_SIZE

Fitting(n) == {i \in DOMAIN free : free[i].size >= n}

\* What is left of the chunk at position i after n blocks are taken from its
\* start stays where it was in the list.
FreeAfterTaking_Off(i, n) ==
    [free EXCEPT ![i] = [addr |-> @.addr + n - 1, size |-> @.size - n]]  \* mutant

FreeAfterTaking(i, n) ==
    IF free[i].size = n
    THEN RemoveAt(free, i)
    ELSE [free EXCEPT ![i] = [addr |-> @.addr + n, size |-> @.size - n]]

\* _kmalloc(n) for a request of size bytes: first fit.
Kmalloc(n, size) ==
    LET i == Min(Fitting(n))
    IN  /\ wanted' = n
        /\ IF n = 0 \/ Fitting(n) = {}
           THEN /\ answer' = "null"
                /\ UNCHANGED <<free, taken, asked>>
           ELSE /\ answer' = "given"
                /\ free' = FreeAfterTaking(i, n)
                /\ taken' = taken \cup {[addr |-> free[i].addr, size |-> n]}
                /\ asked' = [asked EXCEPT ![free[i].addr] = size]

MemAlloc == \E size \in Sizes : Kmalloc(NumOfBlocks(size), size)

-----------------------------------------------------------------------------
Touch(c, d) == c.addr + c.size = d.addr

\* Makes the chunks at i and i + 1 one when nothing is between them.
MergeAt_Never(list, i) == list  \* mutant

MergeAt(list, i) ==
    IF i \in 1..Len(list) - 1 /\ Touch(list[i], list[i + 1])
    THEN RemoveAt([list EXCEPT ![i].size = @ + list[i + 1].size], i + 1)
    ELSE list

\* The place of a chunk in the order of the addresses.
PlaceByAddress_Last(chunk) == Len(free) + 1  \* mutant

PlaceByAddress(chunk) ==
    Min({i \in 1..Len(free) + 1 : i <= Len(free) => free[i].addr >= chunk.addr})

FreeAfterGiving(chunk) ==
    LET i == PlaceByAddress(chunk)
    IN  MergeAt(MergeAt(InsertAt(free, i, chunk), i), i - 1)

\* _kmfree of the pointer behind the header at block a.
Kmfree(a) ==
    \/ /\ \A c \in taken : c.addr # a
       /\ answer' = "notTaken"
       /\ UNCHANGED <<free, taken, asked>>
    \/ \E c \in taken :
           /\ c.addr = a
           /\ answer' = "freed"
           /\ taken' = taken \ {c}
           /\ free' = FreeAfterGiving(c)
           /\ asked' = [asked EXCEPT ![a] = 0]

MemFree == UNCHANGED wanted /\ \E a \in 0..TotalBlocks - 1 : Kmfree(a)

HeapNext == MemAlloc \/ MemFree

HeapSpec == HeapInit /\ [][HeapNext]_heapVars
=============================================================================
