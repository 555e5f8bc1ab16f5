--------------------------- MODULE HeapProperties ---------------------------
(***************************************************************************)
(* What the heap promises.                                                 *)
(***************************************************************************)
EXTENDS MemoryAllocator, FiniteSets

Blocks == 0..TotalBlocks - 1
Chunks == [addr : Blocks, size : 1..TotalBlocks]
BlocksOf(chunk) == chunk.addr..chunk.addr + chunk.size - 1
FreeChunks == ToSet(free)

\* A free list of chunks, a set of taken ones, and a known answer.
HeapTypeOK ==
    /\ free \in Seq(Chunks)
    /\ taken \subseteq Chunks
    /\ asked \in [Blocks -> Nat]
    /\ wanted \in Nat
    /\ answer \in {"none", "null", "given", "freed", "notTaken"}

\* Splitting and merging neither lose a block nor give it to two chunks: every
\* block of the heap is in exactly one chunk, free or taken.
BlocksArePartitioned ==
    /\ \A c, d \in FreeChunks \cup taken : c # d => BlocksOf(c) \cap BlocksOf(d) = {}
    /\ FreeChunks \cap taken = {}
    /\ IsInjective(free)
    /\ UNION {BlocksOf(c) : c \in FreeChunks \cup taken} = Blocks

\* The free list stays in the order of the addresses, and two chunks of it
\* never touch: _kmfree has made one of them.  _kmfree relies on the first
\* and _kmalloc on the second.  And no chunk of it is empty: _kmalloc takes
\* out of the list what it uses up exactly.
FreeListIsMerged ==
    /\ \A i \in 1..Len(free) - 1 : free[i].addr + free[i].size < free[i + 1].addr
    /\ \A c \in FreeChunks : c.size > 0

\* A chunk that was given has room for the bytes asked for behind its header
\* ("round size up to whole blocks", h/syscall_c.h).
ChunkHoldsRequest ==
    \A c \in taken : SIZE_HEADER + asked[c.addr] <= c.size * MEM_BLOCK_SIZE

Abstract == INSTANCE AbstractHeap

\* The allocator does what AbstractHeap promises: chunks never overlap, a
\* request is refused only when no run of free blocks is long enough, though
\* _kmalloc looks at single chunks only, and a second free is refused.
ImplementsHeap == Abstract!HeapSpec
=============================================================================
