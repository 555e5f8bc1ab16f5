---------------------------- MODULE AbstractHeap ----------------------------
(***************************************************************************)
(* What the users of the heap may rely on: chunks that do not overlap, a   *)
(* request that is refused only when no run of free blocks is long enough, *)
(* and a chunk that is given back exactly once.  Which of the runs a chunk *)
(* is taken from is left open, and so is all bookkeeping.                  *)
(***************************************************************************)
EXTENDS Integers

CONSTANT TotalBlocks

VARIABLES
    taken,   \* the chunks in use: first block and number of blocks
    wanted,  \* the blocks that the last request was for
    answer   \* of the last call

BlocksOf(chunk) == chunk.addr..chunk.addr + chunk.size - 1

Chunks == [addr : 0..TotalBlocks - 1, size : 1..TotalBlocks]

\* The chunks of n blocks that could be given.
Available(n) ==
    {c \in Chunks :
        /\ c.size = n
        /\ c.addr + n <= TotalBlocks
        /\ \A d \in taken : BlocksOf(c) \cap BlocksOf(d) = {}}

HeapInit ==
    /\ taken = {}
    /\ wanted = 0
    /\ answer = "none"

Give(n) ==
    /\ wanted' = n
    /\ \E c \in Available(n) : taken' = taken \cup {c}
    /\ answer' = "given"

\* n is 0 only when a request wrapped around.
Refuse(n) ==
    /\ wanted' = n
    /\ n = 0 \/ Available(n) = {}
    /\ answer' = "null"
    /\ UNCHANGED taken

GiveBack(c) ==
    /\ c \in taken
    /\ taken' = taken \ {c}
    /\ answer' = "freed"
    /\ UNCHANGED wanted

\* The address is not one of a chunk in use, as in a second free of a chunk.
RefuseBack(a) ==
    /\ \A c \in taken : c.addr # a
    /\ answer' = "notTaken"
    /\ UNCHANGED <<taken, wanted>>

HeapNext ==
    \/ Give(wanted') \/ Refuse(wanted')
    \/ \E c \in taken : GiveBack(c)
    \/ \E a \in 0..TotalBlocks - 1 : RefuseBack(a)

HeapSpec == HeapInit /\ [][HeapNext]_<<taken, wanted, answer>>
=============================================================================
