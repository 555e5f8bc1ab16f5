----------------------------- MODULE HeapProofs -----------------------------
(***************************************************************************)
(* Proof that the heap neither loses a block nor gives one twice, that its *)
(* free list is ordered and merged, and that it implements AbstractHeap,   *)
(* for all sizes of the heap, of blocks and of headers.                    *)
(***************************************************************************)
EXTENDS HeapProperties, ListTheorems

\* Block b is in chunk c, in a chunk of a list, in a taken chunk.
InChunk(b, c) == c.addr <= b /\ b < c.addr + c.size
InFree(list, b) == \E k \in 1..Len(list) : InChunk(b, list[k])
InTaken(b) == \E c \in taken : InChunk(b, c)

Fits(c) == c.addr + c.size <= TotalBlocks

\* Chunks in the order of the addresses, none over the end of the heap.
Ordered(list) ==
    /\ list \in Seq(Chunks)
    /\ \A k \in 1..Len(list) : Fits(list[k])
    /\ \A j, k \in 1..Len(list) : j < k => list[j].addr + list[j].size <= list[k].addr

\* There is something between the chunk at k and the next one.
Gap(list, k) == k \in 1..Len(list) - 1 => ~Touch(list[k], list[k + 1])

Merged(list) == Ordered(list) /\ \A k \in Int : Gap(list, k)

\* The inductive invariant: a block is in the free list or in one taken chunk.
HeapInv ==
    /\ HeapTypeOK
    /\ Merged(free)
    /\ \A c \in taken : Fits(c)
    /\ \A b \in Blocks : InFree(free, b) <=> ~InTaken(b)
    /\ \A c, d \in taken : \A b \in Blocks : InChunk(b, c) /\ InChunk(b, d) => c = d

-----------------------------------------------------------------------------
\* The types of a chunk; its first block is a block of the heap.
LEMMA ChunkType ==
    ASSUME NEW c \in Chunks
    PROVE  /\ c.addr \in Blocks /\ c.size \in 1..TotalBlocks
           /\ c.addr \in Nat /\ c.size \in Nat \ {0} /\ c.addr + c.size \in Nat
           /\ InChunk(c.addr, c)
           /\ \A b \in Blocks : InChunk(b, c) <=> b \in BlocksOf(c)
           /\ Fits(c) => BlocksOf(c) \subseteq Blocks
  BY AllocatorAssumption DEF Chunks, Blocks, InChunk, BlocksOf, Fits

\* Two free chunks that touch are made one: the same blocks are free, and
\* nothing touches the chunk at i any more from behind.
LEMMA MergeAtList ==
    ASSUME NEW list, Ordered(list), NEW i \in Int, NEW e \in Int, e < i,
           \A k \in Int : k # i /\ k # e => Gap(list, k)
    PROVE  /\ Ordered(MergeAt(list, i))
           /\ \A b \in Blocks : InFree(MergeAt(list, i), b) <=> InFree(list, b)
           /\ \A k \in Int : k # e => Gap(MergeAt(list, i), k)
<1>1. CASE ~(i \in 1..Len(list) - 1 /\ Touch(list[i], list[i + 1]))
  BY <1>1 DEF MergeAt, Gap
<1>2. CASE i \in 1..Len(list) - 1 /\ Touch(list[i], list[i + 1])
  <2>1. PICK c, l, m : /\ c = [list[i] EXCEPT !.size = @ + list[i + 1].size]
                       /\ l = [list EXCEPT ![i] = c]
                       /\ m = RemoveAt(l, i + 1)
    OBVIOUS
  <2>2. MergeAt(list, i) = m
    BY <1>2, <2>1 DEF MergeAt
  <2>3. /\ list \in Seq(Chunks) /\ Len(list) \in Nat
        /\ list[i] \in Chunks /\ list[i + 1] \in Chunks
        /\ Fits(list[i + 1]) /\ list[i].addr + list[i].size = list[i + 1].addr
    BY <1>2 DEF Ordered, Touch
  <2>4. /\ c.addr = list[i].addr /\ c.size = list[i].size + list[i + 1].size
        /\ c.addr + c.size = list[i + 1].addr + list[i + 1].size
        /\ c \in Chunks
    <3>1. /\ list[i].addr \in Nat /\ list[i].size \in Nat \ {0} /\ list[i].addr \in Blocks
          /\ list[i + 1].addr \in Nat /\ list[i + 1].size \in Nat \ {0}
      BY <2>3, ChunkType
    <3>2. c = [addr |-> list[i].addr, size |-> list[i].size + list[i + 1].size]
      BY <2>1, <2>3 DEF Chunks
    <3>3. list[i].size + list[i + 1].size \in 1..TotalBlocks
      <4>1. PICK x \in Nat, u \in Nat \ {0}, y \in Nat, v \in Nat \ {0} :
                /\ x = list[i].addr /\ u = list[i].size
                /\ y = list[i + 1].addr /\ v = list[i + 1].size
        BY <3>1
      <4>2. x + u = y /\ y + v <= TotalBlocks /\ TotalBlocks \in Nat
        BY <2>3, <4>1, AllocatorAssumption DEF Fits
      <4>3. u + v \in 1..TotalBlocks
        BY <4>2
      <4>4. QED
        BY <4>1, <4>3
    <3>4. c.addr = list[i].addr /\ c.size = list[i].size + list[i + 1].size
      BY <3>2
    <3>5. c \in Chunks
      BY <3>1, <3>2, <3>3 DEF Chunks
    <3>6. c.addr + c.size = list[i + 1].addr + list[i + 1].size
      BY <2>3, <3>1, <3>4
    <3>7. QED
      BY <3>4, <3>5, <3>6
  <2>5. /\ l \in Seq(Chunks) /\ Len(l) = Len(list)
        /\ \A k \in 1..Len(list) : l[k] = IF k = i THEN c ELSE list[k]
    BY <1>2, <2>1, <2>3, <2>4
  <2>6. /\ m \in Seq(Chunks) /\ Len(m) = Len(list) - 1
        /\ \A k \in 1..Len(list) - 1 : m[k] = IF k < i + 1 THEN l[k] ELSE l[k + 1]
    <3>1. i + 1 \in 1..Len(l)
      BY <1>2, <2>3, <2>5
    <3>2. PICK p \in 1..Len(l) : p = i + 1
      BY <3>1
    <3>3. m = RemoveAt(l, p) /\ l \in Seq(Chunks)
      BY <2>1, <2>5, <3>2
    <3>4. /\ m \in Seq(Chunks) /\ Len(m) = Len(l) - 1
          /\ \A k \in 1..Len(l) - 1 : m[k] = IF k < p THEN l[k] ELSE l[k + 1]
      BY <3>2, <3>3, RemoveAtList
    <3>5. QED
      BY <2>5, <3>2, <3>4
  <2>7. \A k \in 1..Len(list) - 1 :
            m[k] = IF k < i THEN list[k] ELSE IF k = i THEN c ELSE list[k + 1]
    BY <1>2, <2>5, <2>6
  <2>8. /\ \A k \in 1..Len(list) : Fits(list[k]) /\ list[k] \in Chunks
        /\ \A j, k \in 1..Len(list) : j < k => list[j].addr + list[j].size <= list[k].addr
    BY DEF Ordered
  <2>9. \A k \in 1..Len(list) : list[k].addr \in Nat /\ list[k].size \in Nat \ {0}
    BY <2>8, ChunkType
  <2>10. Ordered(m)
    <3>1. \A k \in 1..Len(m) : Fits(m[k])
      BY <1>2, <2>3, <2>4, <2>6, <2>7, <2>8 DEF Fits
    <3>2. ASSUME NEW j \in 1..Len(m), NEW k \in 1..Len(m), j < k
          PROVE  m[j].addr + m[j].size <= m[k].addr
      <4>1. CASE j = i
        <5>1. /\ m[j].addr + m[j].size = list[i + 1].addr + list[i + 1].size
              /\ m[k] = list[k + 1]
          BY <1>2, <2>3, <2>4, <2>6, <2>7, <3>2, <4>1
        <5>2. i + 1 \in 1..Len(list) /\ k + 1 \in 1..Len(list) /\ i + 1 < k + 1
          BY <1>2, <2>3, <2>6, <3>2, <4>1
        <5>3. QED
          BY <2>8, <5>1, <5>2
      <4>2. CASE k = i
        <5>1. m[j] = list[j] /\ m[k].addr = list[i].addr
          BY <1>2, <2>3, <2>4, <2>6, <2>7, <3>2, <4>2
        <5>2. QED
          BY <1>2, <2>3, <2>6, <2>8, <3>2, <4>2, <5>1
      <4>3. CASE j # i /\ k # i
        <5>1. CASE k < i
          BY <1>2, <2>3, <2>6, <2>7, <2>8, <3>2, <4>3, <5>1
        <5>2. CASE j < i /\ i < k
          <6>1. m[j] = list[j] /\ m[k] = list[k + 1]
            BY <1>2, <2>3, <2>6, <2>7, <3>2, <5>2
          <6>2. j \in 1..Len(list) /\ k + 1 \in 1..Len(list) /\ j < k + 1
            BY <1>2, <2>3, <2>6, <3>2, <5>2
          <6>3. QED
            BY <2>8, <6>1, <6>2
        <5>3. CASE i < j
          <6>1. m[j] = list[j + 1] /\ m[k] = list[k + 1]
            BY <1>2, <2>3, <2>6, <2>7, <3>2, <5>3
          <6>2. j + 1 \in 1..Len(list) /\ k + 1 \in 1..Len(list) /\ j + 1 < k + 1
            BY <1>2, <2>3, <2>6, <3>2, <5>3
          <6>3. QED
            BY <2>8, <6>1, <6>2
        <5>4. QED
          BY <3>2, <4>3, <5>1, <5>2, <5>3, <1>2, <2>6
      <4>4. QED
        BY <4>1, <4>2, <4>3
    <3>3. QED
      BY <2>6, <3>1, <3>2 DEF Ordered
  <2>11. ASSUME NEW b \in Blocks PROVE InFree(m, b) <=> InFree(list, b)
    <3>0. b \in Int
      BY AllocatorAssumption DEF Blocks
    <3>1. InChunk(b, c) <=> InChunk(b, list[i]) \/ InChunk(b, list[i + 1])
      <4>1. PICK x \in Nat, u \in Nat, y \in Nat, v \in Nat :
                /\ x = list[i].addr /\ u = list[i].size
                /\ y = list[i + 1].addr /\ v = list[i + 1].size
        BY <2>3, ChunkType
      <4>2. x + u = y /\ c.addr = x /\ c.addr + c.size = y + v
        BY <2>3, <2>4, <4>1
      <4>3. x <= b /\ b < y + v <=> (x <= b /\ b < x + u) \/ (y <= b /\ b < y + v)
        BY <3>0, <4>2
      <4>4. QED
        BY <4>1, <4>2, <4>3 DEF InChunk
    <3>2. ASSUME NEW k \in 1..Len(m), InChunk(b, m[k]) PROVE InFree(list, b)
      <4>1. CASE k = i
        BY <1>2, <2>3, <2>6, <2>7, <3>1, <3>2, <4>1 DEF InFree
      <4>2. CASE k < i
        <5>1. k \in 1..Len(list) /\ m[k] = list[k]
          BY <1>2, <2>3, <2>6, <2>7, <3>2, <4>2
        <5>2. QED
          BY <3>2, <5>1 DEF InFree
      <4>3. CASE i < k
        <5>1. k + 1 \in 1..Len(list) /\ m[k] = list[k + 1]
          BY <1>2, <2>3, <2>6, <2>7, <3>2, <4>3
        <5>2. QED
          BY <3>2, <5>1 DEF InFree
      <4>4. QED
        BY <1>2, <2>6, <3>2, <4>1, <4>2, <4>3
    <3>3. ASSUME NEW k \in 1..Len(list), InChunk(b, list[k]) PROVE InFree(m, b)
      <4>1. CASE k = i \/ k = i + 1
        <5>1. i \in 1..Len(m) /\ InChunk(b, m[i])
          BY <1>2, <2>3, <2>6, <2>7, <3>1, <3>3, <4>1
        <5>2. QED
          BY <5>1 DEF InFree
      <4>2. CASE k < i
        BY <1>2, <2>3, <2>6, <2>7, <3>3, <4>2 DEF InFree
      <4>3. CASE k > i + 1
        <5>1. k - 1 \in 1..Len(m) /\ m[k - 1] = list[k]
          BY <1>2, <2>3, <2>6, <2>7, <4>3
        <5>2. QED
          BY <3>3, <5>1 DEF InFree
      <4>4. QED
        BY <1>2, <4>1, <4>2, <4>3
    <3>4. QED
      BY <3>2, <3>3 DEF InFree
  <2>12. ASSUME NEW k \in Int, k # e, k \in 1..Len(m) - 1 PROVE ~Touch(m[k], m[k + 1])
    <3>1. CASE k < i
      <4>1. ~Touch(list[k], list[k + 1])
        BY <1>2, <2>3, <2>6, <2>12, <3>1 DEF Gap
      <4>2. m[k] = list[k] /\ m[k + 1].addr = list[k + 1].addr
        BY <1>2, <2>3, <2>4, <2>6, <2>7, <2>12, <3>1
      <4>3. QED
        BY <4>1, <4>2 DEF Touch
    <3>2. CASE k >= i
      <4>1. k + 1 \in 1..Len(list) - 1 /\ k + 1 # i /\ k + 1 # e
        BY <1>2, <2>3, <2>6, <2>12, <3>2
      <4>2. ~Touch(list[k + 1], list[k + 2])
        <5>1. k + 1 \in Int /\ k + 1 + 1 = k + 2
          BY <2>12
        <5>2. Gap(list, k + 1)
          BY <4>1, <5>1
        <5>3. QED
          BY <4>1, <5>1, <5>2 DEF Gap
      <4>3. m[k].addr + m[k].size = list[k + 1].addr + list[k + 1].size
        <5>1. k \in 1..Len(list) - 1 /\ (m[k] = IF k = i THEN c ELSE list[k + 1])
          BY <1>2, <2>3, <2>6, <2>7, <2>12, <3>2
        <5>2. QED
          BY <2>4, <5>1
      <4>4. m[k + 1] = list[k + 2]
        <5>1. k + 1 \in 1..Len(list) - 1 /\ ~(k + 1 < i) /\ k + 1 # i
          BY <1>2, <2>3, <2>6, <2>12, <3>2
        <5>2. m[k + 1] = list[k + 1 + 1]
          BY <2>7, <5>1
        <5>3. k + 1 + 1 = k + 2
          BY <2>12
        <5>4. QED
          BY <5>2, <5>3
      <4>5. QED
        BY <4>2, <4>3, <4>4 DEF Touch
    <3>3. QED
      BY <1>2, <2>12, <3>1, <3>2
  <2>13. QED
    BY <2>2, <2>10, <2>11, <2>12 DEF Gap
<1>3. QED
  BY <1>1, <1>2

-----------------------------------------------------------------------------
\* The first n blocks of a chunk, what is left of it, and of its list.
FirstOf(c, n) == [addr |-> c.addr, size |-> n]
RestOf(c, n) == [addr |-> c.addr + n, size |-> c.size - n]
ListRest(list, i, n) ==
    IF list[i].size = n THEN RemoveAt(list, i) ELSE [list EXCEPT ![i] = RestOf(list[i], n)]

\* Blocks taken from the start of a free chunk: they were free, all the others
\* stay what they are, and nothing touches that did not before.
LEMMA TakeFromList ==
    ASSUME NEW list, Merged(list), NEW i \in 1..Len(list), NEW n \in 1..list[i].size
    PROVE  /\ FirstOf(list[i], n) \in Chunks /\ Fits(FirstOf(list[i], n))
           /\ Merged(ListRest(list, i, n))
           /\ \A b \in Blocks : InChunk(b, FirstOf(list[i], n)) => InFree(list, b)
           /\ \A b \in Blocks : InFree(ListRest(list, i, n), b)
                                <=> InFree(list, b) /\ ~InChunk(b, FirstOf(list[i], n))
<1>a. PICK t, r, m : /\ t = FirstOf(list[i], n)
                     /\ r = RestOf(list[i], n)
                     /\ m = ListRest(list, i, n)
  OBVIOUS
<1>b. SUFFICES /\ t \in Chunks /\ Fits(t)
               /\ Merged(m)
               /\ \A b \in Blocks : InChunk(b, t) => InFree(list, b)
               /\ \A b \in Blocks : InFree(m, b) <=> InFree(list, b) /\ ~InChunk(b, t)
  BY <1>a
<1>1. /\ list \in Seq(Chunks) /\ Len(list) \in Nat
      /\ \A k \in 1..Len(list) : Fits(list[k]) /\ list[k] \in Chunks
      /\ \A j, k \in 1..Len(list) : j < k => list[j].addr + list[j].size <= list[k].addr
      /\ \A k \in 1..Len(list) - 1 : ~Touch(list[k], list[k + 1])
  BY DEF Merged, Ordered, Gap
<1>2. \A k \in 1..Len(list) : /\ list[k].addr \in Nat /\ list[k].size \in Nat \ {0}
                              /\ list[k].addr \in Blocks /\ list[k].size \in 1..TotalBlocks
  BY <1>1, ChunkType
<1>3. /\ t = [addr |-> list[i].addr, size |-> n] /\ t.addr = list[i].addr /\ t.size = n
      /\ r = [addr |-> list[i].addr + n, size |-> list[i].size - n]
      /\ n \in Nat \ {0} /\ n <= list[i].size
      /\ m = IF list[i].size = n THEN RemoveAt(list, i) ELSE [list EXCEPT ![i] = r]
  BY <1>2, <1>a DEF FirstOf, RestOf, ListRest
<1>4. t \in Chunks /\ Fits(t)
  BY <1>1, <1>2, <1>3, AllocatorAssumption DEF Chunks, Fits
<1>5. ASSUME NEW b \in Blocks, InChunk(b, t)
      PROVE  InChunk(b, list[i]) /\ InFree(list, b)
  <2>1. b \in Int
    BY AllocatorAssumption DEF Blocks
  <2>2. InChunk(b, list[i])
    BY <1>2, <1>3, <1>5, <2>1 DEF InChunk
  <2>3. QED
    BY <2>2 DEF InFree
<1>6. ASSUME NEW b \in Blocks, NEW k \in 1..Len(list), k # i, InChunk(b, list[k])
      PROVE  ~InChunk(b, t)
  <2>1. b \in Int
    BY AllocatorAssumption DEF Blocks
  <2>2. k < i \/ i < k
    BY <1>6
  <2>3. PICK x \in Nat, u \in Nat, y \in Nat, v \in Nat :
            /\ x = list[i].addr /\ u = list[i].size
            /\ y = list[k].addr /\ v = list[k].size
    BY <1>2
  <2>4. (k < i => y + v <= x) /\ (i < k => x + u <= y)
    BY <1>1, <2>3
  <2>5. y <= b /\ b < y + v /\ n <= u
    BY <1>3, <1>6, <2>3 DEF InChunk
  <2>6. ~(x <= b /\ b < x + n)
    BY <1>3, <2>1, <2>2, <2>4, <2>5
  <2>7. QED
    BY <1>3, <2>3, <2>6 DEF InChunk
<1>7. CASE list[i].size = n
  <2>1. /\ m \in Seq(Chunks) /\ Len(m) = Len(list) - 1
        /\ \A k \in 1..Len(list) - 1 : m[k] = IF k < i THEN list[k] ELSE list[k + 1]
    BY <1>1, <1>3, <1>7, RemoveAtList
  <2>2. Ordered(m)
    <3>1. \A k \in 1..Len(m) : Fits(m[k])
      BY <1>1, <2>1
    <3>2. ASSUME NEW j \in 1..Len(m), NEW k \in 1..Len(m), j < k
          PROVE  m[j].addr + m[j].size <= m[k].addr
      <4>1. PICK p \in 1..Len(list), q \in 1..Len(list) :
                p < q /\ m[j] = list[p] /\ m[k] = list[q]
        <5>0. /\ j \in 1..Len(list) - 1 /\ k \in 1..Len(list) - 1
              /\ j \in 1..Len(list) /\ k \in 1..Len(list)
          BY <1>1, <2>1
        <5>1. CASE k < i
          <6>1. m[j] = list[j] /\ m[k] = list[k]
            BY <2>1, <3>2, <5>0, <5>1
          <6>2. QED
            BY <3>2, <5>0, <6>1
        <5>2. CASE j < i /\ ~(k < i)
          <6>1. m[j] = list[j] /\ m[k] = list[k + 1]
            BY <1>1, <2>1, <3>2, <5>2
          <6>2. j \in 1..Len(list) /\ k + 1 \in 1..Len(list) /\ j < k + 1
            BY <1>1, <2>1, <3>2
          <6>3. QED
            BY <6>1, <6>2
        <5>3. CASE ~(j < i)
          <6>0. ~(k < i)
            BY <3>2, <5>0, <5>3
          <6>1. m[j] = list[j + 1] /\ m[k] = list[k + 1]
            BY <2>1, <5>0, <5>3, <6>0
          <6>2. j + 1 \in 1..Len(list) /\ k + 1 \in 1..Len(list) /\ j + 1 < k + 1
            BY <1>1, <2>1, <3>2
          <6>3. QED
            BY <6>1, <6>2
        <5>4. QED
          BY <3>2, <5>1, <5>2, <5>3
      <4>2. QED
        BY <1>1, <4>1
    <3>3. QED
      BY <2>1, <3>1, <3>2 DEF Ordered
  <2>3. ASSUME NEW k \in 1..Len(m) - 1 PROVE ~Touch(m[k], m[k + 1])
    <3>1. CASE k + 1 < i
      <4>1. m[k] = list[k] /\ m[k + 1] = list[k + 1] /\ k \in 1..Len(list) - 1
        BY <1>1, <2>1, <2>3, <3>1
      <4>2. QED
        BY <1>1, <4>1
    <3>2. CASE k + 1 = i
      <4>1. m[k] = list[k] /\ m[k + 1] = list[k + 2]
        <5>1. k + 1 \in 1..Len(list) - 1 /\ k + 1 + 1 = k + 2
          BY <1>1, <2>1, <2>3
        <5>2. m[k + 1] = list[k + 1 + 1]
          BY <2>1, <3>2, <5>1
        <5>3. QED
          BY <1>1, <2>1, <2>3, <3>2, <5>1, <5>2
      <4>2. k \in 1..Len(list) /\ k + 1 \in 1..Len(list) /\ k + 2 \in 1..Len(list)
        BY <1>1, <2>1, <2>3
      <4>3. /\ list[k].addr + list[k].size <= list[k + 1].addr
            /\ list[k + 1].addr + list[k + 1].size <= list[k + 2].addr
        BY <1>1, <4>2
      <4>4. list[k].addr + list[k].size < list[k + 2].addr
        <5>1. /\ list[k].addr \in Nat /\ list[k].size \in Nat \ {0}
              /\ list[k + 1].addr \in Nat /\ list[k + 1].size \in Nat \ {0}
              /\ list[k + 2].addr \in Nat
          BY <1>2, <4>2
        <5>2. \A x, u, w \in Nat : \A y, v \in Nat \ {0} :
                  x + y <= u /\ u + v <= w => x + y < w
          OBVIOUS
        <5>3. QED
          BY <4>3, <5>1, <5>2
      <4>5. QED
        BY <1>2, <4>1, <4>2, <4>4 DEF Touch
    <3>3. CASE i <= k
      <4>1. k + 1 \in 1..Len(list) - 1 /\ k + 1 + 1 = k + 2 /\ ~(k < i) /\ ~(k + 1 < i)
        BY <1>1, <2>1, <2>3, <3>3
      <4>2. m[k] = list[k + 1] /\ m[k + 1] = list[k + 1 + 1]
        BY <1>1, <2>1, <2>3, <4>1
      <4>3. QED
        BY <1>1, <4>1, <4>2
    <3>4. QED
      BY <2>3, <3>1, <3>2, <3>3
  <2>4. ASSUME NEW b \in Blocks
        PROVE  InFree(m, b) <=> InFree(list, b) /\ ~InChunk(b, t)
    <3>1. InChunk(b, t) <=> InChunk(b, list[i])
      BY <1>3, <1>7 DEF InChunk
    <3>2. ASSUME NEW k \in 1..Len(m), InChunk(b, m[k])
          PROVE  InFree(list, b) /\ ~InChunk(b, t)
      <4>1. PICK p \in 1..Len(list) : p # i /\ m[k] = list[p]
        <5>1. CASE k < i
          <6>1. k \in 1..Len(list) /\ k # i /\ m[k] = list[k]
            BY <1>1, <2>1, <5>1
          <6>2. QED
            BY <6>1
        <5>2. CASE ~(k < i)
          <6>1. k + 1 \in 1..Len(list) /\ k + 1 # i /\ m[k] = list[k + 1]
            BY <1>1, <2>1, <5>2
          <6>2. QED
            BY <6>1
        <5>3. QED
          BY <5>1, <5>2
      <4>2. QED
        BY <1>6, <3>2, <4>1 DEF InFree
    <3>3. ASSUME NEW k \in 1..Len(list), InChunk(b, list[k]), ~InChunk(b, t)
          PROVE  InFree(m, b)
      <4>1. k # i
        BY <3>1, <3>3
      <4>2. PICK p \in 1..Len(m) : m[p] = list[k]
        <5>1. CASE k < i
          BY <1>1, <2>1, <5>1
        <5>2. CASE i < k
          <6>1. k - 1 \in 1..Len(m) /\ ~(k - 1 < i) /\ k - 1 + 1 = k
            BY <1>1, <2>1, <5>2
          <6>2. m[k - 1] = list[k - 1 + 1]
            BY <2>1, <6>1
          <6>3. QED
            BY <6>1, <6>2
        <5>3. QED
          BY <4>1, <5>1, <5>2
      <4>3. QED
        BY <3>3, <4>2 DEF InFree
    <3>4. QED
      BY <3>2, <3>3 DEF InFree
  <2>5. QED
    BY <1>4, <1>5, <2>2, <2>3, <2>4 DEF Merged, Gap
<1>8. CASE list[i].size # n
  <2>2. /\ r.addr = list[i].addr + n /\ r.size = list[i].size - n
        /\ r \in Chunks /\ Fits(r)
    <3>1. /\ list[i].addr + n \in 0..TotalBlocks - 1
          /\ list[i].size - n \in 1..TotalBlocks
      <4>1. PICK x \in Nat, u \in Nat, y \in Nat : x = list[i].addr /\ u = list[i].size /\ y = n
        BY <1>1, <1>2, <1>3
      <4>2. y > 0 /\ y < u /\ x + u <= TotalBlocks /\ TotalBlocks \in Nat
        BY <1>1, <1>2, <1>3, <1>8, <4>1, AllocatorAssumption DEF Fits
      <4>3. x + y \in 0..TotalBlocks - 1 /\ u - y \in 1..TotalBlocks
        BY ONLY <4>1, <4>2
      <4>4. QED
        BY <4>1, <4>3
    <3>2. QED
      BY <1>1, <1>2, <1>3, <3>1 DEF Chunks, Fits, Blocks
  <2>3. m = [list EXCEPT ![i] = r]
    BY <1>3, <1>8
  <2>4. /\ m \in Seq(Chunks) /\ Len(m) = Len(list)
        /\ \A k \in 1..Len(list) : m[k] = IF k = i THEN r ELSE list[k]
    BY <1>1, <2>2, <2>3
  <2>5. Ordered(m)
    <3>1. \A k \in 1..Len(m) : Fits(m[k])
      BY <1>1, <2>2, <2>4
    <3>2. ASSUME NEW j \in 1..Len(m), NEW k \in 1..Len(m), j < k
          PROVE  m[j].addr + m[j].size <= m[k].addr
      <4>1. list[j].addr + list[j].size <= list[k].addr
        BY <1>1, <2>4, <3>2
      <4>2. m[j].addr + m[j].size = list[j].addr + list[j].size
        <5>1. r.addr + r.size = list[i].addr + list[i].size
          BY <1>2, <1>3, <2>2
        <5>2. m[j] = IF j = i THEN r ELSE list[j]
          BY <2>4
        <5>3. QED
          BY <5>1, <5>2
      <4>3. list[k].addr <= m[k].addr
        BY <1>2, <1>3, <2>2, <2>4
      <4>4. m[j].addr + m[j].size <= list[k].addr
        BY <4>1, <4>2
      <4>5. list[k].addr \in Int /\ m[k].addr \in Int /\ m[j].addr + m[j].size \in Int
        <5>1. j \in 1..Len(list) /\ k \in 1..Len(list)
          BY <2>4
        <5>2. list[k].addr \in Int /\ list[j].addr + list[j].size \in Int
          BY <1>2, <5>1
        <5>3. r.addr \in Int
          BY <1>2, <1>3, <2>2
        <5>4. m[k].addr \in Int
          BY <2>4, <5>1, <5>2, <5>3
        <5>5. QED
          BY <4>2, <5>2, <5>4
      <4>6. QED
        BY <4>3, <4>4, <4>5
    <3>3. QED
      BY <2>4, <3>1, <3>2 DEF Ordered
  <2>6. ASSUME NEW k \in 1..Len(m) - 1 PROVE ~Touch(m[k], m[k + 1])
    <3>1. k \in 1..Len(list) /\ k + 1 \in 1..Len(list)
      BY <1>1, <2>4
    <3>2. list[k].addr + list[k].size < list[k + 1].addr
      <4>1. list[k].addr + list[k].size <= list[k + 1].addr
        BY <1>1, <3>1
      <4>2. list[k].addr + list[k].size # list[k + 1].addr
        BY <1>1, <2>4 DEF Touch
      <4>3. list[k].addr + list[k].size \in Int /\ list[k + 1].addr \in Int
        BY <1>2, <3>1
      <4>4. QED
        BY <4>1, <4>2, <4>3
    <3>3. m[k].addr + m[k].size = list[k].addr + list[k].size
      BY <1>2, <1>3, <2>2, <2>4, <3>1
    <3>4. PICK g \in 1..Len(list) : g = k + 1
      BY <3>1
    <3>5. /\ list[g].addr <= m[g].addr
          /\ list[g].addr \in Int /\ m[g].addr \in Int
      <4>1. CASE g = i
        BY <1>2, <1>3, <2>2, <2>4, <4>1
      <4>2. CASE g # i
        <5>1. m[g] = list[g] /\ list[g].addr \in Int
          BY <1>2, <2>4, <4>2
        <5>2. QED
          BY <5>1
      <4>3. QED
        BY <4>1, <4>2
    <3>6. list[k].addr + list[k].size \in Int
      BY <1>2, <3>1
    <3>7. m[k].addr + m[k].size < m[g].addr
      BY <3>2, <3>3, <3>4, <3>5, <3>6
    <3>8. QED
      BY <3>3, <3>4, <3>5, <3>6, <3>7 DEF Touch
  <2>7. ASSUME NEW b \in Blocks
        PROVE  InFree(m, b) <=> InFree(list, b) /\ ~InChunk(b, t)
    <3>1. b \in Int
      BY AllocatorAssumption DEF Blocks
    <3>2. InChunk(b, r) <=> InChunk(b, list[i]) /\ ~InChunk(b, t)
      BY <1>2, <1>3, <2>2, <3>1 DEF InChunk
    <3>3. QED
      BY <1>6, <2>4, <3>2 DEF InFree
  <2>8. QED
    BY <1>4, <1>5, <2>5, <2>6, <2>7 DEF Merged, Gap
<1>9. QED
  BY <1>7, <1>8

-----------------------------------------------------------------------------
\* A chunk put at its place in the order of the addresses: exactly its blocks
\* become free, and it alone may touch its neighbours.
LEMMA InsertChunk ==
    ASSUME NEW list, Merged(list), NEW c \in Chunks, Fits(c),
           \A b \in Blocks : InChunk(b, c) => ~InFree(list, b),
           NEW i \in 1..Len(list) + 1,
           i <= Len(list) => list[i].addr >= c.addr,
           \A j \in 1..i - 1 : ~(list[j].addr >= c.addr)
    PROVE  /\ Ordered(InsertAt(list, i, c))
           /\ \A b \in Blocks : InFree(InsertAt(list, i, c), b) <=> InFree(list, b) \/ InChunk(b, c)
           /\ \A k \in Int : k # i /\ k # i - 1 => Gap(InsertAt(list, i, c), k)
<1>1. /\ list \in Seq(Chunks) /\ Len(list) \in Nat
      /\ \A k \in 1..Len(list) : Fits(list[k]) /\ list[k] \in Chunks
      /\ \A j, k \in 1..Len(list) : j < k => list[j].addr + list[j].size <= list[k].addr
      /\ \A k \in 1..Len(list) - 1 : ~Touch(list[k], list[k + 1])
  BY DEF Merged, Ordered, Gap
<1>2. \A k \in 1..Len(list) : /\ list[k].addr \in Nat /\ list[k].size \in Nat \ {0}
                              /\ list[k].addr \in Blocks /\ InChunk(list[k].addr, list[k])
  BY <1>1, ChunkType
<1>3. c.addr \in Nat /\ c.size \in Nat \ {0} /\ c.addr \in Blocks /\ InChunk(c.addr, c)
  BY ChunkType
<1>4. \A k \in 1..Len(list) : InFree(list, list[k].addr) /\ ~InChunk(c.addr, list[k])
  BY <1>2, <1>3 DEF InFree
<1>5. ASSUME NEW k \in 1..Len(list), k < i
      PROVE  list[k].addr + list[k].size <= c.addr
  <2>1. list[k].addr < c.addr
    BY <1>1, <1>2, <1>3, <1>5
  <2>2. ~InChunk(c.addr, list[k])
    BY <1>4
  <2>3. QED
    BY <1>2, <1>3, <2>1, <2>2 DEF InChunk
<1>6. ASSUME NEW k \in 1..Len(list), ~(k < i)
      PROVE  c.addr + c.size <= list[k].addr
  <2>1. i \in 1..Len(list) /\ i \in Int
    BY <1>1, <1>6
  <2>2. c.addr + c.size <= list[i].addr
    <3>1. ~InChunk(list[i].addr, c)
      BY <1>2, <1>4, <2>1
    <3>2. list[i].addr \in Nat /\ list[i].addr >= c.addr
      BY <1>1, <1>2, <2>1
    <3>3. QED
      BY <1>3, <3>1, <3>2 DEF InChunk
  <2>3. CASE k = i
    BY <2>2, <2>3
  <2>4. CASE i < k
    <3>1. list[i].addr + list[i].size <= list[k].addr
      BY <1>1, <2>1, <2>4
    <3>2. /\ list[i].addr \in Nat /\ list[i].size \in Nat /\ list[k].addr \in Nat
          /\ c.addr + c.size \in Nat
      BY <1>2, <1>3, <2>1
    <3>3. QED
      BY <2>2, <3>1, <3>2
  <2>5. QED
    BY <1>6, <2>1, <2>3, <2>4
<1>7. PICK m : m = InsertAt(list, i, c)
  OBVIOUS
<1>8. /\ m \in Seq(Chunks) /\ Len(m) = Len(list) + 1
      /\ \A k \in 1..Len(list) + 1 :
             m[k] = IF k < i THEN list[k] ELSE IF k = i THEN c ELSE list[k - 1]
  <2>1. /\ InsertAt(list, i, c) \in Seq(Chunks) /\ Len(InsertAt(list, i, c)) = Len(list) + 1
        /\ \A k \in 1..Len(list) + 1 :
               InsertAt(list, i, c)[k] =
                   IF k < i THEN list[k] ELSE IF k = i THEN c ELSE list[k - 1]
    <3>1. list \in Seq(Chunks) /\ c \in Chunks /\ i \in 1..Len(list) + 1
      BY <1>1
    <3>2. QED
      BY ONLY <3>1, InsertAtList
  <2>2. QED
    BY <1>7, <2>1
<1>9. \A k \in 1..Len(list) + 1 : /\ k < i => k \in 1..Len(list)
                                  /\ i < k => k - 1 \in 1..Len(list) /\ ~(k - 1 < i)
  BY <1>1
<1>10. ASSUME NEW j \in 1..Len(m), NEW k \in 1..Len(m), j < k
       PROVE  m[j].addr + m[j].size <= m[k].addr
  <2>0. j \in 1..Len(list) + 1 /\ k \in 1..Len(list) + 1 /\ j \in Int /\ k \in Int /\ i \in Int
    BY <1>8
  <2>1. CASE k < i
    <3>1. k \in 1..Len(list) /\ m[k] = list[k] /\ j \in 1..Len(list) /\ m[j] = list[j]
      BY <1>8, <1>9, <1>10, <2>0, <2>1
    <3>2. QED
      BY <1>1, <1>10, <3>1
  <2>2. CASE k = i
    <3>1. j \in 1..Len(list) /\ j < i /\ m[j] = list[j] /\ m[k] = c
      BY <1>8, <1>9, <1>10, <2>0, <2>2
    <3>2. QED
      BY <1>5, <3>1
  <2>3. CASE j = i
    <3>1. k - 1 \in 1..Len(list) /\ ~(k - 1 < i) /\ m[k] = list[k - 1] /\ m[j] = c
      BY <1>8, <1>9, <1>10, <2>0, <2>3
    <3>2. QED
      BY <1>6, <3>1
  <2>4. CASE j < i /\ i < k
    <3>1. /\ k - 1 \in 1..Len(list) /\ m[k] = list[k - 1]
          /\ j \in 1..Len(list) /\ m[j] = list[j] /\ j < k - 1
      BY <1>8, <1>9, <2>0, <2>4
    <3>2. QED
      BY <1>1, <3>1
  <2>5. CASE i < j
    <3>1. /\ k - 1 \in 1..Len(list) /\ m[k] = list[k - 1]
          /\ j - 1 \in 1..Len(list) /\ m[j] = list[j - 1] /\ j - 1 < k - 1
      BY <1>8, <1>9, <1>10, <2>0, <2>5
    <3>2. QED
      BY <1>1, <3>1
  <2>6. QED
    BY <2>0, <2>1, <2>2, <2>3, <2>4, <2>5
<1>11. ASSUME NEW k \in 1..Len(m) PROVE Fits(m[k])
  <2>0. k \in 1..Len(list) + 1 /\ i \in Int /\ \A j \in 1..Len(list) : Fits(list[j])
    BY <1>1, <1>8
  <2>1. CASE k < i
    <3>1. k \in 1..Len(list) /\ m[k] = list[k]
      BY <1>8, <1>9, <2>0, <2>1
    <3>2. QED
      BY <2>0, <3>1
  <2>2. CASE k = i
    <3>1. m[k] = c
      BY <1>8, <2>0, <2>2
    <3>2. QED
      BY <1>1, <3>1
  <2>3. CASE i < k
    <3>1. k - 1 \in 1..Len(list) /\ m[k] = list[k - 1]
      BY <1>8, <1>9, <2>0, <2>3
    <3>2. QED
      BY <2>0, <3>1
  <2>4. QED
    BY <2>0, <2>1, <2>2, <2>3
<1>12. Ordered(m)
  BY <1>8, <1>10, <1>11 DEF Ordered
<1>13. ASSUME NEW b \in Blocks
       PROVE  InFree(m, b) <=> InFree(list, b) \/ InChunk(b, c)
  <2>1. ASSUME NEW k \in 1..Len(m), InChunk(b, m[k])
        PROVE  InFree(list, b) \/ InChunk(b, c)
    BY <1>8, <1>9, <2>1 DEF InFree
  <2>2. ASSUME InChunk(b, c) PROVE InFree(m, b)
    <3>1. i \in 1..Len(m) /\ m[i] = c
      BY <1>1, <1>8
    <3>2. QED
      BY <2>2, <3>1 DEF InFree
  <2>3. ASSUME NEW k \in 1..Len(list), InChunk(b, list[k]) PROVE InFree(m, b)
    <3>1. CASE k < i
      <4>1. k \in 1..Len(m) /\ m[k] = list[k]
        BY <1>1, <1>8, <3>1
      <4>2. QED
        BY <2>3, <4>1 DEF InFree
    <3>2. CASE ~(k < i)
      <4>1. k + 1 \in 1..Len(list) + 1 /\ ~(k + 1 < i) /\ k + 1 # i /\ k + 1 - 1 = k
        BY <1>1, <3>2
      <4>2. m[k + 1] = list[k + 1 - 1]
        BY <1>8, <4>1
      <4>3. k + 1 \in 1..Len(m) /\ m[k + 1] = list[k]
        BY <1>8, <4>1, <4>2
      <4>4. QED
        BY <2>3, <4>3 DEF InFree
    <3>3. QED
      BY <3>1, <3>2
  <2>4. QED
    BY <2>1, <2>2, <2>3 DEF InFree
<1>14. ASSUME NEW k \in Int, k # i, k # i - 1, k \in 1..Len(m) - 1
       PROVE  ~Touch(m[k], m[k + 1])
  <2>1. CASE k < i
    <3>1. k \in 1..Len(list) - 1 /\ m[k] = list[k] /\ m[k + 1] = list[k + 1]
      BY <1>1, <1>8, <1>14, <2>1
    <3>2. QED
      BY <1>1, <3>1
  <2>2. CASE i < k
    <3>1. /\ k - 1 \in 1..Len(list) - 1 /\ k - 1 + 1 = k /\ k + 1 - 1 = k
          /\ k \in 1..Len(list) + 1 /\ k + 1 \in 1..Len(list) + 1 /\ i < k + 1
      BY <1>1, <1>8, <1>14, <2>2
    <3>2. m[k] = list[k - 1] /\ m[k + 1] = list[k + 1 - 1]
      BY <1>8, <1>14, <2>2, <3>1
    <3>3. ~Touch(list[k - 1], list[k - 1 + 1])
      BY <1>1, <3>1
    <3>4. QED
      BY <3>1, <3>2, <3>3
  <2>3. QED
    BY <1>14, <2>1, <2>2
<1>15. QED
  BY <1>7, <1>12, <1>13, <1>14 DEF Gap

\* The place that _kmfree finds for a chunk.
LEMMA PlaceInFree ==
    ASSUME free \in Seq(Chunks), NEW c \in Chunks
    PROVE  LET i == PlaceByAddress(c)
           IN  /\ i \in 1..Len(free) + 1
               /\ i <= Len(free) => free[i].addr >= c.addr
               /\ \A j \in 1..i - 1 : ~(free[j].addr >= c.addr)
<1> DEFINE I == {i \in 1..Len(free) + 1 : i <= Len(free) => free[i].addr >= c.addr}
<1>1. Len(free) \in Nat
  OBVIOUS
<1>2. Len(free) + 1 \in I
  BY <1>1
<1>3. I \in SUBSET Nat /\ I # {}
  BY <1>1, <1>2
<1> HIDE DEF I
<1>4. Min(I) \in I /\ \A j \in I : Min(I) <= j
  BY <1>3, MinNat
<1>5. PlaceByAddress(c) = Min(I)
  BY DEF PlaceByAddress, I
<1>6. PICK i : i = Min(I)
  OBVIOUS
<1>7. i \in 1..Len(free) + 1 /\ (i <= Len(free) => free[i].addr >= c.addr)
  BY <1>4, <1>6 DEF I
<1>8. ASSUME NEW j \in 1..i - 1, free[j].addr >= c.addr PROVE FALSE
  <2>1. j \in I
    BY <1>1, <1>7, <1>8 DEF I
  <2>2. i <= j
    BY <1>4, <1>6, <2>1
  <2>3. QED
    BY <1>7, <2>2
<1>9. QED
  BY <1>5, <1>6, <1>7, <1>8

\* A chunk given back: exactly its blocks become free, and the free list is
\* ordered and merged again.
LEMMA GiveToFree ==
    ASSUME Merged(free), NEW c \in Chunks, Fits(c),
           \A b \in Blocks : InChunk(b, c) => ~InFree(free, b)
    PROVE  /\ Merged(FreeAfterGiving(c))
           /\ \A b \in Blocks :
                  InFree(FreeAfterGiving(c), b) <=> InFree(free, b) \/ InChunk(b, c)
<1>1. free \in Seq(Chunks)
  BY DEF Merged, Ordered
<1>2. PICK i : i = PlaceByAddress(c)
  OBVIOUS
<1>3. /\ i \in 1..Len(free) + 1
      /\ i <= Len(free) => free[i].addr >= c.addr
      /\ \A j \in 1..i - 1 : ~(free[j].addr >= c.addr)
  BY <1>1, <1>2, PlaceInFree
<1>4. PICK m : m = InsertAt(free, i, c)
  OBVIOUS
<1>5. /\ Ordered(m)
      /\ \A b \in Blocks : InFree(m, b) <=> InFree(free, b) \/ InChunk(b, c)
      /\ \A k \in Int : k # i /\ k # i - 1 => Gap(m, k)
  BY <1>3, <1>4, InsertChunk
<1>6. i \in Int /\ i - 1 \in Int /\ i - 1 < i /\ -1 \in Int /\ -1 < i - 1
  BY <1>1, <1>3
<1>7. PICK l : l = MergeAt(m, i)
  OBVIOUS
<1>8. /\ Ordered(l)
      /\ \A b \in Blocks : InFree(l, b) <=> InFree(m, b)
      /\ \A k \in Int : k # i - 1 => Gap(l, k)
  <2>1. PICK e \in Int : e = i - 1
    BY <1>6
  <2>2. /\ Ordered(m) /\ i \in Int /\ e \in Int /\ e < i
        /\ \A k \in Int : k # i /\ k # e => Gap(m, k)
    BY <1>5, <1>6, <2>1
  <2>3. /\ Ordered(MergeAt(m, i))
        /\ \A b \in Blocks : InFree(MergeAt(m, i), b) <=> InFree(m, b)
        /\ \A k \in Int : k # e => Gap(MergeAt(m, i), k)
    BY ONLY <2>2, MergeAtList
  <2>4. QED
    BY <1>7, <2>1, <2>3
<1>9. PICK z : z = MergeAt(l, i - 1)
  OBVIOUS
<1>10. /\ Ordered(z)
       /\ \A b \in Blocks : InFree(z, b) <=> InFree(l, b)
       /\ \A k \in Int : k # -1 => Gap(z, k)
  <2>1. PICK e \in Int, f \in Int : e = i - 1 /\ f = -1
    BY <1>6
  <2>2. /\ Ordered(l) /\ e \in Int /\ f \in Int /\ f < e
        /\ \A k \in Int : k # e /\ k # f => Gap(l, k)
    BY <1>6, <1>8, <2>1
  <2>3. /\ Ordered(MergeAt(l, e))
        /\ \A b \in Blocks : InFree(MergeAt(l, e), b) <=> InFree(l, b)
        /\ \A k \in Int : k # f => Gap(MergeAt(l, e), k)
    BY ONLY <2>2, MergeAtList
  <2>4. QED
    BY <1>9, <2>1, <2>3
<1>11. Gap(z, -1)
  BY DEF Gap
<1>12. z = FreeAfterGiving(c)
  BY <1>2, <1>4, <1>7, <1>9 DEF FreeAfterGiving
<1>13. QED
  BY <1>5, <1>8, <1>10, <1>11, <1>12 DEF Merged

\* A run of free blocks lies in one chunk of a merged list.
LEMMA RunIsInChunk ==
    ASSUME NEW list, Merged(list), NEW c \in Chunks, Fits(c),
           \A b \in Blocks : InChunk(b, c) => InFree(list, b)
    PROVE  \E k \in 1..Len(list) : list[k].size >= c.size
<1>1. /\ list \in Seq(Chunks) /\ Len(list) \in Nat
      /\ \A k \in 1..Len(list) : Fits(list[k]) /\ list[k] \in Chunks
      /\ \A j, k \in 1..Len(list) : j < k => list[j].addr + list[j].size <= list[k].addr
      /\ \A k \in 1..Len(list) - 1 : ~Touch(list[k], list[k + 1])
  BY DEF Merged, Ordered, Gap
<1>2. \A k \in 1..Len(list) : list[k].addr \in Nat /\ list[k].size \in Nat \ {0}
  BY <1>1, ChunkType
<1>3. /\ c.addr \in Nat /\ c.size \in Nat \ {0} /\ c.addr \in Blocks /\ InChunk(c.addr, c)
      /\ c.addr + c.size <= TotalBlocks
  BY ChunkType DEF Fits
<1>4. PICK k \in 1..Len(list) : InChunk(c.addr, list[k])
  BY <1>3 DEF InFree
<1>5. PICK e : e = list[k].addr + list[k].size
  OBVIOUS
<1>6. e \in Nat /\ list[k].addr <= c.addr /\ c.addr < e /\ list[k].addr < e /\ k \in Int
  BY <1>2, <1>3, <1>4, <1>5 DEF InChunk
<1>7. c.addr + c.size <= e
  <2>1. SUFFICES ASSUME e < c.addr + c.size PROVE FALSE
    BY <1>3, <1>6
  <2>2. e \in Blocks /\ InChunk(e, c)
    BY <1>3, <1>6, <2>1, AllocatorAssumption DEF Blocks, InChunk
  <2>3. PICK j \in 1..Len(list) : InChunk(e, list[j])
    BY <2>2 DEF InFree
  <2>4. list[j].addr <= e /\ e < list[j].addr + list[j].size
    BY <2>3 DEF InChunk
  <2>5. ~(j < k)
    <3>1. SUFFICES ASSUME j < k PROVE FALSE
      OBVIOUS
    <3>2. list[j].addr + list[j].size <= list[k].addr
      BY <1>1, <3>1
    <3>3. list[j].addr + list[j].size \in Nat /\ list[k].addr \in Nat
      BY <1>2
    <3>4. QED
      BY <1>6, <2>4, <3>2, <3>3
  <2>6. j # k
    BY <1>5, <1>6, <2>4
  <2>7. k < j
    BY <1>6, <2>5, <2>6
  <2>8. e <= list[j].addr
    BY <1>1, <1>5, <2>7
  <2>9. list[j].addr = e
    BY <1>2, <1>6, <2>4, <2>8
  <2>10. CASE j = k + 1
    <3>1. k \in 1..Len(list) - 1
      BY <1>1, <1>6, <2>10
    <3>2. QED
      BY <1>1, <1>5, <2>9, <2>10, <3>1 DEF Touch
  <2>11. CASE k + 1 < j
    <3>1. k + 1 \in 1..Len(list) /\ k < k + 1
      BY <1>1, <1>6, <2>11
    <3>2. /\ e <= list[k + 1].addr
          /\ list[k + 1].addr + list[k + 1].size <= list[j].addr
      BY <1>1, <1>5, <2>11, <3>1
    <3>3. list[k + 1].addr \in Nat /\ list[k + 1].size \in Nat \ {0}
      BY <1>2, <3>1
    <3>4. QED
      BY <1>6, <2>9, <3>2, <3>3
  <2>12. QED
    BY <1>6, <2>7, <2>10, <2>11
<1>8. list[k].size >= c.size
  BY <1>2, <1>3, <1>5, <1>6, <1>7
<1>9. QED
  BY <1>8

-----------------------------------------------------------------------------
\* mem_alloc asks for a number of blocks.
LEMMA BlocksOfRequest ==
    ASSUME NEW size \in Sizes
    PROVE  NumOfBlocks(size) \in Nat /\ size \in Nat
<1>1. size \in Nat /\ SIZE_HEADER + size + MEM_BLOCK_SIZE - 1 \in Nat
  BY AllocatorAssumption
<1>2. (SIZE_HEADER + size + MEM_BLOCK_SIZE - 1) % SizeMod \in Nat
  BY <1>1, AllocatorAssumption
<1>3. QED
  BY <1>1, <1>2, AllocatorAssumption DEF NumOfBlocks

\* What _kmalloc does when it finds a chunk.
LEMMA Given ==
    ASSUME HeapInv, NEW n \in Nat, n # 0, NEW i, i = Min(Fitting(n)), Fitting(n) # {},
           NEW t, t = [addr |-> free[i].addr, size |-> n]
    PROVE  /\ i \in 1..Len(free) /\ t.addr = free[i].addr /\ t.size = n
           /\ t \in Chunks /\ Fits(t)
           /\ \A b \in Blocks : InChunk(b, t) => InFree(free, b)
           /\ Merged(FreeAfterTaking(i, n))
           /\ \A b \in Blocks :
                  InFree(FreeAfterTaking(i, n), b) <=> InFree(free, b) /\ ~InChunk(b, t)
<1>1. free \in Seq(Chunks) /\ Merged(free) /\ Len(free) \in Nat
  BY DEF HeapInv, HeapTypeOK
<1>2. Fitting(n) \in SUBSET Nat
  BY <1>1 DEF Fitting
<1>3. i \in Fitting(n)
  BY <1>2, MinNat
<1>4. i \in 1..Len(free) /\ free[i].size >= n
  BY <1>1, <1>3 DEF Fitting
<1>5. free[i].size \in Nat
  BY <1>1, <1>4, ChunkType
<1>6. n \in 1..free[i].size
  BY <1>4, <1>5
<1>7. t = FirstOf(free[i], n) /\ t.addr = free[i].addr /\ t.size = n
  BY DEF FirstOf
<1>8. FreeAfterTaking(i, n) = ListRest(free, i, n)
  BY DEF FreeAfterTaking, ListRest, RestOf
<1>9. QED
  BY <1>1, <1>4, <1>6, <1>7, <1>8, TakeFromList

\* A chunk in use is not free, and no other one begins at its first block.
LEMMA TakenChunk ==
    ASSUME HeapInv, NEW c \in taken
    PROVE  /\ c \in Chunks /\ Fits(c) /\ c.addr \in Blocks /\ InChunk(c.addr, c)
           /\ \A b \in Blocks : InChunk(b, c) => ~InFree(free, b)
           /\ \A d \in taken : d.addr = c.addr => d = c
<1>1. taken \subseteq Chunks /\ Fits(c)
  BY DEF HeapInv, HeapTypeOK
<1>2. \A d \in taken : d.addr \in Blocks /\ InChunk(d.addr, d)
  BY <1>1, ChunkType
<1>3. \A b \in Blocks : InChunk(b, c) => ~InFree(free, b)
  BY DEF HeapInv, InTaken
<1>4. \A d \in taken : d.addr = c.addr => d = c
  BY <1>2 DEF HeapInv
<1>5. QED
  BY <1>1, <1>2, <1>3, <1>4

\* At first the whole heap is one free chunk.
LEMMA HeapInvInit == HeapInit => HeapInv
<1>1. SUFFICES ASSUME HeapInit PROVE HeapInv
  OBVIOUS
<1>2. PICK w : w = [addr |-> 0, size |-> TotalBlocks]
  OBVIOUS
<1>3. /\ free = <<w>> /\ taken = {}
      /\ asked = [a \in Blocks |-> 0] /\ wanted = 0 /\ answer = "none"
  BY <1>1, <1>2 DEF HeapInit, Blocks
<1>4. w \in Chunks /\ w.addr = 0 /\ w.size = TotalBlocks /\ Fits(w)
  BY <1>2, AllocatorAssumption DEF Chunks, Blocks, Fits
<1>5. free \in Seq(Chunks) /\ Len(free) = 1 /\ free[1] = w
  BY <1>3, <1>4
<1>6. HeapTypeOK
  BY <1>3, <1>5 DEF HeapTypeOK
<1>7. Merged(free)
  BY <1>4, <1>5 DEF Merged, Ordered, Gap
<1>8. \A b \in Blocks : InFree(free, b)
  BY <1>4, <1>5, AllocatorAssumption DEF InFree, InChunk, Blocks
<1>9. QED
  BY <1>3, <1>6, <1>7, <1>8 DEF HeapInv, InTaken

\* Every call keeps the invariant.
LEMMA HeapInvStep == HeapInv /\ [HeapNext]_heapVars => HeapInv'
<1>1. SUFFICES ASSUME HeapInv, [HeapNext]_heapVars PROVE HeapInv'
  OBVIOUS
<1>2. /\ HeapTypeOK /\ Merged(free)
      /\ \A c \in taken : Fits(c)
      /\ \A b \in Blocks : InFree(free, b) <=> ~InTaken(b)
      /\ \A c, d \in taken : \A b \in Blocks : InChunk(b, c) /\ InChunk(b, d) => c = d
  BY <1>1 DEF HeapInv
<1>3. CASE MemAlloc
  <2>1. PICK size \in Sizes : Kmalloc(NumOfBlocks(size), size)
    BY <1>3 DEF MemAlloc
  <2>2. PICK n : n = NumOfBlocks(size)
    OBVIOUS
  <2>3. n \in Nat /\ size \in Nat
    BY <2>2, BlocksOfRequest
  <2>4. Kmalloc(n, size)
    BY <2>1, <2>2
  <2>5. CASE n = 0 \/ Fitting(n) = {}
    <3>1. wanted' = n /\ answer' = "null" /\ UNCHANGED <<free, taken, asked>>
      BY <2>4, <2>5 DEF Kmalloc
    <3>2. QED
      BY <1>2, <2>3, <3>1 DEF HeapInv, HeapTypeOK, InTaken
  <2>6. CASE ~(n = 0 \/ Fitting(n) = {})
    <3>1. PICK i : i = Min(Fitting(n))
      OBVIOUS
    <3>2. PICK t : t = [addr |-> free[i].addr, size |-> n]
      OBVIOUS
    <3>3. /\ wanted' = n /\ answer' = "given"
          /\ free' = FreeAfterTaking(i, n) /\ taken' = taken \cup {t}
          /\ asked' = [asked EXCEPT ![free[i].addr] = size]
      BY <2>4, <2>6, <3>1, <3>2 DEF Kmalloc
    <3>4. /\ t \in Chunks /\ Fits(t)
          /\ \A b \in Blocks : InChunk(b, t) => InFree(free, b)
          /\ Merged(free')
          /\ \A b \in Blocks : InFree(free', b) <=> InFree(free, b) /\ ~InChunk(b, t)
      BY <1>1, <2>3, <2>6, <3>1, <3>2, <3>3, Given
    <3>5. HeapTypeOK'
      BY <1>2, <2>3, <3>3, <3>4 DEF HeapTypeOK, Merged, Ordered
    <3>6. \A b \in Blocks : InTaken(b)' <=> InTaken(b) \/ InChunk(b, t)
      BY <3>3 DEF InTaken
    <3>7. ASSUME NEW c \in taken', NEW d \in taken', NEW b \in Blocks,
                 InChunk(b, c), InChunk(b, d)
          PROVE  c = d
      <4>1. \A u \in taken : ~(InChunk(b, t) /\ InChunk(b, u))
        BY <1>2, <3>4 DEF InTaken
      <4>2. QED
        BY <1>2, <3>3, <3>7, <4>1
    <3>8. \A c \in taken' : Fits(c)
      BY <1>2, <3>3, <3>4
    <3>9. \A b \in Blocks : InFree(free', b) <=> ~InTaken(b)'
      BY <1>2, <3>4, <3>6
    <3>10. QED
      BY <3>4, <3>5, <3>7, <3>8, <3>9 DEF HeapInv
  <2>7. QED
    BY <2>5, <2>6
<1>4. CASE MemFree
  <2>1. PICK a \in 0..TotalBlocks - 1 : Kmfree(a) /\ wanted' = wanted
    BY <1>4 DEF MemFree
  <2>2. CASE answer' = "notTaken" /\ UNCHANGED <<free, taken, asked>>
    BY <1>2, <2>1, <2>2 DEF HeapInv, HeapTypeOK, InTaken
  <2>3. CASE \E c \in taken : /\ c.addr = a
                              /\ answer' = "freed" /\ taken' = taken \ {c}
                              /\ free' = FreeAfterGiving(c)
                              /\ asked' = [asked EXCEPT ![a] = 0]
    <3>1. PICK c \in taken : /\ c.addr = a
                             /\ answer' = "freed" /\ taken' = taken \ {c}
                             /\ free' = FreeAfterGiving(c)
                             /\ asked' = [asked EXCEPT ![a] = 0]
      BY <2>3
    <3>2. c \in Chunks /\ Fits(c) /\ \A b \in Blocks : InChunk(b, c) => ~InFree(free, b)
      BY <1>1, TakenChunk
    <3>3. /\ Merged(free')
          /\ \A b \in Blocks : InFree(free', b) <=> InFree(free, b) \/ InChunk(b, c)
      BY <1>2, <3>1, <3>2, GiveToFree
    <3>4. HeapTypeOK'
      BY <1>2, <2>1, <3>1, <3>3 DEF HeapTypeOK, Merged, Ordered, Blocks
    <3>5. ASSUME NEW b \in Blocks PROVE InTaken(b)' <=> InTaken(b) /\ ~InChunk(b, c)
      BY <1>2, <3>1 DEF InTaken
    <3>6. \A b \in Blocks : InFree(free', b) <=> ~InTaken(b)'
      BY <1>2, <3>3, <3>5
    <3>7. /\ \A d \in taken' : Fits(d)
          /\ \A d, e \in taken' : \A b \in Blocks : InChunk(b, d) /\ InChunk(b, e) => d = e
      BY <1>2, <3>1
    <3>8. QED
      BY <3>3, <3>4, <3>6, <3>7 DEF HeapInv
  <2>4. QED
    BY <2>1, <2>2, <2>3 DEF Kmfree
<1>5. CASE UNCHANGED heapVars
  BY <1>2, <1>5 DEF HeapInv, HeapTypeOK, InTaken, heapVars
<1>6. QED
  BY <1>1, <1>3, <1>4, <1>5 DEF HeapNext

LEMMA HeapInvHolds == HeapSpec => []HeapInv
  BY HeapInvInit, HeapInvStep, PTL DEF HeapSpec

-----------------------------------------------------------------------------
\* The lists hold chunks of the heap (HeapTypeOK).
THEOREM HeapTypeCorrect == HeapSpec => []HeapTypeOK
<1>1. HeapInv => HeapTypeOK
  BY DEF HeapInv
<1>2. QED
  BY <1>1, HeapInvHolds, PTL

\* What the invariant says of the chunks.
LEMMA Partition == HeapInv => BlocksArePartitioned
<1>1. SUFFICES ASSUME HeapInv PROVE BlocksArePartitioned
  OBVIOUS
<1>2. /\ free \in Seq(Chunks) /\ Len(free) \in Nat /\ taken \subseteq Chunks
      /\ \A k \in 1..Len(free) : free[k] \in Chunks /\ Fits(free[k])
      /\ \A j, k \in 1..Len(free) : j < k => free[j].addr + free[j].size <= free[k].addr
      /\ \A b \in Blocks : InFree(free, b) <=> ~InTaken(b)
  BY <1>1 DEF HeapInv, HeapTypeOK, Merged, Ordered
<1>3. \A c \in FreeChunks : \E k \in 1..Len(free) : c = free[k]
  BY <1>2, InList DEF FreeChunks
<1>4. FreeChunks \subseteq Chunks /\ \A c \in FreeChunks : Fits(c)
  BY <1>2, <1>3
<1>5. \A k \in 1..Len(free) : free[k] \in FreeChunks
  BY <1>2, InList DEF FreeChunks
<1>6. \A c \in FreeChunks \cup taken : /\ c \in Chunks /\ BlocksOf(c) \subseteq Blocks
                                       /\ \A b \in Blocks : InChunk(b, c) <=> b \in BlocksOf(c)
                                       /\ c.addr \in Blocks /\ InChunk(c.addr, c)
  <2>1. \A c \in taken : Fits(c)
    BY <1>1 DEF HeapInv
  <2>2. QED
    BY <1>2, <1>4, <2>1, ChunkType
<1>7. ASSUME NEW j \in 1..Len(free), NEW k \in 1..Len(free), NEW b \in Blocks,
             InChunk(b, free[j]), InChunk(b, free[k])
      PROVE  j = k
  <2>1. b \in Int /\ j \in Int /\ k \in Int
    BY AllocatorAssumption DEF Blocks
  <2>2. /\ free[j].addr \in Nat /\ free[j].size \in Nat
        /\ free[k].addr \in Nat /\ free[k].size \in Nat
    BY <1>2, ChunkType
  <2>3. PICK x \in Nat, u \in Nat, y \in Nat, v \in Nat :
            /\ x = free[j].addr /\ u = free[j].size
            /\ y = free[k].addr /\ v = free[k].size
    BY <2>2
  <2>4. b < x + u /\ y <= b /\ b < y + v /\ x <= b
    BY <1>7, <2>3 DEF InChunk
  <2>5. (j < k => x + u <= y) /\ (k < j => y + v <= x)
    BY <1>2, <2>3
  <2>6. ~(j < k) /\ ~(k < j)
    <3>0. \A g, l \in Int : b < g /\ l <= b => ~(g <= l)
      BY <2>1
    <3>1. ~(x + u <= y) /\ ~(y + v <= x)
      <4>1. x + u \in Int /\ y + v \in Int /\ x \in Int /\ y \in Int
        OBVIOUS
      <4>2. QED
        BY ONLY <2>4, <3>0, <4>1
    <3>2. QED
      BY ONLY <2>5, <3>1
  <2>7. QED
    BY <2>1, <2>6
<1>8. ASSUME NEW c \in FreeChunks \cup taken, NEW d \in FreeChunks \cup taken,
             NEW b \in Blocks, InChunk(b, c), InChunk(b, d)
      PROVE  c = d
  <2>1. CASE c \in FreeChunks /\ d \in FreeChunks
    BY <1>3, <1>7, <1>8, <2>1
  <2>2. CASE c \in taken /\ d \in taken
    BY <1>1, <1>8, <2>2 DEF HeapInv
  <2>3. CASE c \in FreeChunks /\ d \in taken
    BY <1>2, <1>3, <1>8, <2>3 DEF InFree, InTaken
  <2>4. CASE c \in taken /\ d \in FreeChunks
    BY <1>2, <1>3, <1>8, <2>4 DEF InFree, InTaken
  <2>5. QED
    BY <1>8, <2>1, <2>2, <2>3, <2>4
<1>9. \A c, d \in FreeChunks \cup taken : c # d => BlocksOf(c) \cap BlocksOf(d) = {}
  BY <1>6, <1>8
<1>10. ASSUME NEW c \in FreeChunks \cap taken PROVE FALSE
  <2>1. InFree(free, c.addr) /\ InTaken(c.addr) /\ c.addr \in Blocks
    BY <1>3, <1>6 DEF InFree, InTaken
  <2>2. QED
    BY <1>2, <2>1
<1>11. IsInjective(free)
  <2>1. \A j \in 1..Len(free) : free[j].addr \in Blocks /\ InChunk(free[j].addr, free[j])
    BY <1>5, <1>6
  <2>2. ASSUME NEW j \in 1..Len(free), NEW k \in 1..Len(free), free[j] = free[k]
        PROVE  j = k
    BY <1>7, <2>1, <2>2
  <2>3. DOMAIN free = 1..Len(free)
    BY <1>2
  <2>4. QED
    BY <2>2, <2>3 DEF IsInjective
<1>12. ASSUME NEW b \in Blocks PROVE \E c \in FreeChunks \cup taken : b \in BlocksOf(c)
  <2>1. CASE InFree(free, b)
    BY <1>5, <1>6, <2>1 DEF InFree
  <2>2. CASE InTaken(b)
    BY <1>6, <2>2 DEF InTaken
  <2>3. QED
    BY <1>2, <2>1, <2>2
<1>13. UNION {BlocksOf(c) : c \in FreeChunks \cup taken} = Blocks
  BY <1>6, <1>12
<1>14. QED
  BY <1>9, <1>10, <1>11, <1>13 DEF BlocksArePartitioned

\* Splitting and merging neither lose a block nor give it twice
\* (BlocksArePartitioned), for every heap and every request.
THEOREM NoBlockIsLostOrShared == HeapSpec => []BlocksArePartitioned
  BY Partition, HeapInvHolds, PTL

\* The free list is in the order of the addresses, no chunk of it is empty
\* and no two touch (FreeListIsMerged), for every heap and every request.
THEOREM FreeListStaysMerged == HeapSpec => []FreeListIsMerged
<1>1. ASSUME HeapInv, NEW i \in 1..Len(free) - 1
      PROVE  free[i].addr + free[i].size < free[i + 1].addr
  <2>1. /\ Len(free) \in Nat
        /\ \A k \in 1..Len(free) : free[k] \in Chunks
        /\ \A j, k \in 1..Len(free) : j < k => free[j].addr + free[j].size <= free[k].addr
        /\ Gap(free, i)
    BY <1>1 DEF HeapInv, HeapTypeOK, Merged, Ordered
  <2>2. i \in 1..Len(free) /\ i + 1 \in 1..Len(free) /\ i < i + 1
    BY <2>1
  <2>3. /\ free[i].addr + free[i].size <= free[i + 1].addr
        /\ free[i].addr + free[i].size # free[i + 1].addr
    BY <2>1, <2>2 DEF Gap, Touch
  <2>4. /\ free[i].addr \in Nat /\ free[i].size \in Nat /\ free[i + 1].addr \in Nat
    BY <2>1, <2>2, ChunkType
  <2>5. QED
    BY <2>3, <2>4
<1>2. ASSUME HeapInv, NEW c \in FreeChunks PROVE c.size > 0
  <2>1. PICK k \in 1..Len(free) : c = free[k]
    BY <1>2, InList DEF FreeChunks, HeapInv, HeapTypeOK
  <2>2. c \in Chunks
    BY <1>2, <2>1 DEF HeapInv, HeapTypeOK
  <2>3. QED
    BY <2>2, ChunkType
<1>3. HeapInv => FreeListIsMerged
  BY <1>1, <1>2 DEF FreeListIsMerged
<1>4. QED
  BY <1>3, HeapInvHolds, PTL

-----------------------------------------------------------------------------
\* No request is so close to 2^64 bytes that rounding it up wraps around.
NoSizeWrap == \A size \in Sizes : SIZE_HEADER + size + MEM_BLOCK_SIZE - 1 < SizeMod

\* A request that does not wrap is rounded up to enough blocks.
LEMMA RoundedUp ==
    ASSUME NEW size \in Sizes, NoSizeWrap
    PROVE  SIZE_HEADER + size <= NumOfBlocks(size) * MEM_BLOCK_SIZE
<1>1. PICK x : x = SIZE_HEADER + size + MEM_BLOCK_SIZE - 1
  OBVIOUS
<1>2. /\ x \in Nat /\ x < SizeMod /\ SizeMod \in Nat \ {0} /\ size \in Nat
      /\ MEM_BLOCK_SIZE \in Nat \ {0} /\ SIZE_HEADER \in Nat
  BY <1>1, AllocatorAssumption DEF NoSizeWrap
<1>3. x % SizeMod = x
  BY <1>2
<1>4. NumOfBlocks(size) = x \div MEM_BLOCK_SIZE
  BY <1>1, <1>3 DEF NumOfBlocks
<1>5. /\ x = MEM_BLOCK_SIZE * (x \div MEM_BLOCK_SIZE) + (x % MEM_BLOCK_SIZE)
      /\ x % MEM_BLOCK_SIZE \in 0..MEM_BLOCK_SIZE - 1
      /\ x \div MEM_BLOCK_SIZE \in Nat
  BY <1>2
<1>6. PICK n \in Nat : n = x \div MEM_BLOCK_SIZE
  BY <1>5
<1>7. PICK p \in Nat : p = n * MEM_BLOCK_SIZE /\ p = MEM_BLOCK_SIZE * n
  BY <1>2
<1>8. SIZE_HEADER + size <= p
  BY <1>1, <1>2, <1>5, <1>6, <1>7
<1>9. QED
  BY <1>4, <1>6, <1>7, <1>8

\* With HeapInv, the invariant behind the next theorem.
RoomInv == HeapInv /\ ChunkHoldsRequest

LEMMA RoomInvStep ==
    ASSUME NoSizeWrap
    PROVE  RoomInv /\ [HeapNext]_heapVars => RoomInv'
<1>1. SUFFICES ASSUME RoomInv, [HeapNext]_heapVars PROVE RoomInv'
  OBVIOUS
<1>2. HeapInv /\ HeapInv' /\ asked \in [Blocks -> Nat]
  BY <1>1, HeapInvStep DEF RoomInv, HeapInv, HeapTypeOK
<1>3. \A c \in taken : SIZE_HEADER + asked[c.addr] <= c.size * MEM_BLOCK_SIZE
  BY <1>1 DEF RoomInv, ChunkHoldsRequest
<1>4. \A c \in taken : c.addr \in Blocks
  BY <1>2, TakenChunk
<1>5. CASE MemAlloc
  <2>1. PICK size \in Sizes, n \in Nat : n = NumOfBlocks(size) /\ Kmalloc(n, size)
    BY <1>5, BlocksOfRequest DEF MemAlloc
  <2>2. n \in Nat /\ size \in Nat /\ SIZE_HEADER + size <= n * MEM_BLOCK_SIZE
    BY <2>1, BlocksOfRequest, RoundedUp
  <2>3. CASE n = 0 \/ Fitting(n) = {}
    BY <1>2, <1>3, <2>1, <2>3 DEF Kmalloc, RoomInv, ChunkHoldsRequest
  <2>4. CASE ~(n = 0 \/ Fitting(n) = {})
    <3>1. PICK i, t : i = Min(Fitting(n)) /\ t = [addr |-> free[i].addr, size |-> n]
      OBVIOUS
    <3>2. /\ taken' = taken \cup {t}
          /\ asked' = [asked EXCEPT ![free[i].addr] = size]
      BY <2>1, <2>4, <3>1 DEF Kmalloc
    <3>3. /\ t.addr = free[i].addr /\ t.size = n /\ t \in Chunks
          /\ \A b \in Blocks : InChunk(b, t) => InFree(free, b)
      BY <1>2, <2>2, <2>4, <3>1, Given
    <3>4. t.addr \in Blocks /\ InChunk(t.addr, t)
      BY <3>3, ChunkType
    <3>5. \A a \in Blocks : asked'[a] = IF a = t.addr THEN size ELSE asked[a]
      BY <1>2, <3>2, <3>3, <3>4
    <3>6. ASSUME NEW c \in taken PROVE c.addr # t.addr
      BY <1>2, <3>3, <3>4, TakenChunk
    <3>7. ASSUME NEW c \in taken'
          PROVE  SIZE_HEADER + asked'[c.addr] <= c.size * MEM_BLOCK_SIZE
      <4>1. CASE c = t
        BY <2>2, <3>3, <3>4, <3>5, <4>1
      <4>2. CASE c \in taken
        BY <1>3, <1>4, <3>5, <3>6, <4>2
      <4>3. QED
        BY <3>2, <4>1, <4>2
    <3>8. QED
      BY <1>2, <3>7 DEF RoomInv, ChunkHoldsRequest
  <2>5. QED
    BY <2>3, <2>4
<1>6. CASE MemFree
  <2>1. PICK a \in 0..TotalBlocks - 1 : Kmfree(a)
    BY <1>6 DEF MemFree
  <2>2. CASE UNCHANGED <<free, taken, asked>>
    BY <1>2, <1>3, <2>2 DEF RoomInv, ChunkHoldsRequest
  <2>3. CASE \E c \in taken : /\ c.addr = a
                              /\ taken' = taken \ {c}
                              /\ asked' = [asked EXCEPT ![a] = 0]
    <3>1. PICK c \in taken : /\ c.addr = a
                             /\ taken' = taken \ {c}
                             /\ asked' = [asked EXCEPT ![a] = 0]
      BY <2>3
    <3>2. ASSUME NEW d \in taken'
          PROVE  SIZE_HEADER + asked'[d.addr] <= d.size * MEM_BLOCK_SIZE
      <4>1. d \in taken /\ d.addr # a /\ d.addr \in Blocks
        BY <1>2, <1>4, <3>1, TakenChunk
      <4>2. asked'[d.addr] = asked[d.addr]
        BY <1>2, <3>1, <4>1
      <4>3. QED
        BY <1>3, <4>1, <4>2
    <3>3. QED
      BY <1>2, <3>2 DEF RoomInv, ChunkHoldsRequest
  <2>4. QED
    BY <2>1, <2>2, <2>3 DEF Kmfree
<1>7. CASE UNCHANGED heapVars
  BY <1>2, <1>3, <1>7 DEF RoomInv, ChunkHoldsRequest, heapVars
<1>8. QED
  BY <1>1, <1>5, <1>6, <1>7 DEF HeapNext

\* A chunk has room for its header and for the bytes asked for
\* (ChunkHoldsRequest) as long as rounding the size up does not wrap around;
\* run heap_wrap shows that the hypothesis is needed.
THEOREM ChunksHoldWhatWasAskedFor ==
    ASSUME NoSizeWrap
    PROVE  HeapSpec => []ChunkHoldsRequest
<1>1. HeapInit => RoomInv
  BY HeapInvInit DEF RoomInv, ChunkHoldsRequest, HeapInit
<1>2. RoomInv /\ [HeapNext]_heapVars => RoomInv'
  BY RoomInvStep
<1>3. RoomInv => ChunkHoldsRequest
  BY DEF RoomInv
<1>4. QED
  BY <1>1, <1>2, <1>3, PTL DEF HeapSpec

-----------------------------------------------------------------------------
\* If no free chunk is long enough, no run of free blocks is.
LEMMA NothingAvailable ==
    ASSUME HeapInv, NEW n \in Nat, n # 0, Fitting(n) = {}
    PROVE  Abstract!Available(n) = {}
<1>1. SUFFICES ASSUME NEW c \in Abstract!Available(n) PROVE FALSE
  OBVIOUS
<1>2. /\ c \in Chunks /\ c.size = n /\ Fits(c)
      /\ \A d \in taken : BlocksOf(c) \cap BlocksOf(d) = {}
  BY DEF Abstract!Available, Abstract!Chunks, Abstract!BlocksOf, Chunks, Blocks, BlocksOf, Fits
<1>3. ASSUME NEW b \in Blocks, InChunk(b, c) PROVE InFree(free, b)
  <2>1. b \in BlocksOf(c)
    BY <1>2, <1>3, ChunkType
  <2>2. ASSUME NEW d \in taken, InChunk(b, d) PROVE FALSE
    <3>1. d \in Chunks
      BY TakenChunk
    <3>2. b \in BlocksOf(d)
      BY <2>2, <3>1, ChunkType
    <3>3. QED
      BY <1>2, <2>1, <3>2
  <2>3. ~InTaken(b)
    BY <2>2 DEF InTaken
  <2>4. QED
    BY <2>3 DEF HeapInv
<1>4. Merged(free) /\ free \in Seq(Chunks)
  BY DEF HeapInv, HeapTypeOK
<1>5. PICK k \in 1..Len(free) : free[k].size >= n
  BY <1>2, <1>3, <1>4, RunIsInChunk
<1>6. k \in Fitting(n)
  BY <1>4, <1>5 DEF Fitting
<1>7. QED
  BY <1>6

\* Each step of the allocator is a step of AbstractHeap or leaves it alone.
LEMMA AbstractStep ==
    HeapInv /\ [HeapNext]_heapVars => [Abstract!HeapNext]_<<taken, wanted, answer>>
<1>1. SUFFICES ASSUME HeapInv, [HeapNext]_heapVars
               PROVE  [Abstract!HeapNext]_<<taken, wanted, answer>>
  OBVIOUS
<1>2. CASE MemAlloc
  <2>1. PICK size \in Sizes, n \in Nat : n = NumOfBlocks(size) /\ Kmalloc(n, size)
    BY <1>2, BlocksOfRequest DEF MemAlloc
  <2>2. n \in Nat /\ wanted' = n
    BY <2>1, BlocksOfRequest DEF Kmalloc
  <2>3. CASE n = 0 \/ Fitting(n) = {}
    <3>1. answer' = "null" /\ taken' = taken
      BY <2>1, <2>3 DEF Kmalloc
    <3>2. n = 0 \/ Abstract!Available(n) = {}
      BY <1>1, <2>2, <2>3, NothingAvailable
    <3>3. Abstract!Refuse(wanted')
      BY <2>2, <3>1, <3>2 DEF Abstract!Refuse
    <3>4. QED
      BY <3>3 DEF Abstract!HeapNext
  <2>4. CASE ~(n = 0 \/ Fitting(n) = {})
    <3>1. PICK i, t : i = Min(Fitting(n)) /\ t = [addr |-> free[i].addr, size |-> n]
      OBVIOUS
    <3>2. answer' = "given" /\ taken' = taken \cup {t}
      BY <2>1, <2>4, <3>1 DEF Kmalloc
    <3>3. /\ t.size = n /\ t \in Chunks /\ Fits(t)
          /\ \A b \in Blocks : InChunk(b, t) => InFree(free, b)
      BY <1>1, <2>2, <2>4, <3>1, Given
    <3>4. ASSUME NEW d \in taken PROVE BlocksOf(t) \cap BlocksOf(d) = {}
      <4>1. /\ d \in Chunks
            /\ \A b \in Blocks : InChunk(b, d) => ~InFree(free, b)
        BY <1>1, TakenChunk
      <4>2. /\ BlocksOf(t) \subseteq Blocks
            /\ \A b \in Blocks : InChunk(b, t) <=> b \in BlocksOf(t)
            /\ \A b \in Blocks : InChunk(b, d) <=> b \in BlocksOf(d)
        BY <3>3, <4>1, ChunkType
      <4>3. QED
        BY <3>3, <4>1, <4>2
    <3>5. t \in Abstract!Available(n)
      BY <3>3, <3>4
         DEF Abstract!Available, Abstract!Chunks, Abstract!BlocksOf, Chunks, Blocks, BlocksOf, Fits
    <3>6. Abstract!Give(wanted')
      BY <2>2, <3>2, <3>5 DEF Abstract!Give
    <3>7. QED
      BY <3>6 DEF Abstract!HeapNext
  <2>5. QED
    BY <2>3, <2>4
<1>3. CASE MemFree
  <2>1. PICK a \in 0..TotalBlocks - 1 : Kmfree(a) /\ wanted' = wanted
    BY <1>3 DEF MemFree
  <2>2. CASE (\A c \in taken : c.addr # a) /\ answer' = "notTaken" /\ taken' = taken
    <3>1. Abstract!RefuseBack(a)
      BY <2>1, <2>2 DEF Abstract!RefuseBack
    <3>2. QED
      BY <3>1 DEF Abstract!HeapNext
  <2>3. CASE \E c \in taken : answer' = "freed" /\ taken' = taken \ {c}
    <3>1. PICK c \in taken : answer' = "freed" /\ taken' = taken \ {c}
      BY <2>3
    <3>2. Abstract!GiveBack(c)
      BY <2>1, <3>1 DEF Abstract!GiveBack
    <3>3. QED
      BY <3>2 DEF Abstract!HeapNext
  <2>4. QED
    BY <2>1, <2>2, <2>3 DEF Kmfree
<1>4. CASE UNCHANGED heapVars
  BY <1>4 DEF heapVars
<1>5. QED
  BY <1>1, <1>2, <1>3, <1>4 DEF HeapNext

\* The first-fit allocator with its merged free list implements AbstractHeap
\* (ImplementsHeap): chunks never overlap and a request is refused only when
\* no run of free blocks is long enough, for every heap and every request.
THEOREM HeapIsImplemented == HeapSpec => ImplementsHeap
<1>1. HeapInit => Abstract!HeapInit
  BY DEF HeapInit, Abstract!HeapInit
<1>2. HeapInv /\ [HeapNext]_heapVars => [Abstract!HeapNext]_<<taken, wanted, answer>>
  BY AbstractStep
<1>3. QED
  BY <1>1, <1>2, HeapInvHolds, PTL DEF HeapSpec, ImplementsHeap, Abstract!HeapSpec
=============================================================================
