----------------------------- MODULE LinkedList -----------------------------
(***************************************************************************)
(* _list<T> of h/_list.hpp with its pointers: Elems that the heap gives    *)
(* and takes back, linked from head by next, with a tail pointer.  Kernel  *)
(* code runs with interrupts masked, so an operation is one step; the loop *)
(* of foreachWhile takes one step per call of its callback, because the    *)
(* callback changes the list under the loop.                               *)
(***************************************************************************)
EXTENDS Integers, SequencesExt

CONSTANTS
    Data,    \* the pointers a list may hold
    Key,     \* what the comparison compares: cmp(a, b) is Key[a] < Key[b]
    NoData,
    Elems,   \* addresses of elements: bound of the model
    Null     \* nullptr as an element

ASSUME ListAssumption ==
    /\ Key \in [Data -> Nat]
    /\ NoData \notin Data /\ Null \notin Elems

VARIABLES
    mem,      \* the allocated elements
    head,
    tail,
    cursor,   \* curr of the foreachWhile that goes on, else Null
    answer    \* what the last operation returned

vars == <<mem, head, tail, cursor, answer>>

Init ==
    /\ mem = <<>>
    /\ head = Null /\ tail = Null /\ cursor = Null
    /\ answer = NoData

-----------------------------------------------------------------------------
\* The elements from e on, in order, in memory m.
RECURSIVE Chain(_, _)
Chain(m, e) == IF e = Null THEN <<>> ELSE <<e>> \o Chain(m, m[e].next)

DataOf(m, elems) == [i \in DOMAIN elems |-> m[elems[i]].data]

Elem(d, next) == [data |-> d, next |-> next]
With(m, e, elem) == [x \in DOMAIN m \cup {e} |-> IF x = e THEN elem ELSE m[x]]
Linked(m, e, next) == IF e = Null THEN m ELSE [m EXCEPT ![e].next = next]
Kmfree(m, e) == [x \in DOMAIN m \ {e} |-> m[x]]

\* The element before e in the list, or Null.
Before(e) ==
    LET c == Chain(mem, head) IN
    IF e = head THEN Null
    ELSE c[CHOOSE i \in DOMAIN c : i < Len(c) /\ c[i + 1] = e]

\* The first element of the list that is in elems, or Null.
FirstElem(elems) ==
    LET c == Chain(mem, head)
        found == {i \in DOMAIN c : c[i] \in elems}
    IN  IF found = {} THEN Null ELSE c[Min(found)]

-----------------------------------------------------------------------------
\* An operation that allocates: the heap may give any free address.
New(e) ==
    /\ cursor = Null
    /\ e \in Elems \ DOMAIN mem
    /\ UNCHANGED <<cursor, answer>>

AddFirst(e, d) ==
    /\ New(e)
    /\ mem' = With(mem, e, Elem(d, head))
    /\ head' = e
    /\ tail' = IF tail = Null THEN e ELSE tail

AddLast(e, d) ==
    /\ New(e)
    /\ mem' = With(Linked(mem, tail, e), e, Elem(d, Null))
    /\ head' = IF tail = Null THEN e ELSE head
    /\ tail' = e

SortedPlace_After(d) == FirstElem({x \in DOMAIN mem : Key[mem[x].data] > Key[d]})  \* mutant

\* insert_sorted walks on while cmp(curr->data, data).
SortedPlace(d) == FirstElem({x \in DOMAIN mem : ~(Key[mem[x].data] < Key[d])})

InsertElem(e, d) ==
    LET curr == SortedPlace(d)
        prev == IF curr = Null THEN tail ELSE Before(curr)
    IN  /\ New(e)
        /\ mem' = With(Linked(mem, prev, e), e, Elem(d, curr))
        /\ head' = IF prev = Null THEN e ELSE head
        /\ tail' = IF curr = Null THEN e ELSE tail

Answer(a) ==
    /\ cursor = Null
    /\ answer' = a
    /\ UNCHANGED cursor

RemoveFirstElem ==
    /\ head # Null
    /\ Answer(mem[head].data)
    /\ mem' = Kmfree(mem, head)
    /\ head' = mem[head].next
    /\ tail' = IF head' = Null THEN Null ELSE tail

RemoveLastElem ==
    /\ head # Null
    /\ Answer(mem[tail].data)
    /\ mem' = Kmfree(Linked(mem, Before(tail), Null), tail)
    /\ head' = IF Before(tail) = Null THEN Null ELSE head
    /\ tail' = Before(tail)

\* removeFirst, removeLast, peekFirst and peekLast of an empty list.
NothingThere ==
    /\ head = Null
    /\ Answer(NoData)
    /\ UNCHANGED <<mem, head, tail>>

Peek ==
    /\ head # Null
    /\ \/ Answer(mem[head].data)
       \/ Answer(mem[tail].data)
    /\ UNCHANGED <<mem, head, tail>>

\* removeSpec of an element: also what a callback of foreachWhile does.
Unlink_KeepTail(curr) ==
    /\ mem' = Kmfree(Linked(mem, Before(curr), mem[curr].next), curr)  \* mutant
    /\ head' = IF curr = head THEN mem[curr].next ELSE head
    /\ tail' = tail

Unlink(curr) ==
    /\ mem' = Kmfree(Linked(mem, Before(curr), mem[curr].next), curr)
    /\ head' = IF curr = head THEN mem[curr].next ELSE head
    /\ tail' = IF curr = tail THEN Before(curr) ELSE tail

RemoveData(d) ==
    LET curr == FirstElem({x \in DOMAIN mem : mem[x].data = d}) IN
    IF curr = Null THEN UNCHANGED <<mem, head, tail>> ELSE Unlink(curr)

RemoveSpecElem(d) ==
    /\ Answer(FirstElem({x \in DOMAIN mem : mem[x].data = d}) # Null)
    /\ RemoveData(d)

-----------------------------------------------------------------------------
\* sort: merge sort on the links.
RECURSIVE GetMiddle(_, _, _)
GetMiddle(m, slow, fast) ==
    IF fast = Null \/ m[fast].next = Null THEN slow
    ELSE GetMiddle(m, m[slow].next, m[m[fast].next].next)

\* merge: the merged list's first element and the memory after it.
RECURSIVE Merge(_, _, _)
Merge(m, left, right) ==
    IF left = Null THEN [first |-> right, m |-> m]
    ELSE IF right = Null THEN [first |-> left, m |-> m]
    ELSE LET leftFirst == Key[m[left].data] < Key[m[right].data]
             result == IF leftFirst THEN left ELSE right
             rest == IF leftFirst THEN Merge(m, m[left].next, right)
                     ELSE Merge(m, left, m[right].next)
         IN  [first |-> result, m |-> Linked(rest.m, result, rest.first)]

RECURSIVE MergeSort(_, _)
MergeSort(m, first) ==
    IF first = Null \/ m[first].next = Null THEN [first |-> first, m |-> m]
    ELSE LET middle == GetMiddle(m, first, m[first].next)
             left == MergeSort(Linked(m, middle, Null), first)
             right == MergeSort(left.m, m[middle].next)
         IN  Merge(right.m, left.first, right.first)

Sort ==
    LET sorted == MergeSort(mem, head) IN
    /\ head # Null /\ mem[head].next # Null
    /\ cursor = Null
    /\ mem' = sorted.m
    /\ head' = sorted.first
    /\ tail' = Last(Chain(mem', head'))
    /\ UNCHANGED <<cursor, answer>>

-----------------------------------------------------------------------------
\* foreachWhile, and foreach with a callback that leaves the list alone.
ForeachWhile ==
    /\ cursor = Null
    /\ cursor' = head
    /\ UNCHANGED <<mem, head, tail, answer>>

\* curr has moved on when the callback runs.
CallbackCursor == mem[cursor].next

Callback ==
    /\ cursor # Null
    /\ \/ RemoveData(mem[cursor].data)
       \/ UNCHANGED <<mem, head, tail>>
    /\ cursor' = CallbackCursor
    /\ answer' = mem[cursor].data

ConditionFails ==
    /\ cursor # Null
    /\ cursor' = Null
    /\ UNCHANGED <<mem, head, tail, answer>>

-----------------------------------------------------------------------------
Next ==
    \/ \E d \in Data :
           \/ \E e \in Elems : AddFirst(e, d) \/ AddLast(e, d) \/ InsertElem(e, d)
           \/ RemoveSpecElem(d)
    \/ RemoveFirstElem \/ RemoveLastElem \/ NothingThere \/ Peek \/ Sort
    \/ ForeachWhile \/ Callback \/ ConditionFails

Spec == Init /\ [][Next]_vars
-----------------------------------------------------------------------------
\* The elements from head on are exactly the allocated ones, each once, the
\* last of them is tail, and an empty list has neither head nor tail: no
\* element is lost, shared or linked in a circle, and every one was given data.
\* A foreachWhile stands at one of them, though its callback may have removed
\* and freed the element it was called for.  (removeSpec, removeLast, sort and
\* foreachWhile of h/_list.hpp.)
IsChain ==
    /\ cursor \in DOMAIN mem \cup {Null}
    /\ \E elems \in SetToSeqs(DOMAIN mem) :
           /\ mem \in [DOMAIN mem -> [data : Data, next : DOMAIN mem \cup {Null}]]
           /\ head = IF elems = <<>> THEN Null ELSE elems[1]
           /\ tail = IF elems = <<>> THEN Null ELSE Last(elems)
           /\ \A i \in DOMAIN elems :
                  mem[elems[i]].next = IF i = Len(elems) THEN Null ELSE elems[i + 1]

\* The list behaves as a sequence: its operations are those of AbstractList,
\* sort gives a sorted permutation, and foreachWhile visits the elements that
\* were in the list when it began, each once and in order.
ListAsSequence == INSTANCE AbstractList WITH
    list <- DataOf(mem, Chain(mem, head)),
    todo <- DataOf(mem, Chain(mem, cursor))

ImplementsList == ListAsSequence!AbsSpec
=============================================================================
