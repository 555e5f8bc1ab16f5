---------------------------- MODULE KernelLists ----------------------------
(***************************************************************************)
(* The kernel's _list<T> (h/_list.hpp), a singly linked list with a head   *)
(* and a tail pointer, as a sequence of its data pointers.  addLast is     *)
(* Append, removeFirst is Head and Tail; the two operations that walk the  *)
(* list are defined here.  Nothing of a list but the order of its data is  *)
(* read by the kernel.                                                     *)
(***************************************************************************)
EXTENDS Integers, SequencesExt

\* The position of the first element of list that is t.
PlaceOf(list, t) == Min({i \in DOMAIN list : list[i] = t})

\* removeSpec: unlinks the first element that is t, if there is one.
RemoveSpec(list, t) ==
    IF t \in ToSet(list) THEN RemoveAt(list, PlaceOf(list, t)) ELSE list

\* insert_sorted with the comparison _time::smallerSleepTime: the element
\* goes before the first one whose key is not smaller than its own.
SortedPlace_Last(list, t, key) == Len(list) + 1  \* mutant

SortedPlace(list, t, key) ==
    Min({i \in 1..Len(list) + 1 : i <= Len(list) => key[list[i]] >= key[t]})

InsertSorted(list, t, key) == InsertAt(list, SortedPlace(list, t, key), t)
=============================================================================
