---------------------------- MODULE AbstractList ----------------------------
(***************************************************************************)
(* What the kernel relies on in a _list<T>: a sequence of data pointers.   *)
(* Its operations are those the other modules use on their sequences, so   *)
(* that LinkedList, which implements this module, justifies them.          *)
(***************************************************************************)
EXTENDS KernelLists

CONSTANTS
    Data,    \* the pointers a list may hold
    Key,     \* what the comparison given to the list compares
    NoData   \* nullptr

VARIABLES
    list,    \* the data, in order
    todo,    \* what the foreachWhile that goes on has still to visit
    answer   \* what the last operation returned

absVars == <<list, todo, answer>>

\* The list may be used while a foreachWhile goes on only by its callback.
Set(l, a) == todo = <<>> /\ list' = l /\ answer' = a /\ todo' = todo

Sorted(l) == \A i, j \in DOMAIN l : i < j => Key[l[i]] <= Key[l[j]]

Reorderings(l) ==
    {[i \in DOMAIN l |-> l[p[i]]] :
        p \in {f \in [DOMAIN l -> DOMAIN l] : IsInjective(f)}}

Walk ==
    /\ todo = <<>>
    /\ todo' = list
    /\ UNCHANGED <<list, answer>>

\* One call of the callback, which may remove the element it is called for;
\* or the condition fails.
Visit ==
    /\ todo # <<>>
    /\ \/ /\ todo' = Tail(todo)
          /\ list' \in {list, RemoveSpec(list, Head(todo))}
          /\ answer' = Head(todo)
       \/ todo' = <<>> /\ UNCHANGED <<list, answer>>

AbsInit == list = <<>> /\ todo = <<>> /\ answer = NoData

AbsNext ==
    \/ \E d \in Data :
           \/ Set(<<d>> \o list, answer)
           \/ Set(Append(list, d), answer)
           \/ Set(InsertSorted(list, d, Key), answer)
           \/ Set(RemoveSpec(list, d), d \in ToSet(list))
    \/ IF list = <<>>
       THEN Set(list, NoData)
       ELSE \/ Set(Tail(list), Head(list)) \/ Set(Front(list), Last(list))
            \/ Set(list, Head(list)) \/ Set(list, Last(list))
    \/ \E l \in {m \in Reorderings(list) : Sorted(m)} : Set(l, answer)
    \/ Walk
    \/ Visit

AbsSpec == AbsInit /\ [][AbsNext]_absVars
=============================================================================
