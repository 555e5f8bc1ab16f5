------------------------- MODULE AbstractSemaphores -------------------------
(***************************************************************************)
(* What programs may rely on in the semaphores of the kernel (the comments *)
(* of h/_sem.hpp and the documentation of the calls): units that are taken *)
(* and given back, waiters served in the order of their arrival, and for   *)
(* every wait that blocked exactly one verdict.  Each call is one step:    *)
(* there is no list of sleepers, no loop and no negative count.            *)
(***************************************************************************)
EXTENDS Integers, SequencesExt

CONSTANTS Threads, Sems

VARIABLES
    usable,   \* the semaphores that are open
    units,    \* the units each of them holds
    waiters,  \* the threads that wait on each, in order of arrival
    verdict   \* what is known of each thread's wait

absVars == <<usable, units, waiters, verdict>>

Waiting == {"waiting", "timedWaiting"}
Verdicts == {"acquired", "dead", "timeout"}

AbsInit ==
    /\ usable = {}
    /\ units = [s \in Sems |-> 0]
    /\ waiters = [s \in Sems |-> <<>>]
    /\ verdict = [t \in Threads |-> "none"]

Open(s) ==
    /\ s \notin usable
    /\ usable' = usable \cup {s}
    /\ units' = [units EXCEPT ![s] = units'[s]]
    /\ units'[s] \in Nat
    /\ UNCHANGED <<waiters, verdict>>

Acquire(s) ==
    /\ s \in usable
    /\ units[s] > 0
    /\ units' = [units EXCEPT ![s] = @ - 1]
    /\ UNCHANGED <<usable, waiters, verdict>>

Enqueue(s, t, kind) ==
    /\ s \in usable
    /\ units[s] = 0
    /\ verdict[t] = "none"
    /\ waiters' = [waiters EXCEPT ![s] = Append(@, t)]
    /\ verdict' = [verdict EXCEPT ![t] = kind]
    /\ UNCHANGED <<usable, units>>

\* A unit given back goes to the thread that waits longest, if any does.
Release(s) ==
    /\ s \in usable
    /\ IF waiters[s] = <<>>
       THEN /\ units' = [units EXCEPT ![s] = @ + 1]
            /\ UNCHANGED <<waiters, verdict>>
       ELSE /\ waiters' = [waiters EXCEPT ![s] = Tail(@)]
            /\ verdict' = [verdict EXCEPT ![Head(waiters[s])] = "acquired"]
            /\ UNCHANGED units
    /\ UNCHANGED usable

\* A timed waiter may leave from anywhere in the queue.
TimeOut(s, i) ==
    /\ verdict[waiters[s][i]] = "timedWaiting"
    /\ waiters' = [waiters EXCEPT ![s] = RemoveAt(@, i)]
    /\ verdict' = [verdict EXCEPT ![waiters[s][i]] = "timeout"]
    /\ UNCHANGED <<usable, units>>

\* Closing a semaphore releases all its waiters at once.
Close(s) ==
    /\ s \in usable
    /\ usable' = usable \ {s}
    /\ units' = [units EXCEPT ![s] = 0]
    /\ waiters' = [waiters EXCEPT ![s] = <<>>]
    /\ verdict' = [t \in Threads |->
                      IF t \in ToSet(waiters[s]) THEN "dead" ELSE verdict[t]]

Return(t) ==
    /\ verdict[t] \in Verdicts
    /\ verdict' = [verdict EXCEPT ![t] = "none"]
    /\ UNCHANGED <<usable, units, waiters>>

AbsNext ==
    \/ \E s \in Sems :
           \/ Open(s) \/ Acquire(s) \/ Release(s) \/ Close(s)
           \/ \E t \in Threads, kind \in Waiting : Enqueue(s, t, kind)
           \/ \E i \in DOMAIN waiters[s] : TimeOut(s, i)
    \/ \E t \in Threads : Return(t)

AbsSpec == AbsInit /\ [][AbsNext]_absVars
=============================================================================
