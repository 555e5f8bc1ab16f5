----------------------------- MODULE Semaphores -----------------------------
(***************************************************************************)
(* The semaphores of the kernel: h/ and src/ _sem and the sem_ calls.      *)
(* A call acts on an open semaphore (a program that passes a closed handle *)
(* uses freed memory) and is made by the running thread.  val is a signed  *)
(* 64-bit integer; MaxDebt and MaxVal bound it in the model.                *)
(***************************************************************************)
EXTENDS SleepTime

CONSTANTS
    Sems,       \* the memory slots a semaphore can be allocated in
    NoSem,      \* nullptr
    InitVals,   \* values that programs open a semaphore with
    MaxDebt,    \* bound of the model: val does not go below -MaxDebt
    MaxVal,     \* bound of the model: val does not go above MaxVal
    CountMod    \* numOfTimedWaiting is unsigned: it counts modulo CountMod

ASSUME SemaphoresAssumption ==
    /\ NoSem \notin Sems
    /\ MaxDebt \in Nat /\ MaxVal \in Nat
    /\ InitVals \subseteq 0..MaxVal
    /\ CountMod \in Nat \ {0}

VARIABLES
    semStatus,          \* of each control block
    mySem,              \* the semaphore a control block is blocked on
    onSem,              \* `this' of the block() or timedBlock() a thread is in
    open,               \* the semaphores that are allocated
    val,                \* of each semaphore, like the next two
    queueBlocked,
    numOfTimedWaiting,
    closing             \* `this' of the ~_sem() in progress

semVars == <<semStatus, mySem, onSem, open, val, queueBlocked,
             numOfTimedWaiting, closing>>

Statuses == {"NON_WAITING", "WAITING", "TIMEDWAITING", "REGULARLY_WAITED",
             "TIMEOUT", "SEM_DELETED"}
Answers == {"SEM_DIDNTWAIT", "SEM_OKAYWAITED", "SEM_DEAD", "SEM_TIMEOUT",
            "SEM_ERROR"}

SemaphoresInit ==
    /\ semStatus = [t \in Threads |-> "NON_WAITING"]
    /\ mySem = [t \in Threads |-> NoSem]
    /\ onSem = [t \in Threads |-> NoSem]
    /\ open = {}
    /\ val = [s \in Sems |-> 0]
    /\ queueBlocked = [s \in Sems |-> <<>>]
    /\ numOfTimedWaiting = [s \in Sems |-> 0]
    /\ closing = NoSem

-----------------------------------------------------------------------------
\* set_threadsSemStatus also sets the state of a live thread: a thread that
\* begins to wait is SUSPENDED, one that ends is RUNNING or READY.
StateOfStatus(t, status) ==
    IF status \in {"WAITING", "TIMEDWAITING"} THEN "SUSPENDED"
    ELSE IF t = running THEN "RUNNING" ELSE "READY"

WithStatus(t, status) ==
    IF IsFinished(t) THEN semStatus ELSE [semStatus EXCEPT ![t] = status]

WithState(t, status) ==
    IF IsFinished(t) THEN threadState
    ELSE [threadState EXCEPT ![t] = StateOfStatus(t, status)]

SemOpen(s, n) ==
    /\ s \notin open
    /\ open' = open \cup {s}
    /\ val' = [val EXCEPT ![s] = n]
    /\ queueBlocked' = [queueBlocked EXCEPT ![s] = <<>>]
    /\ numOfTimedWaiting' = [numOfTimedWaiting EXCEPT ![s] = 0]
    /\ UNCHANGED <<semStatus, mySem, onSem, closing>>
    /\ UNCHANGED threadVars
    /\ UNCHANGED timeVars

-----------------------------------------------------------------------------
\* wait() and timedWait() first take a unit, and block when there was none.
WaitWouldBlock(s) == val[s] - 1 < 0

TakeUnit(s) ==
    /\ s \in open
    /\ ~WaitWouldBlock(s)
    /\ val' = [val EXCEPT ![s] = @ - 1]
    /\ UNCHANGED <<semStatus, mySem, onSem, open, queueBlocked>>
    /\ UNCHANGED <<numOfTimedWaiting, closing>>
    /\ UNCHANGED threadVars
    /\ UNCHANGED timeVars

\* What block() and timedBlock() have in common, up to their dispatch.
EnterQueue(s, status) ==
    /\ s \in open
    /\ WaitWouldBlock(s)
    /\ val[s] > -MaxDebt
    /\ val' = [val EXCEPT ![s] = @ - 1]
    /\ queueBlocked' = [queueBlocked EXCEPT ![s] = Append(@, running)]
    /\ semStatus' = WithStatus(running, status)
    /\ mySem' = [mySem EXCEPT ![running] = s]
    /\ onSem' = [onSem EXCEPT ![running] = s]
    /\ BeginDispatch(WithState(running, status), readyQueue)
    /\ UNCHANGED <<open, closing>>

Block(s) ==
    /\ EnterQueue(s, "WAITING")
    /\ inCall' = [inCall EXCEPT ![running] = "block"]
    /\ UNCHANGED numOfTimedWaiting
    /\ UNCHANGED timeVars

\* A delay of 0 is not filtered: the thread is in the list of sleepers, due,
\* until the next interrupt of the timer.
TimedBlock(s, delay) ==
    LET wakeUp == [timeForWakingUp EXCEPT ![running] = WakeUpTime(delay)]
    IN  /\ wakeUp[running] <= MaxTime
        /\ EnterQueue(s, "TIMEDWAITING")
        /\ inCall' = [inCall EXCEPT ![running] = "timedBlock"]
        /\ timeForWakingUp' = wakeUp
        /\ due' = [due EXCEPT ![running] = sysTime + delay]
        /\ asleep' = InsertSorted(asleep, running, wakeUp)
        /\ numOfTimedWaiting' =
               [numOfTimedWaiting EXCEPT ![s] = (@ + 1) % CountMod]
        /\ UNCHANGED <<sysTime, cursor, numOfThreadsAsleep>>

\* tryWait() keeps the unit whatever it answers.  The answer is not kept here:
\* programs do what they like after it.
TryWait(s) ==
    /\ s \in open
    /\ val[s] > -MaxDebt
    /\ val' = [val EXCEPT ![s] = @ - 1]
    /\ UNCHANGED <<semStatus, mySem, onSem, open, queueBlocked>>
    /\ UNCHANGED <<numOfTimedWaiting, closing>>
    /\ UNCHANGED threadVars
    /\ UNCHANGED timeVars

-----------------------------------------------------------------------------
\* A timed waiter that is unblocked leaves the list of sleepers too.
SleepersAfterUnblock_Same(t) == asleep  \* mutant

SleepersAfterUnblock(t) ==
    IF semStatus[t] = "TIMEDWAITING" THEN RemoveSpec(asleep, t) ELSE asleep

\* unblock() on a semaphore with a waiter: the first one is made ready.
UnblockFirst(s, cause) ==
    LET t == Head(queueBlocked[s])
    IN  /\ queueBlocked' = [queueBlocked EXCEPT ![s] = Tail(@)]
        /\ asleep' = SleepersAfterUnblock(t)
        /\ mySem' = [mySem EXCEPT ![t] = NoSem]
        /\ semStatus' = WithStatus(t, cause)
        /\ threadState' = WithState(t, cause)
        /\ readyQueue' = Put(readyQueue, t)

\* unblock() on an empty queue reads through a null pointer.
NullUnblock(s) ==
    /\ queueBlocked[s] = <<>>
    /\ phase' = "fault"
    /\ UNCHANGED <<semStatus, mySem, queueBlocked>>
    /\ UNCHANGED <<asleep, threadState, readyQueue>>

\* signal() gives the unit back and wakes a waiter unless val is positive.
SignalWakes_OldVal(n) == n <= 0  \* mutant
SignalWakes_Negative(n) == n + 1 < 0  \* mutant

SignalWakes(n) == n + 1 <= 0

SemSignal(s) ==
    /\ s \in open
    /\ val[s] < MaxVal
    /\ val' = [val EXCEPT ![s] = @ + 1]
    /\ IF ~SignalWakes(val[s])
       THEN /\ UNCHANGED <<semStatus, mySem, queueBlocked>>
            /\ UNCHANGED <<asleep, threadState, readyQueue, phase>>
       ELSE \/ NullUnblock(s)
            \/ /\ queueBlocked[s] # <<>>
               /\ UnblockFirst(s, "REGULARLY_WAITED")
               /\ UNCHANGED phase
    /\ UNCHANGED <<onSem, open, numOfTimedWaiting, closing>>
    /\ UNCHANGED <<running, valid, cpuTime, inCall>>
    /\ UNCHANGED <<sysTime, timeForWakingUp, cursor, numOfThreadsAsleep, due>>

\* sem_close: ~_sem() unblocks while val is negative, then the semaphore's
\* memory is freed.
SemClose(s) ==
    /\ s \in open
    /\ closing' = s
    /\ phase' = "close"
    /\ UNCHANGED <<semStatus, mySem, onSem, open, val, queueBlocked>>
    /\ UNCHANGED numOfTimedWaiting
    /\ UNCHANGED <<running, valid, threadState, readyQueue, cpuTime, inCall>>
    /\ UNCHANGED timeVars

UnblockAllStep ==
    /\ phase = "close"
    /\ val[closing] < 0
    /\ \/ /\ NullUnblock(closing)
          /\ UNCHANGED val
       \/ /\ queueBlocked[closing] # <<>>
          /\ UnblockFirst(closing, "SEM_DELETED")
          /\ val' = [val EXCEPT ![closing] = @ + 1]
          /\ UNCHANGED phase
    /\ UNCHANGED <<onSem, open, numOfTimedWaiting, closing>>
    /\ UNCHANGED <<running, valid, cpuTime, inCall>>
    /\ UNCHANGED <<sysTime, timeForWakingUp, cursor, numOfThreadsAsleep, due>>

EndSemClose ==
    /\ phase = "close"
    /\ val[closing] >= 0
    /\ open' = open \ {closing}
    /\ closing' = NoSem
    /\ phase' = "user"
    /\ UNCHANGED <<semStatus, mySem, onSem, val, queueBlocked>>
    /\ UNCHANGED numOfTimedWaiting
    /\ UNCHANGED <<running, valid, threadState, readyQueue, cpuTime, inCall>>
    /\ UNCHANGED timeVars

-----------------------------------------------------------------------------
\* unblockedByTime(), called by the timer for a sleeper in timedWait.
\* It takes the thread out of the queue wherever it is, and gives its unit
\* back, because val was decreased when it began to wait.
ValAfterTimeout_Same(s) == val  \* mutant

ValAfterTimeout(s) == [val EXCEPT ![s] = @ + 1]

QueueAfterTimeout_Same(s, t) == queueBlocked[s]  \* mutant
QueueAfterTimeout_First(s, t) == Tail(queueBlocked[s])  \* mutant

QueueAfterTimeout(s, t) == RemoveSpec(queueBlocked[s], t)

UnblockByTime(s, t) ==
    /\ val' = ValAfterTimeout(s)
    /\ asleep' = RemoveSpec(asleep, t)
    /\ queueBlocked' = [queueBlocked EXCEPT ![s] = QueueAfterTimeout(s, t)]
    /\ mySem' = [mySem EXCEPT ![t] = NoSem]
    /\ semStatus' = WithStatus(t, "TIMEOUT")
    /\ threadState' = WithState(t, "TIMEOUT")
    /\ readyQueue' = Put(readyQueue, t)

\* The answer of a wait that blocked, from the status left by its waker.
WaitAnswer(status) ==
    CASE status = "NON_WAITING" -> "SEM_DIDNTWAIT"
      [] status \in {"WAITING", "TIMEDWAITING"} -> "SEM_ERROR"
      [] status = "SEM_DELETED" -> "SEM_DEAD"
      [] status = "REGULARLY_WAITED" -> "SEM_OKAYWAITED"
      [] status = "TIMEOUT" -> "SEM_TIMEOUT"
=============================================================================
