-------------------------- MODULE KernelProperties --------------------------
(***************************************************************************)
(* What the kernel core promises.                                          *)
(***************************************************************************)
EXTENDS Kernel

Ready == ToSet(readyQueue)
Sleeping == ToSet(asleep)
BlockedOn(s) == ToSet(queueBlocked[s])
Blocked == UNION {BlockedOn(s) : s \in Sems}

\* The thread that has the processor, when one has: inside dispatch() the
\* old thread has already been put where it belongs.
HasProcessor(t) == t = running /\ phase # "dispatch"

-----------------------------------------------------------------------------
\* Every variable keeps the type of the code's field (TimeMod, CountMod and
\* the bounds stand for the widths).
TypeOK ==
    /\ running \in Threads
    /\ valid \subseteq Threads
    /\ threadState \in [Threads -> States]
    /\ readyQueue \in Seq(Threads)
    /\ cpuTime \in Nat
    /\ phase \in Phases
    /\ inCall \in [Threads -> Handlers]
    /\ sysTime \in 0..MaxTime
    /\ asleep \in Seq(Threads)
    /\ timeForWakingUp \in [Threads -> 0..TimeMod - 1]
    /\ cursor \in Nat \ {0}
    /\ numOfThreadsAsleep \in Int
    /\ due \in [Threads -> Nat]
    /\ semStatus \in [Threads -> Statuses]
    /\ mySem \in [Threads -> Sems \cup {NoSem}]
    /\ onSem \in [Threads -> Sems \cup {NoSem}]
    /\ open \subseteq Sems
    /\ val \in [Sems -> Int]
    /\ queueBlocked \in [Sems -> Seq(Threads)]
    /\ numOfTimedWaiting \in [Sems -> 0..CountMod - 1]
    /\ closing \in Sems \cup {NoSem}
    /\ finished \in BOOLEAN
    /\ idlePc \in {"start", "loop"}
    /\ mainPc \in {"loop", "killed"}

\* No live thread is lost or duplicated by a syscall, a wakeup, a timeout or a
\* deletion: it has the processor, or is in the ready queue once, or waits.
OnePlace ==
    /\ IsInjective(readyQueue)
    /\ IsInjective(asleep)
    /\ \A s \in Sems : IsInjective(queueBlocked[s])
    /\ \A s1, s2 \in Sems : s1 # s2 => BlockedOn(s1) \cap BlockedOn(s2) = {}
    /\ Ready \cup Sleeping \cup Blocked \subseteq valid
    /\ Ready \cap (Sleeping \cup Blocked) = {}
    /\ phase # "dispatch" => running \in valid \ (Ready \cup Sleeping \cup Blocked)
    /\ \A t \in valid : HasProcessor(t) \/ t \in Ready \cup Sleeping \cup Blocked

\* What a control block says of its wait agrees with the lists: the timer
\* finds the semaphore of every timed waiter, unblock() knows who is asleep,
\* and no control block points to a semaphore that was freed.
BlockedAgrees ==
    \A t \in Threads :
        /\ mySem[t] # NoSem => mySem[t] \in open /\ t \in BlockedOn(mySem[t])
        /\ t \in Blocked => mySem[t] # NoSem
        /\ t \in Blocked \ Sleeping <=> semStatus[t] = "WAITING"
        /\ t \in Blocked \cap Sleeping <=> semStatus[t] = "TIMEDWAITING"

\* A negative val is the number of threads in the queue of the semaphore,
\* timed or not, through signals, timeouts and a close; else nobody waits.
ValCountsWaiters ==
    \A s \in open :
        Len(queueBlocked[s]) = IF val[s] < 0 THEN -val[s] ELSE 0

\* Even when tryWait() takes units it never had, no thread stays in the queue
\* of a semaphore that has a unit for it.
NobodyForgotten ==
    \A s \in open : Len(queueBlocked[s]) <= IF val[s] < 0 THEN -val[s] ELSE 0

\* The kernel never reads through a null pointer: not in unblock() on an
\* empty queue, not in dispatch() when nobody is left to run.
NoFault ==
    /\ phase # "fault"
    /\ phase = "dispatch" => \E i \in DOMAIN readyQueue : ~ThreadDead(readyQueue[i])

\* The list of sleepers is ordered, so that the timer may stop at the first
\* one that is not due: it leaves no sleeper behind that is.  So nobody sleeps
\* on when the time it asked for is past; only one that asked for no time at
\* all, in sem_timedwait, is due before the timer comes.
SleepersInOrder ==
    /\ \A i, j \in DOMAIN asleep :
           i < j => timeForWakingUp[asleep[i]] <= timeForWakingUp[asleep[j]]
    /\ phase = "wake" /\ ~SleeperIsDue => \A t \in Sleeping : ~ShouldWakeUp(t)
    /\ phase # "wake" => \A t \in Sleeping : due[t] >= sysTime

\* A thread with the processor is RUNNING or READY, or else the next dispatch()
\* would put it nowhere: its state was left SUSPENDED by the call it slept in.
RunningCanBePut ==
    phase \in {"user", "wake", "close"} => ReadyToRun(threadState[running])

\* A thread leaves a wait with the answer of who woke it: never with the
\* answers for errors, and with TIMEOUT only from a timed wait.
WaitIsAnswered ==
    \A t \in Ready :
        /\ inCall[t] \in {"block", "timedBlock"} =>
               WaitAnswer(semStatus[t]) \in {"SEM_OKAYWAITED", "SEM_DEAD", "SEM_TIMEOUT"}
        /\ semStatus[t] = "TIMEOUT" => inCall[t] = "timedBlock"

\* A sleep ends, and a timed wait times out, no earlier than the time asked
\* for after the call.
NoEarlyWake ==
    \A t \in Ready :
        inCall[t] = "sleep" \/ semStatus[t] = "TIMEOUT" => sysTime >= due[t]

\* When main() stops the machine, the putter and the getter are deleted.
ServicesGone == MainRuns /\ mainPc = "killed" => valid \cap Services = {}

-----------------------------------------------------------------------------
\* What OnePlace and BlockedAgrees rest on: only programs wait, only the
\* services are finished while their control block is still there, and a
\* semaphore is allocated until its close ends.
Roles ==
    /\ Sleeping \cup Blocked \subseteq Programs
    /\ \A t \in valid : threadState[t] = "FINISHED" => t \in Services
    /\ Main \in valid
    /\ phase = "close" => closing \in open

\* The inductive invariant of the kernel core, whatever calls are made.
KernelInv ==
    /\ TypeOK
    /\ OnePlace
    /\ BlockedAgrees
    /\ NobodyForgotten
    /\ RunningCanBePut
    /\ Roles

-----------------------------------------------------------------------------
Stopped == phase \in {"halted", "fault"}

\* A ready thread gets the processor, unless it is killed or main() stops the
\* machine first: nobody starves, whatever the programs do.
ReadyRuns ==
    \A t \in Threads : t \in Ready ~> (running = t \/ t \notin valid \/ Stopped)

\* A thread that sleeps, or that waits with a time limit, goes on.
SleeperReturns ==
    \A t \in Threads :
        inCall[t] \in {"sleep", "timedBlock"} ~> (inCall[t] = "none" \/ Stopped)

\* Once main() has killed the services, the machine stops (by a fault only if
\* a program has brought one about with sem_trywait).
ShutdownEnds == mainPc = "killed" ~> Stopped
-----------------------------------------------------------------------------
\* The kernel's semaphores as AbstractSemaphores sees them.  A close is one
\* step for programs: it is over for all waiters when its first loop begins.
BeingClosed(s) == phase = "close" /\ s = closing

Usable == {s \in open : ~BeingClosed(s)}

UnitsOf(s) == IF s \in Usable /\ val[s] > 0 THEN val[s] ELSE 0

WaitersOf(s) == IF s \in Usable THEN queueBlocked[s] ELSE <<>>

VerdictOf(t) ==
    CASE semStatus[t] = "NON_WAITING" -> "none"
      [] semStatus[t] = "REGULARLY_WAITED" -> "acquired"
      [] semStatus[t] = "TIMEOUT" -> "timeout"
      [] semStatus[t] = "SEM_DELETED" -> "dead"
      [] OTHER -> IF mySem[t] \notin Usable THEN "dead"
                  ELSE IF semStatus[t] = "WAITING" THEN "waiting" ELSE "timedWaiting"

Abstract == INSTANCE AbstractSemaphores WITH
    usable <- Usable,
    units <- [s \in Sems |-> UnitsOf(s)],
    waiters <- [s \in Sems |-> WaitersOf(s)],
    verdict <- [t \in Threads |-> VerdictOf(t)]

\* The semaphores do what AbstractSemaphores promises: units are neither lost
\* nor made, waiters are served first come first served, a timeout takes
\* exactly the thread whose time is over, a close answers every waiter.
ImplementsSemaphores == Abstract!AbsSpec
=============================================================================
