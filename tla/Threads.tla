------------------------------ MODULE Threads ------------------------------
(***************************************************************************)
(* Thread control blocks, the scheduler and the context switch: h/ and     *)
(* src/ _thread, _scheduler, _context.                                     *)
(*                                                                         *)
(* Trap handlers run with interrupts masked, so a handler is one step,     *)
(* except that a loop inside a handler takes one step per iteration:       *)
(* phase names the loop the kernel is in, and it is "user" when a thread's *)
(* own code runs.  A thread that called dispatch() inside a handler is     *)
(* suspended in the middle of it; inCall[t] names the statement sequence   *)
(* it still has to run when it is switched to.                             *)
(***************************************************************************)
EXTENDS KernelLists, FiniteSets

CONSTANTS
    Main,       \* main(): the boot thread, in supervisor mode
    Idle,       \* idleThread, whose end main waits for
    UserMain,   \* funcWrapper: the thread idleThread makes
    Workers,    \* control blocks for the threads that programs create
    Services,   \* the putter and the getter of the console
    BootOrder,  \* the order in which main() creates Services and Idle
    TIME_SLICE  \* DEFAULT_TIME_SLICE, in timer ticks

Programs == {UserMain} \cup Workers
Threads == {Main, Idle} \cup Programs \cup Services

ASSUME ThreadsAssumption ==
    /\ Main \notin {Idle} \cup Programs \cup Services
    /\ Idle \notin Programs \cup Services
    /\ UserMain \notin Workers
    /\ Programs \cap Services = {}
    /\ BootOrder \in Seq(Services \cup {Idle})
    /\ IsInjective(BootOrder)
    /\ ToSet(BootOrder) = Services \cup {Idle}
    /\ TIME_SLICE \in Nat \ {0}

VARIABLES
    running,      \* _thread::running
    valid,        \* the threads whose magic number is intact
    threadState,  \* threadState of each control block
    readyQueue,   \* Scheduler::queueThreads
    cpuTime,      \* _time::runningThread_CPU_time
    phase,        \* which part of the kernel, or user code, is running
    inCall        \* the handler each thread was switched away in

threadVars == <<running, valid, threadState, readyQueue, cpuTime, phase, inCall>>

Phases == {"user", "wake", "close", "dispatch", "halted", "fault"}
States == {"RUNNING", "READY", "SUSPENDED", "FINISHED"}
Handlers == {"none", "sleep", "block", "timedBlock"}

ThreadsInit ==
    /\ running = Main
    /\ valid = {Main, Idle} \cup Services
    /\ threadState = [t \in Threads |-> IF t = Main THEN "RUNNING" ELSE "READY"]
    /\ readyQueue = BootOrder
    /\ cpuTime = 0
    /\ phase = "user"
    /\ inCall = [t \in Threads |-> "none"]

-----------------------------------------------------------------------------
ReadyToRun(state) == state \in {"READY", "RUNNING"}

IsFinished(t) == t \notin valid \/ threadState[t] = "FINISHED"

Put_First(queue, t) == <<t>> \o queue  \* mutant

Put(queue, t) == Append(queue, t)

\* dispatch() up to the loop over the ready queue, called when the states of
\* the threads are state and the ready queue is queue.
BeginDispatch(state, queue) ==
    /\ phase' = "dispatch"
    /\ cpuTime' = 0
    /\ threadState' = IF ReadyToRun(state[running])
                      THEN [state EXCEPT ![running] = "READY"]
                      ELSE state
    /\ readyQueue' = IF ReadyToRun(state[running])
                     THEN Put(queue, running)
                     ELSE queue
    /\ valid' = IF state[running] = "FINISHED" THEN valid \ {running} ELSE valid
    /\ UNCHANGED running

\* dispatch() drops finished and deleted threads from the front of the queue.
ThreadDead_Deleted(t) == t \notin valid  \* mutant

ThreadDead(t) == IsFinished(t)

ReapDead ==
    /\ phase = "dispatch"
    /\ readyQueue # <<>>
    /\ ThreadDead(Head(readyQueue))
    /\ readyQueue' = RemoveSpec(readyQueue, Head(readyQueue))
    /\ valid' = valid \ {Head(readyQueue)}
    /\ UNCHANGED <<running, threadState, cpuTime, phase, inCall>>

-----------------------------------------------------------------------------
\* thread_create: the constructor of _thread on a free control block, as far
\* as the scheduler sees it.
CreateThread(t) ==
    /\ t \notin valid
    /\ valid' = valid \cup {t}
    /\ threadState' = [threadState EXCEPT ![t] = "READY"]
    /\ readyQueue' = Put(readyQueue, t)
    /\ inCall' = [inCall EXCEPT ![t] = "none"]
    /\ UNCHANGED <<running, cpuTime, phase>>

ThreadDispatch ==
    /\ BeginDispatch(threadState, readyQueue)
    /\ UNCHANGED inCall

ThreadExit ==
    /\ BeginDispatch([threadState EXCEPT ![running] = "FINISHED"], readyQueue)
    /\ UNCHANGED inCall

\* main()'s end: it kills the putter and the getter, then dispatches.
SubtleKill(state, ts) ==
    [t \in Threads |-> IF t \in ts \cap valid THEN "FINISHED" ELSE state[t]]

KillServices ==
    /\ BeginDispatch(SubtleKill(threadState, Services), readyQueue)
    /\ UNCHANGED inCall
=============================================================================
