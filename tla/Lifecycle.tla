----------------------------- MODULE Lifecycle -----------------------------
(***************************************************************************)
(* The life of threads: control blocks whose memory is used again, the     *)
(* parents and their counts of children, the boot, idleThread and the      *)
(* shutdown, and the threads of h/syscall_cpp.hpp's PeriodicThread.        *)
(*                                                                         *)
(* In module Kernel a control block has one owner for ever.  Here a name   *)
(* of Threads is an address: once its thread is deleted, the heap may give *)
(* it to any thread, while others still hold pointers to it.  Semaphores   *)
(* and time are left out; the timer may preempt at any time, and a sleeper *)
(* wakes up at any time.                                                   *)
(***************************************************************************)
EXTENDS Threads

CONSTANTS
    Periodics,  \* the PeriodicThread objects
    NoThread,   \* nullptr
    MaxID       \* bound of the model: the threads that are ever made

\* The last one: body tells a PeriodicThread's wrapper from the others.
ASSUME LifecycleAssumption ==
    /\ NoThread \notin Threads
    /\ Periodics \cap {"main", "idle", "service", "userMain", "program"} = {}

VARIABLES
    body,           \* the function each thread runs
    parentThread,
    numOfChildren,
    ID,             \* the threads made so far
    finished,       \* IDLE.cpp's flag, set when userMain() has returned
    mainPc,
    toPrint,        \* _console::isThereAnythingToPrint()
    myHandle,       \* of each PeriodicThread
    period,         \* whether it is greater than 0
    at,             \* where each thread is in its function
    leftAlone       \* history: addresses freed while children were alive

familyVars == <<body, parentThread, numOfChildren, ID, leftAlone>>
programVars == <<finished, mainPc, toPrint, myHandle, period, at>>
vars == <<threadVars, familyVars, programVars>>

Init ==
    /\ ThreadsInit
    /\ body = [t \in Threads |-> CASE t = Main -> "main"
                                   [] t \in Services -> "service"
                                   [] OTHER -> "idle"]
    /\ parentThread = [t \in Threads |-> IF t = Main THEN NoThread ELSE Main]
    /\ numOfChildren = [t \in Threads |-> IF t = Main THEN Len(BootOrder) ELSE 0]
    /\ ID = 1 + Len(BootOrder)
    /\ finished = FALSE /\ mainPc = "loop" /\ toPrint = FALSE
    /\ myHandle = [p \in Periodics |-> NoThread]
    /\ period = [p \in Periodics |-> TRUE]
    /\ at = [t \in Threads |-> "start"]
    /\ leftAlone = {}

-----------------------------------------------------------------------------
Children(t) == {c \in valid : parentThread[c] = t}

\* The constructor of _thread, in any memory that is free.
MadeThread(t, b) ==
    /\ ID < MaxID
    /\ CreateThread(t)
    /\ body' = [body EXCEPT ![t] = b]
    /\ parentThread' = [parentThread EXCEPT ![t] = running]
    /\ numOfChildren' = [numOfChildren EXCEPT ![t] = 0, ![running] = @ + 1]
    /\ ID' = ID + 1
    /\ leftAlone' = leftAlone \ {c \in {t} : Children(t) = {}}

NewThread(t, b) == MadeThread(t, b) /\ at' = [at EXCEPT ![t] = "start"]

\* thread_exit counts down where the parent was, whoever is there now.
CountDownParent_Never(t) == numOfChildren  \* mutant

CountDownParent(t) ==
    IF parentThread[t] = NoThread THEN numOfChildren
    ELSE [numOfChildren EXCEPT ![parentThread[t]] = @ - 1]

Exit ==
    /\ ThreadExit
    /\ numOfChildren' = CountDownParent(running)
    /\ leftAlone' = IF Children(running) = {} THEN leftAlone
                    ELSE leftAlone \cup {running}
    /\ UNCHANGED <<body, parentThread, ID>>

Dispatch == ThreadDispatch /\ UNCHANGED familyVars

Runs(b) == phase = "user" /\ body[running] = b

-----------------------------------------------------------------------------
\* main(): what it asks of idle_thread, it asks of the memory idle was in.
MainDispatch ==
    /\ Runs("main")
    /\ mainPc = "loop"
    /\ ~IsFinished(Idle) \/ toPrint
    /\ Dispatch
    /\ UNCHANGED programVars

\* subtleKill refuses threads that main() has not made.
MayKill(t) == t # running /\ parentThread[t] = running

MainShutdown ==
    /\ Runs("main")
    /\ mainPc = "loop"
    /\ IsFinished(Idle)
    /\ ~toPrint
    /\ mainPc' = "killed"
    /\ BeginDispatch(SubtleKill(threadState, {t \in Services : MayKill(t)}), readyQueue)
    /\ UNCHANGED <<inCall, familyVars, finished, toPrint, myHandle, period, at>>

\* It prints what is left and stops the machine.
KillQEMU ==
    /\ Runs("main")
    /\ mainPc = "killed"
    /\ phase' = "halted"
    /\ toPrint' = FALSE
    /\ UNCHANGED <<running, valid, threadState, readyQueue, cpuTime, inCall>>
    /\ UNCHANGED <<familyVars, finished, mainPc, myHandle, period, at>>

MainStep == MainDispatch \/ MainShutdown \/ KillQEMU

\* idleThread makes userMain's thread, dispatches until finished is set, ends.
IdleCreate ==
    /\ Runs("idle")
    /\ at[running] = "start"
    /\ \E t \in Threads :
           /\ MadeThread(t, "userMain")
           /\ at' = [at EXCEPT ![t] = "start", ![running] = "loop"]
    /\ UNCHANGED <<finished, mainPc, toPrint, myHandle, period>>

IdleDispatch ==
    /\ Runs("idle")
    /\ at[running] = "loop"
    /\ ~finished
    /\ Dispatch
    /\ UNCHANGED programVars

IdleMayEnd_Early == at[running] = "loop"  \* mutant

IdleMayEnd_Alone == finished /\ numOfChildren[running] = 0  \* mutant

IdleMayEnd == at[running] = "loop" /\ finished

IdleExit ==
    /\ Runs("idle")
    /\ IdleMayEnd
    /\ Exit
    /\ UNCHANGED programVars

IdleStep == IdleCreate \/ IdleDispatch \/ IdleExit

ServiceDispatch == Runs("service") /\ Dispatch /\ UNCHANGED programVars

\* The putter takes the last character out of the print buffer.
ServicePrints ==
    /\ Runs("service")
    /\ toPrint
    /\ toPrint' = FALSE
    /\ UNCHANGED <<threadVars, familyVars, finished, mainPc, myHandle, period, at>>

ServiceStep == ServiceDispatch \/ ServicePrints

-----------------------------------------------------------------------------
\* Programs: userMain, and the threads made with thread_create.
ProgramRuns == Runs("program") \/ (Runs("userMain") /\ ~finished)

UserMainReturns ==
    /\ Runs("userMain")
    /\ ~finished
    /\ finished' = TRUE
    /\ UNCHANGED <<threadVars, familyVars, mainPc, toPrint, myHandle, period, at>>

\* The end of a thread's function, or a thread_exit: one in userMain() leaves
\* finished as it is, and then main() loops for ever.
ProgramExit ==
    /\ Runs("program") \/ Runs("userMain")
    /\ Exit
    /\ UNCHANGED programVars

ProgramCreate ==
    /\ ProgramRuns
    /\ \E t \in Threads : NewThread(t, "program")
    /\ UNCHANGED <<finished, mainPc, toPrint, myHandle, period>>

\* Thread::start of a PeriodicThread that was not started before.
Start(p) ==
    /\ Runs("userMain")
    /\ ~finished
    /\ myHandle[p] = NoThread
    /\ \E t \in Threads : NewThread(t, p) /\ myHandle' = [myHandle EXCEPT ![p] = t]
    /\ UNCHANGED <<finished, mainPc, toPrint, period>>

\* PeriodicThread::terminate
Terminate(p) ==
    /\ ProgramRuns
    /\ period[p]
    /\ period' = [period EXCEPT ![p] = FALSE]
    /\ UNCHANGED <<threadVars, familyVars, finished, mainPc, toPrint, myHandle, at>>

\* putc, which any program may call, an activation too.
Putc ==
    /\ ProgramRuns \/ \E p \in Periodics : Runs(p) /\ at[running] = "activate"
    /\ toPrint' = TRUE
    /\ UNCHANGED <<threadVars, familyVars, finished, mainPc, myHandle, period, at>>

ProgramStep ==
    \/ UserMainReturns \/ ProgramExit \/ ProgramCreate \/ Putc
    \/ \E p \in Periodics : Start(p) \/ Terminate(p)

-----------------------------------------------------------------------------
\* periodicActivation_wrapper; what the activation does is the program's.
GoOn(p, from, to) ==
    /\ Runs(p)
    /\ at[running] = from
    /\ at' = [at EXCEPT ![running] = to]

PeriodTest_Forever(p) ==
    /\ GoOn(p, "start", "activate")  \* mutant
    /\ UNCHANGED <<threadVars, familyVars, finished, mainPc, toPrint, myHandle, period>>

PeriodTest(p) ==
    /\ GoOn(p, "start", IF period[p] THEN "activate" ELSE "exit")
    /\ UNCHANGED <<threadVars, familyVars, finished, mainPc, toPrint, myHandle, period>>

PeriodicActivation(p) ==
    /\ GoOn(p, "activate", "sleep")
    /\ UNCHANGED <<threadVars, familyVars, finished, mainPc, toPrint, myHandle, period>>

\* time_sleep returns at once when terminate() has come since the test.
PeriodicSleep(p) ==
    /\ GoOn(p, "sleep", "start")
    /\ IF period[p]
       THEN /\ BeginDispatch([threadState EXCEPT ![running] = "SUSPENDED"], readyQueue)
            /\ inCall' = [inCall EXCEPT ![running] = "sleep"]
       ELSE UNCHANGED threadVars
    /\ UNCHANGED <<familyVars, finished, mainPc, toPrint, myHandle, period>>

PeriodicExit(p) ==
    /\ Runs(p)
    /\ at[running] = "exit"
    /\ Exit
    /\ UNCHANGED programVars

PeriodicStep(p) ==
    PeriodTest(p) \/ PeriodicActivation(p) \/ PeriodicSleep(p) \/ PeriodicExit(p)

-----------------------------------------------------------------------------
\* The timer: a time slice is over, or a sleeper is due.
Preempt ==
    /\ phase = "user"
    /\ running # Main
    /\ Dispatch
    /\ UNCHANGED programVars

WakeUp(t) ==
    /\ phase = "user"
    /\ running # Main
    /\ inCall[t] = "sleep"
    /\ readyQueue' = Put(readyQueue, t)
    /\ threadState' = [threadState EXCEPT ![t] = "READY"]
    /\ inCall' = [inCall EXCEPT ![t] = "none"]
    /\ UNCHANGED <<running, valid, cpuTime, phase, familyVars, programVars>>

\* The end of dispatch().
Reap ==
    /\ ReapDead
    /\ UNCHANGED <<familyVars, programVars>>

SwitchTo(t) ==
    /\ phase = "dispatch"
    /\ readyQueue # <<>>
    /\ t = Head(readyQueue)
    /\ ~ThreadDead(t)
    /\ running' = t
    /\ readyQueue' = Tail(readyQueue)
    /\ threadState' = [threadState EXCEPT ![t] = "RUNNING"]
    /\ phase' = "user"
    /\ UNCHANGED <<valid, cpuTime, inCall, familyVars, programVars>>

HandlerStep == Reap \/ \E t \in Threads : SwitchTo(t)

-----------------------------------------------------------------------------
Next ==
    \/ HandlerStep \/ MainStep \/ IdleStep \/ ServiceStep \/ ProgramStep
    \/ \E p \in Periodics : PeriodicStep(p)
    \/ Preempt \/ \E t \in Threads : WakeUp(t)

\* A thread that is given the processor again and again gets on, though it may
\* be preempted between any two statements.
Spec ==
    /\ Init /\ [][Next]_vars
    /\ WF_vars(HandlerStep \/ MainStep \/ Preempt)
    /\ SF_vars(IdleStep)
    /\ \A p \in Periodics : SF_vars(PeriodicStep(p))
    /\ SF_vars(\E t \in Threads : WakeUp(t))
-----------------------------------------------------------------------------
\* Each thread's count is the number of its living children (h/_thread.hpp,
\* numOfChildren), as long as nobody is killed, in every control block but
\* those whose memory belonged to a thread that ended before its children.
ChildrenAreCounted ==
    mainPc = "loop" =>
        \A t \in valid \ leftAlone : numOfChildren[t] = Cardinality(Children(t))

\* main() does not stop the machine while userMain() runs, though it looks at
\* the memory of idle's control block after idle is deleted.
UserMainIsOver == mainPc # "loop" => finished

\* When userMain() has returned and the output that is left, of threads that go
\* on without it too, comes to its end, main() shuts down, unless the memory of
\* idle's control block has another thread by then, which main() takes for idle.
ShutdownBegins ==
    <>finished /\ <>[]~toPrint
        => <>(mainPc # "loop" \/ (Idle \in valid /\ body[Idle] # "idle"))

\* A PeriodicThread that was started and terminated ends, wherever it was in
\* its loop, unless the machine stops first.
PeriodicEnds ==
    \A p \in Periodics :
        ~period[p] ~> (phase = "halted" \/ \A t \in valid : body[t] # p)
=============================================================================
