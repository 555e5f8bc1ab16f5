------------------------------- MODULE Kernel -------------------------------
(***************************************************************************)
(* The kernel core: threads, semaphores and sleepers under system calls,   *)
(* timer interrupts and the shutdown made by main().                       *)
(*                                                                         *)
(* Only code in user mode is interrupted, so a timer interrupt comes when  *)
(* phase is "user" and the running thread is not main.  Programs make any  *)
(* call of Calls at any time.                                              *)
(***************************************************************************)
EXTENDS Semaphores

CONSTANT
    Calls  \* the system calls that programs make

AllCalls == {"create", "dispatch", "open", "close", "wait", "timedwait",
             "trywait", "signal", "sleep"}

ASSUME KernelAssumption == Calls \subseteq AllCalls

VARIABLES
    finished,  \* IDLE.cpp's flag, set when userMain() has returned
    idlePc,    \* idleThread is at its start, or in its loop
    mainPc     \* main() is in its loop, or past the kill of the services

vars == <<running, valid, threadState, readyQueue, cpuTime, phase, inCall,
          sysTime, asleep, timeForWakingUp, cursor, numOfThreadsAsleep, due,
          semStatus, mySem, onSem, open, val, queueBlocked,
          numOfTimedWaiting, closing, finished, idlePc, mainPc>>

Init ==
    /\ ThreadsInit
    /\ SleepTimeInit
    /\ SemaphoresInit
    /\ finished = FALSE
    /\ idlePc = "start"
    /\ mainPc = "loop"

-----------------------------------------------------------------------------
\* The end of dispatch(): the first ready thread t gets the processor and
\* runs what its own handler does after its dispatch() returns.
SwitchTo(t, state) ==
    /\ phase = "dispatch"
    /\ readyQueue # <<>>
    /\ t = Head(readyQueue)
    /\ ~ThreadDead(t)
    /\ running' = t
    /\ readyQueue' = Tail(readyQueue)
    /\ threadState' = [threadState EXCEPT ![t] = state]
    /\ phase' = "user"
    /\ inCall' = [inCall EXCEPT ![t] = "none"]
    /\ UNCHANGED <<valid, cpuTime, sysTime, asleep, cursor>>
    /\ UNCHANGED <<open, val, queueBlocked, closing, finished, idlePc, mainPc>>

\* Back to its code, or to a thread's first instruction.
SwitchToUser(t) ==
    /\ inCall[t] = "none"
    /\ SwitchTo(t, "RUNNING")
    /\ UNCHANGED <<timeForWakingUp, due, numOfThreadsAsleep>>
    /\ UNCHANGED <<semStatus, mySem, onSem, numOfTimedWaiting>>

\* The rest of put_thread_to_sleep marks the running thread READY.
StateAfterSleep_Same == "SUSPENDED"  \* mutant

StateAfterSleep == "READY"

ReturnFromSleep(t) ==
    /\ inCall[t] = "sleep"
    /\ SwitchTo(t, StateAfterSleep)
    /\ timeForWakingUp' = [timeForWakingUp EXCEPT ![t] = 0]
    /\ due' = [due EXCEPT ![t] = 0]
    /\ numOfThreadsAsleep' = numOfThreadsAsleep - 1
    /\ UNCHANGED <<semStatus, mySem, onSem, numOfTimedWaiting>>

\* The rest of block() or timedBlock(), then generateWAITResponses().
LeaveQueue(t) ==
    /\ SwitchTo(t, "RUNNING")
    /\ mySem' = [mySem EXCEPT ![t] = NoSem]
    /\ semStatus' = [semStatus EXCEPT ![t] = "NON_WAITING"]
    /\ onSem' = [onSem EXCEPT ![t] = NoSem]
    /\ UNCHANGED numOfThreadsAsleep

ReturnFromBlock(t) ==
    /\ inCall[t] = "block"
    /\ LeaveQueue(t)
    /\ UNCHANGED <<numOfTimedWaiting, timeForWakingUp, due>>

CountDown_Signed(n) == n - 1  \* mutant

CountDown(n) == (n - 1) % CountMod

ReturnFromTimedBlock(t) ==
    /\ inCall[t] = "timedBlock"
    /\ LeaveQueue(t)
    /\ numOfTimedWaiting' =
           [numOfTimedWaiting EXCEPT ![onSem[t]] = CountDown(@)]
    /\ timeForWakingUp' = [timeForWakingUp EXCEPT ![t] = 0]
    /\ due' = [due EXCEPT ![t] = 0]

SwitchContext ==
    \E t \in Threads :
        \/ SwitchToUser(t)
        \/ ReturnFromSleep(t)
        \/ ReturnFromBlock(t)
        \/ ReturnFromTimedBlock(t)

-----------------------------------------------------------------------------
\* One iteration of the timer's loop over the sleepers.
IsTimedWaiter_Never(t) == FALSE  \* mutant
IsTimedWaiter_Always(t) == TRUE  \* mutant

IsTimedWaiter(t) == semStatus[t] = "TIMEDWAITING"

WakeThreadUp ==
    LET t == asleep[cursor]
    IN  /\ phase = "wake"
        /\ SleeperIsDue
        /\ IF t \in valid /\ IsTimedWaiter(t) /\ mySem[t] # NoSem
           THEN /\ UnblockByTime(mySem[t], t)
                /\ UNCHANGED cursor
           ELSE /\ UNCHANGED <<semStatus, mySem, val, queueBlocked, threadState>>
                /\ IF t \in valid /\ ~IsTimedWaiter(t)
                   THEN /\ asleep' = RemoveSpec(asleep, t)
                        /\ readyQueue' = Put(readyQueue, t)
                        /\ UNCHANGED cursor
                   ELSE /\ cursor' = cursor + 1
                        /\ UNCHANGED <<asleep, readyQueue>>
        /\ UNCHANGED <<running, valid, cpuTime, phase, inCall, sysTime>>
        /\ UNCHANGED <<timeForWakingUp, numOfThreadsAsleep, due, onSem, open>>
        /\ UNCHANGED <<numOfTimedWaiting, closing, finished, idlePc, mainPc>>

-----------------------------------------------------------------------------
\* main(): dispatches while idle is not finished or there is output left to
\* print (the console is not part of this module: it may or may not be), then
\* kills the services, dispatches once more and stops the machine.
MainRuns == phase = "user" /\ running = Main

MainDispatch ==
    /\ MainRuns
    /\ mainPc = "loop"
    /\ ThreadDispatch
    /\ UNCHANGED <<timeVars, semVars, finished, idlePc, mainPc>>

MainShutdown ==
    /\ MainRuns
    /\ mainPc = "loop"
    /\ IsFinished(Idle)
    /\ mainPc' = "killed"
    /\ KillServices
    /\ UNCHANGED <<timeVars, semVars, finished, idlePc>>

KillQEMU ==
    /\ MainRuns
    /\ mainPc = "killed"
    /\ phase' = "halted"
    /\ UNCHANGED <<running, valid, threadState, readyQueue, cpuTime, inCall>>
    /\ UNCHANGED <<timeVars, semVars, finished, idlePc, mainPc>>

\* thread_create: the control block's other fields get their default values.
NewThread(t) ==
    /\ CreateThread(t)
    /\ timeForWakingUp' = [timeForWakingUp EXCEPT ![t] = 0]
    /\ due' = [due EXCEPT ![t] = 0]
    /\ semStatus' = [semStatus EXCEPT ![t] = "NON_WAITING"]
    /\ mySem' = [mySem EXCEPT ![t] = NoSem]
    /\ onSem' = [onSem EXCEPT ![t] = NoSem]
    /\ UNCHANGED <<sysTime, asleep, cursor, numOfThreadsAsleep>>
    /\ UNCHANGED <<open, val, queueBlocked, numOfTimedWaiting, closing>>

\* idleThread: makes userMain's thread, dispatches until finished is set, ends.
IdleRuns == phase = "user" /\ running = Idle

IdleCreate ==
    /\ IdleRuns
    /\ idlePc = "start"
    /\ idlePc' = "loop"
    /\ NewThread(UserMain)
    /\ UNCHANGED <<finished, mainPc>>

IdleDispatch ==
    /\ IdleRuns
    /\ idlePc = "loop"
    /\ ~finished
    /\ ThreadDispatch
    /\ UNCHANGED <<timeVars, semVars, finished, idlePc, mainPc>>

IdleExit ==
    /\ IdleRuns
    /\ idlePc = "loop"
    /\ finished
    /\ ThreadExit
    /\ UNCHANGED <<timeVars, semVars, finished, idlePc, mainPc>>

\* The putter and the getter dispatch in an endless loop.
ServiceDispatch ==
    /\ phase = "user"
    /\ running \in Services
    /\ ThreadDispatch
    /\ UNCHANGED <<timeVars, semVars, finished, idlePc, mainPc>>

-----------------------------------------------------------------------------
\* Programs.  After userMain() returns, its thread only ends.
ProgramRuns == phase = "user" /\ running \in Programs

MayCall(c) == ProgramRuns /\ c \in Calls /\ ~(running = UserMain /\ finished)

UserMainReturns ==
    /\ ProgramRuns
    /\ running = UserMain
    /\ ~finished
    /\ finished' = TRUE
    /\ UNCHANGED <<threadVars, timeVars, semVars, idlePc, mainPc>>

\* thread_exit, or the end of a thread's function.  userMain() may call it too:
\* then finished is never set, and the machine runs on.
CallExit ==
    /\ ProgramRuns
    /\ ThreadExit
    /\ UNCHANGED <<timeVars, semVars, finished, idlePc, mainPc>>

CallCreate ==
    /\ MayCall("create")
    /\ \E t \in Workers : NewThread(t)
    /\ UNCHANGED <<finished, idlePc, mainPc>>

CallDispatch ==
    /\ MayCall("dispatch")
    /\ ThreadDispatch
    /\ UNCHANGED <<timeVars, semVars, finished, idlePc, mainPc>>

CallSleep ==
    /\ MayCall("sleep")
    /\ \E d \in Delays : TimeSleep(d)
    /\ UNCHANGED <<semVars, finished, idlePc, mainPc>>

CallOpen ==
    /\ MayCall("open")
    /\ \E s \in Sems, n \in InitVals : SemOpen(s, n)
    /\ UNCHANGED <<finished, idlePc, mainPc>>

CallWait ==
    /\ MayCall("wait")
    /\ \E s \in Sems : TakeUnit(s) \/ Block(s)
    /\ UNCHANGED <<finished, idlePc, mainPc>>

CallTimedWait ==
    /\ MayCall("timedwait")
    /\ \E s \in Sems : TakeUnit(s) \/ \E d \in Delays : TimedBlock(s, d)
    /\ UNCHANGED <<finished, idlePc, mainPc>>

CallTryWait ==
    /\ MayCall("trywait")
    /\ \E s \in Sems : TryWait(s)
    /\ UNCHANGED <<finished, idlePc, mainPc>>

CallSignal ==
    /\ MayCall("signal")
    /\ \E s \in Sems : SemSignal(s)
    /\ UNCHANGED <<finished, idlePc, mainPc>>

CallClose ==
    /\ MayCall("close")
    /\ \E s \in Sems : SemClose(s)
    /\ UNCHANGED <<finished, idlePc, mainPc>>

ProgramStep ==
    \/ UserMainReturns \/ CallExit \/ CallCreate \/ CallDispatch
    \/ CallSleep \/ CallOpen \/ CallWait \/ CallTimedWait
    \/ CallTryWait \/ CallSignal \/ CallClose

-----------------------------------------------------------------------------
\* Interrupts are taken in user mode only.
Tick ==
    /\ phase = "user"
    /\ running # Main
    /\ TimerInterrupt
    /\ UNCHANGED <<semVars, finished, idlePc, mainPc>>

EndTick == EndTimerInterrupt /\ UNCHANGED <<semVars, finished, idlePc, mainPc>>
Reap == ReapDead /\ UNCHANGED <<timeVars, semVars, finished, idlePc, mainPc>>
UnblockAll == UnblockAllStep /\ UNCHANGED <<finished, idlePc, mainPc>>
EndClose == EndSemClose /\ UNCHANGED <<finished, idlePc, mainPc>>

\* What the processor does on its own once it is in a handler.
HandlerStep ==
    \/ Reap \/ SwitchContext \/ WakeThreadUp \/ EndTick \/ UnblockAll \/ EndClose

MainStep == MainDispatch \/ MainShutdown \/ KillQEMU
IdleStep == IdleCreate \/ IdleDispatch \/ IdleExit

\* The machine is off.
Halted == phase = "halted" /\ UNCHANGED vars

Next ==
    \/ HandlerStep \/ MainStep \/ IdleStep \/ ServiceDispatch
    \/ ProgramStep \/ Tick \/ Halted

Spec == Init /\ [][Next]_vars

\* Handlers run to their end and main() goes on; a timer interrupt that is
\* pending when a handler returns to user mode is taken then, and it comes
\* again and again.  Nothing makes a program's or a service's code go on.
FairSpec ==
    /\ Spec
    /\ WF_vars(HandlerStep)
    /\ WF_vars(MainStep)
    /\ SF_vars(Tick)
=============================================================================
