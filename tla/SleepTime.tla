----------------------------- MODULE SleepTime -----------------------------
(***************************************************************************)
(* The timer and the sleepers: h/ and src/ _time, and the time_sleep call. *)
(* The list of sleepers holds the threads in time_sleep and those in       *)
(* sem_timedwait, in the order of timeForWakingUp.                         *)
(*                                                                         *)
(* Times are 64-bit in the code: they are taken modulo TimeMod here.  The  *)
(* clock stops counting at MaxTime, a bound of the model, though it keeps  *)
(* interrupting.                                                           *)
(***************************************************************************)
EXTENDS Threads

CONSTANTS
    MaxTime,  \* bound of the model: the clock saturates at this time
    TimeMod,  \* stands for 2^64
    Delays    \* the times that programs ask for, 0 among them

ASSUME SleepTimeAssumption ==
    /\ MaxTime \in Nat
    /\ TimeMod \in Nat
    /\ MaxTime < TimeMod
    /\ Delays \subseteq 0..TimeMod - 1

VARIABLES
    sysTime,             \* _time::SYS_TIME
    asleep,              \* _time::listAsleepThreads
    timeForWakingUp,     \* of each control block, 0 when it is in no call
    cursor,              \* position of foreachWhile in asleep
    numOfThreadsAsleep,  \* _time::numOfThreadsAsleep
    due                  \* not in the code: timeForWakingUp without the modulus

timeVars == <<sysTime, asleep, timeForWakingUp, cursor, numOfThreadsAsleep, due>>

SleepTimeInit ==
    /\ sysTime = 0
    /\ asleep = <<>>
    /\ timeForWakingUp = [t \in Threads |-> 0]
    /\ cursor = 1
    /\ numOfThreadsAsleep = 0
    /\ due = [t \in Threads |-> 0]

-----------------------------------------------------------------------------
WakeUpTime(delay) == (sysTime + delay) % TimeMod

\* time_sleep_wrapper halves a request above 2^63.
CapDelay(delay) == IF delay > TimeMod \div 2 THEN delay \div 2 ELSE delay

\* time_sleep(delay) up to the dispatch in put_thread_to_sleep; for a delay of
\* 0 the call returns without a trap.
\* The bound MaxTime: programs ask for no time past the end of the clock.
TimeSleep(delay) ==
    LET wakeUp == [timeForWakingUp EXCEPT ![running] = WakeUpTime(CapDelay(delay))]
    IN  /\ delay # 0
        /\ wakeUp[running] <= MaxTime
        /\ timeForWakingUp' = wakeUp
        /\ due' = [due EXCEPT ![running] = sysTime + CapDelay(delay)]
        /\ numOfThreadsAsleep' = numOfThreadsAsleep + 1
        /\ asleep' = InsertSorted(asleep, running, wakeUp)
        /\ inCall' = [inCall EXCEPT ![running] = "sleep"]
        /\ BeginDispatch([threadState EXCEPT ![running] = "SUSPENDED"], readyQueue)
        /\ UNCHANGED <<sysTime, cursor>>

-----------------------------------------------------------------------------
IncSysTime == IF sysTime < MaxTime THEN sysTime + 1 ELSE sysTime

\* The ticks that the running thread has used since it got the processor.
CpuTimeAfterTick_Same == cpuTime  \* mutant

CpuTimeAfterTick == cpuTime + 1

\* timer_interrupt_handler up to the loop over the sleepers.
TimerInterrupt ==
    /\ sysTime' = IncSysTime
    /\ cpuTime' = CpuTimeAfterTick
    /\ cursor' = 1
    /\ phase' = "wake"
    /\ UNCHANGED <<running, valid, threadState, readyQueue, inCall>>
    /\ UNCHANGED <<asleep, timeForWakingUp, numOfThreadsAsleep, due>>

\* The loop goes on while there is a sleeper at the cursor that is due.
ShouldWakeUp_Early(t) == timeForWakingUp[t] <= sysTime + 1  \* mutant

ShouldWakeUp(t) == timeForWakingUp[t] <= sysTime

SleeperIsDue == cursor <= Len(asleep) /\ ShouldWakeUp(asleep[cursor])

\* The rest of timer_interrupt_handler, after the loop: preemption.
TimeSliceIsOver == cpuTime >= TIME_SLICE

EndTimerInterrupt ==
    /\ phase = "wake"
    /\ ~SleeperIsDue
    /\ cursor' = 1
    /\ IF TimeSliceIsOver
       THEN BeginDispatch(threadState, readyQueue)
       ELSE /\ phase' = "user"
            /\ UNCHANGED <<running, valid, threadState, readyQueue, cpuTime>>
    /\ UNCHANGED inCall
    /\ UNCHANGED <<sysTime, asleep, timeForWakingUp, numOfThreadsAsleep, due>>
=============================================================================
