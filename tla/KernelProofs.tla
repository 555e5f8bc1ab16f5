---------------------------- MODULE KernelProofs ----------------------------
(***************************************************************************)
(* Proofs about the kernel core, for all sets of threads and semaphores,   *)
(* all delays and all bounds: its types, and where its threads are.        *)
(* KernelInv is inductive: every step of the kernel keeps it.              *)
(***************************************************************************)
EXTENDS KernelProperties, ListTheorems

-----------------------------------------------------------------------------
\* The steps of the kernel: who makes a call does not matter for most of the
\* invariants, only what the call does.
DispatchStep == phase = "user" /\ ThreadDispatch /\ UNCHANGED <<timeVars, semVars>>

ExitStep ==
    /\ phase = "user"
    /\ running \in Programs \cup {Idle}
    /\ ThreadExit
    /\ UNCHANGED <<timeVars, semVars>>

KillStep ==
    /\ phase = "user"
    /\ running = Main
    /\ KillServices
    /\ UNCHANGED <<timeVars, semVars>>

CreateStep == phase = "user" /\ \E t \in Programs : NewThread(t)

SleepStep ==
    /\ phase = "user"
    /\ running \in Programs
    /\ \E d \in Delays : TimeSleep(d)
    /\ UNCHANGED semVars

OpenStep == phase = "user" /\ \E s \in Sems, n \in InitVals : SemOpen(s, n)
TakeStep == phase = "user" /\ \E s \in Sems : TakeUnit(s)
BlockStep == phase = "user" /\ running \in Programs /\ \E s \in Sems : Block(s)

TimedBlockStep ==
    /\ phase = "user"
    /\ running \in Programs
    /\ \E s \in Sems, d \in Delays : TimedBlock(s, d)

TryWaitStep == phase = "user" /\ "trywait" \in Calls /\ \E s \in Sems : TryWait(s)
SignalStep == phase = "user" /\ \E s \in Sems : SemSignal(s)
CloseStep == phase = "user" /\ \E s \in Sems : SemClose(s)
TickStep == phase = "user" /\ TimerInterrupt /\ UNCHANGED semVars
EndTickStep == EndTimerInterrupt /\ UNCHANGED semVars
ReapStep == ReapDead /\ UNCHANGED <<timeVars, semVars>>

\* The machine is switched off, or a step that changes finished alone.
OtherStep ==
    /\ phase' = phase \/ (phase = "user" /\ phase' = "halted")
    /\ UNCHANGED <<running, valid, threadState, readyQueue, cpuTime, inCall>>
    /\ UNCHANGED <<timeVars, semVars>>

KernelStep ==
    \/ DispatchStep \/ ExitStep \/ KillStep \/ CreateStep \/ SleepStep
    \/ OpenStep \/ TakeStep \/ BlockStep \/ TimedBlockStep \/ TryWaitStep
    \/ SignalStep \/ CloseStep \/ UnblockAllStep \/ EndSemClose
    \/ TickStep \/ EndTickStep \/ WakeThreadUp \/ ReapStep
    \/ (\E t \in Threads : SwitchToUser(t))
    \/ (\E t \in Threads : ReturnFromSleep(t))
    \/ (\E t \in Threads : ReturnFromBlock(t))
    \/ (\E t \in Threads : ReturnFromTimedBlock(t))
    \/ OtherStep

\* Every step of the kernel is one of the step operators above.
LEMMA StepsOfNext == [Next]_vars => KernelStep
<1> SUFFICES ASSUME [Next]_vars PROVE KernelStep
  OBVIOUS
<1>1. CASE HandlerStep
  BY <1>1 DEF HandlerStep, Reap, SwitchContext, EndTick, UnblockAll, EndClose,
     KernelStep, ReapStep, EndTickStep
<1>2. CASE MainStep
  <2>1. CASE MainDispatch
    BY <2>1 DEF MainDispatch, MainRuns, KernelStep, DispatchStep
  <2>2. CASE MainShutdown
    BY <2>2 DEF MainShutdown, MainRuns, KernelStep, KillStep
  <2>3. CASE KillQEMU
    BY <2>3 DEF KillQEMU, MainRuns, KernelStep, OtherStep
  <2>4. QED
    BY <1>2, <2>1, <2>2, <2>3 DEF MainStep
<1>3. CASE IdleStep
  <2>1. CASE IdleCreate
    BY <2>1 DEF IdleCreate, IdleRuns, KernelStep, CreateStep, Programs
  <2>2. CASE IdleDispatch
    BY <2>2 DEF IdleDispatch, IdleRuns, KernelStep, DispatchStep
  <2>3. CASE IdleExit
    BY <2>3 DEF IdleExit, IdleRuns, KernelStep, ExitStep
  <2>4. QED
    BY <1>3, <2>1, <2>2, <2>3 DEF IdleStep
<1>4. CASE ServiceDispatch
  BY <1>4 DEF ServiceDispatch, KernelStep, DispatchStep
<1>5. CASE ProgramStep
  <2> USE DEF ProgramRuns, MayCall, KernelStep
  <2>1. CASE UserMainReturns
    BY <2>1 DEF UserMainReturns, OtherStep, threadVars
  <2>2. CASE CallExit
    BY <2>2 DEF CallExit, ExitStep
  <2>3. CASE CallCreate
    BY <2>3 DEF CallCreate, CreateStep, Programs
  <2>4. CASE CallDispatch
    BY <2>4 DEF CallDispatch, DispatchStep
  <2>5. CASE CallSleep
    BY <2>5 DEF CallSleep, SleepStep
  <2>6. CASE CallOpen
    BY <2>6 DEF CallOpen, OpenStep
  <2>7. CASE CallWait
    BY <2>7 DEF CallWait, TakeStep, BlockStep
  <2>8. CASE CallTimedWait
    BY <2>8 DEF CallTimedWait, TakeStep, TimedBlockStep
  <2>9. CASE CallTryWait
    BY <2>9 DEF CallTryWait, TryWaitStep
  <2>10. CASE CallSignal
    BY <2>10 DEF CallSignal, SignalStep
  <2>11. CASE CallClose
    BY <2>11 DEF CallClose, CloseStep
  <2>12. QED
    BY <1>5, <2>1, <2>2, <2>3, <2>4, <2>5, <2>6, <2>7, <2>8, <2>9, <2>10, <2>11
    DEF ProgramStep
<1>6. CASE Tick
  BY <1>6 DEF Tick, KernelStep, TickStep
<1>7. CASE Halted \/ UNCHANGED vars
  BY <1>7 DEF Halted, vars, timeVars, semVars, KernelStep, OtherStep
<1>8. QED
  BY <1>1, <1>2, <1>3, <1>4, <1>5, <1>6, <1>7 DEF Next

-----------------------------------------------------------------------------
\* Types.
TypeInv == TypeOK /\ (phase = "close" => closing \in Sems)

\* dispatch() keeps the types of what it changes.
LEMMA DispatchType ==
    ASSUME TypeOK, NEW state \in [Threads -> States], NEW queue \in Seq(Threads),
           BeginDispatch(state, queue)
    PROVE  /\ running' \in Threads
           /\ valid' \subseteq Threads
           /\ threadState' \in [Threads -> States]
           /\ readyQueue' \in Seq(Threads)
           /\ cpuTime' \in Nat
           /\ phase' = "dispatch"
  BY AppendList DEF TypeOK, BeginDispatch, States, Put, ReadyToRun

\* An unsigned counter stays in its width.
LEMMA ModType ==
    ASSUME NEW n \in Int, NEW m \in Nat \ {0}
    PROVE  n % m \in 0..m - 1
  OBVIOUS

\* set_threadsSemStatus keeps the types of status and state.
LEMMA WithStatusType ==
    ASSUME TypeOK, NEW t \in Threads, NEW status \in Statuses
    PROVE  /\ WithStatus(t, status) \in [Threads -> Statuses]
           /\ WithState(t, status) \in [Threads -> States]
<1>1. StateOfStatus(t, status) \in States
  BY DEF StateOfStatus, States
<1>2. QED
  BY <1>1 DEF TypeOK, WithStatus, WithState

\* What main() sets up has the types of the code's fields.
THEOREM TypeInit == Init => TypeInv
<1> SUFFICES ASSUME Init PROVE TypeInv
  OBVIOUS
<1> USE DEF Init, ThreadsInit, SleepTimeInit, SemaphoresInit
<1>1. /\ running \in Threads /\ valid \subseteq Threads
      /\ threadState \in [Threads -> States]
      /\ cpuTime \in Nat /\ phase \in Phases
      /\ inCall \in [Threads -> Handlers]
  BY DEF Threads, States, Phases, Handlers
<1>2. readyQueue \in Seq(Threads)
  <2>1. Services \cup {Idle} \subseteq Threads
    BY DEF Threads
  <2>2. BootOrder \in Seq(Services \cup {Idle})
    BY ThreadsAssumption
  <2>3. BootOrder \in Seq(Threads)
    BY <2>1, <2>2, SeqMonotonic
  <2>4. QED
    BY <2>3
<1>3. /\ sysTime \in 0..MaxTime /\ asleep \in Seq(Threads)
      /\ timeForWakingUp \in [Threads -> 0..TimeMod - 1]
      /\ cursor \in Nat \ {0} /\ numOfThreadsAsleep \in Int
      /\ due \in [Threads -> Nat]
  BY SleepTimeAssumption
<1>4. /\ semStatus \in [Threads -> Statuses]
      /\ mySem \in [Threads -> Sems \cup {NoSem}]
      /\ onSem \in [Threads -> Sems \cup {NoSem}]
      /\ open \subseteq Sems
      /\ val \in [Sems -> Int]
      /\ queueBlocked \in [Sems -> Seq(Threads)]
      /\ closing \in Sems \cup {NoSem}
  BY DEF Statuses
<1>5. numOfTimedWaiting \in [Sems -> 0..CountMod - 1]
  BY SemaphoresAssumption
<1>6. /\ finished \in BOOLEAN /\ idlePc \in {"start", "loop"}
      /\ mainPc \in {"loop", "killed"} /\ phase # "close"
  OBVIOUS
<1>7. QED
  BY <1>1, <1>2, <1>3, <1>4, <1>5, <1>6 DEF TypeInv, TypeOK

\* The flags of IDLE.cpp and of main() keep their types.
LEMMA FlagsType ==
    ASSUME TypeInv, [Next]_vars
    PROVE  /\ finished' \in BOOLEAN
           /\ idlePc' \in {"start", "loop"}
           /\ mainPc' \in {"loop", "killed"}
<1> USE DEF TypeInv, TypeOK
<1>1. CASE HandlerStep
  BY <1>1 DEF HandlerStep, Reap, SwitchContext, SwitchToUser, ReturnFromSleep,
     ReturnFromBlock, ReturnFromTimedBlock, LeaveQueue, SwitchTo, EndTick,
     UnblockAll, EndClose, WakeThreadUp
<1>2. CASE MainStep
  BY <1>2 DEF MainStep, MainDispatch, MainShutdown, KillQEMU
<1>3. CASE IdleStep
  BY <1>3 DEF IdleStep, IdleCreate, IdleDispatch, IdleExit
<1>4. CASE ServiceDispatch
  BY <1>4 DEF ServiceDispatch
<1>5. CASE ProgramStep
  BY <1>5 DEF ProgramStep, UserMainReturns, CallExit, CallCreate, CallDispatch,
     CallSleep, CallOpen, CallWait, CallTimedWait, CallTryWait, CallSignal, CallClose
<1>6. CASE Tick
  BY <1>6 DEF Tick
<1>7. CASE Halted \/ UNCHANGED vars
  BY <1>7 DEF Halted, vars
<1>8. QED
  BY <1>1, <1>2, <1>3, <1>4, <1>5, <1>6, <1>7 DEF Next

\* unblock() keeps the types of the lists and the control blocks.
LEMMA UnblockType ==
    ASSUME TypeInv, NEW s \in Sems, NEW cause \in Statuses,
           queueBlocked[s] # <<>>, UnblockFirst(s, cause)
    PROVE  /\ threadState' \in [Threads -> States]
           /\ readyQueue' \in Seq(Threads)
           /\ asleep' \in Seq(Threads)
           /\ semStatus' \in [Threads -> Statuses]
           /\ mySem' \in [Threads -> Sems \cup {NoSem}]
           /\ queueBlocked' \in [Sems -> Seq(Threads)]
<1> DEFINE t == Head(queueBlocked[s])
<1>1. queueBlocked[s] \in Seq(Threads)
  BY DEF TypeInv, TypeOK
<1>2. t \in Threads /\ Tail(queueBlocked[s]) \in Seq(Threads)
  BY <1>1, TailList
<1> HIDE DEF t
<1>3. threadState' \in [Threads -> States] /\ semStatus' \in [Threads -> Statuses]
  BY <1>2, WithStatusType DEF UnblockFirst, TypeInv, t
<1>4. readyQueue' \in Seq(Threads)
  BY <1>2, AppendList DEF UnblockFirst, Put, TypeInv, TypeOK, t
<1>5. asleep' \in Seq(Threads)
  BY <1>2, RemoveSpecList DEF UnblockFirst, SleepersAfterUnblock, TypeInv, TypeOK, t
<1>6. QED
  BY <1>1, <1>2, <1>3, <1>4, <1>5 DEF UnblockFirst, TypeInv, TypeOK

\* A switch to a ready thread keeps the types of what it assigns.
LEMMA SwitchToType ==
    ASSUME TypeInv, NEW t \in Threads, NEW state \in States, SwitchTo(t, state)
    PROVE  /\ running' \in Threads /\ valid' \subseteq Threads
           /\ threadState' \in [Threads -> States]
           /\ readyQueue' \in Seq(Threads)
           /\ phase' \in Phases /\ phase' # "close"
           /\ inCall' \in [Threads -> Handlers]
           /\ UNCHANGED <<cpuTime, sysTime, asleep, cursor>>
           /\ UNCHANGED <<open, val, queueBlocked, closing>>
<1>1. readyQueue \in Seq(Threads) /\ readyQueue # <<>>
  BY DEF TypeInv, TypeOK, SwitchTo
<1>2. readyQueue' \in Seq(Threads)
  BY <1>1, TailList DEF SwitchTo
<1>3. /\ running' \in Threads /\ valid' \subseteq Threads
      /\ phase' \in Phases /\ phase' # "close"
  BY DEF TypeInv, TypeOK, SwitchTo, Phases
<1>4. threadState' \in [Threads -> States] /\ inCall' \in [Threads -> Handlers]
  BY DEF TypeInv, TypeOK, SwitchTo, Handlers
<1>5. QED
  BY <1>2, <1>3, <1>4 DEF SwitchTo

\* Every kind of step keeps the types.
LEMMA CoreTypeStep ==
    ASSUME TypeInv, KernelStep,
           finished' \in BOOLEAN, idlePc' \in {"start", "loop"},
           mainPc' \in {"loop", "killed"}
    PROVE  TypeInv'
<1> USE DEF TypeInv, TypeOK
<1>1. CASE DispatchStep
  <2>1. BeginDispatch(threadState, readyQueue)
    BY <1>1 DEF DispatchStep, ThreadDispatch
  <2>2. QED
    BY <1>1, <2>1, DispatchType DEF DispatchStep, ThreadDispatch, timeVars, semVars, Phases
<1>2. CASE ExitStep
  <2>1. [threadState EXCEPT ![running] = "FINISHED"] \in [Threads -> States]
    BY DEF States
  <2>2. QED
    BY <1>2, <2>1, DispatchType DEF ExitStep, ThreadExit, timeVars, semVars, Phases
<1>3. CASE KillStep
  <2>1. SubtleKill(threadState, Services) \in [Threads -> States]
    BY DEF States, SubtleKill
  <2>2. QED
    BY <1>3, <2>1, DispatchType DEF KillStep, KillServices, timeVars, semVars, Phases
<1>4. CASE CreateStep
  <2>1. PICK t \in Programs : NewThread(t)
    BY <1>4 DEF CreateStep
  <2>2. t \in Threads /\ 0 \in 0..TimeMod - 1
    BY SleepTimeAssumption DEF Threads
  <2>3. readyQueue' \in Seq(Threads)
    BY <2>1, <2>2, AppendList DEF NewThread, CreateThread, Put
  <2>4. QED
    BY <1>4, <2>1, <2>2, <2>3
    DEF CreateStep, NewThread, CreateThread, States, Handlers, Statuses
<1>5. CASE SleepStep
  <2>1. PICK d \in Delays : TimeSleep(d)
    BY <1>5 DEF SleepStep
  <2>2. CapDelay(d) \in Nat
    BY SleepTimeAssumption DEF CapDelay
  <2>3. WakeUpTime(CapDelay(d)) \in 0..TimeMod - 1
    <3>1. sysTime + CapDelay(d) \in Int /\ TimeMod \in Nat \ {0}
      BY <2>2, SleepTimeAssumption
    <3>2. QED
      BY <3>1, ModType DEF WakeUpTime
  <2>4. asleep' \in Seq(Threads)
    BY <2>1, InsertSortedList DEF TimeSleep
  <2>5. [threadState EXCEPT ![running] = "SUSPENDED"] \in [Threads -> States]
    BY DEF States
  <2>6. timeForWakingUp' \in [Threads -> 0..TimeMod - 1] /\ due' \in [Threads -> Nat]
    BY <2>1, <2>2, <2>3, SleepTimeAssumption DEF TimeSleep
  <2>7. BeginDispatch([threadState EXCEPT ![running] = "SUSPENDED"], readyQueue)
    BY <2>1 DEF TimeSleep
  <2>8. /\ running' \in Threads /\ valid' \subseteq Threads
        /\ threadState' \in [Threads -> States] /\ readyQueue' \in Seq(Threads)
        /\ cpuTime' \in Nat /\ phase' = "dispatch"
    BY <2>5, <2>7, DispatchType
  <2>9. /\ numOfThreadsAsleep' = numOfThreadsAsleep + 1
        /\ inCall' = [inCall EXCEPT ![running] = "sleep"]
        /\ UNCHANGED <<sysTime, cursor>>
    BY <2>1 DEF TimeSleep
  <2>10. /\ numOfThreadsAsleep' \in Int /\ inCall' \in [Threads -> Handlers]
         /\ sysTime' \in 0..MaxTime /\ cursor' \in Nat \ {0}
    BY <2>9 DEF Handlers
  <2>11. UNCHANGED <<semStatus, mySem, onSem, open, val, queueBlocked,
                     numOfTimedWaiting, closing>>
    BY <1>5 DEF SleepStep, semVars
  <2>12. QED
    BY <2>4, <2>6, <2>8, <2>10, <2>11 DEF Phases
<1>6. CASE OpenStep
  <2>1. PICK s \in Sems, n \in InitVals : SemOpen(s, n)
    BY <1>6 DEF OpenStep
  <2>2. n \in Int /\ 0 \in 0..CountMod - 1 /\ <<>> \in Seq(Threads)
    BY SemaphoresAssumption
  <2>3. QED
    BY <1>6, <2>1, <2>2 DEF OpenStep, SemOpen, threadVars, timeVars
<1>7. CASE TakeStep
  <2>1. PICK s \in Sems : TakeUnit(s)
    BY <1>7 DEF TakeStep
  <2>2. /\ val' = [val EXCEPT ![s] = @ - 1]
        /\ UNCHANGED <<semStatus, mySem, onSem, open, queueBlocked,
                       numOfTimedWaiting, closing>>
        /\ UNCHANGED <<running, valid, threadState, readyQueue, cpuTime, phase,
                       inCall>>
        /\ UNCHANGED <<sysTime, asleep, timeForWakingUp, cursor,
                       numOfThreadsAsleep, due>>
    BY <2>1 DEF TakeUnit, threadVars, timeVars
  <2>3. val' \in [Sems -> Int]
    BY <2>2
  <2>4. QED
    BY <2>2, <2>3
<1>8. CASE TryWaitStep
  <2>1. PICK s \in Sems : TryWait(s)
    BY <1>8 DEF TryWaitStep
  <2>2. /\ val' = [val EXCEPT ![s] = @ - 1]
        /\ UNCHANGED <<semStatus, mySem, onSem, open, queueBlocked,
                       numOfTimedWaiting, closing>>
        /\ UNCHANGED <<running, valid, threadState, readyQueue, cpuTime, phase,
                       inCall>>
        /\ UNCHANGED <<sysTime, asleep, timeForWakingUp, cursor,
                       numOfThreadsAsleep, due>>
    BY <2>1 DEF TryWait, threadVars, timeVars
  <2>3. val' \in [Sems -> Int]
    BY <2>2
  <2>4. QED
    BY <2>2, <2>3
<1>9. CASE BlockStep
  <2>1. PICK s \in Sems : Block(s)
    BY <1>9 DEF BlockStep
  <2>2. WithStatus(running, "WAITING") \in [Threads -> Statuses]
        /\ WithState(running, "WAITING") \in [Threads -> States]
    BY WithStatusType DEF Statuses
  <2>3. Append(queueBlocked[s], running) \in Seq(Threads)
    BY AppendList
  <2>4. BeginDispatch(WithState(running, "WAITING"), readyQueue)
    BY <2>1 DEF Block, EnterQueue
  <2>5. /\ running' \in Threads /\ valid' \subseteq Threads
        /\ threadState' \in [Threads -> States] /\ readyQueue' \in Seq(Threads)
        /\ cpuTime' \in Nat /\ phase' = "dispatch"
    BY <2>2, <2>4, DispatchType
  <2>6. /\ val' \in [Sems -> Int]
        /\ queueBlocked' \in [Sems -> Seq(Threads)]
        /\ semStatus' \in [Threads -> Statuses]
        /\ mySem' \in [Threads -> Sems \cup {NoSem}]
        /\ onSem' \in [Threads -> Sems \cup {NoSem}]
        /\ UNCHANGED <<open, closing>>
    <3>1. EnterQueue(s, "WAITING")
      BY <2>1 DEF Block
    <3>2. /\ val' \in [Sems -> Int]
          /\ queueBlocked' \in [Sems -> Seq(Threads)]
          /\ UNCHANGED <<open, closing>>
      BY <2>3, <3>1 DEF EnterQueue
    <3>3. /\ semStatus' \in [Threads -> Statuses]
          /\ mySem' \in [Threads -> Sems \cup {NoSem}]
          /\ onSem' \in [Threads -> Sems \cup {NoSem}]
      BY <2>2, <3>1 DEF EnterQueue
    <3>4. QED
      BY <3>2, <3>3
  <2>7. /\ inCall' = [inCall EXCEPT ![running] = "block"]
        /\ UNCHANGED <<timeVars, numOfTimedWaiting>>
    BY <2>1 DEF Block
  <2>8. QED
    BY <2>5, <2>6, <2>7 DEF timeVars, Phases, Handlers
<1>10. CASE TimedBlockStep
  <2>1. PICK s \in Sems, d \in Delays : TimedBlock(s, d)
    BY <1>10 DEF TimedBlockStep
  <2>2. WithStatus(running, "TIMEDWAITING") \in [Threads -> Statuses]
        /\ WithState(running, "TIMEDWAITING") \in [Threads -> States]
    BY WithStatusType DEF Statuses
  <2>3. Append(queueBlocked[s], running) \in Seq(Threads)
    BY AppendList
  <2>4. WakeUpTime(d) \in 0..TimeMod - 1
    <3>1. sysTime + d \in Int /\ TimeMod \in Nat \ {0}
      BY SleepTimeAssumption
    <3>2. QED
      BY <3>1, ModType DEF WakeUpTime
  <2>5. asleep' \in Seq(Threads)
    BY <2>1, InsertSortedList DEF TimedBlock
  <2>6. timeForWakingUp' \in [Threads -> 0..TimeMod - 1] /\ due' \in [Threads -> Nat]
    BY <2>1, <2>4, SleepTimeAssumption DEF TimedBlock
  <2>7. numOfTimedWaiting' \in [Sems -> 0..CountMod - 1]
    <3>1. (numOfTimedWaiting[s] + 1) % CountMod \in 0..CountMod - 1
      <4>1. numOfTimedWaiting[s] + 1 \in Int
        BY SemaphoresAssumption
      <4>2. QED
        BY <4>1, ModType, SemaphoresAssumption
    <3>2. QED
      BY <2>1, <3>1 DEF TimedBlock
  <2>8. EnterQueue(s, "TIMEDWAITING")
    BY <2>1 DEF TimedBlock
  <2>9. BeginDispatch(WithState(running, "TIMEDWAITING"), readyQueue)
    BY <2>8 DEF EnterQueue
  <2>10. /\ running' \in Threads /\ valid' \subseteq Threads
         /\ threadState' \in [Threads -> States] /\ readyQueue' \in Seq(Threads)
         /\ cpuTime' \in Nat /\ phase' = "dispatch"
    BY <2>2, <2>9, DispatchType
  <2>11. /\ inCall' = [inCall EXCEPT ![running] = "timedBlock"]
         /\ UNCHANGED <<sysTime, cursor, numOfThreadsAsleep>>
    BY <2>1 DEF TimedBlock
  <2>12. /\ val' \in [Sems -> Int]
         /\ queueBlocked' \in [Sems -> Seq(Threads)]
         /\ semStatus' \in [Threads -> Statuses]
         /\ mySem' \in [Threads -> Sems \cup {NoSem}]
         /\ onSem' \in [Threads -> Sems \cup {NoSem}]
         /\ UNCHANGED <<open, closing>>
    BY <2>2, <2>3, <2>8 DEF EnterQueue
  <2>13. QED
    BY <2>5, <2>6, <2>7, <2>10, <2>11, <2>12 DEF Phases, Handlers
<1>11. CASE SignalStep
  <2>1. PICK s \in Sems : SemSignal(s)
    BY <1>11 DEF SignalStep
  <2>2. /\ val' = [val EXCEPT ![s] = @ + 1]
        /\ UNCHANGED <<onSem, open, numOfTimedWaiting, closing>>
        /\ UNCHANGED <<running, valid, cpuTime, inCall>>
        /\ UNCHANGED <<sysTime, timeForWakingUp, cursor, numOfThreadsAsleep, due>>
    BY <2>1 DEF SemSignal
  <2>3. \/ UNCHANGED <<semStatus, mySem, queueBlocked, asleep, threadState,
                       readyQueue, phase>>
        \/ NullUnblock(s)
        \/ /\ queueBlocked[s] # <<>>
           /\ UnblockFirst(s, "REGULARLY_WAITED")
           /\ UNCHANGED phase
    BY <2>1 DEF SemSignal
  <2>4. CASE UNCHANGED <<semStatus, mySem, queueBlocked, asleep, threadState,
                         readyQueue, phase>>
    <3>1. val' \in [Sems -> Int]
      BY <2>2
    <3>2. QED
      BY <2>2, <2>4, <3>1
  <2>5. CASE NullUnblock(s)
    BY <2>2, <2>5 DEF NullUnblock, Phases
  <2>6. CASE /\ queueBlocked[s] # <<>>
             /\ UnblockFirst(s, "REGULARLY_WAITED")
             /\ UNCHANGED phase
    <3>1. "REGULARLY_WAITED" \in Statuses
      BY DEF Statuses
    <3>2. /\ threadState' \in [Threads -> States]
          /\ readyQueue' \in Seq(Threads)
          /\ asleep' \in Seq(Threads)
          /\ semStatus' \in [Threads -> Statuses]
          /\ mySem' \in [Threads -> Sems \cup {NoSem}]
          /\ queueBlocked' \in [Sems -> Seq(Threads)]
      BY <2>6, <3>1, UnblockType
    <3>3. UNCHANGED phase
      BY <2>6
    <3>4. val' \in [Sems -> Int]
      BY <2>2
    <3>5. /\ UNCHANGED <<onSem, open, numOfTimedWaiting, closing>>
          /\ UNCHANGED <<running, valid, cpuTime, inCall>>
          /\ UNCHANGED <<sysTime, timeForWakingUp, cursor, numOfThreadsAsleep, due>>
      BY <2>2
    <3>6. QED
      BY <3>2, <3>3, <3>4, <3>5
  <2>7. QED
    BY <2>3, <2>4, <2>5, <2>6
<1>12. CASE CloseStep
  BY <1>12 DEF CloseStep, SemClose, timeVars, Phases
<1>13. CASE UnblockAllStep
  <2>0. closing \in Sems
    BY <1>13 DEF UnblockAllStep
  <2>1. /\ UNCHANGED <<onSem, open, numOfTimedWaiting, closing>>
        /\ UNCHANGED <<running, valid, cpuTime, inCall>>
        /\ UNCHANGED <<sysTime, timeForWakingUp, cursor, numOfThreadsAsleep, due>>
    BY <1>13 DEF UnblockAllStep
  <2>2. CASE NullUnblock(closing) /\ UNCHANGED val
    BY <2>1, <2>2 DEF NullUnblock, Phases
  <2>3. CASE /\ queueBlocked[closing] # <<>>
             /\ UnblockFirst(closing, "SEM_DELETED")
             /\ val' = [val EXCEPT ![closing] = @ + 1]
             /\ UNCHANGED phase
    <3>1. "SEM_DELETED" \in Statuses
      BY DEF Statuses
    <3>2. /\ threadState' \in [Threads -> States]
          /\ readyQueue' \in Seq(Threads)
          /\ asleep' \in Seq(Threads)
          /\ semStatus' \in [Threads -> Statuses]
          /\ mySem' \in [Threads -> Sems \cup {NoSem}]
          /\ queueBlocked' \in [Sems -> Seq(Threads)]
      BY <2>0, <2>3, <3>1, UnblockType
    <3>3. val' \in [Sems -> Int] /\ UNCHANGED phase
      BY <2>0, <2>3
    <3>4. QED
      BY <2>1, <3>2, <3>3
  <2>4. QED
    BY <1>13, <2>2, <2>3 DEF UnblockAllStep
<1>14. CASE EndSemClose
  BY <1>14 DEF EndSemClose, timeVars, Phases
<1>15. CASE TickStep
  BY <1>15, SleepTimeAssumption DEF TickStep, TimerInterrupt, IncSysTime, CpuTimeAfterTick,
     semVars, Phases
<1>16. CASE EndTickStep
  <2>1. CASE TimeSliceIsOver
    <3>1. BeginDispatch(threadState, readyQueue)
      BY <1>16, <2>1 DEF EndTickStep, EndTimerInterrupt
    <3>2. /\ running' \in Threads /\ valid' \subseteq Threads
          /\ threadState' \in [Threads -> States] /\ readyQueue' \in Seq(Threads)
          /\ cpuTime' \in Nat /\ phase' = "dispatch"
      BY <3>1, DispatchType
    <3>3. /\ cursor' = 1
          /\ UNCHANGED inCall
          /\ UNCHANGED <<sysTime, asleep, timeForWakingUp, numOfThreadsAsleep, due>>
      BY <1>16 DEF EndTickStep, EndTimerInterrupt
    <3>4. UNCHANGED <<semStatus, mySem, onSem, open, val, queueBlocked,
                      numOfTimedWaiting, closing>>
      BY <1>16 DEF EndTickStep, semVars
    <3>5. cursor' \in Nat \ {0}
      BY <3>3
    <3>6. QED
      BY <3>2, <3>3, <3>4, <3>5 DEF Phases
  <2>2. CASE ~TimeSliceIsOver
    BY <1>16, <2>2 DEF EndTickStep, EndTimerInterrupt, semVars, Phases
  <2>3. QED
    BY <2>1, <2>2
<1>17. CASE WakeThreadUp
  <2> DEFINE t == asleep[cursor]
  <2>1. t \in Threads
    BY <1>17, InList DEF WakeThreadUp, SleeperIsDue
  <2> HIDE DEF t
  <2>2. /\ RemoveSpec(asleep, t) \in Seq(Threads)
        /\ Append(readyQueue, t) \in Seq(Threads)
    BY <2>1, RemoveSpecList, AppendList
  <2>3. cursor + 1 \in Nat \ {0}
    OBVIOUS
  <2>4. CASE t \in valid /\ IsTimedWaiter(t) /\ mySem[t] # NoSem
    <3>1. mySem[t] \in Sems
      BY <2>1, <2>4
    <3>2. RemoveSpec(queueBlocked[mySem[t]], t) \in Seq(Threads)
      BY <3>1, RemoveSpecList
    <3>3. WithStatus(t, "TIMEOUT") \in [Threads -> Statuses]
          /\ WithState(t, "TIMEOUT") \in [Threads -> States]
      BY <2>1, WithStatusType DEF Statuses
    <3>4. UnblockByTime(mySem[t], t) /\ UNCHANGED cursor
      BY <1>17, <2>4 DEF WakeThreadUp, t
    <3>5. /\ UNCHANGED <<running, valid, cpuTime, phase, inCall, sysTime>>
          /\ UNCHANGED <<timeForWakingUp, numOfThreadsAsleep, due, onSem, open>>
          /\ UNCHANGED <<numOfTimedWaiting, closing>>
      BY <1>17 DEF WakeThreadUp
    <3>6. /\ asleep' \in Seq(Threads) /\ readyQueue' \in Seq(Threads)
          /\ semStatus' \in [Threads -> Statuses]
          /\ threadState' \in [Threads -> States]
          /\ cursor' \in Nat \ {0}
      BY <2>2, <3>3, <3>4 DEF UnblockByTime, Put
    <3>7. val' \in [Sems -> Int] /\ queueBlocked' \in [Sems -> Seq(Threads)]
      BY <3>1, <3>2, <3>4 DEF UnblockByTime, ValAfterTimeout, QueueAfterTimeout
    <3>8. mySem' \in [Threads -> Sems \cup {NoSem}]
      BY <3>4 DEF UnblockByTime
    <3>9. QED
      BY <3>5, <3>6, <3>7, <3>8
  <2>5. CASE ~(t \in valid /\ IsTimedWaiter(t) /\ mySem[t] # NoSem)
    <3>1. /\ UNCHANGED <<semStatus, mySem, val, queueBlocked, threadState>>
          /\ \/ asleep' = RemoveSpec(asleep, t) /\ readyQueue' = Put(readyQueue, t)
                /\ UNCHANGED cursor
             \/ cursor' = cursor + 1 /\ UNCHANGED <<asleep, readyQueue>>
      BY <1>17, <2>5 DEF WakeThreadUp, t
    <3>2. QED
      BY <1>17, <2>2, <2>3, <3>1 DEF WakeThreadUp, Put
  <2>6. QED
    BY <2>4, <2>5
<1>18. CASE ReapStep
  BY <1>18, RemoveSpecList DEF ReapStep, ReapDead, timeVars, semVars
<1>19. CASE \E t \in Threads : SwitchToUser(t)
  <2>1. PICK t \in Threads : SwitchToUser(t)
    BY <1>19
  <2>2. SwitchTo(t, "RUNNING") /\ "RUNNING" \in States
    BY <2>1 DEF SwitchToUser, States
  <2>3. UNCHANGED <<timeForWakingUp, due, numOfThreadsAsleep, semStatus, mySem,
                    onSem, numOfTimedWaiting>>
    BY <2>1 DEF SwitchToUser
  <2>4. /\ running' \in Threads /\ valid' \subseteq Threads
        /\ threadState' \in [Threads -> States] /\ readyQueue' \in Seq(Threads)
        /\ phase' \in Phases /\ phase' # "close"
        /\ inCall' \in [Threads -> Handlers]
        /\ UNCHANGED <<cpuTime, sysTime, asleep, cursor, open, val, queueBlocked,
                       closing>>
    BY <2>2, SwitchToType
  <2>5. QED
    BY <2>3, <2>4
<1>20. CASE \E t \in Threads : ReturnFromSleep(t)
  <2>1. PICK t \in Threads : ReturnFromSleep(t)
    BY <1>20
  <2>2. SwitchTo(t, "READY") /\ "READY" \in States
    BY <2>1 DEF ReturnFromSleep, StateAfterSleep, States
  <2>3. /\ timeForWakingUp' \in [Threads -> 0..TimeMod - 1]
        /\ due' \in [Threads -> Nat]
        /\ numOfThreadsAsleep' \in Int
    BY <2>1, SleepTimeAssumption DEF ReturnFromSleep
  <2>4. UNCHANGED <<semStatus, mySem, onSem, numOfTimedWaiting>>
    BY <2>1 DEF ReturnFromSleep
  <2>5. /\ running' \in Threads /\ valid' \subseteq Threads
        /\ threadState' \in [Threads -> States] /\ readyQueue' \in Seq(Threads)
        /\ phase' \in Phases /\ phase' # "close"
        /\ inCall' \in [Threads -> Handlers]
        /\ UNCHANGED <<cpuTime, sysTime, asleep, cursor, open, val, queueBlocked,
                       closing>>
    BY <2>2, SwitchToType
  <2>6. QED
    BY <2>3, <2>4, <2>5
<1>21. CASE \E t \in Threads : ReturnFromBlock(t)
  <2>1. PICK t \in Threads : ReturnFromBlock(t)
    BY <1>21
  <2>2. SwitchTo(t, "RUNNING") /\ "RUNNING" \in States
    BY <2>1 DEF ReturnFromBlock, LeaveQueue, States
  <2>3. /\ semStatus' \in [Threads -> Statuses]
        /\ mySem' \in [Threads -> Sems \cup {NoSem}]
        /\ onSem' \in [Threads -> Sems \cup {NoSem}]
    BY <2>1 DEF ReturnFromBlock, LeaveQueue, Statuses
  <2>4. UNCHANGED <<numOfTimedWaiting, timeForWakingUp, due, numOfThreadsAsleep>>
    BY <2>1 DEF ReturnFromBlock, LeaveQueue
  <2>5. /\ running' \in Threads /\ valid' \subseteq Threads
        /\ threadState' \in [Threads -> States] /\ readyQueue' \in Seq(Threads)
        /\ phase' \in Phases /\ phase' # "close"
        /\ inCall' \in [Threads -> Handlers]
        /\ UNCHANGED <<cpuTime, sysTime, asleep, cursor, open, val, queueBlocked,
                       closing>>
    BY <2>2, SwitchToType
  <2>6. QED
    BY <2>3, <2>4, <2>5
<1>22. CASE \E t \in Threads : ReturnFromTimedBlock(t)
  <2>1. PICK t \in Threads : ReturnFromTimedBlock(t)
    BY <1>22
  <2>2. 0 \in 0..TimeMod - 1
    BY SleepTimeAssumption
  <2>3. numOfTimedWaiting' \in [Sems -> 0..CountMod - 1]
    <3>1. ASSUME NEW s \in Sems PROVE CountDown(numOfTimedWaiting[s]) \in 0..CountMod - 1
      <4>1. numOfTimedWaiting[s] - 1 \in Int
        BY SemaphoresAssumption
      <4>2. QED
        BY <4>1, ModType, SemaphoresAssumption DEF CountDown
    <3>2. numOfTimedWaiting' =
              [numOfTimedWaiting EXCEPT ![onSem[t]] = CountDown(@)]
      BY <2>1 DEF ReturnFromTimedBlock
    <3>3. QED
      BY <3>1, <3>2
  <2>4. SwitchTo(t, "RUNNING") /\ "RUNNING" \in States
    BY <2>1 DEF ReturnFromTimedBlock, LeaveQueue, States
  <2>5. /\ semStatus' \in [Threads -> Statuses]
        /\ mySem' \in [Threads -> Sems \cup {NoSem}]
        /\ onSem' \in [Threads -> Sems \cup {NoSem}]
        /\ UNCHANGED numOfThreadsAsleep
    BY <2>1 DEF ReturnFromTimedBlock, LeaveQueue, Statuses
  <2>6. /\ timeForWakingUp' \in [Threads -> 0..TimeMod - 1]
        /\ due' \in [Threads -> Nat]
    BY <2>1, <2>2 DEF ReturnFromTimedBlock
  <2>7. /\ running' \in Threads /\ valid' \subseteq Threads
        /\ threadState' \in [Threads -> States] /\ readyQueue' \in Seq(Threads)
        /\ phase' \in Phases /\ phase' # "close"
        /\ inCall' \in [Threads -> Handlers]
        /\ UNCHANGED <<cpuTime, sysTime, asleep, cursor, open, val, queueBlocked,
                       closing>>
    BY <2>4, SwitchToType
  <2>8. QED
    BY <2>3, <2>5, <2>6, <2>7
<1>23. CASE OtherStep
  BY <1>23 DEF OtherStep, timeVars, semVars, Phases
<1>24. QED
  BY <1>1, <1>2, <1>3, <1>4, <1>5, <1>6, <1>7, <1>8, <1>9, <1>10, <1>11, <1>12,
     <1>13, <1>14, <1>15, <1>16, <1>17, <1>18, <1>19, <1>20, <1>21, <1>22, <1>23
  DEF KernelStep

\* TypeInv is inductive: no call, interrupt or loop of a handler breaks a type.
THEOREM TypeStep == TypeInv /\ [Next]_vars => TypeInv'
  BY StepsOfNext, FlagsType, CoreTypeStep

\* The kernel keeps the type of every field, for any number of threads and
\* semaphores and any widths.
THEOREM TypeCorrect == Spec => []TypeOK
<1>1. TypeInv => TypeOK
  BY DEF TypeInv
<1>2. QED
  BY TypeInit, TypeStep, <1>1, PTL DEF Spec

-----------------------------------------------------------------------------
\* The part of KernelInv that is not about types.
ListsInv ==
    /\ OnePlace
    /\ BlockedAgrees
    /\ NobodyForgotten
    /\ RunningCanBePut
    /\ Roles

\* A thread in the queue of a semaphore: its control block points to that
\* semaphore, which is open, and it is a program that is not finished.
LEMMA BlockedThread ==
    ASSUME KernelInv, NEW s \in Sems, NEW t \in BlockedOn(s)
    PROVE  /\ t \in Threads /\ t \in Blocked
           /\ mySem[t] = s
           /\ s \in open
           /\ t \in Programs /\ t \in valid
           /\ ~IsFinished(t)
           /\ t \notin Ready
<1>1. t \in Blocked /\ t \in valid /\ t \in Programs /\ t \in Threads /\ t \notin Ready
  <2>1. t \in Blocked
    BY DEF Blocked
  <2>2. t \in valid /\ t \notin Ready
    BY <2>1 DEF KernelInv, OnePlace
  <2>3. t \in Programs /\ t \in Threads
    BY <2>1, <2>2 DEF KernelInv, Roles, TypeOK
  <2>4. QED
    BY <2>1, <2>2, <2>3
<1>2. mySem[t] # NoSem /\ mySem[t] \in open /\ t \in BlockedOn(mySem[t])
  BY <1>1 DEF KernelInv, BlockedAgrees
<1>3. mySem[t] = s
  BY <1>2 DEF KernelInv, OnePlace, TypeOK
<1>4. ~IsFinished(t)
  BY <1>1, ThreadsAssumption DEF KernelInv, Roles, IsFinished
<1>5. QED
  BY <1>1, <1>2, <1>3, <1>4

\* A sleeper is a program that is not finished.
LEMMA SleepingThread ==
    ASSUME KernelInv, NEW t \in Sleeping
    PROVE  /\ t \in Threads /\ t \in Programs /\ t \in valid
           /\ ~IsFinished(t)
           /\ t \notin Ready
<1>1. t \in Programs /\ t \in valid /\ t \in Threads /\ t \notin Ready
  BY DEF KernelInv, OnePlace, Roles, TypeOK
<1>2. QED
  BY <1>1, ThreadsAssumption DEF KernelInv, Roles, IsFinished

\* dispatch() puts the old thread in the ready queue if it may run, deletes
\* it if it is finished, and does nothing else to the lists.
LEMMA DispatchPlaces ==
    ASSUME KernelInv, phase # "dispatch",
           NEW state \in [Threads -> States], BeginDispatch(state, readyQueue)
    PROVE  /\ phase' = "dispatch"
           /\ running' = running
           /\ IsInjective(readyQueue')
           /\ Ready' = IF ReadyToRun(state[running]) THEN Ready \cup {running} ELSE Ready
           /\ valid' = IF state[running] = "FINISHED" THEN valid \ {running} ELSE valid
           /\ \A t \in Threads : threadState'[t] = "FINISHED" <=> state[t] = "FINISHED"
<1>1. running \in Threads /\ readyQueue \in Seq(Threads) /\ running \notin Ready
      /\ IsInjective(readyQueue)
  BY DEF KernelInv, TypeOK, OnePlace
<1>2. CASE ReadyToRun(state[running])
  <2>1. /\ threadState' = [state EXCEPT ![running] = "READY"]
        /\ readyQueue' = Append(readyQueue, running)
        /\ state[running] # "FINISHED"
    BY <1>2 DEF BeginDispatch, Put, ReadyToRun
  <2>2. Ready' = Ready \cup {running} /\ IsInjective(readyQueue')
    BY <1>1, <2>1, AppendList DEF Ready
  <2>3. QED
    BY <1>1, <1>2, <2>1, <2>2 DEF BeginDispatch
<1>3. CASE ~ReadyToRun(state[running])
  BY <1>1, <1>3 DEF BeginDispatch, Ready
<1>4. QED
  BY <1>2, <1>3

-----------------------------------------------------------------------------
\* thread_dispatch and preemption keep the invariant.
LEMMA InvDispatch ==
    ASSUME KernelInv, phase # "dispatch", ReadyToRun(threadState[running]),
           BeginDispatch(threadState, readyQueue),
           UNCHANGED <<asleep, semStatus, mySem, open, val, queueBlocked, closing>>
    PROVE  ListsInv'
<1>1. threadState \in [Threads -> States] /\ running \in Threads
  BY DEF KernelInv, TypeOK
<1>2. /\ phase' = "dispatch" /\ running' = running
      /\ IsInjective(readyQueue')
      /\ Ready' = Ready \cup {running}
      /\ valid' = valid
      /\ \A t \in Threads : threadState'[t] = "FINISHED" <=> threadState[t] = "FINISHED"
  <2>1. threadState[running] # "FINISHED"
    BY DEF ReadyToRun
  <2>2. QED
    BY <1>1, <2>1, DispatchPlaces
<1>3. Sleeping' = Sleeping /\ Blocked' = Blocked /\ \A s \in Sems : BlockedOn(s)' = BlockedOn(s)
  BY DEF Sleeping, Blocked, BlockedOn
<1>4. OnePlace'
  BY <1>2, <1>3 DEF KernelInv, OnePlace, HasProcessor
<1>5. BlockedAgrees'
  BY <1>3 DEF KernelInv, BlockedAgrees, BlockedOn
<1>6. NobodyForgotten' /\ RunningCanBePut'
  BY <1>2 DEF KernelInv, NobodyForgotten, RunningCanBePut
<1>7. Roles'
  BY <1>2, <1>3 DEF KernelInv, Roles, TypeOK
<1>8. QED
  BY <1>4, <1>5, <1>6, <1>7 DEF ListsInv

\* thread_exit keeps the invariant: the control block is in no list.
LEMMA InvExit ==
    ASSUME KernelInv, ExitStep
    PROVE  ListsInv'
<1> DEFINE state == [threadState EXCEPT ![running] = "FINISHED"]
<1>1. /\ state \in [Threads -> States] /\ running \in Threads
      /\ state[running] = "FINISHED"
      /\ \A t \in Threads : t # running => state[t] = threadState[t]
  BY DEF KernelInv, TypeOK, States
<1>2. BeginDispatch(state, readyQueue) /\ phase = "user" /\ running \in Programs \cup {Idle}
      /\ UNCHANGED <<asleep, semStatus, mySem, open, val, queueBlocked, closing>>
  BY DEF ExitStep, ThreadExit, timeVars, semVars
<1> HIDE DEF state
<1>3. /\ phase' = "dispatch" /\ running' = running
      /\ IsInjective(readyQueue')
      /\ Ready' = Ready
      /\ valid' = valid \ {running}
      /\ \A t \in Threads : threadState'[t] = "FINISHED" <=> state[t] = "FINISHED"
  BY <1>1, <1>2, DispatchPlaces DEF ReadyToRun
<1>4. Sleeping' = Sleeping /\ Blocked' = Blocked /\ \A s \in Sems : BlockedOn(s)' = BlockedOn(s)
  BY <1>2 DEF Sleeping, Blocked, BlockedOn
<1>5. OnePlace'
  BY <1>2, <1>3, <1>4 DEF KernelInv, OnePlace, HasProcessor
<1>6. BlockedAgrees'
  BY <1>2, <1>4 DEF KernelInv, BlockedAgrees, BlockedOn
<1>7. NobodyForgotten' /\ RunningCanBePut'
  BY <1>2, <1>3 DEF KernelInv, NobodyForgotten, RunningCanBePut
<1>8. Roles'
  BY <1>1, <1>2, <1>3, <1>4, ThreadsAssumption DEF KernelInv, Roles, TypeOK
<1>9. QED
  BY <1>5, <1>6, <1>7, <1>8 DEF ListsInv

\* main's kill of the services keeps the invariant.
LEMMA InvKill ==
    ASSUME KernelInv, KillStep
    PROVE  ListsInv'
<1> DEFINE state == SubtleKill(threadState, Services)
<1>1. /\ state \in [Threads -> States] /\ running \in Threads
      /\ state[running] = threadState[running]
      /\ \A t \in Threads : t \notin Services => state[t] = threadState[t]
  BY ThreadsAssumption DEF KernelInv, TypeOK, States, SubtleKill, KillStep
<1>2. BeginDispatch(state, readyQueue) /\ phase = "user"
      /\ UNCHANGED <<asleep, semStatus, mySem, open, val, queueBlocked, closing>>
  BY DEF KillStep, KillServices, timeVars, semVars
<1> HIDE DEF state
<1>3. ReadyToRun(state[running]) /\ state[running] # "FINISHED"
  BY <1>1, <1>2 DEF KernelInv, RunningCanBePut, ReadyToRun
<1>4. /\ phase' = "dispatch" /\ running' = running
      /\ IsInjective(readyQueue')
      /\ Ready' = Ready \cup {running}
      /\ valid' = valid
      /\ \A t \in Threads : threadState'[t] = "FINISHED" <=> state[t] = "FINISHED"
  BY <1>1, <1>2, <1>3, DispatchPlaces
<1>5. Sleeping' = Sleeping /\ Blocked' = Blocked /\ \A s \in Sems : BlockedOn(s)' = BlockedOn(s)
  BY <1>2 DEF Sleeping, Blocked, BlockedOn
<1>6. OnePlace'
  BY <1>2, <1>4, <1>5 DEF KernelInv, OnePlace, HasProcessor
<1>7. BlockedAgrees'
  BY <1>2, <1>5 DEF KernelInv, BlockedAgrees, BlockedOn
<1>8. NobodyForgotten' /\ RunningCanBePut'
  BY <1>2, <1>4 DEF KernelInv, NobodyForgotten, RunningCanBePut
<1>9. Roles'
  BY <1>1, <1>2, <1>4, <1>5 DEF KernelInv, Roles, TypeOK
<1>10. QED
  BY <1>6, <1>7, <1>8, <1>9 DEF ListsInv

\* thread_create keeps the invariant: a new thread is in the ready queue only.
LEMMA InvCreate ==
    ASSUME KernelInv, CreateStep
    PROVE  ListsInv'
<1>1. PICK t \in Programs : NewThread(t)
  BY DEF CreateStep
<1>2. /\ phase = "user" /\ t \in Threads /\ t \notin valid
      /\ readyQueue \in Seq(Threads)
      /\ t \notin Ready /\ t \notin Sleeping /\ t \notin Blocked
  BY <1>1 DEF CreateStep, NewThread, CreateThread, KernelInv, TypeOK, OnePlace, Threads
<1>3. readyQueue' = Append(readyQueue, t)
  BY <1>1 DEF NewThread, CreateThread, Put
<1>4. IsInjective(readyQueue') /\ Ready' = Ready \cup {t}
  BY <1>2, <1>3, AppendList DEF KernelInv, OnePlace, Ready
<1>5. /\ running' = running /\ phase' = phase /\ valid' = valid \cup {t}
      /\ threadState' = [threadState EXCEPT ![t] = "READY"]
      /\ mySem' = [mySem EXCEPT ![t] = NoSem]
      /\ semStatus' = [semStatus EXCEPT ![t] = "NON_WAITING"]
      /\ UNCHANGED <<asleep, open, val, queueBlocked, closing>>
  BY <1>1 DEF NewThread, CreateThread
<1>6. Sleeping' = Sleeping /\ Blocked' = Blocked /\ \A s \in Sems : BlockedOn(s)' = BlockedOn(s)
  BY <1>5 DEF Sleeping, Blocked, BlockedOn
<1>7. OnePlace'
  BY <1>2, <1>4, <1>5, <1>6 DEF KernelInv, OnePlace, HasProcessor
<1>8. BlockedAgrees'
  BY <1>2, <1>5, <1>6 DEF KernelInv, BlockedAgrees, BlockedOn, TypeOK
<1>9. NobodyForgotten' /\ RunningCanBePut'
  BY <1>2, <1>5 DEF KernelInv, NobodyForgotten, RunningCanBePut, TypeOK, ReadyToRun
<1>10. Roles'
  BY <1>2, <1>5, <1>6 DEF KernelInv, Roles, TypeOK
<1>11. QED
  BY <1>7, <1>8, <1>9, <1>10 DEF ListsInv

\* time_sleep keeps the invariant.
LEMMA InvSleep ==
    ASSUME KernelInv, SleepStep
    PROVE  ListsInv'
<1> DEFINE state == [threadState EXCEPT ![running] = "SUSPENDED"]
<1>1. /\ state \in [Threads -> States] /\ running \in Threads
      /\ state[running] = "SUSPENDED"
      /\ \A t \in Threads : t # running => state[t] = threadState[t]
  BY DEF KernelInv, TypeOK, States
<1>2. phase = "user" /\ running \in Programs /\ UNCHANGED semVars
  BY DEF SleepStep
<1>3. /\ BeginDispatch(state, readyQueue)
      /\ \E key : asleep' = InsertSorted(asleep, running, key)
  BY DEF SleepStep, TimeSleep
<1> HIDE DEF state
<1>4. /\ phase' = "dispatch" /\ running' = running
      /\ IsInjective(readyQueue')
      /\ Ready' = Ready
      /\ valid' = valid
      /\ \A t \in Threads : threadState'[t] = "FINISHED" <=> state[t] = "FINISHED"
  BY <1>1, <1>2, <1>3, DispatchPlaces DEF ReadyToRun
<1>5. running \in valid /\ running \notin Ready /\ running \notin Sleeping /\ running \notin Blocked
  BY <1>2 DEF KernelInv, OnePlace
<1>6. Sleeping' = Sleeping \cup {running} /\ IsInjective(asleep')
  BY <1>1, <1>3, <1>5, InsertSortedList DEF KernelInv, TypeOK, OnePlace, Sleeping
<1>7. Blocked' = Blocked /\ \A s \in Sems : BlockedOn(s)' = BlockedOn(s)
  BY <1>2 DEF Blocked, BlockedOn, semVars
<1>8. OnePlace'
  BY <1>2, <1>4, <1>5, <1>6, <1>7 DEF KernelInv, OnePlace, HasProcessor, semVars
<1>9. BlockedAgrees'
  BY <1>2, <1>5, <1>6, <1>7 DEF KernelInv, BlockedAgrees, BlockedOn, semVars
<1>10. NobodyForgotten' /\ RunningCanBePut'
  BY <1>2, <1>4 DEF KernelInv, NobodyForgotten, RunningCanBePut, semVars
<1>11. Roles'
  BY <1>1, <1>2, <1>4, <1>6, <1>7, ThreadsAssumption DEF KernelInv, Roles, TypeOK, semVars
<1>12. QED
  BY <1>8, <1>9, <1>10, <1>11 DEF ListsInv

\* sem_open keeps the invariant: the memory of a semaphore is used again.
LEMMA InvOpen ==
    ASSUME KernelInv, OpenStep
    PROVE  ListsInv'
<1>1. PICK s \in Sems, n \in InitVals : SemOpen(s, n)
  BY DEF OpenStep
<1>2. /\ phase = "user" /\ s \notin open
      /\ open' = open \cup {s}
      /\ val' = [val EXCEPT ![s] = n]
      /\ queueBlocked' = [queueBlocked EXCEPT ![s] = <<>>]
      /\ UNCHANGED <<running, valid, threadState, readyQueue, phase>>
      /\ UNCHANGED <<asleep, semStatus, mySem, closing>>
  BY <1>1 DEF OpenStep, SemOpen, threadVars, timeVars
<1>3. BlockedOn(s) = {}
  BY <1>2, BlockedThread
<1>4. IsInjective(<<>>) /\ ToSet(<<>>) = {} /\ Len(<<>>) = 0
  BY DEF IsInjective, ToSet
<1>5. queueBlocked'[s] = <<>> /\ \A r \in Sems : r # s => queueBlocked'[r] = queueBlocked[r]
  BY <1>2 DEF KernelInv, TypeOK
<1>6. \A r \in Sems : BlockedOn(r)' = BlockedOn(r) /\ IsInjective(queueBlocked'[r])
  BY <1>3, <1>4, <1>5 DEF BlockedOn, KernelInv, OnePlace
<1>7. Ready' = Ready /\ Sleeping' = Sleeping /\ Blocked' = Blocked
  BY <1>2, <1>6 DEF Ready, Sleeping, Blocked
<1>8. OnePlace'
  BY <1>2, <1>6, <1>7 DEF KernelInv, OnePlace, HasProcessor
<1>9. BlockedAgrees'
  BY <1>2, <1>6, <1>7 DEF KernelInv, BlockedAgrees, TypeOK
<1>10. NobodyForgotten'
  BY <1>2, <1>4, <1>5, SemaphoresAssumption DEF KernelInv, NobodyForgotten, TypeOK
<1>11. RunningCanBePut' /\ Roles'
  BY <1>2, <1>7 DEF KernelInv, RunningCanBePut, Roles
<1>12. QED
  BY <1>8, <1>9, <1>10, <1>11 DEF ListsInv

\* wait() with a unit, and tryWait(), change val alone.
LEMMA InvTake ==
    ASSUME KernelInv, TakeStep \/ TryWaitStep
    PROVE  ListsInv'
<1>1. PICK s \in open : /\ val' = [val EXCEPT ![s] = @ - 1]
                        /\ UNCHANGED <<semStatus, mySem, open, queueBlocked, closing>>
                        /\ UNCHANGED threadVars /\ UNCHANGED asleep
  BY DEF TakeStep, TryWaitStep, TakeUnit, TryWait, timeVars
<1>2. /\ Ready' = Ready /\ Sleeping' = Sleeping /\ Blocked' = Blocked
      /\ \A r \in Sems : BlockedOn(r)' = BlockedOn(r)
  BY <1>1 DEF Ready, Sleeping, Blocked, BlockedOn, threadVars
<1>3. OnePlace' /\ BlockedAgrees' /\ RunningCanBePut' /\ Roles'
  BY <1>1, <1>2 DEF KernelInv, OnePlace, BlockedAgrees, RunningCanBePut, Roles,
     HasProcessor, BlockedOn, threadVars
<1>4. \A r \in Sems : val'[r] \in Int /\ val'[r] <= val[r]
  BY <1>1 DEF KernelInv, TypeOK
<1>5. \A r \in Sems : Len(queueBlocked[r]) \in Nat
  BY DEF KernelInv, TypeOK
<1>6. /\ open' = open /\ queueBlocked' = queueBlocked
      /\ \A r \in open : val[r] \in Int /\ r \in Sems
  BY <1>1 DEF KernelInv, TypeOK
<1>7. ASSUME NEW r \in open
      PROVE  Len(queueBlocked[r]) <= IF val'[r] < 0 THEN -val'[r] ELSE 0
  <2>1. Len(queueBlocked[r]) <= IF val[r] < 0 THEN -val[r] ELSE 0
    BY DEF KernelInv, NobodyForgotten
  <2>2. val[r] \in Int /\ val'[r] \in Int /\ val'[r] <= val[r] /\ Len(queueBlocked[r]) \in Nat
    BY <1>4, <1>5, <1>6
  <2>3. QED
    BY <2>1, <2>2
<1>8. NobodyForgotten'
  BY <1>6, <1>7 DEF NobodyForgotten
<1>9. QED
  BY <1>3, <1>8 DEF ListsInv

-----------------------------------------------------------------------------
\* The running thread enters the queue of s, and the list of sleepers when it
\* waits with a time limit.
LEMMA InvEnterQueue ==
    ASSUME KernelInv, phase = "user", running \in Programs, NEW s \in Sems,
           NEW status \in {"WAITING", "TIMEDWAITING"}, EnterQueue(s, status),
           IsInjective(asleep'),
           Sleeping' = IF status = "WAITING" THEN Sleeping ELSE Sleeping \cup {running}
    PROVE  ListsInv'
<1> DEFINE state == WithState(running, status)
<1>1. running \in Threads /\ running \in valid /\ running \notin Ready
      /\ running \notin Sleeping /\ running \notin Blocked
  BY DEF KernelInv, TypeOK, OnePlace
<1>2. ~IsFinished(running)
  BY <1>1, ThreadsAssumption DEF KernelInv, Roles, IsFinished
<1>3. /\ state \in [Threads -> States] /\ state[running] = "SUSPENDED"
      /\ \A t \in Threads : t # running => state[t] = threadState[t]
  BY <1>1, <1>2 DEF WithState, StateOfStatus, KernelInv, TypeOK, States
<1>4. /\ s \in open /\ val[s] - 1 < 0
      /\ val' = [val EXCEPT ![s] = @ - 1]
      /\ queueBlocked' = [queueBlocked EXCEPT ![s] = Append(@, running)]
      /\ semStatus' = [semStatus EXCEPT ![running] = status]
      /\ mySem' = [mySem EXCEPT ![running] = s]
      /\ BeginDispatch(state, readyQueue)
      /\ UNCHANGED <<open, closing>>
  BY <1>2 DEF EnterQueue, WaitWouldBlock, WithStatus
<1> HIDE DEF state
<1>5. /\ phase' = "dispatch" /\ running' = running
      /\ IsInjective(readyQueue')
      /\ Ready' = Ready
      /\ valid' = valid
      /\ \A t \in Threads : threadState'[t] = "FINISHED" <=> state[t] = "FINISHED"
  BY <1>3, <1>4, DispatchPlaces DEF ReadyToRun
<1>6. /\ queueBlocked[s] \in Seq(Threads) /\ IsInjective(queueBlocked[s])
      /\ running \notin ToSet(queueBlocked[s])
  BY <1>1 DEF KernelInv, TypeOK, OnePlace, Blocked, BlockedOn
<1>7. /\ queueBlocked'[s] = Append(queueBlocked[s], running)
      /\ \A r \in Sems : r # s => queueBlocked'[r] = queueBlocked[r]
  BY <1>4 DEF KernelInv, TypeOK
<1>8. /\ Len(queueBlocked'[s]) = Len(queueBlocked[s]) + 1
      /\ IsInjective(queueBlocked'[s])
      /\ BlockedOn(s)' = BlockedOn(s) \cup {running}
      /\ \A r \in Sems : r # s => BlockedOn(r)' = BlockedOn(r)
  BY <1>1, <1>6, <1>7, AppendList DEF BlockedOn
<1>9. Blocked' = Blocked \cup {running}
  BY <1>8 DEF Blocked
<1>10. OnePlace'
  <2>1. \A r \in Sems : running \notin BlockedOn(r)
    BY <1>1 DEF Blocked
  <2>2. \A r \in Sems : IsInjective(queueBlocked'[r])
    BY <1>7, <1>8 DEF KernelInv, OnePlace
  <2>3. \A r1, r2 \in Sems : r1 # r2 => BlockedOn(r1)' \cap BlockedOn(r2)' = {}
    BY <1>8, <2>1 DEF KernelInv, OnePlace
  <2>4. QED
    BY <1>1, <1>5, <1>9, <2>2, <2>3 DEF KernelInv, OnePlace, HasProcessor
<1>11. BlockedAgrees'
  <2>1. /\ mySem'[running] = s /\ semStatus'[running] = status
        /\ \A t \in Threads : t # running =>
               mySem'[t] = mySem[t] /\ semStatus'[t] = semStatus[t]
    BY <1>1, <1>4 DEF KernelInv, TypeOK
  <2>2. mySem'[running] # NoSem
    BY <2>1, SemaphoresAssumption
  <2>3. ASSUME NEW t \in Threads, t # running
        PROVE  /\ mySem'[t] # NoSem =>
                      mySem'[t] \in open' /\ t \in ToSet(queueBlocked'[mySem'[t]])
               /\ t \in Blocked' => mySem'[t] # NoSem
               /\ t \in Blocked' \ Sleeping' <=> semStatus'[t] = "WAITING"
               /\ t \in Blocked' \cap Sleeping' <=> semStatus'[t] = "TIMEDWAITING"
    <3>1. /\ mySem[t] # NoSem => mySem[t] \in open /\ t \in ToSet(queueBlocked[mySem[t]])
          /\ t \in Blocked => mySem[t] # NoSem
          /\ t \in Blocked \ Sleeping <=> semStatus[t] = "WAITING"
          /\ t \in Blocked \cap Sleeping <=> semStatus[t] = "TIMEDWAITING"
      BY DEF KernelInv, BlockedAgrees, BlockedOn
    <3>2. mySem[t] # NoSem => t \in ToSet(queueBlocked'[mySem[t]])
      <4>1. mySem[t] # NoSem => mySem[t] \in Sems
        BY <3>1 DEF KernelInv, TypeOK
      <4>2. QED
        BY <1>8, <3>1, <4>1 DEF BlockedOn
    <3>3. /\ t \in Blocked' <=> t \in Blocked
          /\ t \in Sleeping' <=> t \in Sleeping
      BY <1>9, <2>3
    <3>4. QED
      BY <1>4, <2>1, <2>3, <3>1, <3>2, <3>3
  <2>4. /\ mySem'[running] \in open' /\ running \in ToSet(queueBlocked'[mySem'[running]])
        /\ running \in Blocked'
        /\ running \in Sleeping' <=> status # "WAITING"
    BY <1>1, <1>4, <1>8, <1>9, <2>1 DEF BlockedOn
  <2>5. QED
    BY <2>1, <2>2, <2>3, <2>4 DEF BlockedAgrees, BlockedOn
<1>12. NobodyForgotten'
  <2>1. ASSUME NEW r \in open, r # s
        PROVE  Len(queueBlocked'[r]) <= IF val'[r] < 0 THEN -val'[r] ELSE 0
    BY <1>4, <1>7, <2>1 DEF KernelInv, NobodyForgotten, TypeOK
  <2>2. Len(queueBlocked'[s]) <= IF val'[s] < 0 THEN -val'[s] ELSE 0
    <3>1. val[s] \in Int /\ val'[s] = val[s] - 1 /\ val[s] <= 0
      BY <1>4 DEF KernelInv, TypeOK
    <3>2. Len(queueBlocked[s]) <= -val[s]
      BY <1>4, <3>1 DEF KernelInv, NobodyForgotten
    <3>3. Len(queueBlocked[s]) \in Nat
      BY <1>6
    <3>4. QED
      BY <1>8, <3>1, <3>2, <3>3
  <2>3. QED
    BY <1>4, <2>1, <2>2 DEF NobodyForgotten
<1>13. RunningCanBePut' /\ Roles'
  <2>1. RunningCanBePut'
    BY <1>5 DEF RunningCanBePut
  <2>2. \A t \in valid' : threadState'[t] = "FINISHED" => t \in Services
    BY <1>3, <1>5 DEF KernelInv, Roles, TypeOK
  <2>3. QED
    BY <1>5, <1>9, <2>1, <2>2 DEF KernelInv, Roles
<1>14. QED
  BY <1>10, <1>11, <1>12, <1>13 DEF ListsInv

\* A wait that blocks, timed or not, keeps the invariant.
LEMMA InvBlock ==
    ASSUME KernelInv, BlockStep \/ TimedBlockStep
    PROVE  ListsInv'
<1>1. CASE BlockStep
  <2>1. PICK s \in Sems : Block(s)
    BY <1>1 DEF BlockStep
  <2>2. EnterQueue(s, "WAITING") /\ UNCHANGED asleep /\ phase = "user" /\ running \in Programs
    BY <1>1, <2>1 DEF BlockStep, Block, timeVars
  <2>3. IsInjective(asleep') /\ Sleeping' = Sleeping
    BY <2>2 DEF KernelInv, OnePlace, Sleeping
  <2>4. QED
    BY <2>2, <2>3, InvEnterQueue
<1>2. CASE TimedBlockStep
  <2>1. PICK s \in Sems, d \in Delays : TimedBlock(s, d)
    BY <1>2 DEF TimedBlockStep
  <2>2. /\ EnterQueue(s, "TIMEDWAITING")
        /\ phase = "user" /\ running \in Programs
        /\ \E key : asleep' = InsertSorted(asleep, running, key)
    BY <1>2, <2>1 DEF TimedBlockStep, TimedBlock
  <2>3. running \in Threads /\ running \notin Sleeping
    BY <2>2 DEF KernelInv, TypeOK, OnePlace
  <2>4. IsInjective(asleep') /\ Sleeping' = Sleeping \cup {running}
    BY <2>2, <2>3, InsertSortedList DEF KernelInv, TypeOK, OnePlace, Sleeping
  <2>5. QED
    BY <2>2, <2>4, InvEnterQueue
<1>3. QED
  BY <1>1, <1>2

-----------------------------------------------------------------------------
\* A thread t leaves the queue of s, whoever wakes it: it also leaves the list
\* of sleepers if it is there, and becomes ready.
LEMMA InvLeaveQueue ==
    ASSUME KernelInv, phase # "dispatch", NEW s \in Sems, NEW t \in BlockedOn(s),
           NEW cause \in {"REGULARLY_WAITED", "SEM_DELETED", "TIMEOUT"},
           NEW q \in Seq(Threads), IsInjective(q), ToSet(q) = BlockedOn(s) \ {t},
           Len(q) = Len(queueBlocked[s]) - 1,
           queueBlocked' = [queueBlocked EXCEPT ![s] = q],
           val' = [val EXCEPT ![s] = @ + 1],
           IsInjective(asleep'), Sleeping' = Sleeping \ {t},
           mySem' = [mySem EXCEPT ![t] = NoSem],
           semStatus' = WithStatus(t, cause),
           threadState' = WithState(t, cause),
           readyQueue' = Put(readyQueue, t),
           UNCHANGED <<running, valid, phase, open, closing>>
    PROVE  ListsInv'
<1>1. /\ t \in Threads /\ t \in Blocked /\ mySem[t] = s /\ s \in open
      /\ t \in Programs /\ t \in valid /\ ~IsFinished(t) /\ t \notin Ready
  BY BlockedThread
<1>2. t # running
  BY <1>1 DEF KernelInv, OnePlace
<1>3. /\ semStatus' = [semStatus EXCEPT ![t] = cause]
      /\ threadState' = [threadState EXCEPT ![t] = "READY"]
  BY <1>1, <1>2 DEF WithStatus, WithState, StateOfStatus
<1>4. Ready' = Ready \cup {t} /\ IsInjective(readyQueue')
  <2>1. readyQueue' = Append(readyQueue, t) /\ readyQueue \in Seq(Threads)
        /\ IsInjective(readyQueue)
    BY DEF Put, KernelInv, TypeOK, OnePlace
  <2>2. QED
    BY <1>1, <2>1, AppendList DEF Ready
<1>5. /\ queueBlocked'[s] = q
      /\ \A r \in Sems : r # s => queueBlocked'[r] = queueBlocked[r]
      /\ \A r \in Sems : r # s => t \notin BlockedOn(r)
  BY DEF KernelInv, TypeOK, OnePlace
<1>6. \A r \in Sems : BlockedOn(r)' = BlockedOn(r) \ {t} /\ IsInjective(queueBlocked'[r])
  BY <1>5 DEF BlockedOn, KernelInv, OnePlace
<1>7. Blocked' = Blocked \ {t}
  BY <1>6 DEF Blocked
<1>8. OnePlace'
  <2>1. \A r1, r2 \in Sems : r1 # r2 => BlockedOn(r1)' \cap BlockedOn(r2)' = {}
    BY <1>6 DEF KernelInv, OnePlace
  <2>2. QED
    BY <1>1, <1>2, <1>4, <1>6, <1>7, <2>1 DEF KernelInv, OnePlace, HasProcessor
<1>9. BlockedAgrees'
  <2>1. /\ mySem'[t] = NoSem /\ semStatus'[t] = cause
        /\ \A u \in Threads : u # t => mySem'[u] = mySem[u] /\ semStatus'[u] = semStatus[u]
    BY <1>1, <1>3 DEF KernelInv, TypeOK
  <2>2. ASSUME NEW u \in Threads, u # t
        PROVE  /\ mySem'[u] # NoSem =>
                      mySem'[u] \in open' /\ u \in ToSet(queueBlocked'[mySem'[u]])
               /\ u \in Blocked' => mySem'[u] # NoSem
               /\ u \in Blocked' \ Sleeping' <=> semStatus'[u] = "WAITING"
               /\ u \in Blocked' \cap Sleeping' <=> semStatus'[u] = "TIMEDWAITING"
    <3>1. /\ mySem[u] # NoSem => mySem[u] \in open /\ u \in ToSet(queueBlocked[mySem[u]])
          /\ u \in Blocked => mySem[u] # NoSem
          /\ u \in Blocked \ Sleeping <=> semStatus[u] = "WAITING"
          /\ u \in Blocked \cap Sleeping <=> semStatus[u] = "TIMEDWAITING"
      BY DEF KernelInv, BlockedAgrees, BlockedOn
    <3>2. mySem[u] # NoSem => u \in ToSet(queueBlocked'[mySem[u]])
      <4>1. mySem[u] # NoSem => mySem[u] \in Sems
        BY <3>1 DEF KernelInv, TypeOK
      <4>2. QED
        BY <1>6, <2>2, <3>1, <4>1 DEF BlockedOn
    <3>3. /\ u \in Blocked' <=> u \in Blocked
          /\ u \in Sleeping' <=> u \in Sleeping
      BY <1>7, <2>2
    <3>4. QED
      BY <2>1, <2>2, <3>1, <3>2, <3>3
  <2>3. t \notin Blocked'
    BY <1>7
  <2>4. QED
    BY <2>1, <2>2, <2>3 DEF BlockedAgrees, BlockedOn
<1>10. NobodyForgotten'
  <2>1. ASSUME NEW r \in open, r # s
        PROVE  Len(queueBlocked'[r]) <= IF val'[r] < 0 THEN -val'[r] ELSE 0
    BY <1>5, <2>1 DEF KernelInv, NobodyForgotten, TypeOK
  <2>2. Len(queueBlocked'[s]) <= IF val'[s] < 0 THEN -val'[s] ELSE 0
    <3>1. val[s] \in Int /\ val'[s] = val[s] + 1
      BY DEF KernelInv, TypeOK
    <3>2. Len(queueBlocked[s]) <= IF val[s] < 0 THEN -val[s] ELSE 0
      BY <1>1 DEF KernelInv, NobodyForgotten
    <3>3. Len(q) \in Nat /\ Len(queueBlocked[s]) \in Nat
      BY DEF KernelInv, TypeOK
    <3>4. QED
      BY <1>5, <3>1, <3>2, <3>3
  <2>3. QED
    BY <2>1, <2>2 DEF NobodyForgotten
<1>11. RunningCanBePut'
  BY <1>2, <1>3 DEF KernelInv, RunningCanBePut, TypeOK
<1>12. Roles'
  <2>1. \A u \in valid' : threadState'[u] = "FINISHED" => u \in Services
    BY <1>1, <1>3 DEF KernelInv, Roles, TypeOK
  <2>2. QED
    BY <1>7, <2>1 DEF KernelInv, Roles
<1>13. QED
  BY <1>8, <1>9, <1>10, <1>11, <1>12 DEF ListsInv

\* signal() and the close loop wake the first thread of the queue.
LEMMA InvUnblockFirst ==
    ASSUME KernelInv, phase # "dispatch", NEW s \in Sems, queueBlocked[s] # <<>>,
           NEW cause \in {"REGULARLY_WAITED", "SEM_DELETED"},
           UnblockFirst(s, cause),
           val' = [val EXCEPT ![s] = @ + 1],
           UNCHANGED <<running, valid, phase, open, closing>>
    PROVE  ListsInv'
<1> DEFINE t == Head(queueBlocked[s])
           q == Tail(queueBlocked[s])
<1>1. queueBlocked[s] \in Seq(Threads) /\ IsInjective(queueBlocked[s])
  BY DEF KernelInv, TypeOK, OnePlace
<1>2. /\ t \in BlockedOn(s)
      /\ q \in Seq(Threads) /\ IsInjective(q) /\ ToSet(q) = BlockedOn(s) \ {t}
      /\ Len(q) = Len(queueBlocked[s]) - 1
  BY <1>1, TailList DEF BlockedOn
<1>3. /\ queueBlocked' = [queueBlocked EXCEPT ![s] = q]
      /\ asleep' = SleepersAfterUnblock(t)
      /\ mySem' = [mySem EXCEPT ![t] = NoSem]
      /\ semStatus' = WithStatus(t, cause)
      /\ threadState' = WithState(t, cause)
      /\ readyQueue' = Put(readyQueue, t)
  BY DEF UnblockFirst
<1> HIDE DEF t, q
<1>4. asleep \in Seq(Threads) /\ IsInjective(asleep)
  BY DEF KernelInv, TypeOK, OnePlace
<1>5. t \in Threads /\ t \in Blocked
  BY <1>2, BlockedThread
<1>6. IsInjective(asleep') /\ Sleeping' = Sleeping \ {t}
  <2>1. CASE semStatus[t] = "TIMEDWAITING"
    BY <1>3, <1>4, <2>1, RemoveSpecList DEF SleepersAfterUnblock, Sleeping
  <2>2. CASE semStatus[t] # "TIMEDWAITING"
    <3>1. t \notin Sleeping
      BY <1>5, <2>2 DEF KernelInv, BlockedAgrees
    <3>2. asleep' = asleep
      BY <1>3, <2>2 DEF SleepersAfterUnblock
    <3>3. QED
      BY <1>4, <3>1, <3>2 DEF Sleeping
  <2>3. QED
    BY <2>1, <2>2
<1>7. QED
  BY <1>2, <1>3, <1>6, InvLeaveQueue

\* A step that moves no thread from one list to another.
LEMMA InvSameLists ==
    ASSUME KernelInv, phase # "dispatch", phase' # "dispatch",
           NobodyForgotten', RunningCanBePut',
           phase' = "close" => closing' \in open',
           \A s \in Sems : BlockedOn(s) = {} \/ (s \in open => s \in open'),
           UNCHANGED <<running, valid, threadState, readyQueue, asleep>>,
           UNCHANGED <<semStatus, mySem, queueBlocked>>
    PROVE  ListsInv'
<1>1. /\ Ready' = Ready /\ Sleeping' = Sleeping /\ Blocked' = Blocked
      /\ \A s \in Sems : BlockedOn(s)' = BlockedOn(s)
  BY DEF Ready, Sleeping, Blocked, BlockedOn
<1>2. OnePlace' /\ Roles'
  BY <1>1 DEF KernelInv, OnePlace, Roles, HasProcessor
<1>3. BlockedAgrees'
  <2>1. ASSUME NEW t \in Threads, mySem[t] # NoSem PROVE mySem[t] \in open'
    <3>1. mySem[t] \in open /\ t \in BlockedOn(mySem[t])
      BY <2>1 DEF KernelInv, BlockedAgrees
    <3>2. QED
      BY <3>1 DEF KernelInv, TypeOK
  <2>2. QED
    BY <1>1, <2>1 DEF KernelInv, BlockedAgrees, BlockedOn
<1>4. QED
  BY <1>2, <1>3 DEF ListsInv

\* sem_signal keeps the invariant: a timed waiter leaves both lists.
LEMMA InvSignal ==
    ASSUME KernelInv, SignalStep
    PROVE  ListsInv'
<1>1. PICK s \in Sems : SemSignal(s)
  BY DEF SignalStep
<1>2. /\ phase = "user" /\ s \in open
      /\ val' = [val EXCEPT ![s] = @ + 1]
      /\ UNCHANGED <<running, valid, open, closing>>
  BY <1>1 DEF SignalStep, SemSignal
<1>3. val[s] \in Int /\ val'[s] = val[s] + 1 /\ \A r \in Sems : r # s => val'[r] = val[r]
  BY <1>2 DEF KernelInv, TypeOK
<1>4. CASE SignalWakes(val[s]) /\ queueBlocked[s] # <<>>
  <2>1. UnblockFirst(s, "REGULARLY_WAITED") /\ UNCHANGED phase
    BY <1>1, <1>4 DEF SemSignal, NullUnblock
  <2>2. QED
    BY <1>2, <1>4, <2>1, InvUnblockFirst
<1>5. CASE ~(SignalWakes(val[s]) /\ queueBlocked[s] # <<>>)
  <2>1. /\ phase' \in {"user", "fault"}
        /\ UNCHANGED <<threadState, readyQueue, asleep, semStatus, mySem, queueBlocked>>
        /\ ~SignalWakes(val[s]) \/ queueBlocked[s] = <<>>
    BY <1>1, <1>2, <1>5 DEF SemSignal, NullUnblock
  <2>2. Len(queueBlocked[s]) = 0
    <3>1. CASE queueBlocked[s] = <<>>
      BY <3>1
    <3>2. CASE ~SignalWakes(val[s])
      <4>1. Len(queueBlocked[s]) \in Nat
        BY DEF KernelInv, TypeOK
      <4>2. Len(queueBlocked[s]) <= 0
        BY <1>2, <1>3, <3>2 DEF KernelInv, NobodyForgotten, SignalWakes
      <4>3. QED
        BY <4>1, <4>2
    <3>3. QED
      BY <2>1, <3>1, <3>2
  <2>3. NobodyForgotten'
    <3>1. \A r \in open : r # s =>
              Len(queueBlocked'[r]) <= IF val'[r] < 0 THEN -val'[r] ELSE 0
      BY <1>3, <2>1 DEF KernelInv, NobodyForgotten, TypeOK
    <3>2. Len(queueBlocked'[s]) <= IF val'[s] < 0 THEN -val'[s] ELSE 0
      BY <1>3, <2>1, <2>2
    <3>3. QED
      BY <1>2, <3>1, <3>2 DEF NobodyForgotten
  <2>4. RunningCanBePut'
    BY <1>2, <2>1 DEF KernelInv, RunningCanBePut
  <2>5. QED
    BY <1>2, <2>1, <2>3, <2>4, InvSameLists
<1>6. QED
  BY <1>4, <1>5

\* A turn of the loop of sem_close keeps the invariant.
LEMMA InvUnblockAll ==
    ASSUME KernelInv, UnblockAllStep
    PROVE  ListsInv'
<1>1. /\ phase = "close" /\ closing \in Sems
      /\ UNCHANGED <<running, valid, open, closing>>
  BY DEF UnblockAllStep, KernelInv, Roles, TypeOK
<1>2. CASE queueBlocked[closing] # <<>>
  <2>1. /\ UnblockFirst(closing, "SEM_DELETED")
        /\ val' = [val EXCEPT ![closing] = @ + 1]
        /\ UNCHANGED phase
    BY <1>2 DEF UnblockAllStep, NullUnblock
  <2>2. QED
    BY <1>1, <1>2, <2>1, InvUnblockFirst
<1>3. CASE queueBlocked[closing] = <<>>
  <2>1. /\ phase' = "fault"
        /\ UNCHANGED <<threadState, readyQueue, asleep, semStatus, mySem, queueBlocked, val>>
    BY <1>3 DEF UnblockAllStep, NullUnblock
  <2>2. NobodyForgotten' /\ RunningCanBePut'
    BY <1>1, <2>1 DEF KernelInv, NobodyForgotten, RunningCanBePut
  <2>3. QED
    BY <1>1, <2>1, <2>2, InvSameLists
<1>4. QED
  BY <1>2, <1>3

\* Steps that move no thread keep the invariant.
LEMMA InvCloseTickOther ==
    ASSUME KernelInv, CloseStep \/ TickStep \/ (OtherStep /\ phase # "dispatch")
    PROVE  ListsInv'
<1>1. /\ phase # "dispatch" /\ phase' # "dispatch"
      /\ UNCHANGED <<running, valid, threadState, readyQueue, asleep>>
      /\ UNCHANGED <<semStatus, mySem, queueBlocked, open, val>>
  BY DEF CloseStep, SemClose, TickStep, TimerInterrupt, OtherStep, timeVars, semVars
<1>2. phase' = "close" => closing' \in open'
  BY DEF CloseStep, SemClose, TickStep, TimerInterrupt, OtherStep, timeVars, semVars,
     KernelInv, Roles
<1>3. phase' \in {"user", "wake", "close"} => phase \in {"user", "wake", "close"}
  BY DEF CloseStep, TickStep, TimerInterrupt, OtherStep
<1>4. NobodyForgotten' /\ RunningCanBePut'
  BY <1>1, <1>3 DEF KernelInv, NobodyForgotten, RunningCanBePut
<1>5. QED
  BY <1>1, <1>2, <1>4, InvSameLists

\* The end of sem_close keeps the invariant: nobody points to freed memory.
LEMMA InvEndClose ==
    ASSUME KernelInv, EndSemClose
    PROVE  ListsInv'
<1>1. /\ phase = "close" /\ phase' = "user" /\ val[closing] >= 0
      /\ closing \in open
      /\ open' = open \ {closing}
      /\ UNCHANGED <<running, valid, threadState, readyQueue, asleep>>
      /\ UNCHANGED <<semStatus, mySem, queueBlocked, val>>
  BY DEF EndSemClose, timeVars, KernelInv, Roles
<1>2. BlockedOn(closing) = {}
  <2>1. closing \in Sems /\ queueBlocked[closing] \in Seq(Threads) /\ val[closing] \in Int
    BY <1>1 DEF KernelInv, TypeOK
  <2>2. Len(queueBlocked[closing]) <= 0
    BY <1>1, <2>1 DEF KernelInv, NobodyForgotten
  <2>3. QED
    BY <2>1, <2>2, InList DEF BlockedOn
<1>3. NobodyForgotten' /\ RunningCanBePut'
  BY <1>1 DEF KernelInv, NobodyForgotten, RunningCanBePut
<1>4. \A s \in Sems : BlockedOn(s) = {} \/ (s \in open => s \in open')
  BY <1>1, <1>2
<1>5. QED
  BY <1>1, <1>3, <1>4, InvSameLists

\* The end of the timer interrupt keeps the invariant.
LEMMA InvEndTick ==
    ASSUME KernelInv, EndTickStep
    PROVE  ListsInv'
<1>1. /\ phase = "wake"
      /\ UNCHANGED <<asleep, semStatus, mySem, open, val, queueBlocked, closing>>
  BY DEF EndTickStep, EndTimerInterrupt, semVars
<1>2. ReadyToRun(threadState[running])
  BY <1>1 DEF KernelInv, RunningCanBePut
<1>3. CASE TimeSliceIsOver
  <2>1. BeginDispatch(threadState, readyQueue)
    BY <1>3 DEF EndTickStep, EndTimerInterrupt
  <2>2. QED
    BY <1>1, <1>2, <2>1, InvDispatch
<1>4. CASE ~TimeSliceIsOver
  <2>1. phase' = "user" /\ UNCHANGED <<running, valid, threadState, readyQueue>>
    BY <1>4 DEF EndTickStep, EndTimerInterrupt
  <2>2. NobodyForgotten' /\ RunningCanBePut'
    BY <1>1, <1>2, <2>1 DEF KernelInv, NobodyForgotten, RunningCanBePut
  <2>3. QED
    BY <1>1, <2>1, <2>2, InvSameLists
<1>5. QED
  BY <1>3, <1>4

-----------------------------------------------------------------------------
\* The timer wakes the sleeper at the cursor.
LEMMA InvWake ==
    ASSUME KernelInv, WakeThreadUp
    PROVE  ListsInv'
<1> DEFINE t == asleep[cursor]
<1>1. /\ phase = "wake" /\ cursor <= Len(asleep)
      /\ UNCHANGED <<running, valid, phase, open, closing>>
  BY DEF WakeThreadUp, SleeperIsDue
<1>2. asleep \in Seq(Threads) /\ IsInjective(asleep) /\ cursor \in 1..Len(asleep)
  BY <1>1 DEF KernelInv, TypeOK, OnePlace
<1>3. t \in Sleeping
  BY <1>2, InList DEF Sleeping
<1>4. /\ IsTimedWaiter(t) /\ t \in valid /\ mySem[t] # NoSem =>
             UnblockByTime(mySem[t], t) /\ UNCHANGED cursor
      /\ t \in valid /\ ~IsTimedWaiter(t) =>
             /\ asleep' = RemoveSpec(asleep, t)
             /\ readyQueue' = Put(readyQueue, t)
             /\ UNCHANGED <<semStatus, mySem, val, queueBlocked, threadState>>
  BY DEF WakeThreadUp
<1> HIDE DEF t
<1>5. t \in Threads /\ t \in Programs /\ t \in valid /\ ~IsFinished(t) /\ t \notin Ready
  BY <1>3, SleepingThread
<1>6. IsInjective(RemoveSpec(asleep, t)) /\ ToSet(RemoveSpec(asleep, t)) = Sleeping \ {t}
  BY <1>2, RemoveSpecList DEF Sleeping
<1>7. CASE IsTimedWaiter(t)
  <2> DEFINE s == mySem[t]
             q == RemoveSpec(queueBlocked[s], t)
  <2>1. t \in Blocked /\ s # NoSem /\ s \in open /\ t \in BlockedOn(s)
    BY <1>5, <1>7 DEF KernelInv, BlockedAgrees, IsTimedWaiter
  <2>2. s \in Sems /\ queueBlocked[s] \in Seq(Threads) /\ IsInjective(queueBlocked[s])
    BY <2>1 DEF KernelInv, TypeOK, OnePlace
  <2>3. /\ q \in Seq(Threads) /\ IsInjective(q) /\ ToSet(q) = BlockedOn(s) \ {t}
        /\ Len(q) = Len(queueBlocked[s]) - 1
    BY <2>1, <2>2, RemoveSpecList DEF BlockedOn
  <2>4. UnblockByTime(s, t)
    BY <1>4, <1>5, <1>7, <2>1
  <2>5. /\ queueBlocked' = [queueBlocked EXCEPT ![s] = q]
        /\ val' = [val EXCEPT ![s] = @ + 1]
        /\ asleep' = RemoveSpec(asleep, t)
        /\ mySem' = [mySem EXCEPT ![t] = NoSem]
        /\ semStatus' = WithStatus(t, "TIMEOUT")
        /\ threadState' = WithState(t, "TIMEOUT")
        /\ readyQueue' = Put(readyQueue, t)
    BY <2>4 DEF UnblockByTime, ValAfterTimeout, QueueAfterTimeout
  <2> HIDE DEF s, q
  <2>6. IsInjective(asleep') /\ Sleeping' = Sleeping \ {t}
    BY <1>6, <2>5 DEF Sleeping
  <2>7. QED
    BY <1>1, <2>1, <2>2, <2>3, <2>5, <2>6, InvLeaveQueue
<1>8. CASE ~IsTimedWaiter(t)
  <2>1. /\ asleep' = RemoveSpec(asleep, t)
        /\ readyQueue' = Append(readyQueue, t)
        /\ UNCHANGED <<semStatus, mySem, val, queueBlocked, threadState>>
    BY <1>4, <1>5, <1>8 DEF Put
  <2>2. t \notin Blocked
    BY <1>3, <1>5, <1>8 DEF KernelInv, BlockedAgrees, IsTimedWaiter
  <2>3. IsInjective(asleep') /\ Sleeping' = Sleeping \ {t}
    BY <1>6, <2>1 DEF Sleeping
  <2>4. IsInjective(readyQueue') /\ Ready' = Ready \cup {t}
    BY <1>5, <2>1, AppendList DEF KernelInv, TypeOK, OnePlace, Ready
  <2>5. Blocked' = Blocked /\ \A s \in Sems : BlockedOn(s)' = BlockedOn(s)
    BY <2>1 DEF Blocked, BlockedOn
  <2>6. OnePlace'
    BY <1>1, <1>3, <1>5, <2>1, <2>2, <2>3, <2>4, <2>5 DEF KernelInv, OnePlace, HasProcessor
  <2>7. BlockedAgrees'
    BY <1>1, <2>1, <2>2, <2>3, <2>5 DEF KernelInv, BlockedAgrees, BlockedOn
  <2>8. NobodyForgotten' /\ RunningCanBePut' /\ Roles'
    BY <1>1, <2>1, <2>3, <2>5 DEF KernelInv, NobodyForgotten, RunningCanBePut, Roles
  <2>9. QED
    BY <2>6, <2>7, <2>8 DEF ListsInv
<1>9. QED
  BY <1>7, <1>8

\* dispatch() deletes a dead thread at the front of the ready queue.
LEMMA InvReap ==
    ASSUME KernelInv, ReapStep
    PROVE  ListsInv'
<1> DEFINE t == Head(readyQueue)
<1>1. /\ phase = "dispatch" /\ readyQueue # <<>> /\ ThreadDead(t)
      /\ readyQueue' = RemoveSpec(readyQueue, t)
      /\ valid' = valid \ {t}
      /\ UNCHANGED <<running, threadState, phase, asleep>>
      /\ UNCHANGED <<semStatus, mySem, open, val, queueBlocked, closing>>
  BY DEF ReapStep, ReapDead, timeVars, semVars
<1>2. readyQueue \in Seq(Threads) /\ IsInjective(readyQueue)
  BY DEF KernelInv, TypeOK, OnePlace
<1>3. t \in Ready
  BY <1>1, <1>2, TailList DEF Ready
<1> HIDE DEF t
<1>4. Ready' = Ready \ {t} /\ IsInjective(readyQueue')
  BY <1>1, <1>2, RemoveSpecList DEF Ready
<1>5. Sleeping' = Sleeping /\ Blocked' = Blocked /\ \A s \in Sems : BlockedOn(s)' = BlockedOn(s)
  BY <1>1 DEF Sleeping, Blocked, BlockedOn
<1>6. t # Main
  BY <1>1, <1>3, ThreadsAssumption DEF KernelInv, Roles, ThreadDead, IsFinished
<1>7. OnePlace'
  BY <1>1, <1>3, <1>4, <1>5 DEF KernelInv, OnePlace, HasProcessor
<1>8. BlockedAgrees'
  BY <1>1, <1>5 DEF KernelInv, BlockedAgrees, BlockedOn
<1>9. NobodyForgotten' /\ RunningCanBePut' /\ Roles'
  BY <1>1, <1>5, <1>6 DEF KernelInv, NobodyForgotten, RunningCanBePut, Roles
<1>10. QED
  BY <1>7, <1>8, <1>9 DEF ListsInv

\* The first ready thread gets the processor and leaves the call it slept in.
LEMMA InvSwitch ==
    ASSUME KernelInv, NEW t \in Threads,
           \/ SwitchToUser(t) \/ ReturnFromSleep(t)
           \/ ReturnFromBlock(t) \/ ReturnFromTimedBlock(t)
    PROVE  ListsInv'
<1>1. PICK state \in {"RUNNING", "READY"} : SwitchTo(t, state)
  BY DEF SwitchToUser, ReturnFromSleep, StateAfterSleep, ReturnFromBlock,
     ReturnFromTimedBlock, LeaveQueue
<1>2. /\ phase = "dispatch" /\ phase' = "user" /\ running' = t
      /\ readyQueue # <<>> /\ t = Head(readyQueue) /\ readyQueue' = Tail(readyQueue)
      /\ threadState' = [threadState EXCEPT ![t] = state]
      /\ UNCHANGED <<valid, asleep, open, val, queueBlocked, closing>>
  BY <1>1 DEF SwitchTo
<1>3. \/ UNCHANGED <<semStatus, mySem>>
      \/ /\ mySem' = [mySem EXCEPT ![t] = NoSem]
         /\ semStatus' = [semStatus EXCEPT ![t] = "NON_WAITING"]
  BY DEF SwitchToUser, ReturnFromSleep, ReturnFromBlock, ReturnFromTimedBlock, LeaveQueue
<1>4. /\ t \in Ready /\ t \in valid /\ t \notin Sleeping /\ t \notin Blocked
      /\ Ready' = Ready \ {t} /\ IsInjective(readyQueue')
  <2>1. readyQueue \in Seq(Threads) /\ IsInjective(readyQueue)
    BY DEF KernelInv, TypeOK, OnePlace
  <2>2. t \in Ready /\ Ready' = Ready \ {t} /\ IsInjective(readyQueue')
    BY <1>2, <2>1, TailList DEF Ready
  <2>3. QED
    BY <2>2 DEF KernelInv, OnePlace
<1>5. Sleeping' = Sleeping /\ Blocked' = Blocked /\ \A s \in Sems : BlockedOn(s)' = BlockedOn(s)
  BY <1>2 DEF Sleeping, Blocked, BlockedOn
<1>6. OnePlace'
  BY <1>2, <1>4, <1>5 DEF KernelInv, OnePlace, HasProcessor
<1>7. BlockedAgrees'
  <2>1. mySem[t] = NoSem /\ semStatus[t] \notin {"WAITING", "TIMEDWAITING"}
    <3>1. \A s \in Sems : t \notin BlockedOn(s)
      BY <1>4 DEF Blocked
    <3>2. QED
      BY <1>4, <3>1 DEF KernelInv, BlockedAgrees, TypeOK
  <2>2. /\ mySem' = mySem
        /\ \A u \in Threads : u # t => semStatus'[u] = semStatus[u]
        /\ semStatus'[t] \notin {"WAITING", "TIMEDWAITING"}
    BY <1>3, <2>1 DEF KernelInv, TypeOK
  <2>3. QED
    BY <1>2, <1>4, <1>5, <2>2 DEF KernelInv, BlockedAgrees, BlockedOn
<1>8. NobodyForgotten'
  BY <1>2 DEF KernelInv, NobodyForgotten
<1>9. RunningCanBePut'
  BY <1>2 DEF KernelInv, TypeOK, RunningCanBePut, ReadyToRun
<1>10. Roles'
  BY <1>2, <1>5 DEF KernelInv, Roles, TypeOK
<1>11. QED
  BY <1>6, <1>7, <1>8, <1>9, <1>10 DEF ListsInv

\* A step that changes none of the lists keeps the invariant.
LEMMA InvOther ==
    ASSUME KernelInv, OtherStep, phase = "dispatch"
    PROVE  ListsInv'
<1>1. /\ phase' = "dispatch"
      /\ UNCHANGED <<running, valid, threadState, readyQueue, asleep>>
      /\ UNCHANGED <<semStatus, mySem, open, val, queueBlocked, closing>>
  BY DEF OtherStep, timeVars, semVars
<1>2. /\ Ready' = Ready /\ Sleeping' = Sleeping /\ Blocked' = Blocked
      /\ \A s \in Sems : BlockedOn(s)' = BlockedOn(s)
  BY <1>1 DEF Ready, Sleeping, Blocked, BlockedOn
<1>3. OnePlace' /\ NobodyForgotten' /\ RunningCanBePut' /\ Roles'
  BY <1>1, <1>2 DEF KernelInv, OnePlace, NobodyForgotten, RunningCanBePut, Roles, HasProcessor
<1>4. BlockedAgrees'
  BY <1>1, <1>2 DEF KernelInv, BlockedAgrees, BlockedOn
<1>5. QED
  BY <1>3, <1>4 DEF ListsInv

-----------------------------------------------------------------------------
\* The kernel starts in its invariant.
THEOREM KernelInvInit == Init => KernelInv
<1> SUFFICES ASSUME Init PROVE KernelInv
  OBVIOUS
<1>1. TypeOK
  BY TypeInit DEF TypeInv
<1>2. /\ running = Main /\ valid = {Main, Idle} \cup Services /\ phase = "user"
      /\ readyQueue = BootOrder /\ asleep = <<>> /\ open = {}
      /\ threadState = [t \in Threads |-> IF t = Main THEN "RUNNING" ELSE "READY"]
      /\ semStatus = [t \in Threads |-> "NON_WAITING"]
      /\ mySem = [t \in Threads |-> NoSem]
      /\ queueBlocked = [s \in Sems |-> <<>>]
  BY DEF Init, ThreadsInit, SleepTimeInit, SemaphoresInit
<1>3. IsInjective(<<>>) /\ ToSet(<<>>) = {}
  BY DEF IsInjective, ToSet
<1>4. /\ Ready = Services \cup {Idle} /\ Sleeping = {} /\ Blocked = {}
      /\ \A s \in Sems : BlockedOn(s) = {}
  BY <1>2, <1>3, ThreadsAssumption DEF Ready, Sleeping, Blocked, BlockedOn
<1>5. OnePlace
  BY <1>2, <1>3, <1>4, ThreadsAssumption DEF OnePlace, HasProcessor
<1>6. BlockedAgrees
  BY <1>2, <1>4 DEF BlockedAgrees
<1>7. NobodyForgotten /\ RunningCanBePut /\ Roles
  BY <1>2, <1>4 DEF NobodyForgotten, RunningCanBePut, ReadyToRun, Roles, Threads
<1>8. QED
  BY <1>1, <1>5, <1>6, <1>7 DEF KernelInv

\* The invariant is inductive: one step per kind of step of the kernel.
THEOREM KernelInvStep == KernelInv /\ [Next]_vars => KernelInv'
<1> SUFFICES ASSUME KernelInv, [Next]_vars PROVE KernelInv'
  OBVIOUS
<1>1. TypeOK'
  <2>1. TypeInv
    BY DEF TypeInv, KernelInv, Roles, TypeOK
  <2>2. QED
    BY <2>1, TypeStep DEF TypeInv
<1>2. KernelStep
  BY StepsOfNext
<1>3. ListsInv'
  <2>1. CASE DispatchStep
    <3>1. /\ phase = "user" /\ BeginDispatch(threadState, readyQueue)
          /\ UNCHANGED <<asleep, semStatus, mySem, open, val, queueBlocked, closing>>
      BY <2>1 DEF DispatchStep, ThreadDispatch, timeVars, semVars
    <3>2. ReadyToRun(threadState[running])
      BY <3>1 DEF KernelInv, RunningCanBePut
    <3>3. QED
      BY <3>1, <3>2, InvDispatch
  <2>2. CASE ExitStep
    BY <2>2, InvExit
  <2>3. CASE KillStep
    BY <2>3, InvKill
  <2>4. CASE CreateStep
    BY <2>4, InvCreate
  <2>5. CASE SleepStep
    BY <2>5, InvSleep
  <2>6. CASE OpenStep
    BY <2>6, InvOpen
  <2>7. CASE TakeStep \/ TryWaitStep
    BY <2>7, InvTake
  <2>8. CASE BlockStep \/ TimedBlockStep
    BY <2>8, InvBlock
  <2>9. CASE SignalStep
    BY <2>9, InvSignal
  <2>10. CASE UnblockAllStep
    BY <2>10, InvUnblockAll
  <2>11. CASE EndSemClose
    BY <2>11, InvEndClose
  <2>12. CASE CloseStep \/ TickStep
    BY <2>12, InvCloseTickOther
  <2>13. CASE EndTickStep
    BY <2>13, InvEndTick
  <2>14. CASE WakeThreadUp
    BY <2>14, InvWake
  <2>15. CASE ReapStep
    BY <2>15, InvReap
  <2>16. CASE \E t \in Threads : \/ SwitchToUser(t) \/ ReturnFromSleep(t)
                                 \/ ReturnFromBlock(t) \/ ReturnFromTimedBlock(t)
    BY <2>16, InvSwitch
  <2>17. CASE OtherStep
    BY <2>17, InvCloseTickOther, InvOther
  <2>18. QED
    BY <1>2, <2>1, <2>2, <2>3, <2>4, <2>5, <2>6, <2>7, <2>8, <2>9, <2>10, <2>11,
       <2>12, <2>13, <2>14, <2>15, <2>16, <2>17 DEF KernelStep
<1>4. QED
  BY <1>1, <1>3 DEF ListsInv, KernelInv

\* The inductive invariant holds in every state, whatever programs call.
THEOREM KernelInvHolds == Spec => []KernelInv
  BY KernelInvInit, KernelInvStep, PTL DEF Spec

\* Whatever calls the programs make, in whatever interleaving with the timer,
\* no live thread is lost or in two places.
THEOREM NoThreadLost == Spec => []OnePlace
<1>1. KernelInv => OnePlace
  BY DEF KernelInv
<1>2. QED
  BY KernelInvHolds, <1>1, PTL

\* A control block and the lists agree on who waits where, and no control
\* block points to a semaphore that was freed.
THEOREM ControlBlocksAgree == Spec => []BlockedAgrees
<1>1. KernelInv => BlockedAgrees
  BY DEF KernelInv
<1>2. QED
  BY KernelInvHolds, <1>1, PTL

\* No thread is left in the queue of a semaphore that has a unit for it, even
\* with sem_trywait.
THEOREM NobodyIsForgotten == Spec => []NobodyForgotten
<1>1. KernelInv => NobodyForgotten
  BY DEF KernelInv
<1>2. QED
  BY KernelInvHolds, <1>1, PTL

\* The thread that has the processor is never left in a state in which the
\* next dispatch() would drop it.
THEOREM RunningIsNeverDropped == Spec => []RunningCanBePut
<1>1. KernelInv => RunningCanBePut
  BY DEF KernelInv
<1>2. QED
  BY KernelInvHolds, <1>1, PTL
=============================================================================
