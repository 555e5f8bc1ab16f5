---------------------------- MODULE KernelWaits -----------------------------
(***************************************************************************)
(* Proofs about what a thread finds when it goes on: the answer of its     *)
(* wait, the time, and, for main(), the deletion of the services; that val *)
(* counts the waiters and the kernel never reads through a null pointer;   *)
(* and that its semaphores are those of AbstractSemaphores, as long as no  *)
(* program calls sem_trywait.                                              *)
(***************************************************************************)
EXTENDS KernelProofs

-----------------------------------------------------------------------------
\* Once main() has killed the services, each one that is still there stands
\* in the ready queue before main.
KilledInv ==
    mainPc = "killed" =>
        \A s \in Services \cap valid :
            /\ threadState[s] = "FINISHED"
            /\ \E i, j \in 1..Len(readyQueue) :
                   i < j /\ readyQueue[i] = s /\ readyQueue[j] = Main

-----------------------------------------------------------------------------
\* main() leaves its loop by the kill of the services only.
LEMMA OnlyMainKills == [Next]_vars => mainPc' = mainPc \/ (KillStep /\ mainPc' = "killed")
<1> SUFFICES ASSUME [Next]_vars, mainPc' # mainPc PROVE MainShutdown
  BY DEF MainShutdown, MainRuns, KillStep
<1>1. ~HandlerStep
  BY DEF HandlerStep, Reap, SwitchContext, SwitchToUser, ReturnFromSleep,
     ReturnFromBlock, ReturnFromTimedBlock, LeaveQueue, SwitchTo, EndTick,
     UnblockAll, EndClose, WakeThreadUp
<1>2. MainStep => MainShutdown
  BY DEF MainStep, MainDispatch, KillQEMU
<1>3. ~IdleStep /\ ~ServiceDispatch /\ ~Tick /\ ~Halted
  BY DEF IdleStep, IdleCreate, IdleDispatch, IdleExit, ServiceDispatch, Tick, Halted, vars
<1>4. ~ProgramStep
  BY DEF ProgramStep, UserMainReturns, CallExit, CallCreate, CallDispatch,
     CallSleep, CallOpen, CallWait, CallTimedWait, CallTryWait, CallSignal, CallClose
<1>5. QED
  BY <1>1, <1>2, <1>3, <1>4 DEF Next, vars

\* The services keep their place while threads are added at the end of the
\* ready queue.
LEMMA KilledGrows ==
    ASSUME KernelInv, KilledInv, mainPc' = mainPc, valid' \cap Services \subseteq valid,
           \A s \in Services \cap valid : s \in Ready => threadState'[s] = threadState[s],
           readyQueue' = readyQueue \/ \E t \in Threads : readyQueue' = Append(readyQueue, t)
    PROVE  KilledInv'
<1> SUFFICES ASSUME mainPc = "killed", NEW s \in Services \cap valid
             PROVE  /\ threadState'[s] = "FINISHED"
                    /\ \E i, j \in 1..Len(readyQueue') :
                           i < j /\ readyQueue'[i] = s /\ readyQueue'[j] = Main
  BY DEF KilledInv
<1>1. readyQueue \in Seq(Threads)
  BY DEF KernelInv, TypeOK
<1>2. PICK i \in 1..Len(readyQueue), j \in 1..Len(readyQueue) :
          i < j /\ readyQueue[i] = s /\ readyQueue[j] = Main
  BY DEF KilledInv
<1>3. s \in Ready
  BY <1>1, <1>2, InList DEF Ready
<1>4. threadState'[s] = "FINISHED"
  BY <1>3 DEF KilledInv
<1>5. /\ Len(readyQueue') >= Len(readyQueue) /\ Len(readyQueue') \in Nat
      /\ \A k \in 1..Len(readyQueue) : readyQueue'[k] = readyQueue[k]
  <2>1. CASE readyQueue' = readyQueue
    BY <1>1, <2>1
  <2>2. CASE \E t \in Threads : readyQueue' = Append(readyQueue, t)
    BY <1>1, <2>2, AppendProperties
  <2>3. QED
    BY <2>1, <2>2
<1>6. i \in 1..Len(readyQueue') /\ j \in 1..Len(readyQueue')
  BY <1>1, <1>2, <1>5
<1>7. QED
  BY <1>2, <1>4, <1>5, <1>6

\* The thread at the front of the ready queue leaves it.
LEMMA KilledShrinks ==
    ASSUME KernelInv, KilledInv, mainPc' = mainPc, readyQueue # <<>>,
           readyQueue' = Tail(readyQueue), valid' \cap Services \subseteq valid,
           \A s \in Services : threadState'[s] = threadState[s],
           \/ Head(readyQueue) \notin valid'
           \/ threadState[Head(readyQueue)] # "FINISHED"
    PROVE  KilledInv'
<1> SUFFICES ASSUME mainPc = "killed", NEW s \in Services \cap valid'
             PROVE  /\ threadState'[s] = "FINISHED"
                    /\ \E i, j \in 1..Len(readyQueue') :
                           i < j /\ readyQueue'[i] = s /\ readyQueue'[j] = Main
  BY DEF KilledInv
<1>1. readyQueue \in Seq(Threads)
  BY DEF KernelInv, TypeOK
<1>2. threadState[s] = "FINISHED"
  BY DEF KilledInv
<1>3. PICK i \in 1..Len(readyQueue), j \in 1..Len(readyQueue) :
          i < j /\ readyQueue[i] = s /\ readyQueue[j] = Main
  BY DEF KilledInv
<1>4. Head(readyQueue) # s /\ Head(readyQueue) = readyQueue[1]
  BY <1>1, <1>2
<1>5. /\ Len(readyQueue') = Len(readyQueue) - 1
      /\ \A k \in 1..Len(readyQueue) - 1 : readyQueue'[k] = readyQueue[k + 1]
  BY <1>1, HeadTailProperties
<1>6. /\ i - 1 \in 1..Len(readyQueue) - 1 /\ j - 1 \in 1..Len(readyQueue) - 1
      /\ i - 1 < j - 1 /\ i - 1 + 1 = i /\ j - 1 + 1 = j
  BY <1>1, <1>3, <1>4
<1>7. readyQueue'[i - 1] = s /\ readyQueue'[j - 1] = Main
  BY <1>3, <1>5, <1>6
<1>8. QED
  BY <1>2, <1>5, <1>6, <1>7

\* A dispatch at which the running thread keeps its state or is none of the
\* services.
LEMMA KilledDispatch ==
    ASSUME KernelInv, KilledInv, mainPc' = mainPc, phase # "dispatch",
           NEW state, BeginDispatch(state, readyQueue),
           \A t \in Threads \ {running} : state[t] = threadState[t]
    PROVE  KilledInv'
<1>1. running \in Threads /\ running \notin Ready /\ Services \subseteq Threads
  BY DEF KernelInv, TypeOK, OnePlace, Threads
<1>2. \A s \in Services \cap valid : s \in Ready => state[s] = threadState[s] /\ s # running
  BY <1>1
<1>3. \A s \in Services \cap valid : s \in Ready => threadState'[s] = threadState[s]
  BY <1>2 DEF BeginDispatch
<1>4. readyQueue' = readyQueue \/ readyQueue' = Append(readyQueue, running)
  BY DEF BeginDispatch, Put
<1>5. valid' \cap Services \subseteq valid
  BY DEF BeginDispatch
<1>6. QED
  BY <1>1, <1>3, <1>4, <1>5, KilledGrows

\* The kill itself: every service is ready, and main goes behind them.
LEMMA KilledByMain ==
    ASSUME KernelInv, KillStep
    PROVE  KilledInv'
<1> DEFINE state == SubtleKill(threadState, Services)
<1>1. /\ running = Main /\ phase = "user" /\ BeginDispatch(state, readyQueue)
      /\ readyQueue \in Seq(Threads) /\ Main \in Threads /\ Main \notin Services
      /\ Services \subseteq Threads
  BY ThreadsAssumption DEF KillStep, KillServices, KernelInv, TypeOK, Threads
<1>2. /\ state[Main] = threadState[Main]
      /\ \A s \in Services \cap valid : state[s] = "FINISHED"
  BY <1>1 DEF SubtleKill
<1> HIDE DEF state
<1>3. ReadyToRun(state[running])
  BY <1>1, <1>2 DEF KernelInv, RunningCanBePut
<1>4. /\ readyQueue' = Append(readyQueue, Main)
      /\ valid' \subseteq valid
      /\ \A s \in Services : threadState'[s] = state[s]
  BY <1>1, <1>3 DEF BeginDispatch, Put
<1>5. ASSUME NEW s \in Services \cap valid
      PROVE  \E i, j \in 1..Len(readyQueue') :
                 i < j /\ readyQueue'[i] = s /\ readyQueue'[j] = Main
  <2>1. s \in Ready
    BY <1>1, ThreadsAssumption DEF KernelInv, OnePlace, HasProcessor, Roles
  <2>2. PICK i \in 1..Len(readyQueue) : readyQueue[i] = s
    BY <1>1, <2>1, InList DEF Ready
  <2>3. /\ Len(readyQueue') = Len(readyQueue) + 1
        /\ readyQueue'[i] = s /\ readyQueue'[Len(readyQueue) + 1] = Main
    BY <1>1, <1>4, <2>2, AppendProperties
  <2>4. i < Len(readyQueue) + 1 /\ i \in 1..Len(readyQueue')
        /\ Len(readyQueue) + 1 \in 1..Len(readyQueue')
    BY <1>1, <2>2, <2>3
  <2>5. QED
    BY <2>3, <2>4
<1>6. QED
  BY <1>2, <1>4, <1>5 DEF KilledInv

\* When main() has the processor again, no service is left.
LEMMA KilledMeansGone ==
    ASSUME KernelInv, KilledInv, phase # "dispatch", running = Main, mainPc = "killed"
    PROVE  valid \cap Services = {}
<1>1. Main \notin Ready /\ readyQueue \in Seq(Threads)
  BY DEF KernelInv, OnePlace, TypeOK
<1>2. \A j \in 1..Len(readyQueue) : readyQueue[j] # Main
  BY <1>1, InList DEF Ready
<1>3. QED
  BY <1>2 DEF KilledInv

\* Every step of the kernel keeps the order of the dead services and main.
LEMMA KilledStep ==
    ASSUME KernelInv, KilledInv, KernelStep, mainPc' = mainPc
    PROVE  KilledInv'
<1>1. CASE DispatchStep \/ ExitStep \/ SleepStep \/ (EndTickStep /\ TimeSliceIsOver)
  <2>1. PICK state \in {threadState, [threadState EXCEPT ![running] = "FINISHED"],
                        [threadState EXCEPT ![running] = "SUSPENDED"]} :
            BeginDispatch(state, readyQueue)
    BY <1>1 DEF DispatchStep, ThreadDispatch, ExitStep, ThreadExit, SleepStep,
       TimeSleep, EndTickStep, EndTimerInterrupt
  <2>2. phase # "dispatch"
    BY <1>1 DEF DispatchStep, ExitStep, SleepStep, EndTickStep, EndTimerInterrupt
  <2>3. \A t \in Threads \ {running} : state[t] = threadState[t]
    BY <2>1 DEF KernelInv, TypeOK
  <2>4. QED
    BY <2>1, <2>2, <2>3, KilledDispatch
<1>2. CASE BlockStep \/ TimedBlockStep
  <2>1. PICK status \in {"WAITING", "TIMEDWAITING"} :
            BeginDispatch(WithState(running, status), readyQueue)
    BY <1>2 DEF BlockStep, Block, TimedBlockStep, TimedBlock, EnterQueue
  <2>2. phase # "dispatch"
    BY <1>2 DEF BlockStep, TimedBlockStep
  <2>3. \A t \in Threads \ {running} : WithState(running, status)[t] = threadState[t]
    BY DEF KernelInv, TypeOK, WithState
  <2>4. QED
    BY <2>1, <2>2, <2>3, KilledDispatch
<1>3. CASE KillStep
  BY <1>3, KilledByMain
<1>4. CASE CreateStep
  <2>1. PICK t \in Programs : NewThread(t)
    BY <1>4 DEF CreateStep
  <2>2. t \in Threads /\ t \notin Services
    BY ThreadsAssumption DEF Threads
  <2>3. /\ readyQueue' = Append(readyQueue, t) /\ valid' = valid \cup {t}
        /\ threadState' = [threadState EXCEPT ![t] = "READY"]
    BY <2>1 DEF NewThread, CreateThread, Put
  <2>4. QED
    BY <2>2, <2>3, KilledGrows DEF KernelInv, TypeOK
<1>5. CASE SignalStep \/ UnblockAllStep
  <2>1. PICK s \in Sems : \/ UNCHANGED <<threadState, readyQueue>>
                          \/ queueBlocked[s] # <<>> /\ UnblockFirst(s, "REGULARLY_WAITED")
                          \/ queueBlocked[s] # <<>> /\ UnblockFirst(s, "SEM_DELETED")
    BY <1>5 DEF SignalStep, SemSignal, UnblockAllStep, NullUnblock, KernelInv, TypeOK, Roles
  <2>2. valid' = valid
    BY <1>5 DEF SignalStep, SemSignal, UnblockAllStep
  <2>3. CASE UNCHANGED <<threadState, readyQueue>>
    BY <2>2, <2>3, KilledGrows
  <2>4. CASE queueBlocked[s] # <<>> /\ ~UNCHANGED <<threadState, readyQueue>>
    <3> DEFINE t == Head(queueBlocked[s])
    <3>1. queueBlocked[s] \in Seq(Threads)
      BY DEF KernelInv, TypeOK
    <3>2. t \in BlockedOn(s)
      BY <2>4, <3>1, TailList DEF BlockedOn
    <3>3. t \in Threads /\ t \notin Services
      BY <3>2, BlockedThread, ThreadsAssumption
    <3>4. /\ readyQueue' = Append(readyQueue, t)
          /\ \A u \in Threads : u # t => threadState'[u] = threadState[u]
      BY <2>1, <2>4, <3>3 DEF UnblockFirst, WithState, Put, KernelInv, TypeOK
    <3> HIDE DEF t
    <3>5. QED
      BY <2>2, <3>3, <3>4, KilledGrows DEF Threads
  <2>5. QED
    BY <2>1, <2>3, <2>4
<1>6. CASE WakeThreadUp
  <2> DEFINE t == asleep[cursor]
  <2>1. t \in Sleeping
    <3>1. cursor \in 1..Len(asleep) /\ asleep \in Seq(Threads)
      BY <1>6 DEF WakeThreadUp, SleeperIsDue, KernelInv, TypeOK
    <3>2. QED
      BY <3>1, InList DEF Sleeping
  <2>2. t \in Threads /\ t \notin Services
    BY <2>1, SleepingThread, ThreadsAssumption
  <2>3. /\ readyQueue' = readyQueue \/ readyQueue' = Append(readyQueue, t)
        /\ threadState' = threadState \/ threadState' = WithState(t, "TIMEOUT")
        /\ valid' = valid
    BY <1>6 DEF WakeThreadUp, UnblockByTime, Put
  <2> HIDE DEF t
  <2>4. \A u \in Threads : u # t => threadState'[u] = threadState[u]
    BY <2>2, <2>3 DEF WithState, KernelInv, TypeOK
  <2>5. QED
    BY <2>2, <2>3, <2>4, KilledGrows DEF Threads
<1>7. CASE \/ OpenStep \/ TakeStep \/ TryWaitStep \/ CloseStep \/ EndSemClose
           \/ TickStep \/ OtherStep \/ (EndTickStep /\ ~TimeSliceIsOver)
  <2>1. UNCHANGED <<readyQueue, threadState, valid>>
    BY <1>7 DEF OpenStep, SemOpen, TakeStep, TakeUnit, TryWaitStep, TryWait,
       CloseStep, SemClose, EndSemClose, TickStep, TimerInterrupt, OtherStep,
       EndTickStep, EndTimerInterrupt, threadVars
  <2>2. QED
    BY <2>1, KilledGrows
<1>8. CASE ReapStep
  <2> DEFINE t == Head(readyQueue)
  <2>1. /\ readyQueue # <<>> /\ ThreadDead(t)
        /\ readyQueue' = RemoveSpec(readyQueue, t)
        /\ valid' = valid \ {t}
        /\ UNCHANGED threadState
    BY <1>8 DEF ReapStep, ReapDead
  <2>2. readyQueue \in Seq(Threads)
    BY DEF KernelInv, TypeOK
  <2>3. RemoveSpec(readyQueue, t) = Tail(readyQueue)
    BY <2>1, <2>2, RemoveHead
  <2>4. QED
    BY <2>1, <2>3, KilledShrinks
<1>9. CASE \E t \in Threads : \/ SwitchToUser(t) \/ ReturnFromSleep(t)
                              \/ ReturnFromBlock(t) \/ ReturnFromTimedBlock(t)
  <2>1. PICK t \in Threads, state \in States : SwitchTo(t, state)
    BY <1>9 DEF SwitchToUser, ReturnFromSleep, StateAfterSleep, ReturnFromBlock,
       ReturnFromTimedBlock, LeaveQueue, States
  <2>2. /\ readyQueue # <<>> /\ t = Head(readyQueue) /\ ~ThreadDead(t)
        /\ readyQueue' = Tail(readyQueue) /\ valid' = valid
        /\ threadState' = [threadState EXCEPT ![t] = state]
    BY <2>1 DEF SwitchTo
  <2>3. t \in valid /\ threadState[t] # "FINISHED"
    BY <2>2 DEF ThreadDead, IsFinished
  <2>4. CASE t \notin Services
    <3>1. \A s \in Services : threadState'[s] = threadState[s]
      BY <2>2, <2>4 DEF Threads, KernelInv, TypeOK
    <3>2. QED
      BY <2>2, <2>3, <3>1, KilledShrinks
  <2>5. CASE t \in Services
    BY <2>3, <2>5 DEF KilledInv
  <2>6. QED
    BY <2>4, <2>5
<1>10. QED
  BY <1>1, <1>2, <1>3, <1>4, <1>5, <1>6, <1>7, <1>8, <1>9 DEF KernelStep

\* When main() stops the machine, the putter and the getter are deleted,
\* whatever the programs do after the kill.
THEOREM ServicesAreGone == Spec => []ServicesGone
<1> DEFINE Inv == KernelInv /\ KilledInv
<1>1. Init => Inv
  BY KernelInvInit DEF Init, KilledInv
<1>2. Inv /\ [Next]_vars => Inv'
  BY KernelInvStep, StepsOfNext, OnlyMainKills, KilledStep, KilledByMain
<1>3. Inv => ServicesGone
  BY KilledMeansGone DEF ServicesGone, MainRuns
<1>4. QED
  BY <1>1, <1>2, <1>3, PTL DEF Spec

-----------------------------------------------------------------------------
\* The clock is never within a delay of its last value.
NoWrap == \A d \in Delays : MaxTime + d < TimeMod

\* The status of a thread that is ready to go on in a call.
StatusesIn(call) ==
    CASE call = "block" -> {"REGULARLY_WAITED", "SEM_DELETED"}
      [] call = "timedBlock" -> {"REGULARLY_WAITED", "SEM_DELETED", "TIMEOUT"}
      [] OTHER -> {"NON_WAITING"}

\* The call a thread is in, its status and the list it is in fit together.
CallAgrees(t) ==
    /\ t \in Sleeping \ Blocked => inCall[t] = "sleep" /\ semStatus[t] = "NON_WAITING"
    /\ t \in Blocked \ Sleeping => inCall[t] = "block"
    /\ t \in Blocked \cap Sleeping => inCall[t] = "timedBlock"
    /\ HasProcessor(t) => inCall[t] = "none" /\ semStatus[t] = "NON_WAITING"
    /\ t \in Ready => semStatus[t] \in StatusesIn(inCall[t])

\* A sleeper's time may have wrapped, to an earlier one; what it asked for is
\* not past, except while the timer looks for those whose time it is.
IsInTime(t) ==
    t \in Sleeping =>
        /\ timeForWakingUp[t] <= due[t]
        /\ phase # "wake" => due[t] >= sysTime

\* When no time wraps, a thread woken by the timer is not early.
TimeAgrees(t) ==
    /\ t \in Sleeping => due[t] = timeForWakingUp[t]
    /\ t \in Ready /\ (inCall[t] = "sleep" \/ semStatus[t] = "TIMEOUT") => sysTime >= due[t]

\* The timer's cursor never leaves the front of the list: every sleeper it
\* looks at is taken out.
OrderInv == cursor = 1 /\ OrderedBy(asleep, timeForWakingUp)

WaitsInv ==
    /\ KernelInv
    /\ OrderInv
    /\ \A t \in Threads : CallAgrees(t) /\ IsInTime(t)
    /\ NoWrap => \A t \in Threads : TimeAgrees(t)

-----------------------------------------------------------------------------
\* A step leaves thread t where it is, and does not touch its control block.
Stays(t) ==
    /\ t \in Ready' <=> t \in Ready
    /\ t \in Sleeping' <=> t \in Sleeping
    /\ t \in Blocked' <=> t \in Blocked
    /\ HasProcessor(t)' => HasProcessor(t)
    /\ inCall'[t] = inCall[t] /\ semStatus'[t] = semStatus[t]
    /\ timeForWakingUp'[t] = timeForWakingUp[t] /\ due'[t] = due[t]

NoneIsDue == \A t \in Sleeping : ~ShouldWakeUp(t)

\* Time stands still, but for the timer's interrupt, which looks for sleepers.
TimeGoesOn ==
    /\ sysTime <= sysTime'
    /\ phase' # "wake" => sysTime' = sysTime /\ (phase = "wake" => NoneIsDue)

\* A step moves thread t to a place that fits its control block.
Settles(t) == CallAgrees(t)' /\ IsInTime(t)' /\ (NoWrap => TimeAgrees(t)')

\* A step after which every thread is where it was, or settled elsewhere.
LEMMA WaitsKept ==
    ASSUME WaitsInv, KernelInv', OrderInv', TimeGoesOn,
           \A t \in Threads : Stays(t) \/ Settles(t)
    PROVE  WaitsInv'
<1>1. ASSUME NEW t \in Threads PROVE CallAgrees(t)'
  <2>1. CASE Settles(t)
    BY <2>1 DEF Settles
  <2>2. CASE Stays(t)
    <3>1. Stays(t) /\ CallAgrees(t)
      BY <2>2 DEF WaitsInv
    <3>2. QED
      BY <3>1 DEF Stays, CallAgrees, StatusesIn
  <2>3. QED
    BY <2>1, <2>2
<1>2. ASSUME NoWrap, NEW t \in Threads PROVE TimeAgrees(t)'
  <2>1. CASE Settles(t)
    BY <1>2, <2>1 DEF Settles
  <2>2. CASE Stays(t)
    <3>1. Stays(t) /\ TimeAgrees(t) /\ TimeGoesOn
      BY <1>2, <2>2 DEF WaitsInv
    <3>2. /\ sysTime \in Int /\ sysTime' \in Int
          /\ due[t] \in Int /\ timeForWakingUp[t] \in Int
      BY SleepTimeAssumption DEF WaitsInv, KernelInv, TypeOK
    <3>3. t \in Sleeping' => due'[t] = timeForWakingUp'[t]
      BY <3>1 DEF Stays, TimeAgrees
    <3>4. t \in Ready' /\ (inCall'[t] = "sleep" \/ semStatus'[t] = "TIMEOUT") =>
              sysTime' >= due'[t]
      BY <3>1, <3>2 DEF Stays, TimeAgrees, TimeGoesOn
    <3>5. QED
      BY <3>1, <3>3, <3>4 DEF TimeAgrees, Stays
  <2>3. QED
    BY <2>1, <2>2
<1>3. ASSUME NEW t \in Threads PROVE IsInTime(t)'
  <2>1. CASE Settles(t)
    BY <2>1 DEF Settles
  <2>2. CASE Stays(t)
    <3>1. Stays(t) /\ IsInTime(t) /\ TimeGoesOn
      BY <2>2 DEF WaitsInv
    <3>2. /\ sysTime \in Int /\ sysTime' \in Int
          /\ due[t] \in Int /\ timeForWakingUp[t] \in Int
      BY SleepTimeAssumption DEF WaitsInv, KernelInv, TypeOK
    <3>3. t \in Sleeping' => timeForWakingUp'[t] <= due'[t]
      BY <3>1 DEF Stays, IsInTime
    <3>4. t \in Sleeping' /\ phase' # "wake" => due'[t] >= sysTime'
      BY <3>1, <3>2 DEF Stays, IsInTime, TimeGoesOn, NoneIsDue, ShouldWakeUp
    <3>5. QED
      BY <3>3, <3>4 DEF IsInTime
  <2>3. QED
    BY <2>1, <2>2
<1>4. QED
  BY <1>1, <1>2, <1>3 DEF WaitsInv

\* The list of sleepers is as it was, or without one of them.
LEMMA OrderKept ==
    ASSUME WaitsInv, cursor' = 1,
           asleep' = asleep \/ \E u \in Threads : asleep' = RemoveSpec(asleep, u),
           \A t \in Sleeping : timeForWakingUp'[t] = timeForWakingUp[t]
    PROVE  OrderInv'
<1>1. asleep \in Seq(Threads) /\ OrderedBy(asleep, timeForWakingUp)
  BY DEF WaitsInv, KernelInv, TypeOK, OrderInv
<1>2. OrderedBy(asleep, timeForWakingUp')
  BY <1>1, InList DEF OrderedBy, Sleeping
<1>3. OrderedBy(asleep', timeForWakingUp')
  BY <1>1, <1>2, RemoveSpecOrdered
<1>4. QED
  BY <1>3 DEF OrderInv

\* The running thread goes to sleep, in time_sleep or in a timed wait.
LEMMA OrderGrows ==
    ASSUME WaitsInv, cursor' = cursor, running \in Threads, running \notin Sleeping,
           NEW n \in 0..TimeMod - 1,
           timeForWakingUp' = [timeForWakingUp EXCEPT ![running] = n],
           asleep' = InsertSorted(asleep, running, timeForWakingUp')
    PROVE  OrderInv'
<1>1. asleep \in Seq(Threads) /\ OrderedBy(asleep, timeForWakingUp) /\ cursor = 1
  BY DEF WaitsInv, KernelInv, TypeOK, OrderInv
<1>2. timeForWakingUp' \in [Threads -> Int]
      /\ \A t \in Sleeping : timeForWakingUp'[t] = timeForWakingUp[t]
  <2>1. timeForWakingUp \in [Threads -> Int] /\ n \in Int
    BY SleepTimeAssumption DEF WaitsInv, KernelInv, TypeOK
  <2>2. Sleeping \subseteq Threads
    BY <1>1, InList DEF Sleeping
  <2>3. QED
    BY <2>1, <2>2
<1>3. OrderedBy(asleep, timeForWakingUp')
  BY <1>1, <1>2, InList DEF OrderedBy, Sleeping
<1>4. OrderedBy(asleep', timeForWakingUp')
  BY <1>1, <1>2, <1>3, InsertSortedOrdered
<1>5. QED
  BY <1>1, <1>4 DEF OrderInv

\* With an ordered list, the first sleeper is not due only if none is.
LEMMA FirstIsNotDue ==
    ASSUME WaitsInv, ~SleeperIsDue
    PROVE  NoneIsDue
<1>1. /\ asleep \in Seq(Threads) /\ OrderedBy(asleep, timeForWakingUp) /\ cursor = 1
      /\ sysTime \in Int /\ \A t \in Threads : timeForWakingUp[t] \in Int
  BY SleepTimeAssumption DEF WaitsInv, KernelInv, TypeOK, OrderInv
<1>2. SUFFICES ASSUME NEW t \in Sleeping PROVE timeForWakingUp[t] > sysTime
  BY <1>1, InList DEF NoneIsDue, ShouldWakeUp, Sleeping
<1>3. PICK i \in 1..Len(asleep) : asleep[i] = t
  BY <1>1, InList DEF Sleeping
<1>4. 1 \in 1..Len(asleep) /\ 1 <= Len(asleep) /\ asleep[1] \in Threads /\ t \in Threads
  BY <1>1, <1>3
<1>5. timeForWakingUp[asleep[1]] > sysTime
  BY <1>1, <1>4 DEF SleeperIsDue, ShouldWakeUp
<1>6. timeForWakingUp[asleep[1]] <= timeForWakingUp[t]
  <2>1. CASE i = 1
    BY <1>1, <1>3, <1>4, <2>1
  <2>2. CASE 1 < i
    BY <1>1, <1>3, <1>4, <2>2 DEF OrderedBy
  <2>3. QED
    BY <1>3, <2>1, <2>2
<1>7. QED
  BY <1>1, <1>4, <1>5, <1>6

-----------------------------------------------------------------------------
\* Steps that move no thread.
LEMMA WaitsQuiet ==
    ASSUME WaitsInv, KernelInv', cursor' = 1, TimeGoesOn,
           phase' # "dispatch" => phase # "dispatch",
           UNCHANGED <<running, readyQueue, inCall, asleep, timeForWakingUp, due>>,
           semStatus' = semStatus,
           \A s \in Sems : BlockedOn(s)' = BlockedOn(s)
    PROVE  WaitsInv'
<1>1. /\ Ready' = Ready /\ Sleeping' = Sleeping /\ Blocked' = Blocked
      /\ \A t : HasProcessor(t)' => HasProcessor(t)
  BY DEF Ready, Sleeping, Blocked, HasProcessor
<1>2. OrderInv'
  BY OrderKept
<1>3. \A t \in Threads : Stays(t)
  BY <1>1 DEF Stays
<1>4. QED
  BY <1>2, <1>3, WaitsKept

\* The thread that has the processor waits for nothing and is in no list.
LEMMA RunningAgrees ==
    ASSUME WaitsInv, phase # "dispatch"
    PROVE  /\ running \in Threads /\ running \in valid
           /\ inCall[running] = "none" /\ semStatus[running] = "NON_WAITING"
           /\ running \notin Ready /\ running \notin Sleeping /\ running \notin Blocked
<1>1. running \in Threads /\ running \in valid
      /\ running \notin Ready /\ running \notin Sleeping /\ running \notin Blocked
  BY DEF WaitsInv, KernelInv, TypeOK, OnePlace
<1>2. CallAgrees(running) /\ HasProcessor(running)
  BY <1>1 DEF WaitsInv, HasProcessor
<1>3. QED
  BY <1>1, <1>2 DEF CallAgrees

\* thread_dispatch, preemption and the kill: the running thread gets ready.
LEMMA WaitsDispatch ==
    ASSUME WaitsInv, KernelInv', phase # "dispatch", NEW state \in [Threads -> States],
           ReadyToRun(state[running]), BeginDispatch(state, readyQueue),
           UNCHANGED <<inCall, sysTime, asleep, timeForWakingUp, due, semStatus, queueBlocked>>,
           cursor' = 1, phase = "wake" => NoneIsDue
    PROVE  WaitsInv'
<1>1. /\ phase' = "dispatch" /\ running' = running /\ Ready' = Ready \cup {running}
  BY DispatchPlaces DEF WaitsInv
<1>2. Sleeping' = Sleeping /\ Blocked' = Blocked
  BY DEF Sleeping, Blocked, BlockedOn
<1>3. OrderInv'
  BY OrderKept
<1>4. \A t : ~HasProcessor(t)'
  BY <1>1 DEF HasProcessor
<1>5. \A t \in Threads : t # running => Stays(t)
  BY <1>1, <1>2, <1>4 DEF Stays
<1>6. ASSUME NEW t \in Threads, t = running PROVE Settles(t)
  <2>1. /\ inCall'[t] = "none" /\ semStatus'[t] = "NON_WAITING"
        /\ t \notin Sleeping' /\ t \notin Blocked'
    BY <1>2, <1>6, RunningAgrees
  <2>2. QED
    BY <1>4, <2>1 DEF Settles, CallAgrees, StatusesIn, IsInTime, TimeAgrees
<1>7. TimeGoesOn
  BY <1>1, SleepTimeAssumption DEF TimeGoesOn, WaitsInv, KernelInv, TypeOK
<1>8. QED
  BY <1>3, <1>5, <1>6, <1>7, WaitsKept

\* thread_exit: the running thread is in no list.
LEMMA WaitsExit ==
    ASSUME WaitsInv, KernelInv', ExitStep
    PROVE  WaitsInv'
<1> DEFINE state == [threadState EXCEPT ![running] = "FINISHED"]
<1>1. /\ phase = "user" /\ BeginDispatch(state, readyQueue)
      /\ UNCHANGED <<inCall, sysTime, asleep, timeForWakingUp, due, cursor, semStatus,
                     queueBlocked>>
  BY DEF ExitStep, ThreadExit, timeVars, semVars
<1>2. state \in [Threads -> States] /\ state[running] = "FINISHED"
  BY DEF WaitsInv, KernelInv, TypeOK, States
<1> HIDE DEF state
<1>3. phase' = "dispatch" /\ running' = running /\ Ready' = Ready
  BY <1>1, <1>2, DispatchPlaces DEF WaitsInv, ReadyToRun
<1>4. Sleeping' = Sleeping /\ Blocked' = Blocked
  BY <1>1 DEF Sleeping, Blocked, BlockedOn
<1>5. OrderInv'
  BY <1>1, OrderKept DEF WaitsInv, OrderInv
<1>6. \A t \in Threads : Stays(t)
  BY <1>1, <1>3, <1>4 DEF Stays, HasProcessor
<1>7. TimeGoesOn
  BY <1>1, <1>3, SleepTimeAssumption DEF TimeGoesOn, WaitsInv, KernelInv, TypeOK
<1>8. QED
  BY <1>5, <1>6, <1>7, WaitsKept

\* thread_create: the new thread is ready and in no call.
LEMMA WaitsCreate ==
    ASSUME WaitsInv, KernelInv', CreateStep
    PROVE  WaitsInv'
<1>1. PICK t \in Programs : NewThread(t)
  BY DEF CreateStep
<1>2. /\ phase = "user" /\ phase' = "user" /\ running' = running
      /\ t \notin valid /\ valid' = valid \cup {t}
      /\ readyQueue' = Append(readyQueue, t)
      /\ inCall' = [inCall EXCEPT ![t] = "none"]
      /\ semStatus' = [semStatus EXCEPT ![t] = "NON_WAITING"]
      /\ timeForWakingUp' = [timeForWakingUp EXCEPT ![t] = 0]
      /\ due' = [due EXCEPT ![t] = 0]
      /\ UNCHANGED <<sysTime, asleep, cursor, queueBlocked>>
  BY <1>1 DEF CreateStep, NewThread, CreateThread, Put
<1>3. t \in Threads /\ t \notin Sleeping /\ t \notin Blocked /\ t # running
  BY <1>2 DEF WaitsInv, KernelInv, TypeOK, OnePlace, Threads
<1>4. Ready' = Ready \cup {t}
  BY <1>2, <1>3, AppendList DEF WaitsInv, KernelInv, TypeOK, Ready
<1>5. Sleeping' = Sleeping /\ Blocked' = Blocked
  BY <1>2 DEF Sleeping, Blocked, BlockedOn
<1>6. OrderInv'
  <2>1. \A u \in Sleeping : timeForWakingUp'[u] = timeForWakingUp[u]
    BY <1>2, <1>3, SleepingThread DEF WaitsInv, KernelInv, TypeOK
  <2>2. QED
    BY <1>2, <2>1, OrderKept DEF WaitsInv, OrderInv
<1>7. \A u \in Threads : u # t => Stays(u)
  BY <1>2, <1>4, <1>5 DEF Stays, HasProcessor, WaitsInv, KernelInv, TypeOK
<1>8. Settles(t)
  <2>1. inCall'[t] = "none" /\ semStatus'[t] = "NON_WAITING"
    BY <1>2, <1>3 DEF WaitsInv, KernelInv, TypeOK
  <2>2. t \notin Sleeping' /\ t \notin Blocked' /\ ~HasProcessor(t)'
    BY <1>2, <1>3, <1>5 DEF HasProcessor
  <2>3. QED
    BY <2>1, <2>2 DEF Settles, CallAgrees, StatusesIn, IsInTime, TimeAgrees
<1>9. TimeGoesOn
  BY <1>2, SleepTimeAssumption DEF TimeGoesOn, WaitsInv, KernelInv, TypeOK
<1>10. QED
  BY <1>6, <1>7, <1>8, <1>9, WaitsKept

-----------------------------------------------------------------------------
\* A delay does not end before now; if the sum wraps, the thread is woken early.
LEMMA DelayIsAhead ==
    ASSUME WaitsInv, NEW d \in Delays, NEW e \in {d, CapDelay(d)}
    PROVE  /\ WakeUpTime(e) \in 0..TimeMod - 1 /\ sysTime + e \in Nat
           /\ WakeUpTime(e) <= sysTime + e /\ sysTime <= sysTime + e
           /\ NoWrap => WakeUpTime(e) = sysTime + e
<1>1. sysTime \in 0..MaxTime /\ MaxTime \in Nat /\ TimeMod \in Nat \ {0}
      /\ MaxTime < TimeMod /\ d \in 0..TimeMod - 1
  BY SleepTimeAssumption DEF WaitsInv, KernelInv, TypeOK
<1>2. e \in 0..d
  BY <1>1 DEF CapDelay
<1>3. PICK x \in Nat : x = sysTime + e
  BY <1>1, <1>2
<1>4. x \in 0..TimeMod - 1 \/ x \in TimeMod..2 * TimeMod - 1
  BY <1>1, <1>2, <1>3
<1>5. /\ x \in 0..TimeMod - 1 => x % TimeMod = x
      /\ x \in TimeMod..2 * TimeMod - 1 => x % TimeMod = x - TimeMod
  <2>1. PICK m \in Nat \ {0}, y \in Int : m = TimeMod /\ y = x
    BY <1>1
  <2>2. (y \in 0..m - 1 => y % m = y) /\ (y \in m..2 * m - 1 => y % m = y - m)
    BY Remainder
  <2>3. QED
    BY <2>1, <2>2
<1>6. NoWrap => x \in 0..TimeMod - 1
  <2>1. NoWrap => MaxTime + d < TimeMod
    BY DEF NoWrap
  <2>2. QED
    BY <1>1, <1>2, <1>3, <2>1
<1>7. WakeUpTime(e) = x % TimeMod
  BY <1>3 DEF WakeUpTime
<1>8. QED
  BY <1>1, <1>2, <1>3, <1>4, <1>5, <1>6, <1>7

\* The running thread is put into the list of sleepers, and into the queue of
\* a semaphore if it waits with a time limit.
LEMMA WaitsFallAsleep ==
    ASSUME WaitsInv, KernelInv', phase = "user", NEW state \in [Threads -> States],
           state[running] = "SUSPENDED", BeginDispatch(state, readyQueue),
           NEW n \in 0..TimeMod - 1, NEW m \in Nat,
           timeForWakingUp' = [timeForWakingUp EXCEPT ![running] = n],
           due' = [due EXCEPT ![running] = m],
           asleep' = InsertSorted(asleep, running, timeForWakingUp'),
           n <= m, sysTime <= m, NoWrap => n = m,
           UNCHANGED <<sysTime, cursor>>,
           \/ /\ inCall' = [inCall EXCEPT ![running] = "sleep"]
              /\ Blocked' = Blocked
              /\ UNCHANGED semStatus
           \/ /\ inCall' = [inCall EXCEPT ![running] = "timedBlock"]
              /\ Blocked' = Blocked \cup {running}
              /\ semStatus' = [semStatus EXCEPT ![running] = "TIMEDWAITING"]
    PROVE  WaitsInv'
<1>1. phase' = "dispatch" /\ running' = running /\ Ready' = Ready
  BY DispatchPlaces DEF WaitsInv, ReadyToRun
<1>2. /\ running \in Threads /\ running \notin Ready /\ running \notin Sleeping
      /\ running \notin Blocked
      /\ inCall[running] = "none" /\ semStatus[running] = "NON_WAITING"
  BY RunningAgrees
<1>3. OrderInv'
  BY <1>2, OrderGrows
<1>4. Sleeping' = Sleeping \cup {running}
  <2>1. asleep \in Seq(Threads) /\ \E key : asleep' = InsertSorted(asleep, running, key)
    BY DEF WaitsInv, KernelInv, TypeOK
  <2>2. QED
    BY <1>2, <2>1, InsertSortedList DEF Sleeping
<1>5. \A t : ~HasProcessor(t)'
  BY <1>1 DEF HasProcessor
<1>6. ASSUME NEW t \in Threads, t # running PROVE Stays(t)
  <2>1. /\ inCall'[t] = inCall[t] /\ semStatus'[t] = semStatus[t]
        /\ t \in Blocked' <=> t \in Blocked
    BY <1>6 DEF WaitsInv, KernelInv, TypeOK
  <2>2. timeForWakingUp'[t] = timeForWakingUp[t] /\ due'[t] = due[t]
    BY <1>6 DEF WaitsInv, KernelInv, TypeOK
  <2>3. QED
    BY <1>1, <1>4, <1>5, <1>6, <2>1, <2>2 DEF Stays
<1>7. ASSUME NEW t \in Threads, t = running PROVE Settles(t)
  <2>1. /\ t \in Sleeping' /\ t \notin Ready'
        /\ \/ /\ t \notin Blocked' /\ inCall'[t] = "sleep"
              /\ semStatus'[t] = "NON_WAITING"
           \/ t \in Blocked' /\ inCall'[t] = "timedBlock"
    <3>1. t \in Sleeping' /\ t \notin Ready' /\ t \in Threads /\ t \notin Blocked
          /\ inCall \in [Threads -> Handlers] /\ semStatus[t] = "NON_WAITING"
      BY <1>1, <1>2, <1>4, <1>7 DEF WaitsInv, KernelInv, TypeOK
    <3>2. CASE /\ inCall' = [inCall EXCEPT ![running] = "sleep"]
               /\ Blocked' = Blocked
               /\ UNCHANGED semStatus
      BY <1>7, <3>1, <3>2
    <3>3. CASE /\ inCall' = [inCall EXCEPT ![running] = "timedBlock"]
               /\ Blocked' = Blocked \cup {running}
      BY <1>7, <3>1, <3>3
    <3>4. QED
      BY <3>1, <3>2, <3>3
  <2>2. CallAgrees(t)'
    BY <1>5, <2>1 DEF CallAgrees
  <2>3. timeForWakingUp'[t] = n /\ due'[t] = m
    BY <1>2, <1>7 DEF WaitsInv, KernelInv, TypeOK
  <2>4. NoWrap => TimeAgrees(t)'
    BY <2>1, <2>3 DEF TimeAgrees
  <2>5. IsInTime(t)'
    BY <2>3 DEF IsInTime
  <2>6. QED
    BY <2>2, <2>4, <2>5 DEF Settles
<1>8. TimeGoesOn
  BY <1>1, SleepTimeAssumption DEF TimeGoesOn, WaitsInv, KernelInv, TypeOK
<1>9. QED
  BY <1>3, <1>6, <1>7, <1>8, WaitsKept

\* time_sleep.
LEMMA WaitsSleep ==
    ASSUME WaitsInv, KernelInv', SleepStep
    PROVE  WaitsInv'
<1>1. PICK d \in Delays : TimeSleep(d)
  BY DEF SleepStep
<1> DEFINE n == WakeUpTime(CapDelay(d))
           m == sysTime + CapDelay(d)
           state == [threadState EXCEPT ![running] = "SUSPENDED"]
<1>2. /\ phase = "user" /\ UNCHANGED <<semStatus, queueBlocked>>
      /\ timeForWakingUp' = [timeForWakingUp EXCEPT ![running] = n]
      /\ due' = [due EXCEPT ![running] = m]
      /\ asleep' = InsertSorted(asleep, running, timeForWakingUp')
      /\ inCall' = [inCall EXCEPT ![running] = "sleep"]
      /\ BeginDispatch(state, readyQueue)
      /\ UNCHANGED <<sysTime, cursor>>
  BY <1>1 DEF SleepStep, TimeSleep, semVars
<1>3. state \in [Threads -> States] /\ state[running] = "SUSPENDED"
  BY DEF WaitsInv, KernelInv, TypeOK, States
<1>4. /\ n \in 0..TimeMod - 1 /\ m \in Nat
      /\ n <= m /\ sysTime <= m /\ (NoWrap => n = m)
  BY DelayIsAhead
<1>5. Blocked' = Blocked
  BY <1>2 DEF Blocked, BlockedOn
<1> HIDE DEF n, m, state
<1>6. QED
  BY <1>2, <1>3, <1>4, <1>5, WaitsFallAsleep

\* What a wait that blocks does to the lists of the semaphores.
LEMMA EnterQueuePlaces ==
    ASSUME WaitsInv, phase = "user", running \in Programs, NEW s \in Sems, NEW status \in {"WAITING", "TIMEDWAITING"},
           EnterQueue(s, status)
    PROVE  /\ \E state \in [Threads -> States] :
                  state[running] = "SUSPENDED" /\ BeginDispatch(state, readyQueue)
           /\ Blocked' = Blocked \cup {running}
           /\ semStatus' = [semStatus EXCEPT ![running] = status]
<1>1. running \in Threads /\ running \in valid /\ ~IsFinished(running)
  BY RunningAgrees, ThreadsAssumption DEF WaitsInv, KernelInv, Roles, IsFinished
<1>2. /\ BeginDispatch(WithState(running, status), readyQueue)
      /\ queueBlocked' = [queueBlocked EXCEPT ![s] = Append(@, running)]
      /\ semStatus' = [semStatus EXCEPT ![running] = status]
  BY <1>1 DEF EnterQueue, WithStatus
<1>3. /\ WithState(running, status) \in [Threads -> States]
      /\ WithState(running, status)[running] = "SUSPENDED"
  BY <1>1 DEF WithState, StateOfStatus, WaitsInv, KernelInv, TypeOK, States
<1>4. /\ BlockedOn(s)' = BlockedOn(s) \cup {running}
      /\ \A r \in Sems : r # s => BlockedOn(r)' = BlockedOn(r)
  <2>1. queueBlocked[s] \in Seq(Threads)
    BY DEF WaitsInv, KernelInv, TypeOK
  <2>2. queueBlocked'[s] = Append(queueBlocked[s], running)
        /\ \A r \in Sems : r # s => queueBlocked'[r] = queueBlocked[r]
    BY <1>2 DEF WaitsInv, KernelInv, TypeOK
  <2>3. QED
    BY <1>1, <2>1, <2>2, AppendList DEF BlockedOn
<1>5. Blocked' = Blocked \cup {running}
  BY <1>4 DEF Blocked
<1>6. QED
  BY <1>2, <1>3, <1>5

\* sem_wait without a unit.
LEMMA WaitsBlock ==
    ASSUME WaitsInv, KernelInv', BlockStep
    PROVE  WaitsInv'
<1>1. PICK s \in Sems : Block(s)
  BY DEF BlockStep
<1>2. /\ phase = "user" /\ running \in Programs
      /\ EnterQueue(s, "WAITING")
      /\ inCall' = [inCall EXCEPT ![running] = "block"]
      /\ UNCHANGED <<sysTime, asleep, timeForWakingUp, cursor, due>>
  BY <1>1 DEF BlockStep, Block, timeVars
<1>3. PICK state \in [Threads -> States] :
          /\ state[running] = "SUSPENDED" /\ BeginDispatch(state, readyQueue)
          /\ Blocked' = Blocked \cup {running}
          /\ semStatus' = [semStatus EXCEPT ![running] = "WAITING"]
  BY <1>2, EnterQueuePlaces
<1>4. phase' = "dispatch" /\ running' = running /\ Ready' = Ready
  BY <1>2, <1>3, DispatchPlaces DEF WaitsInv, ReadyToRun
<1>5. running \in Threads /\ running \notin Ready /\ running \notin Sleeping
  BY <1>2, RunningAgrees
<1>6. Sleeping' = Sleeping
  BY <1>2 DEF Sleeping
<1>7. OrderInv'
  BY <1>2, OrderKept DEF WaitsInv, OrderInv
<1>8. \A t \in Threads : t # running => Stays(t)
  BY <1>2, <1>3, <1>4, <1>6 DEF Stays, HasProcessor, WaitsInv, KernelInv, TypeOK
<1>9. ASSUME NEW t \in Threads, t = running PROVE Settles(t)
  <2>1. /\ t \in Blocked' /\ t \notin Sleeping' /\ t \notin Ready'
        /\ inCall'[t] = "block" /\ ~HasProcessor(t)'
    BY <1>2, <1>3, <1>4, <1>5, <1>6, <1>9 DEF HasProcessor, WaitsInv, KernelInv, TypeOK
  <2>2. QED
    BY <2>1 DEF Settles, CallAgrees, IsInTime, TimeAgrees
<1>10. TimeGoesOn
  BY <1>2, <1>4, SleepTimeAssumption DEF TimeGoesOn, WaitsInv, KernelInv, TypeOK
<1>11. QED
  BY <1>7, <1>8, <1>9, <1>10, WaitsKept

\* sem_timedwait without a unit.
LEMMA WaitsTimedBlock ==
    ASSUME WaitsInv, KernelInv', TimedBlockStep
    PROVE  WaitsInv'
<1>1. PICK s \in Sems, d \in Delays : TimedBlock(s, d)
  BY DEF TimedBlockStep
<1> DEFINE n == WakeUpTime(d)
           m == sysTime + d
<1>2. /\ phase = "user" /\ running \in Programs
      /\ EnterQueue(s, "TIMEDWAITING")
      /\ timeForWakingUp' = [timeForWakingUp EXCEPT ![running] = n]
      /\ due' = [due EXCEPT ![running] = m]
      /\ asleep' = InsertSorted(asleep, running, timeForWakingUp')
      /\ inCall' = [inCall EXCEPT ![running] = "timedBlock"]
      /\ UNCHANGED <<sysTime, cursor>>
  BY <1>1 DEF TimedBlockStep, TimedBlock
<1>3. /\ n \in 0..TimeMod - 1 /\ m \in Nat
      /\ n <= m /\ sysTime <= m /\ (NoWrap => n = m)
  BY DelayIsAhead
<1>4. PICK state \in [Threads -> States] :
          /\ state[running] = "SUSPENDED" /\ BeginDispatch(state, readyQueue)
          /\ Blocked' = Blocked \cup {running}
          /\ semStatus' = [semStatus EXCEPT ![running] = "TIMEDWAITING"]
  BY <1>2, EnterQueuePlaces
<1> HIDE DEF n, m
<1>5. QED
  BY <1>2, <1>3, <1>4, WaitsFallAsleep

-----------------------------------------------------------------------------
\* A thread leaves the queue of s with the answer of who woke it.
LEMMA WaitsLeaveQueue ==
    ASSUME WaitsInv, KernelInv', phase # "dispatch", NEW s \in Sems, NEW t \in BlockedOn(s),
           NEW cause,
           \/ cause \in {"REGULARLY_WAITED", "SEM_DELETED"}
           \/ cause = "TIMEOUT" /\ t \in Sleeping /\ ShouldWakeUp(t),
           NEW q, ToSet(q) = BlockedOn(s) \ {t},
           queueBlocked' = [queueBlocked EXCEPT ![s] = q],
           asleep' = asleep \/ asleep' = RemoveSpec(asleep, t),
           Sleeping' = Sleeping \ {t},
           semStatus' = WithStatus(t, cause),
           readyQueue' = Put(readyQueue, t),
           UNCHANGED <<running, phase, inCall, sysTime, timeForWakingUp, cursor, due>>
    PROVE  WaitsInv'
<1>1. /\ t \in Threads /\ t \in Blocked /\ ~IsFinished(t) /\ t \notin Ready
      /\ \A r \in Sems : r # s => t \notin BlockedOn(r)
  BY BlockedThread DEF WaitsInv, KernelInv, OnePlace
<1>2. Ready' = Ready \cup {t}
  BY <1>1, AppendList DEF WaitsInv, KernelInv, TypeOK, Put, Ready
<1>3. ASSUME NEW r \in Sems PROVE BlockedOn(r)' = BlockedOn(r) \ {t}
  <2>1. queueBlocked' = [queueBlocked EXCEPT ![s] = q] /\ DOMAIN queueBlocked = Sems
    BY DEF WaitsInv, KernelInv, TypeOK
  <2>2. CASE r = s
    <3>1. queueBlocked'[r] = q
      BY <2>1, <2>2
    <3>2. QED
      BY <2>2, <3>1 DEF BlockedOn
  <2>3. CASE r # s
    <3>1. queueBlocked'[r] = queueBlocked[r]
      BY <2>1, <2>3
    <3>2. QED
      BY <1>1, <2>3, <3>1 DEF BlockedOn
  <2>4. QED
    BY <2>2, <2>3
<1>4. Blocked' = Blocked \ {t}
  BY <1>3 DEF Blocked
<1>5. semStatus' = [semStatus EXCEPT ![t] = cause]
  BY <1>1 DEF WithStatus
<1>6. OrderInv'
  BY <1>1, OrderKept DEF WaitsInv, OrderInv
<1>7. \A u \in Threads : u # t => Stays(u)
  BY <1>2, <1>4, <1>5 DEF Stays, HasProcessor, WaitsInv, KernelInv, TypeOK
<1>8. Settles(t)
  <2>1. /\ t \in Ready' /\ t \notin Sleeping' /\ t \notin Blocked' /\ ~HasProcessor(t)'
        /\ semStatus'[t] = cause /\ inCall'[t] = inCall[t]
        /\ inCall[t] \in {"block", "timedBlock"}
        /\ t \in Sleeping => inCall[t] = "timedBlock"
    <3>1. /\ t \in Ready' /\ t \notin Sleeping' /\ t \notin Blocked'
          /\ inCall'[t] = inCall[t]
      BY <1>1, <1>2, <1>4
    <3>2. semStatus'[t] = cause
      BY <1>1, <1>5 DEF WaitsInv, KernelInv, TypeOK
    <3>3. ~HasProcessor(t)'
      BY <1>1 DEF WaitsInv, KernelInv, OnePlace, HasProcessor
    <3>4. /\ inCall[t] \in {"block", "timedBlock"}
          /\ t \in Sleeping => inCall[t] = "timedBlock"
      <4>1. CallAgrees(t)
        BY <1>1 DEF WaitsInv
      <4>2. QED
        BY <1>1, <4>1 DEF CallAgrees
    <3>5. QED
      BY <3>1, <3>2, <3>3, <3>4
  <2>2. CallAgrees(t)'
    BY <2>1 DEF CallAgrees, StatusesIn
  <2>3. ASSUME NoWrap PROVE TimeAgrees(t)'
    <3>1. TimeAgrees(t)
      BY <1>1, <2>3 DEF WaitsInv
    <3>2. cause = "TIMEOUT" => sysTime >= due[t]
      BY <3>1, SleepTimeAssumption DEF TimeAgrees, ShouldWakeUp, WaitsInv, KernelInv, TypeOK
    <3>3. QED
      BY <2>1, <3>2 DEF TimeAgrees
  <2>4. IsInTime(t)'
    BY <2>1 DEF IsInTime
  <2>5. QED
    BY <2>2, <2>3, <2>4 DEF Settles
<1>9. TimeGoesOn
  BY SleepTimeAssumption DEF TimeGoesOn, WaitsInv, KernelInv, TypeOK
<1>10. QED
  BY <1>6, <1>7, <1>8, <1>9, WaitsKept

\* The thread at the head of a queue leaves it, and the sleepers.
LEMMA HeadLeaves ==
    ASSUME KernelInv, NEW s \in Sems, queueBlocked[s] # <<>>, NEW cause, UnblockFirst(s, cause)
    PROVE  \E t \in BlockedOn(s), q \in Seq(Threads) :
               /\ t = Head(queueBlocked[s]) /\ q = Tail(queueBlocked[s])
               /\ ToSet(q) = BlockedOn(s) \ {t}
               /\ queueBlocked' = [queueBlocked EXCEPT ![s] = q]
               /\ asleep' = asleep \/ asleep' = RemoveSpec(asleep, t)
               /\ Sleeping' = Sleeping \ {t}
               /\ semStatus' = WithStatus(t, cause)
               /\ mySem' = [mySem EXCEPT ![t] = NoSem]
               /\ readyQueue' = Put(readyQueue, t)
<1> DEFINE t == Head(queueBlocked[s])
           q == Tail(queueBlocked[s])
<1>1. queueBlocked[s] \in Seq(Threads) /\ IsInjective(queueBlocked[s])
      /\ asleep \in Seq(Threads) /\ IsInjective(asleep)
  BY DEF KernelInv, TypeOK, OnePlace
<1>2. t \in BlockedOn(s) /\ q \in Seq(Threads) /\ ToSet(q) = BlockedOn(s) \ {t}
  BY <1>1, TailList DEF BlockedOn
<1>3. /\ queueBlocked' = [queueBlocked EXCEPT ![s] = q]
      /\ asleep' = SleepersAfterUnblock(t)
      /\ semStatus' = WithStatus(t, cause)
      /\ mySem' = [mySem EXCEPT ![t] = NoSem]
      /\ readyQueue' = Put(readyQueue, t)
  BY DEF UnblockFirst
<1>4. (asleep' = asleep \/ asleep' = RemoveSpec(asleep, t)) /\ Sleeping' = Sleeping \ {t}
  <2>1. t \in Threads /\ t \in Blocked
    BY <1>2, BlockedThread
  <2> HIDE DEF t
  <2>2. CASE semStatus[t] = "TIMEDWAITING"
    BY <1>1, <1>3, <2>2, RemoveSpecList DEF SleepersAfterUnblock, Sleeping
  <2>3. CASE semStatus[t] # "TIMEDWAITING"
    <3>1. t \notin Sleeping
      BY <2>1, <2>3 DEF KernelInv, BlockedAgrees
    <3>2. asleep' = asleep
      BY <1>3, <2>3 DEF SleepersAfterUnblock
    <3>3. QED
      BY <3>1, <3>2 DEF Sleeping
  <2>4. QED
    BY <2>2, <2>3
<1>5. QED
  BY <1>2, <1>3, <1>4

\* sem_signal, and a turn of the loop of sem_close.
LEMMA WaitsUnblock ==
    ASSUME WaitsInv, KernelInv', SignalStep \/ UnblockAllStep
    PROVE  WaitsInv'
<1>1. /\ phase # "dispatch" /\ phase # "wake"
      /\ UNCHANGED <<running, inCall, sysTime, timeForWakingUp, cursor, due>>
  BY DEF SignalStep, SemSignal, UnblockAllStep
<1>2. PICK s \in Sems :
          \/ /\ UNCHANGED <<readyQueue, asleep, semStatus, queueBlocked>>
             /\ phase' = phase \/ phase' = "fault"
          \/ \E cause \in {"REGULARLY_WAITED", "SEM_DELETED"} :
                 queueBlocked[s] # <<>> /\ UnblockFirst(s, cause) /\ phase' = phase
  BY DEF SignalStep, SemSignal, UnblockAllStep, NullUnblock, WaitsInv, KernelInv, TypeOK, Roles
<1>3. CASE /\ UNCHANGED <<readyQueue, asleep, semStatus, queueBlocked>>
           /\ phase' = phase \/ phase' = "fault"
  <2>1. TimeGoesOn
    BY <1>1, <1>3, SleepTimeAssumption DEF TimeGoesOn, WaitsInv, KernelInv, TypeOK
  <2>2. \A r \in Sems : BlockedOn(r)' = BlockedOn(r)
    BY <1>3 DEF BlockedOn
  <2>3. cursor' = 1 /\ phase' # "dispatch"
    BY <1>1, <1>3 DEF WaitsInv, OrderInv
  <2>4. QED
    BY <1>1, <1>3, <2>1, <2>2, <2>3, WaitsQuiet
<1>4. CASE \E cause \in {"REGULARLY_WAITED", "SEM_DELETED"} :
               queueBlocked[s] # <<>> /\ UnblockFirst(s, cause) /\ phase' = phase
  <2>1. PICK cause \in {"REGULARLY_WAITED", "SEM_DELETED"} :
            queueBlocked[s] # <<>> /\ UnblockFirst(s, cause) /\ phase' = phase
    BY <1>4
  <2>2. PICK t \in BlockedOn(s), q \in Seq(Threads) :
            /\ ToSet(q) = BlockedOn(s) \ {t}
            /\ queueBlocked' = [queueBlocked EXCEPT ![s] = q]
            /\ asleep' = asleep \/ asleep' = RemoveSpec(asleep, t)
            /\ Sleeping' = Sleeping \ {t}
            /\ semStatus' = WithStatus(t, cause)
            /\ readyQueue' = Put(readyQueue, t)
    BY <2>1, HeadLeaves DEF WaitsInv
  <2>3. QED
    BY <1>1, <2>1, <2>2, WaitsLeaveQueue
<1>5. QED
  BY <1>2, <1>3, <1>4

\* What the timer does for the sleeper at the cursor: a timed waiter leaves
\* its queue with a timeout, any other sleeper gets ready.
LEMMA WakePlaces ==
    ASSUME KernelInv, WakeThreadUp
    PROVE  \E t \in Sleeping :
               /\ t = asleep[cursor] /\ ShouldWakeUp(t)
               /\ asleep' = RemoveSpec(asleep, t)
               /\ Sleeping' = Sleeping \ {t}
               /\ readyQueue' = Put(readyQueue, t)
               /\ cursor' = cursor
               /\ \/ \E s \in Sems :
                         /\ t \in BlockedOn(s) /\ mySem[t] = s
                         /\ semStatus[t] = "TIMEDWAITING"
                         /\ UnblockByTime(s, t)
                         /\ ToSet(RemoveSpec(queueBlocked[s], t)) = BlockedOn(s) \ {t}
                  \/ /\ t \notin Blocked
                     /\ UNCHANGED <<semStatus, mySem, val, queueBlocked, threadState>>
<1>1. PICK t : t = asleep[cursor]
  OBVIOUS
<1>2. /\ phase = "wake" /\ cursor <= Len(asleep) /\ ShouldWakeUp(t)
  BY <1>1 DEF WakeThreadUp, SleeperIsDue
<1>3. asleep \in Seq(Threads) /\ IsInjective(asleep) /\ cursor \in 1..Len(asleep)
  BY <1>2 DEF KernelInv, TypeOK, OnePlace
<1>4. t \in Sleeping
  BY <1>1, <1>3, InList DEF Sleeping
<1>5. t \in Threads /\ t \in valid
  BY <1>4, SleepingThread
<1>6. ToSet(RemoveSpec(asleep, t)) = Sleeping \ {t}
  BY <1>3, RemoveSpecList DEF Sleeping
<1>7. CASE IsTimedWaiter(t)
  <2>1. t \in Blocked /\ mySem[t] # NoSem /\ mySem[t] \in open /\ t \in BlockedOn(mySem[t])
    BY <1>5, <1>7 DEF KernelInv, BlockedAgrees, IsTimedWaiter
  <2>2. PICK s \in Sems : s = mySem[t] /\ t \in BlockedOn(s)
    BY <2>1 DEF KernelInv, TypeOK
  <2>3. UnblockByTime(s, t) /\ cursor' = cursor
    BY <1>1, <1>5, <1>7, <2>1, <2>2 DEF WakeThreadUp
  <2>4. ToSet(RemoveSpec(queueBlocked[s], t)) = BlockedOn(s) \ {t}
    BY RemoveSpecList DEF BlockedOn, KernelInv, TypeOK, OnePlace
  <2>5. asleep' = RemoveSpec(asleep, t) /\ readyQueue' = Put(readyQueue, t)
    BY <2>3 DEF UnblockByTime
  <2>6. Sleeping' = Sleeping \ {t}
    BY <1>6, <2>5 DEF Sleeping
  <2>7. QED
    BY <1>1, <1>2, <1>4, <1>7, <2>2, <2>3, <2>4, <2>5, <2>6 DEF IsTimedWaiter
<1>8. CASE ~IsTimedWaiter(t)
  <2>1. /\ asleep' = RemoveSpec(asleep, t) /\ readyQueue' = Put(readyQueue, t)
        /\ cursor' = cursor
        /\ UNCHANGED <<semStatus, mySem, val, queueBlocked, threadState>>
    BY <1>1, <1>5, <1>8 DEF WakeThreadUp
  <2>2. t \notin Blocked
    BY <1>4, <1>5, <1>8 DEF KernelInv, BlockedAgrees, IsTimedWaiter
  <2>3. Sleeping' = Sleeping \ {t}
    BY <1>6, <2>1 DEF Sleeping
  <2>4. QED
    BY <1>1, <1>2, <1>4, <2>1, <2>2, <2>3
<1>9. QED
  BY <1>7, <1>8

\* The timer wakes a sleeper.
LEMMA WaitsWake ==
    ASSUME WaitsInv, KernelInv', WakeThreadUp
    PROVE  WaitsInv'
<1>1. /\ phase = "wake"
      /\ UNCHANGED <<running, phase, inCall, sysTime, timeForWakingUp, due>>
  BY DEF WakeThreadUp
<1>2. PICK t \in Sleeping :
          /\ ShouldWakeUp(t)
          /\ asleep' = RemoveSpec(asleep, t)
          /\ Sleeping' = Sleeping \ {t}
          /\ readyQueue' = Put(readyQueue, t)
          /\ cursor' = cursor
          /\ \/ \E s \in Sems :
                    /\ t \in BlockedOn(s) /\ mySem[t] = s
                    /\ UnblockByTime(s, t)
                    /\ ToSet(RemoveSpec(queueBlocked[s], t)) = BlockedOn(s) \ {t}
             \/ t \notin Blocked /\ UNCHANGED <<semStatus, queueBlocked>>
  BY WakePlaces DEF WaitsInv
<1>3. ASSUME NEW s \in Sems, t \in BlockedOn(s), UnblockByTime(s, t),
             ToSet(RemoveSpec(queueBlocked[s], t)) = BlockedOn(s) \ {t}
      PROVE  WaitsInv'
  <2> DEFINE q == RemoveSpec(queueBlocked[s], t)
  <2>1. /\ queueBlocked' = [queueBlocked EXCEPT ![s] = q]
        /\ semStatus' = WithStatus(t, "TIMEOUT")
        /\ ToSet(q) = BlockedOn(s) \ {t}
    BY <1>3 DEF UnblockByTime, QueueAfterTimeout
  <2> HIDE DEF q
  <2>2. QED
    BY <1>1, <1>2, <1>3, <2>1, WaitsLeaveQueue
<1>4. CASE t \notin Blocked /\ UNCHANGED <<semStatus, queueBlocked>>
  <2>1. t \in Threads /\ t \notin Ready
    BY SleepingThread DEF WaitsInv
  <2>2. Ready' = Ready \cup {t}
    BY <1>2, <2>1, AppendList DEF WaitsInv, KernelInv, TypeOK, Put, Ready
  <2>3. Blocked' = Blocked
    BY <1>4 DEF Blocked, BlockedOn
  <2>4. OrderInv'
    BY <1>1, <1>2, <2>1, OrderKept DEF WaitsInv, OrderInv
  <2>5. \A u \in Threads : u # t => Stays(u)
    BY <1>1, <1>2, <1>4, <2>2, <2>3 DEF Stays, HasProcessor
  <2>6. Settles(t)
    <3>1. /\ t \in Ready' /\ t \notin Sleeping' /\ t \notin Blocked' /\ ~HasProcessor(t)'
          /\ inCall'[t] = "sleep" /\ semStatus'[t] = "NON_WAITING"
      BY <1>1, <1>2, <1>4, <2>1, <2>2, <2>3
      DEF WaitsInv, CallAgrees, KernelInv, OnePlace, HasProcessor
    <3>2. CallAgrees(t)'
      BY <3>1 DEF CallAgrees, StatusesIn
    <3>3. ASSUME NoWrap PROVE TimeAgrees(t)'
      <4>1. TimeAgrees(t)
        BY <2>1, <3>3 DEF WaitsInv
      <4>2. sysTime >= due[t]
        BY <1>2, <4>1, SleepTimeAssumption DEF TimeAgrees, ShouldWakeUp, WaitsInv, KernelInv, TypeOK
      <4>3. QED
        BY <1>1, <3>1, <4>2 DEF TimeAgrees
    <3>4. IsInTime(t)'
      BY <3>1 DEF IsInTime
    <3>5. QED
      BY <3>2, <3>3, <3>4 DEF Settles
  <2>7. TimeGoesOn
    BY <1>1, SleepTimeAssumption DEF TimeGoesOn, WaitsInv, KernelInv, TypeOK
  <2>8. QED
    BY <2>4, <2>5, <2>6, <2>7, WaitsKept
<1>5. QED
  BY <1>2, <1>3, <1>4

\* dispatch() takes a dead thread, or the thread that goes on, from the front
\* of the ready queue.
LEMMA FrontPlaces ==
    ASSUME KernelInv, readyQueue # <<>>
    PROVE  /\ Head(readyQueue) \in Ready /\ Head(readyQueue) \in Threads
           /\ Head(readyQueue) \notin Sleeping /\ Head(readyQueue) \notin Blocked
           /\ RemoveSpec(readyQueue, Head(readyQueue)) = Tail(readyQueue)
           /\ ToSet(Tail(readyQueue)) = Ready \ {Head(readyQueue)}
<1>1. readyQueue \in Seq(Threads) /\ IsInjective(readyQueue)
  BY DEF KernelInv, TypeOK, OnePlace
<1>2. /\ Head(readyQueue) \in Ready /\ Head(readyQueue) \in Threads
      /\ ToSet(Tail(readyQueue)) = Ready \ {Head(readyQueue)}
  BY <1>1, TailList DEF Ready
<1>3. RemoveSpec(readyQueue, Head(readyQueue)) = Tail(readyQueue)
  BY <1>1, RemoveHead
<1>4. QED
  BY <1>2, <1>3 DEF KernelInv, OnePlace

LEMMA WaitsReap ==
    ASSUME WaitsInv, KernelInv', ReapStep
    PROVE  WaitsInv'
<1>1. PICK t : t = Head(readyQueue)
  OBVIOUS
<1>2. /\ phase = "dispatch" /\ readyQueue # <<>>
      /\ readyQueue' = RemoveSpec(readyQueue, t)
      /\ UNCHANGED <<phase, running, inCall, sysTime, asleep, timeForWakingUp, due,
                     cursor, semStatus, queueBlocked>>
  BY <1>1 DEF ReapStep, ReapDead, timeVars, semVars
<1>3. /\ t \in Threads /\ t \notin Sleeping /\ t \notin Blocked
      /\ Ready' = Ready \ {t}
  BY <1>1, <1>2, FrontPlaces DEF WaitsInv, Ready
<1>4. Sleeping' = Sleeping /\ Blocked' = Blocked /\ \A u : ~HasProcessor(u)'
  BY <1>2 DEF Sleeping, Blocked, BlockedOn, HasProcessor
<1>5. OrderInv'
  BY <1>2, OrderKept DEF WaitsInv, OrderInv
<1>6. \A u \in Threads : u # t => Stays(u)
  BY <1>2, <1>3, <1>4 DEF Stays
<1>7. Settles(t)
  BY <1>3, <1>4 DEF Settles, CallAgrees, IsInTime, TimeAgrees
<1>8. TimeGoesOn
  BY <1>2, SleepTimeAssumption DEF TimeGoesOn, WaitsInv, KernelInv, TypeOK
<1>9. QED
  BY <1>5, <1>6, <1>7, <1>8, WaitsKept

\* The first ready thread leaves its call: it waits for nothing any more.
LEMMA WaitsSwitch ==
    ASSUME WaitsInv, KernelInv', NEW t \in Threads,
           \/ SwitchToUser(t) \/ ReturnFromSleep(t)
           \/ ReturnFromBlock(t) \/ ReturnFromTimedBlock(t)
    PROVE  WaitsInv'
<1>1. PICK state : SwitchTo(t, state)
  BY DEF SwitchToUser, ReturnFromSleep, ReturnFromBlock, ReturnFromTimedBlock, LeaveQueue
<1>2. /\ phase = "dispatch" /\ phase' = "user" /\ running' = t
      /\ readyQueue # <<>> /\ t = Head(readyQueue) /\ readyQueue' = Tail(readyQueue)
      /\ inCall' = [inCall EXCEPT ![t] = "none"]
      /\ UNCHANGED <<sysTime, asleep, cursor, queueBlocked>>
  BY <1>1 DEF SwitchTo
<1>3. /\ t \in Ready /\ t \notin Sleeping /\ t \notin Blocked
      /\ Ready' = Ready \ {t}
  BY <1>2, FrontPlaces DEF WaitsInv, Ready
<1>4. Sleeping' = Sleeping /\ Blocked' = Blocked
  BY <1>2 DEF Sleeping, Blocked, BlockedOn
<1>5. \A u \in Threads : u # t => ~HasProcessor(u)'
  BY <1>2 DEF HasProcessor
<1>6. /\ \A u \in Threads : u # t => /\ inCall'[u] = inCall[u] /\ semStatus'[u] = semStatus[u]
                                     /\ timeForWakingUp'[u] = timeForWakingUp[u]
                                     /\ due'[u] = due[u]
      /\ inCall'[t] = "none"
  <2>1. /\ inCall \in [Threads -> Handlers]
        /\ semStatus \in [Threads -> Statuses]
        /\ timeForWakingUp \in [Threads -> 0..TimeMod - 1] /\ due \in [Threads -> Nat]
    BY DEF WaitsInv, KernelInv, TypeOK
  <2>2. /\ \A u \in Threads : u # t => inCall'[u] = inCall[u]
        /\ inCall'[t] = "none"
    BY <1>2, <2>1
  <2>3. \A u \in Threads : u # t => semStatus'[u] = semStatus[u]
    BY <2>1 DEF SwitchToUser, ReturnFromSleep, ReturnFromBlock, ReturnFromTimedBlock, LeaveQueue
  <2>4. \A u \in Threads : u # t => timeForWakingUp'[u] = timeForWakingUp[u]
    BY <2>1 DEF SwitchToUser, ReturnFromSleep, ReturnFromBlock, ReturnFromTimedBlock
  <2>5. \A u \in Threads : u # t => due'[u] = due[u]
    BY <2>1 DEF SwitchToUser, ReturnFromSleep, ReturnFromBlock, ReturnFromTimedBlock
  <2>6. QED
    BY <2>2, <2>3, <2>4, <2>5
<1>7. semStatus'[t] = "NON_WAITING"
  <2>1. CASE SwitchToUser(t) \/ ReturnFromSleep(t)
    <3>1. UNCHANGED semStatus /\ inCall[t] \in {"none", "sleep"}
      BY <2>1 DEF SwitchToUser, ReturnFromSleep
    <3>2. semStatus[t] \in StatusesIn(inCall[t])
      BY <1>3 DEF WaitsInv, CallAgrees
    <3>3. QED
      BY <3>1, <3>2 DEF StatusesIn
  <2>2. CASE ReturnFromBlock(t) \/ ReturnFromTimedBlock(t)
    BY <2>2 DEF ReturnFromBlock, ReturnFromTimedBlock, LeaveQueue, WaitsInv, KernelInv, TypeOK
  <2>3. QED
    BY <2>1, <2>2
<1>8. OrderInv'
  <2>1. \A u \in Sleeping : timeForWakingUp'[u] = timeForWakingUp[u]
    BY <1>3, <1>6, SleepingThread DEF WaitsInv
  <2>2. QED
    BY <1>2, <2>1, OrderKept DEF WaitsInv, OrderInv
<1>9. \A u \in Threads : u # t => Stays(u)
  BY <1>3, <1>4, <1>5, <1>6 DEF Stays
<1>10. Settles(t)
  BY <1>3, <1>4, <1>6, <1>7 DEF Settles, CallAgrees, IsInTime, TimeAgrees
<1>11. TimeGoesOn
  BY <1>2, SleepTimeAssumption DEF TimeGoesOn, WaitsInv, KernelInv, TypeOK
<1>12. QED
  BY <1>8, <1>9, <1>10, <1>11, WaitsKept

-----------------------------------------------------------------------------
\* What the threads find when they go on fits, in every state.
THEOREM WaitsInvInit == Init => WaitsInv
<1> SUFFICES ASSUME Init PROVE WaitsInv
  OBVIOUS
<1>1. /\ running = Main /\ phase = "user" /\ asleep = <<>> /\ cursor = 1
      /\ inCall = [t \in Threads |-> "none"]
      /\ semStatus = [t \in Threads |-> "NON_WAITING"]
      /\ queueBlocked = [s \in Sems |-> <<>>]
  BY DEF Init, ThreadsInit, SleepTimeInit, SemaphoresInit
<1>2. Sleeping = {} /\ Blocked = {} /\ OrderInv
  BY <1>1 DEF Sleeping, Blocked, BlockedOn, ToSet, OrderInv, OrderedBy
<1>3. \A t \in Threads : CallAgrees(t) /\ IsInTime(t) /\ TimeAgrees(t)
  BY <1>1, <1>2 DEF CallAgrees, StatusesIn, IsInTime, TimeAgrees
<1>4. QED
  BY <1>2, <1>3, KernelInvInit DEF WaitsInv

\* WaitsInv is inductive: one step per kind of step of the kernel.
THEOREM WaitsInvStep == WaitsInv /\ [Next]_vars => WaitsInv'
<1> SUFFICES ASSUME WaitsInv, [Next]_vars PROVE WaitsInv'
  OBVIOUS
<1>1. KernelInv' /\ KernelStep /\ cursor = 1
  BY KernelInvStep, StepsOfNext DEF WaitsInv, OrderInv
<1>2. CASE DispatchStep \/ KillStep
  <2>1. PICK state \in {threadState, SubtleKill(threadState, Services)} :
            /\ BeginDispatch(state, readyQueue) /\ phase = "user"
            /\ state = threadState \/ running = Main
    BY <1>2 DEF DispatchStep, ThreadDispatch, KillStep, KillServices
  <2>2. UNCHANGED <<inCall, sysTime, asleep, timeForWakingUp, due, cursor, semStatus, queueBlocked>>
    BY <1>2 DEF DispatchStep, ThreadDispatch, KillStep, KillServices, timeVars, semVars
  <2>3. state \in [Threads -> States] /\ state[running] = threadState[running]
    BY <2>1, ThreadsAssumption DEF SubtleKill, WaitsInv, KernelInv, TypeOK, States
  <2>4. ReadyToRun(state[running])
    BY <2>1, <2>3 DEF WaitsInv, KernelInv, RunningCanBePut
  <2>5. QED
    BY <1>1, <2>1, <2>2, <2>3, <2>4, WaitsDispatch
<1>3. CASE EndTickStep
  <2>1. /\ phase = "wake" /\ cursor' = 1 /\ NoneIsDue
        /\ UNCHANGED <<running, inCall, sysTime, asleep, timeForWakingUp, due, semStatus, queueBlocked>>
    BY <1>3, FirstIsNotDue DEF EndTickStep, EndTimerInterrupt, BeginDispatch, semVars
  <2>2. CASE TimeSliceIsOver
    <3>1. BeginDispatch(threadState, readyQueue) /\ threadState \in [Threads -> States]
          /\ ReadyToRun(threadState[running])
      BY <1>3, <2>1, <2>2 DEF EndTickStep, EndTimerInterrupt, WaitsInv, KernelInv, TypeOK,
         RunningCanBePut
    <3>2. QED
      BY <1>1, <2>1, <3>1, WaitsDispatch
  <2>3. CASE ~TimeSliceIsOver
    <3>1. phase' = "user" /\ UNCHANGED readyQueue
      BY <1>3, <2>3 DEF EndTickStep, EndTimerInterrupt
    <3>2. TimeGoesOn /\ \A s \in Sems : BlockedOn(s)' = BlockedOn(s)
      BY <2>1, SleepTimeAssumption DEF TimeGoesOn, WaitsInv, KernelInv, TypeOK, BlockedOn
    <3>3. QED
      BY <1>1, <2>1, <3>1, <3>2, WaitsQuiet
  <2>4. QED
    BY <2>2, <2>3
<1>4. CASE ExitStep
  BY <1>1, <1>4, WaitsExit
<1>5. CASE CreateStep
  BY <1>1, <1>5, WaitsCreate
<1>6. CASE SleepStep
  BY <1>1, <1>6, WaitsSleep
<1>7. CASE BlockStep
  BY <1>1, <1>7, WaitsBlock
<1>8. CASE TimedBlockStep
  BY <1>1, <1>8, WaitsTimedBlock
<1>9. CASE SignalStep \/ UnblockAllStep
  BY <1>1, <1>9, WaitsUnblock
<1>10. CASE OpenStep
  <2>1. PICK s \in Sems, n \in InitVals : SemOpen(s, n)
    BY <1>10 DEF OpenStep
  <2>2. /\ s \notin open /\ queueBlocked' = [queueBlocked EXCEPT ![s] = <<>>]
        /\ UNCHANGED <<running, phase, readyQueue, inCall, sysTime, asleep, timeForWakingUp,
                       cursor, due, semStatus>>
    BY <2>1 DEF SemOpen, threadVars, timeVars
  <2>3. BlockedOn(s) = {}
    BY <2>2, BlockedThread DEF WaitsInv
  <2>4. \A r \in Sems : BlockedOn(r)' = BlockedOn(r)
    <3>1. ToSet(<<>>) = {}
      BY DEF ToSet
    <3>2. queueBlocked'[s] = <<>> /\ \A r \in Sems : r # s => queueBlocked'[r] = queueBlocked[r]
      BY <2>2 DEF WaitsInv, KernelInv, TypeOK
    <3>3. QED
      BY <2>3, <3>1, <3>2 DEF BlockedOn
  <2>5. TimeGoesOn
    BY <1>10, <2>2, SleepTimeAssumption DEF OpenStep, TimeGoesOn, WaitsInv, KernelInv, TypeOK
  <2>6. QED
    BY <1>1, <2>2, <2>4, <2>5, WaitsQuiet
<1>11. CASE TickStep
  <2>1. /\ phase' = "wake" /\ phase = "user" /\ cursor' = 1 /\ sysTime' = IncSysTime
        /\ UNCHANGED <<running, readyQueue, inCall, asleep, timeForWakingUp, due, semStatus,
                       queueBlocked>>
    BY <1>11 DEF TickStep, TimerInterrupt, semVars
  <2>2. TimeGoesOn /\ \A s \in Sems : BlockedOn(s)' = BlockedOn(s)
    BY <2>1, SleepTimeAssumption
    DEF TimeGoesOn, IncSysTime, WaitsInv, KernelInv, TypeOK, BlockedOn
  <2>3. QED
    BY <1>1, <2>1, <2>2, WaitsQuiet
<1>12. CASE TakeStep \/ TryWaitStep \/ CloseStep \/ EndSemClose \/ OtherStep
  <2>1. UNCHANGED <<running, readyQueue, inCall, sysTime, asleep, timeForWakingUp, cursor, due,
                    semStatus, queueBlocked>>
    BY <1>12 DEF TakeStep, TakeUnit, TryWaitStep, TryWait, CloseStep, SemClose, EndSemClose,
       OtherStep, threadVars, timeVars, semVars
  <2>2. /\ phase = "dispatch" => phase' = "dispatch"
        /\ phase = "wake" => phase' = "wake"
    BY <1>12 DEF TakeStep, TakeUnit, TryWaitStep, TryWait, CloseStep, SemClose, EndSemClose,
       OtherStep, threadVars
  <2>3. TimeGoesOn
    BY <2>1, <2>2, SleepTimeAssumption DEF TimeGoesOn, WaitsInv, KernelInv, TypeOK
  <2>4. \A s \in Sems : BlockedOn(s)' = BlockedOn(s)
    BY <2>1 DEF BlockedOn
  <2>5. QED
    BY <1>1, <2>1, <2>2, <2>3, <2>4, WaitsQuiet
<1>13. CASE WakeThreadUp
  BY <1>1, <1>13, WaitsWake
<1>14. CASE ReapStep
  BY <1>1, <1>14, WaitsReap
<1>15. CASE \E t \in Threads : \/ SwitchToUser(t) \/ ReturnFromSleep(t)
                               \/ ReturnFromBlock(t) \/ ReturnFromTimedBlock(t)
  BY <1>1, <1>15, WaitsSwitch
<1>16. QED
  BY <1>1, <1>2, <1>3, <1>4, <1>5, <1>6, <1>7, <1>8, <1>9, <1>10, <1>11, <1>12, <1>13, <1>14,
     <1>15 DEF KernelStep

\* A thread leaves a wait with the answer of who woke it, whatever the calls,
\* the timer and the closes in between.
THEOREM WaitsAreAnswered == Spec => []WaitIsAnswered
<1>1. WaitsInv => WaitIsAnswered
  <2> SUFFICES ASSUME WaitsInv, NEW t \in Ready
               PROVE  /\ inCall[t] \in {"block", "timedBlock"} =>
                             WaitAnswer(semStatus[t]) \in
                                 {"SEM_OKAYWAITED", "SEM_DEAD", "SEM_TIMEOUT"}
                      /\ semStatus[t] = "TIMEOUT" => inCall[t] = "timedBlock"
    BY DEF WaitIsAnswered
  <2>1. t \in Threads
    BY DEF WaitsInv, KernelInv, OnePlace, TypeOK
  <2>2. semStatus[t] \in StatusesIn(inCall[t])
    BY <2>1 DEF WaitsInv, CallAgrees
  <2>3. QED
    BY <2>2 DEF StatusesIn, WaitAnswer
<1>2. QED
  BY WaitsInvInit, WaitsInvStep, <1>1, PTL DEF Spec

\* The list of sleepers is in order and the timer leaves nobody behind that is
\* due, whatever the delays: those that wrap and those of no time included.
THEOREM SleepersAreInOrder == Spec => []SleepersInOrder
<1>1. WaitsInv => SleepersInOrder
  <2> SUFFICES ASSUME WaitsInv PROVE SleepersInOrder
    OBVIOUS
  <2>1. /\ asleep \in Seq(Threads) /\ OrderedBy(asleep, timeForWakingUp)
        /\ \A t \in Threads : IsInTime(t)
    BY DEF WaitsInv, KernelInv, TypeOK, OrderInv
  <2>2. Sleeping \subseteq Threads
    BY <2>1, InList DEF Sleeping
  <2>3. ~SleeperIsDue => NoneIsDue
    BY FirstIsNotDue
  <2>4. QED
    BY <2>1, <2>2, <2>3 DEF SleepersInOrder, OrderedBy, IsInTime, NoneIsDue
<1>2. QED
  BY WaitsInvInit, WaitsInvStep, <1>1, PTL DEF Spec

\* While the clock is a delay away from its end, nobody is woken by the timer
\* before the time it asked for.
THEOREM NobodyWakesEarly ==
    ASSUME NoWrap
    PROVE  Spec => []NoEarlyWake
<1>1. WaitsInv => NoEarlyWake
  BY DEF WaitsInv, NoEarlyWake, TimeAgrees, KernelInv, OnePlace, TypeOK
<1>2. QED
  BY WaitsInvInit, WaitsInvStep, <1>1, PTL DEF Spec

-----------------------------------------------------------------------------

CountInv == KernelInv /\ ValCountsWaiters /\ phase # "fault"

\* The length of the queue of a semaphore with value n.
Debt(n) == IF n < 0 THEN -n ELSE 0

\* The types of a semaphore, as used below.
LEMMA CountTypes ==
    ASSUME KernelInv, NEW s \in Sems
    PROVE  /\ val[s] \in Int
           /\ queueBlocked[s] \in Seq(Threads)
           /\ Len(queueBlocked[s]) \in Nat
           /\ (Len(queueBlocked[s]) = 0 <=> queueBlocked[s] = <<>>)
  BY DEF KernelInv, TypeOK

\* A step that changes val and the queue of one semaphore.
LEMMA CountOne ==
    ASSUME CountInv, NEW s \in Sems, NEW n \in Int, NEW q \in Seq(Threads),
           val' = [val EXCEPT ![s] = n],
           queueBlocked' = [queueBlocked EXCEPT ![s] = q],
           open' \subseteq open \cup {s},
           Len(q) = Debt(n)
    PROVE  ValCountsWaiters'
<1>1. \A r \in Sems : r # s => val'[r] = val[r] /\ queueBlocked'[r] = queueBlocked[r]
  BY DEF CountInv, KernelInv, TypeOK
<1>2. val'[s] = n /\ queueBlocked'[s] = q
  BY DEF CountInv, KernelInv, TypeOK
<1>3. ASSUME NEW r \in open' PROVE Len(queueBlocked'[r]) = IF val'[r] < 0 THEN -val'[r] ELSE 0
  <2>1. CASE r = s
    BY <1>2, <2>1 DEF Debt
  <2>2. CASE r # s
    <3>1. r \in open /\ r \in Sems
      BY <2>2 DEF CountInv, KernelInv, TypeOK
    <3>2. QED
      BY <1>1, <2>2, <3>1 DEF CountInv, ValCountsWaiters
  <2>3. QED
    BY <2>1, <2>2
<1>4. QED
  BY <1>3 DEF ValCountsWaiters

\* A step that changes no val and no queue keeps the count.
LEMMA CountSame ==
    ASSUME CountInv, open' \subseteq open, UNCHANGED <<val, queueBlocked>>
    PROVE  ValCountsWaiters'
  BY DEF CountInv, ValCountsWaiters

\* Taking the first thread off the queue of s and giving its unit back.
LEMMA CountUnblockFirst ==
    ASSUME CountInv, NEW s \in open, val[s] < 0, NEW cause, UnblockFirst(s, cause),
           val' = [val EXCEPT ![s] = @ + 1], open' = open
    PROVE  ValCountsWaiters'
<1>1. s \in Sems /\ KernelInv
  BY DEF CountInv, KernelInv, TypeOK
<1>2. Len(queueBlocked[s]) = -val[s] /\ val[s] \in Int /\ queueBlocked[s] \in Seq(Threads)
  BY <1>1, CountTypes DEF CountInv, ValCountsWaiters
<1>3. queueBlocked[s] # <<>>
  BY <1>1, <1>2, CountTypes
<1>4. Tail(queueBlocked[s]) \in Seq(Threads) /\ Len(Tail(queueBlocked[s])) = Debt(val[s] + 1)
  BY <1>2, <1>3, TailList DEF Debt
<1>5. queueBlocked' = [queueBlocked EXCEPT ![s] = Tail(queueBlocked[s])]
      /\ val' = [val EXCEPT ![s] = val[s] + 1]
  BY DEF UnblockFirst
<1>6. val[s] + 1 \in Int /\ open' \subseteq open \cup {s}
  BY <1>2
<1>7. QED
  BY <1>1, <1>4, <1>5, <1>6, CountOne

-----------------------------------------------------------------------------
\* sem_signal finds a waiter when it looks for one.
LEMMA CountSignal ==
    ASSUME CountInv, SignalStep
    PROVE  ValCountsWaiters' /\ phase' # "fault"
<1>1. PICK s \in Sems : SemSignal(s)
  BY DEF SignalStep
<1>2. s \in open /\ val' = [val EXCEPT ![s] = @ + 1] /\ open' = open /\ phase = "user"
  BY <1>1 DEF SignalStep, SemSignal
<1>3. /\ val[s] \in Int /\ queueBlocked[s] \in Seq(Threads)
      /\ Len(queueBlocked[s]) = Debt(val[s])
      /\ (Len(queueBlocked[s]) = 0 <=> queueBlocked[s] = <<>>)
  BY <1>2, CountTypes DEF CountInv, ValCountsWaiters, Debt
<1>4. CASE SignalWakes(val[s])
  <2>1. \/ NullUnblock(s)
        \/ queueBlocked[s] # <<>> /\ UnblockFirst(s, "REGULARLY_WAITED") /\ UNCHANGED phase
    BY <1>1, <1>4 DEF SemSignal
  <2>2. val[s] < 0
    BY <1>3, <1>4 DEF SignalWakes
  <2>3. queueBlocked[s] # <<>>
    BY <1>3, <2>2 DEF Debt
  <2>4. UnblockFirst(s, "REGULARLY_WAITED") /\ UNCHANGED phase
    BY <2>1, <2>3 DEF NullUnblock
  <2>5. QED
    BY <1>2, <2>2, <2>4, CountUnblockFirst
<1>5. CASE ~SignalWakes(val[s])
  <2>1. UNCHANGED <<queueBlocked, phase>>
    BY <1>1, <1>5 DEF SemSignal
  <2>2. Len(queueBlocked[s]) = Debt(val[s] + 1)
    BY <1>3, <1>5 DEF SignalWakes, Debt
  <2>3. queueBlocked' = [queueBlocked EXCEPT ![s] = queueBlocked[s]]
    BY <2>1 DEF CountInv, KernelInv, TypeOK
  <2>4. val[s] + 1 \in Int /\ val' = [val EXCEPT ![s] = val[s] + 1]
        /\ open' \subseteq open \cup {s} /\ s \in Sems /\ phase' # "fault"
    BY <1>2, <1>3, <2>1 DEF CountInv, KernelInv, TypeOK
  <2>5. ValCountsWaiters'
    BY <1>3, <2>2, <2>3, <2>4, CountOne
  <2>6. QED
    BY <2>4, <2>5
<1>6. QED
  BY <1>4, <1>5

\* sem_close finds a waiter as long as val is negative.
LEMMA CountUnblockAll ==
    ASSUME CountInv, UnblockAllStep
    PROVE  ValCountsWaiters' /\ phase' # "fault"
<1>1. /\ phase = "close" /\ closing \in open /\ closing \in Sems
      /\ val[closing] < 0 /\ open' = open
  BY DEF UnblockAllStep, CountInv, KernelInv, Roles, TypeOK
<1>2. queueBlocked[closing] # <<>>
  BY <1>1, CountTypes DEF CountInv, ValCountsWaiters
<1>3. /\ UnblockFirst(closing, "SEM_DELETED")
      /\ val' = [val EXCEPT ![closing] = @ + 1]
      /\ UNCHANGED phase
  BY <1>2 DEF UnblockAllStep, NullUnblock
<1>4. QED
  BY <1>1, <1>3, CountUnblockFirst

\* A wait that blocks adds a waiter and takes a unit.
LEMMA CountBlock ==
    ASSUME CountInv, BlockStep \/ TimedBlockStep
    PROVE  ValCountsWaiters' /\ phase' # "fault"
<1>1. PICK s \in Sems : EnterQueue(s, "WAITING") \/ EnterQueue(s, "TIMEDWAITING")
  BY DEF BlockStep, Block, TimedBlockStep, TimedBlock
<1>2. /\ s \in open /\ val[s] - 1 < 0
      /\ val' = [val EXCEPT ![s] = val[s] - 1]
      /\ queueBlocked' = [queueBlocked EXCEPT ![s] = Append(queueBlocked[s], running)]
      /\ open' = open /\ phase' = "dispatch"
  BY <1>1 DEF EnterQueue, WaitWouldBlock, BeginDispatch
<1>3. /\ val[s] \in Int /\ queueBlocked[s] \in Seq(Threads)
      /\ Len(queueBlocked[s]) = Debt(val[s])
      /\ running \in Threads
  BY <1>2, CountTypes DEF CountInv, ValCountsWaiters, Debt, KernelInv, TypeOK
<1>4. /\ Append(queueBlocked[s], running) \in Seq(Threads)
      /\ Len(Append(queueBlocked[s], running)) = Debt(val[s] - 1)
  BY <1>2, <1>3, AppendList DEF Debt
<1>5. val[s] - 1 \in Int /\ open' \subseteq open \cup {s} /\ s \in Sems
  BY <1>2, <1>3 DEF CountInv, KernelInv, TypeOK
<1>6. ValCountsWaiters'
  BY <1>2, <1>4, <1>5, CountOne
<1>7. QED
  BY <1>2, <1>6

\* A wait that does not block takes a unit that is there.
LEMMA CountTake ==
    ASSUME CountInv, TakeStep
    PROVE  ValCountsWaiters' /\ phase' # "fault"
<1>1. PICK s \in Sems : TakeUnit(s)
  BY DEF TakeStep
<1>2. /\ s \in open /\ ~(val[s] - 1 < 0)
      /\ val' = [val EXCEPT ![s] = val[s] - 1]
      /\ UNCHANGED <<queueBlocked, open, phase>>
  BY <1>1 DEF TakeUnit, WaitWouldBlock, threadVars
<1>3. /\ val[s] \in Int /\ queueBlocked[s] \in Seq(Threads)
      /\ Len(queueBlocked[s]) = Debt(val[s])
  BY <1>2, CountTypes DEF CountInv, ValCountsWaiters, Debt
<1>4. Len(queueBlocked[s]) = Debt(val[s] - 1)
  BY <1>2, <1>3 DEF Debt
<1>5. queueBlocked' = [queueBlocked EXCEPT ![s] = queueBlocked[s]]
  BY <1>2 DEF CountInv, KernelInv, TypeOK
<1>6. /\ val[s] - 1 \in Int /\ open' \subseteq open \cup {s} /\ s \in Sems
      /\ val' = [val EXCEPT ![s] = val[s] - 1] /\ phase' # "fault"
  BY <1>2, <1>3 DEF CountInv, KernelInv, TypeOK
<1>7. ValCountsWaiters'
  BY <1>3, <1>4, <1>5, <1>6, CountOne
<1>8. QED
  BY <1>6, <1>7

\* A new semaphore has no waiters and no debt.
LEMMA CountOpen ==
    ASSUME CountInv, OpenStep
    PROVE  ValCountsWaiters' /\ phase' # "fault"
<1>1. PICK s \in Sems, n \in InitVals : SemOpen(s, n)
  BY DEF OpenStep
<1>2. /\ open' = open \cup {s}
      /\ val' = [val EXCEPT ![s] = n]
      /\ queueBlocked' = [queueBlocked EXCEPT ![s] = <<>>]
      /\ UNCHANGED phase
  BY <1>1 DEF SemOpen, threadVars
<1>3. n \in Int /\ <<>> \in Seq(Threads) /\ Len(<<>>) = Debt(n)
  BY SemaphoresAssumption DEF Debt
<1>4. QED
  BY <1>2, <1>3, CountOne DEF CountInv

\* A timeout takes a waiter out of the queue and gives its unit back.
LEMMA CountWake ==
    ASSUME CountInv, WakeThreadUp
    PROVE  ValCountsWaiters' /\ phase' # "fault"
<1> DEFINE t == asleep[cursor]
           s == mySem[t]
<1>1. phase' = phase /\ open' = open
  BY DEF WakeThreadUp
<1>2. \/ /\ IsTimedWaiter(t) /\ s # NoSem
         /\ UnblockByTime(s, t)
      \/ UNCHANGED <<val, queueBlocked>>
  BY DEF WakeThreadUp
<1>3. CASE UNCHANGED <<val, queueBlocked>>
  BY <1>1, <1>3, CountSame DEF CountInv
<1>4. CASE IsTimedWaiter(t) /\ s # NoSem /\ UnblockByTime(s, t)
  <2>1. t \in Threads
    <3>1. cursor \in 1..Len(asleep) /\ asleep \in Seq(Threads)
      BY DEF WakeThreadUp, SleeperIsDue, CountInv, KernelInv, TypeOK
    <3>2. QED
      BY <3>1
  <2> HIDE DEF t
  <2>2. s \in open /\ s \in Sems /\ t \in ToSet(queueBlocked[s])
    BY <1>4, <2>1 DEF CountInv, KernelInv, BlockedAgrees, BlockedOn, TypeOK
  <2> HIDE DEF s
  <2>3. /\ val[s] \in Int /\ queueBlocked[s] \in Seq(Threads)
        /\ Len(queueBlocked[s]) = Debt(val[s])
        /\ Len(queueBlocked[s]) \in Nat
    BY <2>2, CountTypes DEF CountInv, ValCountsWaiters, Debt
  <2>4. Len(queueBlocked[s]) >= 1
    BY <2>2, <2>3, InList
  <2>5. /\ RemoveSpec(queueBlocked[s], t) \in Seq(Threads)
        /\ Len(RemoveSpec(queueBlocked[s], t)) = Len(queueBlocked[s]) - 1
    BY <2>2, <2>3, RemoveSpecList
  <2>6. Len(RemoveSpec(queueBlocked[s], t)) = Debt(val[s] + 1)
    BY <2>3, <2>4, <2>5 DEF Debt
  <2>7. /\ val' = [val EXCEPT ![s] = val[s] + 1]
        /\ queueBlocked' = [queueBlocked EXCEPT ![s] = RemoveSpec(queueBlocked[s], t)]
    BY <1>4 DEF UnblockByTime, ValAfterTimeout, QueueAfterTimeout
  <2>8. /\ val[s] + 1 \in Int /\ open' \subseteq open \cup {s}
        /\ phase' # "fault"
    BY <1>1, <2>3 DEF CountInv
  <2>9. ValCountsWaiters'
    BY <2>2, <2>5, <2>6, <2>7, <2>8, CountOne
  <2>10. QED
    BY <2>8, <2>9
<1>5. QED
  BY <1>2, <1>3, <1>4

-----------------------------------------------------------------------------
\* CountInv is inductive while no program calls sem_trywait.
THEOREM CountInvStep ==
    ASSUME "trywait" \notin Calls
    PROVE  CountInv /\ [Next]_vars => CountInv'
<1> SUFFICES ASSUME CountInv, [Next]_vars PROVE CountInv'
  OBVIOUS
<1>1. KernelInv'
  BY KernelInvStep DEF CountInv
<1>2. KernelStep
  BY StepsOfNext
<1>3. ValCountsWaiters' /\ phase' # "fault"
  <2>1. CASE SignalStep
    BY <2>1, CountSignal
  <2>2. CASE UnblockAllStep
    BY <2>2, CountUnblockAll
  <2>3. CASE BlockStep \/ TimedBlockStep
    BY <2>3, CountBlock
  <2>4. CASE TakeStep
    BY <2>4, CountTake
  <2>5. CASE OpenStep
    BY <2>5, CountOpen
  <2>6. CASE WakeThreadUp
    BY <2>6, CountWake
  <2>7. CASE \/ DispatchStep \/ ExitStep \/ KillStep \/ SleepStep \/ EndTickStep
    <3>1. UNCHANGED <<val, queueBlocked, open>>
      BY <2>7 DEF DispatchStep, ExitStep, KillStep, SleepStep, EndTickStep, semVars
    <3>2. phase' # "fault"
      BY <2>7 DEF DispatchStep, ThreadDispatch, ExitStep, ThreadExit, KillStep,
         KillServices, SleepStep, TimeSleep, EndTickStep, EndTimerInterrupt, BeginDispatch
    <3>3. QED
      BY <3>1, <3>2, CountSame
  <2>8. CASE \/ CreateStep \/ CloseStep \/ EndSemClose \/ TickStep \/ ReapStep \/ OtherStep
    <3>1. UNCHANGED <<val, queueBlocked>> /\ open' \subseteq open
      BY <2>8 DEF CreateStep, NewThread, CloseStep, SemClose, EndSemClose, TickStep,
         ReapStep, OtherStep, semVars
    <3>2. phase' # "fault"
      BY <2>8 DEF CreateStep, NewThread, CreateThread, CloseStep, SemClose, EndSemClose,
         TickStep, TimerInterrupt, ReapStep, ReapDead, OtherStep, CountInv
    <3>3. QED
      BY <3>1, <3>2, CountSame
  <2>9. CASE \E t \in Threads : \/ SwitchToUser(t) \/ ReturnFromSleep(t)
                                \/ ReturnFromBlock(t) \/ ReturnFromTimedBlock(t)
    <3>1. UNCHANGED <<val, queueBlocked, open>> /\ phase' = "user"
      BY <2>9 DEF SwitchToUser, ReturnFromSleep, ReturnFromBlock,
         ReturnFromTimedBlock, LeaveQueue, SwitchTo
    <3>2. QED
      BY <3>1, CountSame
  <2>10. QED
    BY <1>2, <2>1, <2>2, <2>3, <2>4, <2>5, <2>6, <2>7, <2>8, <2>9 DEF KernelStep, TryWaitStep
<1>4. QED
  BY <1>1, <1>3 DEF CountInv

\* The kernel starts with exact counts.
THEOREM CountInvInit == Init => CountInv
  BY KernelInvInit DEF CountInv, ValCountsWaiters, Init, ThreadsInit, SemaphoresInit

\* While no program calls sem_trywait, a negative val is exactly the number of
\* threads in the queue.
THEOREM ValIsExact ==
    ASSUME "trywait" \notin Calls
    PROVE  Spec => []ValCountsWaiters
<1>1. CountInv => ValCountsWaiters
  BY DEF CountInv
<1>2. QED
  BY CountInvInit, CountInvStep, <1>1, PTL DEF Spec

\* While no program calls sem_trywait, neither unblock() nor dispatch() finds
\* its list empty: main is always ready inside a dispatch.
THEOREM KernelNeverFaults ==
    ASSUME "trywait" \notin Calls
    PROVE  Spec => []NoFault
<1>1. CountInv => NoFault
  <2> SUFFICES ASSUME CountInv, phase = "dispatch"
               PROVE  \E i \in DOMAIN readyQueue : ~ThreadDead(readyQueue[i])
    BY DEF CountInv, NoFault
  <2>1. Main \in valid /\ Main \notin Sleeping /\ Main \notin Blocked /\ ~ThreadDead(Main)
    BY ThreadsAssumption DEF CountInv, KernelInv, Roles, ThreadDead, IsFinished
  <2>2. Main \in Ready
    BY <2>1 DEF CountInv, KernelInv, OnePlace, HasProcessor
  <2>3. readyQueue \in Seq(Threads)
    BY DEF CountInv, KernelInv, TypeOK
  <2>4. PICK i \in 1..Len(readyQueue) : readyQueue[i] = Main
    BY <2>2, <2>3, InList DEF Ready
  <2>5. QED
    BY <2>1, <2>3, <2>4
<1>2. QED
  BY CountInvInit, CountInvStep, <1>1, PTL DEF Spec

-----------------------------------------------------------------------------
\* What the refinement rests on.
RefInv == CountInv /\ WaitsInv

\* A semaphore that is usable is open, and every semaphore has a slot.
LEMMA UsableOpen ==
    ASSUME RefInv
    PROVE  /\ Usable \subseteq open /\ open \subseteq Sems
           /\ phase # "close" => Usable = open
           /\ \A s \in open : val[s] \in Int /\ queueBlocked[s] \in Seq(Threads)
           /\ \A s \in open : val[s] >= 0 <=> queueBlocked[s] = <<>>
<1>1. open \subseteq Sems /\ KernelInv
  BY DEF RefInv, CountInv, KernelInv, TypeOK
<1>2. Usable \subseteq open /\ (phase # "close" => Usable = open)
  BY DEF Usable, BeingClosed
<1>3. ASSUME NEW s \in open
      PROVE  /\ val[s] \in Int /\ queueBlocked[s] \in Seq(Threads)
             /\ val[s] >= 0 <=> queueBlocked[s] = <<>>
  <2>1. /\ val[s] \in Int /\ queueBlocked[s] \in Seq(Threads)
        /\ Len(queueBlocked[s]) = 0 <=> queueBlocked[s] = <<>>
    BY <1>1, CountTypes
  <2>2. Len(queueBlocked[s]) = IF val[s] < 0 THEN -val[s] ELSE 0
    BY DEF RefInv, CountInv, ValCountsWaiters
  <2>3. QED
    BY <2>1, <2>2
<1>4. QED
  BY <1>1, <1>2, <1>3

\* A waiting thread waits on an open semaphore.
LEMMA WaiterHasSem ==
    ASSUME RefInv, NEW t \in Threads, semStatus[t] \in {"WAITING", "TIMEDWAITING"}
    PROVE  mySem[t] \in open /\ t \in BlockedOn(mySem[t]) /\ t \in Blocked
  BY DEF RefInv, CountInv, KernelInv, BlockedAgrees

\* The verdict of a thread depends on its control block, and on whether the
\* semaphore it waits on is usable.
LEMMA VerdictSame ==
    ASSUME NEW t, semStatus'[t] = semStatus[t], mySem'[t] = mySem[t],
           semStatus[t] \in {"WAITING", "TIMEDWAITING"} =>
               (mySem[t] \in Usable' <=> mySem[t] \in Usable),
           semStatus[t] \in Statuses
    PROVE  VerdictOf(t)' = VerdictOf(t)
  BY DEF VerdictOf, Statuses

\* Steps that programs cannot see.
LEMMA RefStutter ==
    ASSUME Usable' = Usable,
           \A s \in Sems : UnitsOf(s)' = UnitsOf(s) /\ WaitersOf(s)' = WaitersOf(s),
           \A t \in Threads : VerdictOf(t)' = VerdictOf(t)
    PROVE  UNCHANGED Abstract!absVars
  BY DEF Abstract!absVars

\* A step leaves a semaphore, or a thread's wait, as programs see it.
SemKept(s) == UnitsOf(s)' = UnitsOf(s) /\ WaitersOf(s)' = WaitersOf(s)
VerdictKept(t) == VerdictOf(t)' = VerdictOf(t)

LEMMA SemSame ==
    ASSUME NEW s, val'[s] = val[s], queueBlocked'[s] = queueBlocked[s],
           s \in Usable' <=> s \in Usable
    PROVE  SemKept(s)
  BY DEF SemKept, UnitsOf, WaitersOf

\* A step that touches no semaphore and no wait is not seen at all.
LEMMA RefQuiet ==
    ASSUME RefInv, Usable' = Usable, UNCHANGED <<val, queueBlocked, semStatus, mySem>>
    PROVE  UNCHANGED Abstract!absVars
<1>1. \A s \in Sems : SemKept(s)
  BY SemSame
<1>2. \A t \in Threads : semStatus[t] \in Statuses
  BY DEF RefInv, CountInv, KernelInv, TypeOK
<1>3. \A t \in Threads : VerdictKept(t)
  BY <1>2, VerdictSame DEF VerdictKept
<1>4. QED
  BY <1>1, <1>3, RefStutter DEF SemKept, VerdictKept

\* Only a close, and the end of one, change what is usable while nothing is
\* opened.
LEMMA UsableKept ==
    ASSUME open' = open, phase # "close", phase' # "close"
    PROVE  Usable' = Usable
  BY DEF Usable, BeingClosed

-----------------------------------------------------------------------------
\* A thread whose wait is over forgets the verdict.
LEMMA RefLeave ==
    ASSUME RefInv, NEW t \in Threads, semStatus[t] \notin {"WAITING", "TIMEDWAITING"},
           semStatus' = [semStatus EXCEPT ![t] = "NON_WAITING"],
           mySem' = [mySem EXCEPT ![t] = NoSem],
           Usable' = Usable, UNCHANGED <<val, queueBlocked>>
    PROVE  Abstract!AbsNext \/ UNCHANGED Abstract!absVars
<1>1. /\ semStatus \in [Threads -> Statuses] /\ mySem \in [Threads -> Sems \cup {NoSem}]
  BY DEF RefInv, CountInv, KernelInv, TypeOK
<1>2. \A s \in Sems : SemKept(s)
  BY SemSame
<1>3. \A u \in Threads : u # t => VerdictKept(u)
  BY <1>1, VerdictSame DEF VerdictKept
<1>4. VerdictOf(t)' = "none"
  BY <1>1 DEF VerdictOf
<1>5. CASE semStatus[t] = "NON_WAITING"
  <2>1. VerdictKept(t)
    BY <1>4, <1>5 DEF VerdictOf, VerdictKept
  <2>2. QED
    BY <1>2, <1>3, <2>1, RefStutter DEF SemKept, VerdictKept
<1>6. CASE semStatus[t] # "NON_WAITING"
  <2>1. semStatus[t] \in {"REGULARLY_WAITED", "TIMEOUT", "SEM_DELETED"}
    BY <1>1, <1>6 DEF Statuses
  <2>2. VerdictOf(t) \in {"acquired", "timeout", "dead"}
    BY <2>1 DEF VerdictOf
  <2>3. Abstract!Return(t)
    BY <1>2, <1>3, <1>4, <2>2 DEF Abstract!Return, Abstract!Verdicts, SemKept, VerdictKept
  <2>4. QED
    BY <2>3 DEF Abstract!AbsNext
<1>7. QED
  BY <1>5, <1>6

\* thread_create reuses a control block that waits for nothing.
LEMMA RefCreate ==
    ASSUME RefInv, CreateStep
    PROVE  Abstract!AbsNext \/ UNCHANGED Abstract!absVars
<1>1. PICK t \in Programs : NewThread(t)
  BY DEF CreateStep
<1>2. /\ t \notin valid /\ t \in Threads
      /\ phase = "user" /\ phase' = phase /\ open' = open
      /\ UNCHANGED <<val, queueBlocked>>
      /\ semStatus' = [semStatus EXCEPT ![t] = "NON_WAITING"]
      /\ mySem' = [mySem EXCEPT ![t] = NoSem]
  BY <1>1 DEF CreateStep, NewThread, CreateThread, Threads
<1>3. t \notin Blocked
  BY <1>2 DEF RefInv, CountInv, KernelInv, OnePlace
<1>4. semStatus[t] \notin {"WAITING", "TIMEDWAITING"}
  BY <1>2, <1>3, WaiterHasSem
<1>5. Usable' = Usable
  BY <1>2, UsableKept
<1>6. QED
  BY <1>2, <1>4, <1>5, RefLeave

\* The rest of wait() and timedWait() reads the answer.
LEMMA RefReturn ==
    ASSUME RefInv, NEW t \in Threads, ReturnFromBlock(t) \/ ReturnFromTimedBlock(t)
    PROVE  Abstract!AbsNext \/ UNCHANGED Abstract!absVars
<1>1. /\ phase = "dispatch" /\ phase' = "user" /\ open' = open
      /\ readyQueue # <<>> /\ t = Head(readyQueue)
      /\ inCall[t] \in {"block", "timedBlock"}
      /\ UNCHANGED <<val, queueBlocked>>
      /\ semStatus' = [semStatus EXCEPT ![t] = "NON_WAITING"]
      /\ mySem' = [mySem EXCEPT ![t] = NoSem]
  BY DEF ReturnFromBlock, ReturnFromTimedBlock, LeaveQueue, SwitchTo
<1>2. t \in Ready
  BY <1>1, TailList DEF Ready, RefInv, CountInv, KernelInv, TypeOK
<1>3. semStatus[t] \in StatusesIn(inCall[t])
  BY <1>2 DEF RefInv, WaitsInv, CallAgrees
<1>4. semStatus[t] \notin {"WAITING", "TIMEDWAITING"}
  BY <1>1, <1>3 DEF StatusesIn
<1>5. Usable' = Usable
  BY <1>1, UsableKept
<1>6. QED
  BY <1>1, <1>4, <1>5, RefLeave

-----------------------------------------------------------------------------
\* sem_open takes a free slot: nobody waits on it.
LEMMA RefOpen ==
    ASSUME RefInv, OpenStep
    PROVE  Abstract!AbsNext
<1>1. PICK s \in Sems, n \in InitVals : SemOpen(s, n)
  BY DEF OpenStep
<1>2. /\ s \notin open /\ open' = open \cup {s}
      /\ phase = "user" /\ phase' = phase
      /\ val' = [val EXCEPT ![s] = n]
      /\ queueBlocked' = [queueBlocked EXCEPT ![s] = <<>>]
      /\ UNCHANGED <<semStatus, mySem>>
  BY <1>1 DEF OpenStep, SemOpen, threadVars
<1>3. /\ val \in [Sems -> Int] /\ queueBlocked \in [Sems -> Seq(Threads)]
      /\ \A t \in Threads : semStatus[t] \in Statuses
  BY DEF RefInv, CountInv, KernelInv, TypeOK
<1>4. s \notin Usable /\ Usable' = Usable \cup {s} /\ Usable = open
  BY <1>2 DEF Usable, BeingClosed
<1>5. \A r \in Sems : r # s => SemKept(r)
  BY <1>2, <1>3, <1>4, SemSame
<1>6. WaitersOf(s)' = WaitersOf(s) /\ UnitsOf(s)' \in Nat
  BY <1>2, <1>3, <1>4, SemaphoresAssumption DEF WaitersOf, UnitsOf
<1>7. \A t \in Threads : VerdictKept(t)
  BY <1>2, <1>3, <1>4, VerdictSame, WaiterHasSem DEF VerdictKept
<1>8. Abstract!Open(s)
  BY <1>4, <1>5, <1>6, <1>7 DEF Abstract!Open, SemKept, VerdictKept
<1>9. QED
  BY <1>8 DEF Abstract!AbsNext

\* A wait that does not block takes a unit.
LEMMA RefTake ==
    ASSUME RefInv, TakeStep
    PROVE  Abstract!AbsNext
<1>1. PICK s \in Sems : TakeUnit(s)
  BY DEF TakeStep
<1>2. /\ s \in open /\ open' = open /\ ~(val[s] - 1 < 0)
      /\ phase = "user" /\ phase' = phase
      /\ val' = [val EXCEPT ![s] = @ - 1]
      /\ UNCHANGED <<queueBlocked, semStatus, mySem>>
  BY <1>1 DEF TakeStep, TakeUnit, WaitWouldBlock, threadVars
<1>3. /\ val \in [Sems -> Int]
      /\ \A t \in Threads : semStatus[t] \in Statuses
  BY DEF RefInv, CountInv, KernelInv, TypeOK
<1>4. Usable' = Usable /\ s \in Usable
  BY <1>2, UsableKept, UsableOpen
<1>5. \A r \in Sems : r # s => SemKept(r)
  BY <1>2, <1>3, <1>4, SemSame
<1>6. WaitersOf(s)' = WaitersOf(s) /\ UnitsOf(s) > 0 /\ UnitsOf(s)' = UnitsOf(s) - 1
  BY <1>2, <1>3, <1>4 DEF WaitersOf, UnitsOf
<1>7. \A t \in Threads : VerdictKept(t)
  BY <1>2, <1>3, <1>4, VerdictSame DEF VerdictKept
<1>8. Abstract!Acquire(s)
  BY <1>4, <1>5, <1>6, <1>7 DEF Abstract!Acquire, SemKept, VerdictKept
<1>9. QED
  BY <1>8 DEF Abstract!AbsNext

\* A wait that blocks puts the running thread at the end of the queue.
LEMMA RefEnter ==
    ASSUME RefInv, phase = "user", running \in Programs, NEW s \in Sems,
           NEW status \in {"WAITING", "TIMEDWAITING"}, EnterQueue(s, status)
    PROVE  Abstract!AbsNext
<1>1. PICK t \in Threads : t = running /\ semStatus[t] = "NON_WAITING"
  BY RunningAgrees DEF RefInv
<1>2. /\ s \in open /\ open' = open /\ val[s] - 1 < 0 /\ phase' = "dispatch"
      /\ val' = [val EXCEPT ![s] = @ - 1]
      /\ queueBlocked' = [queueBlocked EXCEPT ![s] = Append(@, t)]
      /\ mySem' = [mySem EXCEPT ![t] = s]
  BY <1>1 DEF EnterQueue, WaitWouldBlock, BeginDispatch
<1>3. semStatus' = [semStatus EXCEPT ![t] = status]
  BY <1>1, EnterQueuePlaces DEF RefInv
<1>4. /\ val \in [Sems -> Int] /\ queueBlocked \in [Sems -> Seq(Threads)]
      /\ semStatus \in [Threads -> Statuses] /\ mySem \in [Threads -> Sems \cup {NoSem}]
  BY DEF RefInv, CountInv, KernelInv, TypeOK
<1>5. Usable' = Usable /\ s \in Usable
  BY <1>2, UsableKept, UsableOpen
<1>6. \A r \in Sems : r # s => SemKept(r)
  BY <1>2, <1>4, <1>5, SemSame
<1>7. UnitsOf(s) = 0 /\ UnitsOf(s)' = 0
  BY <1>2, <1>4, <1>5 DEF UnitsOf
<1>8. WaitersOf(s)' = Append(WaitersOf(s), t)
  BY <1>2, <1>4, <1>5 DEF WaitersOf
<1>9. \A u \in Threads : u # t => VerdictKept(u)
  BY <1>2, <1>3, <1>4, <1>5, VerdictSame DEF VerdictKept
<1>10. /\ VerdictOf(t) = "none"
       /\ VerdictOf(t)' = IF status = "WAITING" THEN "waiting" ELSE "timedWaiting"
  BY <1>1, <1>2, <1>3, <1>4, <1>5 DEF VerdictOf
<1>11. PICK kind \in {"waiting", "timedWaiting"} : VerdictOf(t)' = kind
  BY <1>10
<1>12. Abstract!Enqueue(s, t, kind)
  <2>1. /\ [r \in Sems |-> WaitersOf(r)]' =
               [[r \in Sems |-> WaitersOf(r)] EXCEPT ![s] = Append(@, t)]
        /\ [r \in Sems |-> UnitsOf(r)]' = [r \in Sems |-> UnitsOf(r)]
    BY <1>6, <1>7, <1>8 DEF SemKept
  <2>2. [u \in Threads |-> VerdictOf(u)]' = [[u \in Threads |-> VerdictOf(u)] EXCEPT ![t] = kind]
    BY <1>9, <1>11 DEF VerdictKept
  <2>3. QED
    BY <1>5, <1>7, <1>10, <2>1, <2>2 DEF Abstract!Enqueue
<1>13. QED
  BY <1>12 DEF Abstract!AbsNext, Abstract!Waiting

-----------------------------------------------------------------------------
\* A thread leaves the queue of s; its semaphore gets its unit back.
LEMMA RefLeaveQueue ==
    ASSUME RefInv, NEW s \in Sems, NEW t \in BlockedOn(s), NEW q \in Seq(Threads),
           NEW cause \in {"REGULARLY_WAITED", "TIMEOUT", "SEM_DELETED"},
           val[s] < 0, val' = [val EXCEPT ![s] = @ + 1],
           queueBlocked' = [queueBlocked EXCEPT ![s] = q],
           semStatus' = WithStatus(t, cause), mySem' = [mySem EXCEPT ![t] = NoSem],
           Usable' = Usable
    PROVE  /\ \A r \in Sems : r # s => SemKept(r)
           /\ UnitsOf(s) = 0 /\ UnitsOf(s)' = 0
           /\ WaitersOf(s)' = IF s \in Usable THEN q ELSE <<>>
           /\ \A u \in Threads : u # t => VerdictKept(u)
           /\ VerdictOf(t) = IF s \notin Usable THEN "dead"
                             ELSE IF semStatus[t] = "WAITING" THEN "waiting"
                             ELSE "timedWaiting"
           /\ VerdictOf(t)' = IF cause = "REGULARLY_WAITED" THEN "acquired"
                              ELSE IF cause = "TIMEOUT" THEN "timeout"
                              ELSE "dead"
<1>1. /\ val \in [Sems -> Int] /\ queueBlocked \in [Sems -> Seq(Threads)]
      /\ semStatus \in [Threads -> Statuses] /\ mySem \in [Threads -> Sems \cup {NoSem}]
  BY DEF RefInv, CountInv, KernelInv, TypeOK
<1>2. t \in Threads /\ mySem[t] = s /\ ~IsFinished(t) /\ t \in Blocked
  BY BlockedThread DEF RefInv, CountInv
<1>3. semStatus' = [semStatus EXCEPT ![t] = cause]
  BY <1>2 DEF WithStatus
<1>4. semStatus[t] \in {"WAITING", "TIMEDWAITING"}
  BY <1>2 DEF RefInv, CountInv, KernelInv, BlockedAgrees
<1>5. \A r \in Sems : r # s => SemKept(r)
  BY <1>1, SemSame
<1>6. UnitsOf(s) = 0 /\ UnitsOf(s)' = 0
  BY <1>1 DEF UnitsOf
<1>7. WaitersOf(s)' = IF s \in Usable THEN q ELSE <<>>
  BY <1>1 DEF WaitersOf
<1>8. \A u \in Threads : u # t => VerdictKept(u)
  BY <1>1, <1>3, VerdictSame DEF VerdictKept
<1>9. VerdictOf(t) = IF s \notin Usable THEN "dead"
                     ELSE IF semStatus[t] = "WAITING" THEN "waiting"
                     ELSE "timedWaiting"
  BY <1>2, <1>4 DEF VerdictOf
<1>10. VerdictOf(t)' = IF cause = "REGULARLY_WAITED" THEN "acquired"
                       ELSE IF cause = "TIMEOUT" THEN "timeout"
                       ELSE "dead"
  <2>1. semStatus'[t] = cause
    BY <1>1, <1>2, <1>3
  <2>2. QED
    BY <2>1 DEF VerdictOf
<1>11. QED
  BY <1>5, <1>6, <1>7, <1>8, <1>9, <1>10

\* sem_signal gives a unit to the thread that waits longest, or back.
LEMMA RefSignal ==
    ASSUME RefInv, SignalStep, phase' # "fault"
    PROVE  Abstract!AbsNext
<1>1. PICK s \in Sems : SemSignal(s)
  BY DEF SignalStep
<1>2. /\ s \in open /\ open' = open /\ phase = "user"
      /\ val' = [val EXCEPT ![s] = @ + 1]
  BY <1>1 DEF SignalStep, SemSignal
<1>3. /\ val \in [Sems -> Int] /\ queueBlocked \in [Sems -> Seq(Threads)]
      /\ \A t \in Threads : semStatus[t] \in Statuses
  BY DEF RefInv, CountInv, KernelInv, TypeOK
<1>4. s \in Usable /\ (val[s] >= 0 <=> queueBlocked[s] = <<>>) /\ WaitersOf(s) = queueBlocked[s]
  BY <1>2, UsableOpen DEF WaitersOf
<1>5. CASE val[s] >= 0
  <2>1. UNCHANGED <<semStatus, mySem, queueBlocked, phase>>
    BY <1>1, <1>3, <1>5 DEF SemSignal, SignalWakes
  <2>2. Usable' = Usable
    BY <1>2, <2>1, UsableKept
  <2>3. \A r \in Sems : r # s => SemKept(r)
    BY <1>2, <1>3, <2>1, <2>2, SemSame
  <2>4. UnitsOf(s)' = UnitsOf(s) + 1 /\ WaitersOf(s)' = WaitersOf(s) /\ WaitersOf(s) = <<>>
    BY <1>2, <1>3, <1>4, <1>5, <2>1, <2>2 DEF UnitsOf, WaitersOf
  <2>5. \A t \in Threads : VerdictKept(t)
    BY <1>3, <2>1, <2>2, VerdictSame DEF VerdictKept
  <2>6. Abstract!Release(s)
    BY <1>4, <2>2, <2>3, <2>4, <2>5 DEF Abstract!Release, SemKept, VerdictKept
  <2>7. QED
    BY <2>6 DEF Abstract!AbsNext
<1>6. CASE ~(val[s] >= 0)
  <2>1. val[s] < 0 /\ queueBlocked[s] # <<>>
    BY <1>3, <1>4, <1>6
  <2>2. UnblockFirst(s, "REGULARLY_WAITED") /\ UNCHANGED phase
    BY <1>1, <1>3, <2>1 DEF SemSignal, SignalWakes, NullUnblock
  <2>3. Usable' = Usable
    BY <1>2, <2>2, UsableKept
  <2>4. PICK t \in BlockedOn(s), q \in Seq(Threads) :
            /\ t = Head(queueBlocked[s]) /\ q = Tail(queueBlocked[s])
            /\ queueBlocked' = [queueBlocked EXCEPT ![s] = q]
            /\ semStatus' = WithStatus(t, "REGULARLY_WAITED")
            /\ mySem' = [mySem EXCEPT ![t] = NoSem]
    BY <2>1, <2>2, HeadLeaves DEF RefInv, CountInv
  <2>5. /\ \A r \in Sems : r # s => SemKept(r)
        /\ UnitsOf(s) = 0 /\ UnitsOf(s)' = 0
        /\ WaitersOf(s)' = q
        /\ \A u \in Threads : u # t => VerdictKept(u)
        /\ VerdictOf(t)' = "acquired"
    BY <1>2, <1>4, <2>1, <2>3, <2>4, RefLeaveQueue
  <2>6. t \in Threads
    BY <2>4, BlockedThread DEF RefInv, CountInv
  <2>7. /\ [r \in Sems |-> WaitersOf(r)]' =
               [[r \in Sems |-> WaitersOf(r)] EXCEPT ![s] = Tail(@)]
        /\ [r \in Sems |-> UnitsOf(r)]' = [r \in Sems |-> UnitsOf(r)]
    BY <1>4, <2>4, <2>5 DEF SemKept
  <2>8. [u \in Threads |-> VerdictOf(u)]' =
            [[u \in Threads |-> VerdictOf(u)] EXCEPT ![t] = "acquired"]
    BY <2>5, <2>6 DEF VerdictKept
  <2>9. Abstract!Release(s)
    BY <1>4, <2>1, <2>3, <2>4, <2>7, <2>8 DEF Abstract!Release
  <2>10. QED
    BY <2>9 DEF Abstract!AbsNext
<1>7. QED
  BY <1>5, <1>6

\* A turn of the loop of ~_sem(): the waiter has its answer already.
LEMMA RefUnblockAll ==
    ASSUME RefInv, UnblockAllStep, phase' # "fault"
    PROVE  UNCHANGED Abstract!absVars
<1>1. PICK s \in Sems : s = closing /\ s \in open /\ phase = "close"
  BY UsableOpen DEF UnblockAllStep, RefInv, CountInv, KernelInv, Roles, TypeOK
<1>2. /\ val[s] < 0 /\ queueBlocked[s] # <<>>
      /\ UnblockFirst(s, "SEM_DELETED")
      /\ val' = [val EXCEPT ![s] = @ + 1]
      /\ UNCHANGED <<phase, closing, open>>
  BY <1>1 DEF UnblockAllStep, NullUnblock
<1>3. Usable' = Usable /\ s \notin Usable
  BY <1>1, <1>2 DEF Usable, BeingClosed
<1>4. PICK t \in BlockedOn(s), q \in Seq(Threads) :
          /\ queueBlocked' = [queueBlocked EXCEPT ![s] = q]
          /\ semStatus' = WithStatus(t, "SEM_DELETED")
          /\ mySem' = [mySem EXCEPT ![t] = NoSem]
  BY <1>2, HeadLeaves DEF RefInv, CountInv
<1>5. /\ \A r \in Sems : r # s => SemKept(r)
      /\ UnitsOf(s) = 0 /\ UnitsOf(s)' = 0
      /\ WaitersOf(s)' = <<>>
      /\ \A u \in Threads : u # t => VerdictKept(u)
      /\ VerdictOf(t) = "dead" /\ VerdictOf(t)' = "dead"
  BY <1>2, <1>3, <1>4, RefLeaveQueue
<1>6. WaitersOf(s) = <<>>
  BY <1>3 DEF WaitersOf
<1>7. \A r \in Sems : SemKept(r)
  BY <1>5, <1>6 DEF SemKept
<1>8. \A u \in Threads : VerdictKept(u)
  BY <1>5 DEF VerdictKept
<1>9. QED
  BY <1>3, <1>7, <1>8, RefStutter DEF SemKept, VerdictKept

\* sem_close is over for programs when ~_sem() begins.
LEMMA RefClose ==
    ASSUME RefInv, CloseStep
    PROVE  Abstract!AbsNext
<1>1. PICK s \in Sems : SemClose(s)
  BY DEF CloseStep
<1>2. /\ s \in open /\ open' = open /\ phase = "user"
      /\ closing' = s /\ phase' = "close"
      /\ UNCHANGED <<val, queueBlocked, semStatus, mySem>>
  BY <1>1 DEF CloseStep, SemClose
<1>3. /\ KernelInv /\ \A t \in Threads : semStatus[t] \in Statuses
  BY DEF RefInv, CountInv, KernelInv, TypeOK
<1>4. s \in Usable /\ Usable' = Usable \ {s} /\ WaitersOf(s) = queueBlocked[s]
  BY <1>2 DEF Usable, BeingClosed, WaitersOf
<1>5. \A r \in Sems : r # s => SemKept(r)
  BY <1>2, <1>4, SemSame
<1>6. UnitsOf(s)' = 0 /\ WaitersOf(s)' = <<>>
  BY <1>4 DEF UnitsOf, WaitersOf
<1>7. ASSUME NEW t \in Threads, t \in BlockedOn(s) PROVE VerdictOf(t)' = "dead"
  <2>1. mySem[t] = s /\ t \in Blocked
    BY <1>3, <1>7, BlockedThread
  <2>2. semStatus[t] \in {"WAITING", "TIMEDWAITING"}
    BY <1>3, <2>1 DEF KernelInv, BlockedAgrees
  <2>3. semStatus'[t] = semStatus[t] /\ mySem'[t] = s /\ s \notin Usable'
    BY <1>2, <1>4, <2>1
  <2>4. QED
    BY <2>2, <2>3 DEF VerdictOf
<1>8. ASSUME NEW t \in Threads, t \notin BlockedOn(s) PROVE VerdictKept(t)
  <2>1. semStatus[t] \in {"WAITING", "TIMEDWAITING"} => mySem[t] # s
    BY <1>8, WaiterHasSem
  <2>2. QED
    BY <1>2, <1>3, <1>4, <2>1, VerdictSame DEF VerdictKept
<1>9. Abstract!Close(s)
  <2>1. /\ [r \in Sems |-> WaitersOf(r)]' = [[r \in Sems |-> WaitersOf(r)] EXCEPT ![s] = <<>>]
        /\ [r \in Sems |-> UnitsOf(r)]' = [[r \in Sems |-> UnitsOf(r)] EXCEPT ![s] = 0]
    BY <1>5, <1>6 DEF SemKept
  <2>2. Abstract!ToSet(queueBlocked[s]) = BlockedOn(s)
    BY DEF Abstract!ToSet, BlockedOn, ToSet
  <2>3. [t \in Threads |-> VerdictOf(t)]' =
            [t \in Threads |-> IF t \in BlockedOn(s) THEN "dead" ELSE VerdictOf(t)]
    BY <1>7, <1>8 DEF VerdictKept
  <2>4. QED
    BY <1>4, <2>1, <2>2, <2>3 DEF Abstract!Close
<1>10. QED
  BY <1>9 DEF Abstract!AbsNext

\* The timer takes exactly the thread whose time is over out of its queue.
LEMMA RefWake ==
    ASSUME RefInv, WakeThreadUp
    PROVE  Abstract!AbsNext \/ UNCHANGED Abstract!absVars
<1>1. phase = "wake" /\ phase' = phase /\ open' = open
  BY DEF WakeThreadUp
<1>2. Usable' = Usable /\ Usable = open
  BY <1>1, UsableKept, UsableOpen
<1>3. PICK t \in Sleeping :
          \/ \E s \in Sems :
                 /\ t \in BlockedOn(s) /\ mySem[t] = s
                 /\ semStatus[t] = "TIMEDWAITING"
                 /\ UnblockByTime(s, t)
          \/ UNCHANGED <<semStatus, mySem, val, queueBlocked, threadState>>
  BY WakePlaces DEF RefInv, CountInv
<1>4. CASE UNCHANGED <<semStatus, mySem, val, queueBlocked, threadState>>
  BY <1>2, <1>4, RefQuiet
<1>5. CASE \E s \in Sems :
               /\ t \in BlockedOn(s) /\ mySem[t] = s
               /\ semStatus[t] = "TIMEDWAITING"
               /\ UnblockByTime(s, t)
  <2>1. PICK s \in Sems : /\ t \in BlockedOn(s) /\ mySem[t] = s
                          /\ semStatus[t] = "TIMEDWAITING"
                          /\ UnblockByTime(s, t)
    BY <1>5
  <2>2. t \in Threads /\ s \in open /\ s \in Usable
    BY <1>2, <2>1, BlockedThread DEF RefInv, CountInv
  <2>3. queueBlocked[s] \in Seq(Threads) /\ val[s] \in Int /\ WaitersOf(s) = queueBlocked[s]
    BY <2>2, UsableOpen DEF WaitersOf
  <2>4. PICK i \in 1..Len(queueBlocked[s]) :
            i = PlaceOf(queueBlocked[s], t) /\ queueBlocked[s][i] = t
    BY <2>1, <2>3, PlaceInList DEF BlockedOn
  <2>5. val[s] < 0
    <3>1. queueBlocked[s] # <<>>
      BY <2>3, <2>4
    <3>2. QED
      BY <2>2, <2>3, <3>1, UsableOpen
  <2>6. PICK q \in Seq(Threads) : q = RemoveSpec(queueBlocked[s], t)
    BY <2>3, RemoveSpecList
  <2>7. /\ val' = [val EXCEPT ![s] = @ + 1]
        /\ queueBlocked' = [queueBlocked EXCEPT ![s] = q]
        /\ semStatus' = WithStatus(t, "TIMEOUT")
        /\ mySem' = [mySem EXCEPT ![t] = NoSem]
    BY <2>1, <2>6 DEF UnblockByTime, ValAfterTimeout, QueueAfterTimeout
  <2>8. /\ \A r \in Sems : r # s => SemKept(r)
        /\ UnitsOf(s) = 0 /\ UnitsOf(s)' = 0
        /\ WaitersOf(s)' = q
        /\ \A u \in Threads : u # t => VerdictKept(u)
        /\ VerdictOf(t) = "timedWaiting" /\ VerdictOf(t)' = "timeout"
    BY <1>2, <2>1, <2>2, <2>5, <2>7, RefLeaveQueue
  <2>9. q = Abstract!RemoveAt(queueBlocked[s], i)
    BY <2>1, <2>4, <2>6 DEF RemoveSpec, BlockedOn, RemoveAt, Abstract!RemoveAt
  <2>10. /\ [r \in Sems |-> WaitersOf(r)]' =
                [[r \in Sems |-> WaitersOf(r)] EXCEPT ![s] = Abstract!RemoveAt(@, i)]
         /\ [r \in Sems |-> UnitsOf(r)]' = [r \in Sems |-> UnitsOf(r)]
    BY <2>3, <2>8, <2>9 DEF SemKept
  <2>11. [u \in Threads |-> VerdictOf(u)]' =
             [[u \in Threads |-> VerdictOf(u)] EXCEPT ![t] = "timeout"]
    BY <2>2, <2>8 DEF VerdictKept
  <2>12. i \in DOMAIN WaitersOf(s) /\ WaitersOf(s)[i] = t
    BY <2>3, <2>4
  <2>13. Abstract!TimeOut(s, i)
    BY <1>2, <2>2, <2>8, <2>10, <2>11, <2>12 DEF Abstract!TimeOut
  <2>14. QED
    BY <2>12, <2>13 DEF Abstract!AbsNext
<1>6. QED
  BY <1>3, <1>4, <1>5

-----------------------------------------------------------------------------
\* The first state of the kernel is one of AbstractSemaphores.
LEMMA RefInit == Init => Abstract!AbsInit
<1> SUFFICES ASSUME Init PROVE Abstract!AbsInit
  OBVIOUS
<1>1. open = {} /\ semStatus = [t \in Threads |-> "NON_WAITING"]
  BY DEF Init, SemaphoresInit
<1>2. Usable = {}
  BY <1>1 DEF Usable
<1>3. \A s \in Sems : UnitsOf(s) = 0 /\ WaitersOf(s) = <<>>
  BY <1>2 DEF UnitsOf, WaitersOf
<1>4. \A t \in Threads : VerdictOf(t) = "none"
  BY <1>1 DEF VerdictOf
<1>5. QED
  BY <1>2, <1>3, <1>4 DEF Abstract!AbsInit

\* Every step of the kernel is a step of AbstractSemaphores, or none.
LEMMA RefStep ==
    ASSUME "trywait" \notin Calls, RefInv, CountInv', KernelStep
    PROVE  Abstract!AbsNext \/ UNCHANGED Abstract!absVars
<1>1. phase' # "fault"
  BY DEF CountInv
<1>2. CASE OpenStep \/ TakeStep \/ SignalStep \/ CloseStep
  BY <1>1, <1>2, RefOpen, RefTake, RefSignal, RefClose
<1>3. CASE BlockStep
  <2>1. PICK s \in Sems : EnterQueue(s, "WAITING")
    BY <1>3 DEF BlockStep, Block
  <2>2. QED
    BY <1>3, <2>1, RefEnter DEF BlockStep
<1>4. CASE TimedBlockStep
  <2>1. PICK s \in Sems : EnterQueue(s, "TIMEDWAITING")
    BY <1>4 DEF TimedBlockStep, TimedBlock
  <2>2. QED
    BY <1>4, <2>1, RefEnter DEF TimedBlockStep
<1>5. CASE UnblockAllStep
  BY <1>1, <1>5, RefUnblockAll
<1>6. CASE WakeThreadUp
  BY <1>6, RefWake
<1>7. CASE CreateStep
  BY <1>7, RefCreate
<1>8. CASE \E t \in Threads : ReturnFromBlock(t) \/ ReturnFromTimedBlock(t)
  BY <1>8, RefReturn
<1>9. CASE EndSemClose
  <2>1. UNCHANGED <<val, queueBlocked, semStatus, mySem>>
    BY <1>9 DEF EndSemClose
  <2>2. Usable' = Usable
    BY <1>9 DEF EndSemClose, Usable, BeingClosed
  <2>3. QED
    BY <2>1, <2>2, RefQuiet
<1>10. CASE DispatchStep \/ ExitStep \/ KillStep \/ SleepStep \/ TickStep \/ EndTickStep \/ ReapStep
  <2>1. UNCHANGED <<val, queueBlocked, semStatus, mySem, open>>
    BY <1>10 DEF DispatchStep, ExitStep, KillStep, SleepStep, TickStep, EndTickStep,
       ReapStep, semVars
  <2>2. phase # "close" /\ phase' # "close"
    BY <1>10 DEF DispatchStep, ThreadDispatch, ExitStep, ThreadExit, KillStep, KillServices,
       SleepStep, TimeSleep, TickStep, TimerInterrupt, EndTickStep, EndTimerInterrupt,
       ReapStep, ReapDead, BeginDispatch
  <2>3. QED
    BY <2>1, <2>2, UsableKept, RefQuiet
<1>11. CASE \E t \in Threads : SwitchToUser(t) \/ ReturnFromSleep(t)
  <2>1. /\ UNCHANGED <<val, queueBlocked, semStatus, mySem, open>>
        /\ phase = "dispatch" /\ phase' = "user"
    BY <1>11 DEF SwitchToUser, ReturnFromSleep, SwitchTo
  <2>2. QED
    BY <2>1, UsableKept, RefQuiet
<1>12. CASE OtherStep
  <2>1. UNCHANGED <<val, queueBlocked, semStatus, mySem, open, closing>>
    BY <1>12 DEF OtherStep, semVars
  <2>2. Usable' = Usable
    BY <1>12, <2>1 DEF OtherStep, Usable, BeingClosed
  <2>3. QED
    BY <2>1, <2>2, RefQuiet
<1>13. QED
  BY <1>2, <1>3, <1>4, <1>5, <1>6, <1>7, <1>8, <1>9, <1>10, <1>11, <1>12
  DEF KernelStep, TryWaitStep

\* While no program calls sem_trywait, the semaphores do what programs may
\* rely on: units are neither lost nor made, waiters are served in the order
\* of their arrival, a timeout takes exactly the thread whose time is over,
\* and a close answers every waiter.
THEOREM SemaphoresAreImplemented ==
    ASSUME "trywait" \notin Calls
    PROVE  Spec => ImplementsSemaphores
<1>1. Init => RefInv
  BY CountInvInit, WaitsInvInit DEF RefInv
<1>2. RefInv /\ [Next]_vars => RefInv'
  BY CountInvStep, WaitsInvStep DEF RefInv
<1>3. RefInv /\ RefInv' /\ [Next]_vars => [Abstract!AbsNext]_(Abstract!absVars)
  BY StepsOfNext, RefStep DEF RefInv
<1>4. QED
  BY RefInit, <1>1, <1>2, <1>3, PTL DEF Spec, ImplementsSemaphores, Abstract!AbsSpec
=============================================================================
