-------------------------- MODULE LifecycleProofs --------------------------
(***************************************************************************)
(* Proofs about the life of threads, for all sets of threads and of        *)
(* PeriodicThreads and all numbers of threads made: main() waits for       *)
(* userMain(), and the counts of children are right.  LifecycleInv is      *)
(* inductive: every step keeps it.                                         *)
(***************************************************************************)
EXTENDS Lifecycle, ListTheorems, FiniteSetTheorems

-----------------------------------------------------------------------------
\* The inductive invariant, in parts.
LifecycleTypes ==
    /\ running \in Threads
    /\ valid \subseteq Threads
    /\ threadState \in [Threads -> States]
    /\ parentThread \in [Threads -> Threads \cup {NoThread}]
    /\ numOfChildren \in [Threads -> Int]
    /\ DOMAIN body = Threads
    /\ mainPc \in {"loop", "killed"}

\* What runs runs on a control block that is not deleted.
RunnerIsValid == phase = "user" => running \in valid

\* While userMain() runs, idleThread is there and waits for it.
IdleWaits ==
    ~finished => /\ Idle \in valid
                 /\ threadState[Idle] # "FINISHED"
                 /\ body[Idle] = "idle"

\* Nobody is finished and not yet deleted, until main() kills the services.
NobodyIsFinished ==
    mainPc = "loop" => \A t \in valid : threadState[t] # "FINISHED"

\* A parent pointer points to a thread, or to where one ended too soon.
ParentsAreKnown ==
    mainPc = "loop" =>
        \A c \in valid : parentThread[c] \in valid \cup leftAlone \cup {NoThread}

FamilyInv == NobodyIsFinished /\ ParentsAreKnown /\ ChildrenAreCounted

LifecycleInv ==
    /\ LifecycleTypes /\ RunnerIsValid /\ IsFiniteSet(valid)
    /\ IdleWaits /\ UserMainIsOver
    /\ FamilyInv

-----------------------------------------------------------------------------
\* The steps: for the invariant it matters what a call does and little who
\* makes it.
DispatchStep ==
    /\ phase = "user"
    /\ ThreadDispatch
    /\ UNCHANGED <<familyVars, finished, mainPc>>

SleepStep ==
    /\ phase = "user"
    /\ BeginDispatch([threadState EXCEPT ![running] = "SUSPENDED"], readyQueue)
    /\ UNCHANGED <<familyVars, finished, mainPc>>

ExitStep ==
    /\ phase = "user"
    /\ body[running] = "idle" => finished
    /\ Exit
    /\ UNCHANGED <<finished, mainPc>>

MakeStep ==
    /\ phase = "user"
    /\ \E t \in Threads : \E b : MadeThread(t, b)
    /\ UNCHANGED <<finished, mainPc>>

\* Nothing the invariant speaks of, except that userMain() may return or the
\* machine may stop.
OtherStep ==
    /\ phase' = phase \/ phase' = "halted"
    /\ finished => finished'
    /\ UNCHANGED <<running, valid, threadState, familyVars, mainPc>>

LifecycleStep ==
    \/ DispatchStep \/ SleepStep \/ ExitStep \/ MakeStep \/ MainShutdown
    \/ Reap \/ (\E t \in Threads : WakeUp(t)) \/ (\E t \in Threads : SwitchTo(t))
    \/ OtherStep

LEMMA StepsOfNext == [Next]_vars => LifecycleStep
<1> SUFFICES ASSUME [Next]_vars PROVE LifecycleStep
  OBVIOUS
<1> USE DEF LifecycleStep, Runs, programVars
<1>1. CASE HandlerStep
  BY <1>1 DEF HandlerStep
<1>2. CASE MainStep
  BY <1>2 DEF MainStep, MainDispatch, KillQEMU, Dispatch, DispatchStep, OtherStep
<1>3. CASE IdleStep
  <2>1. CASE IdleCreate
    BY <2>1 DEF IdleCreate, MakeStep
  <2>2. CASE IdleDispatch
    BY <2>2 DEF IdleDispatch, Dispatch, DispatchStep
  <2>3. CASE IdleExit
    BY <2>3 DEF IdleExit, IdleMayEnd, ExitStep
  <2>4. QED
    BY <1>3, <2>1, <2>2, <2>3 DEF IdleStep
<1>4. CASE ServiceStep
  BY <1>4 DEF ServiceStep, ServiceDispatch, ServicePrints, Dispatch, DispatchStep, OtherStep,
              threadVars
<1>5. CASE ProgramStep
  <2>1. CASE UserMainReturns
    BY <2>1 DEF UserMainReturns, OtherStep, threadVars
  <2>2. CASE ProgramExit
    BY <2>2 DEF ProgramExit, ExitStep
  <2>3. CASE ProgramCreate
    BY <2>3 DEF ProgramCreate, ProgramRuns, NewThread, MakeStep
  <2>4. ASSUME NEW p \in Periodics, Start(p) PROVE LifecycleStep
    BY <2>4 DEF Start, NewThread, MakeStep
  <2>5. ASSUME NEW p \in Periodics, Terminate(p) PROVE LifecycleStep
    BY <2>5 DEF Terminate, OtherStep, threadVars
  <2>6. CASE Putc
    BY <2>6 DEF Putc, OtherStep, threadVars
  <2>7. QED
    BY <1>5, <2>1, <2>2, <2>3, <2>4, <2>5, <2>6 DEF ProgramStep
<1>6. ASSUME NEW p \in Periodics, PeriodicStep(p) PROVE LifecycleStep
  <2>1. CASE PeriodTest(p)
    BY <2>1 DEF PeriodTest, GoOn, OtherStep, threadVars
  <2>2. CASE PeriodicActivation(p)
    BY <2>2 DEF PeriodicActivation, GoOn, OtherStep, threadVars
  <2>3. CASE PeriodicSleep(p)
    BY <2>3 DEF PeriodicSleep, GoOn, SleepStep, OtherStep, threadVars
  <2>4. CASE PeriodicExit(p)
    BY <2>4, LifecycleAssumption DEF PeriodicExit, ExitStep
  <2>5. QED
    BY <1>6, <2>1, <2>2, <2>3, <2>4 DEF PeriodicStep
<1>7. CASE Preempt
  BY <1>7 DEF Preempt, Dispatch, DispatchStep
<1>8. CASE (\E t \in Threads : WakeUp(t)) \/ UNCHANGED vars
  BY <1>8 DEF vars, threadVars, OtherStep
<1>9. QED
  BY <1>1, <1>2, <1>3, <1>4, <1>5, <1>6, <1>7, <1>8 DEF Next

-----------------------------------------------------------------------------
\* dispatch(): who is deleted in it, and what the states become.
LEMMA DispatchKeeps ==
    ASSUME LifecycleTypes, NEW state \in [Threads -> States],
           BeginDispatch(state, readyQueue)
    PROVE  /\ running' = running /\ phase' = "dispatch"
           /\ threadState' \in [Threads -> States]
           /\ \A t \in Threads : threadState'[t] = "FINISHED" <=> state[t] = "FINISHED"
           /\ valid' = IF state[running] = "FINISHED" THEN valid \ {running} ELSE valid
<1>1. threadState' = IF ReadyToRun(state[running])
                     THEN [state EXCEPT ![running] = "READY"] ELSE state
  BY DEF BeginDispatch
<1>2. running \in Threads
  BY DEF LifecycleTypes
<1>3. ReadyToRun(state[running]) => state[running] # "FINISHED"
  BY DEF ReadyToRun
<1>4. QED
  BY <1>1, <1>2, <1>3 DEF BeginDispatch, States

\* A step that deletes nobody and makes nobody leaves the family as it was.
LEMMA FamilyStays ==
    ASSUME FamilyInv, UNCHANGED <<valid, familyVars>>,
           mainPc' = "loop" => mainPc = "loop" /\ NobodyIsFinished'
    PROVE  FamilyInv'
<1>1. NobodyIsFinished'
  BY DEF NobodyIsFinished
<1>2. ParentsAreKnown'
  BY DEF FamilyInv, ParentsAreKnown, familyVars
<1>3. \A t : Children(t)' = Children(t)
  BY DEF Children, familyVars
<1>4. ChildrenAreCounted'
  BY <1>3 DEF FamilyInv, ChildrenAreCounted, familyVars
<1>5. QED
  BY <1>1, <1>2, <1>4 DEF FamilyInv

\* What dispatch() without an end of a thread keeps.
LEMMA LiveDispatch ==
    ASSUME LifecycleInv, phase = "user",
           NEW state \in [Threads -> States], BeginDispatch(state, readyQueue),
           \A t \in Threads : state[t] = "FINISHED" => threadState[t] = "FINISHED",
           UNCHANGED <<familyVars, finished, mainPc>>
    PROVE  LifecycleInv'
<1> USE DEF LifecycleInv
<1>1. /\ running' = running /\ phase' = "dispatch"
      /\ threadState' \in [Threads -> States]
      /\ \A t \in Threads : threadState'[t] = "FINISHED" => threadState[t] = "FINISHED"
      /\ valid' = IF state[running] = "FINISHED" THEN valid \ {running} ELSE valid
  BY DispatchKeeps
<1>2. running \in valid /\ running \in Threads /\ valid \subseteq Threads
  BY DEF RunnerIsValid, LifecycleTypes
<1>3. LifecycleTypes'
  BY <1>1, <1>2 DEF LifecycleTypes, familyVars
<1>4. RunnerIsValid'
  BY <1>1 DEF RunnerIsValid
<1>5. IsFiniteSet(valid')
  BY <1>1, FS_RemoveElement
<1>6. IdleWaits'
  BY <1>1, <1>2 DEF IdleWaits, familyVars
<1>7. UserMainIsOver'
  BY DEF UserMainIsOver
<1>8. FamilyInv'
  <2>1. CASE mainPc = "loop"
    <3>1. \A t \in valid : threadState[t] # "FINISHED"
      BY <2>1 DEF FamilyInv, NobodyIsFinished
    <3>2. valid' = valid
      BY <1>1, <1>2, <3>1
    <3>3. NobodyIsFinished'
      BY <1>1, <1>2, <3>1, <3>2 DEF NobodyIsFinished
    <3>4. QED
      BY <2>1, <3>2, <3>3, FamilyStays
  <2>2. CASE mainPc # "loop"
    BY <2>2 DEF FamilyInv, NobodyIsFinished, ParentsAreKnown, ChildrenAreCounted
  <2>3. QED
    BY <2>1, <2>2
<1>9. QED
  BY <1>3, <1>4, <1>5, <1>6, <1>7, <1>8

\* thread_exit: the one who ends is a child less for its parent; its own
\* children point from now on to memory that anybody may get.
LEMMA FamilyAfterExit ==
    ASSUME LifecycleInv, mainPc = "loop", running \in valid,
           valid' = valid \ {running},
           \A t \in valid' : threadState'[t] # "FINISHED",
           numOfChildren' = CountDownParent(running),
           leftAlone' = IF Children(running) = {} THEN leftAlone
                        ELSE leftAlone \cup {running},
           UNCHANGED <<body, parentThread>>
    PROVE  FamilyInv'
<1> DEFINE p == parentThread[running]
<1>1. /\ running \in Threads /\ valid \subseteq Threads
      /\ p \in Threads \cup {NoThread}
      /\ numOfChildren \in [Threads -> Int]
  BY DEF LifecycleInv, LifecycleTypes
<1>2. NobodyIsFinished'
  BY DEF NobodyIsFinished
<1>3. ParentsAreKnown'
  <2>1. SUFFICES ASSUME NEW c \in valid'
                 PROVE  parentThread[c] \in valid' \cup leftAlone' \cup {NoThread}
    BY DEF ParentsAreKnown
  <2>2. c \in valid /\ parentThread[c] \in valid \cup leftAlone \cup {NoThread}
    BY DEF LifecycleInv, FamilyInv, ParentsAreKnown
  <2>3. parentThread[c] = running => c \in Children(running)
    BY <2>2 DEF Children
  <2>4. QED
    BY <2>2, <2>3
<1>4. ASSUME NEW t \in valid' \ leftAlone'
      PROVE  numOfChildren'[t] = Cardinality(Children(t)')
  <2>1. t \in valid \ leftAlone /\ t # running /\ t \in Threads
    BY <1>1, <1>4
  <2>2. /\ numOfChildren[t] = Cardinality(Children(t))
        /\ numOfChildren[t] \in Int
    BY <1>1, <2>1 DEF LifecycleInv, FamilyInv, ChildrenAreCounted
  <2>3. Children(t)' = Children(t) \ {running}
    BY DEF Children
  <2>4. running \in Children(t) <=> p = t
    BY DEF Children
  <2>5. IsFiniteSet(Children(t))
    BY FS_Subset DEF Children, LifecycleInv
  <2>6. numOfChildren'[t] = IF p = t THEN numOfChildren[t] - 1 ELSE numOfChildren[t]
    BY <1>1, <2>1, LifecycleAssumption DEF CountDownParent
  <2>7. Cardinality(Children(t) \ {running})
        = IF running \in Children(t) THEN Cardinality(Children(t)) - 1
          ELSE Cardinality(Children(t))
    BY <2>5, FS_RemoveElement
  <2>8. QED
    BY <2>2, <2>3, <2>4, <2>6, <2>7
<1>5. ChildrenAreCounted'
  BY <1>4 DEF ChildrenAreCounted
<1>6. QED
  BY <1>2, <1>3, <1>5 DEF FamilyInv

LEMMA ExitKeeps == LifecycleInv /\ ExitStep => LifecycleInv'
<1> SUFFICES ASSUME LifecycleInv, ExitStep PROVE LifecycleInv'
  OBVIOUS
<1> DEFINE state == [threadState EXCEPT ![running] = "FINISHED"]
<1> USE DEF LifecycleInv
<1>1. /\ running \in valid /\ running \in Threads /\ valid \subseteq Threads
      /\ threadState \in [Threads -> States]
      /\ parentThread \in [Threads -> Threads \cup {NoThread}]
      /\ numOfChildren \in [Threads -> Int]
  BY DEF RunnerIsValid, LifecycleTypes, ExitStep
<1>2. /\ state \in [Threads -> States] /\ state[running] = "FINISHED"
      /\ \A t \in Threads : t # running => state[t] = threadState[t]
  BY <1>1 DEF States
<1>3. /\ BeginDispatch(state, readyQueue)
      /\ numOfChildren' = CountDownParent(running)
      /\ leftAlone' = IF Children(running) = {} THEN leftAlone
                      ELSE leftAlone \cup {running}
      /\ UNCHANGED <<body, parentThread, ID, finished, mainPc>>
      /\ body[running] = "idle" => finished
  BY DEF ExitStep, Exit, ThreadExit
<1> HIDE DEF state
<1>4. /\ running' = running /\ phase' = "dispatch"
      /\ threadState' \in [Threads -> States]
      /\ \A t \in Threads : threadState'[t] = "FINISHED" <=> state[t] = "FINISHED"
      /\ valid' = valid \ {running}
  BY <1>2, <1>3, DispatchKeeps
<1>5. LifecycleTypes'
  <2>1. numOfChildren' \in [Threads -> Int]
    BY <1>1, <1>3 DEF CountDownParent
  <2>2. QED
    BY <1>1, <1>3, <1>4, <2>1 DEF LifecycleTypes
<1>6. RunnerIsValid'
  BY <1>4 DEF RunnerIsValid
<1>7. IsFiniteSet(valid')
  BY <1>4, FS_RemoveElement
<1>8. IdleWaits'
  BY <1>1, <1>2, <1>3, <1>4 DEF IdleWaits
<1>9. UserMainIsOver'
  BY <1>3 DEF UserMainIsOver
<1>10. FamilyInv'
  <2>1. CASE mainPc = "loop"
    <3>1. \A t \in valid' : threadState'[t] # "FINISHED"
      BY <1>1, <1>2, <1>4, <2>1 DEF FamilyInv, NobodyIsFinished
    <3>2. QED
      BY <1>1, <1>3, <1>4, <2>1, <3>1, FamilyAfterExit
  <2>2. CASE mainPc # "loop"
    BY <1>3, <2>2 DEF FamilyInv, NobodyIsFinished, ParentsAreKnown, ChildrenAreCounted
  <2>3. QED
    BY <2>1, <2>2
<1>11. QED
  BY <1>5, <1>6, <1>7, <1>8, <1>9, <1>10

\* A new thread is a child more for the one who makes it.  Whoever pointed to
\* its memory as to a parent was left alone there and goes on being so.
LEMMA FamilyAfterMake ==
    ASSUME LifecycleInv, mainPc = "loop", running \in valid,
           NEW t \in Threads \ valid,
           valid' = valid \cup {t},
           \A u \in valid' : threadState'[u] # "FINISHED",
           parentThread' = [parentThread EXCEPT ![t] = running],
           numOfChildren' = [numOfChildren EXCEPT ![t] = 0, ![running] = @ + 1],
           leftAlone' = leftAlone \ {c \in {t} : Children(t) = {}}
    PROVE  FamilyInv'
<1>1. /\ running \in Threads /\ valid \subseteq Threads /\ t # running
      /\ parentThread \in [Threads -> Threads \cup {NoThread}]
      /\ numOfChildren \in [Threads -> Int]
  BY DEF LifecycleInv, LifecycleTypes
<1>2. \A c \in valid : /\ parentThread[c] \in valid \cup leftAlone \cup {NoThread}
                       /\ parentThread'[c] = parentThread[c]
  BY <1>1 DEF LifecycleInv, FamilyInv, ParentsAreKnown
<1>3. parentThread'[t] = running
  BY <1>1
<1>4. t \in leftAlone' \/ Children(t) = {}
  <2>1. ASSUME NEW c \in Children(t) PROVE t \in leftAlone
    BY <1>1, <1>2, LifecycleAssumption DEF Children
  <2>2. QED
    BY <2>1
<1>5. NobodyIsFinished'
  BY DEF NobodyIsFinished
<1>6. ParentsAreKnown'
  <2>1. SUFFICES ASSUME NEW c \in valid'
                 PROVE  parentThread'[c] \in valid' \cup leftAlone' \cup {NoThread}
    BY DEF ParentsAreKnown
  <2>2. QED
    BY <1>2, <1>3
<1>7. ASSUME NEW u \in valid' \ leftAlone'
      PROVE  numOfChildren'[u] = Cardinality(Children(u)')
  <2>1. Children(u)' = IF u = running THEN Children(u) \cup {t} ELSE Children(u)
    BY <1>1, <1>2, <1>3 DEF Children
  <2>2. CASE u = t
    <3>1. numOfChildren'[u] = 0
      BY <1>1, <2>2
    <3>2. Children(u)' = {}
      BY <1>1, <1>4, <1>7, <2>1, <2>2
    <3>3. QED
      BY <3>1, <3>2, FS_EmptySet
  <2>3. CASE u # t
    <3>1. u \in valid \ leftAlone /\ u \in Threads
      BY <1>1, <1>7, <2>3
    <3>2. numOfChildren[u] = Cardinality(Children(u)) /\ numOfChildren[u] \in Int
      BY <1>1, <3>1 DEF LifecycleInv, FamilyInv, ChildrenAreCounted
    <3>3. numOfChildren'[u] = IF u = running THEN numOfChildren[u] + 1
                              ELSE numOfChildren[u]
      BY <1>1, <2>3, <3>1
    <3>4. IsFiniteSet(Children(u)) /\ t \notin Children(u)
      BY FS_Subset DEF Children, LifecycleInv
    <3>5. Cardinality(Children(u) \cup {t}) = Cardinality(Children(u)) + 1
      BY <3>4, FS_AddElement
    <3>6. QED
      BY <2>1, <3>2, <3>3, <3>5
  <2>4. QED
    BY <2>2, <2>3
<1>8. ChildrenAreCounted'
  BY <1>7 DEF ChildrenAreCounted
<1>9. QED
  BY <1>5, <1>6, <1>8 DEF FamilyInv

LEMMA MakeKeeps == LifecycleInv /\ MakeStep => LifecycleInv'
<1> SUFFICES ASSUME LifecycleInv, MakeStep PROVE LifecycleInv'
  OBVIOUS
<1> USE DEF LifecycleInv
<1>1. PICK t \in Threads : \E b : MadeThread(t, b)
  BY DEF MakeStep
<1>2. PICK b : MadeThread(t, b)
  BY <1>1
<1>3. /\ t \notin valid /\ valid' = valid \cup {t}
      /\ threadState' = [threadState EXCEPT ![t] = "READY"]
      /\ running' = running /\ phase' = phase
      /\ body' = [body EXCEPT ![t] = b]
      /\ parentThread' = [parentThread EXCEPT ![t] = running]
      /\ numOfChildren' = [numOfChildren EXCEPT ![t] = 0, ![running] = @ + 1]
      /\ leftAlone' = leftAlone \ {c \in {t} : Children(t) = {}}
  BY <1>2 DEF MadeThread, CreateThread
<1>4. finished' = finished /\ mainPc' = mainPc
  BY DEF MakeStep
<1>5. /\ running \in valid /\ running \in Threads /\ valid \subseteq Threads
      /\ threadState \in [Threads -> States]
      /\ parentThread \in [Threads -> Threads \cup {NoThread}]
      /\ numOfChildren \in [Threads -> Int] /\ DOMAIN body = Threads
  BY DEF RunnerIsValid, LifecycleTypes, MakeStep
<1>6. LifecycleTypes'
  <2>1. /\ threadState' \in [Threads -> States]
        /\ parentThread' \in [Threads -> Threads \cup {NoThread}]
        /\ DOMAIN body' = Threads
    BY <1>3, <1>5 DEF States
  <2>2. numOfChildren' \in [Threads -> Int]
    BY <1>3, <1>5
  <2>3. QED
    BY <1>3, <1>4, <1>5, <2>1, <2>2 DEF LifecycleTypes
<1>7. RunnerIsValid'
  BY <1>3, <1>5 DEF RunnerIsValid
<1>8. IsFiniteSet(valid')
  BY <1>3, FS_AddElement
<1>9. IdleWaits'
  BY <1>3, <1>4, <1>5 DEF IdleWaits
<1>10. UserMainIsOver'
  BY <1>4 DEF UserMainIsOver
<1>11. FamilyInv'
  <2>1. CASE mainPc = "loop"
    <3>1. \A u \in valid' : threadState'[u] # "FINISHED"
      BY <1>3, <1>5, <2>1 DEF FamilyInv, NobodyIsFinished
    <3>2. QED
      BY <1>3, <1>5, <2>1, <3>1, FamilyAfterMake
  <2>2. CASE mainPc # "loop"
    BY <1>4, <2>2 DEF FamilyInv, NobodyIsFinished, ParentsAreKnown, ChildrenAreCounted
  <2>3. QED
    BY <2>1, <2>2
<1>12. QED
  BY <1>6, <1>7, <1>8, <1>9, <1>10, <1>11

\* main() begins its shutdown only if userMain() has returned: as long as it
\* has not, idle's control block is idle's and idle is not finished.
LEMMA ShutdownKeeps == LifecycleInv /\ MainShutdown => LifecycleInv'
<1> SUFFICES ASSUME LifecycleInv, MainShutdown PROVE LifecycleInv'
  OBVIOUS
<1> DEFINE state == SubtleKill(threadState, {t \in Services : MayKill(t)})
<1> USE DEF LifecycleInv
<1>1. finished
  BY DEF MainShutdown, IsFinished, IdleWaits
<1>2. /\ BeginDispatch(state, readyQueue)
      /\ mainPc' = "killed" /\ finished' = finished
      /\ UNCHANGED familyVars
  BY DEF MainShutdown
<1>3. state \in [Threads -> States]
  BY DEF SubtleKill, LifecycleTypes, States
<1> HIDE DEF state
<1>4. /\ running' = running /\ phase' = "dispatch"
      /\ threadState' \in [Threads -> States]
      /\ valid' = IF state[running] = "FINISHED" THEN valid \ {running} ELSE valid
  BY <1>2, <1>3, DispatchKeeps
<1>5. LifecycleTypes'
  BY <1>2, <1>4 DEF LifecycleTypes, familyVars
<1>6. RunnerIsValid' /\ IdleWaits' /\ UserMainIsOver'
  BY <1>1, <1>2, <1>4 DEF RunnerIsValid, IdleWaits, UserMainIsOver
<1>7. IsFiniteSet(valid')
  BY <1>4, FS_RemoveElement
<1>8. FamilyInv'
  BY <1>2 DEF FamilyInv, NobodyIsFinished, ParentsAreKnown, ChildrenAreCounted
<1>9. QED
  BY <1>5, <1>6, <1>7, <1>8

LEMMA ReapKeeps == LifecycleInv /\ Reap => LifecycleInv'
<1> SUFFICES ASSUME LifecycleInv, Reap PROVE LifecycleInv'
  OBVIOUS
<1> USE DEF LifecycleInv
<1>1. PICK t : t = Head(readyQueue)
  OBVIOUS
<1>2. /\ phase = "dispatch" /\ phase' = phase
      /\ ThreadDead(t) /\ valid' = valid \ {t}
      /\ UNCHANGED <<running, threadState, familyVars, finished, mainPc>>
  BY <1>1 DEF Reap, ReapDead, programVars
<1>3. LifecycleTypes' /\ RunnerIsValid' /\ UserMainIsOver'
  BY <1>2 DEF LifecycleTypes, RunnerIsValid, UserMainIsOver, familyVars
<1>4. IsFiniteSet(valid')
  BY <1>2, FS_RemoveElement
<1>5. IdleWaits'
  BY <1>2 DEF IdleWaits, ThreadDead, IsFinished, familyVars
<1>6. FamilyInv'
  <2>1. CASE mainPc = "loop"
    <3>1. valid' = valid
      BY <1>2, <2>1 DEF ThreadDead, IsFinished, FamilyInv, NobodyIsFinished
    <3>2. NobodyIsFinished'
      BY <1>2, <3>1 DEF FamilyInv, NobodyIsFinished
    <3>3. QED
      BY <1>2, <2>1, <3>1, <3>2, FamilyStays
  <2>2. CASE mainPc # "loop"
    BY <1>2, <2>2 DEF FamilyInv, NobodyIsFinished, ParentsAreKnown, ChildrenAreCounted
  <2>3. QED
    BY <2>1, <2>2
<1>7. QED
  BY <1>3, <1>4, <1>5, <1>6

\* A step that deletes nobody, makes nobody and finishes nobody.
LEMMA QuietKeeps ==
    ASSUME LifecycleInv, UNCHANGED <<valid, familyVars, mainPc>>,
           running' \in Threads,
           phase' = "user" => running' \in valid,
           threadState' \in [Threads -> States],
           \A t \in Threads : threadState'[t] = "FINISHED" => threadState[t] = "FINISHED",
           finished => finished'
    PROVE  LifecycleInv'
<1> USE DEF LifecycleInv
<1>1. LifecycleTypes' /\ RunnerIsValid' /\ UserMainIsOver'
  BY DEF LifecycleTypes, RunnerIsValid, UserMainIsOver, familyVars
<1>2. Idle \in Threads
  BY DEF Threads
<1>3. IdleWaits'
  BY <1>2 DEF IdleWaits, familyVars
<1>4. mainPc = "loop" => NobodyIsFinished'
  BY DEF FamilyInv, NobodyIsFinished, LifecycleTypes
<1>5. FamilyInv'
  BY <1>4, FamilyStays
<1>6. QED
  BY <1>1, <1>3, <1>5

\* Every step keeps the invariant.
LEMMA LifecycleNext == LifecycleInv /\ [Next]_vars => LifecycleInv'
<1> SUFFICES ASSUME LifecycleInv, [Next]_vars PROVE LifecycleInv'
  OBVIOUS
<1>1. LifecycleStep
  BY StepsOfNext
<1>2. LifecycleTypes
  BY DEF LifecycleInv
<1>3. running \in Threads /\ threadState \in [Threads -> States]
  BY <1>2 DEF LifecycleTypes
<1>4. CASE DispatchStep
  BY <1>3, <1>4, LiveDispatch DEF DispatchStep, ThreadDispatch
<1>5. CASE SleepStep
  <2>1. PICK state : state = [threadState EXCEPT ![running] = "SUSPENDED"]
    OBVIOUS
  <2>2. state \in [Threads -> States]
    BY <1>3, <2>1 DEF States
  <2>3. \A t \in Threads : state[t] = "FINISHED" => threadState[t] = "FINISHED"
    BY <1>3, <2>1
  <2>4. /\ phase = "user" /\ BeginDispatch(state, readyQueue)
        /\ UNCHANGED <<familyVars, finished, mainPc>>
    BY <1>5, <2>1 DEF SleepStep
  <2>5. QED
    BY <2>2, <2>3, <2>4, LiveDispatch
<1>6. CASE ExitStep
  BY <1>6, ExitKeeps
<1>7. CASE MakeStep
  BY <1>7, MakeKeeps
<1>8. CASE MainShutdown
  BY <1>8, ShutdownKeeps
<1>9. CASE Reap
  BY <1>9, ReapKeeps
<1>10. ASSUME NEW t \in Threads, WakeUp(t) PROVE LifecycleInv'
  <2>1. /\ threadState' = [threadState EXCEPT ![t] = "READY"]
        /\ running' = running /\ phase' = phase
        /\ UNCHANGED <<valid, familyVars, mainPc, finished>>
    BY <1>10 DEF WakeUp, programVars
  <2>2. /\ threadState' \in [Threads -> States]
        /\ \A u \in Threads : threadState'[u] = "FINISHED" => threadState[u] = "FINISHED"
    BY <1>3, <2>1 DEF States
  <2>3. phase' = "user" => running' \in valid
    BY <2>1 DEF LifecycleInv, RunnerIsValid
  <2>4. QED
    BY <1>3, <2>1, <2>2, <2>3, QuietKeeps
<1>11. ASSUME NEW t \in Threads, SwitchTo(t) PROVE LifecycleInv'
  <2>1. /\ threadState' = [threadState EXCEPT ![t] = "RUNNING"]
        /\ running' = t /\ t \in valid
        /\ UNCHANGED <<valid, familyVars, mainPc, finished>>
    BY <1>11 DEF SwitchTo, programVars, ThreadDead, IsFinished
  <2>2. /\ threadState' \in [Threads -> States]
        /\ \A u \in Threads : threadState'[u] = "FINISHED" => threadState[u] = "FINISHED"
    BY <1>3, <2>1 DEF States
  <2>3. QED
    BY <2>1, <2>2, QuietKeeps
<1>12. CASE OtherStep
  <2>1. phase' = "user" => running' \in valid
    BY <1>12 DEF OtherStep, LifecycleInv, RunnerIsValid
  <2>2. QED
    BY <1>3, <1>12, <2>1, QuietKeeps DEF OtherStep
<1>13. QED
  BY <1>1, <1>4, <1>5, <1>6, <1>7, <1>8, <1>9, <1>10, <1>11, <1>12 DEF LifecycleStep

-----------------------------------------------------------------------------
\* The boot makes as many threads as it has in its list.
LEMMA BootIsFinite ==
    /\ IsFiniteSet(Services \cup {Idle})
    /\ Cardinality(Services \cup {Idle}) = Len(BootOrder)
<1> DEFINE S == Services \cup {Idle}
<1>1. /\ BootOrder \in Seq(S) /\ IsInjective(BootOrder) /\ ToSet(BootOrder) = S
  BY ThreadsAssumption
<1>2. Len(BootOrder) \in Nat /\ BootOrder \in [1..Len(BootOrder) -> S]
  BY <1>1
<1>3. \A u \in S : \E i \in 1..Len(BootOrder) : BootOrder[i] = u
  BY <1>1, InList
<1>4. \A i, j \in 1..Len(BootOrder) : BootOrder[i] = BootOrder[j] => i = j
  BY <1>1 DEF IsInjective
<1>5. BootOrder \in Bijection(1..Len(BootOrder), S)
  BY <1>2, <1>3, <1>4 DEF Bijection, Injection, Surjection, IsInjective
<1>6. ExistsBijection(1..Len(BootOrder), S)
  BY <1>5 DEF ExistsBijection
<1>7. /\ IsFiniteSet(1..Len(BootOrder))
      /\ Cardinality(1..Len(BootOrder)) = Len(BootOrder)
  BY <1>2, FS_Interval
<1>8. QED
  BY <1>6, <1>7, FS_Bijection

\* What main() sets up satisfies the invariant: it is the parent of idle and
\* of the services, and has counted them.
LEMMA LifecycleInit == Init => LifecycleInv
<1> SUFFICES ASSUME Init PROVE LifecycleInv
  OBVIOUS
<1> DEFINE S == Services \cup {Idle}
<1>1. /\ Main \in Threads /\ Main \notin S /\ Idle \notin Services
      /\ S \subseteq Threads /\ NoThread \notin Threads
  BY ThreadsAssumption, LifecycleAssumption DEF Threads
<1>2. IsFiniteSet(S) /\ Cardinality(S) = Len(BootOrder) /\ Len(BootOrder) \in Nat
  BY BootIsFinite, ThreadsAssumption
<1>3. /\ running = Main /\ valid = S \cup {Main} /\ phase = "user"
      /\ threadState = [t \in Threads |-> IF t = Main THEN "RUNNING" ELSE "READY"]
  BY DEF Init, ThreadsInit
<1>4. /\ parentThread = [t \in Threads |-> IF t = Main THEN NoThread ELSE Main]
      /\ numOfChildren = [t \in Threads |-> IF t = Main THEN Len(BootOrder) ELSE 0]
      /\ finished = FALSE /\ mainPc = "loop" /\ leftAlone = {}
  BY DEF Init
<1>5. DOMAIN body = Threads /\ body[Idle] = "idle"
  <2>1. body = [t \in Threads |-> CASE t = Main -> "main"
                                    [] t \in Services -> "service"
                                    [] OTHER -> "idle"]
    BY DEF Init
  <2>2. Idle \in Threads /\ Idle # Main /\ Idle \notin Services
    BY <1>1
  <2>3. QED
    BY <2>1, <2>2
<1> HIDE DEF S
<1>6. LifecycleTypes
  BY <1>1, <1>2, <1>3, <1>4, <1>5 DEF LifecycleTypes, States
<1>7. RunnerIsValid
  BY <1>3 DEF RunnerIsValid
<1>8. IsFiniteSet(valid)
  BY <1>2, <1>3, FS_AddElement
<1>9. IdleWaits
  BY <1>1, <1>3, <1>5 DEF IdleWaits, S
<1>10. UserMainIsOver
  BY <1>4 DEF UserMainIsOver
<1>11. NobodyIsFinished
  BY <1>1, <1>3 DEF NobodyIsFinished
<1>12. ParentsAreKnown
  BY <1>1, <1>3, <1>4 DEF ParentsAreKnown
<1>13. ChildrenAreCounted
  <2>1. Children(Main) = S
    BY <1>1, <1>3, <1>4 DEF Children
  <2>2. ASSUME NEW t \in valid, t # Main PROVE Children(t) = {} /\ numOfChildren[t] = 0
    BY <1>1, <1>3, <1>4, <2>2 DEF Children
  <2>3. numOfChildren[Main] = Cardinality(Children(Main))
    BY <1>1, <1>2, <1>4, <2>1
  <2>4. QED
    BY <2>2, <2>3, FS_EmptySet DEF ChildrenAreCounted
<1>14. QED
  BY <1>6, <1>7, <1>8, <1>9, <1>10, <1>11, <1>12, <1>13 DEF LifecycleInv, FamilyInv

-----------------------------------------------------------------------------
\* The invariant holds in every state of every run of the system: the control
\* blocks, the parents and the counts are what the code's constructors,
\* thread_exit, dispatch() and main() leave behind, in any interleaving.
THEOREM LifecycleAlways == Spec => []LifecycleInv
<1>1. Init => LifecycleInv
  BY LifecycleInit
<1>2. LifecycleInv /\ [Next]_vars => LifecycleInv'
  BY LifecycleNext
<1>3. QED
  BY <1>1, <1>2, PTL DEF Spec

\* main() (src/main.cpp) does not stop the machine while userMain() runs, for
\* all threads and periodic threads and whatever the heap puts where idle's
\* control block was.
THEOREM MainWaitsForUserMain == Spec => []UserMainIsOver
<1>1. LifecycleInv => UserMainIsOver
  BY DEF LifecycleInv
<1>2. QED
  BY <1>1, LifecycleAlways, PTL

\* numOfChildren (h/_thread.hpp) is the number of living children, for all
\* numbers of threads and of uses of the same memory, in every control block
\* but those where a thread ended before its children.
THEOREM CountsAreRight == Spec => []ChildrenAreCounted
<1>1. LifecycleInv => ChildrenAreCounted
  BY DEF LifecycleInv, FamilyInv
<1>2. QED
  BY <1>1, LifecycleAlways, PTL
=============================================================================
