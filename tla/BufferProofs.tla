---------------------------- MODULE BufferProofs ----------------------------
(***************************************************************************)
(* Proofs about the bounded buffer and its test, for all numbers of        *)
(* producers and all sizes of the buffer: the buffer is a queue, and no    *)
(* semaphore is used after it is closed.  BufferInv is inductive.          *)
(*                                                                         *)
(* The argument counts.  At each statement a thread has certain units of   *)
(* the semaphores to itself; the units that nobody has are those that      *)
(* space, the items and the locks leave, and main() has taken as many      *)
(* units of waitForAll as threads have ended.                              *)
(***************************************************************************)
EXTENDS BoundedBuffer, ListTheorems, FiniteSetTheorems

-----------------------------------------------------------------------------
\* What a thread has at a statement: the units it has kept from before, and
\* the unit sem_wait was for in the statement before, unless it still waits.
Kept(point) ==
    CASE point = "putWrite" -> {"spaceAvailable"}
      [] point = "putAdvance" -> {"spaceAvailable", "mutexTail"}
      [] point = "putUnlock" -> {"itemAvailable", "mutexTail"}
      [] point = "putSignal" -> {"itemAvailable"}
      [] point = "getRead" -> {"itemAvailable"}
      [] point = "getAdvance" -> {"itemAvailable", "mutexHead"}
      [] point = "getUnlock" -> {"spaceAvailable", "mutexHead"}
      [] point = "getSignal" -> {"spaceAvailable"}
      [] point \in {"cntRead", "cntSignal"} -> {"mutexHead"}
      [] point = "cntUnlock" -> {"mutexHead", "mutexTail"}
      [] OTHER -> {}

Awaited(point) ==
    CASE point = "putLock" -> {"spaceAvailable"}
      [] point = "getLock" -> {"itemAvailable"}
      [] point \in {"putWrite", "cntRead"} -> {"mutexTail"}
      [] point \in {"getRead", "cntLock"} -> {"mutexHead"}
      [] point \in {"wait", "closeAll"} -> {"waitForAll"}
      [] OTHER -> {}

Has(t) == Kept(pc[t]) \cup (IF verdict[t] = "waiting" THEN {} ELSE Awaited(pc[t]))

Holders(s) == {t \in Threads : s \in Has(t)}

Load(s) == units[s] + Cardinality(Holders(s))

-----------------------------------------------------------------------------
\* Where the threads can be.
CntPoints == {"cnt", "cntLock", "cntRead", "cntUnlock", "cntSignal"}

InBuffer == {"put", "putLock", "putWrite", "putAdvance", "putUnlock", "putSignal",
             "get", "getLock", "getRead", "getAdvance", "getUnlock", "getSignal"}
            \cup CntPoints

Returns == {"produce", "consume", "drain", "drained", "signalAll"}

WorkerPoints == InBuffer \cup Returns \cup {"none", "escape", "done"}

\* main() before the threads are made, while they run, and after they ended.
Before == {"ask", "open"}
During == {"create", "wait", "closeAll"}
Ending == {"delete", "print", "closeItem", "closeSpace", "closeTail", "closeHead",
           "done"} \cup CntPoints

\* The semaphores that main() has not closed when it is at a point of Ending.
StillOpen(point) ==
    CASE point = "closeSpace" -> {"spaceAvailable", "mutexTail", "mutexHead"}
      [] point = "closeTail" -> {"mutexTail", "mutexHead"}
      [] point = "closeHead" -> {"mutexHead"}
      [] point = "done" -> {}
      [] OTHER -> Sems \ {"waitForAll"}

Points == WorkerPoints \cup Before \cup During \cup Ending

Values == Int \cup {Key, Mark}

-----------------------------------------------------------------------------
\* The inductive invariant, in parts.
SemTypes ==
    /\ usable \subseteq Sems
    /\ units \in [Sems -> Nat]
    /\ waiters \in [Sems -> Seq(Threads)]
    /\ verdict \in [Threads -> {"none", "waiting", "acquired"}]
    /\ pc \in [Threads -> Points]

TestTypes ==
    /\ back \in [Threads -> Returns \cup {"print", "done"}]
    /\ local \in [Threads -> Values]
    /\ threadNum \in 0..MaxThreads /\ n \in 0..MaxSize

\* main() is in its own code and the others in theirs.
Roles ==
    /\ pc[Main] \in Before \cup During \cup Ending
    /\ pc[Main] \in CntPoints => back[Main] = "print"
    /\ \A t \in Threads \ {Main} :
           /\ pc[t] \in WorkerPoints
           /\ pc[t] \in InBuffer \cup {"escape"} => back[t] \in Returns

\* The queue of a semaphore is the threads that wait for it, and they do only
\* when it has no unit left.
QueuesAreWaiters ==
    /\ \A s \in Sems :
           /\ IsInjective(waiters[s])
           /\ waiters[s] # <<>> => units[s] = 0
           /\ \A t \in Threads :
                  t \in ToSet(waiters[s])
                  <=> s \in Awaited(pc[t]) /\ verdict[t] = "waiting"
    /\ \A t \in Threads : verdict[t] # "none" => Awaited(pc[t]) # {}

\* While the threads run: the free and the taken units.
UnitsAreCounted ==
    pc[Main] \in During =>
        /\ Load("spaceAvailable") = n - Len(fifo)
        /\ Load("itemAvailable") = Len(fifo)
        /\ Load("mutexHead") = 1
        /\ Load("mutexTail") = 1

Ended == {t \in Threads \ {Main} : pc[t] = "done"}

\* The units of waitForAll that main() has been given.
Given ==
    IF pc[Main] = "create" THEN 0
    ELSE IF verdict[Main] = "waiting" THEN local[Main] - 1
    ELSE local[Main]

EndsAreCounted ==
    pc[Main] \in During => units["waitForAll"] + Given = Cardinality(Ended)

\* How far main() is with the threads.
MadeSoFar ==
    /\ pc[Main] \in Before =>
           /\ \A t \in Threads \ {Main} : pc[t] = "none"
           /\ local[Main] = 0
    /\ pc[Main] \in {"create", "wait"} => local[Main] \in 0..threadNum
    /\ pc[Main] = "closeAll" => local[Main] = threadNum + 1
    /\ pc[Main] = "create" =>
           /\ local[Main] = 0 => pc[Consumer] = "none"
           /\ \A t \in Producers : t >= local[Main] - 1 => pc[t] = "none"
    /\ pc[Main] \in During => \A t \in Producers : t >= threadNum => pc[t] = "none"
    /\ pc[Main] \in Ending => \A t \in Threads \ {Main} : pc[t] \in {"none", "done"}

OpenSems ==
    usable = IF pc[Main] \in Before THEN {}
             ELSE IF pc[Main] \in During THEN Sems
             ELSE StillOpen(pc[Main])

\* The ring buffer.
RingInv ==
    /\ head \in 0..n /\ tail \in 0..n
    /\ buffer \in [0..MaxSize -> Values]
    /\ fifo \in Seq(Values)
    /\ pc[Main] \in Before => fifo = <<>> /\ head = 0 /\ tail = 0
    /\ pc[Main] \in {"cntUnlock", "cntSignal", "print"} => local[Main] = Len(fifo)
    /\ \A t \in Threads : pc[t] = "putAdvance" => buffer[tail] = local[t]
    /\ BufferIsFifo

BufferInv ==
    /\ SemTypes /\ TestTypes /\ Roles /\ QueuesAreWaiters
    /\ UnitsAreCounted /\ EndsAreCounted /\ MadeSoFar /\ OpenSems
    /\ RingInv

-----------------------------------------------------------------------------
\* Counting.
LEMMA ThreadsAreFinite == IsFiniteSet(Threads)
<1>1. IsFiniteSet(Producers)
  BY BufferAssumption, FS_Interval DEF Producers
<1>2. IsFiniteSet({Main, Consumer})
  <2>1. IsFiniteSet({Main} \cup {Consumer})
    BY FS_Singleton, FS_AddElement
  <2>2. {Main, Consumer} = {Main} \cup {Consumer}
    OBVIOUS
  <2>3. QED
    BY <2>1, <2>2
<1>3. QED
  BY <1>1, <1>2, FS_Union DEF Threads

\* A set in which one element, at most, comes or goes.
LEMMA OneMoves ==
    ASSUME NEW A, IsFiniteSet(A), NEW B, NEW t, \A u : u # t => (u \in A <=> u \in B)
    PROVE  /\ IsFiniteSet(B) /\ Cardinality(A) \in Nat /\ Cardinality(B) \in Nat
           /\ (t \in A <=> t \in B) => Cardinality(B) = Cardinality(A)
           /\ t \in B /\ t \notin A => Cardinality(B) = Cardinality(A) + 1
           /\ t \in A /\ t \notin B => Cardinality(B) = Cardinality(A) - 1
<1>1. B = A \cup {t} \/ B = A \ {t}
  OBVIOUS
<1>2. /\ IsFiniteSet(A \cup {t})
      /\ Cardinality(A \cup {t}) = IF t \in A THEN Cardinality(A) ELSE Cardinality(A) + 1
  BY FS_AddElement
<1>3. /\ IsFiniteSet(A \ {t})
      /\ Cardinality(A \ {t}) = IF t \in A THEN Cardinality(A) - 1 ELSE Cardinality(A)
  BY FS_RemoveElement
<1>4. IsFiniteSet(B)
  BY <1>1, <1>2, <1>3
<1>5. Cardinality(A) \in Nat /\ Cardinality(B) \in Nat
  BY <1>4, FS_CardinalityType
<1>6. QED
  BY <1>1, <1>2, <1>3, <1>4, <1>5

LEMMA HoldersFinite ==
    ASSUME NEW s
    PROVE  IsFiniteSet(Holders(s)) /\ Cardinality(Holders(s)) \in Nat
<1>1. Holders(s) \subseteq Threads
  BY DEF Holders
<1>2. IsFiniteSet(Holders(s))
  BY <1>1, ThreadsAreFinite, FS_Subset
<1>3. QED
  BY <1>2, FS_CardinalityType

LEMMA LoadIsNat ==
    ASSUME SemTypes, NEW s \in Sems
    PROVE  Load(s) \in Nat
<1>1. PICK k \in Nat : k = Cardinality(Holders(s))
  BY HoldersFinite
<1>2. units[s] \in Nat
  BY DEF SemTypes
<1>3. QED
  BY <1>1, <1>2 DEF Load

\* A step after which one thread, at most, has other units than before.
LEMMA HolderMoves ==
    ASSUME NEW t \in Threads, NEW r,
           \A u \in Threads : u # t => (r \in Has(u)' <=> r \in Has(u))
    PROVE  /\ Cardinality(Holders(r)) \in Nat /\ Cardinality(Holders(r))' \in Nat
           /\ (r \in Has(t)' <=> r \in Has(t))
              => Cardinality(Holders(r))' = Cardinality(Holders(r))
           /\ r \in Has(t)' /\ r \notin Has(t)
              => Cardinality(Holders(r))' = Cardinality(Holders(r)) + 1
           /\ r \in Has(t) /\ ~(r \in Has(t)')
              => Cardinality(Holders(r))' = Cardinality(Holders(r)) - 1
<1>1. PICK A : A = Holders(r)
  OBVIOUS
<1>2. PICK B : B = Holders(r)'
  OBVIOUS
<1>3. IsFiniteSet(A)
  BY <1>1, HoldersFinite
<1>4. \A u \in Threads : (u \in A <=> r \in Has(u)) /\ (u \in B <=> r \in Has(u)')
  BY <1>1, <1>2 DEF Holders
<1>5. A \subseteq Threads /\ B \subseteq Threads
  BY <1>1, <1>2 DEF Holders
<1>6. \A u : u # t => (u \in A <=> u \in B)
  BY <1>4, <1>5
<1>7. /\ Cardinality(A) \in Nat /\ Cardinality(B) \in Nat
      /\ (t \in A <=> t \in B) => Cardinality(B) = Cardinality(A)
      /\ t \in B /\ t \notin A => Cardinality(B) = Cardinality(A) + 1
      /\ t \in A /\ t \notin B => Cardinality(B) = Cardinality(A) - 1
  BY <1>3, <1>6, OneMoves
<1>8. Cardinality(A) = Cardinality(Holders(r)) /\ Cardinality(B) = Cardinality(Holders(r))'
  BY <1>1, <1>2
<1>9. QED
  BY <1>4, <1>7, <1>8

\* A lock has one unit: two threads do not have it at once.
LEMMA OneHolder ==
    ASSUME SemTypes, NEW s \in Sems, Load(s) = 1,
           NEW t \in Threads, NEW u \in Threads, s \in Has(t), s \in Has(u)
    PROVE  t = u
<1>1. PICK A : A = Holders(s)
  OBVIOUS
<1>2. IsFiniteSet(A) /\ Cardinality(A) \in Nat /\ t \in A /\ u \in A
  BY <1>1, HoldersFinite DEF Holders
<1>3. units[s] \in Nat /\ units[s] + Cardinality(A) = 1
  BY <1>1 DEF SemTypes, Load
<1>4. Cardinality(A) = 1 \/ Cardinality(A) = 0
  BY <1>2, <1>3
<1>5. Cardinality(A) = 1
  BY <1>2, <1>4, FS_EmptySet
<1>6. \E x : A = {x}
  BY <1>2, <1>5, FS_Singleton
<1>7. QED
  BY <1>2, <1>6

\* Who has a unit is counted.
LEMMA HolderCounts ==
    ASSUME SemTypes, NEW s \in Sems, NEW t \in Threads, s \in Has(t)
    PROVE  Load(s) \in Nat /\ Load(s) >= 1
<1>1. PICK A : A = Holders(s)
  OBVIOUS
<1>2. IsFiniteSet(A) /\ Cardinality(A) \in Nat /\ t \in A
  BY <1>1, HoldersFinite DEF Holders
<1>3. Cardinality(A) # 0
  BY <1>2, FS_EmptySet
<1>4. units[s] \in Nat /\ Load(s) = units[s] + Cardinality(A)
  BY <1>1 DEF SemTypes, Load
<1>5. QED
  BY <1>2, <1>3, <1>4

-----------------------------------------------------------------------------
\* The semaphores: what a call of a thread that goes on from a statement to
\* another keeps.
TokensOf(point) == Kept(point) \cup Awaited(point)

\* A thread that is not waiting has all the units of its statement.
LEMMA HasAll ==
    ASSUME NEW t \in Threads, verdict[t] # "waiting"
    PROVE  Has(t) = TokensOf(pc[t])
  BY DEF Has, TokensOf

\* A step that leaves the semaphores alone and moves nobody who waits.
LEMMA SemsStay ==
    ASSUME SemTypes, QueuesAreWaiters, UNCHANGED semVars,
           pc' \in [Threads -> Points],
           \A u \in Threads : verdict[u] = "none" \/ pc'[u] = pc[u]
    PROVE  SemTypes' /\ QueuesAreWaiters'
<1>1. SemTypes'
  BY DEF SemTypes, semVars
<1>2. \A u \in Threads : verdict[u] # "none" => pc'[u] = pc[u]
  OBVIOUS
<1>3. ASSUME NEW s \in Sems, NEW u \in Threads
      PROVE  u \in ToSet(waiters'[s]) <=> s \in Awaited(pc'[u]) /\ verdict'[u] = "waiting"
  BY <1>2 DEF QueuesAreWaiters, semVars
<1>4. QED
  BY <1>1, <1>2, <1>3 DEF QueuesAreWaiters, semVars

\* sem_wait: a unit, or a place at the end of the queue.
LEMMA WaitKeeps ==
    ASSUME SemTypes, QueuesAreWaiters,
           NEW t \in Threads, NEW s \in Sems, NEW to \in Points,
           verdict[t] = "none", pc' = [pc EXCEPT ![t] = to],
           S!Acquire(s) \/ S!Enqueue(s, t, "waiting"),
           Awaited(to) = {s}
    PROVE  /\ SemTypes' /\ QueuesAreWaiters'
           /\ usable' = usable
           /\ \A r \in Sems : r # s => units'[r] = units[r]
           /\ \A u \in Threads : u # t => verdict'[u] = verdict[u]
           /\ \/ verdict'[t] = "waiting" /\ units'[s] = units[s]
              \/ verdict'[t] = "none" /\ units'[s] = units[s] - 1
<1> USE DEF SemTypes, QueuesAreWaiters
<1>1. CASE S!Acquire(s)
  <2>1. /\ usable' = usable /\ waiters' = waiters /\ verdict' = verdict
        /\ units[s] > 0 /\ units' = [units EXCEPT ![s] = @ - 1]
    BY <1>1 DEF S!Acquire
  <2>2. /\ units' \in [Sems -> Nat] /\ units'[s] = units[s] - 1
        /\ \A r \in Sems : r # s => units'[r] = units[r]
    BY <2>1
  <2>3. SemTypes'
    BY <2>1, <2>2
  <2>4. ASSUME NEW r \in Sems
        PROVE  /\ waiters'[r] # <<>> => units'[r] = 0
               /\ \A u \in Threads :
                      u \in ToSet(waiters'[r])
                      <=> r \in Awaited(pc'[u]) /\ verdict'[u] = "waiting"
    BY <2>1, <2>2
  <2>5. \A u \in Threads : verdict'[u] # "none" => Awaited(pc'[u]) # {}
    BY <2>1
  <2>6. QueuesAreWaiters'
    BY <2>1, <2>4, <2>5
  <2>7. QED
    BY <2>1, <2>2, <2>3, <2>6
<1>2. CASE S!Enqueue(s, t, "waiting")
  <2>1. /\ usable' = usable /\ units' = units /\ units[s] = 0
        /\ waiters' = [waiters EXCEPT ![s] = Append(@, t)]
        /\ verdict' = [verdict EXCEPT ![t] = "waiting"]
    BY <1>2 DEF S!Enqueue
  <2>2. /\ waiters[s] \in Seq(Threads) /\ IsInjective(waiters[s])
        /\ \A r \in Sems : t \notin ToSet(waiters[r])
    OBVIOUS
  <2>3. /\ Append(waiters[s], t) \in Seq(Threads)
        /\ ToSet(Append(waiters[s], t)) = ToSet(waiters[s]) \cup {t}
        /\ IsInjective(Append(waiters[s], t))
    BY <2>2, AppendList
  <2>4. /\ waiters'[s] = Append(waiters[s], t)
        /\ \A r \in Sems : r # s => waiters'[r] = waiters[r]
        /\ waiters' \in [Sems -> Seq(Threads)]
    BY <2>1, <2>3
  <2>5. /\ verdict'[t] = "waiting" /\ \A u \in Threads : u # t => verdict'[u] = verdict[u]
        /\ verdict' \in [Threads -> {"none", "waiting", "acquired"}]
    BY <2>1
  <2>6. SemTypes'
    BY <2>1, <2>4, <2>5
  <2>7. pc'[t] = to /\ \A u \in Threads : u # t => pc'[u] = pc[u]
    OBVIOUS
  <2>8. ASSUME NEW r \in Sems
        PROVE  /\ IsInjective(waiters'[r])
               /\ waiters'[r] # <<>> => units'[r] = 0
               /\ \A u \in Threads :
                      u \in ToSet(waiters'[r])
                      <=> r \in Awaited(pc'[u]) /\ verdict'[u] = "waiting"
    <3>1. CASE r = s
      BY <2>1, <2>3, <2>4, <2>5, <2>7, <3>1
    <3>2. CASE r # s
      BY <2>1, <2>2, <2>4, <2>5, <2>7, <3>2
    <3>3. QED
      BY <3>1, <3>2
  <2>9. \A u \in Threads : verdict'[u] # "none" => Awaited(pc'[u]) # {}
    BY <2>5, <2>7
  <2>10. QueuesAreWaiters'
    BY <2>8, <2>9
  <2>11. QED
    BY <2>1, <2>5, <2>6, <2>10
<1>3. QED
  BY <1>1, <1>2

\* sem_signal: the unit goes to the first who waits, or back.
UnitGiven(t, s) ==
    \/ verdict' = verdict /\ units'[s] = units[s] + 1
    \/ \E h \in Threads \ {t} :
           /\ s \in Awaited(pc[h]) /\ verdict[h] = "waiting"
           /\ verdict' = [verdict EXCEPT ![h] = "acquired"]
           /\ units'[s] = units[s]

LEMMA SignalKeeps ==
    ASSUME SemTypes, QueuesAreWaiters,
           NEW t \in Threads, NEW s \in Sems, NEW to \in Points,
           verdict[t] = "none", pc' = [pc EXCEPT ![t] = to], S!Release(s)
    PROVE  /\ SemTypes' /\ QueuesAreWaiters'
           /\ usable' = usable
           /\ \A r \in Sems : r # s => units'[r] = units[r]
           /\ \A u \in Threads : s \notin Awaited(pc[u]) => verdict'[u] = verdict[u]
           /\ UnitGiven(t, s)
<1> USE DEF SemTypes, QueuesAreWaiters
<1>1. CASE waiters[s] = <<>>
  <2>1. /\ usable' = usable /\ waiters' = waiters /\ verdict' = verdict
        /\ units' = [units EXCEPT ![s] = @ + 1]
    BY <1>1 DEF S!Release
  <2>2. /\ units' \in [Sems -> Nat] /\ units'[s] = units[s] + 1
        /\ \A r \in Sems : r # s => units'[r] = units[r]
    BY <2>1
  <2>3. SemTypes'
    BY <2>1, <2>2
  <2>4. ASSUME NEW r \in Sems
        PROVE  /\ waiters'[r] # <<>> => units'[r] = 0
               /\ \A u \in Threads :
                      u \in ToSet(waiters'[r])
                      <=> r \in Awaited(pc'[u]) /\ verdict'[u] = "waiting"
    BY <1>1, <2>1, <2>2
  <2>5. \A u \in Threads : verdict'[u] # "none" => Awaited(pc'[u]) # {}
    BY <2>1
  <2>6. QueuesAreWaiters'
    BY <2>1, <2>4, <2>5
  <2>7. QED
    BY <2>1, <2>2, <2>3, <2>6 DEF UnitGiven
<1>2. CASE waiters[s] # <<>>
  <2>1. PICK h : h = Head(waiters[s])
    OBVIOUS
  <2>2. /\ usable' = usable /\ units' = units
        /\ waiters' = [waiters EXCEPT ![s] = Tail(@)]
        /\ verdict' = [verdict EXCEPT ![h] = "acquired"]
    BY <1>2, <2>1 DEF S!Release
  <2>3. waiters[s] \in Seq(Threads) /\ IsInjective(waiters[s])
    OBVIOUS
  <2>4. /\ h \in ToSet(waiters[s]) /\ h \in Threads
        /\ Tail(waiters[s]) \in Seq(Threads)
        /\ ToSet(Tail(waiters[s])) = ToSet(waiters[s]) \ {h}
        /\ IsInjective(Tail(waiters[s]))
    BY <1>2, <2>1, <2>3, TailList
  <2>5. s \in Awaited(pc[h]) /\ verdict[h] = "waiting" /\ h # t
    BY <2>4
  <2>6. /\ waiters'[s] = Tail(waiters[s])
        /\ \A r \in Sems : r # s => waiters'[r] = waiters[r]
        /\ waiters' \in [Sems -> Seq(Threads)]
    BY <2>2, <2>4
  <2>7. /\ verdict'[h] = "acquired" /\ \A u \in Threads : u # h => verdict'[u] = verdict[u]
        /\ verdict' \in [Threads -> {"none", "waiting", "acquired"}]
    BY <2>2, <2>4
  <2>8. SemTypes'
    BY <2>2, <2>6, <2>7
  <2>9. /\ \A u \in Threads : u # t => pc'[u] = pc[u]
        /\ pc'[t] = to
    OBVIOUS
  <2>10. \A r \in Sems : r \in Awaited(pc[h]) => r = s
    BY <2>5 DEF Awaited
  <2>11. ASSUME NEW r \in Sems
         PROVE  /\ IsInjective(waiters'[r])
                /\ waiters'[r] # <<>> => units'[r] = 0
                /\ \A u \in Threads :
                       u \in ToSet(waiters'[r])
                       <=> r \in Awaited(pc'[u]) /\ verdict'[u] = "waiting"
    <3>1. CASE r = s
      BY <1>2, <2>2, <2>4, <2>5, <2>6, <2>7, <2>9, <3>1
    <3>2. CASE r # s
      BY <2>2, <2>5, <2>6, <2>7, <2>9, <2>10, <3>2
    <3>3. QED
      BY <3>1, <3>2
  <2>12. \A u \in Threads : verdict'[u] # "none" => Awaited(pc'[u]) # {}
    BY <2>5, <2>7, <2>9
  <2>13. QueuesAreWaiters'
    BY <2>11, <2>12
  <2>14. QED
    BY <2>2, <2>4, <2>5, <2>7, <2>8, <2>13 DEF UnitGiven
<1>3. QED
  BY <1>1, <1>2

\* sem_wait returns to a thread that was given a unit.
LEMMA ReturnKeeps ==
    ASSUME SemTypes, QueuesAreWaiters, NEW t \in Threads, S!Return(t), UNCHANGED pc
    PROVE  /\ SemTypes' /\ QueuesAreWaiters'
           /\ UNCHANGED <<usable, units, waiters>>
           /\ verdict[t] = "acquired" /\ verdict' = [verdict EXCEPT ![t] = "none"]
<1> USE DEF SemTypes, QueuesAreWaiters
<1>1. /\ UNCHANGED <<usable, units, waiters>>
      /\ verdict[t] = "acquired" /\ verdict' = [verdict EXCEPT ![t] = "none"]
  BY DEF S!Return, S!Verdicts
<1>2. /\ verdict' \in [Threads -> {"none", "waiting", "acquired"}]
      /\ \A u \in Threads : verdict'[u] = "waiting" <=> verdict[u] = "waiting"
      /\ \A u \in Threads : verdict'[u] # "none" => verdict[u] # "none"
  BY <1>1
<1>3. QED
  BY <1>1, <1>2

-----------------------------------------------------------------------------
\* The same for the units that somebody has or nobody.
LEMMA WaitLoads ==
    ASSUME SemTypes, NEW t \in Threads, NEW s \in Sems, NEW to \in Points,
           verdict[t] = "none", pc' = [pc EXCEPT ![t] = to],
           Awaited(to) = {s}, s \notin Kept(to),
           \A u \in Threads : u # t => verdict'[u] = verdict[u],
           \A r \in Sems : r # s => units'[r] = units[r],
           \/ verdict'[t] = "waiting" /\ units'[s] = units[s]
           \/ verdict'[t] = "none" /\ units'[s] = units[s] - 1,
           NEW r \in Sems, r \in TokensOf(pc[t]) <=> r \in Kept(to)
    PROVE  Load(r)' = Load(r)
<1>1. Has(t) = TokensOf(pc[t])
  BY HasAll
<1>2. \A u \in Threads : u # t => (r \in Has(u)' <=> r \in Has(u))
  BY DEF Has, SemTypes
<1>3. r \in Has(t)' <=> r \in Kept(to) \/ (r = s /\ verdict'[t] # "waiting")
  BY DEF Has, SemTypes
<1>4. PICK a \in Nat, b \in Nat :
          /\ a = Cardinality(Holders(r)) /\ b = Cardinality(Holders(r))'
          /\ (r \in Has(t)' <=> r \in Has(t)) => b = a
          /\ r \in Has(t)' /\ r \notin Has(t) => b = a + 1
  BY <1>2, HolderMoves
<1>5. units[r] \in Nat /\ units[s] \in Nat
  BY DEF SemTypes
<1>6. Load(r) = units[r] + a /\ Load(r)' = units'[r] + b
  BY <1>4 DEF Load
<1>7. CASE r # s
  BY <1>1, <1>3, <1>4, <1>5, <1>6, <1>7
<1>8. CASE r = s /\ verdict'[t] = "waiting"
  BY <1>1, <1>3, <1>4, <1>5, <1>6, <1>8
<1>9. CASE r = s /\ verdict'[t] = "none"
  BY <1>1, <1>3, <1>4, <1>5, <1>6, <1>9
<1>10. QED
  BY <1>7, <1>8, <1>9

\* A step that changes neither the free units nor what anybody has.
LEMMA SameLoads ==
    ASSUME UNCHANGED units,
           \A u \in Threads : Has(u)' = Has(u), NEW r
    PROVE  Load(r)' = Load(r)
<1>1. Holders(r)' = Holders(r)
  BY DEF Holders
<1>2. QED
  BY <1>1 DEF Load

LEMMA SignalLoads ==
    ASSUME SemTypes, NEW t \in Threads, NEW s \in Sems, NEW to \in Points,
           verdict[t] = "none", pc' = [pc EXCEPT ![t] = to],
           \A r \in Sems : r # s => units'[r] = units[r],
           UnitGiven(t, s),
           NEW r \in Sems,
           r = s => r \in TokensOf(pc[t]) /\ r \notin TokensOf(to),
           r # s => (r \in TokensOf(pc[t]) <=> r \in TokensOf(to))
    PROVE  Load(r)' = Load(r)
<1>1. Has(t) = TokensOf(pc[t])
  BY HasAll
<1>2. units[r] \in Nat /\ units[s] \in Nat /\ verdict \in [Threads -> {"none", "waiting", "acquired"}]
  BY DEF SemTypes
<1>3. /\ pc'[t] = to /\ \A u \in Threads : u # t => pc'[u] = pc[u]
  BY DEF SemTypes
<1>4. CASE verdict' = verdict /\ units'[s] = units[s] + 1
  <2>1. \A u \in Threads : u # t => (r \in Has(u)' <=> r \in Has(u))
    BY <1>3, <1>4 DEF Has
  <2>2. r \in Has(t)' <=> r \in TokensOf(to)
    BY <1>3, <1>4 DEF Has, TokensOf
  <2>3. PICK a \in Nat, b \in Nat :
            /\ a = Cardinality(Holders(r)) /\ b = Cardinality(Holders(r))'
            /\ (r \in Has(t)' <=> r \in Has(t)) => b = a
            /\ r \in Has(t) /\ ~(r \in Has(t)') => b = a - 1
    BY <2>1, HolderMoves
  <2>4. Load(r) = units[r] + a /\ Load(r)' = units'[r] + b
    BY <2>3 DEF Load
  <2>5. QED
    BY <1>1, <1>2, <1>4, <2>2, <2>3, <2>4
<1>5. ASSUME NEW h \in Threads \ {t},
             s \in Awaited(pc[h]), verdict[h] = "waiting",
             verdict' = [verdict EXCEPT ![h] = "acquired"],
             units'[s] = units[s]
      PROVE  Load(r)' = Load(r)
  <2>1. \A u \in Threads \ {t, h} : r \in Has(u)' <=> r \in Has(u)
    BY <1>2, <1>3, <1>5 DEF Has
  <2>2. r \in Has(t)' <=> r \in TokensOf(to)
    BY <1>2, <1>3, <1>5 DEF Has, TokensOf
  <2>3. Awaited(pc[h]) = {s} /\ s \notin Kept(pc[h])
    BY <1>5 DEF Awaited, Kept
  <2>4. /\ r \in Has(h) <=> r \in Kept(pc[h])
        /\ r \in Has(h)' <=> r \in Kept(pc[h]) \/ r = s
    BY <1>2, <1>3, <1>5, <2>3 DEF Has
  <2>5. units'[r] = units[r]
    BY <1>5
  <2>6. CASE r # s
    <3>1. \A u \in Threads : r \in Has(u)' <=> r \in Has(u)
      BY <1>1, <2>1, <2>2, <2>4, <2>6
    <3>2. Holders(r)' = Holders(r)
      BY <3>1 DEF Holders
    <3>3. QED
      BY <2>5, <3>2 DEF Load
  <2>7. CASE r = s
    <3>1. PICK A : A = Holders(r)
      OBVIOUS
    <3>2. PICK B : B = Holders(r)'
      OBVIOUS
    <3>3. /\ \A u \in Threads : (u \in A <=> r \in Has(u)) /\ (u \in B <=> r \in Has(u)')
          /\ A \subseteq Threads /\ B \subseteq Threads
      BY <3>1, <3>2 DEF Holders
    <3>4. t \in A /\ t \notin B /\ h \in B /\ h \notin A
      BY <1>1, <2>2, <2>3, <2>4, <2>7, <3>3
    <3>5. B = (A \ {t}) \cup {h}
      BY <2>1, <3>3, <3>4
    <3>6. IsFiniteSet(A) /\ Cardinality(A) \in Nat
      BY <3>1, HoldersFinite
    <3>7. IsFiniteSet(A \ {t}) /\ Cardinality(A \ {t}) = Cardinality(A) - 1
      BY <3>4, <3>6, FS_RemoveElement
    <3>8. Cardinality(B) = Cardinality(A \ {t}) + 1
      BY <3>4, <3>5, <3>7, FS_AddElement
    <3>9. Cardinality(Holders(r)) = Cardinality(A) /\ Cardinality(Holders(r))' = Cardinality(B)
      BY <3>1, <3>2
    <3>10. Load(r) = units[r] + Cardinality(A) /\ Load(r)' = units'[r] + Cardinality(B)
      BY <3>9 DEF Load
    <3>11. QED
      BY <2>5, <3>6, <3>7, <3>8, <3>10
  <2>8. QED
    BY <2>6, <2>7
<1>6. QED
  BY <1>4, <1>5 DEF UnitGiven

-----------------------------------------------------------------------------
\* The steps of the producers and of the consumer.

\* A thread of the test that is made and has not ended: main() waits for it.
LEMMA WorkerIsAwaited ==
    ASSUME BufferInv, NEW t \in Threads \ {Main}, pc[t] \notin {"none", "done"}
    PROVE  /\ pc[Main] \in During /\ usable = Sems
           /\ Load("spaceAvailable") = n - Len(fifo)
           /\ Load("itemAvailable") = Len(fifo)
           /\ Load("mutexHead") = 1
           /\ Load("mutexTail") = 1
<1>1. pc[Main] \in During
  BY DEF BufferInv, MadeSoFar, Roles
<1>2. pc[Main] \notin Before
  BY <1>1 DEF During, Before
<1>3. QED
  BY <1>1, <1>2 DEF BufferInv, UnitsAreCounted, OpenSems

\* What a step of such a thread leaves as it was.
LEMMA WorkerFrame ==
    ASSUME BufferInv, NEW t \in Threads \ {Main}, pc[t] \notin {"none", "done"},
           NEW to \in WorkerPoints \ {"none", "done"}, pc' = [pc EXCEPT ![t] = to],
           usable' = usable, units'["waitForAll"] = units["waitForAll"],
           verdict'[Main] = verdict[Main], local'[Main] = local[Main],
           UNCHANGED <<threadNum, n>>
    PROVE  EndsAreCounted' /\ MadeSoFar' /\ OpenSems'
<1>1. pc[Main] \in During /\ Main \in Threads
  BY WorkerIsAwaited DEF Threads
<1>2. /\ pc'[Main] = pc[Main] /\ pc'[t] = to
      /\ \A u \in Threads : u # t => pc'[u] = pc[u]
  BY <1>1 DEF BufferInv, SemTypes
<1>3. Ended' = Ended
  BY <1>2 DEF Ended
<1>4. Given' = Given
  BY <1>2 DEF Given
<1>5. EndsAreCounted'
  BY <1>2, <1>3, <1>4 DEF EndsAreCounted, BufferInv
<1>6. OpenSems'
  BY <1>2 DEF OpenSems, BufferInv
<1>7. pc[Main] \notin Before /\ pc[Main] \notin Ending
  BY <1>1 DEF During, Before, Ending, CntPoints
<1>8. \A u \in Threads : pc[u] = "none" => pc'[u] = "none"
  BY <1>2
<1>9. Consumer \in Threads /\ Producers \subseteq Threads
  BY DEF Threads
<1>10. MadeSoFar'
  BY <1>2, <1>7, <1>8, <1>9 DEF MadeSoFar, BufferInv
<1>11. QED
  BY <1>5, <1>6, <1>10

\* A step that does not touch the buffer.
LEMMA RingFrame ==
    ASSUME BufferInv, UNCHANGED <<bufferVars, n>>,
           pc'[Main] \in Before => pc[Main] \in Before,
           pc'[Main] \in {"cntUnlock", "cntSignal", "print"} => local'[Main] = Len(fifo),
           \A u \in Threads :
               pc'[u] \in {"putAdvance", "getAdvance"}
               => pc[u] = pc'[u] /\ local'[u] = local[u]
    PROVE  RingInv'
<1>1. /\ head' = head /\ tail' = tail /\ buffer' = buffer /\ fifo' = fifo /\ n' = n
      /\ cap' = cap
  BY DEF bufferVars, cap
<1>2. RingInv /\ BufferIsFifo
  BY DEF BufferInv, RingInv
<1>3. BufferIsFifo'
  BY <1>1, <1>2 DEF BufferIsFifo
<1>4. QED
  BY <1>1, <1>2, <1>3 DEF RingInv

\* The units that are free or taken are those that the items leave.
LoadsFollow ==
    /\ Len(fifo) \in Nat /\ Len(fifo)' \in Nat
    /\ Load("spaceAvailable")' = Load("spaceAvailable") + (Len(fifo) - Len(fifo)')
    /\ Load("itemAvailable")' = Load("itemAvailable") + (Len(fifo)' - Len(fifo))
    /\ Load("mutexHead")' = Load("mutexHead")
    /\ Load("mutexTail")' = Load("mutexTail")

LEMMA LoadsStay ==
    ASSUME BufferInv, fifo' = fifo, \A s \in Sems \ {"waitForAll"} : Load(s)' = Load(s)
    PROVE  LoadsFollow
<1>1. fifo' = fifo /\ Len(fifo) \in Nat
  BY DEF BufferInv, RingInv
<1>2. PICK k \in Nat : Len(fifo) = k /\ Len(fifo)' = k
  BY <1>1
<1>3. Load("spaceAvailable") \in Int /\ Load("itemAvailable") \in Int
  BY LoadIsNat DEF BufferInv, Sems
<1>4. /\ Load("spaceAvailable")' = Load("spaceAvailable")
      /\ Load("itemAvailable")' = Load("itemAvailable")
      /\ Load("mutexHead")' = Load("mutexHead")
      /\ Load("mutexTail")' = Load("mutexTail")
  BY DEF Sems
<1>5. QED
  BY <1>2, <1>3, <1>4 DEF LoadsFollow

LEMMA WorkerStep ==
    ASSUME BufferInv, NEW t \in Threads \ {Main}, pc[t] \notin {"none", "done"},
           NEW to \in WorkerPoints \ {"none", "done"}, pc' = [pc EXCEPT ![t] = to],
           SemTypes', QueuesAreWaiters',
           usable' = usable, units'["waitForAll"] = units["waitForAll"],
           verdict'[Main] = verdict[Main],
           local' = [local EXCEPT ![t] = local'[t]], local'[t] \in Values,
           back' = [back EXCEPT ![t] = back'[t]],
           back'[t] \in Returns \cup {"print", "done"},
           to \in InBuffer \cup {"escape"} => back'[t] \in Returns,
           UNCHANGED <<threadNum, n>>,
           LoadsFollow, RingInv'
    PROVE  BufferInv'
<1>1. Main \in Threads /\ t # Main
  BY DEF Threads
<1>2. local'[Main] = local[Main]
  BY <1>1 DEF BufferInv, TestTypes
<1>3. EndsAreCounted' /\ MadeSoFar' /\ OpenSems'
  BY <1>1, <1>2, WorkerFrame
<1>4. TestTypes'
  BY DEF BufferInv, TestTypes
<1>5. Roles'
  BY <1>1 DEF BufferInv, Roles, TestTypes, SemTypes
<1>6. UnitsAreCounted'
  <2>1. /\ Load("spaceAvailable") = n - Len(fifo)
        /\ Load("itemAvailable") = Len(fifo)
        /\ Load("mutexHead") = 1
        /\ Load("mutexTail") = 1
    BY WorkerIsAwaited
  <2>2. n \in Int /\ n' = n
    BY DEF BufferInv, TestTypes
  <2>3. QED
    BY <2>1, <2>2 DEF UnitsAreCounted, LoadsFollow
<1>7. QED
  BY <1>3, <1>4, <1>5, <1>6 DEF BufferInv

\* A step of such a thread that does not touch the buffer.
LEMMA WorkerElsewhere ==
    ASSUME BufferInv, NEW t \in Threads \ {Main}, pc[t] \notin {"none", "done"},
           NEW to \in WorkerPoints \ {"none", "done", "putAdvance", "getAdvance"},
           pc' = [pc EXCEPT ![t] = to],
           SemTypes', QueuesAreWaiters',
           usable' = usable, units'["waitForAll"] = units["waitForAll"],
           verdict'[Main] = verdict[Main],
           local' = [local EXCEPT ![t] = local'[t]], local'[t] \in Values,
           back' = [back EXCEPT ![t] = back'[t]],
           back'[t] \in Returns \cup {"print", "done"},
           to \in InBuffer \cup {"escape"} => back'[t] \in Returns,
           UNCHANGED <<bufferVars, threadNum, n>>,
           \A s \in Sems \ {"waitForAll"} : Load(s)' = Load(s)
    PROVE  BufferInv'
<1>1. Main \in Threads /\ t # Main
  BY DEF Threads
<1>2. /\ pc'[t] = to /\ \A u \in Threads : u # t => pc'[u] = pc[u]
      /\ \A u \in Threads : u # t => local'[u] = local[u]
  BY DEF BufferInv, SemTypes, TestTypes
<1>3. pc[Main] \in During
  BY WorkerIsAwaited
<1>4. pc'[Main] = pc[Main] /\ pc[Main] \notin {"cntUnlock", "cntSignal", "print"}
  BY <1>1, <1>2, <1>3 DEF During
<1>5. RingInv'
  BY <1>2, <1>4, RingFrame
<1>6. LoadsFollow
  BY LoadsStay DEF bufferVars
<1>7. QED
  BY <1>5, <1>6, WorkerStep

\* sem_wait(s) in put, get or getCnt.
LEMMA WorkerWait ==
    ASSUME BufferInv, NEW t \in Threads \ {Main},
           NEW from \in InBuffer, NEW s \in Sems \ {"waitForAll"}, NEW to \in InBuffer,
           Wait(t, from, s, to),
           Awaited(to) = {s}, Kept(to) = TokensOf(from), s \notin Kept(to)
    PROVE  BufferInv'
<1>1. /\ pc[t] = from /\ verdict[t] = "none" /\ pc' = [pc EXCEPT ![t] = to]
      /\ UNCHANGED <<back, local, bufferVars, testVars>>
      /\ S!Acquire(s) \/ S!Enqueue(s, t, "waiting")
  BY DEF Wait, SemCall, Step
<1>2. /\ pc[t] \notin {"none", "done"} /\ to \in Points
      /\ to \in WorkerPoints \ {"none", "done", "putAdvance", "getAdvance"}
  BY <1>1 DEF InBuffer, CntPoints, WorkerPoints, Points, Awaited
<1>3. SemTypes /\ QueuesAreWaiters
  BY DEF BufferInv
<1>4. /\ SemTypes' /\ QueuesAreWaiters'
      /\ usable' = usable
      /\ \A r \in Sems : r # s => units'[r] = units[r]
      /\ \A u \in Threads : u # t => verdict'[u] = verdict[u]
      /\ \/ verdict'[t] = "waiting" /\ units'[s] = units[s]
         \/ verdict'[t] = "none" /\ units'[s] = units[s] - 1
  BY <1>1, <1>2, <1>3, WaitKeeps
<1>5. ASSUME NEW r \in Sems PROVE Load(r)' = Load(r)
  <2>1. r \in TokensOf(pc[t]) <=> r \in Kept(to)
    BY <1>1
  <2>2. QED
    BY <1>1, <1>2, <1>3, <1>4, <2>1, WaitLoads
<1>6. /\ local' = [local EXCEPT ![t] = local'[t]] /\ local'[t] \in Values
      /\ back' = [back EXCEPT ![t] = back'[t]]
      /\ back'[t] \in Returns
  BY <1>1 DEF BufferInv, TestTypes, Roles
<1>7. /\ verdict'[Main] = verdict[Main] /\ units'["waitForAll"] = units["waitForAll"]
      /\ UNCHANGED <<bufferVars, threadNum, n>>
  BY <1>1, <1>4 DEF Threads, testVars, Sems
<1>8. QED
  BY <1>1, <1>2, <1>4, <1>5, <1>6, <1>7, WorkerElsewhere

\* sem_signal(s) there.
LEMMA WorkerSignal ==
    ASSUME BufferInv, NEW t \in Threads \ {Main},
           NEW from \in InBuffer, NEW s \in Sems \ {"waitForAll"},
           NEW to \in (InBuffer \cup Returns) \ {"putAdvance", "getAdvance"},
           Signal(t, from, s, to),
           TokensOf(from) = TokensOf(to) \cup {s}, s \notin TokensOf(to)
    PROVE  BufferInv'
<1>1. /\ pc[t] = from /\ verdict[t] = "none" /\ pc' = [pc EXCEPT ![t] = to]
      /\ UNCHANGED <<back, local, bufferVars, testVars>>
      /\ S!Release(s)
  BY DEF Signal, SemCall, Step
<1>2. /\ pc[t] \notin {"none", "done"} /\ to \in Points
      /\ to \in WorkerPoints \ {"none", "done", "putAdvance", "getAdvance"}
  BY <1>1 DEF InBuffer, CntPoints, WorkerPoints, Points, Returns
<1>3. SemTypes /\ QueuesAreWaiters
  BY DEF BufferInv
<1>4. /\ SemTypes' /\ QueuesAreWaiters'
      /\ usable' = usable
      /\ \A r \in Sems : r # s => units'[r] = units[r]
      /\ \A u \in Threads : s \notin Awaited(pc[u]) => verdict'[u] = verdict[u]
      /\ UnitGiven(t, s)
  BY <1>1, <1>2, <1>3, SignalKeeps
<1>5. ASSUME NEW r \in Sems PROVE Load(r)' = Load(r)
  <2>1. /\ r = s => r \in TokensOf(pc[t]) /\ r \notin TokensOf(to)
        /\ r # s => (r \in TokensOf(pc[t]) <=> r \in TokensOf(to))
    BY <1>1
  <2>2. QED
    BY <1>1, <1>2, <1>3, <1>4, <2>1, SignalLoads
<1>6. /\ local' = [local EXCEPT ![t] = local'[t]] /\ local'[t] \in Values
      /\ back' = [back EXCEPT ![t] = back'[t]]
      /\ back'[t] \in Returns
  BY <1>1 DEF BufferInv, TestTypes, Roles
<1>7. verdict'[Main] = verdict[Main]
  <2>1. pc[Main] \in During /\ Main \in Threads
    BY <1>2, WorkerIsAwaited DEF Threads
  <2>2. s \notin Awaited(pc[Main])
    BY <2>1 DEF During, Awaited
  <2>3. QED
    BY <1>4, <2>1, <2>2
<1>8. /\ units'["waitForAll"] = units["waitForAll"]
      /\ UNCHANGED <<bufferVars, threadNum, n>>
  BY <1>1, <1>4 DEF testVars, Sems
<1>9. QED
  BY <1>1, <1>2, <1>4, <1>5, <1>6, <1>7, <1>8, WorkerElsewhere

\* A statement that calls no semaphore and does not touch the buffer.
LEMMA WorkerQuiet ==
    ASSUME BufferInv, NEW t \in Threads \ {Main}, NEW from \in WorkerPoints \ {"none", "done"},
           NEW to \in WorkerPoints \ {"none", "done", "putAdvance", "getAdvance"},
           Step(t, from, to), TokensOf(from) = TokensOf(to),
           UNCHANGED <<semVars, bufferVars, threadNum, n>>,
           local' = [local EXCEPT ![t] = local'[t]], local'[t] \in Values,
           back' = [back EXCEPT ![t] = back'[t]],
           back'[t] \in Returns \cup {"print", "done"},
           to \in InBuffer \cup {"escape"} => back'[t] \in Returns
    PROVE  BufferInv'
<1>1. pc[t] = from /\ verdict[t] = "none" /\ pc' = [pc EXCEPT ![t] = to]
  BY DEF Step
<1>2. /\ pc[t] \notin {"none", "done"} /\ to \in Points
      /\ SemTypes /\ QueuesAreWaiters
  BY <1>1 DEF Points, BufferInv
<1>3. /\ pc'[t] = to /\ \A u \in Threads : u # t => pc'[u] = pc[u]
      /\ pc' \in [Threads -> Points]
      /\ UNCHANGED <<usable, units, verdict>>
  BY <1>1, <1>2 DEF SemTypes, semVars
<1>4. SemTypes' /\ QueuesAreWaiters'
  BY <1>1, <1>2, <1>3, SemsStay
<1>5. \A u \in Threads : Has(u)' = Has(u)
  <2>1. SUFFICES ASSUME NEW u \in Threads PROVE Has(u)' = Has(u)
    OBVIOUS
  <2>2. CASE u # t
    BY <1>3, <2>2 DEF Has
  <2>3. CASE u = t
    BY <1>1, <1>3, <2>3 DEF Has, TokensOf
  <2>4. QED
    BY <2>2, <2>3
<1>6. \A s \in Sems : Load(s)' = Load(s)
  BY <1>3, <1>5, SameLoads
<1>7. QED
  BY <1>1, <1>2, <1>3, <1>4, <1>6, WorkerElsewhere

-----------------------------------------------------------------------------
\* The arithmetic of a ring of c slots: x is the slot k slots after h.
IsSlot(c, h, k, x) == x = (h + k) % c

LEMMA RingSlot ==
    ASSUME NEW c \in Nat \ {0}, NEW h \in 0..c - 1, NEW k \in 0..c,
           NEW x, IsSlot(c, h, k, x)
    PROVE  x = IF h + k < c THEN h + k ELSE h + k - c
<1>1. PICK y \in Int : y = h + k
  OBVIOUS
<1>2. y \in 0..c - 1 \/ y \in c..2 * c - 1
  BY <1>1
<1>3. y \in 0..c - 1 => y % c = y
  BY Remainder
<1>4. y \in c..2 * c - 1 => y % c = y - c
  BY Remainder
<1>5. x = y % c
  BY <1>1 DEF IsSlot
<1>6. QED
  BY <1>1, <1>2, <1>3, <1>4, <1>5

\* A slot is one, at the distance it has from the first.
LEMMA RingFacts ==
    ASSUME NEW c \in Nat \ {0}, NEW h \in 0..c - 1, NEW k \in 0..c - 1,
           NEW x, IsSlot(c, h, k, x)
    PROVE  /\ x \in 0..c - 1
           /\ k = IF x >= h THEN x - h ELSE c - h + x
           /\ k = 0 => x = h
<1>1. k \in 0..c
  OBVIOUS
<1>2. x = IF h + k < c THEN h + k ELSE h + k - c
  BY <1>1, RingSlot
<1>3. QED
  BY <1>2

\* Different distances are different slots.
LEMMA RingOther ==
    ASSUME NEW c \in Nat \ {0}, NEW h \in 0..c - 1, NEW k \in 0..c - 1,
           NEW x, IsSlot(c, h, k, x), NEW j \in 0..c - 1, j # k,
           NEW y, IsSlot(c, h, j, y)
    PROVE  y # x
<1>1. k = IF x >= h THEN x - h ELSE c - h + x
  BY RingFacts
<1>2. j = IF y >= h THEN y - h ELSE c - h + y
  BY RingFacts
<1>3. QED
  BY <1>1, <1>2

\* The slot after one.
LEMMA RingNext ==
    ASSUME NEW c \in Nat \ {0}, NEW h \in 0..c - 1, NEW k \in 0..c - 1,
           NEW m \in 0..c, m = k + 1,
           NEW x, IsSlot(c, h, k, x), NEW y, IsSlot(c, x, 1, y)
    PROVE  IsSlot(c, h, m, y)
<1>1. k \in 0..c /\ 1 \in 0..c
  OBVIOUS
<1>2. x = IF h + k < c THEN h + k ELSE h + k - c
  BY <1>1, RingSlot
<1>3. PICK z : IsSlot(c, h, m, z)
  BY DEF IsSlot
<1>4. z = IF h + m < c THEN h + m ELSE h + m - c
  BY <1>3, RingSlot
<1>5. x \in 0..c - 1
  BY <1>2
<1>6. y = IF x + 1 < c THEN x + 1 ELSE x + 1 - c
  BY <1>1, <1>5, RingSlot
<1>7. y = z
  BY <1>2, <1>4, <1>5, <1>6
<1>8. QED
  BY <1>3, <1>7

\* A ring that begins one slot later.
LEMMA RingShift ==
    ASSUME NEW c \in Nat \ {0}, NEW h \in 0..c - 1, NEW k \in 0..c - 1,
           NEW m \in 0..c, m = k + 1,
           NEW x, IsSlot(c, h, 1, x), NEW y, IsSlot(c, x, k, y)
    PROVE  x \in 0..c - 1 /\ IsSlot(c, h, m, y)
<1>1. k \in 0..c /\ 1 \in 0..c
  OBVIOUS
<1>2. x = IF h + 1 < c THEN h + 1 ELSE h + 1 - c
  BY <1>1, RingSlot
<1>3. PICK z : IsSlot(c, h, m, z)
  BY DEF IsSlot
<1>4. z = IF h + m < c THEN h + m ELSE h + m - c
  BY <1>3, RingSlot
<1>5. x \in 0..c - 1
  BY <1>2
<1>6. y = IF x + k < c THEN x + k ELSE x + k - c
  BY <1>1, <1>5, RingSlot
<1>7. y = z
  BY <1>2, <1>4, <1>5, <1>6
<1>8. QED
  BY <1>3, <1>5, <1>7

-----------------------------------------------------------------------------
\* The statements that touch the buffer.

\* What the types say of the ring.
LEMMA RingTypes ==
    ASSUME BufferInv
    PROVE  /\ cap \in Nat \ {0} /\ cap = n + 1 /\ n \in 0..MaxSize /\ MaxSize \in Nat
           /\ head \in 0..cap - 1 /\ tail \in 0..cap - 1
           /\ Len(fifo) \in 0..cap - 1 /\ fifo \in Seq(Values)
           /\ IsSlot(cap, head, Len(fifo), tail)
           /\ \A k \in 0..Len(fifo) - 1 : \A x :
                  IsSlot(cap, head, k, x) => buffer[x] = fifo[k + 1]
           /\ head \in 0..MaxSize /\ tail \in 0..MaxSize
           /\ buffer \in [0..MaxSize -> Values]
<1>1. /\ n \in 0..MaxSize /\ MaxSize \in Nat
      /\ head \in 0..n /\ tail \in 0..n /\ fifo \in Seq(Values)
      /\ Len(fifo) <= n /\ tail = (head + Len(fifo)) % cap
      /\ \A i \in DOMAIN fifo : buffer[(head + i - 1) % cap] = fifo[i]
      /\ buffer \in [0..MaxSize -> Values]
  BY BufferAssumption DEF BufferInv, TestTypes, RingInv, BufferIsFifo
<1>2. cap = n + 1 /\ Len(fifo) \in Nat /\ DOMAIN fifo = 1..Len(fifo)
  BY <1>1 DEF cap
<1>3. ASSUME NEW k \in 0..Len(fifo) - 1, NEW x, IsSlot(cap, head, k, x)
      PROVE  buffer[x] = fifo[k + 1]
  <2>1. k + 1 \in 1..Len(fifo) /\ head + (k + 1) - 1 = head + k
    BY <1>1, <1>2
  <2>2. buffer[(head + (k + 1) - 1) % cap] = fifo[k + 1]
    BY <1>1, <1>2, <2>1
  <2>3. QED
    BY <1>3, <2>1, <2>2 DEF IsSlot
<1>4. /\ cap \in Nat \ {0} /\ cap - 1 = n /\ n \in Nat
      /\ head \in 0..MaxSize /\ tail \in 0..MaxSize
  BY <1>1, <1>2
<1>5. Len(fifo) \in 0..n
  BY <1>1, <1>2, <1>4
<1>6. head \in 0..cap - 1 /\ tail \in 0..cap - 1 /\ Len(fifo) \in 0..cap - 1
  BY <1>1, <1>4, <1>5
<1>7. IsSlot(cap, head, Len(fifo), tail)
  BY <1>1 DEF IsSlot
<1>8. QED
  BY ONLY <1>1, <1>2, <1>3, <1>4, <1>6, <1>7

\* Who writes has mutexTail, who reads mutexHead: there is only one of each.
LEMMA OneWriter ==
    ASSUME BufferInv, NEW t \in Threads, NEW u \in Threads,
           pc[t] \in {"putWrite", "putAdvance"}, verdict[t] # "waiting",
           pc[u] = "putAdvance"
    PROVE  t = u
<1>1. t # Main /\ u # Main
  BY DEF BufferInv, Roles, Before, During, Ending, CntPoints
<1>2. Load("mutexTail") = 1 /\ "mutexTail" \in Sems
  BY <1>1, WorkerIsAwaited DEF Sems
<1>3. "mutexTail" \in Has(t) /\ "mutexTail" \in Has(u)
  BY DEF Has, Kept, Awaited
<1>4. QED
  BY <1>2, <1>3, OneHolder DEF BufferInv

LEMMA OneReader ==
    ASSUME BufferInv, NEW t \in Threads, NEW u \in Threads,
           pc[t] \in {"getRead", "getAdvance"}, verdict[t] # "waiting",
           pc[u] = "getAdvance"
    PROVE  t = u
<1>1. t # Main /\ u # Main
  BY DEF BufferInv, Roles, Before, During, Ending, CntPoints
<1>2. Load("mutexHead") = 1 /\ "mutexHead" \in Sems
  BY <1>1, WorkerIsAwaited DEF Sems
<1>3. "mutexHead" \in Has(t) /\ "mutexHead" \in Has(u)
  BY DEF Has, Kept, Awaited
<1>4. QED
  BY <1>2, <1>3, OneHolder DEF BufferInv

\* Who has a unit of space has a slot, who has one of the items an item.
LEMMA SpaceIsThere ==
    ASSUME BufferInv, NEW t \in Threads, pc[t] \in {"putWrite", "putAdvance"}
    PROVE  Len(fifo) < n
<1>1. t # Main
  BY DEF BufferInv, Roles, Before, During, Ending, CntPoints
<1>2. Load("spaceAvailable") = n - Len(fifo) /\ "spaceAvailable" \in Sems
  BY <1>1, WorkerIsAwaited DEF Sems
<1>3. "spaceAvailable" \in Has(t)
  BY DEF Has, Kept
<1>4. Load("spaceAvailable") >= 1
  BY <1>2, <1>3, HolderCounts DEF BufferInv
<1>5. n \in Nat /\ Len(fifo) \in Nat
  BY RingTypes
<1>6. QED
  BY <1>2, <1>4, <1>5

LEMMA ItemIsThere ==
    ASSUME BufferInv, NEW t \in Threads, pc[t] \in {"getRead", "getAdvance"}
    PROVE  Len(fifo) >= 1 /\ fifo # <<>> /\ Head(fifo) = buffer[head]
<1>1. t # Main
  BY DEF BufferInv, Roles, Before, During, Ending, CntPoints
<1>2. Load("itemAvailable") = Len(fifo) /\ "itemAvailable" \in Sems
  BY <1>1, WorkerIsAwaited DEF Sems
<1>3. "itemAvailable" \in Has(t)
  BY DEF Has, Kept
<1>4. Len(fifo) >= 1
  BY <1>2, <1>3, HolderCounts DEF BufferInv
<1>5. /\ fifo \in Seq(Values) /\ cap \in Nat \ {0} /\ head \in 0..cap - 1
      /\ \A k \in 0..Len(fifo) - 1 : \A x :
             IsSlot(cap, head, k, x) => buffer[x] = fifo[k + 1]
  BY RingTypes
<1>6. fifo # <<>> /\ Head(fifo) = fifo[0 + 1] /\ 0 \in 0..Len(fifo) - 1
  BY <1>4, <1>5
<1>7. PICK x : IsSlot(cap, head, 0, x)
  BY DEF IsSlot
<1>8. x = head
  <2>1. 0 \in 0..cap - 1
    BY <1>5
  <2>2. QED
    BY <1>5, <1>7, <2>1, RingFacts
<1>9. QED
  BY <1>4, <1>5, <1>6, <1>7, <1>8

\* What is the same for the four statements below: they take one step of a
\* thread that main() waits for, and main() stays where it is.
LEMMA AtBuffer ==
    ASSUME BufferInv, NEW t \in Threads \ {Main}, NEW from \in InBuffer, NEW to \in InBuffer,
           Step(t, from, to), UNCHANGED <<semVars, back, testVars>>
    PROVE  /\ pc[t] = from /\ pc'[t] = to /\ verdict[t] = "none"
           /\ \A u \in Threads : u # t => pc'[u] = pc[u]
           /\ pc' = [pc EXCEPT ![t] = to] /\ pc' \in [Threads -> Points]
           /\ pc[t] \notin {"none", "done"} /\ to \in WorkerPoints \ {"none", "done"}
           /\ SemTypes' /\ QueuesAreWaiters'
           /\ Main \in Threads /\ pc'[Main] = pc[Main] /\ pc[Main] \in During
           /\ pc'[Main] \notin Before /\ pc'[Main] \notin {"cntUnlock", "cntSignal", "print"}
           /\ back' = [back EXCEPT ![t] = back'[t]] /\ back'[t] \in Returns
           /\ UNCHANGED <<usable, units, verdict, threadNum, n>> /\ cap' = cap
           /\ verdict'[Main] = verdict[Main] /\ units'["waitForAll"] = units["waitForAll"]
<1>1. /\ pc[t] = from /\ verdict[t] = "none" /\ pc' = [pc EXCEPT ![t] = to]
      /\ SemTypes /\ QueuesAreWaiters
  BY DEF Step, BufferInv
<1>2. /\ from \notin {"none", "done"} /\ to \in WorkerPoints \ {"none", "done"}
      /\ to \in Points
  BY DEF InBuffer, CntPoints, WorkerPoints, Points
<1>3. /\ pc'[t] = to /\ \A u \in Threads : u # t => pc'[u] = pc[u]
      /\ pc' \in [Threads -> Points]
  BY <1>1, <1>2 DEF SemTypes
<1>4. SemTypes' /\ QueuesAreWaiters'
  BY <1>1, <1>3, SemsStay
<1>5. pc[Main] \in During /\ Main \in Threads
  BY <1>1, <1>2, WorkerIsAwaited DEF Threads
<1>6. pc'[Main] = pc[Main] /\ pc'[Main] \notin Before
      /\ pc'[Main] \notin {"cntUnlock", "cntSignal", "print"}
  BY <1>3, <1>5 DEF During, Before
<1>7. back' = [back EXCEPT ![t] = back'[t]] /\ back'[t] \in Returns
  BY <1>1 DEF BufferInv, TestTypes, Roles
<1>8. UNCHANGED <<usable, units, verdict, threadNum, n>> /\ cap' = cap
  BY DEF semVars, testVars, cap
<1>9. QED
  BY <1>1, <1>2, <1>3, <1>4, <1>5, <1>6, <1>7, <1>8

LEMMA PutWriteKeeps ==
    ASSUME BufferInv, NEW t \in Threads \ {Main}, PutWrite(t)
    PROVE  BufferInv'
<1>1. /\ Step(t, "putWrite", "putAdvance")
      /\ buffer' = [buffer EXCEPT ![tail] = local[t]]
      /\ UNCHANGED <<semVars, back, local, head, tail, fifo, testVars>>
  BY DEF PutWrite
<1>2. "putWrite" \in InBuffer /\ "putAdvance" \in InBuffer
  BY DEF InBuffer
<1>3. /\ pc[t] = "putWrite" /\ pc'[t] = "putAdvance" /\ verdict[t] = "none"
      /\ \A u \in Threads : u # t => pc'[u] = pc[u]
      /\ pc' = [pc EXCEPT ![t] = "putAdvance"]
      /\ pc[t] \notin {"none", "done"} /\ "putAdvance" \in WorkerPoints \ {"none", "done"}
      /\ SemTypes' /\ QueuesAreWaiters'
      /\ pc'[Main] \notin Before /\ pc'[Main] \notin {"cntUnlock", "cntSignal", "print"}
      /\ back' = [back EXCEPT ![t] = back'[t]] /\ back'[t] \in Returns
      /\ UNCHANGED <<usable, units, verdict, threadNum, n>> /\ cap' = cap
      /\ verdict'[Main] = verdict[Main] /\ units'["waitForAll"] = units["waitForAll"]
  BY <1>1, <1>2, AtBuffer
<1>4. \A u \in Threads : Has(u)' = Has(u)
  <2>1. SUFFICES ASSUME NEW u \in Threads PROVE Has(u)' = Has(u)
    OBVIOUS
  <2>2. CASE u # t
    BY <1>3, <2>2 DEF Has
  <2>3. CASE u = t
    BY <1>3, <2>3 DEF Has, Kept, Awaited
  <2>4. QED
    BY <2>2, <2>3
<1>5. LoadsFollow
  BY <1>1, <1>3, <1>4, SameLoads, LoadsStay
<1>6. local[t] \in Values /\ local' = local /\ local' = [local EXCEPT ![t] = local'[t]]
  BY <1>1 DEF BufferInv, TestTypes
<1>7. RingInv'
  <2>1. PICK c \in Nat \ {0} : c = cap
    BY RingTypes
  <2>2. /\ n \in 0..MaxSize /\ c = n + 1 /\ Len(fifo) < n
        /\ tail \in 0..MaxSize /\ fifo \in Seq(Values)
        /\ buffer \in [0..MaxSize -> Values]
    BY <1>3, <2>1, RingTypes, SpaceIsThere
  <2>3. PICK h \in 0..c - 1 : h = head
    BY <2>1, RingTypes
  <2>4. PICK k \in 0..c - 1 : k = Len(fifo)
    BY <2>1, RingTypes
  <2>5. /\ IsSlot(c, h, k, tail)
        /\ \A j \in 0..k - 1 : \A x : IsSlot(c, h, j, x) => buffer[x] = fifo[j + 1]
    BY <2>1, <2>3, <2>4, RingTypes
  <2>6. /\ buffer'[tail] = local[t] /\ buffer' \in [0..MaxSize -> Values]
        /\ \A x \in 0..MaxSize : x # tail => buffer'[x] = buffer[x]
    BY <1>1, <1>6, <2>2
  <2>7. ASSUME NEW j \in 0..k - 1, NEW x, IsSlot(c, h, j, x)
        PROVE  buffer'[x] = fifo[j + 1]
    <3>1. j \in 0..c - 1 /\ j # k
      OBVIOUS
    <3>2. x # tail
      BY <2>5, <2>7, <3>1, RingOther
    <3>3. x \in 0..c - 1
      BY <2>7, <3>1, RingFacts
    <3>4. x \in 0..MaxSize
      BY <2>2, <3>3, BufferAssumption
    <3>5. QED
      BY <2>5, <2>6, <2>7, <3>2, <3>4
  <2>8. ASSUME NEW i \in 1..k PROVE buffer'[(h + i - 1) % c] = fifo[i]
    <3>1. PICK j \in 0..k - 1 : j = i - 1
      OBVIOUS
    <3>2. IsSlot(c, h, j, (h + i - 1) % c) /\ j + 1 = i
      BY <3>1 DEF IsSlot
    <3>3. QED
      BY <2>7, <3>2
  <2>9. \A u \in Threads : pc'[u] = "putAdvance" => buffer'[tail] = local[u]
    <3>1. ASSUME NEW u \in Threads, pc'[u] = "putAdvance" PROVE u = t
      BY <1>3, <3>1, OneWriter
    <3>2. QED
      BY <2>6, <3>1
  <2>10. \A u \in Threads : pc'[u] = "getAdvance" => pc[u] = "getAdvance"
    BY <1>3
  <2>11. RingInv
    BY DEF BufferInv
  <2>12. BufferIsFifo'
    <3>1. Len(fifo) <= n /\ tail = (head + Len(fifo)) % cap /\ DOMAIN fifo = 1..k
          /\ \A u \in Threads : pc[u] = "getAdvance" => fifo # <<>> /\ local[u] = Head(fifo)
      BY <2>2, <2>4, <2>11 DEF RingInv, BufferIsFifo
    <3>2. \A i \in DOMAIN fifo : buffer'[(head + i - 1) % cap] = fifo[i]
      BY <2>1, <2>3, <2>8, <3>1
    <3>3. QED
      BY <1>1, <1>3, <2>10, <3>1, <3>2 DEF BufferIsFifo
  <2>13. QED
    BY <1>1, <1>3, <2>6, <2>9, <2>11, <2>12 DEF RingInv
<1>8. QED
  BY <1>3, <1>5, <1>6, <1>7, WorkerStep

\* A unit that one thread gets, or gives away, for an item put or got.
LEMMA MovedLoads ==
    ASSUME BufferInv, NEW t \in Threads, UNCHANGED units,
           \A u \in Threads : u # t => Has(u)' = Has(u),
           NEW a \in Sems, NEW b \in Sems, a # b,
           a \in Has(t), b \notin Has(t),
           ~(a \in Has(t)'), b \in Has(t)',
           \A r \in Sems \ {a, b} : r \in Has(t)' <=> r \in Has(t)
    PROVE  /\ Load(a)' = Load(a) - 1
           /\ Load(b)' = Load(b) + 1
           /\ \A r \in Sems \ {a, b} : Load(r)' = Load(r)
<1>1. \A r \in Sems : units[r] \in Nat /\ units'[r] = units[r]
  BY DEF BufferInv, SemTypes
<1>2. Load(a)' = Load(a) - 1
  <2>1. PICK x \in Nat, y \in Nat :
            x = Cardinality(Holders(a)) /\ y = Cardinality(Holders(a))' /\ y = x - 1
    BY HolderMoves
  <2>2. Load(a) = units[a] + x /\ Load(a)' = units'[a] + y
    BY <2>1 DEF Load
  <2>3. QED
    BY <1>1, <2>1, <2>2
<1>3. Load(b)' = Load(b) + 1
  <2>1. PICK x \in Nat, y \in Nat :
            x = Cardinality(Holders(b)) /\ y = Cardinality(Holders(b))' /\ y = x + 1
    BY HolderMoves
  <2>2. Load(b) = units[b] + x /\ Load(b)' = units'[b] + y
    BY <2>1 DEF Load
  <2>3. QED
    BY <1>1, <2>1, <2>2
<1>4. ASSUME NEW r \in Sems \ {a, b} PROVE Load(r)' = Load(r)
  <2>1. \A u \in Threads : r \in Has(u)' <=> r \in Has(u)
    OBVIOUS
  <2>2. Holders(r)' = Holders(r)
    BY <2>1 DEF Holders
  <2>3. QED
    BY <1>1, <2>2 DEF Load
<1>5. QED
  BY <1>2, <1>3, <1>4

LEMMA PutAdvanceKeeps ==
    ASSUME BufferInv, NEW t \in Threads \ {Main}, PutAdvance(t)
    PROVE  BufferInv'
<1>1. /\ Step(t, "putAdvance", "putUnlock")
      /\ tail' = NextSlot(tail)
      /\ fifo' = Append(fifo, local[t])
      /\ UNCHANGED <<semVars, back, local, buffer, head, testVars>>
  BY DEF PutAdvance
<1>2. "putAdvance" \in InBuffer /\ "putUnlock" \in InBuffer
  BY DEF InBuffer
<1>3. /\ pc[t] = "putAdvance" /\ pc'[t] = "putUnlock" /\ verdict[t] = "none"
      /\ \A u \in Threads : u # t => pc'[u] = pc[u]
      /\ pc' = [pc EXCEPT ![t] = "putUnlock"]
      /\ pc[t] \notin {"none", "done"} /\ "putUnlock" \in WorkerPoints \ {"none", "done"}
      /\ SemTypes' /\ QueuesAreWaiters'
      /\ pc'[Main] \notin Before /\ pc'[Main] \notin {"cntUnlock", "cntSignal", "print"}
      /\ back' = [back EXCEPT ![t] = back'[t]] /\ back'[t] \in Returns
      /\ UNCHANGED <<usable, units, verdict, threadNum, n>> /\ cap' = cap
      /\ verdict'[Main] = verdict[Main] /\ units'["waitForAll"] = units["waitForAll"]
  BY <1>1, <1>2, AtBuffer
<1>4. local[t] \in Values /\ local' = local /\ local' = [local EXCEPT ![t] = local'[t]]
  BY <1>1 DEF BufferInv, TestTypes
<1>5. /\ fifo \in Seq(Values) /\ fifo' \in Seq(Values)
      /\ Len(fifo) \in Nat /\ Len(fifo)' = Len(fifo) + 1
      /\ fifo'[Len(fifo) + 1] = local[t]
      /\ \A i \in 1..Len(fifo) : fifo'[i] = fifo[i]
      /\ fifo # <<>> => fifo' # <<>> /\ Head(fifo') = Head(fifo)
  <2>1. fifo \in Seq(Values)
    BY RingTypes
  <2>2. QED
    BY <1>1, <1>4, <2>1
<1>6. LoadsFollow
  <2>1. \A u \in Threads : u # t => Has(u)' = Has(u)
    BY <1>3 DEF Has
  <2>2. Has(t) = {"spaceAvailable", "mutexTail"} /\ Has(t)' = {"itemAvailable", "mutexTail"}
    BY <1>3 DEF Has, Kept, Awaited
  <2>3. /\ Load("spaceAvailable")' = Load("spaceAvailable") - 1
        /\ Load("itemAvailable")' = Load("itemAvailable") + 1
        /\ \A r \in Sems \ {"spaceAvailable", "itemAvailable"} : Load(r)' = Load(r)
    <3>1. PICK a \in Sems, b \in Sems : a = "spaceAvailable" /\ b = "itemAvailable"
      BY DEF Sems
    <3>2. /\ a # b /\ a \in Has(t) /\ b \notin Has(t)
          /\ ~(a \in Has(t)') /\ b \in Has(t)'
          /\ \A r \in Sems \ {a, b} : r \in Has(t)' <=> r \in Has(t)
      BY <2>2, <3>1
    <3>3. QED
      BY <1>3, <2>1, <3>1, <3>2, MovedLoads
  <2>4. Load("spaceAvailable") \in Int /\ Load("itemAvailable") \in Int
    BY LoadIsNat DEF BufferInv, Sems
  <2>5. PICK k \in Nat : Len(fifo) = k /\ Len(fifo)' = k + 1
    BY <1>5
  <2>6. Load("mutexHead")' = Load("mutexHead") /\ Load("mutexTail")' = Load("mutexTail")
    BY <2>3 DEF Sems
  <2>7. QED
    BY <2>3, <2>4, <2>5, <2>6 DEF LoadsFollow
<1>7. RingInv'
  <2>1. PICK c \in Nat \ {0} : c = cap
    BY RingTypes
  <2>2. PICK h \in 0..c - 1 : h = head
    BY <2>1, RingTypes
  <2>3. PICK k \in 0..c - 1 : k = Len(fifo)
    BY <2>1, RingTypes
  <2>4. /\ n \in 0..MaxSize /\ c = n + 1 /\ k < n
        /\ IsSlot(c, h, k, tail)
        /\ \A j \in 0..k - 1 : \A x : IsSlot(c, h, j, x) => buffer[x] = fifo[j + 1]
        /\ buffer \in [0..MaxSize -> Values]
    BY <1>3, <2>1, <2>2, <2>3, RingTypes, SpaceIsThere
  <2>5. PICK m \in 0..c - 1 : m = k + 1
    BY <2>4
  <2>6. IsSlot(c, h, m, tail')
    <3>1. IsSlot(c, tail, 1, tail')
      BY <1>1, <2>1 DEF NextSlot, IsSlot
    <3>2. m \in 0..c
      OBVIOUS
    <3>3. QED
      BY <2>4, <2>5, <3>1, <3>2, RingNext
  <2>7. tail' \in 0..n
    <3>1. tail' \in 0..c - 1
      BY <2>6, RingFacts
    <3>2. c - 1 = n
      BY <2>4, BufferAssumption
    <3>3. QED
      BY <3>1, <3>2
  <2>8. RingInv
    BY DEF BufferInv
  <2>9. /\ buffer[tail] = local[t]
        /\ \A u \in Threads : pc[u] = "getAdvance" => fifo # <<>> /\ local[u] = Head(fifo)
    BY <1>3, <2>8 DEF RingInv, BufferIsFifo
  <2>10. ASSUME NEW i \in 1..m PROVE buffer[(h + i - 1) % c] = fifo'[i]
    <3>1. PICK j \in 0..k : j = i - 1
      BY <2>5
    <3>2. PICK x : x = (h + i - 1) % c
      OBVIOUS
    <3>3. IsSlot(c, h, j, x) /\ j + 1 = i
      BY <3>1, <3>2 DEF IsSlot
    <3>4. CASE j \in 0..k - 1
      <4>1. buffer[x] = fifo[i] /\ i \in 1..Len(fifo)
        BY <2>3, <2>4, <3>3, <3>4
      <4>2. QED
        BY <1>5, <3>2, <4>1
    <3>5. CASE j = k
      <4>1. x = tail /\ i = Len(fifo) + 1
        BY <2>3, <2>4, <3>3, <3>5 DEF IsSlot
      <4>2. QED
        BY <1>5, <2>9, <3>2, <4>1
    <3>6. QED
      BY <3>4, <3>5
  <2>11. ASSUME NEW u \in Threads PROVE pc'[u] # "putAdvance"
    BY <1>3, OneWriter
  <2>12. BufferIsFifo'
    <3>1. Len(fifo)' = m /\ m <= n /\ DOMAIN fifo' = 1..m
      BY <1>5, <2>3, <2>4, <2>5
    <3>2. \A i \in DOMAIN fifo' : buffer[(head + i - 1) % cap] = fifo'[i]
      BY <2>1, <2>2, <2>10, <3>1
    <3>3. \A u \in Threads : pc'[u] = "getAdvance" => fifo' # <<>> /\ local[u] = Head(fifo')
      BY <1>3, <1>5, <2>9
    <3>4. tail' = (head + Len(fifo)') % cap
      BY <2>1, <2>2, <2>6, <3>1 DEF IsSlot
    <3>5. QED
      BY <1>1, <1>3, <3>1, <3>2, <3>3, <3>4 DEF BufferIsFifo
  <2>13. QED
    BY <1>1, <1>3, <1>5, <2>7, <2>8, <2>11, <2>12 DEF RingInv
<1>8. QED
  BY <1>3, <1>4, <1>6, <1>7, WorkerStep

LEMMA GetReadKeeps ==
    ASSUME BufferInv, NEW t \in Threads \ {Main}, GetRead(t)
    PROVE  BufferInv'
<1>1. /\ Step(t, "getRead", "getAdvance")
      /\ local' = [local EXCEPT ![t] = buffer[head]]
      /\ UNCHANGED <<semVars, back, bufferVars, testVars>>
  BY DEF GetRead
<1>2. "getRead" \in InBuffer /\ "getAdvance" \in InBuffer
  BY DEF InBuffer
<1>3. /\ pc[t] = "getRead" /\ pc'[t] = "getAdvance" /\ verdict[t] = "none"
      /\ \A u \in Threads : u # t => pc'[u] = pc[u]
      /\ pc' = [pc EXCEPT ![t] = "getAdvance"]
      /\ pc[t] \notin {"none", "done"} /\ "getAdvance" \in WorkerPoints \ {"none", "done"}
      /\ SemTypes' /\ QueuesAreWaiters'
      /\ pc'[Main] \notin Before /\ pc'[Main] \notin {"cntUnlock", "cntSignal", "print"}
      /\ back' = [back EXCEPT ![t] = back'[t]] /\ back'[t] \in Returns
      /\ UNCHANGED <<usable, units, verdict, threadNum, n>> /\ cap' = cap
      /\ verdict'[Main] = verdict[Main] /\ units'["waitForAll"] = units["waitForAll"]
  BY <1>1, <1>2, AtBuffer
<1>4. \A u \in Threads : Has(u)' = Has(u)
  <2>1. SUFFICES ASSUME NEW u \in Threads PROVE Has(u)' = Has(u)
    OBVIOUS
  <2>2. CASE u # t
    BY <1>3, <2>2 DEF Has
  <2>3. CASE u = t
    BY <1>3, <2>3 DEF Has, Kept, Awaited
  <2>4. QED
    BY <2>2, <2>3
<1>5. LoadsFollow
  BY <1>1, <1>3, <1>4, SameLoads, LoadsStay DEF bufferVars
<1>6. /\ local'[t] = buffer[head] /\ local'[t] \in Values
      /\ local' = [local EXCEPT ![t] = local'[t]]
      /\ \A u \in Threads : u # t => local'[u] = local[u]
  <2>1. buffer[head] \in Values
    BY RingTypes
  <2>2. local \in [Threads -> Values]
    BY DEF BufferInv, TestTypes
  <2>3. QED
    BY <1>1, <2>1, <2>2
<1>7. fifo # <<>> /\ Head(fifo) = buffer[head]
  BY <1>3, ItemIsThere
<1>8. RingInv'
  <2>1. RingInv /\ BufferIsFifo
    BY DEF BufferInv, RingInv
  <2>2. head' = head /\ tail' = tail /\ buffer' = buffer /\ fifo' = fifo
    BY <1>1 DEF bufferVars
  <2>3. ASSUME NEW u \in Threads, pc'[u] = "putAdvance" PROVE buffer[tail] = local'[u]
    BY <1>3, <1>6, <2>1, <2>3 DEF RingInv
  <2>4. ASSUME NEW u \in Threads, pc'[u] = "getAdvance"
        PROVE  fifo # <<>> /\ local'[u] = Head(fifo)
    BY <1>3, <1>6, <1>7, <2>1, <2>4 DEF BufferIsFifo
  <2>5. BufferIsFifo'
    BY <1>3, <2>1, <2>2, <2>4 DEF BufferIsFifo
  <2>6. QED
    BY <1>3, <2>1, <2>2, <2>3, <2>5 DEF RingInv
<1>9. QED
  BY <1>3, <1>5, <1>6, <1>8, WorkerStep

\* The oldest item is taken out: by get(), or by main() that deletes the buffer.
LEMMA RingAfterTake ==
    ASSUME BufferInv, Len(fifo) >= 1,
           head' = NextSlot(head), fifo' = Tail(fifo),
           UNCHANGED <<buffer, tail, n>>,
           \A u \in Threads :
               /\ pc'[u] # "getAdvance"
               /\ pc'[u] = "putAdvance" => pc[u] = "putAdvance" /\ local'[u] = local[u],
           pc'[Main] \notin Before,
           pc'[Main] \notin {"cntUnlock", "cntSignal", "print"}
    PROVE  /\ RingInv'
           /\ Len(fifo) \in Nat /\ Len(fifo)' \in Nat /\ Len(fifo)' = Len(fifo) - 1
<1>1. PICK c \in Nat \ {0} : c = cap
  BY RingTypes
<1>2. PICK h \in 0..c - 1 : h = head
  BY <1>1, RingTypes
<1>3. PICK k \in 0..c - 1 : k = Len(fifo) - 1 /\ k + 1 \in 0..c - 1
  BY <1>1, RingTypes
<1>4. PICK m \in 0..c - 1 : m = Len(fifo) /\ m = k + 1 /\ m \in 0..c
  BY <1>1, <1>3, RingTypes
<1>5. /\ n \in 0..MaxSize /\ c = n + 1 /\ tail \in 0..c - 1
      /\ IsSlot(c, h, m, tail)
      /\ \A j \in 0..m - 1 : \A x : IsSlot(c, h, j, x) => buffer[x] = fifo[j + 1]
      /\ fifo \in Seq(Values)
  BY <1>1, <1>2, <1>4, RingTypes
<1>6. PICK g : g = head'
  OBVIOUS
<1>7. IsSlot(c, h, 1, g)
  BY <1>1, <1>2, <1>6 DEF NextSlot, IsSlot
<1>8. g \in 0..c - 1 /\ \A j \in 0..c - 1 : \A i \in 0..c : \A y :
          i = j + 1 /\ IsSlot(c, g, j, y) => IsSlot(c, h, i, y)
  <2>1. PICK z : IsSlot(c, g, k, z)
    BY DEF IsSlot
  <2>2. g \in 0..c - 1
    BY <1>4, <1>7, <2>1, RingShift
  <2>3. ASSUME NEW j \in 0..c - 1, NEW i \in 0..c, NEW y, i = j + 1, IsSlot(c, g, j, y)
        PROVE  IsSlot(c, h, i, y)
    BY <1>7, <2>3, RingShift
  <2>4. QED
    BY <2>2, <2>3
<1>9. IsSlot(c, g, k, tail)
  <2>1. PICK z : IsSlot(c, g, k, z)
    BY DEF IsSlot
  <2>2. IsSlot(c, h, m, z)
    BY <1>4, <1>8, <2>1
  <2>3. z = tail
    BY <1>5, <2>2 DEF IsSlot
  <2>4. QED
    BY <2>1, <2>3
<1>10. /\ fifo' \in Seq(Values) /\ Len(fifo') = k /\ DOMAIN fifo' = 1..k
       /\ \A i \in 1..k : fifo'[i] = fifo[i + 1]
  <2>1. fifo \in Seq(Values) /\ Len(fifo) = k + 1 /\ Len(fifo) # 0
    BY <1>4, <1>5
  <2>2. fifo # <<>>
    BY <2>1, EmptySeq
  <2>3. PICK f : f = Tail(fifo)
    OBVIOUS
  <2>4. /\ f \in Seq(Values) /\ Len(f) = Len(fifo) - 1
        /\ \A i \in 1..Len(f) : f[i] = fifo[i + 1]
    BY <2>1, <2>2, <2>3, HeadTailProperties
  <2>5. Len(f) = k /\ DOMAIN f = 1..Len(f)
    BY <2>1, <2>4
  <2>6. QED
    BY <2>3, <2>4, <2>5
<1>11. ASSUME NEW i \in 1..k PROVE buffer[(g + i - 1) % c] = fifo'[i]
  <2>1. PICK j \in 0..k - 1 : j = i - 1
    OBVIOUS
  <2>2. PICK y : y = (g + i - 1) % c
    OBVIOUS
  <2>3. g + i - 1 = g + j
    BY <1>8, <2>1
  <2>4. IsSlot(c, g, j, y)
    BY <2>2, <2>3 DEF IsSlot
  <2>5. j \in 0..c - 1 /\ i \in 0..c /\ i = j + 1 /\ i \in 0..m - 1
    BY <1>4, <2>1
  <2>6. IsSlot(c, h, i, y)
    BY <1>8, <2>4, <2>5
  <2>7. buffer[y] = fifo[i + 1]
    BY <1>5, <2>5, <2>6
  <2>8. QED
    BY <1>10, <2>2, <2>7
<1>12. cap' = c
  BY <1>1 DEF cap
<1>13. BufferIsFifo'
  <2>1. Len(fifo') <= n
    BY <1>3, <1>4, <1>5, <1>10, BufferAssumption
  <2>2. tail = (head' + Len(fifo')) % cap'
    BY <1>6, <1>9, <1>10, <1>12 DEF IsSlot
  <2>3. \A i \in DOMAIN fifo' : buffer[(head' + i - 1) % cap'] = fifo'[i]
    BY <1>6, <1>10, <1>11, <1>12
  <2>4. QED
    BY <2>1, <2>2, <2>3 DEF BufferIsFifo
<1>14. head' \in 0..n /\ tail \in 0..n
  BY <1>5, <1>6, <1>8, BufferAssumption
<1>15. RingInv'
  BY <1>10, <1>13, <1>14 DEF RingInv, BufferInv
<1>16. QED
  BY <1>3, <1>4, <1>10, <1>15

LEMMA GetAdvanceKeeps ==
    ASSUME BufferInv, NEW t \in Threads \ {Main}, GetAdvance(t)
    PROVE  BufferInv'
<1>1. /\ Step(t, "getAdvance", "getUnlock")
      /\ head' = NextSlot(head)
      /\ fifo' = Tail(fifo)
      /\ UNCHANGED <<semVars, back, local, buffer, tail, testVars>>
  BY DEF GetAdvance
<1>2. "getAdvance" \in InBuffer /\ "getUnlock" \in InBuffer
  BY DEF InBuffer
<1>3. /\ pc[t] = "getAdvance" /\ pc'[t] = "getUnlock" /\ verdict[t] = "none"
      /\ \A u \in Threads : u # t => pc'[u] = pc[u]
      /\ pc' = [pc EXCEPT ![t] = "getUnlock"]
      /\ pc[t] \notin {"none", "done"} /\ "getUnlock" \in WorkerPoints \ {"none", "done"}
      /\ SemTypes' /\ QueuesAreWaiters'
      /\ pc'[Main] \notin Before /\ pc'[Main] \notin {"cntUnlock", "cntSignal", "print"}
      /\ back' = [back EXCEPT ![t] = back'[t]] /\ back'[t] \in Returns
      /\ UNCHANGED <<usable, units, verdict, threadNum, n>> /\ cap' = cap
      /\ verdict'[Main] = verdict[Main] /\ units'["waitForAll"] = units["waitForAll"]
  BY <1>1, <1>2, AtBuffer
<1>4. local[t] \in Values /\ local' = local /\ local' = [local EXCEPT ![t] = local'[t]]
  BY <1>1 DEF BufferInv, TestTypes
<1>5. ASSUME NEW u \in Threads
      PROVE  /\ pc'[u] # "getAdvance"
             /\ pc'[u] = "putAdvance" => pc[u] = "putAdvance" /\ local'[u] = local[u]
  BY <1>1, <1>3, OneReader
<1>6. Len(fifo) >= 1
  BY <1>3, ItemIsThere
<1>7. /\ RingInv'
      /\ Len(fifo) \in Nat /\ Len(fifo)' \in Nat /\ Len(fifo)' = Len(fifo) - 1
  BY <1>1, <1>3, <1>5, <1>6, RingAfterTake
<1>8. LoadsFollow
  <2>1. \A u \in Threads : u # t => Has(u)' = Has(u)
    BY <1>3 DEF Has
  <2>2. Has(t) = {"itemAvailable", "mutexHead"} /\ Has(t)' = {"spaceAvailable", "mutexHead"}
    BY <1>3 DEF Has, Kept, Awaited
  <2>3. /\ Load("itemAvailable")' = Load("itemAvailable") - 1
        /\ Load("spaceAvailable")' = Load("spaceAvailable") + 1
        /\ \A r \in Sems \ {"itemAvailable", "spaceAvailable"} : Load(r)' = Load(r)
    <3>1. PICK a \in Sems, b \in Sems : a = "itemAvailable" /\ b = "spaceAvailable"
      BY DEF Sems
    <3>2. /\ a # b /\ a \in Has(t) /\ b \notin Has(t)
          /\ ~(a \in Has(t)') /\ b \in Has(t)'
          /\ \A r \in Sems \ {a, b} : r \in Has(t)' <=> r \in Has(t)
      BY <2>2, <3>1
    <3>3. QED
      BY <1>3, <2>1, <3>1, <3>2, MovedLoads
  <2>4. Load("spaceAvailable") \in Int /\ Load("itemAvailable") \in Int
    BY LoadIsNat DEF BufferInv, Sems
  <2>5. PICK x \in Nat, y \in Nat : Len(fifo) = x /\ Len(fifo)' = y /\ y = x - 1
    BY <1>7
  <2>6. Load("mutexHead")' = Load("mutexHead") /\ Load("mutexTail")' = Load("mutexTail")
    BY <2>3 DEF Sems
  <2>7. QED
    BY <2>3, <2>4, <2>5, <2>6 DEF LoadsFollow
<1>9. QED
  BY <1>3, <1>4, <1>7, <1>8, WorkerStep

\* getCnt reads the number of items from head and tail.
LEMMA CntIsRead ==
    ASSUME BufferInv, NEW t \in Threads, CntRead(t)
    PROVE  local' = [local EXCEPT ![t] = Len(fifo)]
<1>1. PICK c \in Nat \ {0} : c = cap
  BY RingTypes
<1>2. PICK h \in 0..c - 1 : h = head
  BY <1>1, RingTypes
<1>3. PICK k \in 0..c - 1 : k = Len(fifo)
  BY <1>1, RingTypes
<1>4. IsSlot(c, h, k, tail)
  BY <1>1, <1>2, <1>3, RingTypes
<1>5. k = IF tail >= h THEN tail - h ELSE c - h + tail
  BY <1>4, RingFacts
<1>6. QED
  BY <1>1, <1>2, <1>3, <1>5 DEF CntRead

\* The statements of put, get and getCnt, in a thread that is not main().
LEMMA BufferCodeKeeps ==
    ASSUME BufferInv, NEW t \in Threads \ {Main}, BufferCode(t)
    PROVE  BufferInv'
<1> USE DEF Kept, Awaited, TokensOf
<1>1. CASE PutWait(t)
  <2>1. /\ "put" \in InBuffer /\ "putLock" \in InBuffer
        /\ "spaceAvailable" \in Sems \ {"waitForAll"}
        /\ Awaited("putLock") = {"spaceAvailable"} /\ Kept("putLock") = TokensOf("put")
        /\ "spaceAvailable" \notin Kept("putLock")
    BY DEF InBuffer, CntPoints, Sems
  <2>2. Wait(t, "put", "spaceAvailable", "putLock")
    BY <1>1 DEF PutWait
  <2>3. QED
    BY ONLY BufferInv, t \in Threads \ {Main}, <2>1, <2>2, WorkerWait
<1>2. CASE PutLock(t)
  <2>1. /\ "putLock" \in InBuffer /\ "putWrite" \in InBuffer
        /\ "mutexTail" \in Sems \ {"waitForAll"}
        /\ Awaited("putWrite") = {"mutexTail"} /\ Kept("putWrite") = TokensOf("putLock")
        /\ "mutexTail" \notin Kept("putWrite")
    BY DEF InBuffer, CntPoints, Sems
  <2>2. Wait(t, "putLock", "mutexTail", "putWrite")
    BY <1>2 DEF PutLock
  <2>3. QED
    BY ONLY BufferInv, t \in Threads \ {Main}, <2>1, <2>2, WorkerWait
<1>3. CASE GetWait(t)
  <2>1. /\ "get" \in InBuffer /\ "getLock" \in InBuffer
        /\ "itemAvailable" \in Sems \ {"waitForAll"}
        /\ Awaited("getLock") = {"itemAvailable"} /\ Kept("getLock") = TokensOf("get")
        /\ "itemAvailable" \notin Kept("getLock")
    BY DEF InBuffer, CntPoints, Sems
  <2>2. Wait(t, "get", "itemAvailable", "getLock")
    BY <1>3 DEF GetWait
  <2>3. QED
    BY ONLY BufferInv, t \in Threads \ {Main}, <2>1, <2>2, WorkerWait
<1>4. CASE GetLock(t)
  <2>1. /\ "getLock" \in InBuffer /\ "getRead" \in InBuffer
        /\ "mutexHead" \in Sems \ {"waitForAll"}
        /\ Awaited("getRead") = {"mutexHead"} /\ Kept("getRead") = TokensOf("getLock")
        /\ "mutexHead" \notin Kept("getRead")
    BY DEF InBuffer, CntPoints, Sems
  <2>2. Wait(t, "getLock", "mutexHead", "getRead")
    BY <1>4 DEF GetLock
  <2>3. QED
    BY ONLY BufferInv, t \in Threads \ {Main}, <2>1, <2>2, WorkerWait
<1>5. CASE CntLockHead(t)
  <2>1. /\ "cnt" \in InBuffer /\ "cntLock" \in InBuffer
        /\ "mutexHead" \in Sems \ {"waitForAll"}
        /\ Awaited("cntLock") = {"mutexHead"} /\ Kept("cntLock") = TokensOf("cnt")
        /\ "mutexHead" \notin Kept("cntLock")
    BY DEF InBuffer, CntPoints, Sems
  <2>2. Wait(t, "cnt", "mutexHead", "cntLock")
    BY <1>5 DEF CntLockHead
  <2>3. QED
    BY ONLY BufferInv, t \in Threads \ {Main}, <2>1, <2>2, WorkerWait
<1>6. CASE CntLockTail(t)
  <2>1. /\ "cntLock" \in InBuffer /\ "cntRead" \in InBuffer
        /\ "mutexTail" \in Sems \ {"waitForAll"}
        /\ Awaited("cntRead") = {"mutexTail"} /\ Kept("cntRead") = TokensOf("cntLock")
        /\ "mutexTail" \notin Kept("cntRead")
    BY DEF InBuffer, CntPoints, Sems
  <2>2. Wait(t, "cntLock", "mutexTail", "cntRead")
    BY <1>6 DEF CntLockTail
  <2>3. QED
    BY ONLY BufferInv, t \in Threads \ {Main}, <2>1, <2>2, WorkerWait
<1>7. CASE PutUnlock(t)
  <2>1. /\ "putUnlock" \in InBuffer /\ "mutexTail" \in Sems \ {"waitForAll"}
        /\ "putSignal" \in (InBuffer \cup Returns) \ {"putAdvance", "getAdvance"}
        /\ TokensOf("putUnlock") = TokensOf("putSignal") \cup {"mutexTail"}
        /\ "mutexTail" \notin TokensOf("putSignal")
    BY DEF InBuffer, CntPoints, Sems
  <2>2. Signal(t, "putUnlock", "mutexTail", "putSignal")
    BY <1>7 DEF PutUnlock
  <2>3. QED
    BY ONLY BufferInv, t \in Threads \ {Main}, <2>1, <2>2, WorkerSignal
<1>8. CASE PutSignal(t)
  <2>1. PICK b : b = back[t]
    OBVIOUS
  <2>2. Signal(t, "putSignal", "itemAvailable", b)
    BY <1>8, <2>1 DEF PutSignal
  <2>3. pc[t] = "putSignal" /\ "putSignal" \in InBuffer
    BY <2>2 DEF Signal, SemCall, Step, InBuffer, CntPoints
  <2>4. b \in Returns
    BY <2>1, <2>3 DEF BufferInv, Roles
  <2>5. TokensOf(b) = {} /\ TokensOf("putSignal") = {"itemAvailable"}
    BY <2>4 DEF Returns
  <2>6. /\ b \in (InBuffer \cup Returns) \ {"putAdvance", "getAdvance"}
        /\ "itemAvailable" \in Sems \ {"waitForAll"}
        /\ TokensOf("putSignal") = TokensOf(b) \cup {"itemAvailable"} /\ "itemAvailable" \notin TokensOf(b)
    BY <2>4, <2>5 DEF Returns, Sems
  <2>7. QED
    BY ONLY BufferInv, t \in Threads \ {Main}, <2>2, <2>3, <2>6, WorkerSignal
<1>9. CASE GetUnlock(t)
  <2>1. /\ "getUnlock" \in InBuffer /\ "mutexHead" \in Sems \ {"waitForAll"}
        /\ "getSignal" \in (InBuffer \cup Returns) \ {"putAdvance", "getAdvance"}
        /\ TokensOf("getUnlock") = TokensOf("getSignal") \cup {"mutexHead"}
        /\ "mutexHead" \notin TokensOf("getSignal")
    BY DEF InBuffer, CntPoints, Sems
  <2>2. Signal(t, "getUnlock", "mutexHead", "getSignal")
    BY <1>9 DEF GetUnlock
  <2>3. QED
    BY ONLY BufferInv, t \in Threads \ {Main}, <2>1, <2>2, WorkerSignal
<1>10. CASE GetSignal(t)
  <2>1. PICK b : b = back[t]
    OBVIOUS
  <2>2. Signal(t, "getSignal", "spaceAvailable", b)
    BY <1>10, <2>1 DEF GetSignal
  <2>3. pc[t] = "getSignal" /\ "getSignal" \in InBuffer
    BY <2>2 DEF Signal, SemCall, Step, InBuffer, CntPoints
  <2>4. b \in Returns
    BY <2>1, <2>3 DEF BufferInv, Roles
  <2>5. TokensOf(b) = {} /\ TokensOf("getSignal") = {"spaceAvailable"}
    BY <2>4 DEF Returns
  <2>6. /\ b \in (InBuffer \cup Returns) \ {"putAdvance", "getAdvance"}
        /\ "spaceAvailable" \in Sems \ {"waitForAll"}
        /\ TokensOf("getSignal") = TokensOf(b) \cup {"spaceAvailable"} /\ "spaceAvailable" \notin TokensOf(b)
    BY <2>4, <2>5 DEF Returns, Sems
  <2>7. QED
    BY ONLY BufferInv, t \in Threads \ {Main}, <2>2, <2>3, <2>6, WorkerSignal
<1>11. CASE CntUnlockTail(t)
  <2>1. /\ "cntUnlock" \in InBuffer /\ "mutexTail" \in Sems \ {"waitForAll"}
        /\ "cntSignal" \in (InBuffer \cup Returns) \ {"putAdvance", "getAdvance"}
        /\ TokensOf("cntUnlock") = TokensOf("cntSignal") \cup {"mutexTail"}
        /\ "mutexTail" \notin TokensOf("cntSignal")
    BY DEF InBuffer, CntPoints, Sems
  <2>2. Signal(t, "cntUnlock", "mutexTail", "cntSignal")
    BY <1>11 DEF CntUnlockTail
  <2>3. QED
    BY ONLY BufferInv, t \in Threads \ {Main}, <2>1, <2>2, WorkerSignal
<1>12. CASE CntUnlockHead(t)
  <2>1. PICK b : b = back[t]
    OBVIOUS
  <2>2. Signal(t, "cntSignal", "mutexHead", b)
    BY <1>12, <2>1 DEF CntUnlockHead
  <2>3. pc[t] = "cntSignal" /\ "cntSignal" \in InBuffer
    BY <2>2 DEF Signal, SemCall, Step, InBuffer, CntPoints
  <2>4. b \in Returns
    BY <2>1, <2>3 DEF BufferInv, Roles
  <2>5. TokensOf(b) = {} /\ TokensOf("cntSignal") = {"mutexHead"}
    BY <2>4 DEF Returns
  <2>6. /\ b \in (InBuffer \cup Returns) \ {"putAdvance", "getAdvance"}
        /\ "mutexHead" \in Sems \ {"waitForAll"}
        /\ TokensOf("cntSignal") = TokensOf(b) \cup {"mutexHead"} /\ "mutexHead" \notin TokensOf(b)
    BY <2>4, <2>5 DEF Returns, Sems
  <2>7. QED
    BY ONLY BufferInv, t \in Threads \ {Main}, <2>2, <2>3, <2>6, WorkerSignal
<1>13. CASE CntRead(t)
  <2>1. local' = [local EXCEPT ![t] = Len(fifo)]
    BY <1>13, CntIsRead
  <2>2. local \in [Threads -> Values] /\ Len(fifo) \in Values
    BY RingTypes DEF BufferInv, TestTypes, Values
  <2>3. local' = [local EXCEPT ![t] = local'[t]] /\ local'[t] \in Values
    BY <2>1, <2>2
  <2>4. /\ Step(t, "cntRead", "cntUnlock") /\ pc[t] = "cntRead"
        /\ UNCHANGED <<semVars, back, bufferVars, threadNum, n>>
    BY <1>13 DEF CntRead, Step, testVars
  <2>5. /\ "cntRead" \in WorkerPoints \ {"none", "done"}
        /\ "cntUnlock" \in WorkerPoints \ {"none", "done", "putAdvance", "getAdvance"}
        /\ "cntRead" \in InBuffer
        /\ TokensOf("cntRead") = TokensOf("cntUnlock")
    BY DEF WorkerPoints, InBuffer, CntPoints
  <2>6. back' = [back EXCEPT ![t] = back'[t]] /\ back'[t] \in Returns
    BY <2>4, <2>5 DEF BufferInv, Roles, TestTypes
  <2>7. QED
    BY <2>3, <2>4, <2>5, <2>6, WorkerQuiet
<1>14. CASE PutWrite(t)
  BY <1>14, PutWriteKeeps
<1>15. CASE PutAdvance(t)
  BY <1>15, PutAdvanceKeeps
<1>16. CASE GetRead(t)
  BY <1>16, GetReadKeeps
<1>17. CASE GetAdvance(t)
  BY <1>17, GetAdvanceKeeps
<1>18. QED
  BY <1>1, <1>2, <1>3, <1>4, <1>5, <1>6, <1>7, <1>8, <1>9, <1>10, <1>11, <1>12, <1>13, <1>14, <1>15, <1>16, <1>17 DEF BufferCode

\* A call of one of the procedures, or a jump, that does no more than that.
LEMMA WorkerCall ==
    ASSUME BufferInv, NEW t \in Threads \ {Main}, NEW from \in Returns \cup {"escape"},
           NEW procedure \in {"put", "get", "cnt", "signalAll", "escape"},
           NEW return \in Returns \cup {"done"}, NEW arg \in Values,
           Call(t, from, procedure, return, arg),
           procedure # "signalAll" => return \in Returns
    PROVE  BufferInv'
<1>1. /\ Step(t, from, procedure)
      /\ UNCHANGED <<semVars, bufferVars, threadNum, n>>
      /\ back' = [back EXCEPT ![t] = return]
      /\ local' = [local EXCEPT ![t] = arg]
  BY DEF Call, Quiet, testVars
<1>2. TokensOf(from) = TokensOf(procedure)
  BY DEF TokensOf, Kept, Awaited, Returns
<1>3. /\ from \in WorkerPoints \ {"none", "done"}
      /\ procedure \in WorkerPoints \ {"none", "done", "putAdvance", "getAdvance"}
      /\ procedure \in InBuffer \cup {"escape"} => procedure # "signalAll"
  BY DEF WorkerPoints, Returns, InBuffer, CntPoints
<1>4. /\ local' = [local EXCEPT ![t] = local'[t]] /\ local'[t] \in Values
      /\ back' = [back EXCEPT ![t] = back'[t]] /\ back'[t] = return
  BY <1>1 DEF BufferInv, TestTypes
<1>5. back'[t] \in Returns \cup {"print", "done"}
  BY <1>4
<1>6. procedure \in InBuffer \cup {"escape"} => back'[t] \in Returns
  BY <1>3, <1>4
<1>7. QED
  BY <1>1, <1>2, <1>3, <1>4, <1>5, <1>6, WorkerQuiet

LEMMA GetKeyKeeps ==
    ASSUME BufferInv, GetKey
    PROVE  BufferInv'
<1>1. Keyboard \in Threads \ {Main}
  BY BufferAssumption DEF Keyboard, Producers, Threads
<1>2. Key \in Values /\ Mark \in Values /\ "produce" \in Returns /\ "signalAll" \in Returns
  BY DEF Values, Returns
<1>3. QED
  BY <1>1, <1>2, WorkerCall DEF GetKey

LEMMA EscapeKeeps ==
    ASSUME BufferInv, Escape
    PROVE  BufferInv'
<1>1. PICK t \in Threads \ {Main} : t = Keyboard
  BY BufferAssumption DEF Keyboard, Producers, Threads
<1>2. /\ Step(t, "escape", "put") /\ pc[t] = "escape"
      /\ UNCHANGED <<semVars, back, local, bufferVars, threadNum, n>>
  BY <1>1 DEF Escape, Step
<1>3. /\ "escape" \in WorkerPoints \ {"none", "done"}
      /\ "put" \in WorkerPoints \ {"none", "done", "putAdvance", "getAdvance"}
      /\ TokensOf("escape") = TokensOf("put")
  BY DEF WorkerPoints, InBuffer, TokensOf, Kept, Awaited
<1>4. /\ local' = [local EXCEPT ![t] = local'[t]] /\ local'[t] \in Values
      /\ back' = [back EXCEPT ![t] = back'[t]] /\ back'[t] \in Returns
  BY <1>2 DEF BufferInv, Roles, TestTypes
<1>5. QED
  BY <1>2, <1>3, <1>4, WorkerQuiet

LEMMA ProduceKeeps ==
    ASSUME BufferInv, NEW t \in Producers, Produce(t)
    PROVE  BufferInv'
<1>1. t \in Threads \ {Main} /\ t \in Values
  BY BufferAssumption DEF Producers, Threads, Values
<1>2. "produce" \in Returns
  BY DEF Returns
<1>3. \/ Call(t, "produce", "signalAll", "done", t)
      \/ Call(t, "produce", "put", "produce", t)
  BY DEF Produce
<1>4. QED
  BY <1>1, <1>2, <1>3, WorkerCall

LEMMA ConsumeKeeps ==
    ASSUME BufferInv, Consume
    PROVE  BufferInv'
<1>1. PICK t \in Threads \ {Main} : t = Consumer
  BY BufferAssumption DEF Threads
<1>2. /\ "consume" \in Returns /\ "drain" \in Returns /\ "drained" \in Returns
      /\ 0 \in Values
  BY DEF Returns, Values
<1>3. \/ Call(t, "consume", "cnt", "drain", 0)
      \/ Call(t, "consume", "get", "consume", 0)
      \/ Call(t, "drain", "signalAll", "done", 0)
      \/ Call(t, "drain", "get", "drained", 0)
      \/ Call(t, "drained", "cnt", "drain", 0)
  BY <1>1 DEF Consume
<1>4. QED
  BY <1>2, <1>3, WorkerCall

-----------------------------------------------------------------------------
\* The steps at which main() is concerned.

LEMMA EndedFinite == IsFiniteSet(Ended) /\ Cardinality(Ended) \in Nat
<1>1. Ended \subseteq Threads
  BY DEF Ended
<1>2. IsFiniteSet(Ended)
  BY <1>1, ThreadsAreFinite, FS_Subset
<1>3. QED
  BY <1>2, FS_CardinalityType

LEMMA GivenIsInt ==
    ASSUME BufferInv, pc[Main] \in During
    PROVE  local[Main] \in Int /\ threadNum \in Nat /\ units["waitForAll"] \in Nat
<1>1. MaxThreads \in Nat /\ threadNum \in 0..MaxThreads
  BY BufferAssumption DEF BufferInv, TestTypes
<1>2. threadNum \in Nat
  BY <1>1
<1>3. \/ pc[Main] \in {"create", "wait"} /\ local[Main] \in 0..threadNum
      \/ pc[Main] = "closeAll" /\ local[Main] = threadNum + 1
  BY DEF During, BufferInv, MadeSoFar
<1>4. local[Main] \in Int
  BY <1>2, <1>3
<1>5. QED
  BY <1>2, <1>4 DEF BufferInv, SemTypes, Sems

\* sem_wait returns: nothing changes hands.
LEMMA WaitReturnsKeeps ==
    ASSUME BufferInv, NEW t \in Threads, WaitReturns(t)
    PROVE  BufferInv'
<1>1. S!Return(t) /\ UNCHANGED <<pc, back, local, bufferVars, testVars>>
  BY DEF WaitReturns
<1>2. SemTypes /\ QueuesAreWaiters
  BY DEF BufferInv
<1>3. /\ SemTypes' /\ QueuesAreWaiters'
      /\ UNCHANGED <<usable, units, waiters>>
      /\ verdict[t] = "acquired" /\ verdict' = [verdict EXCEPT ![t] = "none"]
  BY <1>1, <1>2, ReturnKeeps
<1>4. \A u \in Threads : verdict'[u] = "waiting" <=> verdict[u] = "waiting"
  BY <1>2, <1>3 DEF SemTypes
<1>5. \A u \in Threads : Has(u)' = Has(u)
  BY <1>1, <1>4 DEF Has
<1>6. \A s \in Sems : Load(s)' = Load(s)
  BY <1>3, <1>5, SameLoads
<1>7. Main \in Threads /\ Given' = Given
  BY <1>1, <1>4 DEF Given, Threads
<1>8. Ended' = Ended
  BY <1>1 DEF Ended
<1>9. /\ UNCHANGED <<head, tail, buffer, fifo, threadEnd, threadNum, n>>
  BY <1>1 DEF bufferVars, testVars
<1>10. UnitsAreCounted'
  BY <1>1, <1>6, <1>9 DEF UnitsAreCounted, BufferInv, Sems
<1>11. EndsAreCounted'
  BY <1>1, <1>3, <1>7, <1>8 DEF EndsAreCounted, BufferInv
<1>12. MadeSoFar' /\ OpenSems' /\ Roles' /\ TestTypes'
  BY <1>1, <1>3, <1>9 DEF BufferInv, MadeSoFar, OpenSems, Roles, TestTypes
<1>13. RingInv'
  <2>1. RingInv
    BY DEF BufferInv
  <2>2. BufferIsFifo'
    BY <1>1, <1>9, <2>1 DEF RingInv, BufferIsFifo, cap
  <2>3. QED
    BY <1>1, <1>9, <2>1, <2>2 DEF RingInv
<1>14. QED
  BY <1>3, <1>10, <1>11, <1>12, <1>13 DEF BufferInv

\* The last signal of a thread: the unit goes to main() if it waits.
LEMMA SignalAllKeeps ==
    ASSUME BufferInv, NEW t \in Threads, SignalAll(t)
    PROVE  BufferInv'
<1>1. /\ pc[t] = "signalAll" /\ verdict[t] = "none" /\ pc' = [pc EXCEPT ![t] = "done"]
      /\ UNCHANGED <<back, local, bufferVars, testVars>>
      /\ S!Release("waitForAll")
  BY DEF SignalAll, Signal, SemCall, Step
<1>2. t \in Threads \ {Main} /\ pc[t] \notin {"none", "done"} /\ Main \in Threads
  BY <1>1 DEF BufferInv, Roles, Before, During, Ending, CntPoints, Threads
<1>3. /\ pc[Main] \in During /\ SemTypes /\ QueuesAreWaiters
      /\ "done" \in Points /\ "waitForAll" \in Sems
  BY <1>2, WorkerIsAwaited DEF BufferInv, Points, WorkerPoints, Sems
<1>4. /\ SemTypes' /\ QueuesAreWaiters'
      /\ usable' = usable
      /\ \A r \in Sems : r # "waitForAll" => units'[r] = units[r]
      /\ UnitGiven(t, "waitForAll")
  BY <1>1, <1>3, SignalKeeps
<1>5. ASSUME NEW r \in Sems \ {"waitForAll"} PROVE Load(r)' = Load(r)
  <2>1. TokensOf(pc[t]) = {} /\ TokensOf("done") = {}
    BY <1>1 DEF TokensOf, Kept, Awaited
  <2>2. QED
    BY <1>1, <1>3, <1>4, <2>1, SignalLoads
<1>6. /\ pc'[t] = "done" /\ \A u \in Threads : u # t => pc'[u] = pc[u]
      /\ pc'[Main] = pc[Main]
  BY <1>1, <1>2, <1>3 DEF SemTypes
<1>7. /\ UNCHANGED <<head, tail, buffer, fifo, threadEnd, threadNum, n>>
  BY <1>1 DEF bufferVars, testVars
<1>8. Cardinality(Ended) \in Nat /\ Cardinality(Ended)' = Cardinality(Ended) + 1
  <2>1. PICK A : A = Ended
    OBVIOUS
  <2>2. PICK B : B = Ended'
    OBVIOUS
  <2>3. /\ \A u : u # t => (u \in A <=> u \in B)
        /\ t \in B /\ t \notin A
    BY <1>1, <1>2, <1>6, <2>1, <2>2 DEF Ended
  <2>4. IsFiniteSet(A)
    BY <2>1, EndedFinite
  <2>5. Cardinality(A) \in Nat /\ Cardinality(B) = Cardinality(A) + 1
    BY <2>3, <2>4, OneMoves
  <2>6. QED
    BY <2>1, <2>2, <2>5
<1>9. /\ local[Main] \in Int /\ units["waitForAll"] \in Nat
      /\ units["waitForAll"] + Given = Cardinality(Ended)
  BY <1>3, GivenIsInt DEF BufferInv, EndsAreCounted
<1>10. units'["waitForAll"] + Given' = units["waitForAll"] + Given + 1
  <2>1. CASE verdict' = verdict /\ units'["waitForAll"] = units["waitForAll"] + 1
    <3>1. Given' = Given /\ Given \in Int
      BY <1>1, <1>6, <1>9, <2>1 DEF Given
    <3>2. QED
      BY <1>9, <2>1, <3>1
  <2>2. ASSUME NEW h \in Threads \ {t}, "waitForAll" \in Awaited(pc[h]),
               verdict[h] = "waiting", verdict' = [verdict EXCEPT ![h] = "acquired"],
               units'["waitForAll"] = units["waitForAll"]
        PROVE  units'["waitForAll"] + Given' = units["waitForAll"] + Given + 1
    <3>1. pc[h] \in {"wait", "closeAll"}
      BY <2>2 DEF Awaited
    <3>2. h = Main
      BY <3>1 DEF BufferInv, Roles, WorkerPoints, InBuffer, CntPoints, Returns
    <3>3. verdict'[Main] = "acquired" /\ verdict[Main] = "waiting"
      BY <1>3, <2>2, <3>2 DEF SemTypes
    <3>4. Given = local[Main] - 1 /\ Given' = local[Main]
      BY <1>1, <1>6, <3>1, <3>2, <3>3 DEF Given
    <3>5. QED
      BY <1>9, <2>2, <3>4
  <2>3. QED
    BY <1>4, <2>1, <2>2 DEF UnitGiven
<1>11. EndsAreCounted'
  BY <1>6, <1>8, <1>9, <1>10 DEF EndsAreCounted
<1>12. UnitsAreCounted'
  BY <1>3, <1>5, <1>6, <1>7 DEF UnitsAreCounted, BufferInv, Sems
<1>13. TestTypes' /\ Roles'
  <2>1. TestTypes'
    BY <1>1, <1>7 DEF BufferInv, TestTypes
  <2>2. "done" \in WorkerPoints /\ "done" \notin InBuffer \cup {"escape"}
    BY DEF WorkerPoints, InBuffer, CntPoints
  <2>3. Roles'
    BY <1>1, <1>6, <2>2 DEF BufferInv, Roles
  <2>4. QED
    BY <2>1, <2>3
<1>14. pc[Main] \notin Before /\ pc[Main] \notin Ending
  BY <1>3 DEF During, Before, Ending, CntPoints
<1>15. OpenSems'
  BY <1>4, <1>6 DEF OpenSems, BufferInv
<1>16. MadeSoFar'
  <2>1. \A u \in Threads : pc[u] = "none" => pc'[u] = "none"
    BY <1>1, <1>6
  <2>2. Consumer \in Threads /\ Producers \subseteq Threads
    BY DEF Threads
  <2>3. QED
    BY <1>1, <1>6, <1>7, <1>14, <2>1, <2>2 DEF MadeSoFar, BufferInv
<1>17. RingInv'
  <2>1. pc'[Main] \notin {"cntUnlock", "cntSignal", "print"}
    BY <1>3, <1>6 DEF During
  <2>2. \A u \in Threads :
            pc'[u] \in {"putAdvance", "getAdvance"}
            => pc[u] = pc'[u] /\ local'[u] = local[u]
    BY <1>1, <1>6
  <2>3. UNCHANGED <<bufferVars, n>> /\ (pc'[Main] \in Before => pc[Main] \in Before)
    BY <1>1, <1>6, <1>7
  <2>4. QED
    BY <2>1, <2>2, <2>3, RingFrame
<1>18. QED
  BY <1>4, <1>11, <1>12, <1>13, <1>15, <1>16, <1>17 DEF BufferInv

\* A semaphore that nobody waits for has no queue.
LEMMA NoWaiters ==
    ASSUME SemTypes, QueuesAreWaiters, NEW s \in Sems,
           \A u \in Threads : s \in Awaited(pc[u]) => verdict[u] # "waiting"
    PROVE  waiters[s] = <<>>
<1>1. PICK q \in Seq(Threads) : q = waiters[s]
  BY DEF SemTypes
<1>2. SUFFICES ASSUME q # <<>> PROVE FALSE
  BY <1>1
<1>3. Head(q) \in ToSet(waiters[s]) /\ Head(q) \in Threads
  BY <1>1, <1>2, TailList
<1>4. QED
  BY <1>3 DEF QueuesAreWaiters

\* sem_close of such a semaphore tells nobody that it is gone.
LEMMA CloseKeeps ==
    ASSUME SemTypes, QueuesAreWaiters, NEW s \in Sems, NEW to \in Points,
           verdict[Main] = "none", pc' = [pc EXCEPT ![Main] = to], S!Close(s),
           \A u \in Threads : s \in Awaited(pc[u]) => verdict[u] # "waiting"
    PROVE  SemTypes' /\ QueuesAreWaiters' /\ usable' = usable \ {s} /\ verdict' = verdict
<1>1. waiters[s] = <<>>
  BY NoWaiters
<1>2. /\ usable' = usable \ {s} /\ units' = [units EXCEPT ![s] = 0]
      /\ waiters' = [waiters EXCEPT ![s] = <<>>]
      /\ verdict' = [u \in Threads |-> IF u \in S!ToSet(waiters[s]) THEN "dead" ELSE verdict[u]]
  BY DEF S!Close
<1>3. \A u : u \notin S!ToSet(waiters[s])
  BY <1>1 DEF S!ToSet
<1>4. verdict' = verdict /\ waiters' = waiters
  BY <1>1, <1>2, <1>3 DEF SemTypes
<1>5. /\ units' \in [Sems -> Nat]
      /\ units'[s] = 0 /\ \A r \in Sems : r # s => units'[r] = units[r]
  BY <1>2 DEF SemTypes
<1>6. /\ pc' \in [Threads -> Points]
      /\ \A u \in Threads : u # Main => pc'[u] = pc[u]
  BY DEF SemTypes
<1>7. SemTypes'
  BY <1>2, <1>4, <1>5, <1>6 DEF SemTypes
<1>8. ASSUME NEW r \in Sems, NEW u \in Threads
      PROVE  u \in ToSet(waiters'[r]) <=> r \in Awaited(pc'[u]) /\ verdict'[u] = "waiting"
  <2>1. verdict[u] = "waiting" => u # Main
    OBVIOUS
  <2>2. u \in ToSet(waiters[r]) <=> r \in Awaited(pc[u]) /\ verdict[u] = "waiting"
    BY DEF QueuesAreWaiters
  <2>3. QED
    BY <1>4, <1>6, <2>1, <2>2
<1>9. ASSUME NEW u \in Threads, verdict'[u] # "none" PROVE Awaited(pc'[u]) # {}
  BY <1>4, <1>6, <1>9 DEF QueuesAreWaiters
<1>10. ASSUME NEW r \in Sems
       PROVE  IsInjective(waiters'[r]) /\ (waiters'[r] # <<>> => units'[r] = 0)
  BY <1>4, <1>5 DEF QueuesAreWaiters
<1>11. QED
  BY <1>2, <1>4, <1>7, <1>8, <1>9, <1>10 DEF QueuesAreWaiters

LEMMA SameLoad ==
    ASSUME NEW r, units'[r] = units[r],
           \A u \in Threads : r \in Has(u)' <=> r \in Has(u)
    PROVE  Load(r)' = Load(r)
<1>1. Holders(r)' = Holders(r)
  BY DEF Holders
<1>2. QED
  BY <1>1 DEF Load

\* The questions to the user.
LEMMA AskKeeps ==
    ASSUME BufferInv, Ask
    PROVE  BufferInv'
<1>1. PICK num \in 0..MaxThreads, size \in 0..MaxSize, to \in {"open", "done"} :
          /\ threadNum' = num /\ n' = size
          /\ pc[Main] = "ask" /\ verdict[Main] = "none" /\ pc' = [pc EXCEPT ![Main] = to]
          /\ UNCHANGED <<semVars, back, local, bufferVars, threadEnd>>
  BY DEF Ask, Step
<1>2. /\ Main \in Threads /\ SemTypes /\ QueuesAreWaiters /\ to \in Points
      /\ to \notin During
  BY DEF Threads, BufferInv, Points, WorkerPoints, Before, During
<1>3. /\ pc'[Main] = to /\ \A u \in Threads : u # Main => pc'[u] = pc[u]
      /\ pc' \in [Threads -> Points]
  BY <1>1, <1>2 DEF SemTypes
<1>4. SemTypes' /\ QueuesAreWaiters'
  BY <1>1, <1>3, <1>2, SemsStay
<1>5. pc[Main] \in Before /\ pc[Main] \notin During
  BY <1>1 DEF Before, During
<1>6. TestTypes'
  BY <1>1 DEF BufferInv, TestTypes
<1>7. Roles'
  BY <1>1, <1>3 DEF BufferInv, Roles, Before, Ending, CntPoints
<1>8. /\ \A u \in Threads \ {Main} : pc[u] = "none"
      /\ local[Main] = 0
  BY <1>5 DEF BufferInv, MadeSoFar
<1>9. MadeSoFar'
  BY <1>1, <1>2, <1>3, <1>8 DEF MadeSoFar, Ending, CntPoints, During
<1>10. UnitsAreCounted' /\ EndsAreCounted'
  BY <1>2, <1>3 DEF UnitsAreCounted, EndsAreCounted
<1>11. OpenSems'
  <2>1. usable = {} /\ usable' = usable
    BY <1>1, <1>5 DEF BufferInv, OpenSems, semVars
  <2>2. CASE to = "open"
    BY <1>3, <2>1, <2>2 DEF OpenSems, Before
  <2>3. CASE to = "done"
    BY <1>3, <2>1, <2>3 DEF OpenSems, Before, During, StillOpen
  <2>4. QED
    BY <2>2, <2>3
<1>12. RingInv'
  <2>1. /\ head = 0 /\ tail = 0 /\ fifo = <<>>
        /\ buffer \in [0..MaxSize -> Values] /\ fifo \in Seq(Values)
        /\ head' = head /\ tail' = tail /\ buffer' = buffer /\ fifo' = fifo
    BY <1>1, <1>5 DEF BufferInv, RingInv, bufferVars
  <2>2. PICK c \in Nat \ {0} : c = cap' /\ n' \in Nat
    BY <1>1, BufferAssumption DEF cap
  <2>3. IsSlot(c, 0, 0, 0)
    <3>1. 0 \in 0..c - 1
      OBVIOUS
    <3>2. PICK z \in Int : z = 0 /\ z \in 0..c - 1
      BY <3>1
    <3>3. z % c = z
      BY <3>2, Remainder
    <3>4. QED
      BY <3>2, <3>3 DEF IsSlot
  <2>4. Len(fifo) = 0 /\ DOMAIN fifo = {}
    BY <2>1
  <2>5. ASSUME NEW u \in Threads PROVE pc'[u] \notin {"putAdvance", "getAdvance"}
    BY <1>1, <1>3, <1>8
  <2>6. tail' = (head' + Len(fifo)') % cap'
    BY <2>1, <2>2, <2>3, <2>4 DEF IsSlot
  <2>7. BufferIsFifo'
    <3>1. Len(fifo)' <= n'
      BY <2>1, <2>2, <2>4
    <3>2. DOMAIN fifo' = {}
      BY <2>1, <2>4
    <3>3. QED
      BY <2>5, <2>6, <3>1, <3>2 DEF BufferIsFifo
  <2>8. head' \in 0..n' /\ tail' \in 0..n'
    BY <2>1, <2>2
  <2>9. QED
    BY <1>1, <1>3, <2>1, <2>5, <2>7, <2>8 DEF RingInv
<1>13. QED
  BY <1>4, <1>6, <1>7, <1>9, <1>10, <1>11, <1>12 DEF BufferInv

\* The semaphores are opened: nobody has a unit and all are free.
LEMMA OpenAllKeeps ==
    ASSUME BufferInv, OpenAll
    PROVE  BufferInv'
<1>1. /\ pc[Main] = "open" /\ verdict[Main] = "none" /\ pc' = [pc EXCEPT ![Main] = "create"]
      /\ usable' = Sems
      /\ units' = [s \in Sems |-> CASE s = "spaceAvailable" -> n
                                    [] s \in {"mutexHead", "mutexTail"} -> 1
                                    [] OTHER -> 0]
      /\ UNCHANGED <<waiters, verdict, back, local, bufferVars, testVars>>
  BY DEF OpenAll, Step
<1>2. /\ Main \in Threads /\ SemTypes /\ QueuesAreWaiters /\ "create" \in Points
      /\ n \in Nat
  BY BufferAssumption DEF Threads, BufferInv, Points, During, TestTypes
<1>3. /\ pc'[Main] = "create" /\ \A u \in Threads : u # Main => pc'[u] = pc[u]
      /\ pc' \in [Threads -> Points]
  BY <1>1, <1>2 DEF SemTypes
<1>4. /\ \A u \in Threads \ {Main} : pc[u] = "none" /\ pc'[u] = "none"
      /\ local[Main] = 0 /\ fifo = <<>>
  BY <1>1, <1>3 DEF BufferInv, MadeSoFar, Before, RingInv
<1>5. /\ \A u \in Threads : Awaited(pc[u]) = {} /\ Awaited(pc'[u]) = {}
      /\ \A u \in Threads : Kept(pc'[u]) = {}
  BY <1>1, <1>3, <1>4 DEF Awaited, Kept
<1>6. \A s \in Sems : waiters[s] = <<>>
  BY <1>2, <1>5, NoWaiters
<1>7. \A u \in Threads : verdict[u] = "none"
  BY <1>2, <1>5 DEF QueuesAreWaiters
<1>8. /\ units' \in [Sems -> Nat]
      /\ units'["spaceAvailable"] = n /\ units'["itemAvailable"] = 0
      /\ units'["mutexHead"] = 1 /\ units'["mutexTail"] = 1 /\ units'["waitForAll"] = 0
  BY <1>1, <1>2 DEF Sems
<1>9. SemTypes'
  BY <1>1, <1>2, <1>3, <1>8 DEF SemTypes
<1>10. QueuesAreWaiters'
  <2>1. ASSUME NEW s \in Sems, NEW u \in Threads
        PROVE  u \in ToSet(waiters[s]) <=> s \in Awaited(pc'[u]) /\ verdict[u] = "waiting"
    BY <1>2, <1>5, <1>7 DEF QueuesAreWaiters
  <2>2. QED
    BY <1>1, <1>2, <1>6, <1>7, <2>1 DEF QueuesAreWaiters
<1>11. ASSUME NEW s PROVE Cardinality(Holders(s))' = 0
  <2>1. Holders(s)' = {}
    BY <1>5 DEF Holders, Has
  <2>2. PICK B : B = Holders(s)'
    OBVIOUS
  <2>3. Cardinality(B) = 0
    BY <2>1, <2>2, FS_EmptySet
  <2>4. QED
    BY <2>2, <2>3
<1>12. UnitsAreCounted'
  <2>1. Len(fifo)' = 0 /\ n' = n
    BY <1>1, <1>4 DEF bufferVars, testVars
  <2>2. /\ Load("spaceAvailable")' = n /\ Load("itemAvailable")' = 0
        /\ Load("mutexHead")' = 1 /\ Load("mutexTail")' = 1
    BY <1>2, <1>8, <1>11 DEF Load
  <2>3. QED
    BY <1>2, <2>1, <2>2 DEF UnitsAreCounted
<1>13. EndsAreCounted'
  <2>1. Ended' = {}
    BY <1>3, <1>4 DEF Ended
  <2>2. PICK B : B = Ended'
    OBVIOUS
  <2>3. Cardinality(B) = 0
    BY <2>1, <2>2, FS_EmptySet
  <2>4. Given' = 0
    BY <1>3 DEF Given
  <2>5. QED
    BY <1>8, <2>2, <2>3, <2>4 DEF EndsAreCounted
<1>14. UNCHANGED <<head, tail, buffer, fifo, threadEnd, threadNum, n>>
  BY <1>1 DEF bufferVars, testVars
<1>15. TestTypes'
  BY <1>1, <1>14 DEF BufferInv, TestTypes
<1>16. Roles'
  BY <1>1, <1>3 DEF BufferInv, Roles, During, CntPoints
<1>17. /\ "create" \in During /\ "create" \notin Before /\ "create" \notin Ending
  BY DEF During, Before, Ending, CntPoints
<1>18. OpenSems'
  BY <1>1, <1>3, <1>17 DEF OpenSems
<1>19. MadeSoFar'
  <2>1. Consumer \in Threads \ {Main} /\ Producers \subseteq Threads \ {Main}
    BY BufferAssumption DEF Threads
  <2>2. MaxThreads \in Nat /\ threadNum \in 0..MaxThreads
    BY BufferAssumption DEF BufferInv, TestTypes
  <2>3. local'[Main] = 0 /\ local'[Main] \in 0..threadNum
    BY <1>1, <1>4, <2>2
  <2>4. QED
    BY <1>3, <1>4, <1>14, <1>17, <2>1, <2>3 DEF MadeSoFar
<1>20. RingInv'
  <2>1. \A u \in Threads : pc'[u] \notin {"putAdvance", "getAdvance"}
    BY <1>3, <1>4
  <2>2. QED
    BY <1>1, <1>3, <1>14, <1>17, <2>1, RingFrame
<1>21. QED
  BY <1>9, <1>10, <1>12, <1>13, <1>15, <1>16, <1>18, <1>19, <1>20 DEF BufferInv

\* One more thread is made.
LEMMA CreateKeeps ==
    ASSUME BufferInv, Create
    PROVE  BufferInv'
<1>1. PICK i : i = local[Main]
  OBVIOUS
<1>2. PICK t : t = IF i = 0 THEN Consumer ELSE i - 1
  OBVIOUS
<1>3. PICK point : point = IF t = Consumer THEN "consume" ELSE "produce"
  OBVIOUS
<1>4. PICK to : to = IF i = threadNum THEN "wait" ELSE "create"
  OBVIOUS
<1>5. /\ pc[Main] = "create"
      /\ pc' = [pc EXCEPT ![t] = point, ![Main] = to]
      /\ local' = [local EXCEPT ![Main] = IF i = threadNum THEN 0 ELSE i + 1]
      /\ UNCHANGED <<semVars, back, bufferVars, testVars>>
  BY <1>1, <1>2, <1>3, <1>4 DEF Create
<1>6. /\ pc[Main] \in During /\ to \in During /\ to \in {"wait", "create"}
      /\ pc[Main] \notin Before /\ to \notin Before
      /\ pc[Main] \notin Ending /\ to \notin Ending
  BY <1>4, <1>5 DEF During, Before, Ending, CntPoints
<1>7. /\ MaxThreads \in Nat /\ threadNum \in 0..MaxThreads /\ threadNum \in Nat
      /\ i \in 0..threadNum
  BY <1>1, <1>5, BufferAssumption DEF BufferInv, TestTypes, MadeSoFar
<1>8. i # 0 => i - 1 \in Producers
  BY <1>7 DEF Producers
<1>9. /\ t \in Threads \ {Main} /\ Main \in Threads /\ Consumer \in Threads
      /\ Producers \subseteq Threads \ {Main} /\ Consumer \notin Producers
  BY <1>2, <1>8, BufferAssumption DEF Threads
<1>10. pc[t] = "none"
  <2>1. /\ i = 0 => pc[Consumer] = "none"
        /\ \A u \in Producers : u >= i - 1 => pc[u] = "none"
    BY <1>1, <1>5 DEF BufferInv, MadeSoFar
  <2>2. CASE i = 0
    BY <1>2, <2>1, <2>2
  <2>3. CASE i # 0
    <3>1. i - 1 >= i - 1 /\ t = i - 1
      BY <1>2, <1>7, <2>3
    <3>2. QED
      BY <1>8, <2>1, <2>3, <3>1
  <2>4. QED
    BY <2>2, <2>3
<1>11. /\ SemTypes /\ QueuesAreWaiters /\ point \in Points /\ to \in Points
       /\ point \in {"consume", "produce"}
  BY <1>3, <1>4 DEF BufferInv, Points, WorkerPoints, Returns, During
<1>12. /\ pc'[t] = point /\ pc'[Main] = to
       /\ \A u \in Threads \ {t, Main} : pc'[u] = pc[u]
       /\ pc' \in [Threads -> Points]
  BY <1>5, <1>9, <1>11 DEF SemTypes
<1>13. verdict[t] = "none" /\ verdict[Main] = "none"
  <2>1. Awaited(pc[t]) = {} /\ Awaited(pc[Main]) = {}
    BY <1>5, <1>10 DEF Awaited
  <2>2. QED
    BY <1>9, <1>11, <2>1 DEF QueuesAreWaiters
<1>14. SemTypes' /\ QueuesAreWaiters'
  <2>1. \A u \in Threads : verdict[u] = "none" \/ pc'[u] = pc[u]
    BY <1>12, <1>13
  <2>2. QED
    BY <1>5, <1>11, <1>12, <2>1, SemsStay
<1>15. UNCHANGED <<usable, units, verdict, head, tail, buffer, fifo, threadEnd, threadNum, n>>
  BY <1>5 DEF semVars, bufferVars, testVars
<1>16. ASSUME NEW r \in Sems \ {"waitForAll"} PROVE Load(r)' = Load(r)
  <2>1. ASSUME NEW u \in Threads PROVE r \in Has(u)' <=> r \in Has(u)
    <3>1. CASE u \in {t, Main}
      BY <1>5, <1>6, <1>10, <1>11, <1>12, <3>1 DEF Has, Kept, Awaited
    <3>2. CASE u \notin {t, Main}
      BY <1>12, <1>15, <3>2 DEF Has
    <3>3. QED
      BY <3>1, <3>2
  <2>2. QED
    BY <1>15, <2>1, SameLoad
<1>17. UnitsAreCounted'
  BY <1>6, <1>15, <1>16 DEF UnitsAreCounted, BufferInv, Sems
<1>18. EndsAreCounted'
  <2>1. Ended' = Ended
    BY <1>10, <1>11, <1>12 DEF Ended
  <2>2. Given = 0
    BY <1>5 DEF Given
  <2>3. local'[Main] = IF i = threadNum THEN 0 ELSE i + 1
    BY <1>5, <1>9 DEF BufferInv, TestTypes
  <2>4. Given' = 0
    BY <1>4, <1>12, <1>13, <1>15, <2>3 DEF Given
  <2>5. QED
    BY <1>6, <1>15, <2>1, <2>2, <2>4 DEF EndsAreCounted, BufferInv
<1>19. /\ local'[Main] = IF i = threadNum THEN 0 ELSE i + 1
       /\ \A u \in Threads : u # Main => local'[u] = local[u]
       /\ local' \in [Threads -> Values]
  <2>1. local \in [Threads -> Values]
    BY DEF BufferInv, TestTypes
  <2>2. (IF i = threadNum THEN 0 ELSE i + 1) \in Values
    BY <1>7 DEF Values
  <2>3. QED
    BY <1>5, <1>9, <2>1, <2>2
<1>20. TestTypes'
  BY <1>5, <1>15, <1>19 DEF BufferInv, TestTypes
<1>21. Roles'
  BY <1>5, <1>6, <1>11, <1>12
     DEF BufferInv, Roles, WorkerPoints, Returns, InBuffer, CntPoints
<1>22. OpenSems'
  BY <1>6, <1>12, <1>15 DEF OpenSems, BufferInv
<1>23. MadeSoFar'
  <2>1. local'[Main] \in 0..threadNum /\ (to = "create" => local'[Main] = i + 1)
    BY <1>4, <1>7, <1>19
  <2>2. \A u \in Producers : u >= i => u # t
    BY <1>2, <1>7, <1>9 DEF Producers
  <2>3. \A u \in Producers : u >= i => pc[u] = "none"
    <3>1. \A u \in Producers : u >= i => u >= i - 1
      BY <1>7 DEF Producers
    <3>2. QED
      BY <1>1, <1>5, <3>1 DEF BufferInv, MadeSoFar
  <2>4. \A u \in Producers : u >= i => pc'[u] = "none"
    BY <1>9, <1>12, <2>2, <2>3
  <2>5. \A u \in Producers : u >= threadNum => u >= i
    BY <1>7 DEF Producers
  <2>6. (i + 1) - 1 = i /\ i + 1 # 0
    BY <1>7
  <2>7. QED
    BY <1>6, <1>12, <1>15, <2>1, <2>4, <2>5, <2>6 DEF MadeSoFar
<1>24. RingInv'
  <2>1. \A u \in Threads :
            pc'[u] \in {"putAdvance", "getAdvance"}
            => pc[u] = pc'[u] /\ local'[u] = local[u]
    BY <1>6, <1>11, <1>12, <1>19
  <2>2. pc'[Main] \notin {"cntUnlock", "cntSignal", "print"}
    BY <1>6, <1>12
  <2>3. QED
    BY <1>6, <1>5, <1>12, <1>15, <2>1, <2>2, RingFrame
<1>25. QED
  BY <1>14, <1>17, <1>18, <1>20, <1>21, <1>22, <1>23, <1>24 DEF BufferInv

\* main() waits for one more thread.
LEMMA WaitAllKeeps ==
    ASSUME BufferInv, WaitAll
    PROVE  BufferInv'
<1>1. PICK i : i = local[Main]
  OBVIOUS
<1>2. PICK to : to = IF i < threadNum THEN "wait" ELSE "closeAll"
  OBVIOUS
<1>3. /\ pc[Main] = "wait" /\ verdict[Main] = "none" /\ pc' = [pc EXCEPT ![Main] = to]
      /\ S!Acquire("waitForAll") \/ S!Enqueue("waitForAll", Main, "waiting")
      /\ local' = [local EXCEPT ![Main] = i + 1]
      /\ UNCHANGED <<back, bufferVars, testVars>>
  BY <1>1, <1>2 DEF WaitAll, WaitsLeft, Step
<1>4. /\ MaxThreads \in Nat /\ threadNum \in 0..MaxThreads /\ threadNum \in Nat
      /\ i \in 0..threadNum
  BY <1>1, <1>3, BufferAssumption DEF BufferInv, TestTypes, MadeSoFar
<1>5. /\ pc[Main] \in During /\ to \in During /\ to \in {"wait", "closeAll"}
      /\ pc[Main] \notin Before /\ to \notin Before
      /\ pc[Main] \notin Ending /\ to \notin Ending
  BY <1>2, <1>3 DEF During, Before, Ending, CntPoints
<1>6. /\ Main \in Threads /\ SemTypes /\ QueuesAreWaiters /\ to \in Points
      /\ "waitForAll" \in Sems /\ Awaited(to) = {"waitForAll"}
  BY <1>5 DEF Threads, BufferInv, Points, Sems, Awaited
<1>7. /\ SemTypes' /\ QueuesAreWaiters'
      /\ usable' = usable
      /\ \A r \in Sems : r # "waitForAll" => units'[r] = units[r]
      /\ \A u \in Threads : u # Main => verdict'[u] = verdict[u]
      /\ \/ verdict'[Main] = "waiting" /\ units'["waitForAll"] = units["waitForAll"]
         \/ verdict'[Main] = "none" /\ units'["waitForAll"] = units["waitForAll"] - 1
  BY <1>3, <1>6, WaitKeeps
<1>8. /\ pc'[Main] = to /\ \A u \in Threads : u # Main => pc'[u] = pc[u]
  BY <1>3, <1>6 DEF SemTypes
<1>9. /\ local'[Main] = i + 1
      /\ \A u \in Threads : u # Main => local'[u] = local[u]
      /\ local' \in [Threads -> Values]
  <2>1. local \in [Threads -> Values]
    BY DEF BufferInv, TestTypes
  <2>2. i + 1 \in Values
    BY <1>4 DEF Values
  <2>3. QED
    BY <1>3, <1>6, <2>1, <2>2
<1>10. UNCHANGED <<head, tail, buffer, fifo, threadEnd, threadNum, n>>
  BY <1>3 DEF bufferVars, testVars
<1>11. ASSUME NEW r \in Sems \ {"waitForAll"} PROVE Load(r)' = Load(r)
  <2>1. ASSUME NEW u \in Threads PROVE r \in Has(u)' <=> r \in Has(u)
    <3>1. CASE u = Main
      BY <1>3, <1>5, <1>8, <3>1 DEF Has, Kept, Awaited
    <3>2. CASE u # Main
      BY <1>7, <1>8, <3>2 DEF Has
    <3>3. QED
      BY <3>1, <3>2
  <2>2. QED
    BY <1>7, <2>1, SameLoad
<1>12. UnitsAreCounted'
  BY <1>5, <1>10, <1>11 DEF UnitsAreCounted, BufferInv, Sems
<1>13. EndsAreCounted'
  <2>1. Ended' = Ended
    BY <1>8 DEF Ended
  <2>2. Given = i
    BY <1>1, <1>3 DEF Given
  <2>3. Given' = IF verdict'[Main] = "waiting" THEN i ELSE i + 1
    <3>1. (i + 1) - 1 = i
      BY <1>4
    <3>2. QED
      BY <1>5, <1>8, <1>9, <3>1 DEF Given
  <2>4. units["waitForAll"] \in Nat /\ units["waitForAll"] + i = Cardinality(Ended)
    BY <1>5, <1>6, <2>2 DEF BufferInv, EndsAreCounted, SemTypes
  <2>5. units'["waitForAll"] + Given' = Cardinality(Ended)
    <3>1. CASE verdict'[Main] = "waiting"
      BY <1>7, <2>3, <2>4, <3>1
    <3>2. CASE verdict'[Main] # "waiting"
      BY <1>4, <1>7, <2>3, <2>4, <3>2
    <3>3. QED
      BY <3>1, <3>2
  <2>6. QED
    BY <2>1, <2>5 DEF EndsAreCounted
<1>14. TestTypes'
  BY <1>3, <1>9, <1>10 DEF BufferInv, TestTypes
<1>15. Roles'
  BY <1>3, <1>5, <1>8 DEF BufferInv, Roles, CntPoints
<1>16. OpenSems'
  BY <1>5, <1>7, <1>8 DEF OpenSems, BufferInv
<1>17. MadeSoFar'
  <2>1. /\ to = "wait" => i + 1 \in 0..threadNum
        /\ to = "closeAll" => i + 1 = threadNum + 1
    BY <1>2, <1>4
  <2>2. \A u \in Producers : u >= threadNum => pc'[u] = "none"
    <3>1. \A u \in Producers : u >= threadNum => pc[u] = "none"
      BY <1>5 DEF BufferInv, MadeSoFar
    <3>2. Producers \subseteq Threads \ {Main}
      BY BufferAssumption DEF Threads
    <3>3. QED
      BY <1>8, <3>1, <3>2
  <2>3. QED
    BY <1>5, <1>8, <1>9, <1>10, <2>1, <2>2 DEF MadeSoFar
<1>18. RingInv'
  <2>1. \A u \in Threads :
            pc'[u] \in {"putAdvance", "getAdvance"}
            => pc[u] = pc'[u] /\ local'[u] = local[u]
    BY <1>5, <1>8, <1>9
  <2>2. pc'[Main] \notin {"cntUnlock", "cntSignal", "print"}
    BY <1>5, <1>8
  <2>3. QED
    BY <1>3, <1>5, <1>8, <1>10, <2>1, <2>2, RingFrame
<1>19. QED
  BY <1>7, <1>12, <1>13, <1>14, <1>15, <1>16, <1>17, <1>18 DEF BufferInv

\* When main() has been given a unit for each thread that was made, all of
\* them have ended.
LEMMA AllHaveEnded ==
    ASSUME BufferInv, pc[Main] = "closeAll", verdict[Main] = "none"
    PROVE  \A u \in Threads \ {Main} : pc[u] \in {"none", "done"}
<1> DEFINE Made == {Consumer} \cup 0..threadNum - 1
<1>1. PICK k \in Nat : k = threadNum /\ k <= MaxThreads
  BY BufferAssumption DEF BufferInv, TestTypes
<1>2. PICK A : A = Ended
  OBVIOUS
<1>3. A \subseteq Made /\ IsFiniteSet(A) /\ Cardinality(A) \in Nat
  <2>1. \A u \in Producers : u >= threadNum => pc[u] = "none"
    BY DEF BufferInv, MadeSoFar, During
  <2>2. ASSUME NEW u \in Ended PROVE u \in Made
    <3>1. u \in Threads \ {Main} /\ pc[u] = "done"
      BY DEF Ended
    <3>2. CASE u \in Producers
      <4>1. ~(u >= threadNum)
        BY <2>1, <3>1, <3>2
      <4>2. QED
        BY <1>1, <3>2, <4>1 DEF Producers
    <3>3. CASE u = Consumer
      BY <3>3
    <3>4. QED
      BY <3>1, <3>2, <3>3 DEF Threads
  <2>3. QED
    BY <1>2, <2>2, EndedFinite
<1>4. IsFiniteSet(Made) /\ Cardinality(Made) = threadNum + 1
  <2>1. IsFiniteSet(0..k - 1) /\ Cardinality(0..k - 1) = k
    <3>1. 0 \in Int /\ k - 1 \in Int
      OBVIOUS
    <3>2. /\ IsFiniteSet(0..k - 1)
          /\ Cardinality(0..k - 1) = IF 0 > k - 1 THEN 0 ELSE (k - 1) - 0 + 1
      BY <3>1, FS_Interval
    <3>3. QED
      BY <3>2
  <2>2. Consumer \notin 0..k - 1
    BY <1>1, BufferAssumption DEF Producers
  <2>3. PICK B : B = 0..k - 1
    OBVIOUS
  <2>4. IsFiniteSet(B \cup {Consumer}) /\ Cardinality(B \cup {Consumer}) = k + 1
    BY <2>1, <2>2, <2>3, FS_AddElement
  <2>5. Made = B \cup {Consumer}
    BY <1>1, <2>3
  <2>6. QED
    BY <1>1, <2>4, <2>5
<1>5. Cardinality(A) >= threadNum + 1
  <2>1. units["waitForAll"] \in Nat /\ local[Main] = threadNum + 1
    BY DEF BufferInv, SemTypes, Sems, MadeSoFar
  <2>2. Given = threadNum + 1
    BY <2>1 DEF Given
  <2>3. units["waitForAll"] + Given = Cardinality(A)
    BY <1>2 DEF BufferInv, EndsAreCounted, During
  <2>4. QED
    BY <1>1, <1>3, <2>1, <2>2, <2>3
<1> HIDE DEF Made
<1>6. Cardinality(A) <= Cardinality(Made) /\ (Cardinality(A) = Cardinality(Made) => A = Made)
  BY <1>3, <1>4, FS_Subset
<1>7. A = Made
  BY <1>1, <1>3, <1>4, <1>5, <1>6
<1>8. ASSUME NEW u \in Threads \ {Main} PROVE pc[u] \in {"none", "done"}
  <2>1. CASE u \in Made
    BY <1>2, <1>7, <2>1 DEF Ended
  <2>2. CASE u \notin Made
    <3>1. u \in Producers /\ u >= threadNum
      BY <1>1, <2>2 DEF Made, Threads, Producers
    <3>2. QED
      BY <3>1 DEF BufferInv, MadeSoFar, During
  <2>3. QED
    BY <2>1, <2>2
<1>9. QED
  BY <1>8

-----------------------------------------------------------------------------
\* When the threads have ended there is only main().
LEMMA EndingStep ==
    ASSUME BufferInv, NEW to \in Ending, pc' = [pc EXCEPT ![Main] = to],
           \A u \in Threads \ {Main} : pc[u] \in {"none", "done"},
           SemTypes', QueuesAreWaiters', usable' = StillOpen(to),
           local' = [local EXCEPT ![Main] = local'[Main]], local'[Main] \in Values,
           back' = [back EXCEPT ![Main] = back'[Main]],
           back'[Main] \in Returns \cup {"print", "done"},
           to \in CntPoints => back'[Main] = "print",
           UNCHANGED <<threadNum, n>>, RingInv'
    PROVE  BufferInv'
<1>1. /\ Main \in Threads /\ pc'[Main] = to
      /\ \A u \in Threads : u # Main => pc'[u] = pc[u]
  BY DEF Threads, BufferInv, SemTypes
<1>2. to \notin Before /\ to \notin During /\ to \notin {"create", "wait", "closeAll"}
  BY DEF Before, During, Ending, CntPoints
<1>3. TestTypes'
  BY DEF BufferInv, TestTypes
<1>4. Roles'
  BY <1>1 DEF Roles, BufferInv, WorkerPoints, InBuffer, CntPoints
<1>5. UnitsAreCounted' /\ EndsAreCounted'
  BY <1>1, <1>2 DEF UnitsAreCounted, EndsAreCounted
<1>6. MadeSoFar'
  BY <1>1, <1>2 DEF MadeSoFar
<1>7. OpenSems'
  BY <1>1, <1>2 DEF OpenSems
<1>8. QED
  BY <1>3, <1>4, <1>5, <1>6, <1>7 DEF BufferInv

\* Of such a step: main() is at a point where the others have ended.
LEMMA AtEnding ==
    ASSUME BufferInv, NEW from \in Ending, NEW to \in Ending, Step(Main, from, to)
    PROVE  /\ pc[Main] = from /\ verdict[Main] = "none" /\ pc' = [pc EXCEPT ![Main] = to]
           /\ Main \in Threads /\ pc'[Main] = to
           /\ \A u \in Threads : u # Main => pc'[u] = pc[u]
           /\ pc' \in [Threads -> Points] /\ to \in Points
           /\ \A u \in Threads \ {Main} : pc[u] \in {"none", "done"}
           /\ usable = StillOpen(from)
           /\ SemTypes /\ QueuesAreWaiters
           /\ pc[Main] \in CntPoints => back[Main] = "print"
           /\ back[Main] \in Returns \cup {"print", "done"} /\ local[Main] \in Values
           /\ back = [back EXCEPT ![Main] = back[Main]]
           /\ local = [local EXCEPT ![Main] = local[Main]]
<1>1. pc[Main] = from /\ verdict[Main] = "none" /\ pc' = [pc EXCEPT ![Main] = to]
  BY DEF Step
<1>2. Main \in Threads /\ SemTypes /\ QueuesAreWaiters /\ to \in Points
  BY DEF Threads, BufferInv, Points
<1>3. /\ pc'[Main] = to /\ \A u \in Threads : u # Main => pc'[u] = pc[u]
      /\ pc' \in [Threads -> Points]
  BY <1>1, <1>2 DEF SemTypes
<1>4. from \notin Before /\ from \notin During
  BY DEF Before, During, Ending, CntPoints
<1>5. \A u \in Threads \ {Main} : pc[u] \in {"none", "done"}
  BY <1>1 DEF BufferInv, MadeSoFar
<1>6. usable = StillOpen(from)
  BY <1>1, <1>4 DEF BufferInv, OpenSems
<1>7. /\ pc[Main] \in CntPoints => back[Main] = "print"
      /\ back[Main] \in Returns \cup {"print", "done"} /\ local[Main] \in Values
      /\ back = [back EXCEPT ![Main] = back[Main]]
      /\ local = [local EXCEPT ![Main] = local[Main]]
  BY <1>2 DEF BufferInv, Roles, TestTypes
<1>8. QED
  BY <1>1, <1>2, <1>3, <1>5, <1>6, <1>7

\* The ring is as it was if main() does not touch it.
LEMMA EndingRing ==
    ASSUME BufferInv, NEW from \in Ending, NEW to \in Ending, Step(Main, from, to),
           UNCHANGED <<bufferVars, n>>,
           to \in {"cntUnlock", "cntSignal", "print"} => local'[Main] = Len(fifo)
    PROVE  RingInv'
<1>1. /\ pc'[Main] = to
      /\ \A u \in Threads : u # Main => pc'[u] = pc[u]
      /\ \A u \in Threads \ {Main} : pc[u] \in {"none", "done"}
  BY AtEnding
<1>2. to \notin Before /\ to \notin {"putAdvance", "getAdvance"}
  BY DEF Before, Ending, CntPoints
<1>3. \A u \in Threads : pc'[u] \notin {"putAdvance", "getAdvance"}
  BY <1>1, <1>2
<1>4. QED
  BY <1>1, <1>2, <1>3, RingFrame

\* getCnt in main(): it waits for the locks.
LEMMA EndingWait ==
    ASSUME BufferInv, NEW from \in CntPoints, NEW to \in CntPoints, NEW s \in Sems,
           Wait(Main, from, s, to), Awaited(to) = {s}, to \notin {"cntUnlock", "cntSignal"}
    PROVE  BufferInv'
<1>1. /\ Step(Main, from, to) /\ from \in Ending /\ to \in Ending
      /\ UNCHANGED <<back, local, bufferVars, testVars>>
      /\ S!Acquire(s) \/ S!Enqueue(s, Main, "waiting")
  BY DEF Wait, SemCall, Ending
<1>2. /\ pc[Main] = from /\ verdict[Main] = "none" /\ pc' = [pc EXCEPT ![Main] = to]
      /\ Main \in Threads /\ to \in Points
      /\ \A u \in Threads \ {Main} : pc[u] \in {"none", "done"}
      /\ usable = StillOpen(from)
      /\ SemTypes /\ QueuesAreWaiters
      /\ pc[Main] \in CntPoints => back[Main] = "print"
      /\ back[Main] \in Returns \cup {"print", "done"} /\ local[Main] \in Values
      /\ back = [back EXCEPT ![Main] = back[Main]]
      /\ local = [local EXCEPT ![Main] = local[Main]]
  BY <1>1, AtEnding
<1>3. SemTypes' /\ QueuesAreWaiters' /\ usable' = usable
  BY <1>1, <1>2, WaitKeeps
<1>4. usable' = StillOpen(to)
  BY <1>2, <1>3 DEF StillOpen, CntPoints
<1>5. UNCHANGED <<bufferVars, threadNum, n>> /\ to \notin {"cntUnlock", "cntSignal", "print"}
  BY <1>1 DEF testVars, CntPoints
<1>6. RingInv'
  BY <1>1, <1>5, EndingRing
<1>7. QED
  BY <1>1, <1>2, <1>3, <1>4, <1>5, <1>6, EndingStep

\* It gives them back: the count it has read is still right.
LEMMA EndingSignal ==
    ASSUME BufferInv, NEW from \in {"cntUnlock", "cntSignal"},
           NEW to \in {"cntSignal", "print"}, NEW s \in Sems,
           Signal(Main, from, s, to)
    PROVE  BufferInv'
<1>1. /\ Step(Main, from, to) /\ from \in Ending /\ to \in Ending
      /\ UNCHANGED <<back, local, bufferVars, testVars>>
      /\ S!Release(s)
  BY DEF Signal, SemCall, Ending, CntPoints
<1>2. /\ pc[Main] = from /\ verdict[Main] = "none" /\ pc' = [pc EXCEPT ![Main] = to]
      /\ Main \in Threads /\ to \in Points
      /\ \A u \in Threads \ {Main} : pc[u] \in {"none", "done"}
      /\ usable = StillOpen(from)
      /\ SemTypes /\ QueuesAreWaiters
      /\ pc[Main] \in CntPoints => back[Main] = "print"
      /\ back[Main] \in Returns \cup {"print", "done"} /\ local[Main] \in Values
      /\ back = [back EXCEPT ![Main] = back[Main]]
      /\ local = [local EXCEPT ![Main] = local[Main]]
  BY <1>1, AtEnding
<1>3. SemTypes' /\ QueuesAreWaiters' /\ usable' = usable
  BY <1>1, <1>2, SignalKeeps
<1>4. usable' = StillOpen(to)
  BY <1>2, <1>3 DEF StillOpen
<1>5. /\ UNCHANGED <<bufferVars, threadNum, n>> /\ local'[Main] = Len(fifo)
      /\ back'[Main] = "print"
  BY <1>1, <1>2 DEF testVars, CntPoints, BufferInv, RingInv
<1>6. RingInv'
  BY <1>1, <1>5, EndingRing
<1>7. QED
  BY <1>1, <1>2, <1>3, <1>4, <1>5, <1>6, EndingStep

\* A statement of main() that calls no semaphore and leaves the buffer alone.
LEMMA EndingQuiet ==
    ASSUME BufferInv, NEW from \in Ending, NEW to \in Ending, Step(Main, from, to),
           UNCHANGED <<semVars, bufferVars, threadNum, n>>,
           StillOpen(from) = StillOpen(to),
           local' = [local EXCEPT ![Main] = local'[Main]], local'[Main] \in Values,
           back' = [back EXCEPT ![Main] = back'[Main]],
           back'[Main] \in Returns \cup {"print", "done"},
           to \in CntPoints => back'[Main] = "print",
           to \in {"cntUnlock", "cntSignal", "print"} => local'[Main] = Len(fifo)
    PROVE  BufferInv'
<1>1. /\ pc[Main] = from /\ verdict[Main] = "none" /\ pc' = [pc EXCEPT ![Main] = to]
      /\ \A u \in Threads : u # Main => pc'[u] = pc[u]
      /\ pc' \in [Threads -> Points]
      /\ \A u \in Threads \ {Main} : pc[u] \in {"none", "done"}
      /\ usable = StillOpen(from)
      /\ SemTypes /\ QueuesAreWaiters
  BY AtEnding
<1>2. SemTypes' /\ QueuesAreWaiters'
  BY <1>1, SemsStay
<1>3. RingInv'
  BY EndingRing
<1>4. usable' = StillOpen(to)
  BY <1>1 DEF semVars
<1>5. QED
  BY <1>1, <1>2, <1>3, <1>4, EndingStep

\* sem_close of one of the semaphores of the buffer.
LEMMA EndingClose ==
    ASSUME BufferInv, NEW from \in Ending, NEW to \in Ending, NEW s \in Sems,
           Close(from, s, to), StillOpen(to) = StillOpen(from) \ {s},
           to \notin CntPoints, to # "print"
    PROVE  BufferInv'
<1>1. /\ Step(Main, from, to) /\ S!Close(s)
      /\ UNCHANGED <<back, local, bufferVars, testVars>>
  BY DEF Close, SemCall
<1>2. /\ pc[Main] = from /\ verdict[Main] = "none" /\ pc' = [pc EXCEPT ![Main] = to]
      /\ Main \in Threads /\ to \in Points
      /\ \A u \in Threads \ {Main} : pc[u] \in {"none", "done"}
      /\ usable = StillOpen(from)
      /\ SemTypes /\ QueuesAreWaiters
      /\ back[Main] \in Returns \cup {"print", "done"} /\ local[Main] \in Values
      /\ back = [back EXCEPT ![Main] = back[Main]]
      /\ local = [local EXCEPT ![Main] = local[Main]]
  BY <1>1, AtEnding
<1>3. \A u \in Threads : s \in Awaited(pc[u]) => verdict[u] # "waiting"
  <2>1. \A u \in Threads \ {Main} : Awaited(pc[u]) = {}
    BY <1>2 DEF Awaited
  <2>2. QED
    BY <1>2, <2>1
<1>4. SemTypes' /\ QueuesAreWaiters' /\ usable' = usable \ {s}
  BY <1>1, <1>2, <1>3, CloseKeeps
<1>5. /\ UNCHANGED <<bufferVars, threadNum, n>>
      /\ to \notin {"cntUnlock", "cntSignal", "print"}
  BY <1>1 DEF testVars, CntPoints
<1>6. RingInv'
  BY <1>1, <1>5, EndingRing
<1>7. QED
  BY <1>1, <1>2, <1>4, <1>5, <1>6, EndingStep

\* The semaphore of the ends is closed when everybody has given its unit.
LEMMA CloseAllKeeps ==
    ASSUME BufferInv, CloseAll
    PROVE  BufferInv'
<1>1. /\ pc[Main] = "closeAll" /\ verdict[Main] = "none"
      /\ pc' = [pc EXCEPT ![Main] = "delete"]
      /\ S!Close("waitForAll")
      /\ UNCHANGED <<back, local, bufferVars, testVars>>
  BY DEF CloseAll, Close, SemCall, Step
<1>2. /\ Main \in Threads /\ SemTypes /\ QueuesAreWaiters
      /\ "delete" \in Ending /\ "delete" \in Points /\ "waitForAll" \in Sems
      /\ "delete" \notin Before /\ "delete" \notin CntPoints
  BY DEF Threads, BufferInv, Points, Sems, Ending, Before, CntPoints
<1>3. \A u \in Threads \ {Main} : pc[u] \in {"none", "done"}
  BY <1>1, AllHaveEnded
<1>4. \A u \in Threads : "waitForAll" \in Awaited(pc[u]) => verdict[u] # "waiting"
  <2>1. \A u \in Threads \ {Main} : Awaited(pc[u]) = {}
    BY <1>3 DEF Awaited
  <2>2. QED
    BY <1>1, <2>1
<1>5. SemTypes' /\ QueuesAreWaiters' /\ usable' = usable \ {"waitForAll"}
  BY <1>1, <1>2, <1>4, CloseKeeps
<1>6. usable' = StillOpen("delete")
  <2>1. usable = Sems
    BY <1>1 DEF BufferInv, OpenSems, During, Before
  <2>2. QED
    BY <1>5, <2>1 DEF StillOpen
<1>7. UNCHANGED <<bufferVars, threadNum, n>>
  BY <1>1 DEF testVars
<1>8. RingInv'
  <2>1. /\ pc'[Main] = "delete"
        /\ \A u \in Threads : u # Main => pc'[u] = pc[u]
    BY <1>1, <1>2 DEF SemTypes
  <2>2. \A u \in Threads : pc'[u] \notin {"putAdvance", "getAdvance"}
    BY <1>3, <2>1
  <2>3. QED
    BY <1>2, <1>7, <2>1, <2>2, RingFrame
<1>9. /\ back'[Main] \in Returns \cup {"print", "done"} /\ local'[Main] \in Values
      /\ back' = [back EXCEPT ![Main] = back'[Main]]
      /\ local' = [local EXCEPT ![Main] = local'[Main]]
  BY <1>1, <1>2 DEF BufferInv, TestTypes
<1>10. QED
  BY <1>1, <1>2, <1>3, <1>5, <1>6, <1>7, <1>8, <1>9, EndingStep

\* The statements of getCnt, in main().
LEMMA MainCntKeeps ==
    ASSUME BufferInv, BufferCode(Main)
    PROVE  BufferInv'
<1>1. pc[Main] \in Before \cup During \cup Ending
  BY DEF BufferInv, Roles
<1>2. \/ CntLockHead(Main) \/ CntLockTail(Main) \/ CntRead(Main)
      \/ CntUnlockTail(Main) \/ CntUnlockHead(Main)
  <2>1. pc[Main] \notin InBuffer \ CntPoints
    BY <1>1 DEF Before, During, Ending, InBuffer, CntPoints
  <2>2. ~PutWait(Main) /\ ~PutLock(Main) /\ ~GetWait(Main) /\ ~GetLock(Main)
    BY <2>1 DEF PutWait, PutLock, GetWait, GetLock, Wait, SemCall, Step,
                InBuffer, CntPoints
  <2>3. ~PutWrite(Main) /\ ~PutAdvance(Main) /\ ~GetRead(Main) /\ ~GetAdvance(Main)
    BY <2>1 DEF PutWrite, PutAdvance, GetRead, GetAdvance, Step, InBuffer, CntPoints
  <2>4. ~PutUnlock(Main) /\ ~PutSignal(Main) /\ ~GetUnlock(Main) /\ ~GetSignal(Main)
    BY <2>1 DEF PutUnlock, PutSignal, GetUnlock, GetSignal, Signal, SemCall, Step,
                InBuffer, CntPoints
  <2>5. QED
    BY <2>2, <2>3, <2>4 DEF BufferCode
<1>3. CASE CntLockHead(Main)
  <2>1. /\ "cnt" \in CntPoints /\ "cntLock" \in CntPoints /\ "mutexHead" \in Sems
        /\ Awaited("cntLock") = {"mutexHead"}
    BY DEF CntPoints, Sems, Awaited
  <2>2. QED
    BY <1>3, <2>1, EndingWait DEF CntLockHead
<1>4. CASE CntLockTail(Main)
  <2>1. /\ "cntLock" \in CntPoints /\ "cntRead" \in CntPoints /\ "mutexTail" \in Sems
        /\ Awaited("cntRead") = {"mutexTail"}
    BY DEF CntPoints, Sems, Awaited
  <2>2. QED
    BY <1>4, <2>1, EndingWait DEF CntLockTail
<1>5. CASE CntRead(Main)
  <2>1. /\ Step(Main, "cntRead", "cntUnlock")
        /\ UNCHANGED <<semVars, back, bufferVars, threadNum, n>>
        /\ "cntRead" \in Ending /\ "cntUnlock" \in Ending /\ "cntRead" \in CntPoints
        /\ StillOpen("cntRead") = StillOpen("cntUnlock")
    BY <1>5 DEF CntRead, testVars, Ending, CntPoints, StillOpen
  <2>2. Main \in Threads
    BY DEF Threads
  <2>3. local' = [local EXCEPT ![Main] = Len(fifo)]
    BY <1>5, <2>2, CntIsRead
  <2>4. local \in [Threads -> Values] /\ Len(fifo) \in Values
    BY RingTypes DEF BufferInv, TestTypes, Values
  <2>5. /\ local' = [local EXCEPT ![Main] = local'[Main]] /\ local'[Main] \in Values
        /\ local'[Main] = Len(fifo)
    BY <2>2, <2>3, <2>4
  <2>6. /\ back' = [back EXCEPT ![Main] = back'[Main]] /\ back'[Main] = "print"
    BY <2>1, AtEnding
  <2>7. QED
    BY <2>1, <2>5, <2>6, EndingQuiet
<1>6. CASE CntUnlockTail(Main)
  <2>1. "mutexTail" \in Sems
    BY DEF Sems
  <2>2. QED
    BY <1>6, <2>1, EndingSignal DEF CntUnlockTail
<1>7. CASE CntUnlockHead(Main)
  <2>1. "mutexHead" \in Sems
    BY DEF Sems
  <2>2. back[Main] = "print"
    BY <1>7 DEF CntUnlockHead, Signal, SemCall, Step, BufferInv, Roles, CntPoints
  <2>3. Signal(Main, "cntSignal", "mutexHead", "print")
    BY <1>7, <2>2 DEF CntUnlockHead
  <2>4. QED
    BY <2>1, <2>3, EndingSignal
<1>8. QED
  BY <1>2, <1>3, <1>4, <1>5, <1>6, <1>7

\* The destructor of the buffer.
LEMMA DeleteBufferKeeps ==
    ASSUME BufferInv, DeleteBuffer
    PROVE  BufferInv'
<1>1. Main \in Threads /\ 0 \in Values /\ local \in [Threads -> Values]
      /\ back \in [Threads -> Returns \cup {"print", "done"}]
  BY DEF Threads, Values, BufferInv, TestTypes
<1>2. CASE Call(Main, "delete", "cnt", "print", 0)
  <2>1. /\ Step(Main, "delete", "cnt")
        /\ UNCHANGED <<semVars, bufferVars, threadNum, n>>
        /\ back' = [back EXCEPT ![Main] = "print"] /\ local' = [local EXCEPT ![Main] = 0]
    BY <1>2 DEF Call, Quiet, testVars
  <2>2. /\ "delete" \in Ending /\ "cnt" \in Ending
        /\ StillOpen("delete") = StillOpen("cnt")
    BY DEF Ending, CntPoints, StillOpen
  <2>3. /\ local' = [local EXCEPT ![Main] = local'[Main]] /\ local'[Main] \in Values
        /\ back' = [back EXCEPT ![Main] = back'[Main]] /\ back'[Main] = "print"
    BY <1>1, <2>1
  <2>4. QED
    BY <2>1, <2>2, <2>3, EndingQuiet
<1>3. CASE /\ local[Main] > 0
           /\ Step(Main, "print", "delete")
           /\ head' = NextSlot(head)
           /\ fifo' = Tail(fifo)
           /\ UNCHANGED <<semVars, back, local, buffer, tail, testVars>>
  <2>1. "print" \in Ending /\ "delete" \in Ending /\ StillOpen("print") = StillOpen("delete")
    BY DEF Ending, CntPoints, StillOpen
  <2>2. /\ pc[Main] = "print" /\ verdict[Main] = "none" /\ pc' = [pc EXCEPT ![Main] = "delete"]
        /\ pc'[Main] = "delete"
        /\ \A u \in Threads : u # Main => pc'[u] = pc[u]
        /\ pc' \in [Threads -> Points]
        /\ \A u \in Threads \ {Main} : pc[u] \in {"none", "done"}
        /\ usable = StillOpen("print")
        /\ SemTypes /\ QueuesAreWaiters
    BY <1>3, <2>1, AtEnding
  <2>3. Len(fifo) >= 1
    <3>1. local[Main] = Len(fifo)
      BY <2>2 DEF BufferInv, RingInv
    <3>2. Len(fifo) \in Nat
      BY RingTypes
    <3>3. QED
      BY <1>3, <3>1, <3>2
  <2>4. \A u \in Threads : pc'[u] \notin {"putAdvance", "getAdvance"}
    BY <2>2
  <2>5. /\ "delete" \notin Before /\ "delete" \notin CntPoints
        /\ UNCHANGED <<buffer, tail, threadNum, n>>
    BY <1>3 DEF Before, CntPoints, testVars
  <2>6. RingInv'
    BY <1>3, <2>2, <2>3, <2>4, <2>5, RingAfterTake
  <2>7. SemTypes' /\ QueuesAreWaiters'
    BY <1>3, <2>2, SemsStay
  <2>8. usable' = StillOpen("delete")
    BY <1>3, <2>1, <2>2 DEF semVars
  <2>9. /\ local' = [local EXCEPT ![Main] = local'[Main]] /\ local'[Main] \in Values
        /\ back' = [back EXCEPT ![Main] = back'[Main]]
        /\ back'[Main] \in Returns \cup {"print", "done"}
    BY <1>1, <1>3
  <2>10. QED
    BY <2>1, <2>2, <2>5, <2>6, <2>7, <2>8, <2>9, EndingStep
<1>4. CASE local[Main] = 0 /\ Call(Main, "print", "closeItem", "done", 0)
  <2>1. /\ Step(Main, "print", "closeItem")
        /\ UNCHANGED <<semVars, bufferVars, threadNum, n>>
        /\ back' = [back EXCEPT ![Main] = "done"] /\ local' = [local EXCEPT ![Main] = 0]
    BY <1>4 DEF Call, Quiet, testVars
  <2>2. /\ "print" \in Ending /\ "closeItem" \in Ending /\ "closeItem" \notin CntPoints
        /\ StillOpen("print") = StillOpen("closeItem")
    BY DEF Ending, CntPoints, StillOpen
  <2>3. /\ local' = [local EXCEPT ![Main] = local'[Main]] /\ local'[Main] \in Values
        /\ back' = [back EXCEPT ![Main] = back'[Main]] /\ back'[Main] = "done"
    BY <1>1, <2>1
  <2>4. QED
    BY <2>1, <2>2, <2>3, EndingQuiet
<1>5. CASE Close("closeItem", "itemAvailable", "closeSpace")
  <2>1. /\ "closeItem" \in Ending /\ "closeSpace" \in Ending /\ "itemAvailable" \in Sems
        /\ StillOpen("closeSpace") = StillOpen("closeItem") \ {"itemAvailable"}
        /\ "closeSpace" \notin CntPoints
    BY DEF Ending, CntPoints, Sems, StillOpen
  <2>2. QED
    BY <1>5, <2>1, EndingClose
<1>6. CASE Close("closeSpace", "spaceAvailable", "closeTail")
  <2>1. /\ "closeSpace" \in Ending /\ "closeTail" \in Ending /\ "spaceAvailable" \in Sems
        /\ StillOpen("closeTail") = StillOpen("closeSpace") \ {"spaceAvailable"}
        /\ "closeTail" \notin CntPoints
    BY DEF Ending, CntPoints, Sems, StillOpen
  <2>2. QED
    BY <1>6, <2>1, EndingClose
<1>7. CASE Close("closeTail", "mutexTail", "closeHead")
  <2>1. /\ "closeTail" \in Ending /\ "closeHead" \in Ending /\ "mutexTail" \in Sems
        /\ StillOpen("closeHead") = StillOpen("closeTail") \ {"mutexTail"}
        /\ "closeHead" \notin CntPoints
    BY DEF Ending, CntPoints, Sems, StillOpen
  <2>2. QED
    BY <1>7, <2>1, EndingClose
<1>8. CASE Close("closeHead", "mutexHead", "done")
  <2>1. /\ "closeHead" \in Ending /\ "done" \in Ending /\ "mutexHead" \in Sems
        /\ StillOpen("done") = StillOpen("closeHead") \ {"mutexHead"}
        /\ "done" \notin CntPoints
    BY DEF Ending, CntPoints, Sems, StillOpen
  <2>2. QED
    BY <1>8, <2>1, EndingClose
<1>9. QED
  BY <1>2, <1>3, <1>4, <1>5, <1>6, <1>7, <1>8 DEF DeleteBuffer

-----------------------------------------------------------------------------
LEMMA BufferInit == Init => BufferInv
<1>1. SUFFICES ASSUME Init PROVE BufferInv
  OBVIOUS
<1>2. /\ usable = {} /\ units = [s \in Sems |-> 0] /\ waiters = [s \in Sems |-> <<>>]
      /\ verdict = [t \in Threads |-> "none"]
      /\ pc = [t \in Threads |-> IF t = Main THEN "ask" ELSE "none"]
      /\ back = [t \in Threads |-> "done"] /\ local = [t \in Threads |-> 0]
      /\ buffer = [i \in 0..MaxSize |-> Mark]
      /\ head = 0 /\ tail = 0 /\ fifo = <<>> /\ threadNum = 0 /\ n = 0
  BY <1>1 DEF Init, S!AbsInit
<1>3. /\ Main \in Threads /\ MaxThreads \in Nat /\ MaxSize \in Nat
      /\ 0 \in Values /\ Mark \in Values
  BY BufferAssumption DEF Threads, Values
<1>4. pc[Main] = "ask" /\ \A t \in Threads \ {Main} : pc[t] = "none"
  BY <1>2, <1>3
<1>5. /\ "ask" \in Points /\ "none" \in Points /\ "none" \in WorkerPoints
      /\ "ask" \in Before /\ "ask" \notin During /\ "ask" \notin Ending
      /\ "ask" \notin CntPoints /\ "none" \notin InBuffer \cup {"escape"}
      /\ Awaited("ask") = {} /\ Awaited("none") = {}
  BY DEF Points, WorkerPoints, Before, During, Ending, CntPoints, InBuffer, Awaited
<1>6. SemTypes
  BY <1>2, <1>5 DEF SemTypes
<1>7. TestTypes
  BY <1>2, <1>3 DEF TestTypes
<1>8. Roles
  BY <1>4, <1>5 DEF Roles
<1>9. QueuesAreWaiters
  <2>1. \A s \in Sems : IsInjective(waiters[s]) /\ ToSet(waiters[s]) = {}
    BY <1>2 DEF IsInjective, ToSet
  <2>2. \A t \in Threads : verdict[t] = "none"
    BY <1>2
  <2>3. QED
    BY <1>2, <2>1, <2>2 DEF QueuesAreWaiters
<1>10. UnitsAreCounted /\ EndsAreCounted
  BY <1>4, <1>5 DEF UnitsAreCounted, EndsAreCounted
<1>11. MadeSoFar
  BY <1>2, <1>3, <1>4, <1>5 DEF MadeSoFar
<1>12. OpenSems
  BY <1>2, <1>4, <1>5 DEF OpenSems
<1>13. RingInv
  <2>1. Len(fifo) = 0 /\ DOMAIN fifo = {} /\ fifo \in Seq(Values) /\ cap = 1
    BY <1>2 DEF cap
  <2>2. (0 + 0) % 1 = 0
    OBVIOUS
  <2>3. \A t \in Threads : pc[t] \notin {"putAdvance", "getAdvance"}
    BY <1>4
  <2>4. BufferIsFifo
    BY <1>2, <2>1, <2>2, <2>3 DEF BufferIsFifo
  <2>5. QED
    BY <1>2, <1>3, <1>4, <2>1, <2>3, <2>4 DEF RingInv
<1>14. QED
  BY <1>6, <1>7, <1>8, <1>9, <1>10, <1>11, <1>12, <1>13 DEF BufferInv

LEMMA BufferNext == BufferInv /\ [Next]_vars => BufferInv'
<1>1. SUFFICES ASSUME BufferInv, [Next]_vars PROVE BufferInv'
  OBVIOUS
<1>2. CASE GetKey
  BY <1>1, <1>2, GetKeyKeeps
<1>3. ASSUME NEW t \in Threads, BufferCode(t) PROVE BufferInv'
  <2>1. CASE t = Main
    BY <1>1, <1>3, <2>1, MainCntKeeps
  <2>2. CASE t # Main
    BY <1>1, <1>3, <2>2, BufferCodeKeeps
  <2>3. QED
    BY <2>1, <2>2
<1>4. ASSUME NEW t \in Threads, WaitReturns(t) PROVE BufferInv'
  BY <1>1, <1>4, WaitReturnsKeeps
<1>5. ASSUME NEW t \in Threads, SignalAll(t) PROVE BufferInv'
  BY <1>1, <1>5, SignalAllKeeps
<1>6. ASSUME NEW t \in Producers, Produce(t) PROVE BufferInv'
  BY <1>1, <1>6, ProduceKeeps
<1>7. CASE Escape
  BY <1>1, <1>7, EscapeKeeps
<1>8. CASE Consume
  BY <1>1, <1>8, ConsumeKeeps
<1>9. CASE TestCode
  BY <1>1, <1>9, AskKeeps, OpenAllKeeps, CreateKeeps, WaitAllKeeps, CloseAllKeeps,
     DeleteBufferKeeps DEF TestCode
<1>10. CASE UNCHANGED vars
  <2>1. UNCHANGED <<usable, units, waiters, verdict, pc, back, local, buffer, head, tail,
                    fifo, threadEnd, threadNum, n>>
    BY <1>10 DEF vars, semVars, bufferVars, testVars
  <2>2. \A u \in Threads : Has(u)' = Has(u)
    BY <2>1 DEF Has
  <2>3. \A s \in Sems : Load(s)' = Load(s)
    BY <2>1, <2>2, SameLoads
  <2>4. SemTypes' /\ TestTypes' /\ Roles' /\ QueuesAreWaiters'
    BY <1>1, <2>1 DEF BufferInv, SemTypes, TestTypes, Roles, QueuesAreWaiters
  <2>5. UnitsAreCounted'
    BY <1>1, <2>1, <2>3 DEF BufferInv, UnitsAreCounted, Sems
  <2>6. EndsAreCounted' /\ MadeSoFar' /\ OpenSems'
    <3>1. Ended' = Ended /\ Given' = Given
      BY <2>1 DEF Ended, Given
    <3>2. QED
      BY <1>1, <2>1, <3>1 DEF BufferInv, EndsAreCounted, MadeSoFar, OpenSems
  <2>7. RingInv'
    <3>1. cap' = cap
      BY <2>1 DEF cap
    <3>2. BufferIsFifo'
      BY <1>1, <2>1, <3>1 DEF BufferInv, RingInv, BufferIsFifo
    <3>3. QED
      BY <1>1, <2>1, <3>2 DEF BufferInv, RingInv
  <2>8. QED
    BY <2>4, <2>5, <2>6, <2>7 DEF BufferInv
<1>11. ASSUME NEW t \in Threads, ThreadStep(t) PROVE BufferInv'
  BY <1>3, <1>4, <1>5, <1>6, <1>7, <1>8, <1>9, <1>11 DEF ThreadStep
<1>12. QED
  BY <1>1, <1>2, <1>10, <1>11 DEF Next

\* Nobody is at a call on a semaphore that is not open, and nobody learns in
\* sem_wait that it was closed.
LEMMA OpenWhenUsed == BufferInv => NoUseAfterClose
<1>1. SUFFICES ASSUME BufferInv, NEW t \in Threads
               PROVE  SemOf(pc[t]) \subseteq usable /\ verdict[t] # "dead"
  BY DEF NoUseAfterClose
<1>2. verdict[t] # "dead"
  BY <1>1 DEF BufferInv, SemTypes
<1>3. SemOf(pc[t]) \subseteq Sems
  BY DEF SemOf, Sems
<1>4. CASE t # Main
  <2>1. CASE pc[t] \in {"none", "done"}
    BY <1>2, <2>1 DEF SemOf
  <2>2. CASE pc[t] \notin {"none", "done"}
    BY <1>1, <1>2, <1>3, <1>4, <2>2, WorkerIsAwaited
  <2>3. QED
    BY <2>1, <2>2
<1>5. CASE t = Main
  <2>1. CASE pc[t] \in Before
    BY <1>2, <2>1 DEF SemOf, Before
  <2>2. CASE pc[t] \in During
    BY <1>1, <1>2, <1>3, <1>5, <2>2 DEF BufferInv, OpenSems, During, Before
  <2>3. CASE pc[t] \in Ending
    <3>1. usable = StillOpen(pc[t])
      BY <1>1, <1>5, <2>3 DEF BufferInv, OpenSems, During, Before, Ending, CntPoints
    <3>2. SemOf(pc[t]) \subseteq StillOpen(pc[t])
      BY <2>3 DEF SemOf, StillOpen, Ending, CntPoints, Sems
    <3>3. QED
      BY <1>2, <3>1, <3>2
  <2>4. QED
    BY <1>1, <1>5, <2>1, <2>2, <2>3 DEF BufferInv, Roles
<1>6. QED
  BY <1>2, <1>4, <1>5

-----------------------------------------------------------------------------
\* The inductive invariant, for any number of producers and any size: the
\* queues, units and locks of the buffer are where its users are.
THEOREM BufferAlways == Spec => []BufferInv
  BY BufferInit, BufferNext, PTL DEF Spec

\* The buffer is a queue (test/buffer.cpp): items come out in the order in
\* which they went in, none is lost or overwritten, and it is never over-full.
THEOREM BufferIsAFifo == Spec => []BufferIsFifo
<1>1. BufferInv => BufferIsFifo
  BY DEF BufferInv, RingInv
<1>2. QED
  BY <1>1, BufferAlways, PTL

\* The protocol of the end (ConsumerProducer_C_API_test.cpp): main() closes a
\* semaphore only when no thread of the test can use it any more.
THEOREM NothingUsedAfterClose == Spec => []NoUseAfterClose
  BY OpenWhenUsed, BufferAlways, PTL
=============================================================================
