--------------------------- MODULE BoundedBuffer ---------------------------
(***************************************************************************)
(* A program on top of the kernel: the bounded buffer of test/buffer.cpp   *)
(* and the test that uses it, ConsumerProducer_C_API_test.cpp.             *)
(*                                                                         *)
(* Its threads run in user mode and may be preempted between any two       *)
(* statements.  The semaphores behave as AbstractSemaphores promises,      *)
(* which module Semaphores is shown to implement.  thread_dispatch and     *)
(* putc touch nothing that is here, and so take no step.                   *)
(***************************************************************************)
EXTENDS Integers, SequencesExt

CONSTANTS
    MaxThreads,  \* bound of the model: the answer to the first question
    MaxSize,     \* bound of the model: the answer to the second
    Main,        \* the thread that runs the test
    Consumer,
    Key,         \* what getc returns, but for the escape key
    Mark         \* '!', the last item

Keyboard == 0
Producers == 0..MaxThreads - 1

ASSUME BufferAssumption ==
    /\ MaxThreads \in Nat \ {0} /\ MaxSize \in Nat
    /\ Key # Mark
    /\ Main # Consumer
    /\ Producers \cap {Main, Consumer} = {}

Threads == {Main, Consumer} \cup Producers
Sems == {"spaceAvailable", "itemAvailable", "mutexHead", "mutexTail", "waitForAll"}

VARIABLES
    usable, units, waiters, verdict,  \* the semaphores: see AbstractSemaphores
    pc,         \* the next statement of each thread
    back,       \* where it goes on after put, get or getCnt
    local,      \* its argument, its result, or main's loop counter
    buffer, head, tail,
    threadEnd,
    threadNum, n,
    fifo        \* history: the items put and not yet got, in order

semVars == <<usable, units, waiters, verdict>>
bufferVars == <<buffer, head, tail, fifo>>
testVars == <<threadEnd, threadNum, n>>
vars == <<semVars, pc, back, local, bufferVars, testVars>>

S == INSTANCE AbstractSemaphores

cap == n + 1

NextSlot(i) == (i + 1) % cap

Init ==
    /\ S!AbsInit
    /\ pc = [t \in Threads |-> IF t = Main THEN "ask" ELSE "none"]
    /\ back = [t \in Threads |-> "done"]
    /\ local = [t \in Threads |-> 0]
    /\ buffer = [i \in 0..MaxSize |-> Mark]
    /\ head = 0 /\ tail = 0 /\ fifo = <<>>
    /\ threadEnd = FALSE /\ threadNum = 0 /\ n = 0

-----------------------------------------------------------------------------
\* t goes from one statement to the next, if it does not wait in sem_wait.
Step(t, from, to) ==
    /\ pc[t] = from
    /\ verdict[t] = "none"
    /\ pc' = [pc EXCEPT ![t] = to]

Quiet(t, from, to) ==
    /\ Step(t, from, to)
    /\ UNCHANGED <<semVars, bufferVars, testVars>>

Call(t, from, procedure, return, arg) ==
    /\ Quiet(t, from, procedure)
    /\ back' = [back EXCEPT ![t] = return]
    /\ local' = [local EXCEPT ![t] = arg]

SemCall(t, from, to) ==
    /\ Step(t, from, to)
    /\ UNCHANGED <<back, local, bufferVars, testVars>>

Wait(t, from, s, to) ==
    /\ SemCall(t, from, to)
    /\ S!Acquire(s) \/ S!Enqueue(s, t, "waiting")

Signal(t, from, s, to) == SemCall(t, from, to) /\ S!Release(s)

\* The answer of sem_wait is not looked at.
WaitReturns(t) ==
    /\ S!Return(t)
    /\ UNCHANGED <<pc, back, local, bufferVars, testVars>>

-----------------------------------------------------------------------------
\* Buffer::put
PutWait(t) == Wait(t, "put", "spaceAvailable", "putLock")

PutLock_None(t) == SemCall(t, "putLock", "putWrite") /\ UNCHANGED semVars  \* mutant

PutLock(t) == Wait(t, "putLock", "mutexTail", "putWrite")

PutWrite(t) ==
    /\ Step(t, "putWrite", "putAdvance")
    /\ buffer' = [buffer EXCEPT ![tail] = local[t]]
    /\ UNCHANGED <<semVars, back, local, head, tail, fifo, testVars>>

PutAdvance(t) ==
    /\ Step(t, "putAdvance", "putUnlock")
    /\ tail' = NextSlot(tail)
    /\ fifo' = Append(fifo, local[t])
    /\ UNCHANGED <<semVars, back, local, buffer, head, testVars>>

PutUnlock(t) == Signal(t, "putUnlock", "mutexTail", "putSignal")
PutSignal(t) == Signal(t, "putSignal", "itemAvailable", back[t])

\* Buffer::get
GetWait(t) == Wait(t, "get", "itemAvailable", "getLock")
GetLock(t) == Wait(t, "getLock", "mutexHead", "getRead")

GetRead(t) ==
    /\ Step(t, "getRead", "getAdvance")
    /\ local' = [local EXCEPT ![t] = buffer[head]]
    /\ UNCHANGED <<semVars, back, bufferVars, testVars>>

GetAdvance(t) ==
    /\ Step(t, "getAdvance", "getUnlock")
    /\ head' = NextSlot(head)
    /\ fifo' = Tail(fifo)
    /\ UNCHANGED <<semVars, back, local, buffer, tail, testVars>>

GetUnlock(t) == Signal(t, "getUnlock", "mutexHead", "getSignal")
GetSignal(t) == Signal(t, "getSignal", "spaceAvailable", back[t])

\* Buffer::getCnt
CntLockHead(t) == Wait(t, "cnt", "mutexHead", "cntLock")
CntLockTail(t) == Wait(t, "cntLock", "mutexTail", "cntRead")

CntRead(t) ==
    /\ Step(t, "cntRead", "cntUnlock")
    /\ local' = [local EXCEPT ![t] =
                     IF tail >= head THEN tail - head ELSE cap - head + tail]
    /\ UNCHANGED <<semVars, back, bufferVars, testVars>>

CntUnlockTail(t) == Signal(t, "cntUnlock", "mutexTail", "cntSignal")
CntUnlockHead(t) == Signal(t, "cntSignal", "mutexHead", back[t])

BufferCode(t) ==
    \/ PutWait(t) \/ PutLock(t) \/ PutWrite(t) \/ PutAdvance(t)
    \/ PutUnlock(t) \/ PutSignal(t)
    \/ GetWait(t) \/ GetLock(t) \/ GetRead(t) \/ GetAdvance(t)
    \/ GetUnlock(t) \/ GetSignal(t)
    \/ CntLockHead(t) \/ CntLockTail(t) \/ CntRead(t)
    \/ CntUnlockTail(t) \/ CntUnlockHead(t)

-----------------------------------------------------------------------------
\* producerKeyboard: the user may press any key, or none.
GetKey ==
    \/ Call(Keyboard, "produce", "put", "produce", Key)
    \/ Call(Keyboard, "produce", "escape", "signalAll", Mark)

Escape ==
    /\ Step(Keyboard, "escape", "put")
    /\ threadEnd' = TRUE
    /\ UNCHANGED <<semVars, back, local, bufferVars, threadNum, n>>

Produce(t) ==
    /\ t # Keyboard
    /\ IF threadEnd THEN Call(t, "produce", "signalAll", "done", t)
       ELSE Call(t, "produce", "put", "produce", t)

Consume ==
    \/ IF threadEnd THEN Call(Consumer, "consume", "cnt", "drain", 0)
       ELSE Call(Consumer, "consume", "get", "consume", 0)
    \/ IF local[Consumer] = 0 THEN Call(Consumer, "drain", "signalAll", "done", 0)
       ELSE Call(Consumer, "drain", "get", "drained", 0)
    \/ Call(Consumer, "drained", "cnt", "drain", 0)

SignalAll(t) == Signal(t, "signalAll", "waitForAll", "done")

-----------------------------------------------------------------------------
\* producerConsumer_C_API: what the user asks for, and the answer.
Accepted_AnySize(num, size) == num >= 1  \* mutant

Accepted(num, size) == num <= size /\ num >= 1

Ask ==
    /\ \E num \in 0..MaxThreads, size \in 0..MaxSize :
           /\ threadNum' = num /\ n' = size
           /\ Step(Main, "ask", IF Accepted(num, size) THEN "open" ELSE "done")
    /\ UNCHANGED <<semVars, back, local, bufferVars, threadEnd>>

\* The constructor of Buffer and the sem_open of waitForAll: no other thread of
\* the test is there yet.
OpenAll ==
    /\ Step(Main, "open", "create")
    /\ usable' = Sems
    /\ units' = [s \in Sems |-> CASE s = "spaceAvailable" -> n
                                  [] s \in {"mutexHead", "mutexTail"} -> 1
                                  [] OTHER -> 0]
    /\ UNCHANGED <<waiters, verdict, back, local, bufferVars, testVars>>

\* The consumer first, then the producers in order.
Create ==
    LET i == local[Main]
        last == i = threadNum
        t == IF i = 0 THEN Consumer ELSE i - 1
    IN  /\ pc[Main] = "create"
        /\ pc' = [pc EXCEPT ![t] = IF t = Consumer THEN "consume" ELSE "produce",
                            ![Main] = IF last THEN "wait" ELSE "create"]
        /\ local' = [local EXCEPT ![Main] = IF last THEN 0 ELSE i + 1]
        /\ UNCHANGED <<semVars, back, bufferVars, testVars>>

\* i <= threadNum: one sem_wait for the consumer too.
WaitsLeft_NoConsumer(i) == i + 1 < threadNum  \* mutant

WaitsLeft(i) == i < threadNum

WaitAll ==
    LET i == local[Main] IN
    /\ Step(Main, "wait", IF WaitsLeft(i) THEN "wait" ELSE "closeAll")
    /\ S!Acquire("waitForAll") \/ S!Enqueue("waitForAll", Main, "waiting")
    /\ local' = [local EXCEPT ![Main] = i + 1]
    /\ UNCHANGED <<back, bufferVars, testVars>>

Close(from, s, to) == SemCall(Main, from, to) /\ S!Close(s)

CloseAll == Close("closeAll", "waitForAll", "delete")

\* Buffer::~Buffer
DeleteBuffer ==
    \/ Call(Main, "delete", "cnt", "print", 0)
    \/ /\ local[Main] > 0
       /\ Step(Main, "print", "delete")
       /\ head' = NextSlot(head)
       /\ fifo' = Tail(fifo)
       /\ UNCHANGED <<semVars, back, local, buffer, tail, testVars>>
    \/ local[Main] = 0 /\ Call(Main, "print", "closeItem", "done", 0)
    \/ Close("closeItem", "itemAvailable", "closeSpace")
    \/ Close("closeSpace", "spaceAvailable", "closeTail")
    \/ Close("closeTail", "mutexTail", "closeHead")
    \/ Close("closeHead", "mutexHead", "done")

TestCode == Ask \/ OpenAll \/ Create \/ WaitAll \/ CloseAll \/ DeleteBuffer

-----------------------------------------------------------------------------
\* A thread's own steps: all but the wait for a key.
ThreadStep(t) ==
    \/ BufferCode(t) \/ WaitReturns(t) \/ SignalAll(t)
    \/ t \in Producers /\ Produce(t)
    \/ t = Keyboard /\ Escape
    \/ t = Consumer /\ Consume
    \/ t = Main /\ TestCode

Next == GetKey \/ \E t \in Threads : ThreadStep(t)

\* The scheduler lets every ready thread run again and again.
Spec == Init /\ [][Next]_vars /\ \A t \in Threads : WF_vars(ThreadStep(t))

-----------------------------------------------------------------------------
SemOf(point) ==
    CASE point \in {"put", "getSignal", "closeSpace"} -> {"spaceAvailable"}
      [] point \in {"get", "putSignal", "closeItem"} -> {"itemAvailable"}
      [] point \in {"putLock", "putUnlock", "cntLock", "cntUnlock", "closeTail"} -> {"mutexTail"}
      [] point \in {"getLock", "getUnlock", "cnt", "cntSignal", "closeHead"} -> {"mutexHead"}
      [] point \in {"signalAll", "wait", "closeAll"} -> {"waitForAll"}
      [] OTHER -> {}

\* Items come out in the order they went in: no item that was put and not got
\* is overwritten, by whichever producer, the buffer never holds more than its
\* size, and what get() has read is the oldest item when it takes it out
\* (Buffer::put and Buffer::get with their four semaphores).
BufferIsFifo ==
    /\ Len(fifo) <= n
    /\ tail = (head + Len(fifo)) % cap
    /\ \A i \in DOMAIN fifo : buffer[(head + i - 1) % cap] = fifo[i]
    /\ \A t \in Threads :
           pc[t] = "getAdvance" => fifo # <<>> /\ local[t] = Head(fifo)

\* No thread of the test reaches a call on a semaphore that is not open: main
\* closes them only when the last signal of every thread is done, and nobody
\* waits on a semaphore when it is closed.
NoUseAfterClose ==
    \A t \in Threads :
        /\ SemOf(pc[t]) \subseteq usable
        /\ verdict[t] # "dead"

\* When the user has pressed Esc the test ends: no producer is left waiting
\* for space in a buffer that nobody empties any more.
TestEnds == threadEnd ~> pc[Main] = "done"
=============================================================================
