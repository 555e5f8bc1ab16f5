# TLA+ verification of the RISC-V kernel

This directory models the kernel of this repository (`src/`, `h/`) and one of
its test programs (`test/buffer.cpp`), checks the models with TLC and proves
their main invariants with TLAPS.  Every definition is translated from the
code; `PROJECT.json` maps each one to its lines.

## The system

A single-processor, preemptive kernel.  Trap handlers run in supervisor mode
with interrupts masked, so a handler is not interrupted, but a handler may call
`_context::dispatch()` in its middle and go on much later, when its thread is
switched to again.

| Component | State | Operations | Interacts with |
|---|---|---|---|
| Threads, scheduler, context switch (`_thread`, `_scheduler`, `_context`) | `running`, control blocks (magic number, `threadState`, parent, children), ready queue | create, dispatch, exit, `subtleKill`, deletion inside dispatch | everything: each wait ends in `dispatch()` |
| Timer and sleepers (`_time`) | system time, CPU time of the running thread, ordered list of sleepers | `time_sleep`, timer interrupt with the wakeup loop and preemption | wakes sleepers, and timed waiters through their semaphore |
| Semaphores (`_sem`) | `val`, queue, `numOfTimedWaiting`; `semStatus`, `mySem`, `timeForWakingUp` of the control blocks | open, close, wait, timedwait, trywait, signal, `unblockedByTime` | list of sleepers, ready queue |
| Traps (`supervisorTrap.S`, `_riscV`, `contextSwitch.S`) | registers, privilege, `sstatus`, `sepc`, trap frames, pending interrupts | entry, dispatch by cause, switch in the middle of a handler, return, the first run of a thread | every call and both interrupts |
| Boot and shutdown (`main`, `IDLE`) | `finished`, handles of the four system threads | boot, main's loop, kill of the services, printing what is left, halt | threads, console |
| Heap (`_memoryAllocator`) | free list in the order of addresses, taken list | `_kmalloc`, `_kmfree`, rounding in `mem_alloc` and in the operators new | everything that is allocated, list elements too |
| Console (`_console`) | two ring buffers, interrupt flag, semaphore for input | `putc`, `getc`, putter thread, getter thread, interrupt handler | device registers, PLIC, semaphores, shutdown |
| Lists (`_list`) | head, tail, elements | addFirst, addLast, insert_sorted, removeFirst, removeLast, removeSpec, peeks, sort, foreachWhile | heap |
| Calls (`_sysCalls`, `syscall_c`) | trap codes and arguments | one wrapper per call | all of the above |
| C++ API (`syscall_cpp`) | handles, the period of a `PeriodicThread` | start, terminate, the periodic loop | threads, sleepers |
| Printer, tests | | formatting, example programs | calls |

What is hard here: preemption between any two user-mode instructions (the
console's services are user-mode code that shares buffers with handlers);
handlers that are suspended inside a wait and finish after the object they
wait on is gone; registers of the machine that the next trap overwrites; one
thread in two lists (a timed waiter sleeps and waits); timeouts against signals
against closes; the order of sleepers under insertion and removal during
iteration; control blocks that are freed and used again while others point to
them; a shutdown that kills threads which are in the ready queue; arithmetic
that wraps around.  The list of hazards, each at its line, is in `PROJECT.json`.

What makes each part correct:

* threads: every live thread has the processor, or is in the ready queue once,
  or waits; the processor is never given to nobody; nobody starves; a parent's
  count is the number of its living children;
* traps: a thread goes on where it was, with its registers, in its mode and
  with the answer of its own call; only main runs in supervisor mode; no stack
  keeps a frame; a timer interrupt is served;
* semaphores: units are neither lost nor made, first come first served, one
  answer per wait, a timeout takes exactly its own thread;
* timer: nobody is woken early, nobody who is due is passed over;
* boot and shutdown: main stops the machine after `userMain` and only then, the
  services are gone, and what was accepted for output is printed, with the
  exceptions named below;
* heap: the chunks partition the heap, free neighbours are merged, and a
  request is refused only when it cannot be met;
* lists: one chain from head to tail, behaving as a sequence, under removal
  inside an iteration too;
* console: no accepted character is lost or reordered, with the exceptions
  named below; units count characters, no claimed interrupt is forgotten;
* the bounded buffer: first in first out with any number of producers, nothing
  is used after it is closed, and the test ends.

## Modules

| Module | What it is |
|---|---|
| `KernelLists` | the list operations that walk (`removeSpec`, `insert_sorted`), on sequences |
| `Threads` | control blocks, ready queue, dispatch, exit, kill |
| `SleepTime` | `time_sleep`, timer interrupt, wakeup loop's condition; extends `Threads` |
| `Semaphores` | the seven operations of `_sem`; extends `SleepTime` |
| `Kernel` | composition: context switch with the rest of the suspended handlers, `main`, idle, services, programs, interrupts |
| `KernelProperties` | the promises of the kernel core, `KernelInv`, refinement mapping |
| `AbstractSemaphores` | what programs may rely on in semaphores, each call one step |
| `MCKernel` | instances for TLC |
| `Traps`, `TrapProperties`, `MCTraps` | the machine under traps: registers, modes, frames, the switch of contexts |
| `Lifecycle`, `MCLifecycle` | control blocks that are used again, parents and children, boot, idle, shutdown, `PeriodicThread`; extends `Threads` |
| `LinkedList`, `AbstractList`, `MCList` | `_list` with its pointers, and the sequence it implements |
| `MemoryAllocator`, `HeapProperties`, `AbstractHeap`, `MCHeap` | the heap, its promises, its abstract specification |
| `Console`, `ConsoleProperties`, `MCConsole` | the console with its device, and its promises |
| `BoundedBuffer`, `MCBuffer` | `test/buffer.cpp` and the test that uses it, on `AbstractSemaphores` |
| `ListTheorems` | lemmas about `KernelLists`, about sequences as lists and about remainders |
| `KernelProofs` | `Spec => []TypeOK`; `KernelInv` is inductive, and what follows |
| `KernelWaits` | the services after the kill, the answers of waits, the order and the times of sleepers; without trywait the exact counts, the absence of null pointers and the refinement of `AbstractSemaphores` |
| `LifecycleProofs` | the end of `userMain` and the counts of children, for any number of threads made |
| `TrapProofs` | modes, frames and resumption for any set of threads |
| `HeapProofs` | the heap of any size, and the refinement of `AbstractHeap` |
| `ConsoleProofs` | ring buffers of any size, both directions, and the claims of interrupts |
| `BufferProofs` | the bounded buffer of any size with any number of producers |

How they fit together.  `Traps` justifies what `Kernel` takes for granted: that
a handler is one step and that a switched thread goes on where it was.
`LinkedList` implements `AbstractList`, whose operations are those of
`KernelLists`, which all other modules use on sequences.  `Kernel` implements
`AbstractSemaphores`, and `BoundedBuffer` is built on `AbstractSemaphores`.
`ReadyRuns`, checked of `Kernel`, is the fairness `Console` and `BoundedBuffer`
assume of their threads.  `Threads` is shared by `Kernel`, where a control
block has one owner, and `Lifecycle`, where its memory is used again.

How state and steps correspond to the code:

* A handler is one step.  A loop inside a handler takes one step per turn, and
  `phase` says which loop the kernel is in: `wake` (the timer's `foreachWhile`),
  `close` (`unblockAll`), `dispatch` (dropping dead threads from the ready
  queue, then the switch).  In `user` the running thread's own code runs.
* A handler that calls `dispatch()` in its middle is cut there.  `inCall[t]`
  names what thread t still has to run; `ReturnFromSleep`, `ReturnFromBlock`
  and `ReturnFromTimedBlock` are those tails, taken when t is switched to.
* `onSem[t]` is the `this` pointer of the handler in progress.  It survives a
  close, as in the code, and so the last write of `timedBlock()` goes to the
  semaphore that was closed, or to the one opened in its memory since.
* `valid` is the set of control blocks with an intact magic number.
* In `Traps` a handler is three steps: `Handle...` (the part that depends on
  the cause, with the switch), `Return` (the write of a0 to the frame through
  fp, of `sstatus` and of `sepc`) and `PopFrame` (the assembly behind the call,
  up to `sret`).  A register holds a trap code, a value that belongs to one
  thread, or junk; `x` stands for all the registers that are saved alike.  A
  thread's stack is the sequence of its trap frames.
* In `Lifecycle` a name of `Threads` is an address.  A deleted thread's address
  may be given to any new thread; `parentThread` still holds it.  `toPrint`
  says whether the print buffer has something, which main asks in its loop.
  `thread_exit` may be called anywhere, inside `userMain` too: `finished` is
  then never set, idle and main go on, and the machine is not stopped (also in
  `Kernel`, whose `idlePc` says whether idle has made `userMain`'s thread).
* In `LinkedList` an operation is one step, but `foreachWhile` takes one per
  call of its callback, because the callback changes the list under the loop.
* Programs (`UserMain` and `Workers`) make any call of `Calls` at any time, so
  the runs cover all programs of that many threads that use open handles.
* In `Console` the putter and the getter take one step per access to shared
  memory or to a device register; calls and the interrupt are atomic.  `txData`
  is the character of a `putc` that the terminal is sending: it goes to `printed`
  when it is sent, and to `replaced` when another character, an echo for
  instance, is written before that.
  `BoundedBuffer` takes one step per statement.
* Not in the code, but kept to compare what was asked for with what is done:
  `due` (`SleepTime`), `asked` and `wanted` (`MemoryAllocator`), `accepted`,
  `printed`, `replaced`, `typed`, `received` (`Console`), `left` (`Traps`),
  `leftAlone` (`Lifecycle`), `fifo` (`BoundedBuffer`).

A definition marked `\* mutant` is a variant with a plausible bug; nothing uses
it but the mutation runs that show the properties can fail.

## Runs

| Run | Shows |
|---|---|
| `sched` (Sched.cfg) | threads, sleepers, every semaphore call with trywait, and the shutdown, with one worker and one service: no thread is lost or overlooked, nobody starves, sleepers return, the shutdown ends with the services gone |
| `sems` (Sems.cfg) | all semaphore calls but trywait, three program threads, one semaphore: lists, control blocks and counts agree, and the calls implement `AbstractSemaphores` |
| `traps` (Traps.cfg) | main, idle and two threads made again and again, both interrupts, every kind of call, illegal instructions |
| `lifecycle` (Lifecycle.cfg) | nine threads on five control blocks, one of them periodic, boot and shutdown |
| `lists` (List.cfg) | every sequence of list operations on five elements, the same data twice and equal keys among them; implements `AbstractList` |
| `heap` (Heap.cfg) | all sequences of requests and frees on seven blocks; implements `AbstractHeap` |
| `console` (Console.cfg) | buffers of three slots, two readers, three characters each way, the shutdown; accepted output is printed, only an echo replaces a character, readers are answered |
| `buffer` (Buffer.cfg) | up to two producers, the keyboard's among them, and a buffer of up to two items: items come out in order, what `get` has read is the oldest one, nothing is used after it is closed, the test ends |
| `trywait_signal`, `time_wrap`, `heap_wrap` | violations, see below |

Bounds.  `MaxTime` 3 with slices of two ticks lets a slice end before, at and
after a timeout, and lets timeouts of two threads come at the same tick and in
both orders.  The delays of `sems` include 0, with which `sem_timedwait` traps
and waits, due at once (`time_sleep` filters it).  Three program threads are enough for two waiters and one that
signals or closes, so for a timeout at the head, in the middle and at the end
of a queue.  `MaxDebt` is the number of program threads.  The clock saturates
at `MaxTime` and programs ask for no time past it; interrupts go on.  Seven
blocks give merging with the left, the right, both and no neighbour, with
taken chunks between.  Five elements give `sort` halves of two and three.  Ring
buffers of three slots hold two characters, and wrap around with three.
`MaxAhead` is an assumption on the keyboard, not only a bound: with
`NUM_OF_CHARS` unread keys the getter overruns its buffer, because it compares
`headGet + 1` without the modulus (src/_console.cpp:95).  Four threads on the
machine of `Traps` are one that is not interrupted, one that never blocks and
two that come and go, so that one's frame waits while another is made on the
memory of a third.  `MaxID` 9 leaves six threads for the three control
blocks that are free after the boot or become free, so that they are used again.  In `BoundedBuffer` the keyboard's producer and
one more, with the consumer, are every pair of two different roles; a buffer of
one item is always full or empty.

Deadlock is checked, except where the system may really stop: with trywait the
kernel may read through a null pointer (`phase = "fault"`); the console, the
life of threads and the machine of `Traps` stop with the machine, the last also
at an illegal instruction; and the test of the buffer ends.  The state `halted`
of `Kernel` stutters by an explicit action.

Fairness.  A handler runs to its end (`WF` of `HandlerStep`): nothing else can
run.  `main()` is not interrupted and goes on (`WF` of `MainStep`).  The timer
is periodic and an interrupt that became pending inside a handler is taken when
user code runs again, so it is taken again and again although it is enabled
only between handlers: `SF` of `Tick`.  Nothing is assumed of programs, which
may loop for ever, nor of the services.

* `Traps`: the processor takes some step whenever it can (`WF`); the sources
  raise interrupts when they like.
* `Console`: the services, readers that were given a unit and main's shutdown
  go on, which is what `ReadyRuns` shows of the kernel, and so do the device
  and the PLIC.  That main sees the buffer empty in its loop is not assumed.
* `Lifecycle`: the timer preempts and the kernel goes on (`WF`), and threads
  that get the processor again and again get on (`SF` of the steps of idle and
  of periodic threads), because preemption disables their steps for a time.
  `SF` of `WakeUp`: the clock goes on.  Nothing is assumed of what main finds
  when it looks: that the output comes to its end is a premise of
  `ShutdownBegins`.
* `BoundedBuffer`: `WF` for every thread, none for the keyboard.

## What disagrees with the repository's own text

* `trywait_signal`: with `val` 0, `tryWait` answers that it would not wait and
  leaves `val` negative with nobody in the queue, and the next `signal`
  unblocks a thread that is not there (src/_sem.cpp:145 and 106 against
  h/_sem.hpp:42 and 43).
* `time_wrap`: a timed wait for nearly 2^64 ticks is over at once
  (src/_sem.cpp:71 against h/_sem.hpp:41).
* `heap_wrap`: a request for nearly 2^64 bytes is answered with one block
  (src/syscall_c.cpp:12 against h/syscall_c.h:6).

Where a property has an exception, the code needs it:

* `ChildrenAreCounted` leaves out the control blocks in `leftAlone`.  A parent
  may end before its children; its memory may be another thread's when a child
  counts down there, and that thread's count is then too small.
* `ShutdownBegins` has two.  Main goes on while there is output to print
  (src/main.cpp:30), so a thread that prints for ever after `userMain` has
  returned may keep it in its loop for ever: the property speaks of the runs in
  which the output comes to its end.  And idle's memory may belong to another
  thread: main asks `isFinished` of a control block that may be deleted.  Main
  comes before idle is deleted and sees it finished; it misses that only when
  there is output left to print just then and idle's memory is given away before
  it asks again.
* `OutputInOrder` and `OutputIsPrinted` leave out two kinds of characters.  One
  is the character that the putter had taken from the buffer, but not written,
  when main killed it (`Lost`).  The others are those in `replaced`: the getter
  sees the terminal ready, is preempted, the putter writes a character, and the
  echo then replaces it before it is sent (h/_console.hpp:128-131, where a
  comment accepts that).  `OnlyEchoReplaces` says that nothing else replaces a
  character; the putter may replace an echo in its turn, which is no character of
  `putc`.  `OutputIsPrinted` leaves out a third, the one in the register when the
  machine halts: `empty_console_print_all` does not wait until it is sent.
* `ClaimIsNotForgotten` says that the flag stays up for a claimed interrupt until
  a service is about to complete it, not that a service will: the condition for
  the completion has `!transferReady()` (src/_console.cpp:77), and while nothing
  is printed the terminal stays ready and nobody completes.  Input goes on
  without it, since the flag is up (`ReaderIsAnswered`).
* `TimerIsServed` has the case of an illegal instruction, which stops the
  machine.

## Proofs

Constants are arbitrary: any sets of threads and semaphores, any times, any
`Calls`, buffers and heaps of any size, under the assumptions named in the
modules that declare them (`ThreadsAssumption`, `SleepTimeAssumption`,
`SemaphoresAssumption`, `KernelAssumption`, `TrapsAssumption`,
`AllocatorAssumption`, `ConsoleAssumption`, `LifecycleAssumption`,
`BufferAssumption`), all of which TLC evaluates on its instances.  A
theorem with a further hypothesis says so in its ASSUME; each such hypothesis
is needed, and the instances of the passing runs that check these properties
satisfy it:

| Hypothesis | In words | Without it |
|---|---|---|
| `"trywait" \notin Calls` | no program calls `sem_trywait` | run `trywait_signal` |
| `NoWrap` (`NobodyWakesEarly` only) | no delay added to the time wraps the clock around | run `time_wrap` |
| `NoSizeWrap` | no size wraps around when header and rounding are added | run `heap_wrap` |
| `MaxAhead < NUM_OF_CHARS` | fewer keys are unread than the buffer has slots | the getter overruns its buffer (src/_console.cpp:95) |

**Kernel.**

* `TypeCorrect`: `Spec => []TypeOK`.  `TypeOK` needs one conjunct more to be
  inductive, that a close in progress is of a semaphore (`TypeInv`).
* `NoThreadLost`, `ControlBlocksAgree`, `NobodyIsForgotten`,
  `RunningIsNeverDropped`: `KernelInv`, the conjunction of these properties,
  `TypeOK` and `Roles`, is inductive.  None of the parts is inductive alone.
  That a thread taken off a semaphore's queue is not in the ready queue already
  is `OnePlace`; that it leaves the sleepers when it should needs what its
  status says (`BlockedAgrees`); that a dispatch does not delete a waiter needs
  that only the services are ever finished and still allocated (`Roles`); that
  nobody points to freed memory after a close needs that the close's loop ends
  with an empty queue (`NobodyForgotten`).
* `ServicesAreGone`: by `KilledInv`, every service that is still allocated
  after the kill stands in the ready queue before main.  The dispatch that
  reaches main has deleted it by then, whatever programs put behind them.
* `WaitsAreAnswered`, `SleepersAreInOrder`, `NobodyWakesEarly`: `WaitsInv` adds
  to `KernelInv` that the sleepers are ordered and the timer's cursor is at the
  head (`OrderInv`), that `inCall` agrees with the status of each thread
  (`CallAgrees`), and what each sleeper asked for (`TimeAgrees`).  The order is
  what makes the timer's early stop right: behind a sleeper that is not due nobody
  is.  It holds for all delays, since a sleeper is put at the place of the time
  that the code computes, be it over already (a timed wait of 0) or wrapped
  around; only that this time is the one asked for needs `NoWrap`.
* `ValIsExact`, `KernelNeverFaults`: without trywait `CountInv`, which adds the
  exact count to `KernelInv`, is inductive; `NoFault` follows because main is
  always ready inside a dispatch.
* `SemaphoresAreImplemented`: under `RefInv == CountInv /\ WaitsInv` every step
  of the kernel maps to a step of `AbstractSemaphores` or to a stutter.  A close
  takes effect when it begins, and the turns of its loop are stutters: a waiter
  whose turn has not come is `dead` already, because its semaphore is no longer
  usable.  That no timeout comes between is what makes this right.

`KernelProofs` first shows that every step of `Next` is one of a few plain
step operators (`StepsOfNext`); the proofs of the invariants go through those,
one lemma per kind of step.  `ListTheorems` gives what `RemoveSpec`,
`InsertSorted`, `Append` and `Tail` do to the members, the length, the
injectivity and the order of a list.

**Traps.**  `TrapInv` says of the running thread what registers and stack hold
at each point of a handler (`RunningInv`), and of every other live thread that
it is resumed from the single frame on its stack, or never ran (`IsAway`).
`PrivilegeIsNeverGained` and `EveryThreadHasOneFrame` are parts of it or follow;
`ThreadsResumeAsLeft` is an action property: at the step that leaves a handler
the registers are those of the history `left`.  The stack of each thread has to
be described while it is away, because nothing else ties the frame that is
popped to the thread that left.

**Heap.**  `HeapInv`: a block is free or in one taken chunk, never both, and the
free list is in order without two chunks that touch (`Merged`).  The merging in
`_kmfree` looks at the two neighbours only; that this is enough needs that
the list was merged before.  `HeapIsImplemented` shows that first fit refuses a
request only if no run of free blocks is long enough: in a merged list a run of
free blocks lies in one chunk (`RunIsInChunk`).

**Console.**  The lemmas on ring buffers (`PutInRing`, `TakeFromRing`,
`WriteToRing`) reduce the remainders to sequences.
`OutputInv` says of the output, from what is printed over the register and the
putter's hand to the buffer, that it is increasing and has all accepted numbers
but those that are gone (`IsOutput`).  `putc` makes it longer, the putter, main
and the terminal move the border between its parts, and the kill of the putter
and an echo take one element out (`OutputGrows`, `OutputMoves`,
`OutputShrinks`).  `RegisterInv` is why the putter and main take nothing out: once
they have seen the terminal ready the register has no character of `putc` until
they write, since only an echo may come between (`EchoAloneReplaces`).  The rest
is `PutterInv`, what the putter knows at each of its statements, which `putc` may
come between.  `InputInv` and `SemInv` need each other: that `getc` never finds the
buffer empty is the count of the semaphore, and that the count survives the
getter's advance needs the room that `InputInv` and `MaxAhead` leave.  A unit
given to a waiter counts until the waiter is switched to, so `SemInv` also says
that waiters are distinct and wait.  `ClaimsAreNotForgotten` needs no invariant
but types.

**Life of threads.**  `MainWaitsForUserMain` needs to know who main asks: as
long as `userMain` runs, idle's control block is idle's, is not finished and not
deleted (`IdleWaits`), because idle ends only when it sees `finished`.
`CountsAreRight` needs that the thread that ends counts down at the one it was
counted at.  `FamilyInv` says so: a control block that is allocated belongs to a
thread that has not ended (`NobodyIsFinished`), and a parent is a control block
that is allocated or is in `leftAlone` (`ParentsAreKnown`).  A new thread on an
old address finds no child of the old one there, or the address stays in
`leftAlone`.

**Bounded buffer.**  `BufferInv` counts units.  `Has(t)` is what a thread has to
itself at its statement: the units it took before (`Kept`) and the one of the
`sem_wait` it came from, unless it still waits in it (`Awaited`).  While the
threads run, the free units of `spaceAvailable` and those that threads have are
`n - Len(fifo)`, those of `itemAvailable` are `Len(fifo)`, and each lock has one
(`UnitsAreCounted`).  So a producer that writes has a free slot, alone, and a
consumer that reads has an item; the rest is arithmetic of slots (`RingNext`,
`RingShift`, `RingOther`).  `sem_signal` may hand the unit to a waiter at once,
so the queues have to be known to be the waiters, and empty while units are
free (`QueuesAreWaiters`).  `EndsAreCounted` does the same for `waitForAll`:
main has taken, or finds, as many units as threads have ended, so when it has
taken one for each thread made, all of them have ended (`AllHaveEnded`), and
nobody is left to use what it closes.

Only model-checked:

* liveness and what rests on `ENABLED` (`ReadyRuns`, `SleeperReturns`,
  `ShutdownEnds`, `OutputIsPrinted`, `ReaderIsAnswered`, `TimerIsServed`,
  `TestEnds`, `ShutdownBegins`, `PeriodicEnds`), which is outside TLAPS;
* `IsChain` and `ImplementsList`: that the merge sort of `_list` gives back one
  chain of the same elements is an induction over the list, and `LinkedList`
  walks its links with RECURSIVE operators; TLAPS does neither.

Every other invariant and action property of a passing run is stated by a
theorem.

## Not modelled

* `init()` of the console, which putter and getter both run in user mode: which
  comes first, what a second run clears, and its `kmalloc` from user mode.
* Memory that runs out: `addLast` and `insert_sorted` write through the answer
  of `_kmalloc` without looking.  The kernel modules take memory as sufficient;
  `Kernel` composed with a full heap is too large for TLC.
* A character for a full buffer, which `putc` drops without a word.
* The calls with a null handle, which the wrappers of `syscall_c` answer with
  `HANDLE_NULL` before they trap: they change nothing.  The answer of
  `sem_trywait`: programs may do anything after it.
* What becomes of the late `numOfTimedWaiting--` of `timedBlock()`
  (src/_sem.cpp:90) when the semaphore's memory has been given to something else
  than a semaphore.  The counter itself is kept, but nothing in the code reads it.
* `get_thread_ID` and its test: its trap code has no case in the dispatch of
  traps, so the call only returns the answer for an unknown code.  The IDs
  themselves are kept as the count of threads made.
* The printer of error paths, the formatting in the tests, the check for nested
  calls and the stack trace, which only print, and `registerSAVING_STACK.S`,
  which nothing calls.
* The classes `Semaphore` and `Console` of the C++ API, which pass calls on.
* The other tests: they print and count, and `Kernel` lets programs make any
  call at any time.  A second run of the buffer's test in one session, which
  would start with `threadEnd` set.
* The hardware library, the linker script and the emulator; the PLIC, the UART
  and the processor are modelled from their use.

## Where it stands

The plan is carried out: the parts above are modelled, and each safety property
but those of the linked list is checked on small instances and proved for all.
What would come next is listed under *Not modelled*; the first of it is the race
in `init()` of the console, which needs a model of the boot with the heap.
