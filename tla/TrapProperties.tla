--------------------------- MODULE TrapProperties ---------------------------
EXTENDS Traps

Values == Calls \cup Threads \cup {"junk"}
Statuses == [sie : BOOLEAN, spie : BOOLEAN, spp : {"U", "S"}]
Frames == [a0 : Values, x : Values, fp : Values, pushed : Threads,
           scause : Causes, sepc : Points, sstatus : Statuses]
Snapshots == [pc : Points, priv : {"U", "S"}, a0 : Values, x : Values]

\* The values the variables take.
TrapsTypeOK ==
    /\ pc \in Points \cup KernelParts \cup {"halted"}
    /\ priv \in {"U", "S"}
    /\ sstatus \in Statuses
    /\ sepc \in Points
    /\ regs \in [a0 : Values, x : Values, sp : Threads, fp : Values]
    /\ pending \subseteq Interrupts
    /\ claimed \in BOOLEAN
    /\ running \in live
    /\ live \subseteq Threads
    /\ ready \in Seq(live \ {running})
    /\ context \in [Threads -> [ra : {"return", "threadWrapper"}, sp : Threads]]
    /\ stack \in [Threads -> Seq(Frames)]
    /\ left \in [Threads -> Snapshots]

\* The kernel runs in supervisor mode with interrupts masked, so that its
\* handlers are never interrupted; of the threads only main has that
\* privilege, every other runs in user mode, where all interrupts are taken.
\* Main is not interrupted either.  (main.cpp; popSppSpieChangeMod; and the
\* save and restore of sstatus in handleSupervisorTrap.)
PrivilegeIsKept ==
    /\ pc \notin Points => priv = "S" /\ ~sstatus.sie
    /\ pc \in Points => (priv = "S" <=> running = Main) /\ (priv = "S" => ~sstatus.sie)

\* A thread that is switched away in a handler has exactly one trap frame on
\* its stack and one that never ran has none; so has the running one outside
\* the kernel.  sp is always in the stack of the running thread.
OneFrameEach ==
    /\ regs.sp = running
    /\ pc \in Points => stack[running] = <<>>
    /\ \A t \in ToSet(ready) \cup Blocked :
           /\ context[t].sp = t
           /\ Len(stack[t]) = (IF context[t].ra = "return" THEN 1 ELSE 0)

\* A thread leaves the kernel at the point it entered it, or behind the ecall
\* it executed, in the mode it had, with its own registers, and with the
\* answer of its own call in a0 (and only then something new in a0): whatever
\* ran in between, including a context switch in the middle of a handler.
ResumesAsLeft ==
    [][pc \notin Points /\ pc' \in Points =>
           IF pc = "threadWrapper"
           THEN pc' = left[running].pc /\ priv' = left[running].priv
           ELSE Snapshot(pc, regs.a0)' = left[running]]_vars

\* Every timer interrupt is served, also one that comes while main or the
\* kernel runs with interrupts masked, unless a program's fault ends the
\* machine (mc_sip in timer_interrupt_handler).
TimerIsServed == "timer" \in pending ~> ("timer" \notin pending \/ pc = "halted")
=============================================================================
