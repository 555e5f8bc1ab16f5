------------------------------- MODULE Traps -------------------------------
(***************************************************************************)
(* Traps at the level of the machine: supervisorTrap.S, _riscv, the save   *)
(* and restore of registers in _context and _riscV, the wrapper a thread   *)
(* starts in, and the calls of syscall_c.cpp around their ecall.           *)
(*                                                                         *)
(* Module Kernel takes it for granted that a handler is one step and that  *)
(* a thread goes on where it was; this module shows it.  pc is a point of  *)
(* user code, which is a loop that loads a trap code in a0, executes an    *)
(* ecall and uses the answer, or the part of the kernel that runs.         *)
(*                                                                         *)
(* A register holds a trap code, "junk", or a value that belongs to one    *)
(* thread, which stands for it: x is any register but a0, sp and fp.  A    *)
(* thread's stack is its trap frames, the locals of the handler with them. *)
(***************************************************************************)
EXTENDS Integers, SequencesExt

CONSTANTS
    Main,    \* main(), which runs in supervisor mode
    Idle,    \* idleThread, which never blocks or ends here
    Workers  \* control blocks for all other threads

Users == {Idle} \cup Workers
Threads == {Main} \cup Users

ASSUME TrapsAssumption == Main \notin Users /\ Idle \notin Workers

VARIABLES
    pc,
    priv,     \* the privilege mode
    sstatus,  \* its bits SIE, SPIE and SPP
    sepc,
    regs,     \* a0, x, sp and fp
    pending,  \* SSIP and SEIP of sip
    claimed,  \* the console's interrupt is claimed at the PLIC, not completed
    running,  \* _thread::running
    live,     \* the threads that are made and not deleted
    ready,    \* Scheduler::queueThreads
    context,  \* ra and sp in the control blocks
    stack,    \* the stacks
    left      \* history: how each thread must find the machine next

machine == <<pc, priv, sstatus, sepc, regs>>
devices == <<pending, claimed>>
kernel == <<running, live, ready, context, stack>>
vars == <<machine, devices, kernel, left>>

Points == {"body", "args", "ecall", "result"}
KernelParts == {"handle", "return", "popFrame", "threadWrapper"}
Calls == {"dispatch", "exit", "create", "block", "wake", "other"}
Interrupts == {"timer", "console"}
EcallCauses == {"ecallU", "ecallS"}
Causes == Interrupts \cup EcallCauses \cup {"illegal"}

NextPoint(p) == CASE p = "body" -> "args"
                  [] p = "args" -> "ecall"
                  [] p = "ecall" -> "result"
                  [] OTHER -> "args"

Snapshot(p, a0) == [pc |-> p, priv |-> priv, a0 |-> a0, x |-> regs.x]
FreshSnapshot == [pc |-> "body", priv |-> "U", a0 |-> "junk", x |-> "junk"]
FreshContext(t) == [ra |-> "threadWrapper", sp |-> t]

\* main() has made its own thread and goes on alone, with interrupts masked.
Init ==
    /\ pc = "args" /\ priv = "S"
    /\ sstatus = [sie |-> FALSE, spie |-> FALSE, spp |-> "U"]
    /\ sepc = "args"
    /\ regs = [a0 |-> "junk", x |-> Main, sp |-> Main, fp |-> Main]
    /\ pending = {} /\ claimed = FALSE
    /\ running = Main /\ live = {Main} /\ ready = <<>>
    /\ context = [t \in Threads |-> FreshContext(t)]
    /\ stack = [t \in Threads |-> <<>>]
    /\ left = [t \in Threads |-> FreshSnapshot]

-----------------------------------------------------------------------------
\* The machine.  The PLIC gives no second interrupt before the completion of
\* the first.
Raise(i) ==
    /\ pc # "halted"
    /\ i \notin pending
    /\ i = "console" => ~claimed
    /\ pending' = pending \cup {i}
    /\ UNCHANGED <<machine, claimed, kernel, left>>

Taken == IF priv = "U" \/ sstatus.sie THEN pending ELSE {}

\* What the processor does at a trap, and, before anything else can happen,
\* supervisorTrap.S up to its call and the handler's own prologue, whose frame
\* pointer is the address of the trap frame.
SaveFrame(cause) ==
    /\ stack' = [stack EXCEPT ![regs.sp] = Append(@,
           [a0 |-> regs.a0, x |-> regs.x, fp |-> regs.fp, pushed |-> regs.sp,
            scause |-> cause, sepc |-> sepc', sstatus |-> sstatus'])]
    /\ regs' = [regs EXCEPT !.x = "junk", !.fp = regs.sp]
    /\ UNCHANGED <<running, live, ready, context>>

TakeTrap(cause, asLeft) ==
    /\ sstatus' = [sie |-> FALSE, spie |-> sstatus.sie, spp |-> priv]
    /\ priv' = "S"
    /\ sepc' = pc
    /\ SaveFrame(cause)
    /\ pc' = "handle"
    /\ left' = [left EXCEPT ![running] = asLeft]
    /\ UNCHANGED devices

Interrupt ==
    /\ pc # "halted"
    /\ \E i \in Taken : TakeTrap(i, Snapshot(pc, regs.a0))

SretTo(point, status) ==
    /\ pc' = point
    /\ priv' = status.spp
    /\ sstatus' = [sie |-> status.spie, spie |-> TRUE, spp |-> "U"]

-----------------------------------------------------------------------------
\* User code.  An interrupt that can be taken is taken first.
UserStep(point, r) ==
    /\ pc = point
    /\ Taken = {}
    /\ pc' = NextPoint(point)
    /\ regs' = r
    /\ UNCHANGED <<priv, sstatus, sepc, pending, kernel, left>>

\* threadWrapper: running->body(running->arg), in user mode.
CallBody ==
    /\ UserStep("body", [regs EXCEPT !.x = running, !.a0 = "junk"])
    /\ UNCHANGED claimed

MayCall(t) ==
    IF t = Main THEN IF Idle \in live THEN {"dispatch"} ELSE {"create"}
    ELSE IF t = Idle THEN {"dispatch", "create"} ELSE Calls

LoadArguments ==
    /\ \E c \in MayCall(running) : UserStep("args", [regs EXCEPT !.a0 = c])
    /\ UNCHANGED claimed

Ecall ==
    /\ pc = "ecall"
    /\ Taken = {}
    /\ TakeTrap(IF priv = "U" THEN "ecallU" ELSE "ecallS",
                Snapshot(NextPoint(pc), running))

\* The putter and the getter complete the console's interrupt in user mode.
UseResult ==
    /\ UserStep("result", [regs EXCEPT !.a0 = "junk"])
    /\ claimed' \in {claimed, claimed /\ running \notin Workers}

IllegalInstruction ==
    /\ pc \in Points
    /\ running \in Workers
    /\ Taken = {}
    /\ TakeTrap("illegal", Snapshot(pc, regs.a0))

-----------------------------------------------------------------------------
Top(stacks, t) == Last(stacks[t])
WithTop(stacks, t, f) == [stacks EXCEPT ![t] = Append(Front(@), f)]

\* What contextSwitch stores for the thread it leaves.
SavedContext_NoRa == [ra |-> context[running].ra, sp |-> regs.sp]  \* mutant

SavedContext == [ra |-> "return", sp |-> regs.sp]

\* The frame pointer after the switch to a context: popRegisters loads it from
\* the stack; a thread that never ran has pushed nothing.
PopRegisters(stacks, new) ==
    IF new.ra = "return" THEN Top(stacks, new.sp).pushed ELSE regs.fp

\* The end of dispatch(): the thread that runs next is the first of queue.
SwitchContext(stacks, queue) ==
    LET new == context'[Head(queue)] IN
    /\ running' = Head(queue)
    /\ ready' = Tail(queue)
    /\ context' = [context EXCEPT ![running] = SavedContext]
    /\ stack' = WithTop(stacks, regs.sp, [Top(stacks, regs.sp) EXCEPT !.pushed = regs.fp])
    /\ pc' = new.ra
    /\ regs' = [regs EXCEPT !.a0 = "junk", !.sp = new.sp, !.fp = PopRegisters(stack', new)]

-----------------------------------------------------------------------------
\* handleSupervisorTrap, by the cause of the trap.
Handle(causes) ==
    /\ pc = "handle"
    /\ Top(stack, regs.fp).scause \in causes
    /\ UNCHANGED <<priv, sstatus, sepc>>

ReturnFrom(stacks) ==
    /\ pc' = "return"
    /\ stack' = stacks
    /\ UNCHANGED <<regs, running, context>>

Blocked == live \ (ToSet(ready) \cup {running})

HandleTimer_NotReset ==
    /\ Handle({"timer"})  \* mutant
    /\ \E due \in {<<>>} \cup {<<t>> : t \in Blocked} :
           \/ ready' = ready \o due /\ ReturnFrom(stack)
           \/ SwitchContext(stack, Append(ready \o due, running))
    /\ UNCHANGED <<pending, claimed, live, left>>

\* Any time slice may be over, any sleeper due.
HandleTimer ==
    /\ Handle({"timer"})
    /\ pending' = pending \ {"timer"}
    /\ \E due \in {<<>>} \cup {<<t>> : t \in Blocked} :
           \/ ready' = ready \o due /\ ReturnFrom(stack)
           \/ SwitchContext(stack, Append(ready \o due, running))
    /\ UNCHANGED <<claimed, live, left>>

HandleConsole ==
    /\ Handle({"console"})
    /\ pending' = pending \ {"console"}
    /\ claimed' = TRUE
    /\ ReturnFrom(stack)
    /\ UNCHANGED <<live, ready, left>>

HandleIllegal ==
    /\ Handle({"illegal"})
    /\ pc' = "halted"
    /\ UNCHANGED <<regs, devices, kernel, left>>

\* The handler's copy of sepc moves past the ecall before the call is served.
AfterEcall_Same(f) == f  \* mutant

AfterEcall(f) == [f EXCEPT !.sepc = NextPoint(@)]

HandleEcall(call) ==
    /\ Handle(EcallCauses)
    /\ regs.a0 = call
    /\ UNCHANGED devices

StackAfterEcall == WithTop(stack, regs.fp, AfterEcall(Top(stack, regs.fp)))

EcallDispatch ==
    /\ HandleEcall("dispatch")
    /\ SwitchContext(StackAfterEcall, Append(ready, running))
    /\ UNCHANGED <<live, left>>

\* A call that suspends its caller: sem_wait, sem_timedwait, time_sleep, getc.
EcallBlock ==
    /\ HandleEcall("block")
    /\ SwitchContext(StackAfterEcall, ready)
    /\ UNCHANGED <<live, left>>

EcallExit_StaysReady ==
    /\ HandleEcall("exit")  \* mutant
    /\ live' = live \ {running}
    /\ SwitchContext(StackAfterEcall, Append(ready, running))
    /\ UNCHANGED left

EcallExit ==
    /\ HandleEcall("exit")
    /\ live' = live \ {running}
    /\ SwitchContext(StackAfterEcall, ready)
    /\ UNCHANGED left

\* sem_signal, sem_close, putc: they may make threads ready.
EcallWake ==
    /\ HandleEcall("wake")
    /\ \E due \in {<<>>} \cup {<<t>> : t \in Blocked} : ready' = ready \o due
    /\ ReturnFrom(StackAfterEcall)
    /\ UNCHANGED <<live, left>>

\* Every other call, an unknown code, and thread_create without memory for the
\* stack: that ends with the answer of mem_alloc.
EcallOther ==
    /\ Handle(EcallCauses)
    /\ regs.a0 = "other" \/ (regs.a0 = "create" /\ Users \subseteq live)
    /\ ReturnFrom(StackAfterEcall)
    /\ UNCHANGED <<devices, live, ready, left>>

EcallCreate ==
    /\ HandleEcall("create")
    /\ \E t \in Users \ live :
           /\ running = Main => t = Idle
           /\ live' = live \cup {t}
           /\ ready' = Append(ready, t)
           /\ context' = [context EXCEPT ![t] = FreshContext(t)]
           /\ stack' = [StackAfterEcall EXCEPT ![t] = <<>>]
           /\ left' = [left EXCEPT ![t] = FreshSnapshot]
    /\ pc' = "return"
    /\ UNCHANGED <<regs, running>>

-----------------------------------------------------------------------------
\* The end of handleSupervisorTrap: a0 of the frame, sstatus and sepc.
Return_NoStatus ==
    LET f == Top(stack, regs.fp) IN
    /\ pc = "return"  \* mutant
    /\ stack' = IF f.scause \in EcallCauses
                THEN WithTop(stack, regs.fp, [f EXCEPT !.a0 = running]) ELSE stack
    /\ sepc' = f.sepc
    /\ pc' = "popFrame"
    /\ UNCHANGED <<priv, sstatus, regs, devices, running, live, ready>>
    /\ UNCHANGED <<context, left>>

Return ==
    LET f == Top(stack, regs.fp) IN
    /\ pc = "return"
    /\ stack' = IF f.scause \in EcallCauses
                THEN WithTop(stack, regs.fp, [f EXCEPT !.a0 = running]) ELSE stack
    /\ sstatus' = f.sstatus
    /\ sepc' = f.sepc
    /\ pc' = "popFrame"
    /\ UNCHANGED <<priv, regs, devices, running, live, ready, context, left>>

\* supervisorTrap.S from the call on.
PopFrame ==
    LET f == Top(stack, regs.sp) IN
    /\ pc = "popFrame"
    /\ regs' = [a0 |-> f.a0, x |-> f.x, sp |-> regs.sp, fp |-> f.fp]
    /\ stack' = [stack EXCEPT ![regs.sp] = Front(@)]
    /\ SretTo(sepc, sstatus)
    /\ left' = [left EXCEPT ![running] = FreshSnapshot]
    /\ UNCHANGED <<sepc, devices, running, live, ready, context>>

\* threadWrapper calls popSppSpieChangeMod.
PopSppSpieChangeMod ==
    /\ pc = "threadWrapper"
    /\ sepc' = "body"
    /\ SretTo("body", [sstatus EXCEPT !.spp = "U"])
    /\ UNCHANGED <<regs, devices, kernel, left>>

-----------------------------------------------------------------------------
UserCode == CallBody \/ LoadArguments \/ Ecall \/ UseResult \/ IllegalInstruction

Handler ==
    \/ HandleTimer \/ HandleConsole \/ HandleIllegal
    \/ EcallDispatch \/ EcallBlock \/ EcallExit \/ EcallWake
    \/ EcallOther \/ EcallCreate

Processor ==
    \/ UserCode \/ Interrupt \/ Handler \/ Return \/ PopFrame
    \/ PopSppSpieChangeMod

Next == Processor \/ \E i \in Interrupts : Raise(i)

\* The processor never stops; interrupts come when they like.
Spec == Init /\ [][Next]_vars /\ WF_vars(Processor)
=============================================================================
