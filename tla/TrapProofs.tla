----------------------------- MODULE TrapProofs -----------------------------
(***************************************************************************)
(* Proof that the kernel is never interrupted, that every thread that is   *)
(* switched away has exactly one trap frame, and that a thread leaves the  *)
(* kernel as it entered it, for all sets of threads.                       *)
(***************************************************************************)
EXTENDS TrapProperties, ListTheorems

\* The frame f is what thread t has to be resumed from: its registers, its
\* mode and where it goes on.  Main is never interrupted: it only makes calls.
Resumes(t, f) ==
    /\ f.sepc = left[t].pc
    /\ f.x = left[t].x
    /\ IF f.scause \in EcallCauses THEN left[t].a0 = t ELSE left[t].a0 = f.a0
    /\ f.sstatus.spp = left[t].priv
    /\ ~f.sstatus.sie
    /\ left[t].priv = "S" => ~f.sstatus.spie
    /\ left[t].priv = "S" <=> t = Main
    /\ t = Main => left[t].pc = "result"

\* A thread without the processor was left inside contextSwitch, with its trap
\* frame on its stack, or it never ran.
IsAway(t) ==
    /\ context[t].sp = t
    /\ context[t].ra = "return" =>
           \E f \in ToSet(stack[t]) : stack[t] = <<f>> /\ f.pushed = t /\ Resumes(t, f)
    /\ context[t].ra = "threadWrapper" =>
           stack[t] = <<>> /\ left[t] = FreshSnapshot /\ t # Main

MainCalls == {"dispatch", "create"}

\* In user code the stack holds no frame.
InUserCode ==
    /\ stack[running] = <<>>
    /\ pc = "ecall" /\ running = Main => regs.a0 \in MainCalls

\* In a handler the frame pointer leads to the frame, which has to be moved
\* past the ecall before it is what the thread is resumed from.
InHandler ==
    /\ regs.fp = running
    /\ running = Main => regs.a0 \in MainCalls
    /\ \E f \in ToSet(stack[running]) :
           /\ stack[running] = <<f>>
           /\ Resumes(running, IF f.scause \in EcallCauses THEN AfterEcall(f) ELSE f)

InReturn ==
    /\ regs.fp = running
    /\ \E f \in ToSet(stack[running]) : stack[running] = <<f>> /\ Resumes(running, f)

\* The CSRs are restored; the frame holds the rest.
InPopFrame ==
    /\ \E f \in ToSet(stack[running]) : /\ stack[running] = <<f>>
                         /\ f.a0 = left[running].a0 /\ f.x = left[running].x
    /\ sepc = left[running].pc
    /\ sstatus.spp = left[running].priv
    /\ left[running].priv = "S" => ~sstatus.spie
    /\ left[running].priv = "S" <=> running = Main
    /\ running = Main => left[running].pc = "result"

InThreadWrapper ==
    /\ stack[running] = <<>>
    /\ left[running] = FreshSnapshot
    /\ running # Main

RunningInv ==
    /\ pc \in Points => InUserCode
    /\ pc = "handle" => InHandler
    /\ pc = "return" => InReturn
    /\ pc = "popFrame" => InPopFrame
    /\ pc = "threadWrapper" => InThreadWrapper

\* The inductive invariant.
TrapInv ==
    /\ TrapsTypeOK
    /\ PrivilegeIsKept
    /\ regs.sp = running
    /\ IsInjective(ready)
    /\ Main \in ToSet(ready) \cup {running}
    /\ RunningInv
    /\ \A t \in live \ {running} : IsAway(t)

-----------------------------------------------------------------------------
\* Stacks of one frame.
LEMMA OneFrame ==
    ASSUME NEW f
    PROVE  /\ Last(<<f>>) = f /\ Front(<<f>>) = <<>> /\ Append(<<>>, f) = <<f>>
           /\ Len(<<f>>) = 1 /\ ToSet(<<f>>) = {f}
  BY DEF Last, Front, ToSet

\* A handler finds the frame of the running thread; once that is moved past
\* the ecall it is what the thread is resumed from.
LEMMA HandlerFrame ==
    ASSUME TrapInv, pc = "handle"
    PROVE  \E f \in Frames :
               /\ Top(stack, regs.fp) = f
               /\ f.scause \notin EcallCauses =>
                      stack = [stack EXCEPT ![running] = <<f>>] /\ Resumes(running, f)
               /\ f.scause \in EcallCauses =>
                      \E g \in Frames :
                          /\ StackAfterEcall = [stack EXCEPT ![running] = <<g>>]
                          /\ Resumes(running, g)
<1>1. /\ regs.fp = running /\ running \in Threads /\ stack \in [Threads -> Seq(Frames)]
  BY DEF TrapInv, RunningInv, InHandler, TrapsTypeOK
<1>2. PICK f : /\ stack[running] = <<f>>
               /\ Resumes(running, IF f.scause \in EcallCauses THEN AfterEcall(f) ELSE f)
  BY DEF TrapInv, RunningInv, InHandler
<1>3. f \in Frames
  <2>1. <<f>> \in Seq(Frames)
    BY <1>1, <1>2
  <2>2. QED
    BY <2>1
<1>4. Top(stack, regs.fp) = f
  BY <1>1, <1>2, OneFrame DEF Top
<1>5. CASE f.scause \notin EcallCauses
  <2>1. stack = [stack EXCEPT ![running] = <<f>>]
    BY <1>1, <1>2
  <2>2. QED
    BY <1>2, <1>3, <1>4, <1>5, <2>1
<1>6. CASE f.scause \in EcallCauses
  <2>1. AfterEcall(f) \in Frames
    BY <1>3 DEF AfterEcall, Frames, NextPoint, Points
  <2>2. StackAfterEcall = [stack EXCEPT ![running] = <<AfterEcall(f)>>]
    BY <1>1, <1>2, <1>4, OneFrame DEF StackAfterEcall, WithTop
  <2>3. QED
    BY <1>2, <1>3, <1>4, <1>6, <2>1, <2>2
<1>7. QED
  BY <1>5, <1>6

\* A thread that a step does not touch stays away.
LEMMA StaysAway ==
    ASSUME NEW t, IsAway(t), context'[t] = context[t], stack'[t] = stack[t],
           left'[t] = left[t]
    PROVE  IsAway(t)'
  BY DEF IsAway, Resumes

-----------------------------------------------------------------------------
\* User code goes on in user code.
LEMMA InvUser ==
    ASSUME TrapInv, pc \in Points, pc' \in Points,
           regs' \in [a0 : Values, x : Values, sp : Threads, fp : Values],
           regs'.sp = regs.sp,
           pc' = "ecall" /\ running = Main => regs'.a0 \in MainCalls,
           pending' \subseteq Interrupts, claimed' \in BOOLEAN,
           UNCHANGED <<priv, sstatus, sepc, kernel, left>>
    PROVE  TrapInv'
<1>1. UNCHANGED <<running, live, ready, context, stack, left>>
  BY DEF kernel
<1>2. TrapsTypeOK'
  BY <1>1 DEF TrapInv, TrapsTypeOK
<1>3. PrivilegeIsKept'
  BY <1>1 DEF TrapInv, PrivilegeIsKept
<1>4. RunningInv'
  BY <1>1 DEF TrapInv, RunningInv, InUserCode, Points
<1>5. \A t \in live' \ {running'} : IsAway(t)'
  BY <1>1, StaysAway DEF TrapInv
<1>6. QED
  BY <1>1, <1>2, <1>3, <1>4, <1>5 DEF TrapInv

\* An interrupt becomes pending.
LEMMA InvRaise ==
    ASSUME TrapInv, NEW i \in Interrupts, Raise(i)
    PROVE  TrapInv'
<1>1. /\ UNCHANGED <<pc, priv, sstatus, sepc, regs, claimed, running, live, ready,
                     context, stack, left>>
      /\ pending' \subseteq Interrupts
  BY DEF Raise, machine, kernel, TrapInv, TrapsTypeOK
<1>2. TrapsTypeOK' /\ PrivilegeIsKept'
  BY <1>1 DEF TrapInv, TrapsTypeOK, PrivilegeIsKept
<1>3. RunningInv'
  BY <1>1 DEF TrapInv, RunningInv, InUserCode, InHandler, InReturn, InPopFrame,
     InThreadWrapper, Resumes
<1>4. \A t \in live' \ {running'} : IsAway(t)'
  BY <1>1, StaysAway DEF TrapInv
<1>5. QED
  BY <1>1, <1>2, <1>3, <1>4 DEF TrapInv

\* A trap: the frame keeps what the thread is resumed from.
LEMMA InvTakeTrap ==
    ASSUME TrapInv, pc \in Points, NEW cause \in Causes, NEW a0 \in Values, NEW p \in Points,
           TakeTrap(cause, Snapshot(p, a0)),
           IF cause \in EcallCauses THEN pc = "ecall" /\ p = "result" /\ a0 = running
                                    ELSE p = pc /\ a0 = regs.a0 /\ running # Main
    PROVE  TrapInv'
<1>1. PICK u, f, l :
          /\ u = running /\ u \in Threads
          /\ f = [a0 |-> regs.a0, x |-> regs.x, fp |-> regs.fp, pushed |-> u,
                  scause |-> cause, sepc |-> pc,
                  sstatus |-> [sie |-> FALSE, spie |-> sstatus.sie, spp |-> priv]]
          /\ l = Snapshot(p, a0)
  BY DEF TrapInv, TrapsTypeOK
<1>2. /\ regs.sp = u /\ stack[u] = <<>>
      /\ stack \in [Threads -> Seq(Frames)] /\ left \in [Threads -> Snapshots]
      /\ regs \in [a0 : Values, x : Values, sp : Threads, fp : Values]
      /\ priv \in {"U", "S"} /\ sstatus \in Statuses
  BY <1>1 DEF TrapInv, RunningInv, InUserCode, TrapsTypeOK
<1>3. /\ sstatus' = [sie |-> FALSE, spie |-> sstatus.sie, spp |-> priv]
      /\ priv' = "S" /\ sepc' = pc /\ pc' = "handle"
      /\ stack' = [stack EXCEPT ![u] = <<f>>]
      /\ regs' = [regs EXCEPT !.x = "junk", !.fp = u]
      /\ left' = [left EXCEPT ![u] = l]
      /\ UNCHANGED <<pending, claimed, running, live, ready, context>>
  BY <1>1, <1>2, OneFrame DEF TakeTrap, SaveFrame, devices
<1>4. f \in Frames /\ l \in Snapshots
  BY <1>1, <1>2 DEF Frames, Statuses, Snapshot, Snapshots, Values
<1>5. (priv = "S" <=> u = Main) /\ (priv = "S" => ~sstatus.sie)
  BY <1>1 DEF TrapInv, PrivilegeIsKept
<1>6. TrapsTypeOK'
  <2>1. sstatus' \in Statuses
    BY <1>2, <1>3 DEF Statuses
  <2>2. regs' \in [a0 : Values, x : Values, sp : Threads, fp : Values]
    BY <1>2, <1>3 DEF Values
  <2>3. stack' \in [Threads -> Seq(Frames)] /\ left' \in [Threads -> Snapshots]
    BY <1>2, <1>3, <1>4
  <2>4. QED
    BY <1>3, <2>1, <2>2, <2>3 DEF TrapInv, TrapsTypeOK, KernelParts
<1>7. PrivilegeIsKept'
  BY <1>3 DEF PrivilegeIsKept, Points
<1>8. /\ left'[u] = l /\ stack'[u] = <<f>>
      /\ regs'.sp = u /\ regs'.fp = u /\ regs'.a0 = regs.a0
  BY <1>2, <1>3
<1>9. Resumes(u, IF f.scause \in EcallCauses THEN AfterEcall(f) ELSE f)'
  <2>1. PICK g : g = IF f.scause \in EcallCauses THEN AfterEcall(f) ELSE f
    OBVIOUS
  <2>2. /\ g.x = regs.x /\ g.scause = cause /\ g.a0 = regs.a0 /\ g.sepc = p
        /\ g.sstatus = [sie |-> FALSE, spie |-> sstatus.sie, spp |-> priv]
    BY <1>1, <2>1 DEF AfterEcall, NextPoint
  <2>3. l.pc = p /\ l.priv = priv /\ l.a0 = a0 /\ l.x = regs.x
    BY <1>1 DEF Snapshot
  <2>4. u = Main => p = "result"
    BY <1>1
  <2>5. Resumes(u, g)'
    BY <1>1, <1>5, <1>8, <2>2, <2>3, <2>4 DEF Resumes
  <2>6. QED
    BY <2>1, <2>5
<1>10. u = Main => regs.a0 \in MainCalls
  BY <1>1 DEF TrapInv, RunningInv, InUserCode
<1>11. running' = u /\ f \in ToSet(stack'[u])
  BY <1>1, <1>3, <1>8, OneFrame
<1>12. InHandler'
  BY <1>8, <1>9, <1>10, <1>11 DEF InHandler
<1>13. RunningInv'
  BY <1>3, <1>12 DEF RunningInv, Points
<1>14. \A t \in live' \ {running'} : IsAway(t)'
  <2>1. \A t \in Threads : t # u => stack'[t] = stack[t] /\ left'[t] = left[t]
    BY <1>2, <1>3
  <2>2. QED
    BY <1>1, <1>3, <2>1, StaysAway DEF TrapInv, TrapsTypeOK
<1>15. QED
  BY <1>3, <1>6, <1>7, <1>8, <1>11, <1>13, <1>14 DEF TrapInv

\* User code that does not trap.
LEMMA InvUserCode ==
    ASSUME TrapInv, CallBody \/ LoadArguments \/ UseResult
    PROVE  TrapInv'
<1>1. /\ regs \in [a0 : Values, x : Values, sp : Threads, fp : Values]
      /\ running \in Threads /\ pending \subseteq Interrupts /\ claimed \in BOOLEAN
      /\ running \in live
  BY DEF TrapInv, TrapsTypeOK
<1>2. CASE CallBody
  <2>1. /\ pc = "body" /\ pc' = "args"
        /\ regs' = [regs EXCEPT !.x = running, !.a0 = "junk"]
        /\ UNCHANGED <<priv, sstatus, sepc, pending, claimed, kernel, left>>
    BY <1>2 DEF CallBody, UserStep, NextPoint
  <2>2. regs' \in [a0 : Values, x : Values, sp : Threads, fp : Values] /\ regs'.sp = regs.sp
    BY <1>1, <2>1 DEF Values
  <2>3. QED
    BY <1>1, <2>1, <2>2, InvUser DEF Points
<1>3. CASE LoadArguments
  <2>1. PICK c \in MayCall(running) : UserStep("args", [regs EXCEPT !.a0 = c])
    BY <1>3 DEF LoadArguments
  <2>2. c \in Calls /\ (running = Main => c \in MainCalls)
    BY DEF MayCall, Calls, MainCalls
  <2>3. /\ pc = "args" /\ pc' = "ecall"
        /\ regs' = [regs EXCEPT !.a0 = c]
        /\ UNCHANGED <<priv, sstatus, sepc, pending, claimed, kernel, left>>
    BY <1>3, <2>1 DEF LoadArguments, UserStep, NextPoint
  <2>4. /\ regs' \in [a0 : Values, x : Values, sp : Threads, fp : Values]
        /\ regs'.sp = regs.sp /\ regs'.a0 = c
    BY <1>1, <2>2, <2>3 DEF Values
  <2>5. QED
    BY <1>1, <2>2, <2>3, <2>4, InvUser DEF Points
<1>4. CASE UseResult
  <2>1. /\ pc = "result" /\ pc' = "args"
        /\ regs' = [regs EXCEPT !.a0 = "junk"]
        /\ UNCHANGED <<priv, sstatus, sepc, pending, kernel, left>>
        /\ claimed' \in {claimed, claimed /\ running \notin Workers}
    BY <1>4 DEF UseResult, UserStep, NextPoint
  <2>2. regs' \in [a0 : Values, x : Values, sp : Threads, fp : Values] /\ regs'.sp = regs.sp
    BY <1>1, <2>1 DEF Values
  <2>3. claimed' \in BOOLEAN
    BY <1>1, <2>1, Zenon
  <2>4. QED
    BY <1>1, <2>1, <2>2, <2>3, InvUser DEF Points
<1>5. QED
  BY <1>2, <1>3, <1>4

\* User code that traps.  Main is not interrupted and executes no illegal
\* instruction.
LEMMA InvTraps ==
    ASSUME TrapInv, Interrupt \/ Ecall \/ IllegalInstruction
    PROVE  TrapInv'
<1>1. /\ regs \in [a0 : Values, x : Values, sp : Threads, fp : Values]
      /\ running \in Threads /\ pending \subseteq Interrupts
      /\ pc \in Points \cup KernelParts \cup {"halted"}
  BY DEF TrapInv, TrapsTypeOK
<1>2. CASE Interrupt
  <2>1. PICK i \in Taken : TakeTrap(i, Snapshot(pc, regs.a0))
    BY <1>2 DEF Interrupt
  <2>2. priv = "U" \/ sstatus.sie
    BY DEF Taken
  <2>3. pc \in Points /\ running # Main
    BY <2>2 DEF TrapInv, PrivilegeIsKept
  <2>4. i \in Causes /\ i \notin EcallCauses
    BY <1>1 DEF Taken, Causes, Interrupts, EcallCauses
  <2>5. QED
    BY <1>1, <2>1, <2>3, <2>4, InvTakeTrap
<1>3. CASE Ecall
  <2>1. PICK c \in EcallCauses : TakeTrap(c, Snapshot("result", running)) /\ pc = "ecall"
    BY <1>3 DEF Ecall, NextPoint, EcallCauses
  <2>2. c \in Causes /\ running \in Values /\ "result" \in Points /\ pc \in Points
    BY <1>1, <2>1 DEF Causes, Values, Points
  <2>3. QED
    BY <2>1, <2>2, InvTakeTrap
<1>4. CASE IllegalInstruction
  <2>1. /\ pc \in Points /\ running # Main
        /\ TakeTrap("illegal", Snapshot(pc, regs.a0))
    BY <1>4, TrapsAssumption DEF IllegalInstruction, Users
  <2>2. "illegal" \in Causes /\ "illegal" \notin EcallCauses /\ regs.a0 \in Values
    BY <1>1 DEF Causes, EcallCauses
  <2>3. QED
    BY <2>1, <2>2, InvTakeTrap
<1>5. QED
  BY <1>2, <1>3, <1>4

-----------------------------------------------------------------------------
\* A handler that goes on to its end with the running thread.
LEMMA InvReturnFrom ==
    ASSUME TrapInv, pc = "handle", NEW f \in Frames, Resumes(running, f),
           ReturnFrom([stack EXCEPT ![running] = <<f>>]),
           ready' \in Seq(live \ {running}), IsInjective(ready'),
           ToSet(ready) \subseteq ToSet(ready'),
           pending' \subseteq Interrupts, claimed' \in BOOLEAN,
           UNCHANGED <<priv, sstatus, sepc, live, left>>
    PROVE  TrapInv'
<1>1. PICK u \in Threads : u = running
  BY DEF TrapInv, TrapsTypeOK
<1>2. /\ pc' = "return" /\ UNCHANGED <<regs, running, context>>
      /\ stack' = [stack EXCEPT ![u] = <<f>>]
      /\ stack \in [Threads -> Seq(Frames)]
  BY <1>1 DEF ReturnFrom, TrapInv, TrapsTypeOK
<1>3. TrapsTypeOK'
  <2>1. stack' \in [Threads -> Seq(Frames)]
    BY <1>1, <1>2
  <2>2. QED
    BY <1>2, <2>1 DEF TrapInv, TrapsTypeOK, KernelParts
<1>4. PrivilegeIsKept'
  BY <1>2 DEF TrapInv, PrivilegeIsKept, Points
<1>5. stack'[u] = <<f>> /\ f \in ToSet(stack'[u])
  BY <1>1, <1>2, OneFrame
<1>6. Resumes(u, f)'
  BY <1>1 DEF Resumes
<1>7. regs'.fp = u
  BY <1>1, <1>2 DEF TrapInv, RunningInv, InHandler
<1>8. RunningInv'
  BY <1>1, <1>2, <1>5, <1>6, <1>7 DEF RunningInv, InReturn, Points
<1>9. \A t \in live' \ {running'} : IsAway(t)'
  <2>1. \A t \in Threads : t # u => stack'[t] = stack[t]
    BY <1>2
  <2>2. QED
    BY <1>1, <1>2, <2>1, StaysAway DEF TrapInv, TrapsTypeOK
<1>10. QED
  BY <1>2, <1>3, <1>4, <1>8, <1>9 DEF TrapInv

\* A handler that gives the processor to the first thread of a queue: the old
\* thread is left with its frame, the new one is where it was left.
LEMMA InvSwitchContext ==
    ASSUME TrapInv, pc = "handle", NEW f \in Frames, Resumes(running, f),
           NEW ts, ts \subseteq live, live' = ts,
           NEW queue \in Seq(ts), queue # <<>>, IsInjective(queue), Main \in ToSet(queue),
           SwitchContext([stack EXCEPT ![running] = <<f>>], queue),
           pending' \subseteq Interrupts, claimed' \in BOOLEAN,
           UNCHANGED <<priv, sstatus, sepc, left>>
    PROVE  TrapInv'
<1>1. PICK u, h, g : /\ u = running /\ u \in Threads
                     /\ h = Head(queue) /\ h \in ts
                     /\ g = [f EXCEPT !.pushed = u]
  BY TailList DEF TrapInv, TrapsTypeOK
<1>2. /\ regs.sp = u /\ regs.fp = u /\ h \in Threads
      /\ stack \in [Threads -> Seq(Frames)]
      /\ context \in [Threads -> [ra : {"return", "threadWrapper"}, sp : Threads]]
      /\ regs \in [a0 : Values, x : Values, sp : Threads, fp : Values]
  BY <1>1 DEF TrapInv, RunningInv, InHandler, TrapsTypeOK
<1>3. g \in Frames /\ g.pushed = u /\ Resumes(u, g)
  BY <1>1 DEF Frames, Resumes
<1>4. /\ running' = h /\ ready' = Tail(queue)
      /\ context' = [context EXCEPT ![u] = [ra |-> "return", sp |-> u]]
      /\ stack' = [stack EXCEPT ![u] = <<g>>]
  <2>1. context' = [context EXCEPT ![u] = [ra |-> "return", sp |-> u]]
    BY <1>1, <1>2 DEF SwitchContext, SavedContext
  <2>2. Top([stack EXCEPT ![u] = <<f>>], u) = f
    BY <1>2, OneFrame DEF Top
  <2>3. WithTop([stack EXCEPT ![u] = <<f>>], u, g) = [stack EXCEPT ![u] = <<g>>]
    BY <1>2, OneFrame DEF WithTop
  <2>4. QED
    BY <1>1, <1>2, <2>1, <2>2, <2>3 DEF SwitchContext
<1>5. PICK new : new = context'[h]
  OBVIOUS
<1>6. /\ pc' = new.ra
      /\ regs' = [regs EXCEPT !.a0 = "junk", !.sp = new.sp, !.fp = PopRegisters(stack', new)]
  BY <1>1, <1>5 DEF SwitchContext
<1>7. context' \in [Threads -> [ra : {"return", "threadWrapper"}, sp : Threads]]
      /\ stack' \in [Threads -> Seq(Frames)]
  BY <1>2, <1>3, <1>4
<1>8. ASSUME NEW t \in ts PROVE IsAway(t)'
  <2>1. CASE t = u
    <3>1. /\ context'[u] = [ra |-> "return", sp |-> u] /\ stack'[u] = <<g>>
          /\ g \in ToSet(stack'[u])
      BY <1>2, <1>4, OneFrame
    <3>2. Resumes(u, g)'
      BY <1>3 DEF Resumes
    <3>3. QED
      BY <1>3, <2>1, <3>1, <3>2 DEF IsAway
  <2>2. CASE t # u
    <3>1. IsAway(t) /\ t \in Threads
      BY <1>1, <2>2 DEF TrapInv, TrapsTypeOK
    <3>2. context'[t] = context[t] /\ stack'[t] = stack[t]
      BY <1>2, <1>4, <2>2, <3>1
    <3>3. QED
      BY <3>1, <3>2, StaysAway
  <2>3. QED
    BY <2>1, <2>2
<1>9. /\ new.sp = h /\ new.ra \in {"return", "threadWrapper"}
      /\ new.ra = "return" =>
             \E k \in ToSet(stack'[h]) : stack'[h] = <<k>> /\ k.pushed = h /\ Resumes(h, k)'
      /\ new.ra = "threadWrapper" =>
             stack'[h] = <<>> /\ left'[h] = FreshSnapshot /\ h # Main
  BY <1>1, <1>2, <1>5, <1>7, <1>8 DEF IsAway
<1>10. new.ra = "return" => PopRegisters(stack', new) = h
  BY <1>9, OneFrame DEF PopRegisters, Top
<1>11. /\ regs' \in [a0 : Values, x : Values, sp : Threads, fp : Values]
       /\ regs'.sp = h /\ (new.ra = "return" => regs'.fp = h)
  <2>1. PopRegisters(stack', new) \in Values
    BY <1>2, <1>9, <1>10 DEF PopRegisters, Values
  <2>2. QED
    BY <1>2, <1>6, <1>9, <1>10, <2>1 DEF Values
<1>12. /\ Tail(queue) \in Seq(ts) /\ IsInjective(Tail(queue))
       /\ ToSet(Tail(queue)) = ToSet(queue) \ {h}
  BY <1>1, TailList
<1>13. Tail(queue) \in Seq(ts \ {h})
  <2>1. ToSet(Tail(queue)) \subseteq ts \ {h}
    BY <1>12, InList
  <2>2. QED
    BY <1>12, <2>1, ListOf
<1>14. TrapsTypeOK'
  BY <1>1, <1>4, <1>6, <1>7, <1>9, <1>11, <1>13 DEF TrapInv, TrapsTypeOK, KernelParts
<1>15. PrivilegeIsKept'
  BY <1>6, <1>9 DEF TrapInv, PrivilegeIsKept, Points
<1>16. RunningInv'
  <2>1. pc' = "return" => InReturn'
    BY <1>4, <1>6, <1>9, <1>11 DEF InReturn
  <2>2. pc' = "threadWrapper" => InThreadWrapper'
    BY <1>4, <1>6, <1>9 DEF InThreadWrapper
  <2>3. QED
    BY <1>6, <1>9, <2>1, <2>2 DEF RunningInv, Points
<1>17. IsInjective(ready') /\ Main \in ToSet(ready') \cup {running'}
  BY <1>4, <1>12
<1>18. QED
  BY <1>4, <1>8, <1>11, <1>14, <1>15, <1>16, <1>17 DEF TrapInv

-----------------------------------------------------------------------------
\* The ready queue after a handler has made at most one blocked thread ready.
LEMMA ReadyGrows ==
    ASSUME TrapInv, NEW due \in {<<>>} \cup {<<t>> : t \in Blocked}
    PROVE  /\ ready \o due \in Seq(live \ {running})
           /\ IsInjective(ready \o due)
           /\ ToSet(ready) \subseteq ToSet(ready \o due)
<1>1. ready \in Seq(live \ {running}) /\ IsInjective(ready)
  BY DEF TrapInv, TrapsTypeOK
<1>2. CASE due = <<>>
  <2>1. ready \o due = ready
    BY <1>1, <1>2
  <2>2. QED
    BY <1>1, <2>1
<1>3. CASE due # <<>>
  <2>1. PICK t \in Blocked : due = <<t>>
    BY <1>3
  <2>2. t \in live \ {running} /\ t \notin ToSet(ready)
    BY DEF Blocked
  <2>3. ready \o due = Append(ready, t)
    BY <1>1, <2>1, <2>2
  <2>4. QED
    BY <1>1, <2>2, <2>3, AppendList
<1>4. QED
  BY <1>2, <1>3

\* The queue that a thread which stays ready leaves behind.
LEMMA QueueWithRunning ==
    ASSUME TrapInv, NEW q \in Seq(live \ {running}), IsInjective(q), ToSet(ready) \subseteq ToSet(q)
    PROVE  /\ Append(q, running) \in Seq(live) /\ Append(q, running) # <<>>
           /\ IsInjective(Append(q, running))
           /\ Main \in ToSet(Append(q, running))
<1>1. running \in live /\ Main \in ToSet(q) \cup {running}
  BY DEF TrapInv, TrapsTypeOK
<1>2. ToSet(q) \subseteq live \ {running}
  BY InList
<1>3. q \in Seq(live) /\ running \notin ToSet(q)
  BY <1>2, ListOf
<1>4. /\ Append(q, running) \in Seq(live) /\ Len(Append(q, running)) = Len(q) + 1
      /\ ToSet(Append(q, running)) = ToSet(q) \cup {running}
      /\ IsInjective(Append(q, running))
  BY <1>1, <1>3, AppendList
<1>5. Append(q, running) # <<>>
  OBVIOUS
<1>6. QED
  BY <1>1, <1>4, <1>5

\* A thread that may block or end is not main, so that main is ready then.
LEMMA QueueWithoutRunning ==
    ASSUME TrapInv, running # Main
    PROVE  /\ ready \in Seq(live) /\ ready \in Seq(live \ {running})
           /\ ready # <<>> /\ IsInjective(ready) /\ Main \in ToSet(ready)
<1>1. ready \in Seq(live \ {running}) /\ IsInjective(ready) /\ Main \in ToSet(ready)
  BY DEF TrapInv, TrapsTypeOK
<1>2. ready \in Seq(live)
  BY <1>1, InList, ListOf
<1>3. ready # <<>>
  BY <1>1 DEF ToSet
<1>4. QED
  BY <1>1, <1>2, <1>3

\* The handlers of the two interrupts and of an illegal instruction.
LEMMA InvInterrupts ==
    ASSUME TrapInv, HandleTimer \/ HandleConsole \/ HandleIllegal
    PROVE  TrapInv'
<1>1. pc = "handle" /\ UNCHANGED <<priv, sstatus, sepc>>
      /\ Top(stack, regs.fp).scause \in Interrupts \cup {"illegal"}
  BY DEF HandleTimer, HandleConsole, HandleIllegal, Handle, Interrupts
<1>2. PICK f \in Frames : /\ Top(stack, regs.fp) = f
                          /\ f.scause \notin EcallCauses =>
                                 /\ stack = [stack EXCEPT ![running] = <<f>>]
                                 /\ Resumes(running, f)
  BY <1>1, HandlerFrame
<1>3. stack = [stack EXCEPT ![running] = <<f>>] /\ Resumes(running, f)
  BY <1>1, <1>2 DEF Interrupts, EcallCauses
<1>4. pending \subseteq Interrupts /\ claimed \in BOOLEAN
  BY DEF TrapInv, TrapsTypeOK
<1>5. CASE HandleTimer
  <2>1. /\ pending' \subseteq Interrupts /\ claimed' \in BOOLEAN
        /\ UNCHANGED <<live, left>>
    BY <1>4, <1>5 DEF HandleTimer
  <2>2. PICK due \in {<<>>} \cup {<<t>> : t \in Blocked} :
            \/ ready' = ready \o due /\ ReturnFrom(stack)
            \/ SwitchContext(stack, Append(ready \o due, running))
    BY <1>5 DEF HandleTimer
  <2>3. PICK q : q = ready \o due
    OBVIOUS
  <2>4. q \in Seq(live \ {running}) /\ IsInjective(q) /\ ToSet(ready) \subseteq ToSet(q)
    BY <2>3, ReadyGrows
  <2>5. CASE ready' = q /\ ReturnFrom(stack)
    BY <1>1, <1>3, <2>1, <2>4, <2>5, InvReturnFrom
  <2>6. CASE SwitchContext(stack, Append(q, running))
    <3>1. PICK q1 : q1 = Append(q, running)
      OBVIOUS
    <3>2. PICK ts : ts = live
      OBVIOUS
    <3>3. q1 \in Seq(ts) /\ q1 # <<>> /\ IsInjective(q1) /\ Main \in ToSet(q1)
      BY <2>4, <3>1, <3>2, QueueWithRunning
    <3>4. live' = ts /\ ts \subseteq live
      BY <2>1, <3>2
    <3>5. QED
      BY <1>1, <1>3, <2>1, <2>6, <3>1, <3>3, <3>4, InvSwitchContext
  <2>7. QED
    BY <2>2, <2>3, <2>5, <2>6
<1>6. CASE HandleConsole
  <2>1. /\ pending' \subseteq Interrupts /\ claimed' \in BOOLEAN
        /\ ReturnFrom(stack) /\ UNCHANGED <<live, ready, left>>
    BY <1>4, <1>6 DEF HandleConsole
  <2>2. ready' \in Seq(live \ {running}) /\ IsInjective(ready')
    BY <2>1 DEF TrapInv, TrapsTypeOK
  <2>3. QED
    BY <1>1, <1>3, <2>1, <2>2, InvReturnFrom
<1>7. CASE HandleIllegal
  <2>1. /\ pc' = "halted"
        /\ UNCHANGED <<regs, pending, claimed, running, live, ready, context, stack, left>>
    BY <1>7 DEF HandleIllegal, devices, kernel
  <2>2. TrapsTypeOK' /\ PrivilegeIsKept' /\ RunningInv'
    BY <1>1, <2>1 DEF TrapInv, TrapsTypeOK, PrivilegeIsKept, RunningInv, Points
  <2>3. \A t \in live' \ {running'} : IsAway(t)'
    BY <2>1, StaysAway DEF TrapInv
  <2>4. QED
    BY <2>1, <2>2, <2>3 DEF TrapInv
<1>8. QED
  BY <1>5, <1>6, <1>7

\* The calls: in each of them the frame is moved past the ecall.
LEMMA EcallFrame ==
    ASSUME TrapInv, Handle(EcallCauses)
    PROVE  /\ pc = "handle" /\ UNCHANGED <<priv, sstatus, sepc>>
           /\ \E g \in Frames : /\ StackAfterEcall = [stack EXCEPT ![running] = <<g>>]
                                /\ Resumes(running, g)
<1>1. pc = "handle" /\ Top(stack, regs.fp).scause \in EcallCauses
      /\ UNCHANGED <<priv, sstatus, sepc>>
  BY DEF Handle
<1>2. QED
  BY <1>1, HandlerFrame

\* The calls that switch to another thread.
LEMMA InvEcallSwitch ==
    ASSUME TrapInv, EcallDispatch \/ EcallBlock \/ EcallExit
    PROVE  TrapInv'
<1>1. Handle(EcallCauses) /\ UNCHANGED <<pending, claimed, left>>
  BY DEF EcallDispatch, EcallBlock, EcallExit, HandleEcall, devices
<1>2. PICK g \in Frames : /\ StackAfterEcall = [stack EXCEPT ![running] = <<g>>]
                          /\ Resumes(running, g)
  BY <1>1, EcallFrame
<1>3. pc = "handle" /\ UNCHANGED <<priv, sstatus, sepc>>
  BY <1>1, EcallFrame
<1>4. pending' \subseteq Interrupts /\ claimed' \in BOOLEAN
  BY <1>1 DEF TrapInv, TrapsTypeOK
<1>5. PICK ts, queue :
          /\ live' = ts /\ ts \subseteq live
          /\ queue \in Seq(ts) /\ queue # <<>> /\ IsInjective(queue) /\ Main \in ToSet(queue)
          /\ SwitchContext(StackAfterEcall, queue)
  <2>1. CASE EcallDispatch
    <3>1. ready \in Seq(live \ {running}) /\ IsInjective(ready)
      BY DEF TrapInv, TrapsTypeOK
    <3>2. /\ Append(ready, running) \in Seq(live) /\ Append(ready, running) # <<>>
          /\ IsInjective(Append(ready, running)) /\ Main \in ToSet(Append(ready, running))
      BY <3>1, QueueWithRunning
    <3>3. SwitchContext(StackAfterEcall, Append(ready, running)) /\ live' = live
      BY <2>1 DEF EcallDispatch
    <3>4. QED
      BY <3>2, <3>3
  <2>2. CASE EcallBlock \/ EcallExit
    <3>1. regs.a0 \notin MainCalls
      BY <2>2 DEF EcallBlock, EcallExit, HandleEcall, MainCalls
    <3>2. running # Main
      BY <1>3, <3>1 DEF TrapInv, RunningInv, InHandler
    <3>3. /\ ready \in Seq(live) /\ ready \in Seq(live \ {running})
          /\ ready # <<>> /\ IsInjective(ready) /\ Main \in ToSet(ready)
      BY <3>2, QueueWithoutRunning
    <3>4. SwitchContext(StackAfterEcall, ready)
      BY <2>2 DEF EcallBlock, EcallExit
    <3>5. live' = live \/ live' = live \ {running}
      BY <2>2 DEF EcallBlock, EcallExit
    <3>6. QED
      BY <3>3, <3>4, <3>5
  <2>3. QED
    BY <2>1, <2>2
<1>6. QED
  BY <1>2, <1>3, <1>1, <1>4, <1>5, InvSwitchContext

\* The calls that return to their caller.
LEMMA InvEcallReturn ==
    ASSUME TrapInv, EcallWake \/ EcallOther
    PROVE  TrapInv'
<1>1. Handle(EcallCauses) /\ UNCHANGED <<pending, claimed, live, left>>
      /\ ReturnFrom(StackAfterEcall)
  BY DEF EcallWake, EcallOther, HandleEcall, devices
<1>2. PICK g \in Frames : /\ StackAfterEcall = [stack EXCEPT ![running] = <<g>>]
                          /\ Resumes(running, g)
  BY <1>1, EcallFrame
<1>3. pc = "handle" /\ UNCHANGED <<priv, sstatus, sepc>>
  BY <1>1, EcallFrame
<1>4. /\ pending' \subseteq Interrupts /\ claimed' \in BOOLEAN
      /\ ready \in Seq(live \ {running}) /\ IsInjective(ready)
  BY <1>1 DEF TrapInv, TrapsTypeOK
<1>5. /\ ready' \in Seq(live \ {running}) /\ IsInjective(ready')
      /\ ToSet(ready) \subseteq ToSet(ready')
  BY <1>4, ReadyGrows DEF EcallWake, EcallOther
<1>6. QED
  BY <1>1, <1>2, <1>3, <1>4, <1>5, InvReturnFrom

\* thread_create: the new thread starts in threadWrapper, on an empty stack.
LEMMA InvEcallCreate ==
    ASSUME TrapInv, EcallCreate
    PROVE  TrapInv'
<1>1. Handle(EcallCauses) /\ UNCHANGED <<pending, claimed>>
  BY DEF EcallCreate, HandleEcall, devices
<1>2. PICK g \in Frames : /\ StackAfterEcall = [stack EXCEPT ![running] = <<g>>]
                          /\ Resumes(running, g)
  BY <1>1, EcallFrame
<1>3. pc = "handle" /\ UNCHANGED <<priv, sstatus, sepc>>
  BY <1>1, EcallFrame
<1>4. PICK t \in Users \ live, u \in live :
          /\ u = running
          /\ live' = live \cup {t}
          /\ ready' = Append(ready, t)
          /\ context' = [context EXCEPT ![t] = FreshContext(t)]
          /\ stack' = [[stack EXCEPT ![u] = <<g>>] EXCEPT ![t] = <<>>]
          /\ left' = [left EXCEPT ![t] = FreshSnapshot]
          /\ pc' = "return"
          /\ UNCHANGED <<regs, running>>
  BY <1>2 DEF EcallCreate, TrapInv, TrapsTypeOK
<1>5. /\ live \subseteq Threads /\ ready \in Seq(live \ {u}) /\ IsInjective(ready)
      /\ stack \in [Threads -> Seq(Frames)] /\ left \in [Threads -> Snapshots]
      /\ context \in [Threads -> [ra : {"return", "threadWrapper"}, sp : Threads]]
      /\ regs.fp = u
  BY <1>3, <1>4 DEF TrapInv, TrapsTypeOK, RunningInv, InHandler
<1>6. t \in Threads /\ t # Main /\ t # u /\ u \in Threads
  BY <1>4, <1>5, TrapsAssumption DEF Threads
<1>7. /\ stack'[u] = <<g>> /\ stack'[t] = <<>> /\ left'[t] = FreshSnapshot
      /\ context'[t] = FreshContext(t)
      /\ \A v \in Threads : v # t => context'[v] = context[v] /\ left'[v] = left[v]
      /\ \A v \in Threads : v # t /\ v # u => stack'[v] = stack[v]
  BY <1>4, <1>5, <1>6
<1>8. /\ ready' \in Seq(live' \ {u}) /\ IsInjective(ready')
      /\ ToSet(ready) \subseteq ToSet(ready')
  <2>1. t \notin ToSet(ready) /\ ToSet(ready) \subseteq live' \ {u} /\ t \in live' \ {u}
    BY <1>4, <1>5, <1>6, InList
  <2>2. ready \in Seq(live' \ {u})
    BY <1>5, <2>1, ListOf
  <2>3. QED
    BY <1>4, <1>5, <2>1, <2>2, AppendList
<1>9. TrapsTypeOK'
  <2>1. FreshContext(t) \in [ra : {"return", "threadWrapper"}, sp : Threads]
    BY <1>6 DEF FreshContext
  <2>2. FreshSnapshot \in Snapshots
    BY DEF FreshSnapshot, Snapshots, Points, Values
  <2>3. /\ context' \in [Threads -> [ra : {"return", "threadWrapper"}, sp : Threads]]
        /\ stack' \in [Threads -> Seq(Frames)] /\ left' \in [Threads -> Snapshots]
    <3>1. <<g>> \in Seq(Frames) /\ <<>> \in Seq(Frames)
      BY <1>2
    <3>2. stack' \in [Threads -> Seq(Frames)]
      BY <1>4, <1>5, <3>1
    <3>3. QED
      BY <1>4, <1>5, <2>1, <2>2, <3>2
  <2>4. QED
    BY <1>1, <1>3, <1>4, <1>6, <1>8, <2>3 DEF TrapInv, TrapsTypeOK, KernelParts
<1>10. PrivilegeIsKept'
  BY <1>3, <1>4 DEF TrapInv, PrivilegeIsKept, Points
<1>11. Resumes(u, g)'
  BY <1>2, <1>4, <1>6, <1>7 DEF Resumes
<1>12. RunningInv'
  <2>1. g \in ToSet(stack'[u])
    BY <1>7, OneFrame
  <2>2. QED
    BY <1>4, <1>5, <1>7, <1>11, <2>1 DEF RunningInv, InReturn, Points
<1>13. ASSUME NEW v \in live', v # u PROVE IsAway(v)'
  <2>1. CASE v = t
    BY <1>6, <1>7, <2>1 DEF IsAway, FreshContext
  <2>2. CASE v # t
    <3>1. IsAway(v) /\ v \in Threads
      BY <1>4, <1>5, <1>13, <2>2 DEF TrapInv
    <3>2. QED
      BY <1>7, <1>13, <2>2, <3>1, StaysAway
  <2>3. QED
    BY <2>1, <2>2
<1>14. QED
  BY <1>4, <1>8, <1>9, <1>10, <1>12, <1>13 DEF TrapInv

-----------------------------------------------------------------------------
\* The end of handleSupervisorTrap: the answer of a call goes to the frame.
LEMMA InvReturn ==
    ASSUME TrapInv, Return
    PROVE  TrapInv'
<1>1. PICK u \in Threads, f \in ToSet(stack[running]) :
          /\ u = running /\ stack[u] = <<f>> /\ Resumes(u, f)
          /\ regs.fp = u /\ regs.sp = u
  BY DEF Return, TrapInv, TrapsTypeOK, RunningInv, InReturn
<1>2. stack \in [Threads -> Seq(Frames)] /\ f \in Frames
  BY <1>1, InList DEF TrapInv, TrapsTypeOK
<1>3. Top(stack, u) = f
  BY <1>1, <1>2, OneFrame DEF Top
<1>4. PICK g : g = IF f.scause \in EcallCauses THEN [f EXCEPT !.a0 = u] ELSE f
  OBVIOUS
<1>5. g \in Frames /\ g.a0 = left[u].a0 /\ g.x = left[u].x
  BY <1>1, <1>2, <1>4 DEF Frames, Values, Resumes
<1>6. stack' = [stack EXCEPT ![u] = <<g>>]
  <2>1. stack = [stack EXCEPT ![u] = <<f>>]
    BY <1>1, <1>2
  <2>2. WithTop(stack, u, [f EXCEPT !.a0 = u]) = [stack EXCEPT ![u] = <<[f EXCEPT !.a0 = u]>>]
    BY <1>1, <1>2, OneFrame DEF WithTop
  <2>3. QED
    BY <1>1, <1>3, <1>4, <2>1, <2>2 DEF Return
<1>7. /\ pc' = "popFrame" /\ sstatus' = f.sstatus /\ sepc' = f.sepc
      /\ UNCHANGED <<priv, regs, pending, claimed, running, live, ready, context, left>>
  BY <1>1, <1>3 DEF Return, devices
<1>8. /\ f.sepc = left[u].pc /\ f.sstatus.spp = left[u].priv /\ ~f.sstatus.sie
      /\ left[u].priv = "S" => ~f.sstatus.spie
      /\ left[u].priv = "S" <=> u = Main
      /\ u = Main => left[u].pc = "result"
  BY <1>1 DEF Resumes
<1>9. TrapsTypeOK'
  <2>1. stack' \in [Threads -> Seq(Frames)]
    BY <1>2, <1>5, <1>6
  <2>2. sstatus' \in Statuses /\ sepc' \in Points
    BY <1>2, <1>7 DEF Frames
  <2>3. QED
    BY <1>7, <2>1, <2>2 DEF TrapInv, TrapsTypeOK, KernelParts
<1>10. PrivilegeIsKept'
  BY <1>7, <1>8 DEF TrapInv, PrivilegeIsKept, Return, Points
<1>11. RunningInv'
  <2>1. stack'[u] = <<g>> /\ g \in ToSet(stack'[u])
    BY <1>2, <1>6, OneFrame
  <2>2. QED
    BY <1>1, <1>5, <1>7, <1>8, <2>1 DEF RunningInv, InPopFrame, Points
<1>12. \A t \in live' \ {running'} : IsAway(t)'
  <2>1. \A t \in Threads : t # u => stack'[t] = stack[t]
    BY <1>2, <1>6
  <2>2. QED
    BY <1>1, <1>7, <2>1, StaysAway DEF TrapInv, TrapsTypeOK
<1>13. QED
  BY <1>7, <1>9, <1>10, <1>11, <1>12 DEF TrapInv

\* What the thread finds when supervisorTrap.S returns.
LEMMA PopFrameRestores ==
    ASSUME TrapInv, PopFrame
    PROVE  /\ pc' = left[running].pc /\ priv' = left[running].priv
           /\ regs' \in [a0 : Values, x : Values, sp : Threads, fp : Values]
           /\ regs'.a0 = left[running].a0 /\ regs'.x = left[running].x
           /\ regs'.sp = running
           /\ stack' = [stack EXCEPT ![running] = <<>>]
<1>1. PICK f \in ToSet(stack[running]) :
          /\ stack[running] = <<f>>
          /\ f.a0 = left[running].a0 /\ f.x = left[running].x
  BY DEF PopFrame, TrapInv, RunningInv, InPopFrame
<1>2. /\ regs.sp = running /\ running \in Threads /\ stack \in [Threads -> Seq(Frames)]
      /\ f \in Frames
      /\ sepc = left[running].pc /\ sstatus.spp = left[running].priv
  BY <1>1, InList DEF PopFrame, TrapInv, TrapsTypeOK, RunningInv, InPopFrame
<1>3. Top(stack, regs.sp) = f /\ Front(stack[regs.sp]) = <<>>
  BY <1>1, <1>2, OneFrame DEF Top
<1>4. /\ regs' = [a0 |-> f.a0, x |-> f.x, sp |-> running, fp |-> f.fp]
      /\ stack' = [stack EXCEPT ![running] = <<>>]
      /\ pc' = sepc /\ priv' = sstatus.spp
  BY <1>2, <1>3 DEF PopFrame, SretTo
<1>5. QED
  BY <1>1, <1>2, <1>4 DEF Frames

LEMMA InvPopFrame ==
    ASSUME TrapInv, PopFrame
    PROVE  TrapInv'
<1>1. PICK u \in Threads : u = running
  BY DEF TrapInv, TrapsTypeOK
<1>2. /\ pc' = left[u].pc /\ priv' = left[u].priv
      /\ regs' \in [a0 : Values, x : Values, sp : Threads, fp : Values]
      /\ regs'.sp = u
      /\ stack' = [stack EXCEPT ![u] = <<>>]
  BY <1>1, PopFrameRestores
<1>3. /\ sstatus' = [sie |-> sstatus.spie, spie |-> TRUE, spp |-> "U"]
      /\ left' = [left EXCEPT ![u] = FreshSnapshot]
      /\ UNCHANGED <<sepc, pending, claimed, running, live, ready, context>>
  BY <1>1 DEF PopFrame, SretTo, devices
<1>4. /\ stack \in [Threads -> Seq(Frames)] /\ left \in [Threads -> Snapshots]
      /\ sstatus \in Statuses
      /\ left[u].priv = "S" => ~sstatus.spie
      /\ left[u].priv = "S" <=> u = Main
      /\ u = Main => left[u].pc = "result"
  BY <1>1 DEF PopFrame, TrapInv, TrapsTypeOK, RunningInv, InPopFrame
<1>5. left[u].pc \in Points /\ left[u].priv \in {"U", "S"}
  BY <1>4 DEF Snapshots
<1>6. TrapsTypeOK'
  <2>1. sstatus' \in Statuses
    BY <1>3, <1>4 DEF Statuses
  <2>2. FreshSnapshot \in Snapshots
    BY DEF FreshSnapshot, Snapshots, Points, Values
  <2>3. left' \in [Threads -> Snapshots] /\ stack' \in [Threads -> Seq(Frames)]
    BY <1>2, <1>3, <1>4, <2>2
  <2>4. QED
    BY <1>2, <1>3, <1>5, <2>1, <2>3 DEF TrapInv, TrapsTypeOK
<1>7. PrivilegeIsKept'
  BY <1>1, <1>2, <1>3, <1>4, <1>5 DEF PrivilegeIsKept
<1>8. RunningInv'
  <2>1. stack'[u] = <<>>
    BY <1>2, <1>4
  <2>2. InUserCode'
    BY <1>1, <1>2, <1>3, <1>4, <2>1 DEF InUserCode
  <2>3. QED
    BY <1>2, <1>5, <2>2 DEF RunningInv, Points
<1>9. \A t \in live' \ {running'} : IsAway(t)'
  <2>1. \A t \in Threads : t # u => stack'[t] = stack[t] /\ left'[t] = left[t]
    BY <1>2, <1>3, <1>4
  <2>2. QED
    BY <1>1, <1>3, <2>1, StaysAway DEF TrapInv, TrapsTypeOK
<1>10. QED
  BY <1>1, <1>2, <1>3, <1>6, <1>7, <1>8, <1>9 DEF TrapInv

\* A thread's first step outside the kernel.
LEMMA InvPopSppSpie ==
    ASSUME TrapInv, PopSppSpieChangeMod
    PROVE  TrapInv'
<1>1. /\ pc = "threadWrapper" /\ pc' = "body" /\ sepc' = "body" /\ priv' = "U"
      /\ sstatus' = [sie |-> sstatus.spie, spie |-> TRUE, spp |-> "U"]
      /\ UNCHANGED <<regs, pending, claimed, running, live, ready, context, stack, left>>
  BY DEF PopSppSpieChangeMod, SretTo, devices, kernel, TrapInv, TrapsTypeOK, Statuses
<1>2. stack[running] = <<>> /\ running # Main
  BY <1>1 DEF TrapInv, RunningInv, InThreadWrapper
<1>3. TrapsTypeOK'
  BY <1>1 DEF TrapInv, TrapsTypeOK, Statuses, Points
<1>4. PrivilegeIsKept'
  BY <1>1, <1>2 DEF PrivilegeIsKept, Points
<1>5. RunningInv'
  BY <1>1, <1>2 DEF RunningInv, InUserCode, Points
<1>6. \A t \in live' \ {running'} : IsAway(t)'
  BY <1>1, StaysAway DEF TrapInv
<1>7. QED
  BY <1>1, <1>3, <1>4, <1>5, <1>6 DEF TrapInv

-----------------------------------------------------------------------------
\* Main alone, with interrupts masked, has entered no handler yet.
THEOREM TrapInvInit == Init => TrapInv
<1> SUFFICES ASSUME Init PROVE TrapInv
  OBVIOUS
<1>1. Main \in Threads /\ Main \in Values /\ "junk" \in Values
  BY DEF Threads, Values
<1>2. FreshSnapshot \in Snapshots
  BY DEF FreshSnapshot, Snapshots, Points, Values
<1>3. \A t \in Threads : FreshContext(t) \in [ra : {"return", "threadWrapper"}, sp : Threads]
  BY DEF FreshContext
<1>4. TrapsTypeOK
  <2>1. /\ running \in live /\ live \subseteq Threads /\ ready \in Seq(live \ {running})
        /\ pc \in Points /\ priv \in {"U", "S"} /\ sepc \in Points
        /\ pending \subseteq Interrupts /\ claimed \in BOOLEAN
    <3>1. running \in live /\ live \subseteq Threads
      BY <1>1 DEF Init
    <3>2. ready \in Seq(live \ {running})
      BY DEF Init
    <3>3. QED
      BY <3>1, <3>2 DEF Init, Points
  <2>2. sstatus \in Statuses /\ regs \in [a0 : Values, x : Values, sp : Threads, fp : Values]
    BY <1>1 DEF Init, Statuses
  <2>3. /\ context \in [Threads -> [ra : {"return", "threadWrapper"}, sp : Threads]]
        /\ stack \in [Threads -> Seq(Frames)] /\ left \in [Threads -> Snapshots]
    BY <1>2, <1>3 DEF Init
  <2>4. QED
    BY <2>1, <2>2, <2>3 DEF TrapsTypeOK
<1>5. PrivilegeIsKept
  BY DEF Init, PrivilegeIsKept
<1>6. RunningInv
  BY <1>1 DEF Init, RunningInv, InUserCode, Points
<1>7. IsInjective(ready) /\ Main \in {running} /\ regs.sp = running /\ live \ {running} = {}
  BY DEF Init, IsInjective
<1>8. QED
  BY <1>4, <1>5, <1>6, <1>7 DEF TrapInv

\* TrapInv is inductive.
THEOREM TrapInvStep == TrapInv /\ [Next]_vars => TrapInv'
<1> SUFFICES ASSUME TrapInv, [Next]_vars PROVE TrapInv'
  OBVIOUS
<1>1. CASE UserCode
  BY <1>1, InvUserCode, InvTraps DEF UserCode
<1>2. CASE Interrupt
  BY <1>2, InvTraps
<1>3. CASE Handler
  BY <1>3, InvInterrupts, InvEcallSwitch, InvEcallReturn, InvEcallCreate DEF Handler
<1>4. CASE Return
  BY <1>4, InvReturn
<1>5. CASE PopFrame
  BY <1>5, InvPopFrame
<1>6. CASE PopSppSpieChangeMod
  BY <1>6, InvPopSppSpie
<1>7. CASE \E i \in Interrupts : Raise(i)
  BY <1>7, InvRaise
<1>8. CASE UNCHANGED vars
  <2>1. UNCHANGED <<pc, priv, sstatus, sepc, regs, pending, claimed, running, live, ready,
                    context, stack, left>>
    BY <1>8 DEF vars, machine, devices, kernel
  <2>2. TrapsTypeOK' /\ PrivilegeIsKept'
    BY <2>1 DEF TrapInv, TrapsTypeOK, PrivilegeIsKept
  <2>3. RunningInv'
    BY <2>1 DEF TrapInv, RunningInv, InUserCode, InHandler, InReturn, InPopFrame,
       InThreadWrapper, Resumes
  <2>4. \A t \in live' \ {running'} : IsAway(t)'
    BY <2>1, StaysAway DEF TrapInv
  <2>5. QED
    BY <2>1, <2>2, <2>3, <2>4 DEF TrapInv
<1>9. QED
  BY <1>1, <1>2, <1>3, <1>4, <1>5, <1>6, <1>7, <1>8 DEF Next, Processor

THEOREM TrapInvHolds == Spec => []TrapInv
  BY TrapInvInit, TrapInvStep, PTL DEF Spec

\* The variables keep their types: no thread is run that is not alive, and
\* none is both running and ready.
THEOREM TrapsTypeCorrect == Spec => []TrapsTypeOK
<1>1. TrapInv => TrapsTypeOK
  BY DEF TrapInv
<1>2. QED
  BY TrapInvHolds, <1>1, PTL

\* The kernel is never interrupted, and no thread but main ever runs with its
\* privilege.
THEOREM PrivilegeIsNeverGained == Spec => []PrivilegeIsKept
<1>1. TrapInv => PrivilegeIsKept
  BY DEF TrapInv
<1>2. QED
  BY TrapInvHolds, <1>1, PTL

\* Trap frames are neither lost nor left behind, however threads are switched.
THEOREM EveryThreadHasOneFrame == Spec => []OneFrameEach
<1>1. TrapInv => OneFrameEach
  <2> SUFFICES ASSUME TrapInv PROVE OneFrameEach
    OBVIOUS
  <2>1. regs.sp = running /\ (pc \in Points => stack[running] = <<>>)
    BY DEF TrapInv, RunningInv, InUserCode
  <2>2. ASSUME NEW t \in ToSet(ready) \cup Blocked
        PROVE  /\ context[t].sp = t
               /\ Len(stack[t]) = (IF context[t].ra = "return" THEN 1 ELSE 0)
    <3>1. t \in live \ {running} /\ t \in Threads
      BY InList DEF Blocked, TrapInv, TrapsTypeOK
    <3>2. IsAway(t) /\ context[t].ra \in {"return", "threadWrapper"}
      BY <3>1 DEF TrapInv, TrapsTypeOK
    <3>3. QED
      BY <3>2, OneFrame DEF IsAway
  <2>3. QED
    BY <2>1, <2>2 DEF OneFrameEach
<1>2. QED
  BY TrapInvHolds, <1>1, PTL

\* A thread that gets the processor in contextSwitch is still in the kernel.
LEMMA SwitchedInKernel ==
    ASSUME TrapInv', NEW stacks, NEW queue, SwitchContext(stacks, queue)
    PROVE  pc' \in {"return", "threadWrapper"}
<1>1. pc' = context'[running'].ra
  BY DEF SwitchContext
<1>2. context'[running'] \in [ra : {"return", "threadWrapper"}, sp : Threads]
  BY DEF TrapInv, TrapsTypeOK
<1>3. QED
  BY <1>1, <1>2

\* A thread finds its own registers, its mode and the place it left when it
\* leaves the kernel, whatever ran in between.
THEOREM ThreadsResumeAsLeft == Spec => ResumesAsLeft
<1> DEFINE Resumption ==
               pc \notin Points /\ pc' \in Points =>
                   IF pc = "threadWrapper"
                   THEN pc' = left[running].pc /\ priv' = left[running].priv
                   ELSE Snapshot(pc, regs.a0)' = left[running]
<1>1. TrapInv /\ [Next]_vars => [Resumption]_vars
  <2> SUFFICES ASSUME TrapInv, Next, pc \notin Points, pc' \in Points PROVE Resumption
    OBVIOUS
  <2>1. CASE PopFrame
    <3>1. /\ pc' = left[running].pc /\ priv' = left[running].priv
          /\ regs'.a0 = left[running].a0 /\ regs'.x = left[running].x
      BY <2>1, PopFrameRestores
    <3>2. left[running] \in Snapshots /\ UNCHANGED running
      BY <2>1 DEF PopFrame, TrapInv, TrapsTypeOK
    <3>3. Snapshot(pc, regs.a0)' = left[running]
      BY <3>1, <3>2 DEF Snapshot, Snapshots
    <3>4. QED
      BY <2>1, <3>3 DEF PopFrame
  <2>2. CASE PopSppSpieChangeMod
    BY <2>2 DEF PopSppSpieChangeMod, SretTo, TrapInv, TrapsTypeOK, Statuses,
       RunningInv, InThreadWrapper, FreshSnapshot
  <2>3. CASE UserCode \/ Interrupt
    BY <2>3 DEF UserCode, CallBody, LoadArguments, Ecall, UseResult, IllegalInstruction,
       UserStep, Interrupt, TakeTrap, Points
  <2>4. CASE Handler \/ Return
    <3>1. pc' \in {"return", "popFrame", "halted", "threadWrapper"}
      <4>1. CASE Return
        BY <4>1 DEF Return
      <4>2. CASE Handler
        <5>1. \A stacks, queue : SwitchContext(stacks, queue) => pc' \in {"return", "threadWrapper"}
          BY TrapInvStep, SwitchedInKernel
        <5>2. QED
          BY <4>2, <5>1 DEF Handler, HandleTimer, HandleConsole, HandleIllegal,
             EcallDispatch, EcallBlock, EcallExit, EcallWake, EcallOther, EcallCreate, ReturnFrom
      <4>3. QED
        BY <2>4, <4>1, <4>2
    <3>2. QED
      BY <3>1 DEF Points
  <2>5. CASE \E i \in Interrupts : Raise(i)
    BY <2>5 DEF Raise, machine
  <2>6. QED
    BY <2>1, <2>2, <2>3, <2>4, <2>5 DEF Next, Processor
<1>2. QED
  BY TrapInvHolds, <1>1, PTL DEF Spec, ResumesAsLeft
=============================================================================
