------------------------------ MODULE Console ------------------------------
(***************************************************************************)
(* The console: h/ and src/ _console, and the getc and putc calls.         *)
(*                                                                         *)
(* The putter and the getter run in user mode and may be preempted between *)
(* any two accesses to memory that others use: their code takes one step   *)
(* for each, and pc[x] names the next one.  The calls and the console's    *)
(* interrupt run in handlers, in one step.  Which thread goes on is left   *)
(* to chance here; module Kernel shows what the scheduler does.  The       *)
(* semaphore of getc behaves as module AbstractSemaphores promises.        *)
(*                                                                         *)
(* A character is the number of its putc, or of the key press it is from.  *)
(***************************************************************************)
EXTENDS Integers, SequencesExt

CONSTANTS
    NUM_OF_CHARS,  \* the slots of each of the two buffers
    Readers,       \* the threads that call getc
    MaxPut,        \* bound of the model: the putc calls that are accepted
    MaxTyped,      \* bound of the model: the keys pressed
    MaxAhead,      \* keys are pressed while at most this many wait to be read
    Printable      \* the keys that are echoed

ASSUME ConsoleAssumption ==
    /\ NUM_OF_CHARS \in Nat /\ NUM_OF_CHARS > 1
    /\ MaxPut \in Nat /\ MaxTyped \in Nat /\ MaxAhead \in Nat
    /\ Printable \subseteq 1..MaxTyped

Putter == "putter"
Getter == "getter"
Services == {Putter, Getter}
Slots == 0..NUM_OF_CHARS - 1

VARIABLES
    pc,          \* of each service
    holds,       \* the local variable ch of each service
    headPrint,   \* the buffer that putc writes and the putter reads
    tailPrint,
    bufferPrint,
    headGet,     \* the buffer that the getter writes and getc reads
    tailGet,
    bufferGet,
    consoleInterrupt,
    charUnits,   \* units of characterReadyToGet
    waiters,     \* the threads in its queue
    reader,      \* where each reader is in getc
    txReady,     \* CONSOLE_STATUS_TRANSFER
    txData,      \* the character of a putc that is being sent, 0 for none
    rxReady,     \* CONSOLE_STATUS_RECEIVE
    rxData,      \* the character to be received
    claimed,     \* the interrupt is claimed at the PLIC and not completed
    mainPc,      \* main() is in its loop, or where in the shutdown
    accepted,    \* the number of the last putc that was accepted
    printed,     \* what the terminal has printed of the putc calls, in order
    replaced,    \* characters of putc calls that were replaced before they were sent
    typed,       \* the number of the last key
    received     \* the answers of getc, in order

bufferVars == <<headPrint, tailPrint, bufferPrint, headGet, tailGet, bufferGet>>
semVars == <<charUnits, waiters, reader>>
deviceVars == <<txReady, txData, rxReady, rxData, claimed>>
historyVars == <<accepted, printed, replaced, typed, received>>
vars == <<pc, holds, bufferVars, consoleInterrupt, semVars, deviceVars, mainPc,
          historyVars>>

Init ==
    /\ pc = [x \in Services |-> "start"]
    /\ holds = [x \in Services |-> 0]
    /\ headPrint = 0 /\ tailPrint = 0
    /\ headGet = 0 /\ tailGet = 0
    /\ bufferPrint = [i \in Slots |-> 0]
    /\ bufferGet = [i \in Slots |-> 0]
    /\ consoleInterrupt = FALSE
    /\ charUnits = 0
    /\ waiters = <<>>
    /\ reader = [r \in Readers |-> "idle"]
    /\ txReady = TRUE /\ txData = 0 /\ rxReady = FALSE /\ rxData = 0
    /\ claimed = FALSE
    /\ mainPc = "loop"
    /\ accepted = 0 /\ printed = <<>> /\ replaced = {}
    /\ typed = 0 /\ received = <<>>

\* main() has killed the putter and the getter.
Killed == mainPc # "loop"

\* Once main() is in killQEMU no other thread runs and nothing interrupts it.
OthersRun == mainPc \in {"loop", "killed"}

NextSlot(i) == (i + 1) % NUM_OF_CHARS

-----------------------------------------------------------------------------
\* x goes on with statement to, if cond, else with statement or.
Branch(x, from, cond, to, or) ==
    /\ pc[x] = from
    /\ ~Killed
    /\ pc' = [pc EXCEPT ![x] = IF cond THEN to ELSE or]

Goto(x, from, to) == Branch(x, from, TRUE, to, to)

Test(x, from, cond, to, or) ==
    /\ Branch(x, from, cond, to, or)
    /\ UNCHANGED <<holds, bufferVars, consoleInterrupt, semVars, deviceVars>>
    /\ UNCHANGED <<mainPc, historyVars>>

\* A character written while the last one is still being sent replaces it.
PutCharInTerminal(c) ==
    /\ txReady' = FALSE
    /\ txData' = c
    /\ replaced' = replaced \cup ({txData} \ {0})
    /\ UNCHANGED <<rxReady, rxData, claimed, accepted, printed, typed, received>>

\* What both services do when they have no character to handle: complete the
\* interrupt if there was one and the device has nothing more, and dispatch.
CheckReceive(x) == Test(x, "checkReceive", ~rxReady, "checkTransfer", "start")
CheckTransfer(x) == Test(x, "checkTransfer", ~txReady, "checkInterrupt", "start")
CheckInterrupt(x) == Test(x, "checkInterrupt", consoleInterrupt, "reset", "start")

ResetInterrupt_Only(x) ==
    /\ Goto(x, "reset", "start")  \* mutant
    /\ consoleInterrupt' = FALSE
    /\ UNCHANGED <<holds, bufferVars, semVars, deviceVars, mainPc, historyVars>>

ResetInterrupt(x) ==
    /\ Goto(x, "reset", "complete")
    /\ consoleInterrupt' = FALSE
    /\ UNCHANGED <<holds, bufferVars, semVars, deviceVars, mainPc, historyVars>>

PlicComplete(x) ==
    /\ Goto(x, "complete", "start")
    /\ claimed' = FALSE
    /\ UNCHANGED <<holds, bufferVars, consoleInterrupt, semVars, mainPc>>
    /\ UNCHANGED <<txReady, txData, rxReady, rxData, historyVars>>

Finish(x) ==
    \/ CheckReceive(x) \/ CheckTransfer(x) \/ CheckInterrupt(x)
    \/ ResetInterrupt(x) \/ PlicComplete(x)

-----------------------------------------------------------------------------
\* character_putter_thread
PutterReady_Blind == Test(Putter, "start", TRUE, "notEmpty", "checkReceive")  \* mutant

PutterReady == Test(Putter, "start", txReady, "notEmpty", "checkReceive")

PutterNotEmpty ==
    Test(Putter, "notEmpty", headPrint # tailPrint, "load", "checkReceive")

PutterLoad ==
    /\ Goto(Putter, "load", "advance")
    /\ holds' = [holds EXCEPT ![Putter] = bufferPrint[tailPrint]]
    /\ UNCHANGED <<bufferVars, consoleInterrupt, semVars, deviceVars>>
    /\ UNCHANGED <<mainPc, historyVars>>

PutterAdvance ==
    /\ Goto(Putter, "advance", "write")
    /\ tailPrint' = NextSlot(tailPrint)
    /\ UNCHANGED <<holds, headPrint, bufferPrint, headGet, tailGet, bufferGet>>
    /\ UNCHANGED <<consoleInterrupt, semVars, deviceVars, mainPc, historyVars>>

PutterWrite ==
    /\ Goto(Putter, "write", "start")
    /\ PutCharInTerminal(holds[Putter])
    /\ UNCHANGED <<holds, bufferVars, consoleInterrupt, semVars, mainPc>>

PutterStep ==
    \/ PutterReady \/ PutterNotEmpty \/ PutterLoad \/ PutterAdvance
    \/ PutterWrite \/ Finish(Putter)

-----------------------------------------------------------------------------
\* character_getter_thread, with getCharFromTerminal and its echo.
GetterReady_Blind == Test(Getter, "start", TRUE, "flagged", "checkReceive")  \* mutant

GetterReady == Test(Getter, "start", rxReady, "flagged", "checkReceive")
GetterFlagged == Test(Getter, "flagged", consoleInterrupt, "room", "checkReceive")

\* The sum is not taken modulo NUM_OF_CHARS here.
GetterRoom_Empty ==
    Test(Getter, "room", headGet # tailGet, "receive", "checkReceive")  \* mutant

GetterRoom == Test(Getter, "room", headGet + 1 # tailGet, "receive", "checkReceive")

GetterReceive ==
    /\ Branch(Getter, "receive", rxData \in Printable, "echoReady", "store")
    /\ holds' = [holds EXCEPT ![Getter] = rxData]
    /\ rxReady' = FALSE
    /\ UNCHANGED <<bufferVars, consoleInterrupt, semVars, mainPc, historyVars>>
    /\ UNCHANGED <<txReady, txData, rxData, claimed>>

\* The putter may run between this test and the echo.
GetterEchoReady == Test(Getter, "echoReady", txReady, "echo", "echoReady")

GetterEcho ==
    /\ Goto(Getter, "echo", "store")
    /\ PutCharInTerminal(0)
    /\ UNCHANGED <<holds, bufferVars, consoleInterrupt, semVars, mainPc>>

GetterStore ==
    /\ Goto(Getter, "store", "advance")
    /\ bufferGet' = [bufferGet EXCEPT ![headGet] = holds[Getter]]
    /\ UNCHANGED <<holds, headPrint, tailPrint, bufferPrint, headGet, tailGet>>
    /\ UNCHANGED <<consoleInterrupt, semVars, deviceVars, mainPc, historyVars>>

GetterAdvance ==
    /\ Goto(Getter, "advance", "signal")
    /\ headGet' = NextSlot(headGet)
    /\ UNCHANGED <<holds, headPrint, tailPrint, bufferPrint, tailGet, bufferGet>>
    /\ UNCHANGED <<consoleInterrupt, semVars, deviceVars, mainPc, historyVars>>

\* sem_signal: the unit goes to the reader that waits longest, if one does.
GetterSignal ==
    /\ Goto(Getter, "signal", "start")
    /\ IF waiters = <<>>
       THEN /\ charUnits' = charUnits + 1
            /\ UNCHANGED <<waiters, reader>>
       ELSE /\ waiters' = Tail(waiters)
            /\ reader' = [reader EXCEPT ![Head(waiters)] = "granted"]
            /\ UNCHANGED charUnits
    /\ UNCHANGED <<holds, bufferVars, consoleInterrupt, deviceVars, mainPc>>
    /\ UNCHANGED historyVars

GetterStep ==
    \/ GetterReady \/ GetterFlagged \/ GetterRoom \/ GetterReceive
    \/ GetterEchoReady \/ GetterEcho \/ GetterStore \/ GetterAdvance
    \/ GetterSignal \/ Finish(Getter)

-----------------------------------------------------------------------------
\* putc: a character for a full buffer is dropped and putc does not tell.
BufferFull_NoWrap == headPrint + 1 = tailPrint  \* mutant

BufferFull == NextSlot(headPrint) = tailPrint

Putc ==
    /\ OthersRun
    /\ accepted < MaxPut
    /\ ~BufferFull
    /\ accepted' = accepted + 1
    /\ bufferPrint' = [bufferPrint EXCEPT ![headPrint] = accepted + 1]
    /\ headPrint' = NextSlot(headPrint)
    /\ UNCHANGED <<pc, holds, tailPrint, headGet, tailGet, bufferGet>>
    /\ UNCHANGED <<consoleInterrupt, semVars, deviceVars, mainPc>>
    /\ UNCHANGED <<printed, replaced, typed, received>>

\* getc after its wait(): -1 when the buffer is empty.
EOF == -1

TakeChar ==
    IF headGet = tailGet
    THEN /\ received' = Append(received, EOF)
         /\ UNCHANGED tailGet
    ELSE /\ received' = Append(received, bufferGet[tailGet])
         /\ tailGet' = NextSlot(tailGet)

UnchangedByGetc ==
    /\ UNCHANGED <<pc, holds, headPrint, tailPrint, bufferPrint, headGet, bufferGet>>
    /\ UNCHANGED <<consoleInterrupt, deviceVars, mainPc>>
    /\ UNCHANGED <<accepted, printed, replaced, typed>>

Getc_NoWait(r) ==
    /\ reader[r] = "idle"  \* mutant
    /\ headGet # tailGet
    /\ TakeChar
    /\ UNCHANGED semVars
    /\ UnchangedByGetc

\* There is a unit, and the handler goes on without waiting.
Getc(r) ==
    /\ reader[r] = "idle"
    /\ charUnits > 0
    /\ charUnits' = charUnits - 1
    /\ TakeChar
    /\ UNCHANGED <<waiters, reader>>
    /\ UnchangedByGetc

GetcWaits(r) ==
    /\ reader[r] = "idle"
    /\ charUnits = 0
    /\ waiters' = Append(waiters, r)
    /\ reader' = [reader EXCEPT ![r] = "waiting"]
    /\ UNCHANGED <<charUnits, tailGet, received>>
    /\ UnchangedByGetc

\* A reader that was given a unit is switched to, and takes a character.
GetcGoesOn(r) ==
    /\ reader[r] = "granted"
    /\ reader' = [reader EXCEPT ![r] = "idle"]
    /\ TakeChar
    /\ UNCHANGED <<charUnits, waiters>>
    /\ UnchangedByGetc

ReaderStep(r) == OthersRun /\ (Getc(r) \/ GetcWaits(r) \/ GetcGoesOn(r))

-----------------------------------------------------------------------------
\* main() kills the services when it sees the print buffer empty and dispatches
\* once more: the other threads may still call the kernel until it is its turn.
KillServices ==
    /\ mainPc = "loop"
    /\ headPrint = tailPrint
    /\ mainPc' = "killed"
    /\ UNCHANGED <<pc, holds, bufferVars, consoleInterrupt, semVars, deviceVars>>
    /\ UNCHANGED historyVars

KillQEMU ==
    /\ mainPc = "killed"
    /\ mainPc' = "printing"
    /\ UNCHANGED <<pc, holds, bufferVars, consoleInterrupt, semVars, deviceVars>>
    /\ UNCHANGED historyVars

\* empty_console_print_all: it does not wait until its last character is sent.
PrintRest ==
    /\ mainPc = "printing"
    /\ headPrint # tailPrint
    /\ txReady
    /\ PutCharInTerminal(bufferPrint[tailPrint])
    /\ tailPrint' = NextSlot(tailPrint)
    /\ UNCHANGED <<pc, holds, headPrint, bufferPrint, headGet, tailGet, bufferGet>>
    /\ UNCHANGED <<consoleInterrupt, semVars, mainPc>>

HaltsWhen_Always == TRUE  \* mutant

HaltsWhen == headPrint = tailPrint

Halt ==
    /\ mainPc = "printing"
    /\ HaltsWhen
    /\ mainPc' = "halted"
    /\ claimed' = FALSE
    /\ UNCHANGED <<pc, holds, bufferVars, consoleInterrupt, semVars, historyVars>>
    /\ UNCHANGED <<txReady, txData, rxReady, rxData>>

MainStep == KillServices \/ KillQEMU \/ PrintRest \/ Halt

\* console_interrupt_handler: the PLIC gives the interrupt of the console to
\* the one who claims it, and raises it again only after it is completed.
ConsoleInterrupt ==
    /\ OthersRun
    /\ ~claimed
    /\ rxReady \/ txReady
    /\ claimed' = TRUE
    /\ consoleInterrupt' = TRUE
    /\ UNCHANGED <<pc, holds, bufferVars, semVars, mainPc, historyVars>>
    /\ UNCHANGED <<txReady, txData, rxReady, rxData>>

\* The terminal: a character has been sent.
InRegister == IF txData # 0 THEN <<txData>> ELSE <<>>

Sent ==
    /\ mainPc # "halted"
    /\ ~txReady
    /\ txReady' = TRUE
    /\ txData' = 0
    /\ printed' = printed \o InRegister
    /\ UNCHANGED <<pc, holds, bufferVars, consoleInterrupt, semVars>>
    /\ UNCHANGED <<rxReady, rxData, claimed, mainPc>>
    /\ UNCHANGED <<accepted, replaced, typed, received>>

\* The keyboard: a character arrives when the last one was received.
Unread == typed - Len(received)

Press ==
    /\ mainPc # "halted"
    /\ ~rxReady
    /\ typed < MaxTyped
    /\ Unread < MaxAhead
    /\ typed' = typed + 1
    /\ rxData' = typed + 1
    /\ rxReady' = TRUE
    /\ UNCHANGED <<pc, holds, bufferVars, consoleInterrupt, semVars>>
    /\ UNCHANGED <<txReady, txData, claimed, mainPc>>
    /\ UNCHANGED <<accepted, printed, replaced, received>>

Next ==
    \/ PutterStep \/ GetterStep \/ Putc
    \/ \E r \in Readers : ReaderStep(r)
    \/ MainStep \/ ConsoleInterrupt \/ Sent \/ Press

Spec == Init /\ [][Next]_vars

\* Ready threads get the processor again and again (ReadyRuns of module
\* KernelProperties), and the devices go on.
FairSpec ==
    /\ Spec
    /\ WF_vars(PutterStep)
    /\ WF_vars(GetterStep)
    /\ \A r \in Readers : WF_vars(OthersRun /\ GetcGoesOn(r))
    /\ WF_vars(KillQEMU \/ PrintRest \/ Halt)
    /\ WF_vars(ConsoleInterrupt)
    /\ WF_vars(Sent)
=============================================================================
