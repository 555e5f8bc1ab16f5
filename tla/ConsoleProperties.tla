------------------------- MODULE ConsoleProperties -------------------------
(***************************************************************************)
(* What the console promises.                                              *)
(***************************************************************************)
EXTENDS Console, FiniteSets

\* The characters in a ring buffer, from the oldest on.
Count(head, tail) == (head - tail) % NUM_OF_CHARS

Contents(buffer, head, tail) ==
    [i \in 1..Count(head, tail) |-> buffer[(tail + i - 1) % NUM_OF_CHARS]]

\* A local variable that holds a character which is nowhere else.
Held(x, where) == IF pc[x] \in where THEN <<holds[x]>> ELSE <<>>

Numbers(n) == [i \in 1..n |-> i]

\* The character in the hand of the putter when main() killed it.
Lost == IF Killed /\ pc[Putter] = "write" THEN {holds[Putter]} ELSE {}

Increasing(s) == \A i, j \in 1..Len(s) : i < j => s[i] < s[j]

\* Every character that putc accepted is printed, is being sent, is in the
\* putter's hand or in the buffer, once and in the order of the calls, wherever
\* the putter was preempted while putc filled the buffer.  Two are not: the
\* one that the putter had in its hand when main() killed it, and those that
\* the terminal was sending when the getter's echo replaced them.
OutputInOrder ==
    LET inHand == IF Killed THEN <<>> ELSE Held(Putter, {"advance", "write"})
        tail == IF pc[Putter] = "advance" /\ ~Killed
                THEN NextSlot(tailPrint) ELSE tailPrint
        output == (printed \o InRegister)
                      \o (inHand \o Contents(bufferPrint, headPrint, tail))
    IN  /\ Increasing(output)
        /\ ToSet(output) = (1..accepted) \ (Lost \cup replaced)

\* The putter and main() never replace a character that is being sent, however
\* they race with the getter: only the getter's echo does, which may come after
\* the putter has written one since the getter saw the terminal ready.
OnlyEchoReplaces ==
    [][replaced' # replaced => pc[Getter] = "echo" /\ pc'[Getter] = "store"]_vars

\* Every key pressed has been answered by getc, or is in the buffer, in the
\* getter's hand or in the device, in the order of the keys; and getc never
\* answers EOF.
InputInOrder ==
    received
        \o Contents(bufferGet, headGet, tailGet)
        \o Held(Getter, {"echoReady", "echo", "store", "advance"})
        \o (IF rxReady THEN <<rxData>> ELSE <<>>) = Numbers(typed)

\* There is a unit, a reader with a unit or a signal to come for each
\* character in the buffer: getc waits if and only if there is none for it.
UnitsCountCharacters ==
    charUnits
        + Cardinality({r \in Readers : reader[r] = "granted"})
        + (IF pc[Getter] = "signal" THEN 1 ELSE 0) = Count(headGet, tailGet)

\* A claimed interrupt is not forgotten, however the two services race for it:
\* the flag is up until one of them is about to complete it.  (That one will is
\* not said: while the terminal is ready to send, none does.)
ClaimIsNotForgotten ==
    claimed => consoleInterrupt \/ \E x \in Services : pc[x] = "complete"

-----------------------------------------------------------------------------
\* What putc accepted is printed: the putter writes it or, when it came after
\* main() killed the putter, main() itself.  The exceptions are those of
\* OutputInOrder, and the last character that main() writes, for it does not
\* wait until it is sent.  (The accepted characters are bounded, so this says
\* that each of them is printed.)
OutputIsPrinted ==
    LET cutOff == IF mainPc = "halted" THEN ToSet(InRegister) ELSE {}
    IN  []<>(1..accepted \subseteq ToSet(printed) \cup Lost \cup replaced \cup cutOff)

\* A reader that waits does not wait on when a key was pressed for it, unless
\* main() kills the services.
HasKey(r) ==
    \E i \in DOMAIN waiters :
        /\ waiters[i] = r
        /\ Unread >= i + Cardinality({q \in Readers : reader[q] = "granted"})

ReaderIsAnswered ==
    []<>(Killed \/ \A r \in Readers : ~HasKey(r))
=============================================================================
