---------------------------- MODULE ConsoleProofs ----------------------------
(***************************************************************************)
(* Proof that the console keeps the order of the characters in both        *)
(* directions and loses none but those that the properties name, that its  *)
(* semaphore counts the characters, and that no claim of an interrupt is   *)
(* forgotten, for buffers of any size, any number of readers and any       *)
(* number of characters.                                                   *)
(***************************************************************************)
EXTENDS ConsoleProperties, ListTheorems, FiniteSetTheorems

-----------------------------------------------------------------------------
\* The slot of the i-th character of a ring buffer.
Place(t, i) == (t + i - 1) % NUM_OF_CHARS

LEMMA SlotType ==
    ASSUME NEW h \in Slots
    PROVE  /\ NUM_OF_CHARS \in Nat /\ NUM_OF_CHARS > 1
           /\ h \in Nat /\ h < NUM_OF_CHARS
  BY ConsoleAssumption DEF Slots

\* The slot behind a slot.
LEMMA NextOf ==
    ASSUME NEW h \in Slots
    PROVE  /\ NextSlot(h) = IF h = NUM_OF_CHARS - 1 THEN 0 ELSE h + 1
           /\ NextSlot(h) \in Slots
<1>1. PICK n \in Nat \ {0}, x \in Int : n = NUM_OF_CHARS /\ n > 1 /\ x = h + 1
  BY SlotType
<1>2. (x \in 0..n - 1 => x % n = x) /\ (x \in n..2 * n - 1 => x % n = x - n)
  BY Remainder
<1>3. x % n = IF h = n - 1 THEN 0 ELSE h + 1
  BY <1>1, <1>2, SlotType
<1>4. NextSlot(h) = x % n
  BY <1>1 DEF NextSlot
<1>5. QED
  BY <1>1, <1>3, <1>4, SlotType DEF Slots

\* The number of characters in a ring buffer.
LEMMA CountOf ==
    ASSUME NEW h \in Slots, NEW t \in Slots
    PROVE  /\ Count(h, t) = IF h >= t THEN h - t ELSE h - t + NUM_OF_CHARS
           /\ Count(h, t) \in Nat /\ Count(h, t) < NUM_OF_CHARS
           /\ Count(h, t) = 0 <=> h = t
<1>1. PICK n \in Nat \ {0}, x \in Int : n = NUM_OF_CHARS /\ n > 1 /\ x = h - t
  BY SlotType
<1>2. (x \in 0..n - 1 => x % n = x) /\ (x \in -n..-1 => x % n = x + n)
  BY Remainder
<1>3. x % n = IF h >= t THEN h - t ELSE h - t + n
  BY <1>1, <1>2, SlotType
<1>4. Count(h, t) = x % n
  BY <1>1 DEF Count
<1>5. QED
  BY <1>1, <1>3, <1>4, SlotType

LEMMA PlaceIs ==
    ASSUME NEW t \in Slots, NEW i \in 1..NUM_OF_CHARS
    PROVE  /\ Place(t, i) = IF t + i - 1 < NUM_OF_CHARS THEN t + i - 1
                                                        ELSE t + i - 1 - NUM_OF_CHARS
           /\ Place(t, i) \in Slots
<1>1. PICK n \in Nat \ {0}, x \in Int : n = NUM_OF_CHARS /\ n > 1 /\ x = t + i - 1
  BY SlotType
<1>2. (x \in 0..n - 1 => x % n = x) /\ (x \in n..2 * n - 1 => x % n = x - n)
  BY Remainder
<1>3. x % n = IF x < n THEN x ELSE x - n
  BY <1>1, <1>2, SlotType
<1>4. Place(t, i) = x % n
  BY <1>1 DEF Place
<1>5. QED
  BY <1>1, <1>3, <1>4, SlotType DEF Slots

\* The characters in a ring buffer.
LEMMA ContentsOf ==
    ASSUME NEW buffer \in [Slots -> Int], NEW h \in Slots, NEW t \in Slots
    PROVE  /\ Contents(buffer, h, t) \in Seq(Int)
           /\ Len(Contents(buffer, h, t)) = Count(h, t)
           /\ \A i \in 1..Count(h, t) :
                  Contents(buffer, h, t)[i] = buffer[Place(t, i)]
<1>1. PICK n : n = Count(h, t)
  OBVIOUS
<1>2. n \in Nat /\ 1..n \subseteq 1..NUM_OF_CHARS
  BY <1>1, CountOf, ConsoleAssumption
<1>3. \A i \in 1..n : buffer[Place(t, i)] \in Int
  BY <1>2, PlaceIs
<1>4. Contents(buffer, h, t) = [i \in 1..n |-> buffer[Place(t, i)]]
  BY <1>1 DEF Contents, Place
<1>5. QED
  BY <1>1, <1>2, <1>3, <1>4

\* A character put in at the head comes last.
LEMMA PutInRing ==
    ASSUME NEW buffer \in [Slots -> Int], NEW h \in Slots, NEW t \in Slots,
           Count(h, t) < NUM_OF_CHARS - 1
    PROVE  /\ Count(NextSlot(h), t) = Count(h, t) + 1
           /\ Contents(buffer, NextSlot(h), t) = Append(Contents(buffer, h, t), buffer[h])
<1>1. PICK g \in Slots, n \in Nat, k \in Nat : g = NextSlot(h) /\ n = Count(h, t) /\ k = n + 1
  BY NextOf, CountOf
<1>2. /\ g = IF h = NUM_OF_CHARS - 1 THEN 0 ELSE h + 1
      /\ n = IF h >= t THEN h - t ELSE h - t + NUM_OF_CHARS
      /\ Count(g, t) = IF g >= t THEN g - t ELSE g - t + NUM_OF_CHARS
  BY <1>1, NextOf, CountOf
<1>3. Count(g, t) = n + 1 /\ n < NUM_OF_CHARS - 1
  BY <1>1, <1>2, SlotType
<1>11. Place(t, k) = h
  <2>1. k \in 1..NUM_OF_CHARS
    BY <1>1, <1>3, SlotType
  <2>2. Place(t, k) = IF t + k - 1 < NUM_OF_CHARS THEN t + k - 1
                                                  ELSE t + k - 1 - NUM_OF_CHARS
    BY <2>1, PlaceIs
  <2>3. QED
    BY <1>1, <1>2, <2>2, SlotType
<1>4. PICK a, b : a = Contents(buffer, h, t) /\ b = Contents(buffer, g, t)
  OBVIOUS
<1>5. /\ a \in Seq(Int) /\ Len(a) = n
      /\ \A i \in 1..n : a[i] = buffer[Place(t, i)]
  BY <1>1, <1>4, ContentsOf
<1>6. /\ b \in Seq(Int) /\ Len(b) = n + 1
      /\ \A i \in 1..n + 1 : b[i] = buffer[Place(t, i)]
  <2>1. /\ b \in Seq(Int) /\ Len(b) = Count(g, t)
        /\ \A i \in 1..Count(g, t) : b[i] = buffer[Place(t, i)]
    BY <1>4, ContentsOf
  <2>2. QED
    BY <1>3, <2>1
<1>7. PICK c \in Int : c = buffer[h]
  OBVIOUS
<1>8. /\ Append(a, c) \in Seq(Int) /\ Len(Append(a, c)) = n + 1
      /\ \A i \in 1..n : Append(a, c)[i] = a[i]
      /\ Append(a, c)[n + 1] = c
  <2>1. /\ Append(a, c) \in Seq(Int) /\ Len(Append(a, c)) = Len(a) + 1
        /\ \A i \in 1..Len(a) : Append(a, c)[i] = a[i]
        /\ Append(a, c)[Len(a) + 1] = c
    BY ONLY <1>5, <1>7, AppendProperties
  <2>2. QED
    BY <1>5, <2>1
<1>9. \A i \in 1..n + 1 : Append(a, c)[i] = b[i]
  <2>1. ASSUME NEW i \in 1..n PROVE Append(a, c)[i] = b[i]
    <3>1. Append(a, c)[i] = a[i] /\ a[i] = buffer[Place(t, i)]
      BY <1>5, <1>8
    <3>2. i \in 1..n + 1
      BY <1>1
    <3>3. b[i] = buffer[Place(t, i)]
      BY <1>6, <3>2
    <3>4. QED
      BY <3>1, <3>3
  <2>2. Append(a, c)[k] = b[k] /\ k = n + 1
    BY <1>1, <1>11, <1>6, <1>7, <1>8
  <2>3. \A i \in 1..n + 1 : i \in 1..n \/ i = k
    BY <1>1
  <2>4. QED
    BY <2>1, <2>2, <2>3
<1>10. Append(a, c) = b
  BY <1>6, <1>8, <1>9, SeqEqual
<1>12. QED
  BY <1>1, <1>3, <1>4, <1>7, <1>10

\* The character at the tail comes first.
LEMMA TakeFromRing ==
    ASSUME NEW buffer \in [Slots -> Int], NEW h \in Slots, NEW t \in Slots, h # t
    PROVE  /\ Count(h, NextSlot(t)) = Count(h, t) - 1
           /\ Contents(buffer, h, t) = <<buffer[t]>> \o Contents(buffer, h, NextSlot(t))
<1>1. PICK u \in Slots, n \in Nat \ {0} : u = NextSlot(t) /\ n = Count(h, t)
  <2>1. Count(h, t) \in Nat \ {0} /\ NextSlot(t) \in Slots
    BY NextOf, CountOf
  <2>2. QED
    BY <2>1
<1>2. Count(h, u) = n - 1 /\ n \in 1..NUM_OF_CHARS - 1
  <2>1. /\ u = IF t = NUM_OF_CHARS - 1 THEN 0 ELSE t + 1
        /\ n = IF h >= t THEN h - t ELSE h - t + NUM_OF_CHARS
        /\ n < NUM_OF_CHARS
        /\ Count(h, u) = IF h >= u THEN h - u ELSE h - u + NUM_OF_CHARS
    BY <1>1, NextOf, CountOf
  <2>2. QED
    BY <1>1, <2>1, SlotType
<1>3. ASSUME NEW i \in 1..n - 1
      PROVE  Place(u, i) = Place(t, i + 1)
  <2>1. PICK j \in Nat : j = i + 1
    OBVIOUS
  <2>2. i \in 1..NUM_OF_CHARS /\ j \in 1..NUM_OF_CHARS
    BY <1>2, <2>1, SlotType
  <2>3. /\ u = IF t = NUM_OF_CHARS - 1 THEN 0 ELSE t + 1
        /\ Place(u, i) = IF u + i - 1 < NUM_OF_CHARS THEN u + i - 1
                                                     ELSE u + i - 1 - NUM_OF_CHARS
        /\ Place(t, j) = IF t + j - 1 < NUM_OF_CHARS THEN t + j - 1
                                                     ELSE t + j - 1 - NUM_OF_CHARS
    BY <1>1, <2>2, NextOf, PlaceIs
  <2>4. Place(u, i) = Place(t, j)
    <3>1. i \in Nat /\ i >= 1 /\ i < NUM_OF_CHARS /\ u \in Nat /\ t \in Nat /\ NUM_OF_CHARS \in Nat
      BY <1>2, <2>1, SlotType
    <3>2. CASE t = NUM_OF_CHARS - 1
      BY <2>1, <2>3, <3>1, <3>2
    <3>3. CASE t # NUM_OF_CHARS - 1
      BY <2>1, <2>3, <3>1, <3>3
    <3>4. QED
      BY <3>2, <3>3
  <2>5. QED
    BY <2>1, <2>4
<1>4. Place(t, 1) = t
  BY PlaceIs, SlotType
<1>5. PICK a, b : a = Contents(buffer, h, t) /\ b = Contents(buffer, h, u)
  OBVIOUS
<1>6. /\ a \in Seq(Int) /\ Len(a) = n
      /\ \A i \in 1..n : a[i] = buffer[Place(t, i)]
  <2>1. /\ a \in Seq(Int) /\ Len(a) = Count(h, t)
        /\ \A i \in 1..Count(h, t) : a[i] = buffer[Place(t, i)]
    BY <1>5, ContentsOf
  <2>2. QED
    BY <1>1, <2>1
<1>7. /\ b \in Seq(Int) /\ Len(b) = n - 1
      /\ \A i \in 1..n - 1 : b[i] = buffer[Place(u, i)]
  <2>1. /\ b \in Seq(Int) /\ Len(b) = Count(h, u)
        /\ \A i \in 1..Count(h, u) : b[i] = buffer[Place(u, i)]
    BY <1>5, ContentsOf
  <2>2. QED
    BY <1>2, <2>1
<1>8. PICK e : e = <<buffer[t]>>
  OBVIOUS
<1>9. e \in Seq(Int) /\ Len(e) = 1 /\ e[1] = buffer[t]
  BY <1>8
<1>10. /\ e \o b \in Seq(Int) /\ Len(e \o b) = Len(e) + Len(b)
       /\ \A i \in 1..Len(e) + Len(b) :
              (e \o b)[i] = IF i <= Len(e) THEN e[i] ELSE b[i - Len(e)]
  BY <1>7, <1>9, ConcatProperties
<1>11. ASSUME NEW i \in 1..n PROVE a[i] = (e \o b)[i]
  <2>1. CASE i = 1
    BY <1>4, <1>6, <1>7, <1>9, <1>10, <2>1
  <2>2. CASE i # 1
    <3>1. i - 1 \in 1..n - 1 /\ (i - 1) + 1 = i
      BY <2>2
    <3>2. (e \o b)[i] = b[i - 1]
      <4>1. i \in 1..Len(e) + Len(b) /\ ~(i <= Len(e)) /\ i - Len(e) = i - 1
        BY <1>7, <1>9, <2>2
      <4>2. QED
        BY <1>10, <4>1
    <3>3. b[i - 1] = buffer[Place(t, (i - 1) + 1)]
      BY <1>3, <1>7, <3>1
    <3>4. QED
      BY <1>6, <3>1, <3>2, <3>3
  <2>3. QED
    BY <2>1, <2>2
<1>12. a = e \o b
  <2>1. Len(a) = Len(e \o b)
    BY <1>6, <1>7, <1>9, <1>10
  <2>2. QED
    BY <1>6, <1>10, <1>11, <2>1, SeqEqual
<1>13. QED
  BY <1>1, <1>2, <1>5, <1>8, <1>12

\* A character written to the slot of the head is not in the buffer yet.
LEMMA WriteToRing ==
    ASSUME NEW buffer \in [Slots -> Int], NEW h \in Slots, NEW t \in Slots,
           NEW new \in [Slots -> Int], \A s \in Slots : s # h => new[s] = buffer[s]
    PROVE  Contents(new, h, t) = Contents(buffer, h, t)
<1>1. PICK n \in Nat : n = Count(h, t)
  BY CountOf
<1>2. PICK a, b : a = Contents(buffer, h, t) /\ b = Contents(new, h, t)
  OBVIOUS
<1>3. /\ a \in Seq(Int) /\ Len(a) = n
      /\ \A i \in 1..n : a[i] = buffer[Place(t, i)]
  BY <1>1, <1>2, ContentsOf
<1>4. /\ b \in Seq(Int) /\ Len(b) = n
      /\ \A i \in 1..n : b[i] = new[Place(t, i)]
  BY <1>1, <1>2, ContentsOf
<1>5. ASSUME NEW i \in 1..n PROVE Place(t, i) \in Slots /\ Place(t, i) # h
  <2>1. /\ n < NUM_OF_CHARS
        /\ n = IF h >= t THEN h - t ELSE h - t + NUM_OF_CHARS
    BY <1>1, CountOf
  <2>2. i \in 1..NUM_OF_CHARS
    BY <2>1, SlotType
  <2>3. /\ Place(t, i) \in Slots
        /\ Place(t, i) = IF t + i - 1 < NUM_OF_CHARS THEN t + i - 1
                                                     ELSE t + i - 1 - NUM_OF_CHARS
    BY <2>2, PlaceIs
  <2>4. QED
    BY <2>1, <2>3, SlotType
<1>6. \A i \in 1..n : a[i] = b[i]
  BY <1>3, <1>4, <1>5
<1>7. a = b
  BY <1>3, <1>4, <1>6, SeqEqual
<1>8. QED
  BY <1>2, <1>7

-----------------------------------------------------------------------------
Labels == {"start", "notEmpty", "load", "advance", "write", "flagged", "room", "receive",
           "echoReady", "echo", "store", "signal", "checkReceive", "checkTransfer",
           "checkInterrupt", "reset", "complete"}

\* The types of the variables that are not truth values.
ConsoleTypeOK ==
    /\ pc \in [Services -> Labels]
    /\ holds \in [Services -> Int]
    /\ headPrint \in Slots /\ tailPrint \in Slots
    /\ headGet \in Slots /\ tailGet \in Slots
    /\ bufferPrint \in [Slots -> Int] /\ bufferGet \in [Slots -> Int]
    /\ charUnits \in Nat
    /\ waiters \in Seq(Readers)
    /\ reader \in [Readers -> {"idle", "waiting", "granted"}]
    /\ txData \in Int /\ rxData \in Int
    /\ accepted \in Nat /\ typed \in Nat
    /\ printed \in Seq(Int) /\ received \in Seq(Int)

LEMMA ConsoleTypeInit == Init => ConsoleTypeOK
<1>1. 0 \in Slots
  BY ConsoleAssumption DEF Slots
<1>2. \A S : <<>> \in Seq(S)
  OBVIOUS
<1>3. SUFFICES ASSUME Init PROVE ConsoleTypeOK
  OBVIOUS
<1>4. /\ pc \in [Services -> Labels] /\ holds \in [Services -> Int]
      /\ bufferPrint \in [Slots -> Int] /\ bufferGet \in [Slots -> Int]
      /\ reader \in [Readers -> {"idle", "waiting", "granted"}]
  BY <1>3 DEF Init, Labels
<1>5. waiters \in Seq(Readers) /\ printed \in Seq(Int) /\ received \in Seq(Int)
  BY <1>2, <1>3 DEF Init
<1>6. /\ headPrint \in Slots /\ tailPrint \in Slots /\ headGet \in Slots /\ tailGet \in Slots
      /\ charUnits \in Nat /\ txData \in Int /\ rxData \in Int /\ accepted \in Nat /\ typed \in Nat
  BY <1>1, <1>3 DEF Init
<1>7. QED
  BY <1>4, <1>5, <1>6 DEF ConsoleTypeOK

\* A service goes to another label.
LEMMA GoesTo ==
    ASSUME ConsoleTypeOK, NEW x \in Services, NEW from, NEW cond, NEW to \in Labels,
           NEW or \in Labels, Branch(x, from, cond, to, or)
    PROVE  /\ pc' \in [Services -> Labels] /\ pc[x] = from /\ ~Killed
           /\ cond => pc'[x] = to
           /\ ~cond => pc'[x] = or
           /\ \A y \in Services : y # x => pc'[y] = pc[y]
  BY DEF Branch, ConsoleTypeOK

LEMMA ConsoleTypeStep == ConsoleTypeOK /\ [Next]_vars => ConsoleTypeOK'
<1>1. SUFFICES ASSUME ConsoleTypeOK, [Next]_vars PROVE ConsoleTypeOK'
  OBVIOUS
<1>2. Putter \in Services /\ Getter \in Services
  BY DEF Services
<1>3. ASSUME NEW x \in Services, NEW from, NEW cond, NEW to \in Labels, NEW or \in Labels,
             Test(x, from, cond, to, or)
      PROVE  ConsoleTypeOK'
  <2>1. pc' \in [Services -> Labels]
    BY <1>1, <1>3, GoesTo DEF Test
  <2>2. QED
    BY <1>1, <1>3, <2>1
       DEF Test, ConsoleTypeOK, bufferVars, semVars, deviceVars, historyVars
<1>4. ASSUME NEW x \in Services, Finish(x) PROVE ConsoleTypeOK'
  <2>1. CASE CheckReceive(x) \/ CheckTransfer(x) \/ CheckInterrupt(x)
    <3>1. "checkReceive" \in Labels /\ "checkTransfer" \in Labels /\ "start" \in Labels
          /\ "checkInterrupt" \in Labels /\ "reset" \in Labels
      BY DEF Labels
    <3>2. QED
      BY <1>3, <2>1, <3>1 DEF CheckReceive, CheckTransfer, CheckInterrupt
  <2>2. CASE ResetInterrupt(x) \/ PlicComplete(x)
    <3>1. pc' \in [Services -> Labels]
      BY <1>1, <2>2 DEF ResetInterrupt, PlicComplete, Goto, Branch, ConsoleTypeOK, Labels
    <3>2. QED
      BY <1>1, <2>2, <3>1
         DEF ResetInterrupt, PlicComplete, ConsoleTypeOK, bufferVars, semVars, deviceVars,
             historyVars
  <2>3. QED
    BY <1>4, <2>1, <2>2 DEF Finish
<1>5. CASE PutterStep
  <2>1. CASE PutterReady \/ PutterNotEmpty
    <3>1. "notEmpty" \in Labels /\ "load" \in Labels /\ "checkReceive" \in Labels
      BY DEF Labels
    <3>2. QED
      BY <1>2, <1>3, <2>1, <3>1 DEF PutterReady, PutterNotEmpty
  <2>2. CASE PutterLoad \/ PutterAdvance \/ PutterWrite
    <3>1. pc' \in [Services -> Labels]
      BY <1>1, <2>2 DEF PutterLoad, PutterAdvance, PutterWrite, Goto, Branch, ConsoleTypeOK, Labels
    <3>2. holds' \in [Services -> Int] /\ tailPrint' \in Slots
      BY <1>1, <2>2, NextOf
         DEF PutterLoad, PutterAdvance, PutterWrite, ConsoleTypeOK, bufferVars
    <3>3. txData' \in Int
      BY <1>1, <1>2, <2>2
         DEF PutterLoad, PutterAdvance, PutterWrite, PutCharInTerminal, ConsoleTypeOK, deviceVars
    <3>4. QED
      BY <1>1, <2>2, <3>1, <3>2, <3>3
         DEF PutterLoad, PutterAdvance, PutterWrite, PutCharInTerminal, ConsoleTypeOK,
             bufferVars, semVars, deviceVars, historyVars
  <2>3. QED
    BY <1>2, <1>4, <1>5, <2>1, <2>2 DEF PutterStep
<1>6. CASE GetterStep
  <2>1. CASE GetterReady \/ GetterFlagged \/ GetterRoom \/ GetterEchoReady
    <3>1. /\ "flagged" \in Labels /\ "room" \in Labels /\ "receive" \in Labels
          /\ "echo" \in Labels /\ "echoReady" \in Labels /\ "checkReceive" \in Labels
      BY DEF Labels
    <3>2. QED
      BY <1>2, <1>3, <2>1, <3>1 DEF GetterReady, GetterFlagged, GetterRoom, GetterEchoReady
  <2>2. CASE GetterReceive \/ GetterEcho \/ GetterStore \/ GetterAdvance
    <3>1. pc' \in [Services -> Labels]
      BY <1>1, <2>2 DEF GetterReceive, GetterEcho, GetterStore, GetterAdvance, Goto, Branch,
                        ConsoleTypeOK, Labels
    <3>2. holds' \in [Services -> Int] /\ headGet' \in Slots
      BY <1>1, <2>2, NextOf
         DEF GetterReceive, GetterEcho, GetterStore, GetterAdvance, ConsoleTypeOK, bufferVars
    <3>3. bufferGet' \in [Slots -> Int]
      <4>1. holds[Getter] \in Int
        BY <1>1, <1>2 DEF ConsoleTypeOK
      <4>2. QED
        BY <1>1, <2>2, <4>1
           DEF GetterReceive, GetterEcho, GetterStore, GetterAdvance, ConsoleTypeOK, bufferVars
    <3>4. txData' \in Int
      BY <1>1, <2>2
         DEF GetterReceive, GetterEcho, GetterStore, GetterAdvance, PutCharInTerminal,
             ConsoleTypeOK, deviceVars
    <3>5. QED
      BY <1>1, <2>2, <3>1, <3>2, <3>3, <3>4
         DEF GetterReceive, GetterEcho, GetterStore, GetterAdvance, PutCharInTerminal,
             ConsoleTypeOK, bufferVars, semVars, deviceVars, historyVars
  <2>3. CASE GetterSignal
    <3>1. pc' \in [Services -> Labels]
      BY <1>1, <2>3 DEF GetterSignal, Goto, Branch, ConsoleTypeOK, Labels
    <3>2. /\ charUnits' \in Nat /\ waiters' \in Seq(Readers)
          /\ reader' \in [Readers -> {"idle", "waiting", "granted"}]
      <4>1. CASE waiters = <<>>
        BY <1>1, <2>3, <4>1 DEF GetterSignal, ConsoleTypeOK
      <4>2. CASE waiters # <<>>
        <5>1. waiters \in Seq(Readers)
          BY <1>1 DEF ConsoleTypeOK
        <5>2. Head(waiters) \in Readers /\ Tail(waiters) \in Seq(Readers)
          BY <4>2, <5>1, TailList
        <5>3. QED
          BY <1>1, <2>3, <4>2, <5>2 DEF GetterSignal, ConsoleTypeOK
      <4>3. QED
        BY <4>1, <4>2
    <3>3. QED
      BY <1>1, <2>3, <3>1, <3>2
         DEF GetterSignal, ConsoleTypeOK, bufferVars, deviceVars, historyVars
  <2>4. QED
    BY <1>2, <1>4, <1>6, <2>1, <2>2, <2>3 DEF GetterStep
<1>7. CASE Putc
  <2>1. headPrint' \in Slots /\ bufferPrint' \in [Slots -> Int] /\ accepted' \in Nat
    BY <1>1, <1>7, NextOf DEF Putc, ConsoleTypeOK
  <2>2. QED
    BY <1>1, <1>7, <2>1 DEF Putc, ConsoleTypeOK, semVars, deviceVars
<1>8. ASSUME NEW r \in Readers, ReaderStep(r) PROVE ConsoleTypeOK'
  <2>1. ASSUME TakeChar PROVE tailGet' \in Slots /\ received' \in Seq(Int)
    <3>1. received \in Seq(Int) /\ tailGet \in Slots /\ bufferGet[tailGet] \in Int /\ EOF \in Int
      BY <1>1 DEF ConsoleTypeOK, EOF
    <3>2. /\ Append(received, EOF) \in Seq(Int) /\ Append(received, bufferGet[tailGet]) \in Seq(Int)
          /\ NextSlot(tailGet) \in Slots
      BY <3>1, AppendProperties, NextOf
    <3>3. QED
      BY <2>1, <3>1, <3>2 DEF TakeChar
  <2>2. CASE Getc(r)
    BY <1>1, <2>1, <2>2 DEF Getc, UnchangedByGetc, ConsoleTypeOK, deviceVars
  <2>3. CASE GetcWaits(r)
    <3>1. waiters' \in Seq(Readers)
      BY <1>1, <2>3, AppendProperties DEF GetcWaits, ConsoleTypeOK
    <3>2. QED
      BY <1>1, <2>3, <3>1 DEF GetcWaits, UnchangedByGetc, ConsoleTypeOK, deviceVars
  <2>4. CASE GetcGoesOn(r)
    BY <1>1, <2>1, <2>4 DEF GetcGoesOn, UnchangedByGetc, ConsoleTypeOK, deviceVars
  <2>5. QED
    BY <1>8, <2>2, <2>3, <2>4 DEF ReaderStep
<1>9. CASE MainStep
  <2>1. CASE KillServices \/ KillQEMU \/ Halt
    BY <1>1, <2>1 DEF KillServices, KillQEMU, Halt, ConsoleTypeOK, bufferVars, semVars,
                      deviceVars, historyVars
  <2>2. CASE PrintRest
    <3>1. tailPrint' \in Slots /\ txData' \in Int
      BY <1>1, <2>2, NextOf DEF PrintRest, PutCharInTerminal, ConsoleTypeOK
    <3>2. QED
      BY <1>1, <2>2, <3>1 DEF PrintRest, PutCharInTerminal, ConsoleTypeOK, semVars
  <2>3. QED
    BY <1>9, <2>1, <2>2 DEF MainStep
<1>10. CASE ConsoleInterrupt \/ Sent \/ Press
  <2>1. CASE ConsoleInterrupt
    BY <1>1, <2>1 DEF ConsoleInterrupt, ConsoleTypeOK, bufferVars, semVars, historyVars
  <2>2. CASE Sent
    <3>1. InRegister \in Seq(Int)
      BY <1>1 DEF InRegister, ConsoleTypeOK
    <3>2. printed' \in Seq(Int) /\ txData' \in Int
      BY <1>1, <2>2, <3>1, ConcatProperties DEF Sent, ConsoleTypeOK
    <3>3. QED
      BY <1>1, <2>2, <3>2 DEF Sent, ConsoleTypeOK, bufferVars, semVars
  <2>3. CASE Press
    <3>1. rxData' \in Int /\ typed' \in Nat
      BY <1>1, <2>3 DEF Press, ConsoleTypeOK
    <3>2. QED
      BY <1>1, <2>3, <3>1 DEF Press, ConsoleTypeOK, bufferVars, semVars
  <2>4. QED
    BY <1>10, <2>1, <2>2, <2>3
<1>11. CASE UNCHANGED vars
  BY <1>1, <1>11 DEF vars, ConsoleTypeOK, bufferVars, semVars, deviceVars, historyVars
<1>12. QED
  BY <1>1, <1>5, <1>6, <1>7, <1>8, <1>9, <1>10, <1>11 DEF Next

-----------------------------------------------------------------------------
\* A step of the putter leaves alone what the getter and getc use.
LEMMA PutterLeaves ==
    ASSUME ConsoleTypeOK, PutterStep
    PROVE  /\ pc'[Getter] = pc[Getter] /\ holds'[Getter] = holds[Getter]
           /\ UNCHANGED <<bufferGet, headGet, tailGet, rxReady, rxData, typed, received>>
           /\ UNCHANGED <<charUnits, waiters, reader, mainPc>>
<1>1. Putter \in Services /\ Getter \in Services /\ Putter # Getter
  BY DEF Services, Putter, Getter
<1>2. pc \in [Services -> Labels] /\ holds \in [Services -> Int]
  BY DEF ConsoleTypeOK
<1>3. \E to : pc' = [pc EXCEPT ![Putter] = to]
  BY DEF PutterStep, PutterReady, PutterNotEmpty, PutterLoad, PutterAdvance, PutterWrite,
         Finish, CheckReceive, CheckTransfer, CheckInterrupt, ResetInterrupt, PlicComplete,
         Test, Goto, Branch
<1>4. holds' = holds \/ \E c : holds' = [holds EXCEPT ![Putter] = c]
  BY DEF PutterStep, PutterReady, PutterNotEmpty, PutterLoad, PutterAdvance, PutterWrite,
         Finish, CheckReceive, CheckTransfer, CheckInterrupt, ResetInterrupt, PlicComplete, Test
<1>5. /\ UNCHANGED <<bufferGet, headGet, tailGet, rxReady, rxData, typed, received>>
      /\ UNCHANGED <<charUnits, waiters, reader, mainPc>>
  BY DEF PutterStep, PutterReady, PutterNotEmpty, PutterLoad, PutterAdvance, PutterWrite,
         Finish, CheckReceive, CheckTransfer, CheckInterrupt, ResetInterrupt, PlicComplete, Test,
         PutCharInTerminal, bufferVars, semVars, deviceVars, historyVars
<1>6. QED
  BY <1>1, <1>2, <1>3, <1>4, <1>5

\* A step of the getter leaves alone what the putter, putc and main() use, but
\* for the transmit register, which only its echo writes.
LEMMA GetterLeaves ==
    ASSUME ConsoleTypeOK, GetterStep
    PROVE  /\ pc'[Putter] = pc[Putter] /\ holds'[Putter] = holds[Putter]
           /\ UNCHANGED <<bufferPrint, headPrint, tailPrint, accepted, printed, mainPc>>
           /\ GetterEcho \/ UNCHANGED <<txReady, txData, replaced>>
<1>1. Putter \in Services /\ Getter \in Services /\ Putter # Getter
  BY DEF Services, Putter, Getter
<1>2. pc \in [Services -> Labels] /\ holds \in [Services -> Int]
  BY DEF ConsoleTypeOK
<1>3. \E to : pc' = [pc EXCEPT ![Getter] = to]
  BY DEF GetterStep, GetterReady, GetterFlagged, GetterRoom, GetterReceive, GetterEchoReady,
         GetterEcho, GetterStore, GetterAdvance, GetterSignal,
         Finish, CheckReceive, CheckTransfer, CheckInterrupt, ResetInterrupt, PlicComplete,
         Test, Goto, Branch
<1>4. holds' = holds \/ \E c : holds' = [holds EXCEPT ![Getter] = c]
  BY DEF GetterStep, GetterReady, GetterFlagged, GetterRoom, GetterReceive, GetterEchoReady,
         GetterEcho, GetterStore, GetterAdvance, GetterSignal,
         Finish, CheckReceive, CheckTransfer, CheckInterrupt, ResetInterrupt, PlicComplete, Test
<1>5. /\ UNCHANGED <<bufferPrint, headPrint, tailPrint, accepted, printed, mainPc>>
      /\ GetterEcho \/ UNCHANGED <<txReady, txData, replaced>>
  BY DEF GetterStep, GetterReady, GetterFlagged, GetterRoom, GetterReceive, GetterEchoReady,
         GetterEcho, GetterStore, GetterAdvance, GetterSignal, PutCharInTerminal,
         Finish, CheckReceive, CheckTransfer, CheckInterrupt, ResetInterrupt, PlicComplete, Test,
         bufferVars, deviceVars, historyVars
<1>6. QED
  BY <1>1, <1>2, <1>3, <1>4, <1>5

-----------------------------------------------------------------------------
\* The flag goes down only in a service that is about to complete the claim,
\* and only the completion, which gives up the claim, leaves that label.
LEMMA ClaimStep ==
    ConsoleTypeOK /\ ClaimIsNotForgotten /\ [Next]_vars => ClaimIsNotForgotten'
<1>1. SUFFICES ASSUME ConsoleTypeOK, ClaimIsNotForgotten, [Next]_vars
               PROVE  ClaimIsNotForgotten'
  OBVIOUS
<1>2. pc \in [Services -> Labels]
  BY <1>1 DEF ConsoleTypeOK
<1>3. ASSUME NEW x \in Services, NEW to, pc[x] # "complete",
             pc' = [pc EXCEPT ![x] = to], UNCHANGED <<claimed, consoleInterrupt>>
      PROVE  ClaimIsNotForgotten'
  BY <1>1, <1>2, <1>3 DEF ClaimIsNotForgotten
<1>4. ASSUME NEW x \in Services, Finish(x) PROVE ClaimIsNotForgotten'
  <2>1. CASE CheckReceive(x) \/ CheckTransfer(x) \/ CheckInterrupt(x)
    <3>1. /\ pc[x] # "complete" /\ \E to : pc' = [pc EXCEPT ![x] = to]
          /\ UNCHANGED <<claimed, consoleInterrupt>>
      BY <2>1 DEF CheckReceive, CheckTransfer, CheckInterrupt, Test, Branch, deviceVars
    <3>2. QED
      BY <1>3, <3>1
  <2>2. CASE ResetInterrupt(x)
    <3>1. pc'[x] = "complete"
      BY <1>2, <2>2 DEF ResetInterrupt, Goto, Branch
    <3>2. QED
      BY <3>1 DEF ClaimIsNotForgotten
  <2>3. CASE PlicComplete(x)
    BY <2>3 DEF PlicComplete, ClaimIsNotForgotten
  <2>4. QED
    BY <1>4, <2>1, <2>2, <2>3 DEF Finish
<1>5. Putter \in Services /\ Getter \in Services
  BY DEF Services
<1>6. CASE PutterStep
  <2>1. CASE PutterReady \/ PutterNotEmpty \/ PutterLoad \/ PutterAdvance \/ PutterWrite
    <3>1. /\ pc[Putter] # "complete" /\ \E to : pc' = [pc EXCEPT ![Putter] = to]
          /\ UNCHANGED <<claimed, consoleInterrupt>>
      BY <2>1 DEF PutterReady, PutterNotEmpty, PutterLoad, PutterAdvance, PutterWrite, Test,
                  Goto, Branch, PutCharInTerminal, deviceVars
    <3>2. QED
      BY <1>3, <1>5, <3>1
  <2>2. QED
    BY <1>4, <1>5, <1>6, <2>1 DEF PutterStep
<1>7. CASE GetterStep
  <2>1. CASE \/ GetterReady \/ GetterFlagged \/ GetterRoom \/ GetterReceive \/ GetterEchoReady
             \/ GetterEcho \/ GetterStore \/ GetterAdvance \/ GetterSignal
    <3>1. /\ pc[Getter] # "complete" /\ \E to : pc' = [pc EXCEPT ![Getter] = to]
          /\ UNCHANGED <<claimed, consoleInterrupt>>
      BY <2>1 DEF GetterReady, GetterFlagged, GetterRoom, GetterReceive, GetterEchoReady,
                  GetterEcho, GetterStore, GetterAdvance, GetterSignal, Test, Goto, Branch,
                  PutCharInTerminal, deviceVars
    <3>2. QED
      BY <1>3, <1>5, <3>1
  <2>2. QED
    BY <1>4, <1>5, <1>7, <2>1 DEF GetterStep
<1>8. CASE ConsoleInterrupt
  BY <1>8 DEF ConsoleInterrupt, ClaimIsNotForgotten
<1>9. CASE Halt
  BY <1>9 DEF Halt, ClaimIsNotForgotten
<1>10. ASSUME UNCHANGED <<pc, claimed, consoleInterrupt>> PROVE ClaimIsNotForgotten'
  BY <1>1, <1>10 DEF ClaimIsNotForgotten
<1>11. CASE Putc \/ (\E r \in Readers : ReaderStep(r)) \/ KillServices \/ KillQEMU \/ PrintRest
            \/ Sent \/ Press \/ UNCHANGED vars
  <2>1. UNCHANGED <<pc, claimed, consoleInterrupt>>
    BY <1>11 DEF Putc, ReaderStep, Getc, GetcWaits, GetcGoesOn, UnchangedByGetc, KillServices,
                 KillQEMU, PrintRest, PutCharInTerminal, Sent, Press, vars, deviceVars
  <2>2. QED
    BY <1>10, <2>1
<1>12. QED
  BY <1>1, <1>6, <1>7, <1>8, <1>9, <1>11 DEF Next, MainStep

\* The flag is up for every claimed interrupt until a service is about to
\* complete it, however the two services race for it (ClaimIsNotForgotten).
THEOREM ClaimsAreNotForgotten == Spec => []ClaimIsNotForgotten
<1>1. Init => ConsoleTypeOK /\ ClaimIsNotForgotten
  BY ConsoleTypeInit DEF Init, ClaimIsNotForgotten
<1>2. /\ ConsoleTypeOK /\ ClaimIsNotForgotten /\ [Next]_vars
      => ConsoleTypeOK' /\ ClaimIsNotForgotten'
  BY ConsoleTypeStep, ClaimStep
<1>3. QED
  BY <1>1, <1>2, PTL DEF Spec

-----------------------------------------------------------------------------
LEMMA NumbersAre ==
    ASSUME NEW n \in Nat
    PROVE  /\ Numbers(n) \in Seq(Int) /\ Len(Numbers(n)) = n
           /\ \A i \in 1..n : Numbers(n)[i] = i
           /\ Numbers(n + 1) = Append(Numbers(n), n + 1)
<1>1. \A m \in Nat : /\ Numbers(m) \in Seq(Int) /\ Len(Numbers(m)) = m
                     /\ \A i \in 1..m : Numbers(m)[i] = i
  BY DEF Numbers
<1>2. PICK a, b, m : a = Numbers(n) /\ b = Numbers(m) /\ m = n + 1
  OBVIOUS
<1>3. /\ a \in Seq(Int) /\ Len(a) = n /\ b \in Seq(Int) /\ Len(b) = n + 1 /\ m \in Int
      /\ \A i \in 1..n : a[i] = i
      /\ \A i \in 1..n + 1 : b[i] = i
  BY <1>1, <1>2
<1>4. /\ Append(a, m) \in Seq(Int) /\ Len(Append(a, m)) = n + 1
      /\ \A i \in 1..n : Append(a, m)[i] = a[i]
      /\ Append(a, m)[n + 1] = m
  BY <1>3, AppendProperties
<1>5. \A i \in 1..n + 1 : Append(a, m)[i] = b[i]
  BY <1>2, <1>3, <1>4
<1>6. Append(a, m) = b
  BY <1>3, <1>4, <1>5, SeqEqual
<1>7. QED
  BY <1>1, <1>2, <1>6

\* An element may be moved from the start of a sequence to the end of the one
\* before it; the empty sequence changes nothing.
LEMMA MoveOver ==
    ASSUME NEW a \in Seq(Int), NEW b \in Seq(Int), NEW x \in Int
    PROVE  /\ Append(a, x) \o b = a \o (<<x>> \o b)
           /\ a \o Append(b, x) = Append(a \o b, x)
           /\ a \o <<x>> = Append(a, x)
           /\ a \o <<>> = a
           /\ a \o b \in Seq(Int) /\ Append(a, x) \in Seq(Int)
<1>1. PICK e : e = <<x>>
  OBVIOUS
<1>2. e \in Seq(Int)
  BY <1>1
<1>3. /\ a \o b \in Seq(Int)
      /\ Append(a, x) = a \o e /\ Append(b, x) = b \o e /\ Append(a \o b, x) = (a \o b) \o e
      /\ Append(a, x) \in Seq(Int)
  <2>1. PICK c : c = a \o b
    OBVIOUS
  <2>2. c \in Seq(Int)
    BY <2>1, ConcatProperties
  <2>3. Append(a, x) = a \o e /\ Append(b, x) = b \o e
    BY <1>1, AppendIsConcat
  <2>4. Append(c, x) = c \o e
    BY <1>1, <2>2, AppendIsConcat
  <2>5. Append(a, x) \in Seq(Int)
    BY AppendProperties
  <2>6. QED
    BY <2>1, <2>2, <2>3, <2>4, <2>5
<1>4. (a \o e) \o b = a \o (e \o b) /\ (a \o b) \o e = a \o (b \o e)
  <2>1. (a \o e) \o b = a \o (e \o b)
    BY <1>2, ConcatAssociative
  <2>2. (a \o b) \o e = a \o (b \o e)
    BY <1>2, ConcatAssociative
  <2>3. QED
    BY <2>1, <2>2
<1>5. a \o <<>> = a
  BY ConcatEmptySeq
<1>6. a \o e = Append(a, x) /\ Append(a, x) \o b = a \o (e \o b)
  BY <1>3, <1>4
<1>7. a \o Append(b, x) = Append(a \o b, x)
  BY <1>3, <1>4
<1>8. QED
  BY <1>1, <1>3, <1>5, <1>6, <1>7

-----------------------------------------------------------------------------
InHand == {"echoReady", "echo", "store", "advance"}

\* The keys answered, in the buffer, in the getter's hand and in the device.
InputOf(p, h, buffer, head, tail, ready, data, answers) ==
    answers
        \o Contents(buffer, head, tail)
        \o (IF p \in InHand THEN <<h>> ELSE <<>>)
        \o (IF ready THEN <<data>> ELSE <<>>)

\* The state of the input: when the getter is at p with h in its hand.
InputOK(p, h, buffer, head, tail, ready, data, count, answers) ==
    /\ p \in {"flagged", "room", "receive"} => ready
    /\ p = "advance" => buffer[head] = h
    /\ InputOf(p, h, buffer, head, tail, ready, data, answers) = Numbers(count)
    /\ count - Len(answers) <= MaxAhead

InputInv ==
    InputOK(pc[Getter], holds[Getter], bufferGet, headGet, tailGet, rxReady, rxData, typed,
            received)

LEMMA InputInvInit == Init => InputInv
<1>1. SUFFICES ASSUME Init PROVE InputInv
  OBVIOUS
<1>2. /\ pc[Getter] = "start" /\ headGet = 0 /\ tailGet = 0 /\ ~rxReady /\ typed = 0
      /\ received = <<>> /\ 0 \in Slots /\ bufferGet \in [Slots -> Int]
  BY <1>1, ConsoleAssumption DEF Init, Services, Slots
<1>3. Count(0, 0) = 0
  BY <1>2, CountOf
<1>4. Contents(bufferGet, 0, 0) \in Seq(Int) /\ Len(Contents(bufferGet, 0, 0)) = 0
  BY <1>2, <1>3, ContentsOf
<1>5. Numbers(0) \in Seq(Int) /\ Len(Numbers(0)) = 0
  BY NumbersAre
<1>6. Contents(bufferGet, 0, 0) = <<>> /\ Numbers(0) = <<>>
  BY <1>4, <1>5
<1>7. PICK e : e = <<>>
  OBVIOUS
<1>8. e \o e = e
  <2>1. e \in Seq(Int)
    BY <1>7
  <2>2. QED
    BY <1>7, <2>1, ConcatEmptySeq
<1>9. InputOf(pc[Getter], holds[Getter], bufferGet, headGet, tailGet, rxReady, rxData, received)
          = ((e \o e) \o e) \o e
  BY <1>2, <1>6, <1>7 DEF InputOf, InHand
<1>10. QED
  BY <1>2, <1>6, <1>7, <1>8, <1>9, ConsoleAssumption DEF InputInv, InputOK

\* A key in the getter's hand has a free slot in the buffer, as long as the
\* keyboard is not further ahead than the buffer is long.
LEMMA InputHasRoom ==
    ASSUME NEW p \in InHand, NEW h \in Int, NEW buffer \in [Slots -> Int],
           NEW head \in Slots, NEW tail \in Slots, NEW ready, NEW data \in Int,
           NEW count \in Nat, NEW answers \in Seq(Int), MaxAhead < NUM_OF_CHARS,
           InputOK(p, h, buffer, head, tail, ready, data, count, answers)
    PROVE  Count(head, tail) < NUM_OF_CHARS - 1
<1>1. PICK a, b, c : /\ a = Contents(buffer, head, tail)
                     /\ b = <<h>>
                     /\ c = IF ready THEN <<data>> ELSE <<>>
  OBVIOUS
<1>2. a \in Seq(Int) /\ Len(a) = Count(head, tail) /\ Count(head, tail) \in Nat
  BY <1>1, ContentsOf, CountOf
<1>3. b \in Seq(Int) /\ Len(b) = 1
  BY <1>1
<1>4. c \in Seq(Int)
  BY <1>1
<1>5. PICK d : d = answers \o a
  OBVIOUS
<1>6. d \in Seq(Int) /\ Len(d) = Len(answers) + Len(a)
  BY <1>2, <1>5, ConcatProperties
<1>7. PICK f : f = d \o b
  OBVIOUS
<1>8. f \in Seq(Int) /\ Len(f) = Len(d) + Len(b)
  BY <1>3, <1>6, <1>7, ConcatProperties
<1>9. Len(f \o c) = Len(f) + Len(c) /\ Len(c) \in Nat
  BY <1>4, <1>8, ConcatProperties, LenProperties
<1>10. f \o c = Numbers(count) /\ count - Len(answers) <= MaxAhead
  BY <1>1, <1>5, <1>7 DEF InputOK, InputOf
<1>11. Len(f \o c) = count
  BY <1>10, NumbersAre
<1>12. PICK x \in Nat, y \in Nat, z \in Nat :
           x = Len(answers) /\ y = Count(head, tail) /\ z = Len(c)
  <2>1. Len(answers) \in Nat
    BY LenProperties
  <2>2. QED
    BY <1>2, <1>9, <2>1
<1>13. count = x + y + 1 + z
  BY <1>2, <1>3, <1>6, <1>8, <1>9, <1>11, <1>12
<1>14. y < NUM_OF_CHARS - 1
  <2>1. PICK max \in Nat, size \in Nat : max = MaxAhead /\ size = NUM_OF_CHARS
    BY ConsoleAssumption
  <2>2. count - x <= max /\ max < size
    BY <1>10, <1>12, <2>1
  <2>3. \A l, m, n, o, r, s \in Nat :
            l = m + n + 1 + o /\ l - m <= r /\ r < s => n < s - 1
    OBVIOUS
  <2>4. y < size - 1
    BY ONLY <1>13, <2>2, <2>3
  <2>5. QED
    BY <2>1, <2>4
<1>15. QED
  BY <1>12, <1>14

\* The getter goes on with nothing in its hand, or with what it had.
LEMMA InputGoesOn ==
    ASSUME NEW p, NEW q, NEW h, NEW buffer, NEW head, NEW tail, NEW ready, NEW data,
           NEW count, NEW answers,
           InputOK(p, h, buffer, head, tail, ready, data, count, answers),
           q \in {"flagged", "room", "receive"} => ready,
           q # "advance", p \in InHand <=> q \in InHand
    PROVE  InputOK(q, h, buffer, head, tail, ready, data, count, answers)
  BY DEF InputOK, InputOf

\* The getter takes the key from the device.
LEMMA InputReceived ==
    ASSUME NEW p, NEW q \in {"echoReady", "store"}, NEW h, NEW buffer \in [Slots -> Int],
           NEW head \in Slots, NEW tail \in Slots, NEW ready, NEW down, NEW data \in Int,
           NEW count, NEW answers \in Seq(Int), ready, ~down, p \notin InHand,
           InputOK(p, h, buffer, head, tail, ready, data, count, answers)
    PROVE  InputOK(q, data, buffer, head, tail, down, data, count, answers)
<1>1. PICK a, b : a = Contents(buffer, head, tail) /\ b = answers \o a
  OBVIOUS
<1>2. b \in Seq(Int)
  BY <1>1, ContentsOf, ConcatProperties
<1>3. (b \o <<>>) \o <<data>> = (b \o <<data>>) \o <<>>
  BY <1>2, MoveOver
<1>4. InputOf(p, h, buffer, head, tail, ready, data, answers) = (b \o <<>>) \o <<data>>
  BY <1>1 DEF InputOf
<1>5. InputOf(q, data, buffer, head, tail, down, data, answers) = (b \o <<data>>) \o <<>>
  BY <1>1 DEF InputOf, InHand
<1>6. QED
  BY <1>3, <1>4, <1>5 DEF InputOK

\* The getter writes the key to the slot of the head.
LEMMA InputStored ==
    ASSUME NEW h \in Int, NEW buffer \in [Slots -> Int], NEW head \in Slots,
           NEW tail \in Slots, NEW ready, NEW data, NEW count, NEW answers,
           InputOK("store", h, buffer, head, tail, ready, data, count, answers)
    PROVE  InputOK("advance", h, [buffer EXCEPT ![head] = h], head, tail, ready, data, count,
                   answers)
<1>1. PICK new : new = [buffer EXCEPT ![head] = h]
  OBVIOUS
<1>2. new[head] = h /\ Contents(new, head, tail) = Contents(buffer, head, tail)
  <2>1. /\ new \in [Slots -> Int] /\ new[head] = h
        /\ \A s \in Slots : s # head => new[s] = buffer[s]
    BY <1>1
  <2>2. QED
    BY <2>1, WriteToRing
<1>3. InputOf("advance", h, new, head, tail, ready, data, answers)
          = InputOf("store", h, buffer, head, tail, ready, data, answers)
  BY <1>2 DEF InputOf, InHand
<1>4. QED
  BY <1>1, <1>2, <1>3 DEF InputOK

\* The getter advances the head, which puts the key in the buffer.
LEMMA InputAdvanced ==
    ASSUME NEW h \in Int, NEW buffer \in [Slots -> Int], NEW head \in Slots,
           NEW tail \in Slots, NEW ready, NEW data \in Int, NEW count \in Nat,
           NEW answers \in Seq(Int), Count(head, tail) < NUM_OF_CHARS - 1,
           InputOK("advance", h, buffer, head, tail, ready, data, count, answers)
    PROVE  InputOK("signal", h, buffer, NextSlot(head), tail, ready, data, count, answers)
<1>1. PICK a, b, c : /\ a = Contents(buffer, head, tail)
                     /\ b = Contents(buffer, NextSlot(head), tail)
                     /\ c = IF ready THEN <<data>> ELSE <<>>
  OBVIOUS
<1>2. a \in Seq(Int) /\ buffer[head] = h
  BY <1>1, ContentsOf DEF InputOK
<1>3. b = Append(a, h)
  BY <1>1, <1>2, PutInRing
<1>4. PICK d \in Seq(Int) : d = answers \o a
  BY <1>2, ConcatProperties
<1>5. answers \o b = Append(d, h) /\ d \o <<h>> = Append(d, h) /\ Append(d, h) \in Seq(Int)
  <2>1. answers \o Append(a, h) = Append(answers \o a, h)
    BY <1>2, MoveOver
  <2>2. d \o <<h>> = Append(d, h) /\ Append(d, h) \in Seq(Int)
    BY <1>4, MoveOver
  <2>3. QED
    BY <1>3, <1>4, <2>1, <2>2
<1>6. Append(d, h) \o <<>> = Append(d, h)
  BY <1>5, MoveOver
<1>7. InputOf("signal", h, buffer, NextSlot(head), tail, ready, data, answers)
          = ((answers \o b) \o <<>>) \o c
  BY <1>1 DEF InputOf, InHand
<1>8. InputOf("advance", h, buffer, head, tail, ready, data, answers) = (d \o <<h>>) \o c
  BY <1>1, <1>4 DEF InputOf, InHand
<1>9. QED
  BY <1>5, <1>6, <1>7, <1>8 DEF InputOK

\* getc answers the key at the tail.
LEMMA InputAnswered ==
    ASSUME NEW p, NEW h, NEW buffer \in [Slots -> Int], NEW head \in Slots,
           NEW tail \in Slots, NEW ready, NEW data, NEW count \in Nat,
           NEW answers \in Seq(Int), head # tail,
           InputOK(p, h, buffer, head, tail, ready, data, count, answers)
    PROVE  InputOK(p, h, buffer, head, NextSlot(tail), ready, data, count,
                   Append(answers, buffer[tail]))
<1>1. PICK a, b, new : /\ a = Contents(buffer, head, tail)
                       /\ b = Contents(buffer, head, NextSlot(tail))
                       /\ new = Append(answers, buffer[tail])
  OBVIOUS
<1>2. b \in Seq(Int) /\ buffer[tail] \in Int /\ a = <<buffer[tail]>> \o b
  BY <1>1, NextOf, ContentsOf, TakeFromRing
<1>3. new \o b = answers \o a
  <2>1. PICK x \in Int : x = buffer[tail]
    BY <1>2
  <2>2. Append(answers, x) \o b = answers \o (<<x>> \o b)
    BY <1>2, MoveOver
  <2>3. QED
    BY <1>1, <1>2, <2>1, <2>2
<1>4. InputOf(p, h, buffer, head, NextSlot(tail), ready, data, new)
          = InputOf(p, h, buffer, head, tail, ready, data, answers)
  BY <1>1, <1>3 DEF InputOf
<1>5. Len(new) = Len(answers) + 1 /\ Len(answers) \in Nat
  BY <1>1, <1>2, AppendProperties, LenProperties
<1>6. count - Len(new) <= MaxAhead
  BY <1>5, ConsoleAssumption DEF InputOK
<1>7. QED
  BY <1>1, <1>4, <1>6 DEF InputOK

\* A key is pressed.
LEMMA InputPressed ==
    ASSUME NEW p, NEW h \in Int, NEW buffer \in [Slots -> Int], NEW head \in Slots,
           NEW tail \in Slots, NEW data, NEW count \in Nat,
           NEW answers \in Seq(Int), NEW next \in Nat, next = count + 1,
           count - Len(answers) < MaxAhead,
           InputOK(p, h, buffer, head, tail, FALSE, data, count, answers)
    PROVE  InputOK(p, h, buffer, head, tail, TRUE, next, next, answers)
<1>1. PICK a, b : /\ a = Contents(buffer, head, tail)
                  /\ b = IF p \in InHand THEN <<h>> ELSE <<>>
  OBVIOUS
<1>2. a \in Seq(Int) /\ b \in Seq(Int) /\ count + 1 \in Int
  BY <1>1, ContentsOf
<1>3. PICK d : d = (answers \o a) \o b
  OBVIOUS
<1>4. d \in Seq(Int)
  BY <1>2, <1>3, ConcatProperties
<1>5. d \o <<>> = d /\ d \o <<count + 1>> = Append(d, count + 1)
  BY <1>2, <1>4, MoveOver
<1>6. d \o <<>> = Numbers(count)
  BY <1>1, <1>3 DEF InputOK, InputOf
<1>7. PICK n : n = count + 1 /\ n = next
  OBVIOUS
<1>8. InputOf(p, h, buffer, head, tail, TRUE, n, answers) = d \o <<n>>
  BY <1>1, <1>3 DEF InputOf
<1>9. d \o <<n>> = Numbers(n)
  BY <1>5, <1>6, <1>7, NumbersAre
<1>10. n - Len(answers) <= MaxAhead
  BY <1>7, ConsoleAssumption, LenProperties
<1>11. p = "advance" => buffer[head] = h
  BY DEF InputOK
<1>12. InputOK(p, h, buffer, head, tail, TRUE, n, n, answers)
  BY <1>8, <1>9, <1>10, <1>11 DEF InputOK
<1>13. QED
  BY <1>7, <1>12
-----------------------------------------------------------------------------
\* The readers that were given a unit and have not been switched to yet.
Granted(where) == {r \in Readers : where[r] = "granted"}

\* The state of characterReadyToGet when the getter is at p and n characters
\* are in the buffer.
SemOK(p, units, queue, where, n) ==
    /\ IsInjective(queue)
    /\ \A r \in ToSet(queue) : where[r] = "waiting"
    /\ IsFiniteSet(Granted(where))
    /\ units + Cardinality(Granted(where)) + (IF p = "signal" THEN 1 ELSE 0) = n

SemInv == SemOK(pc[Getter], charUnits, waiters, reader, Count(headGet, tailGet))

LEMMA SemInvInit == Init => SemInv
<1>1. SUFFICES ASSUME Init PROVE SemInv
  OBVIOUS
<1>2. pc[Getter] = "start" /\ charUnits = 0 /\ waiters = <<>> /\ headGet = 0 /\ tailGet = 0
  BY <1>1 DEF Init, Services
<1>3. Count(0, 0) = 0
  BY CountOf, ConsoleAssumption DEF Slots
<1>4. Granted(reader) = {}
  BY <1>1 DEF Granted, Init
<1>5. IsInjective(<<>>) /\ ToSet(<<>>) = {}
  BY DEF IsInjective, ToSet
<1>6. QED
  BY <1>2, <1>3, <1>4, <1>5, FS_EmptySet DEF SemInv, SemOK

\* The getter goes to q: with a character that it has put in the buffer, or
\* from a place to another that are both not the signal.
LEMMA SemGoesOn ==
    ASSUME NEW p, NEW q, NEW units, NEW queue, NEW where, NEW n \in Int,
           SemOK(p, units, queue, where, n), p # "signal"
    PROVE  /\ q # "signal" => SemOK(q, units, queue, where, n)
           /\ units \in Nat => SemOK("signal", units, queue, where, n + 1)
<1>1. /\ Cardinality(Granted(where)) \in Nat
      /\ units + Cardinality(Granted(where)) + 0 = n
  BY FS_CardinalityType DEF SemOK
<1>2. units \in Nat => units + Cardinality(Granted(where)) + 1 = n + 1
  BY <1>1
<1>3. QED
  BY <1>1, <1>2 DEF SemOK

\* The signal gives the unit to the longest waiting reader, if one waits.
LEMMA SemSignalled ==
    ASSUME NEW q, q # "signal", NEW units \in Nat, NEW queue \in Seq(Readers),
           NEW where \in [Readers -> {"idle", "waiting", "granted"}], NEW n \in Int,
           SemOK("signal", units, queue, where, n)
    PROVE  /\ queue = <<>> => SemOK(q, units + 1, queue, where, n)
           /\ queue # <<>> => SemOK(q, units, Tail(queue),
                                    [where EXCEPT ![Head(queue)] = "granted"], n)
<1>1. PICK g : g = Granted(where)
  OBVIOUS
<1>2. IsFiniteSet(g) /\ Cardinality(g) \in Nat /\ units + Cardinality(g) + 1 = n
  BY <1>1, FS_CardinalityType DEF SemOK
<1>3. SemOK(q, units + 1, queue, where, n)
  BY <1>1, <1>2 DEF SemOK
<1>4. ASSUME queue # <<>>
      PROVE  SemOK(q, units, Tail(queue), [where EXCEPT ![Head(queue)] = "granted"], n)
  <2>1. PICK r, new, rest : /\ r = Head(queue) /\ rest = Tail(queue)
                            /\ new = [where EXCEPT ![r] = "granted"]
    OBVIOUS
  <2>2. /\ r \in Readers /\ r \in ToSet(queue)
        /\ IsInjective(rest) /\ ToSet(rest) = ToSet(queue) \ {r}
    BY <1>4, <2>1, TailList DEF SemOK
  <2>3. where[r] = "waiting" /\ \A u \in ToSet(rest) : where[u] = "waiting" /\ u # r
    BY <2>2 DEF SemOK
  <2>4. /\ \A u \in Readers : new[u] = IF u = r THEN "granted" ELSE where[u]
        /\ ToSet(rest) \subseteq Readers
    BY <2>1, <2>2, InList
  <2>5. Granted(new) = g \cup {r} /\ r \notin g
    BY <1>1, <2>2, <2>3, <2>4 DEF Granted
  <2>6. IsFiniteSet(g \cup {r}) /\ Cardinality(g \cup {r}) = Cardinality(g) + 1
    BY <1>2, <2>5, FS_AddElement
  <2>7. units + Cardinality(Granted(new)) + 0 = n /\ IsFiniteSet(Granted(new))
    BY <1>2, <2>5, <2>6
  <2>8. \A u \in ToSet(rest) : new[u] = "waiting"
    BY <2>3, <2>4
  <2>9. SemOK(q, units, rest, new, n)
    BY <2>2, <2>7, <2>8 DEF SemOK
  <2>10. QED
    BY <2>1, <2>9
<1>5. QED
  BY <1>3, <1>4

\* A unit, for a reader that has not waited or for one that has, stands for a
\* character in the buffer, and is gone together with it.
LEMMA SemTaken ==
    ASSUME NEW p, NEW units \in Nat, NEW queue \in Seq(Readers),
           NEW where \in [Readers -> {"idle", "waiting", "granted"}], NEW n \in Int,
           SemOK(p, units, queue, where, n)
    PROVE  /\ units > 0 => n > 0 /\ SemOK(p, units - 1, queue, where, n - 1)
           /\ \A r \in Readers : where[r] = "granted" =>
                  n > 0 /\ SemOK(p, units, queue, [where EXCEPT ![r] = "idle"], n - 1)
<1>1. PICK g, s : g = Granted(where) /\ s = IF p = "signal" THEN 1 ELSE 0
  OBVIOUS
<1>2. /\ IsFiniteSet(g) /\ Cardinality(g) \in Nat /\ s \in Nat
      /\ units + Cardinality(g) + s = n
  BY <1>1, FS_CardinalityType DEF SemOK
<1>3. ASSUME units > 0
      PROVE  n > 0 /\ SemOK(p, units - 1, queue, where, n - 1)
  <2>1. PICK c \in Nat, v \in Nat, m \in Int : c = Cardinality(g) /\ v = units - 1 /\ m = n - 1
    BY <1>2, <1>3
  <2>2. units + c + s = n
    BY <1>2, <2>1
  <2>3. n > 0 /\ v + c + s = m
    BY <1>2, <1>3, <2>1, <2>2
  <2>4. SemOK(p, v, queue, where, m)
    BY <1>1, <2>1, <2>3 DEF SemOK
  <2>5. QED
    BY <2>1, <2>3, <2>4
<1>4. ASSUME NEW r \in Readers, where[r] = "granted"
      PROVE  n > 0 /\ SemOK(p, units, queue, [where EXCEPT ![r] = "idle"], n - 1)
  <2>1. PICK new : new = [where EXCEPT ![r] = "idle"]
    OBVIOUS
  <2>2. \A u \in Readers : new[u] = IF u = r THEN "idle" ELSE where[u]
    BY <2>1
  <2>3. Granted(new) = g \ {r} /\ r \in g
    BY <1>1, <1>4, <2>2 DEF Granted
  <2>4. IsFiniteSet(g \ {r}) /\ Cardinality(g \ {r}) = Cardinality(g) - 1
    BY <1>2, <2>3, FS_RemoveElement
  <2>5. Cardinality(g \ {r}) \in Nat
    BY <2>4, FS_CardinalityType
  <2>6. n > 0 /\ units + Cardinality(Granted(new)) + s = n - 1 /\ IsFiniteSet(Granted(new))
    BY <1>2, <2>3, <2>4, <2>5
  <2>7. \A u \in ToSet(queue) : new[u] = "waiting"
    BY <1>4, <2>2, InList DEF SemOK
  <2>8. SemOK(p, units, queue, new, n - 1)
    BY <1>1, <2>6, <2>7 DEF SemOK
  <2>9. QED
    BY <2>1, <2>6, <2>8
<1>5. QED
  BY <1>3, <1>4

\* A reader waits.
LEMMA SemWaited ==
    ASSUME NEW p, NEW units, NEW queue \in Seq(Readers),
           NEW where \in [Readers -> {"idle", "waiting", "granted"}], NEW n,
           SemOK(p, units, queue, where, n), NEW r \in Readers, where[r] = "idle"
    PROVE  SemOK(p, units, Append(queue, r), [where EXCEPT ![r] = "waiting"], n)
<1>1. PICK new, long : new = [where EXCEPT ![r] = "waiting"] /\ long = Append(queue, r)
  OBVIOUS
<1>2. \A u \in Readers : new[u] = IF u = r THEN "waiting" ELSE where[u]
  BY <1>1
<1>3. r \notin ToSet(queue) /\ ToSet(queue) \subseteq Readers
  BY InList DEF SemOK
<1>4. ToSet(long) = ToSet(queue) \cup {r} /\ IsInjective(long)
  BY <1>1, <1>3, AppendList DEF SemOK
<1>5. Granted(new) = Granted(where)
  BY <1>2 DEF Granted
<1>6. \A u \in ToSet(long) : new[u] = "waiting"
  BY <1>2, <1>3, <1>4 DEF SemOK
<1>7. SemOK(p, units, long, new, n)
  BY <1>4, <1>5, <1>6 DEF SemOK
<1>8. QED
  BY <1>1, <1>7

-----------------------------------------------------------------------------
\* getc takes a character when there is one in the buffer.
LEMMA InputTaken ==
    ASSUME ConsoleTypeOK, InputInv, headGet # tailGet, TakeChar, UnchangedByGetc
    PROVE  InputInv' /\ Count(headGet', tailGet') = Count(headGet, tailGet) - 1
<1>1. PICK new : new = Append(received, bufferGet[tailGet])
  OBVIOUS
<1>2. /\ tailGet' = NextSlot(tailGet) /\ received' = new
      /\ UNCHANGED <<pc, holds, headGet, bufferGet, rxReady, rxData, typed>>
  BY <1>1 DEF TakeChar, UnchangedByGetc, deviceVars
<1>3. /\ bufferGet \in [Slots -> Int] /\ headGet \in Slots /\ tailGet \in Slots
      /\ typed \in Nat /\ received \in Seq(Int)
  BY DEF ConsoleTypeOK
<1>4. InputOK(pc[Getter], holds[Getter], bufferGet, headGet, NextSlot(tailGet), rxReady,
              rxData, typed, new)
  BY <1>1, <1>3, InputAnswered DEF InputInv
<1>5. Count(headGet, NextSlot(tailGet)) = Count(headGet, tailGet) - 1
  BY <1>3, TakeFromRing
<1>6. InputInv' <=> InputOK(pc'[Getter], holds'[Getter], bufferGet', headGet', tailGet',
                            rxReady', rxData', typed', received')
  BY DEF InputInv
<1>7. QED
  BY <1>2, <1>4, <1>5, <1>6

\* No step loses or reorders a key, or breaks the count of the semaphore.
LEMMA InputStep ==
    ASSUME MaxAhead < NUM_OF_CHARS
    PROVE  ConsoleTypeOK /\ InputInv /\ SemInv /\ [Next]_vars => InputInv' /\ SemInv'
<1>1. SUFFICES ASSUME ConsoleTypeOK, InputInv, SemInv, [Next]_vars PROVE InputInv' /\ SemInv'
  OBVIOUS
<1>2. /\ pc \in [Services -> Labels] /\ holds \in [Services -> Int]
      /\ bufferGet \in [Slots -> Int] /\ headGet \in Slots /\ tailGet \in Slots
      /\ rxData \in Int /\ typed \in Nat /\ received \in Seq(Int)
      /\ charUnits \in Nat /\ waiters \in Seq(Readers)
      /\ reader \in [Readers -> {"idle", "waiting", "granted"}]
  BY <1>1 DEF ConsoleTypeOK
<1>3. Putter \in Services /\ Getter \in Services /\ Putter # Getter
  BY DEF Services, Putter, Getter
<1>4. PICK p, h, n : /\ p = pc[Getter] /\ h = holds[Getter] /\ n = Count(headGet, tailGet)
                     /\ h \in Int /\ n \in Int /\ n \in Nat
  BY <1>2, <1>3, CountOf
<1>5. /\ InputOK(p, h, bufferGet, headGet, tailGet, rxReady, rxData, typed, received)
      /\ SemOK(p, charUnits, waiters, reader, n)
  BY <1>1, <1>4 DEF InputInv, SemInv
<1>6. /\ InputInv' <=> InputOK(pc'[Getter], holds'[Getter], bufferGet', headGet', tailGet',
                               rxReady', rxData', typed', received')
      /\ SemInv' <=> SemOK(pc'[Getter], charUnits', waiters', reader', Count(headGet', tailGet'))
  BY DEF InputInv, SemInv
<1>7. ASSUME pc'[Getter] = p, holds'[Getter] = h,
             UNCHANGED <<bufferGet, headGet, tailGet, rxReady, rxData, typed, received>>,
             UNCHANGED <<charUnits, waiters, reader>>
      PROVE  InputInv' /\ SemInv'
  BY <1>4, <1>5, <1>6, <1>7
<1>8. ASSUME NEW q, pc'[Getter] = q, UNCHANGED <<holds, bufferVars, semVars>>,
             UNCHANGED <<rxReady, rxData, typed, received>>,
             p # "signal", q # "signal", q # "advance", p \in InHand <=> q \in InHand,
             q \in {"flagged", "room", "receive"} => rxReady
      PROVE  InputInv' /\ SemInv'
  <2>1. InputOK(q, h, bufferGet, headGet, tailGet, rxReady, rxData, typed, received)
    BY <1>5, <1>8, InputGoesOn
  <2>2. SemOK(q, charUnits, waiters, reader, n)
    BY <1>4, <1>5, <1>8, SemGoesOn
  <2>3. /\ UNCHANGED <<bufferGet, headGet, tailGet, charUnits, waiters, reader>>
        /\ holds'[Getter] = h
    BY <1>4, <1>8 DEF bufferVars, semVars
  <2>4. QED
    BY <1>4, <1>6, <1>8, <2>1, <2>2, <2>3
<1>9. CASE GetterStep
  <2>1. CASE Finish(Getter)
    <3>1. PICK q : /\ pc' = [pc EXCEPT ![Getter] = q]
                   /\ q \in {"checkTransfer", "checkInterrupt", "reset", "complete", "start"}
                   /\ p \in {"checkReceive", "checkTransfer", "checkInterrupt", "reset", "complete"}
                   /\ UNCHANGED <<holds, bufferVars, semVars>>
                   /\ UNCHANGED <<rxReady, rxData, typed, received>>
      BY <1>4, <2>1 DEF Finish, CheckReceive, CheckTransfer, CheckInterrupt, ResetInterrupt,
                        PlicComplete, Test, Goto, Branch, deviceVars, historyVars
    <3>2. pc'[Getter] = q
      BY <1>2, <1>3, <3>1
    <3>3. QED
      BY <1>8, <3>1, <3>2 DEF InHand
  <2>2. CASE GetterReady \/ GetterFlagged \/ GetterRoom \/ GetterEchoReady \/ GetterEcho
    <3>1. PICK q : /\ pc' = [pc EXCEPT ![Getter] = q]
                   /\ \/ /\ p \in {"start", "flagged", "room"}
                         /\ \/ q = "checkReceive"
                            \/ q \in {"flagged", "room", "receive"} /\ rxReady
                      \/ p = "echoReady" /\ q \in {"echo", "echoReady"}
                      \/ p = "echo" /\ q = "store"
                   /\ UNCHANGED <<holds, bufferVars, semVars>>
                   /\ UNCHANGED <<rxReady, rxData, typed, received>>
      <4>1. p \in {"flagged", "room", "receive"} => rxReady
        BY <1>5 DEF InputOK
      <4>2. QED
        BY <1>4, <2>2, <4>1
           DEF GetterReady, GetterFlagged, GetterRoom, GetterEchoReady, GetterEcho,
               Test, Goto, Branch, PutCharInTerminal, deviceVars, historyVars
    <3>2. pc'[Getter] = q
      BY <1>2, <1>3, <3>1
    <3>3. QED
      BY <1>8, <3>1, <3>2 DEF InHand
  <2>3. CASE GetterReceive
    <3>1. PICK q \in {"echoReady", "store"} :
              /\ p = "receive" /\ pc' = [pc EXCEPT ![Getter] = q]
              /\ holds' = [holds EXCEPT ![Getter] = rxData] /\ ~rxReady'
              /\ UNCHANGED <<bufferGet, headGet, tailGet, charUnits, waiters, reader>>
              /\ UNCHANGED <<rxData, typed, received>>
      BY <1>4, <2>3 DEF GetterReceive, Branch, bufferVars, semVars, historyVars
    <3>2. pc'[Getter] = q /\ holds'[Getter] = rxData
      BY <1>2, <1>3, <3>1
    <3>3. rxReady /\ p \notin InHand
      BY <1>5, <3>1 DEF InputOK, InHand
    <3>4. InputOK(q, rxData, bufferGet, headGet, tailGet, rxReady', rxData, typed, received)
      BY <1>2, <1>4, <1>5, <3>1, <3>3, InputReceived
    <3>5. SemOK(q, charUnits, waiters, reader, n)
      BY <1>4, <1>5, <3>1, SemGoesOn
    <3>6. QED
      BY <1>4, <1>6, <3>1, <3>2, <3>4, <3>5
  <2>4. CASE GetterStore
    <3>1. /\ p = "store" /\ pc' = [pc EXCEPT ![Getter] = "advance"]
          /\ bufferGet' = [bufferGet EXCEPT ![headGet] = h]
          /\ UNCHANGED <<holds, headGet, tailGet, charUnits, waiters, reader>>
          /\ UNCHANGED <<rxReady, rxData, typed, received>>
      BY <1>4, <2>4 DEF GetterStore, Goto, Branch, semVars, deviceVars, historyVars
    <3>2. pc'[Getter] = "advance"
      BY <1>2, <1>3, <3>1
    <3>3. InputOK("advance", h, bufferGet', headGet, tailGet, rxReady, rxData, typed, received)
      BY <1>2, <1>4, <1>5, <3>1, InputStored
    <3>4. SemOK("advance", charUnits, waiters, reader, n)
      BY <1>4, <1>5, <3>1, SemGoesOn
    <3>5. QED
      BY <1>4, <1>6, <3>1, <3>2, <3>3, <3>4
  <2>5. CASE GetterAdvance
    <3>1. /\ p = "advance" /\ pc' = [pc EXCEPT ![Getter] = "signal"]
          /\ headGet' = NextSlot(headGet)
          /\ UNCHANGED <<holds, bufferGet, tailGet, charUnits, waiters, reader>>
          /\ UNCHANGED <<rxReady, rxData, typed, received>>
      BY <1>4, <2>5 DEF GetterAdvance, Goto, Branch, semVars, deviceVars, historyVars
    <3>2. pc'[Getter] = "signal"
      BY <1>2, <1>3, <3>1
    <3>3. Count(headGet, tailGet) < NUM_OF_CHARS - 1
      <4>1. "advance" \in InHand
        BY DEF InHand
      <4>2. /\ bufferGet \in [Slots -> Int] /\ headGet \in Slots /\ tailGet \in Slots
            /\ typed \in Nat /\ received \in Seq(Int) /\ h \in Int /\ rxData \in Int
        BY <1>2, <1>4
      <4>3. InputOK("advance", h, bufferGet, headGet, tailGet, rxReady, rxData, typed, received)
        BY <1>5, <3>1
      <4>4. MaxAhead < NUM_OF_CHARS
        OBVIOUS
      <4>5. QED
        BY ONLY <4>1, <4>2, <4>3, <4>4, InputHasRoom, ZenonT(30)
    <3>4. /\ InputOK("signal", h, bufferGet, headGet', tailGet, rxReady, rxData, typed, received)
          /\ Count(headGet', tailGet) = n + 1
      BY <1>2, <1>4, <1>5, <3>1, <3>3, InputAdvanced, PutInRing
    <3>5. SemOK("signal", charUnits, waiters, reader, n + 1)
      BY <1>2, <1>4, <1>5, <3>1, SemGoesOn
    <3>6. QED
      BY <1>4, <1>6, <3>1, <3>2, <3>4, <3>5
  <2>6. CASE GetterSignal
    <3>1. /\ p = "signal" /\ pc' = [pc EXCEPT ![Getter] = "start"]
          /\ UNCHANGED <<holds, bufferGet, headGet, tailGet, rxReady, rxData, typed, received>>
      BY <1>4, <2>6 DEF GetterSignal, Goto, Branch, bufferVars, deviceVars, historyVars
    <3>2. pc'[Getter] = "start"
      BY <1>2, <1>3, <3>1
    <3>3. InputOK("start", h, bufferGet, headGet, tailGet, rxReady, rxData, typed, received)
      BY <1>5, <3>1, InputGoesOn DEF InHand
    <3>4. SemOK("start", charUnits', waiters', reader', n)
      <4>1. SemOK("signal", charUnits, waiters, reader, n)
        BY <1>5, <3>1
      <4>2. /\ waiters = <<>> => SemOK("start", charUnits + 1, waiters, reader, n)
            /\ waiters # <<>> => SemOK("start", charUnits, Tail(waiters),
                                       [reader EXCEPT ![Head(waiters)] = "granted"], n)
        BY ONLY <1>2, <1>4, <4>1, SemSignalled
      <4>3. CASE waiters = <<>>
        BY <2>6, <4>2, <4>3 DEF GetterSignal
      <4>4. CASE waiters # <<>>
        BY <2>6, <4>2, <4>4 DEF GetterSignal
      <4>5. QED
        BY <4>3, <4>4
    <3>5. QED
      BY <1>4, <1>6, <3>1, <3>2, <3>3, <3>4
  <2>7. QED
    BY <1>9, <2>1, <2>2, <2>3, <2>4, <2>5, <2>6 DEF GetterStep
<1>10. ASSUME NEW r \in Readers, ReaderStep(r) PROVE InputInv' /\ SemInv'
  <2>1. CASE Getc(r)
    <3>1. /\ charUnits > 0 /\ charUnits' = charUnits - 1 /\ TakeChar /\ UnchangedByGetc
          /\ UNCHANGED <<waiters, reader, pc>>
      BY <2>1 DEF Getc, UnchangedByGetc
    <3>2. n > 0 /\ SemOK(p, charUnits - 1, waiters, reader, n - 1)
      BY ONLY <1>2, <1>4, <1>5, <3>1, SemTaken
    <3>3. headGet # tailGet
      BY <1>2, <1>4, <3>2, CountOf
    <3>4. InputInv' /\ Count(headGet', tailGet') = n - 1
      BY <1>1, <1>4, <3>1, <3>3, InputTaken
    <3>5. QED
      BY <1>4, <1>6, <3>1, <3>2, <3>4
  <2>2. CASE GetcWaits(r)
    <3>1. /\ reader[r] = "idle" /\ waiters' = Append(waiters, r)
          /\ reader' = [reader EXCEPT ![r] = "waiting"]
          /\ UNCHANGED <<pc, holds, bufferGet, headGet, tailGet, rxReady, rxData, typed>>
          /\ UNCHANGED <<charUnits, received>>
      BY <2>2 DEF GetcWaits, UnchangedByGetc, deviceVars
    <3>2. SemOK(p, charUnits, waiters', reader', n)
      BY <1>2, <1>5, <1>10, <3>1, SemWaited
    <3>3. QED
      BY <1>4, <1>5, <1>6, <3>1, <3>2
  <2>3. CASE GetcGoesOn(r)
    <3>1. /\ reader[r] = "granted" /\ reader' = [reader EXCEPT ![r] = "idle"] /\ TakeChar
          /\ UnchangedByGetc /\ UNCHANGED <<charUnits, waiters, pc>>
      BY <2>3 DEF GetcGoesOn, UnchangedByGetc
    <3>2. n > 0 /\ SemOK(p, charUnits, waiters, reader', n - 1)
      BY ONLY <1>2, <1>4, <1>5, <1>10, <3>1, SemTaken
    <3>3. headGet # tailGet
      BY <1>2, <1>4, <3>2, CountOf
    <3>4. InputInv' /\ Count(headGet', tailGet') = n - 1
      BY <1>1, <1>4, <3>1, <3>3, InputTaken
    <3>5. QED
      BY <1>4, <1>6, <3>1, <3>2, <3>4
  <2>4. QED
    BY <1>10, <2>1, <2>2, <2>3 DEF ReaderStep
<1>11. CASE PutterStep
  BY <1>1, <1>4, <1>7, <1>11, PutterLeaves
<1>12. CASE Press
  <2>1. /\ ~rxReady /\ rxReady' /\ typed' = typed + 1 /\ rxData' = typed + 1
        /\ typed - Len(received) < MaxAhead
        /\ UNCHANGED <<pc, holds, bufferGet, headGet, tailGet, charUnits, waiters, reader>>
        /\ UNCHANGED received
    BY <1>12 DEF Press, Unread, bufferVars, semVars
  <2>2. InputOK(p, h, bufferGet, headGet, tailGet, rxReady', rxData', typed', received)
    <3>1. PICK next \in Nat : next = typed + 1
      BY <1>2
    <3>2. InputOK(p, h, bufferGet, headGet, tailGet, FALSE, rxData, typed, received)
      BY <1>5, <2>1 DEF InputOK, InputOf
    <3>3. typed - Len(received) < MaxAhead
      BY <2>1
    <3>4. InputOK(p, h, bufferGet, headGet, tailGet, TRUE, next, next, received)
      BY <1>2, <1>4, <3>1, <3>2, <3>3, InputPressed
    <3>5. InputOK(p, h, bufferGet, headGet, tailGet, rxReady', next, next, received)
      BY <2>1, <3>4 DEF InputOK, InputOf
    <3>6. QED
      BY <2>1, <3>1, <3>5
  <2>3. QED
    BY <1>4, <1>5, <1>6, <2>1, <2>2
<1>13. CASE Putc \/ MainStep \/ ConsoleInterrupt \/ Sent \/ UNCHANGED vars
  <2>1. /\ UNCHANGED <<pc, holds, bufferGet, headGet, tailGet, rxReady, rxData, typed>>
        /\ UNCHANGED <<charUnits, waiters, reader, received>>
    BY <1>13 DEF Putc, MainStep, KillServices, KillQEMU, PrintRest, Halt, ConsoleInterrupt,
                 Sent, PutCharInTerminal, vars, bufferVars, semVars, deviceVars, historyVars
  <2>2. QED
    BY <1>4, <1>7, <2>1
<1>14. QED
  BY <1>1, <1>9, <1>10, <1>11, <1>12, <1>13 DEF Next

\* The input, with the count of the semaphore.
GetInv == ConsoleTypeOK /\ InputInv /\ SemInv

LEMMA GetInvHolds ==
    ASSUME MaxAhead < NUM_OF_CHARS
    PROVE  Spec => []GetInv
<1>1. Init => GetInv
  BY ConsoleTypeInit, InputInvInit, SemInvInit DEF GetInv
<1>2. GetInv /\ [Next]_vars => GetInv'
  BY ConsoleTypeStep, InputStep DEF GetInv
<1>3. QED
  BY <1>1, <1>2, PTL DEF Spec

\* While the keyboard is not further ahead of the readers than the buffer is
\* long, no key is lost or reordered and getc never answers EOF (InputInOrder).
THEOREM KeysAreReadInOrder ==
    ASSUME MaxAhead < NUM_OF_CHARS
    PROVE  Spec => []InputInOrder
<1>1. GetInv => InputInOrder
  BY DEF GetInv, InputInv, InputOK, InputOf, InHand, InputInOrder, Held
<1>2. QED
  BY <1>1, GetInvHolds, PTL

\* And the semaphore counts the characters, so that getc waits if and only if
\* there is none for it (UnitsCountCharacters).
THEOREM SemaphoreCountsCharacters ==
    ASSUME MaxAhead < NUM_OF_CHARS
    PROVE  Spec => []UnitsCountCharacters
<1>1. GetInv => UnitsCountCharacters
  BY DEF GetInv, SemInv, SemOK, Granted, UnitsCountCharacters
<1>2. QED
  BY <1>1, GetInvHolds, PTL

-----------------------------------------------------------------------------
LEMMA NothingAtFirst ==
    ASSUME NEW buffer \in [Slots -> Int], NEW h \in Slots
    PROVE  Contents(buffer, h, h) = <<>> /\ Numbers(0) = <<>> /\ <<>> \o <<>> = <<>>
<1>1. Len(Contents(buffer, h, h)) = 0 /\ Contents(buffer, h, h) \in Seq(Int)
  BY CountOf, ContentsOf
<1>2. Len(Numbers(0)) = 0 /\ Numbers(0) \in Seq(Int)
  BY NumbersAre
<1>3. PICK e : e = <<>>
  OBVIOUS
<1>4. e \in Seq(Int)
  BY <1>3
<1>5. e \o <<>> = e
  BY <1>4, ConcatEmptySeq
<1>6. QED
  BY <1>1, <1>2, <1>3, <1>5

\* The output after what is printed or being sent: a character that only the
\* putter has, unless it was killed, and the buffer.
NotWritten(p, dead, h, buffer, head, tail) ==
    (IF p = "write" /\ ~dead THEN <<h>> ELSE <<>>) \o Contents(buffer, head, tail)

Output ==
    (printed \o InRegister)
        \o NotWritten(pc[Putter], Killed, holds[Putter], bufferPrint, headPrint, tailPrint)

Gone == Lost \cup replaced

\* The putter has seen that the terminal is ready, and has not written yet.
HasSeenReady == {"notEmpty", "load", "advance", "write"}

\* A register that was sent is empty, and stays so until the putter writes: only
\* an echo, which is no character of putc, may come in between.
RegisterInv ==
    /\ txReady => txData = 0
    /\ ~Killed /\ pc[Putter] \in HasSeenReady => txData = 0

PutterInv ==
    ~Killed => /\ pc[Putter] \in {"load", "advance"} => headPrint # tailPrint
               /\ pc[Putter] = "advance" => bufferPrint[tailPrint] = holds[Putter]

\* Nothing twice, nothing out of order, and nothing missing but what is gone.
IsOutput(output, count, gone) ==
    /\ output \in Seq(Int)
    /\ gone \subseteq 1..count
    /\ Increasing(output)
    /\ ToSet(output) = (1..count) \ gone

OutputInv == RegisterInv /\ PutterInv /\ IsOutput(Output, accepted, Gone)

\* The next number comes last.
LEMMA OutputGrows ==
    ASSUME NEW output, NEW count \in Nat, NEW gone, IsOutput(output, count, gone),
           NEW next \in Nat, next = count + 1
    PROVE  IsOutput(Append(output, next), next, gone)
<1>1. PICK a, n : a = Append(output, next) /\ n = Len(output) /\ n \in Nat
  BY LenProperties DEF IsOutput
<1>2. /\ a \in Seq(Int) /\ Len(a) = n + 1 /\ a[n + 1] = next
      /\ \A i \in 1..n : a[i] = output[i]
  BY <1>1, AppendProperties DEF IsOutput
<1>3. ToSet(a) = ToSet(output) \cup {next}
  BY <1>1, AppendList DEF IsOutput
<1>4. ToSet(a) = (1..next) \ gone /\ gone \subseteq 1..next
  BY <1>3 DEF IsOutput
<1>5. ASSUME NEW i \in 1..Len(a), NEW j \in 1..Len(a), i < j PROVE a[i] < a[j]
  <2>1. i \in 1..n /\ a[i] = output[i]
    BY <1>1, <1>2, <1>5
  <2>2. CASE j = n + 1
    <3>1. output[i] \in 1..count
      <4>1. output[i] \in ToSet(output)
        BY <1>1, <2>1, InList DEF IsOutput
      <4>2. QED
        BY <4>1 DEF IsOutput
    <3>2. QED
      BY <1>2, <2>1, <2>2, <3>1
  <2>3. CASE j # n + 1
    <3>1. j \in 1..n /\ a[j] = output[j] /\ output[i] < output[j]
      BY <1>1, <1>2, <1>5, <2>1, <2>3 DEF IsOutput, Increasing
    <3>2. QED
      BY <2>1, <3>1
  <2>4. QED
    BY <2>2, <2>3
<1>6. QED
  BY <1>1, <1>2, <1>4, <1>5 DEF IsOutput, Increasing

\* A character in the middle goes.
LEMMA OutputShrinks ==
    ASSUME NEW a \in Seq(Int), NEW b \in Seq(Int), NEW x \in Int, NEW count \in Nat,
           NEW gone, IsOutput((a \o <<x>>) \o b, count, gone)
    PROVE  x \in 1..count /\ IsOutput(a \o b, count, gone \cup {x})
<1>1. PICK c, d, m, n : /\ c = (a \o <<x>>) \o b /\ d = a \o b
                        /\ m = Len(a) /\ n = Len(b) /\ m \in Nat /\ n \in Nat
  BY LenProperties
<1>2. c = Append(a, x) \o b /\ Append(a, x) \in Seq(Int)
  BY <1>1, MoveOver
<1>3. /\ Len(Append(a, x)) = m + 1 /\ Append(a, x)[m + 1] = x
      /\ \A i \in 1..m : Append(a, x)[i] = a[i]
  BY <1>1, AppendProperties
<1>4. /\ c \in Seq(Int) /\ Len(c) = m + 1 + n
      /\ \A i \in 1..m + 1 + n :
             c[i] = IF i <= m + 1 THEN Append(a, x)[i] ELSE b[i - (m + 1)]
  BY <1>1, <1>2, <1>3, ConcatProperties
<1>5. /\ d \in Seq(Int) /\ Len(d) = m + n
      /\ \A i \in 1..m + n : d[i] = IF i <= m THEN a[i] ELSE b[i - m]
  BY <1>1, ConcatProperties
<1>6. c[m + 1] = x /\ m + 1 \in 1..Len(c)
  BY <1>1, <1>3, <1>4
<1>7. ASSUME NEW i \in 1..m + n
      PROVE  d[i] = c[IF i <= m THEN i ELSE i + 1]
  <2>1. CASE i <= m
    <3>1. i \in 1..m /\ i \in 1..m + 1 + n
      BY <1>1, <2>1
    <3>2. QED
      BY <1>1, <1>3, <1>4, <1>5, <2>1, <3>1
  <2>2. CASE ~(i <= m)
    <3>1. PICK j \in 1..m + 1 + n : j = i + 1
      BY <1>1, <2>2
    <3>2. ~(j <= m + 1) /\ j - (m + 1) = i - m
      BY <1>1, <2>2, <3>1
    <3>3. c[j] = b[i - m]
      BY <1>4, <3>2
    <3>4. QED
      BY <1>5, <2>2, <3>1, <3>3
  <2>3. QED
    BY <2>1, <2>2
<1>8. \A i, j \in 1..Len(c) : i < j => c[i] < c[j]
  BY <1>1 DEF IsOutput, Increasing
<1>9. Increasing(d)
  <2>1. ASSUME NEW i \in 1..m + n, NEW j \in 1..m + n, i < j PROVE d[i] < d[j]
    <3>1. PICK k \in 1..m + 1 + n, l \in 1..m + 1 + n :
              /\ k = IF i <= m THEN i ELSE i + 1
              /\ l = IF j <= m THEN j ELSE j + 1
      BY <1>1
    <3>2. k < l
      BY <1>1, <2>1, <3>1
    <3>3. c[k] < c[l]
      BY <1>4, <1>8, <3>2
    <3>4. d[i] = c[k] /\ d[j] = c[l]
      BY <1>7, <3>1
    <3>5. QED
      BY <3>3, <3>4
  <2>2. QED
    BY <1>5, <2>1 DEF Increasing
<1>10. ToSet(d) = ToSet(c) \ {x}
  <2>1. ASSUME NEW y \in ToSet(d) PROVE y \in ToSet(c) \ {x}
    <3>1. PICK i \in 1..m + n : d[i] = y
      BY <1>5, InList
    <3>2. PICK k \in 1..m + 1 + n : k = IF i <= m THEN i ELSE i + 1
      BY <1>1
    <3>3. k \in 1..Len(c) /\ c[k] = y
      BY <1>4, <1>7, <3>1, <3>2
    <3>4. k # m + 1 /\ (k < m + 1 \/ m + 1 < k)
      BY <1>1, <3>2
    <3>5. c[k] < c[m + 1] \/ c[m + 1] < c[k]
      BY <1>6, <1>8, <3>3, <3>4
    <3>6. c[k] \in Int
      BY <1>4, <3>3
    <3>7. y # x
      BY <1>6, <3>3, <3>5, <3>6
    <3>8. QED
      BY <1>4, <3>3, <3>7, InList
  <2>2. ASSUME NEW y \in ToSet(c) \ {x} PROVE y \in ToSet(d)
    <3>1. PICK k \in 1..m + 1 + n : c[k] = y /\ k # m + 1
      <4>1. PICK l \in 1..Len(c) : c[l] = y
        BY <1>4, InList
      <4>2. l \in 1..m + 1 + n /\ l # m + 1
        BY <1>4, <1>6, <4>1
      <4>3. QED
        BY <4>1, <4>2
    <3>2. PICK i \in 1..m + n : i = IF k <= m THEN k ELSE k - 1
      BY <1>1, <3>1
    <3>3. k = IF i <= m THEN i ELSE i + 1
      BY <1>1, <3>1, <3>2
    <3>4. d[i] = y
      BY <1>7, <3>1, <3>3
    <3>5. QED
      BY <1>5, <3>4, InList
  <2>3. QED
    BY <2>1, <2>2
<1>11. x \in ToSet(c)
  BY <1>4, <1>6, InList
<1>12. ToSet(c) = (1..count) \ gone /\ gone \subseteq 1..count
  BY <1>1 DEF IsOutput
<1>13. ToSet(d) = (1..count) \ (gone \cup {x}) /\ x \in 1..count
  BY <1>10, <1>11, <1>12
<1>14. QED
  BY <1>1, <1>5, <1>9, <1>12, <1>13 DEF IsOutput

\* The first of what is not written goes to the register, which was empty.
LEMMA OutputMoves ==
    ASSUME NEW a \in Seq(Int), NEW b \in Seq(Int), NEW x \in Int
    PROVE  (a \o <<>>) \o (<<x>> \o b) = (a \o <<x>>) \o b
<1>1. PICK c, d : c = <<x>> \o b /\ d = Append(a, x)
  OBVIOUS
<1>2. a \o <<>> = a /\ a \o <<x>> = d /\ d \o b = a \o c
  BY <1>1, MoveOver
<1>3. (a \o <<>>) \o c = (a \o <<x>>) \o b
  BY <1>2
<1>4. QED
  BY <1>1, <1>3

LEMMA OutputInvInit == Init => OutputInv
<1>1. SUFFICES ASSUME Init PROVE OutputInv
  OBVIOUS
<1>2. /\ pc[Putter] = "start" /\ headPrint = 0 /\ tailPrint = 0 /\ accepted = 0
      /\ printed = <<>> /\ txData = 0 /\ replaced = {}
      /\ ~Killed /\ 0 \in Slots /\ bufferPrint \in [Slots -> Int]
  BY <1>1, ConsoleAssumption DEF Init, Services, Slots, Killed
<1>3. PICK e : e = <<>>
  OBVIOUS
<1>4. Contents(bufferPrint, 0, 0) = e /\ e \o e = e
  BY <1>2, <1>3, NothingAtFirst
<1>5. Output = (e \o e) \o (e \o e)
  BY <1>2, <1>3, <1>4 DEF Output, InRegister, NotWritten
<1>6. Output = e /\ e \in Seq(Int) /\ Len(e) = 0 /\ ToSet(e) = {}
  BY <1>3, <1>4, <1>5 DEF ToSet
<1>7. Gone = {}
  BY <1>2 DEF Gone, Lost
<1>8. QED
  BY <1>2, <1>6, <1>7
     DEF OutputInv, RegisterInv, PutterInv, HasSeenReady, IsOutput, Increasing

\* A character that is put in a buffer that is not full comes last, and no
\* other slot changes.
LEMMA PutNew ==
    ASSUME NEW buffer \in [Slots -> Int], NEW h \in Slots, NEW t \in Slots,
           NEW new \in [Slots -> Int], \A s \in Slots : s # h => new[s] = buffer[s],
           NextSlot(h) # t
    PROVE  Contents(new, NextSlot(h), t) = Append(Contents(buffer, h, t), new[h])
<1>1. Contents(new, h, t) = Contents(buffer, h, t)
  BY WriteToRing
<1>2. Count(h, t) < NUM_OF_CHARS - 1
  <2>1. /\ NextSlot(h) = IF h = NUM_OF_CHARS - 1 THEN 0 ELSE h + 1
        /\ Count(h, t) = IF h >= t THEN h - t ELSE h - t + NUM_OF_CHARS
        /\ h \in Nat /\ t \in Nat /\ NUM_OF_CHARS \in Nat /\ h < NUM_OF_CHARS
        /\ t < NUM_OF_CHARS
    BY NextOf, CountOf, SlotType
  <2>2. CASE h = NUM_OF_CHARS - 1
    BY <2>1, <2>2
  <2>3. CASE h # NUM_OF_CHARS - 1
    BY <2>1, <2>3
  <2>4. QED
    BY <2>2, <2>3
<1>3. QED
  BY <1>1, <1>2, PutInRing

\* What has a character of putc has sequences of numbers.
LEMMA OutputTypes ==
    ASSUME ConsoleTypeOK
    PROVE  /\ printed \in Seq(Int) /\ InRegister \in Seq(Int)
           /\ printed \o InRegister \in Seq(Int)
           /\ Contents(bufferPrint, headPrint, tailPrint) \in Seq(Int)
           /\ \A p, dead : NotWritten(p, dead, holds[Putter], bufferPrint, headPrint, tailPrint)
                               \in Seq(Int)
<1>1. /\ printed \in Seq(Int) /\ txData \in Int /\ holds[Putter] \in Int
      /\ bufferPrint \in [Slots -> Int] /\ headPrint \in Slots /\ tailPrint \in Slots
  BY DEF ConsoleTypeOK, Services
<1>2. InRegister \in Seq(Int)
  BY <1>1 DEF InRegister
<1>3. Contents(bufferPrint, headPrint, tailPrint) \in Seq(Int)
  BY <1>1, ContentsOf
<1>4. printed \o InRegister \in Seq(Int)
  BY <1>1, <1>2, ConcatProperties
<1>5. ASSUME NEW p, NEW dead
      PROVE  NotWritten(p, dead, holds[Putter], bufferPrint, headPrint, tailPrint) \in Seq(Int)
  <2>1. PICK e : e = IF p = "write" /\ ~dead THEN <<holds[Putter]>> ELSE <<>>
    OBVIOUS
  <2>2. e \in Seq(Int)
    BY <1>1, <2>1
  <2>3. e \o Contents(bufferPrint, headPrint, tailPrint) \in Seq(Int)
    BY <1>3, <2>2, ConcatProperties
  <2>4. QED
    BY <2>1, <2>3 DEF NotWritten
<1>6. QED
  BY <1>1, <1>2, <1>3, <1>4, <1>5

\* What the output is made of decides whether it is in order.
LEMMA OutputSame ==
    ASSUME OutputInv, Output' = Output, accepted' = accepted, Gone' = Gone,
           RegisterInv', PutterInv'
    PROVE  OutputInv'
  BY DEF OutputInv

\* The first character of what is not written is written to the empty register.
LEMMA OutputWritten ==
    ASSUME ConsoleTypeOK, NEW x \in Int, NEW rest \in Seq(Int), IsOutput(Output, accepted, Gone),
           NotWritten(pc[Putter], Killed, holds[Putter], bufferPrint, headPrint, tailPrint)
               = <<x>> \o rest,
           NotWritten(pc'[Putter], Killed', holds'[Putter], bufferPrint', headPrint', tailPrint')
               = rest,
           txData = 0, txData' = x, printed' = printed
    PROVE  Output' = Output
<1>1. InRegister = <<>>
  BY DEF InRegister
<1>2. Output = (printed \o <<>>) \o (<<x>> \o rest)
  BY <1>1 DEF Output
<1>3. printed \in Seq(Int)
  BY DEF ConsoleTypeOK
<1>4. Output = (printed \o <<x>>) \o rest
  BY <1>2, <1>3, OutputMoves
<1>5. x # 0
  <2>1. accepted \in Nat
    BY DEF ConsoleTypeOK
  <2>2. x \in 1..accepted
    BY <1>3, <1>4, <2>1, OutputShrinks
  <2>3. QED
    BY <2>1, <2>2
<1>6. InRegister' = <<x>>
  BY <1>5 DEF InRegister
<1>7. Output' = (printed \o <<x>>) \o rest
  BY <1>6 DEF Output
<1>8. QED
  BY <1>4, <1>7

\* A step of the putter.
LEMMA OutputPutterStep ==
    ASSUME ConsoleTypeOK, OutputInv, PutterStep
    PROVE  OutputInv'
<1>1. Putter \in Services /\ pc \in [Services -> Labels] /\ holds \in [Services -> Int]
  BY DEF Services, ConsoleTypeOK
<1>2. /\ bufferPrint \in [Slots -> Int] /\ headPrint \in Slots /\ tailPrint \in Slots
      /\ RegisterInv /\ PutterInv /\ IsOutput(Output, accepted, Gone)
  BY DEF ConsoleTypeOK, OutputInv
<1>3. ~Killed /\ ~Killed'
  BY DEF PutterStep, PutterReady, PutterNotEmpty, PutterLoad, PutterAdvance, PutterWrite,
         Finish, CheckReceive, CheckTransfer, CheckInterrupt, ResetInterrupt, PlicComplete,
         Test, Goto, Branch, Killed
<1>4. Gone = replaced /\ Gone' = replaced'
  BY <1>3 DEF Gone, Lost
<1>5. ASSUME pc[Putter] # "write", pc'[Putter] # "write", tailPrint' = tailPrint,
             UNCHANGED <<headPrint, bufferPrint, txData, printed, accepted, replaced>>
      PROVE  Output' = Output /\ accepted' = accepted /\ Gone' = Gone
  BY <1>4, <1>5 DEF Output, NotWritten, InRegister
<1>6. CASE PutterReady
  <2>1. /\ pc[Putter] = "start" /\ tailPrint' = tailPrint
        /\ pc'[Putter] \in {"notEmpty", "checkReceive"} /\ (pc'[Putter] = "notEmpty" => txReady)
        /\ UNCHANGED <<headPrint, bufferPrint, txReady, txData, printed, accepted, replaced>>
    BY <1>1, <1>6 DEF PutterReady, Test, Branch, bufferVars, deviceVars, historyVars
  <2>2. RegisterInv' /\ PutterInv'
    BY <1>2, <2>1 DEF RegisterInv, PutterInv, HasSeenReady
  <2>3. QED
    BY <1>5, <2>1, <2>2, OutputSame
<1>7. CASE PutterNotEmpty
  <2>1. /\ pc[Putter] = "notEmpty" /\ tailPrint' = tailPrint
        /\ pc'[Putter] \in {"load", "checkReceive"}
        /\ (pc'[Putter] = "load" => headPrint # tailPrint)
        /\ UNCHANGED <<headPrint, bufferPrint, txReady, txData, printed, accepted, replaced>>
    BY <1>1, <1>7 DEF PutterNotEmpty, Test, Branch, bufferVars, deviceVars, historyVars
  <2>2. RegisterInv' /\ PutterInv'
    BY <1>2, <1>3, <2>1 DEF RegisterInv, PutterInv, HasSeenReady
  <2>3. QED
    BY <1>5, <2>1, <2>2, OutputSame
<1>8. CASE PutterLoad
  <2>1. /\ pc[Putter] = "load" /\ tailPrint' = tailPrint /\ pc'[Putter] = "advance"
        /\ holds'[Putter] = bufferPrint[tailPrint]
        /\ UNCHANGED <<headPrint, bufferPrint, txReady, txData, printed, accepted, replaced>>
    BY <1>1, <1>8 DEF PutterLoad, Goto, Branch, bufferVars, deviceVars, historyVars
  <2>2. RegisterInv' /\ PutterInv'
    BY <1>2, <1>3, <2>1 DEF RegisterInv, PutterInv, HasSeenReady
  <2>3. QED
    BY <1>5, <2>1, <2>2, OutputSame
<1>9. CASE PutterAdvance
  <2>1. /\ pc[Putter] = "advance" /\ tailPrint' = NextSlot(tailPrint) /\ pc'[Putter] = "write"
        /\ holds' = holds
        /\ UNCHANGED <<headPrint, bufferPrint, txReady, txData, printed, accepted, replaced>>
    BY <1>1, <1>9 DEF PutterAdvance, Goto, Branch, bufferVars, deviceVars, historyVars
  <2>2. headPrint # tailPrint /\ bufferPrint[tailPrint] = holds[Putter]
    BY <1>2, <1>3, <2>1 DEF PutterInv
  <2>3. PICK a, b, h : /\ a = Contents(bufferPrint, headPrint, tailPrint)
                       /\ b = Contents(bufferPrint, headPrint, NextSlot(tailPrint))
                       /\ h = holds[Putter]
    OBVIOUS
  <2>4. a = <<h>> \o b /\ a \in Seq(Int)
    BY <1>2, <2>2, <2>3, TakeFromRing, ContentsOf
  <2>5. NotWritten(pc[Putter], Killed, holds[Putter], bufferPrint, headPrint, tailPrint) = a
    <3>1. <<>> \o a = a
      BY <2>4, ConcatEmptySeq
    <3>2. QED
      BY <2>1, <2>3, <3>1 DEF NotWritten
  <2>6. NotWritten(pc'[Putter], Killed', holds'[Putter], bufferPrint', headPrint', tailPrint')
            = <<h>> \o b
    BY <1>3, <2>1, <2>3 DEF NotWritten
  <2>7. InRegister' = InRegister
    BY <2>1 DEF InRegister
  <2>8. Output' = Output
    BY <2>1, <2>4, <2>5, <2>6, <2>7 DEF Output
  <2>9. RegisterInv' /\ PutterInv'
    BY <1>2, <1>3, <2>1 DEF RegisterInv, PutterInv, HasSeenReady
  <2>10. QED
    BY <1>4, <2>1, <2>8, <2>9, OutputSame
<1>10. CASE PutterWrite
  <2>1. /\ pc[Putter] = "write" /\ pc'[Putter] = "start" /\ ~txReady' /\ txData' = holds[Putter]
        /\ replaced' = replaced \cup ({txData} \ {0})
        /\ UNCHANGED <<holds, headPrint, tailPrint, bufferPrint, printed, accepted>>
    BY <1>1, <1>10 DEF PutterWrite, PutCharInTerminal, Goto, Branch, bufferVars
  <2>2. txData = 0
    BY <1>2, <1>3, <2>1 DEF RegisterInv, HasSeenReady
  <2>3. PICK b, h : b = Contents(bufferPrint, headPrint, tailPrint) /\ h = holds[Putter]
    OBVIOUS
  <2>4. b \in Seq(Int) /\ h \in Int
    BY <1>1, <1>2, <2>3, ContentsOf
  <2>5. NotWritten(pc[Putter], Killed, holds[Putter], bufferPrint, headPrint, tailPrint)
            = <<h>> \o b
    BY <1>3, <2>1, <2>3 DEF NotWritten
  <2>6. NotWritten(pc'[Putter], Killed', holds'[Putter], bufferPrint', headPrint', tailPrint') = b
    <3>1. <<>> \o b = b
      BY <2>4, ConcatEmptySeq
    <3>2. QED
      BY <2>1, <2>3, <3>1 DEF NotWritten
  <2>7. Output' = Output
    BY <1>2, <2>1, <2>2, <2>3, <2>4, <2>5, <2>6, OutputWritten
  <2>8. RegisterInv' /\ PutterInv'
    BY <2>1 DEF RegisterInv, PutterInv, HasSeenReady
  <2>9. Gone' = Gone
    BY <1>4, <2>1, <2>2
  <2>10. QED
    BY <2>1, <2>7, <2>8, <2>9, OutputSame
<1>11. CASE Finish(Putter)
  <2>1. /\ pc[Putter] \notin {"write", "notEmpty", "load", "advance"}
        /\ pc'[Putter] \notin {"write", "notEmpty", "load", "advance"}
        /\ tailPrint' = tailPrint
        /\ UNCHANGED <<headPrint, bufferPrint, txReady, txData, printed, accepted, replaced>>
    BY <1>1, <1>11
       DEF Finish, CheckReceive, CheckTransfer, CheckInterrupt, ResetInterrupt, PlicComplete,
           Test, Goto, Branch, bufferVars, deviceVars, historyVars
  <2>2. RegisterInv' /\ PutterInv'
    BY <1>2, <2>1 DEF RegisterInv, PutterInv, HasSeenReady
  <2>3. QED
    BY <1>5, <2>1, <2>2, OutputSame
<1>12. QED
  BY <1>6, <1>7, <1>8, <1>9, <1>10, <1>11 DEF PutterStep

\* A step of the getter: its echo may replace a character that is being sent.
LEMMA OutputGetterStep ==
    ASSUME ConsoleTypeOK, OutputInv, GetterStep
    PROVE  OutputInv'
<1>1. /\ pc'[Putter] = pc[Putter] /\ holds'[Putter] = holds[Putter]
      /\ UNCHANGED <<bufferPrint, headPrint, tailPrint, accepted, printed, mainPc>>
      /\ GetterEcho \/ UNCHANGED <<txReady, txData, replaced>>
  BY GetterLeaves
<1>2. RegisterInv /\ PutterInv /\ IsOutput(Output, accepted, Gone)
  BY DEF OutputInv
<1>3. PutterInv'
  BY <1>1, <1>2 DEF PutterInv, Killed
<1>4. Lost' = Lost
  BY <1>1 DEF Lost, Killed
<1>5. CASE UNCHANGED <<txReady, txData, replaced>>
  <2>1. Output' = Output
    BY <1>1, <1>5 DEF Output, NotWritten, InRegister, Killed
  <2>2. RegisterInv'
    BY <1>1, <1>2, <1>5 DEF RegisterInv, Killed
  <2>3. Gone' = Gone
    BY <1>4, <1>5 DEF Gone
  <2>4. QED
    BY <1>1, <1>3, <2>1, <2>2, <2>3, OutputSame
<1>6. CASE GetterEcho
  <2>1. ~txReady' /\ txData' = 0 /\ replaced' = replaced \cup ({txData} \ {0})
    BY <1>6 DEF GetterEcho, PutCharInTerminal
  <2>2. RegisterInv'
    BY <2>1 DEF RegisterInv
  <2>3. PICK rest, r, x :
            /\ rest = NotWritten(pc[Putter], Killed, holds[Putter], bufferPrint, headPrint,
                                 tailPrint)
            /\ r = InRegister /\ x = txData
    OBVIOUS
  <2>4. rest \in Seq(Int) /\ printed \in Seq(Int) /\ x \in Int /\ accepted \in Nat
    BY <2>3, OutputTypes DEF ConsoleTypeOK
  <2>5. Output = (printed \o r) \o rest
    BY <2>3 DEF Output
  <2>6. Output' = (printed \o <<>>) \o rest
    BY <1>1, <2>1, <2>3 DEF Output, NotWritten, InRegister, Killed
  <2>7. CASE x = 0
    <3>1. Output' = Output
      BY <2>3, <2>5, <2>6, <2>7 DEF InRegister
    <3>2. Gone' = Gone
      BY <1>4, <2>1, <2>3, <2>7 DEF Gone
    <3>3. QED
      BY <1>1, <1>3, <2>2, <3>1, <3>2, OutputSame
  <2>8. CASE x # 0
    <3>1. r = <<x>>
      BY <2>3, <2>8 DEF InRegister
    <3>2. IsOutput((printed \o <<x>>) \o rest, accepted, Gone)
      BY <1>2, <2>5, <3>1
    <3>3. IsOutput(printed \o rest, accepted, Gone \cup {x})
      BY <2>4, <3>2, OutputShrinks
    <3>4. Output' = printed \o rest
      BY <2>4, <2>6, MoveOver
    <3>5. Gone' = Gone \cup {x}
      BY <1>4, <2>1, <2>3, <2>8 DEF Gone
    <3>6. IsOutput(Output', accepted', Gone')
      BY <1>1, <3>3, <3>4, <3>5
    <3>7. QED
      BY <1>3, <2>2, <3>6 DEF OutputInv
  <2>9. QED
    BY <2>7, <2>8
<1>7. QED
  BY <1>1, <1>5, <1>6

\* putc.
LEMMA OutputPutc ==
    ASSUME ConsoleTypeOK, OutputInv, Putc
    PROVE  OutputInv'
<1>1. /\ bufferPrint \in [Slots -> Int] /\ headPrint \in Slots /\ tailPrint \in Slots
      /\ accepted \in Nat /\ holds[Putter] \in Int
      /\ RegisterInv /\ PutterInv /\ IsOutput(Output, accepted, Gone)
  BY DEF ConsoleTypeOK, OutputInv, Services
<1>2. PICK next \in Nat : next = accepted + 1
  BY <1>1
<1>3. /\ NextSlot(headPrint) # tailPrint /\ accepted' = next
      /\ bufferPrint' = [bufferPrint EXCEPT ![headPrint] = next]
      /\ headPrint' = NextSlot(headPrint)
      /\ UNCHANGED <<pc, holds, tailPrint, mainPc, txReady, txData, printed, replaced>>
  BY <1>2 DEF Putc, BufferFull, deviceVars
<1>4. /\ bufferPrint' \in [Slots -> Int] /\ bufferPrint'[headPrint] = next
      /\ \A s \in Slots : s # headPrint => bufferPrint'[s] = bufferPrint[s]
  BY <1>1, <1>2, <1>3
<1>5. PICK a, b, e, first :
          /\ a = Contents(bufferPrint, headPrint, tailPrint)
          /\ b = Contents(bufferPrint', headPrint', tailPrint)
          /\ e = IF pc[Putter] = "write" /\ ~Killed THEN <<holds[Putter]>> ELSE <<>>
          /\ first = printed \o InRegister
  OBVIOUS
<1>6. b = Append(a, next)
  BY <1>1, <1>3, <1>4, <1>5, PutNew
<1>7. a \in Seq(Int) /\ first \in Seq(Int) /\ e \in Seq(Int)
  BY <1>1, <1>5, OutputTypes
<1>8. PICK rest : rest = e \o a
  OBVIOUS
<1>9. Output = first \o rest
  BY <1>5, <1>8 DEF Output, NotWritten
<1>10. Output' = first \o (e \o b)
  BY <1>3, <1>5 DEF Output, NotWritten, InRegister, Killed
<1>11. rest \in Seq(Int) /\ e \o b = Append(rest, next)
  BY <1>6, <1>7, <1>8, MoveOver
<1>12. Output' = Append(Output, next)
  <2>1. first \in Seq(Int) /\ rest \in Seq(Int) /\ next \in Int
    BY <1>7, <1>11
  <2>2. first \o Append(rest, next) = Append(first \o rest, next)
    BY ONLY <2>1, MoveOver
  <2>3. QED
    BY <1>9, <1>10, <1>11, <2>2
<1>13. Gone' = Gone
  BY <1>3 DEF Gone, Lost, Killed
<1>14. IsOutput(Output', accepted', Gone')
  BY <1>1, <1>2, <1>3, <1>12, <1>13, OutputGrows
<1>15. RegisterInv' /\ PutterInv'
  <2>1. RegisterInv'
    BY <1>1, <1>3 DEF RegisterInv, Killed
  <2>2. ASSUME ~Killed, pc[Putter] \in {"load", "advance"}
        PROVE  /\ headPrint' # tailPrint
               /\ pc[Putter] = "advance" => bufferPrint'[tailPrint] = holds[Putter]
    BY <1>1, <1>3, <1>4, <2>2 DEF PutterInv
  <2>3. PutterInv'
    BY <1>3, <2>2 DEF PutterInv, Killed
  <2>4. QED
    BY <2>1, <2>3
<1>16. QED
  BY <1>14, <1>15 DEF OutputInv

\* main() kills the putter when the buffer is empty: what it has in its hand is
\* lost.  Later it writes what is put in the buffer until it halts.
LEMMA OutputMainStep ==
    ASSUME ConsoleTypeOK, OutputInv, MainStep
    PROVE  OutputInv'
<1>1. /\ bufferPrint \in [Slots -> Int] /\ headPrint \in Slots /\ tailPrint \in Slots
      /\ accepted \in Nat /\ holds[Putter] \in Int
      /\ RegisterInv /\ PutterInv /\ IsOutput(Output, accepted, Gone)
  BY DEF ConsoleTypeOK, OutputInv, Services
<1>2. PICK a, h : a = Contents(bufferPrint, headPrint, tailPrint) /\ h = holds[Putter]
  OBVIOUS
<1>3. a \in Seq(Int) /\ h \in Int
  BY <1>1, <1>2, ContentsOf
<1>4. CASE KillServices
  <2>1. /\ ~Killed /\ Killed' /\ headPrint = tailPrint
        /\ UNCHANGED <<pc, holds, bufferPrint, headPrint, tailPrint, txReady, txData, printed>>
        /\ UNCHANGED <<accepted, replaced>>
    BY <1>4 DEF KillServices, Killed, bufferVars, deviceVars, historyVars
  <2>2. RegisterInv' /\ PutterInv'
    BY <1>1, <2>1 DEF RegisterInv, PutterInv
  <2>3. PICK first : first = printed \o InRegister
    OBVIOUS
  <2>4. first \in Seq(Int)
    BY <2>3, OutputTypes
  <2>5. Output' = first \o (<<>> \o a)
    BY <1>2, <2>1, <2>3 DEF Output, NotWritten, InRegister
  <2>6. CASE pc[Putter] = "write"
    <3>1. Output = first \o (<<h>> \o a)
      BY <1>2, <2>1, <2>3, <2>6 DEF Output, NotWritten
    <3>2. Output = (first \o <<h>>) \o a
      BY <1>3, <2>4, <3>1, MoveOver
    <3>3. IsOutput((first \o <<h>>) \o a, accepted, Gone)
      BY <1>1, <3>2
    <3>4. IsOutput(first \o a, accepted, Gone \cup {h})
      BY <1>1, <1>3, <2>4, <3>3, OutputShrinks
    <3>5. Output' = first \o a
      <4>1. <<>> \o a = a
        BY <1>3, ConcatEmptySeq
      <4>2. QED
        BY <2>5, <4>1
    <3>6. Gone' = Gone \cup {h}
      BY <1>2, <2>1, <2>6 DEF Gone, Lost
    <3>7. IsOutput(Output', accepted', Gone')
      BY <2>1, <3>4, <3>5, <3>6
    <3>8. QED
      BY <2>2, <3>7 DEF OutputInv
  <2>7. CASE pc[Putter] # "write"
    <3>1. Output' = Output
      BY <1>2, <2>3, <2>5, <2>7 DEF Output, NotWritten
    <3>2. Gone' = Gone
      BY <2>1, <2>7 DEF Gone, Lost
    <3>3. QED
      BY <2>1, <2>2, <3>1, <3>2, OutputSame
  <2>8. QED
    BY <2>6, <2>7
<1>5. CASE KillQEMU \/ Halt
  <2>1. /\ Killed /\ Killed'
        /\ UNCHANGED <<pc, holds, bufferPrint, headPrint, tailPrint, txReady, txData, printed>>
        /\ UNCHANGED <<accepted, replaced>>
    BY <1>5 DEF KillQEMU, Halt, Killed, bufferVars, deviceVars, historyVars
  <2>2. Output' = Output /\ Gone' = Gone
    BY <2>1 DEF Output, NotWritten, InRegister, Gone, Lost
  <2>3. RegisterInv' /\ PutterInv'
    BY <1>1, <2>1 DEF RegisterInv, PutterInv
  <2>4. QED
    BY <2>1, <2>2, <2>3, OutputSame
<1>6. CASE PrintRest
  <2>1. /\ Killed /\ Killed' /\ headPrint # tailPrint /\ txReady /\ ~txReady'
        /\ txData' = bufferPrint[tailPrint] /\ tailPrint' = NextSlot(tailPrint)
        /\ replaced' = replaced \cup ({txData} \ {0})
        /\ UNCHANGED <<pc, holds, bufferPrint, headPrint, printed, accepted>>
    BY <1>6 DEF PrintRest, PutCharInTerminal, Killed
  <2>2. txData = 0
    BY <1>1, <2>1 DEF RegisterInv
  <2>3. PICK b, x : /\ b = Contents(bufferPrint, headPrint, NextSlot(tailPrint))
                    /\ x = bufferPrint[tailPrint]
    OBVIOUS
  <2>4. a = <<x>> \o b /\ x \in Int /\ b \in Seq(Int)
    <3>1. NextSlot(tailPrint) \in Slots
      BY <1>1, NextOf
    <3>2. QED
      BY <1>1, <1>2, <2>1, <2>3, <3>1, TakeFromRing, ContentsOf
  <2>5. NotWritten(pc[Putter], Killed, holds[Putter], bufferPrint, headPrint, tailPrint)
            = <<x>> \o b
    <3>1. <<>> \o a = a
      BY <1>3, ConcatEmptySeq
    <3>2. QED
      BY <1>2, <2>1, <2>4, <3>1 DEF NotWritten
  <2>6. NotWritten(pc'[Putter], Killed', holds'[Putter], bufferPrint', headPrint', tailPrint') = b
    <3>1. <<>> \o b = b
      BY <2>4, ConcatEmptySeq
    <3>2. QED
      BY <2>1, <2>3, <3>1 DEF NotWritten
  <2>7. Output' = Output
    BY <1>1, <2>1, <2>2, <2>3, <2>4, <2>5, <2>6, OutputWritten
  <2>8. RegisterInv' /\ PutterInv'
    BY <2>1 DEF RegisterInv, PutterInv
  <2>9. Gone' = Gone
    BY <2>1, <2>2 DEF Gone, Lost
  <2>10. QED
    BY <2>1, <2>7, <2>8, <2>9, OutputSame
<1>7. QED
  BY <1>4, <1>5, <1>6 DEF MainStep

LEMMA OutputStep == ConsoleTypeOK /\ OutputInv /\ [Next]_vars => OutputInv'
<1>1. SUFFICES ASSUME ConsoleTypeOK, OutputInv, [Next]_vars PROVE OutputInv'
  OBVIOUS
<1>2. RegisterInv /\ PutterInv /\ IsOutput(Output, accepted, Gone)
  BY <1>1 DEF OutputInv
<1>3. CASE Sent
  <2>1. /\ txReady' /\ txData' = 0 /\ printed' = printed \o InRegister
        /\ UNCHANGED <<pc, holds, bufferPrint, headPrint, tailPrint, mainPc, accepted, replaced>>
    BY <1>3 DEF Sent, bufferVars
  <2>2. PICK first : first = printed \o InRegister
    OBVIOUS
  <2>3. first \in Seq(Int) /\ first \o <<>> = first
    BY <1>1, <2>2, OutputTypes, MoveOver
  <2>4. printed' \o InRegister' = first
    BY <2>1, <2>2, <2>3 DEF InRegister
  <2>5. Output' = Output
    BY <2>1, <2>2, <2>4 DEF Output, NotWritten, Killed
  <2>6. Gone' = Gone
    BY <2>1 DEF Gone, Lost, Killed
  <2>7. RegisterInv' /\ PutterInv'
    BY <1>2, <2>1 DEF RegisterInv, PutterInv, Killed
  <2>8. QED
    BY <1>1, <2>1, <2>5, <2>6, <2>7, OutputSame
<1>4. CASE (\E r \in Readers : ReaderStep(r)) \/ ConsoleInterrupt \/ Press \/ UNCHANGED vars
  <2>1. /\ UNCHANGED <<pc, holds, bufferPrint, headPrint, tailPrint, mainPc, accepted, replaced>>
        /\ UNCHANGED <<txReady, txData, printed>>
    BY <1>4 DEF ReaderStep, Getc, GetcWaits, GetcGoesOn, UnchangedByGetc, ConsoleInterrupt,
                Press, vars, bufferVars, deviceVars, historyVars
  <2>2. Output' = Output /\ Gone' = Gone
    BY <2>1 DEF Output, NotWritten, InRegister, Gone, Lost, Killed
  <2>3. RegisterInv' /\ PutterInv'
    BY <1>2, <2>1 DEF RegisterInv, PutterInv, Killed
  <2>4. QED
    BY <1>1, <2>1, <2>2, <2>3, OutputSame
<1>5. QED
  BY <1>1, <1>3, <1>4, OutputPutterStep, OutputGetterStep, OutputPutc, OutputMainStep DEF Next

\* While the putter has loaded a character and not advanced, the character is
\* the first of the buffer.
LEMMA OutputInvIsOrder == ConsoleTypeOK /\ OutputInv => OutputInOrder
<1>1. SUFFICES ASSUME ConsoleTypeOK, OutputInv PROVE OutputInOrder
  OBVIOUS
<1>2. /\ bufferPrint \in [Slots -> Int] /\ headPrint \in Slots /\ tailPrint \in Slots
      /\ PutterInv /\ IsOutput(Output, accepted, Gone)
  BY <1>1 DEF ConsoleTypeOK, OutputInv
<1>3. PICK inHand, tail, b, first :
          /\ inHand = IF Killed THEN <<>> ELSE Held(Putter, {"advance", "write"})
          /\ tail = IF pc[Putter] = "advance" /\ ~Killed THEN NextSlot(tailPrint) ELSE tailPrint
          /\ b = Contents(bufferPrint, headPrint, tail)
          /\ first = printed \o InRegister
  OBVIOUS
<1>4. NotWritten(pc[Putter], Killed, holds[Putter], bufferPrint, headPrint, tailPrint)
          = inHand \o b
  <2>1. CASE pc[Putter] = "advance" /\ ~Killed
    <3>1. headPrint # tailPrint /\ bufferPrint[tailPrint] = holds[Putter]
      BY <1>2, <2>1 DEF PutterInv
    <3>2. PICK a : a = Contents(bufferPrint, headPrint, tailPrint)
      OBVIOUS
    <3>3. a = <<holds[Putter]>> \o b /\ a \in Seq(Int)
      BY <1>2, <1>3, <2>1, <3>1, <3>2, TakeFromRing, ContentsOf
    <3>4. <<>> \o a = a
      BY <3>3, ConcatEmptySeq
    <3>5. NotWritten(pc[Putter], Killed, holds[Putter], bufferPrint, headPrint, tailPrint) = a
      BY <2>1, <3>2, <3>4 DEF NotWritten
    <3>6. inHand = <<holds[Putter]>>
      BY <1>3, <2>1 DEF Held
    <3>7. QED
      BY <3>3, <3>5, <3>6
  <2>2. CASE ~(pc[Putter] = "advance" /\ ~Killed)
    BY <1>3, <2>2 DEF NotWritten, Held
  <2>3. QED
    BY <2>1, <2>2
<1>5. Output = first \o (inHand \o b)
  BY <1>3, <1>4 DEF Output
<1>6. Increasing(Output) /\ ToSet(Output) = (1..accepted) \ (Lost \cup replaced)
  BY <1>2 DEF IsOutput, Gone
<1>7. QED
  BY <1>3, <1>5, <1>6 DEF OutputInOrder

PutInv == ConsoleTypeOK /\ OutputInv

LEMMA PutInvHolds == Spec => []PutInv
<1>1. Init => PutInv
  BY ConsoleTypeInit, OutputInvInit DEF PutInv
<1>2. PutInv /\ [Next]_vars => PutInv'
  BY ConsoleTypeStep, OutputStep DEF PutInv
<1>3. QED
  BY <1>1, <1>2, PTL DEF Spec

\* Whatever putc accepted is printed, being sent, in the putter's hand or in the
\* buffer, once and in the order of the calls, but for the character of a putter
\* that main() killed and those that an echo replaced (OutputInOrder).
THEOREM OutputKeepsItsOrder == Spec => []OutputInOrder
<1>1. PutInv => OutputInOrder
  BY OutputInvIsOrder DEF PutInv
<1>2. QED
  BY <1>1, PutInvHolds, PTL

\* And no other step than the getter's echo replaces a character that is being
\* sent (OnlyEchoReplaces): the putter and main() find the register empty.
THEOREM EchoAloneReplaces == Spec => OnlyEchoReplaces
<1>1. ASSUME PutInv, [Next]_vars
      PROVE  [replaced' # replaced => pc[Getter] = "echo" /\ pc'[Getter] = "store"]_vars
  <2>1. /\ Putter \in Services /\ Getter \in Services /\ pc \in [Services -> Labels] /\ RegisterInv
    BY <1>1 DEF PutInv, ConsoleTypeOK, OutputInv, Services
  <2>2. CASE PutterStep
    <3>1. ASSUME PutterWrite PROVE replaced' = replaced
      <4>1. txData = 0 /\ replaced' = replaced \cup ({txData} \ {0})
        BY <2>1, <3>1 DEF PutterWrite, Goto, Branch, PutCharInTerminal, RegisterInv, HasSeenReady
      <4>2. QED
        BY <4>1
    <3>2. ASSUME ~PutterWrite PROVE replaced' = replaced
      BY <2>2, <3>2
         DEF PutterStep, PutterReady, PutterNotEmpty, PutterLoad, PutterAdvance, Finish,
             CheckReceive, CheckTransfer, CheckInterrupt, ResetInterrupt, PlicComplete, Test,
             historyVars
    <3>3. QED
      BY <3>1, <3>2
  <2>3. CASE GetterStep
    <3>1. CASE GetterEcho
      BY <2>1, <3>1 DEF GetterEcho, Goto, Branch
    <3>2. CASE replaced' = replaced
      BY <3>2
    <3>3. QED
      BY <1>1, <2>3, <3>1, <3>2, GetterLeaves DEF PutInv
  <2>4. CASE MainStep
    <3>1. CASE PrintRest
      <4>1. txData = 0 /\ replaced' = replaced \cup ({txData} \ {0})
        BY <2>1, <3>1 DEF PrintRest, PutCharInTerminal, RegisterInv
      <4>2. QED
        BY <4>1
    <3>2. CASE KillServices \/ KillQEMU \/ Halt
      BY <3>2 DEF KillServices, KillQEMU, Halt, historyVars
    <3>3. QED
      BY <2>4, <3>1, <3>2 DEF MainStep
  <2>5. CASE \/ Putc \/ (\E r \in Readers : ReaderStep(r)) \/ ConsoleInterrupt \/ Sent \/ Press
             \/ UNCHANGED vars
    <3>1. replaced' = replaced
      BY <2>5 DEF Putc, ReaderStep, Getc, GetcWaits, GetcGoesOn, UnchangedByGetc,
                  ConsoleInterrupt, Sent, Press, vars, historyVars
    <3>2. QED
      BY <3>1
  <2>6. QED
    BY <1>1, <2>2, <2>3, <2>4, <2>5 DEF Next
<1>2. QED
  BY <1>1, PutInvHolds, PTL DEF Spec, OnlyEchoReplaces
=============================================================================
