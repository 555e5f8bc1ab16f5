---------------------------- MODULE ListTheorems ----------------------------
(***************************************************************************)
(* What the list operations of the kernel do to the set of the elements of *)
(* a list, to its length and to the absence of duplicates; remainders, for *)
(* the slots of ring buffers.                                              *)
(***************************************************************************)
EXTENDS KernelLists, SequenceTheorems, WellFoundedInduction, TLAPS

\* A set of numbers that is not empty has a minimum.
LEMMA MinNat ==
    ASSUME NEW I \in SUBSET Nat, I # {}
    PROVE  Min(I) \in I /\ \A j \in I : Min(I) <= j
<1> DEFINE R == OpToRel(<, Nat)
<1>1. \E x \in I : \A y \in I : ~(<<y, x>> \in R)
  BY NatLessThanWellFounded, WFMin, Zenon
<1>2. \A x, y \in Nat : (<<y, x>> \in R) <=> y < x
  BY DEF OpToRel
<1> HIDE DEF R
<1>3. PICK x \in I : \A y \in I : ~(<<y, x>> \in R)
  BY <1>1
<1>4. x \in Nat /\ \A y \in I : y \in Nat /\ ~(y < x)
  BY <1>2, <1>3
<1>5. \A y \in I : x <= y
  BY <1>4
<1>6. QED
  BY <1>5 DEF Min

\* Membership in a list, by positions.
LEMMA InList ==
    ASSUME NEW S, NEW q \in Seq(S)
    PROVE  /\ ToSet(q) \subseteq S
           /\ \A t : t \in ToSet(q) <=> \E i \in 1..Len(q) : q[i] = t
           /\ \A i \in 1..Len(q) : q[i] \in S /\ q[i] \in ToSet(q)
  BY DEF ToSet

\* A list has the type of its elements.
LEMMA ListOf ==
    ASSUME NEW S, NEW q \in Seq(S), NEW T, ToSet(q) \subseteq T
    PROVE  q \in Seq(T)
<1>1. \A i \in 1..Len(q) : q[i] \in T
  BY InList
<1>2. Len(q) \in Nat /\ q = [i \in 1..Len(q) |-> q[i]]
  OBVIOUS
<1>3. QED
  BY <1>1, <1>2

\* addLast puts an element at the end.
LEMMA AppendList ==
    ASSUME NEW S, NEW q \in Seq(S), NEW t \in S
    PROVE  /\ Append(q, t) \in Seq(S)
           /\ Len(Append(q, t)) = Len(q) + 1
           /\ ToSet(Append(q, t)) = ToSet(q) \cup {t}
           /\ IsInjective(q) /\ t \notin ToSet(q) => IsInjective(Append(q, t))
<1> DEFINE a == Append(q, t)
<1>1. a \in Seq(S) /\ Len(a) = Len(q) + 1 /\ a[Len(q) + 1] = t
      /\ \A i \in 1..Len(q) : a[i] = q[i]
  BY AppendProperties
<1> HIDE DEF a
<1>2. ASSUME NEW u PROVE u \in ToSet(a) <=> u \in ToSet(q) \cup {t}
  <2>1. u \in ToSet(a) <=> \E i \in 1..Len(q) + 1 : a[i] = u
    BY <1>1 DEF ToSet
  <2>2. (\E i \in 1..Len(q) + 1 : a[i] = u) <=> (\E i \in 1..Len(q) : q[i] = u) \/ t = u
    BY <1>1
  <2>3. QED
    BY <2>1, <2>2, InList
<1>3. ASSUME IsInjective(q), t \notin ToSet(q) PROVE IsInjective(a)
  <2>1. \A i \in 1..Len(q) : q[i] # t
    BY <1>3, InList
  <2>2. QED
    BY <1>1, <1>3, <2>1 DEF IsInjective
<1>4. QED
  BY <1>1, <1>2, <1>3 DEF a

\* removeFirst takes the head off.
LEMMA TailList ==
    ASSUME NEW S, NEW q \in Seq(S), q # <<>>
    PROVE  /\ Head(q) \in ToSet(q) /\ Head(q) \in S
           /\ Tail(q) \in Seq(S)
           /\ Len(Tail(q)) = Len(q) - 1
           /\ ToSet(Tail(q)) \subseteq ToSet(q)
           /\ IsInjective(q) => /\ ToSet(Tail(q)) = ToSet(q) \ {Head(q)}
                                /\ IsInjective(Tail(q))
<1> DEFINE a == Tail(q)
<1>1. a \in Seq(S) /\ Len(a) = Len(q) - 1 /\ \A i \in 1..Len(q) - 1 : a[i] = q[i + 1]
  BY HeadTailProperties
<1>2. Len(q) \in Nat /\ Len(q) >= 1 /\ Head(q) = q[1]
  OBVIOUS
<1> HIDE DEF a
<1>3. ASSUME NEW u \in ToSet(a) PROVE u \in ToSet(q)
  BY <1>1, <1>2, InList
<1>4. ASSUME IsInjective(q)
      PROVE  /\ \A u : u \in ToSet(a) <=> u \in ToSet(q) /\ u # Head(q)
             /\ IsInjective(a)
  <2>1. ASSUME NEW u \in ToSet(a) PROVE u # Head(q)
    <3>1. PICK i \in 1..Len(a) : a[i] = u
      BY <1>1, InList
    <3>2. i + 1 \in 1..Len(q) /\ i + 1 # 1 /\ 1 \in 1..Len(q) /\ q[i + 1] = u
      BY <1>1, <1>2, <3>1
    <3>3. q[i + 1] # q[1]
      BY <1>4, <3>2 DEF IsInjective
    <3>4. QED
      BY <1>2, <3>2, <3>3
  <2>2. ASSUME NEW u \in ToSet(q), u # Head(q) PROVE u \in ToSet(a)
    <3>1. PICK i \in 1..Len(q) : q[i] = u
      BY InList
    <3>2. i - 1 \in 1..Len(q) - 1 /\ a[i - 1] = u
      BY <1>1, <1>2, <2>2, <3>1
    <3>3. QED
      BY <1>1, <3>2, InList
  <2>3. IsInjective(a)
    <3>1. SUFFICES ASSUME NEW i \in 1..Len(a), NEW j \in 1..Len(a), a[i] = a[j]
                   PROVE  i = j
      BY <1>1 DEF IsInjective
    <3>2. /\ i + 1 \in 1..Len(q) /\ j + 1 \in 1..Len(q)
          /\ q[i + 1] = q[j + 1]
      BY <1>1, <1>2, <3>1
    <3>3. i + 1 = j + 1
      BY <1>4, <3>2 DEF IsInjective
    <3>4. QED
      BY <1>1, <3>3
  <2>4. QED
    BY <1>3, <2>1, <2>2, <2>3
<1>5. QED
  BY <1>1, <1>2, <1>3, <1>4, InList DEF a

\* Unlinking position i.
LEMMA RemoveAtList ==
    ASSUME NEW S, NEW q \in Seq(S), NEW i \in 1..Len(q)
    PROVE  /\ RemoveAt(q, i) \in Seq(S)
           /\ Len(RemoveAt(q, i)) = Len(q) - 1
           /\ \A j \in 1..Len(q) - 1 :
                  RemoveAt(q, i)[j] = IF j < i THEN q[j] ELSE q[j + 1]
<1> DEFINE a == SubSeq(q, 1, i - 1)
           b == SubSeq(q, i + 1, Len(q))
<1>1. a \in Seq(S) /\ Len(a) = i - 1 /\ \A j \in 1..i - 1 : a[j] = q[j]
  BY SubSeqProperties
<1>2. b \in Seq(S) /\ Len(b) = Len(q) - i /\ \A j \in 1..Len(q) - i : b[j] = q[i + j]
  BY SubSeqProperties
<1>3. RemoveAt(q, i) = a \o b
  BY DEF RemoveAt
<1> HIDE DEF a, b
<1>4. /\ a \o b \in Seq(S)
      /\ Len(a \o b) = Len(a) + Len(b)
      /\ \A j \in 1..Len(a) + Len(b) :
             (a \o b)[j] = IF j <= Len(a) THEN a[j] ELSE b[j - Len(a)]
  BY <1>1, <1>2, ConcatProperties
<1>5. ASSUME NEW j \in 1..Len(q) - 1
      PROVE  (a \o b)[j] = IF j < i THEN q[j] ELSE q[j + 1]
  <2>1. CASE j < i
    BY <1>1, <1>2, <1>4, <2>1
  <2>2. CASE ~(j < i)
    <3>1. (a \o b)[j] = b[j - (i - 1)]
      BY <1>1, <1>2, <1>4, <2>2
    <3>2. j - (i - 1) \in 1..Len(q) - i /\ i + (j - (i - 1)) = j + 1
      BY <2>2
    <3>3. QED
      BY <1>2, <2>2, <3>1, <3>2
  <2>3. QED
    BY <2>1, <2>2
<1>6. QED
  BY <1>1, <1>2, <1>3, <1>4, <1>5

\* The place removeSpec finds.
LEMMA PlaceInList ==
    ASSUME NEW S, NEW q \in Seq(S), NEW t \in ToSet(q)
    PROVE  PlaceOf(q, t) \in 1..Len(q) /\ q[PlaceOf(q, t)] = t
<1> DEFINE I == {j \in DOMAIN q : q[j] = t}
<1>1. I # {}
  BY InList
<1>2. I \in SUBSET Nat
  OBVIOUS
<1> HIDE DEF I
<1>3. Min(I) \in I
  BY <1>1, <1>2, MinNat
<1>4. QED
  BY <1>3 DEF I, PlaceOf

\* removeSpec takes exactly the element t out of a list without duplicates.
LEMMA RemoveSpecList ==
    ASSUME NEW S, NEW q \in Seq(S), NEW t
    PROVE  /\ RemoveSpec(q, t) \in Seq(S)
           /\ Len(RemoveSpec(q, t)) = IF t \in ToSet(q) THEN Len(q) - 1 ELSE Len(q)
           /\ ToSet(RemoveSpec(q, t)) \subseteq ToSet(q)
           /\ IsInjective(q) => /\ ToSet(RemoveSpec(q, t)) = ToSet(q) \ {t}
                                /\ IsInjective(RemoveSpec(q, t))
<1>1. CASE t \notin ToSet(q)
  BY <1>1 DEF RemoveSpec
<1>2. CASE t \in ToSet(q)
  <2> DEFINE i == PlaceOf(q, t)
             a == RemoveAt(q, i)
  <2>1. i \in 1..Len(q) /\ q[i] = t
    BY <1>2, PlaceInList
  <2>2. RemoveSpec(q, t) = a
    BY <1>2 DEF RemoveSpec
  <2> HIDE DEF i
  <2>3. /\ a \in Seq(S)
        /\ Len(a) = Len(q) - 1
        /\ \A j \in 1..Len(q) - 1 : a[j] = IF j < i THEN q[j] ELSE q[j + 1]
    BY <2>1, RemoveAtList
  <2>4. Len(q) \in Nat /\ i \in 1..Len(q)
    BY <2>1
  <2> HIDE DEF a
  <2>5. ASSUME NEW u \in ToSet(a) PROVE u \in ToSet(q)
    <3>1. PICK j \in 1..Len(q) - 1 : a[j] = u
      BY <2>3, InList
    <3>2. CASE j < i
      BY <2>3, <2>4, <3>1, <3>2, InList
    <3>3. CASE ~(j < i)
      BY <2>3, <2>4, <3>1, <3>3, InList
    <3>4. QED
      BY <3>2, <3>3
  <2>6. ASSUME IsInjective(q)
        PROVE  /\ \A u : u \in ToSet(a) <=> u \in ToSet(q) /\ u # t
               /\ IsInjective(a)
    <3>0. \A j, k \in 1..Len(q) : q[j] = q[k] => j = k
      BY <2>6 DEF IsInjective
    <3>1. ASSUME NEW u \in ToSet(a) PROVE u # t
      <4>1. PICK j \in 1..Len(q) - 1 : a[j] = u
        BY <2>3, InList
      <4>2. CASE j < i
        BY <2>1, <2>3, <2>4, <3>0, <4>1, <4>2
      <4>3. CASE ~(j < i)
        <5>1. j + 1 \in 1..Len(q) /\ j + 1 # i /\ u = q[j + 1]
          BY <2>3, <2>4, <4>1, <4>3
        <5>2. QED
          BY <2>1, <3>0, <5>1
      <4>4. QED
        BY <4>2, <4>3
    <3>2. ASSUME NEW u \in ToSet(q), u # t PROVE u \in ToSet(a)
      <4>1. PICK j \in 1..Len(q) : q[j] = u
        BY InList
      <4>2. j # i
        BY <2>1, <3>2, <4>1
      <4>3. CASE j < i
        <5>1. j \in 1..Len(q) - 1 /\ a[j] = u
          BY <2>3, <2>4, <4>1, <4>3
        <5>2. QED
          BY <2>3, <5>1, InList
      <4>4. CASE ~(j < i)
        <5>1. j - 1 \in 1..Len(q) - 1 /\ ~(j - 1 < i) /\ (j - 1) + 1 = j
          BY <2>4, <4>1, <4>2, <4>4
        <5>2. a[j - 1] = u
          BY <2>3, <4>1, <5>1
        <5>3. QED
          BY <2>3, <5>1, <5>2, InList
      <4>5. QED
        BY <4>3, <4>4
    <3>3. ASSUME NEW j \in 1..Len(a), NEW k \in 1..Len(a), a[j] = a[k]
          PROVE  j = k
      <4> DEFINE f(n) == IF n < i THEN n ELSE n + 1
      <4>1. f(j) \in 1..Len(q) /\ f(k) \in 1..Len(q) /\ q[f(j)] = q[f(k)]
        BY <2>3, <2>4, <3>3
      <4>2. f(j) = f(k)
        BY <3>0, <4>1
      <4>3. QED
        BY <2>3, <2>4, <4>2
    <3>4. DOMAIN a = 1..Len(a)
      BY <2>3
    <3>5. QED
      BY <2>5, <3>1, <3>2, <3>3, <3>4 DEF IsInjective
  <2>7. QED
    BY <1>2, <2>2, <2>3, <2>5, <2>6
<1>3. QED
  BY <1>1, <1>2

\* The place insert_sorted finds.
LEMMA SortedPlaceInList ==
    ASSUME NEW S, NEW q \in Seq(S), NEW t \in S, NEW key
    PROVE  LET i == SortedPlace(q, t, key)
           IN  /\ i \in 1..Len(q) + 1
               /\ i <= Len(q) => key[q[i]] >= key[t]
               /\ \A j \in 1..i - 1 : ~(key[q[j]] >= key[t])
<1> DEFINE I == {j \in 1..Len(q) + 1 : j <= Len(q) => key[q[j]] >= key[t]}
<1>0. Len(q) \in Nat
  OBVIOUS
<1>1. I # {}
  <2>1. Len(q) + 1 \in I
    BY <1>0
  <2>2. QED
    BY <2>1
<1>2. I \in SUBSET Nat
  OBVIOUS
<1>3. \A j : j \in I <=> j \in 1..Len(q) + 1 /\ (j <= Len(q) => key[q[j]] >= key[t])
  OBVIOUS
<1>4. SortedPlace(q, t, key) = Min(I)
  BY DEF SortedPlace
<1> HIDE DEF I
<1>5. Min(I) \in I /\ \A j \in I : Min(I) <= j
  BY <1>1, <1>2, MinNat
<1>6. ASSUME NEW j \in 1..Min(I) - 1 PROVE ~(key[q[j]] >= key[t])
  <2>1. j \in 1..Len(q) /\ j < Min(I) /\ j \notin I
    BY <1>0, <1>2, <1>3, <1>5
  <2>2. QED
    BY <1>0, <1>3, <2>1
<1>7. QED
  BY <1>3, <1>4, <1>5, <1>6

\* Linking t in at position i.
LEMMA InsertAtList ==
    ASSUME NEW S, NEW q \in Seq(S), NEW t \in S, NEW i \in 1..Len(q) + 1
    PROVE  /\ InsertAt(q, i, t) \in Seq(S)
           /\ Len(InsertAt(q, i, t)) = Len(q) + 1
           /\ \A j \in 1..Len(q) + 1 :
                  InsertAt(q, i, t)[j] =
                      IF j < i THEN q[j] ELSE IF j = i THEN t ELSE q[j - 1]
<1> DEFINE a == SubSeq(q, 1, i - 1)
           b == SubSeq(q, i, Len(q))
           r == InsertAt(q, i, t)
<1>0. i \in 1..Len(q) + 1 /\ Len(q) \in Nat
  OBVIOUS
<1>1. a \in Seq(S) /\ Len(a) = i - 1 /\ \A j \in 1..i - 1 : a[j] = q[j]
  BY <1>0, SubSeqProperties
<1>2. /\ b \in Seq(S) /\ Len(b) = Len(q) - i + 1
      /\ \A j \in 1..Len(q) - i + 1 : b[j] = q[i + j - 1]
  BY <1>0, SubSeqProperties
<1>3. r = (a \o <<t>>) \o b
  BY DEF InsertAt
<1> HIDE DEF r
<1> DEFINE c == a \o <<t>>
<1>4. r = c \o b
  BY <1>3
<1> HIDE DEF a, b
<1>5. /\ c \in Seq(S)
      /\ Len(c) = i
      /\ \A j \in 1..i : c[j] = IF j < i THEN q[j] ELSE t
  <2>1. <<t>> \in Seq(S) /\ Len(<<t>>) = 1 /\ <<t>>[1] = t
    OBVIOUS
  <2> DEFINE e == <<t>>
  <2> HIDE DEF e
  <2>2. /\ a \o e \in Seq(S)
        /\ Len(a \o e) = Len(a) + Len(e)
        /\ \A j \in 1..Len(a) + Len(e) :
               (a \o e)[j] = IF j <= Len(a) THEN a[j] ELSE e[j - Len(a)]
    BY <1>1, <2>1, ConcatProperties DEF e
  <2>3. Len(e) = 1 /\ e[1] = t
    BY <2>1 DEF e
  <2>4. \A j \in 1..i : (a \o e)[j] = IF j < i THEN q[j] ELSE t
    BY <1>0, <1>1, <2>2, <2>3
  <2>5. QED
    BY <1>0, <1>1, <2>2, <2>3, <2>4 DEF e
<1> HIDE DEF c
<1>6. /\ c \o b \in Seq(S)
      /\ Len(c \o b) = Len(c) + Len(b)
      /\ \A j \in 1..Len(c) + Len(b) :
             (c \o b)[j] = IF j <= Len(c) THEN c[j] ELSE b[j - Len(c)]
  BY <1>2, <1>5, ConcatProperties
<1>7. r \in Seq(S) /\ Len(r) = Len(q) + 1
  BY <1>0, <1>2, <1>4, <1>5, <1>6
<1>8. ASSUME NEW j \in 1..Len(q) + 1
      PROVE  r[j] = IF j < i THEN q[j] ELSE IF j = i THEN t ELSE q[j - 1]
  <2>1. CASE j <= i
    BY <1>0, <1>2, <1>4, <1>5, <1>6, <2>1
  <2>2. CASE j > i
    <3>1. r[j] = b[j - i]
      <4>1. j \in 1..Len(c) + Len(b) /\ ~(j <= Len(c)) /\ j - Len(c) = j - i
        BY <1>0, <1>2, <1>5, <2>2
      <4>2. QED
        BY <1>4, <1>6, <4>1
    <3>2. j - i \in 1..Len(q) - i + 1 /\ i + (j - i) - 1 = j - 1
      BY <1>0, <2>2
    <3>3. b[j - i] = q[i + (j - i) - 1]
      BY <1>2, <3>2
    <3>4. QED
      BY <1>0, <2>2, <3>1, <3>2, <3>3
  <2>3. QED
    BY <1>0, <2>1, <2>2
<1>9. QED
  BY <1>7, <1>8 DEF r

\* insert_sorted adds one element and keeps the rest.
LEMMA InsertSortedList ==
    ASSUME NEW S, NEW q \in Seq(S), NEW t \in S, NEW key
    PROVE  /\ InsertSorted(q, t, key) \in Seq(S)
           /\ Len(InsertSorted(q, t, key)) = Len(q) + 1
           /\ ToSet(InsertSorted(q, t, key)) = ToSet(q) \cup {t}
           /\ IsInjective(q) /\ t \notin ToSet(q) =>
                  IsInjective(InsertSorted(q, t, key))
           /\ LET i == SortedPlace(q, t, key)
              IN  \A j \in 1..Len(q) + 1 :
                      InsertSorted(q, t, key)[j] =
                          IF j < i THEN q[j] ELSE IF j = i THEN t ELSE q[j - 1]
<1> DEFINE i == SortedPlace(q, t, key)
           r == InsertSorted(q, t, key)
<1>0. i \in 1..Len(q) + 1 /\ Len(q) \in Nat
  BY SortedPlaceInList
<1> HIDE DEF i
<1>1. r = InsertAt(q, i, t)
  BY DEF InsertSorted, i
<1> HIDE DEF r
<1>2. r \in Seq(S) /\ Len(r) = Len(q) + 1
  BY <1>0, <1>1, InsertAtList
<1>3. ASSUME NEW j \in 1..Len(q) + 1
      PROVE  r[j] = IF j < i THEN q[j] ELSE IF j = i THEN t ELSE q[j - 1]
  <2>1. \A k \in 1..Len(q) + 1 :
            InsertAt(q, i, t)[k] = IF k < i THEN q[k] ELSE IF k = i THEN t ELSE q[k - 1]
    BY ONLY <1>0, InsertAtList
  <2>2. QED
    BY <1>1, <2>1
<1>4. ASSUME NEW u PROVE u \in ToSet(r) <=> u \in ToSet(q) \cup {t}
  <2>1. ASSUME u \in ToSet(r) PROVE u \in ToSet(q) \cup {t}
    <3>1. PICK j \in 1..Len(q) + 1 : r[j] = u
      BY <1>2, <2>1, InList
    <3>2. CASE j < i
      BY <1>0, <1>3, <3>1, <3>2, InList
    <3>3. CASE j = i
      BY <1>0, <1>3, <3>1, <3>3
    <3>4. CASE j > i
      <4>1. j - 1 \in 1..Len(q) /\ q[j - 1] = u
        BY <1>0, <1>3, <3>1, <3>4
      <4>2. QED
        BY <4>1, InList
    <3>5. QED
      BY <1>0, <3>2, <3>3, <3>4
  <2>2. ASSUME u \in ToSet(q) PROVE u \in ToSet(r)
    <3>1. PICK j \in 1..Len(q) : q[j] = u
      BY <2>2, InList
    <3>2. CASE j < i
      <4>1. j \in 1..Len(q) + 1 /\ r[j] = u
        BY <1>0, <1>3, <3>1, <3>2
      <4>2. QED
        BY <1>2, <4>1, InList
    <3>3. CASE j >= i
      <4>1. j + 1 \in 1..Len(q) + 1 /\ ~(j + 1 < i) /\ j + 1 # i /\ (j + 1) - 1 = j
        BY <1>0, <3>1, <3>3
      <4>2. r[j + 1] = u
        BY <1>3, <3>1, <4>1
      <4>3. QED
        BY <1>2, <4>1, <4>2, InList
    <3>4. QED
      BY <1>0, <3>2, <3>3
  <2>3. ASSUME u = t PROVE u \in ToSet(r)
    <3>1. i \in 1..Len(r) /\ r[i] = t
      BY <1>0, <1>2, <1>3
    <3>2. QED
      BY <1>2, <2>3, <3>1, InList
  <2>4. QED
    BY <2>1, <2>2, <2>3
<1>5. ASSUME IsInjective(q), t \notin ToSet(q) PROVE IsInjective(r)
  <2>1. \A j, k \in 1..Len(q) : q[j] = q[k] => j = k
    BY <1>5 DEF IsInjective
  <2>2. \A j \in 1..Len(q) : q[j] # t
    BY <1>5, InList
  <2>3. ASSUME NEW j \in 1..Len(q) + 1, NEW k \in 1..Len(q) + 1, r[j] = r[k]
        PROVE  j = k
    <3> DEFINE f(n) == IF n < i THEN n ELSE n - 1
    <3>1. \A n \in 1..Len(q) + 1 : n # i => f(n) \in 1..Len(q) /\ r[n] = q[f(n)]
      BY <1>0, <1>3
    <3>2. r[i] = t
      BY <1>0, <1>3
    <3>3. CASE j = i \/ k = i
      BY <2>2, <2>3, <3>1, <3>2, <3>3
    <3>4. CASE j # i /\ k # i
      <4>1. f(j) = f(k)
        BY <2>1, <2>3, <3>1, <3>4
      <4>2. QED
        BY <1>0, <3>4, <4>1
    <3>5. QED
      BY <3>3, <3>4
  <2>4. DOMAIN r = 1..Len(q) + 1
    BY <1>2
  <2>5. QED
    BY <2>3, <2>4 DEF IsInjective
<1>6. QED
  BY <1>2, <1>3, <1>4, <1>5 DEF r, i

\* removeSpec of the first element is removeFirst.
LEMMA RemoveHead ==
    ASSUME NEW S, NEW q \in Seq(S), q # <<>>
    PROVE  RemoveSpec(q, Head(q)) = Tail(q)
<1> DEFINE k == PlaceOf(q, Head(q))
<1>1. Len(q) \in Nat /\ Len(q) >= 1 /\ Head(q) = q[1] /\ Head(q) \in ToSet(q)
  BY TailList
<1>2. k = 1
  <2> DEFINE I == {j \in DOMAIN q : q[j] = Head(q)}
  <2>1. 1 \in I /\ I \in SUBSET Nat
    BY <1>1
  <2>2. k = Min(I)
    BY DEF PlaceOf
  <2>3. I \subseteq 1..Len(q)
    BY <1>1
  <2> HIDE DEF I, k
  <2>4. k \in I /\ k <= 1
    BY <2>1, <2>2, MinNat
  <2>5. k \in 1..Len(q)
    BY <2>3, <2>4
  <2>6. QED
    BY <1>1, <2>4, <2>5
<1>3. RemoveSpec(q, Head(q)) = RemoveAt(q, 1)
  BY <1>1, <1>2 DEF RemoveSpec
<1>4. /\ RemoveAt(q, 1) \in Seq(S) /\ Len(RemoveAt(q, 1)) = Len(q) - 1
      /\ \A j \in 1..Len(q) - 1 : RemoveAt(q, 1)[j] = q[j + 1]
  BY <1>1, RemoveAtList
<1>5. /\ Tail(q) \in Seq(S) /\ Len(Tail(q)) = Len(q) - 1
      /\ \A j \in 1..Len(q) - 1 : Tail(q)[j] = q[j + 1]
  BY HeadTailProperties
<1>6. QED
  BY <1>3, <1>4, <1>5, SeqEqual

-----------------------------------------------------------------------------
\* The keys of the elements do not decrease along the list.
OrderedBy(q, key) == \A i, j \in 1..Len(q) : i < j => key[q[i]] <= key[q[j]]

\* removeSpec keeps the order of the elements it leaves in the list.
LEMMA RemoveSpecOrdered ==
    ASSUME NEW S, NEW q \in Seq(S), NEW t, NEW key, OrderedBy(q, key)
    PROVE  OrderedBy(RemoveSpec(q, t), key)
<1>1. CASE t \notin ToSet(q)
  BY <1>1 DEF RemoveSpec
<1>2. CASE t \in ToSet(q)
  <2> DEFINE k == PlaceOf(q, t)
             r == RemoveSpec(q, t)
  <2>1. k \in 1..Len(q) /\ r = RemoveAt(q, k)
    BY <1>2, PlaceInList DEF RemoveSpec
  <2> HIDE DEF k
  <2>2. /\ Len(r) = Len(q) - 1
        /\ \A j \in 1..Len(q) - 1 : r[j] = IF j < k THEN q[j] ELSE q[j + 1]
    BY <2>1, RemoveAtList
  <2> HIDE DEF r
  <2>3. SUFFICES ASSUME NEW i \in 1..Len(r), NEW j \in 1..Len(r), i < j
                 PROVE  key[r[i]] <= key[r[j]]
    BY DEF OrderedBy, r
  <2> DEFINE f(n) == IF n < k THEN n ELSE n + 1
  <2>4. f(i) \in 1..Len(q) /\ f(j) \in 1..Len(q) /\ f(i) < f(j)
    BY <2>1, <2>2, <2>3
  <2>5. r[i] = q[f(i)] /\ r[j] = q[f(j)]
    BY <2>2
  <2> HIDE DEF f
  <2>6. QED
    BY <2>4, <2>5 DEF OrderedBy
<1>3. QED
  BY <1>1, <1>2

\* insert_sorted puts a new element into an ordered list where it belongs.
LEMMA InsertSortedOrdered ==
    ASSUME NEW S, NEW q \in Seq(S), NEW t \in S, NEW key \in [S -> Int],
           OrderedBy(q, key)
    PROVE  OrderedBy(InsertSorted(q, t, key), key)
<1> DEFINE k == SortedPlace(q, t, key)
           r == InsertSorted(q, t, key)
<1>1. /\ k \in 1..Len(q) + 1
      /\ k <= Len(q) => key[q[k]] >= key[t]
      /\ \A j \in 1..k - 1 : ~(key[q[j]] >= key[t])
  BY SortedPlaceInList
<1>2. /\ r \in Seq(S) /\ Len(r) = Len(q) + 1
      /\ \A j \in 1..Len(q) + 1 :
             r[j] = IF j < k THEN q[j] ELSE IF j = k THEN t ELSE q[j - 1]
  BY InsertSortedList
<1> HIDE DEF k, r
<1>3. Len(q) \in Nat /\ \A j \in 1..Len(q) : key[q[j]] \in Int
  OBVIOUS
<1>4. key[t] \in Int
  OBVIOUS
<1>5. \A j \in 1..k - 1 : key[q[j]] <= key[t]
  BY <1>1, <1>3, <1>4
<1>6. \A j \in 1..Len(q) : k <= j => key[t] <= key[q[j]]
  <2> SUFFICES ASSUME NEW j \in 1..Len(q), k <= j PROVE key[t] <= key[q[j]]
    OBVIOUS
  <2>1. k \in 1..Len(q) /\ key[t] <= key[q[k]]
    BY <1>1, <1>3, <1>4
  <2>2. key[q[k]] <= key[q[j]]
    BY <1>3, <2>1 DEF OrderedBy
  <2>3. QED
    BY <1>3, <1>4, <2>1, <2>2
<1>7. SUFFICES ASSUME NEW i \in 1..Len(q) + 1, NEW j \in 1..Len(q) + 1, i < j
               PROVE  key[r[i]] <= key[r[j]]
  BY <1>2 DEF OrderedBy, r
<1>8. CASE j < k
  <2>1. r[i] = q[i] /\ r[j] = q[j] /\ i \in 1..Len(q) /\ j \in 1..Len(q)
    BY <1>1, <1>2, <1>7, <1>8
  <2>2. QED
    BY <1>7, <2>1 DEF OrderedBy
<1>9. CASE j = k
  <2>1. r[i] = q[i] /\ r[j] = t /\ i \in 1..k - 1
    BY <1>1, <1>2, <1>7, <1>9
  <2>2. QED
    BY <1>5, <2>1
<1>10. CASE j > k
  <2>1. r[j] = q[j - 1] /\ j - 1 \in 1..Len(q)
    BY <1>1, <1>2, <1>10
  <2>2. CASE i < k
    <3>1. r[i] = q[i] /\ i \in 1..Len(q) /\ i < j - 1
      BY <1>1, <1>2, <1>10, <2>2
    <3>2. QED
      BY <2>1, <3>1 DEF OrderedBy
  <2>3. CASE i = k
    <3>1. r[i] = t /\ k <= j - 1
      BY <1>1, <1>2, <1>10, <2>3
    <3>2. QED
      BY <1>6, <2>1, <3>1
  <2>4. CASE i > k
    <3>1. r[i] = q[i - 1] /\ i - 1 \in 1..Len(q) /\ i - 1 < j - 1
      BY <1>1, <1>2, <1>7, <2>4
    <3>2. QED
      BY <2>1, <3>1 DEF OrderedBy
  <2>5. QED
    BY <1>1, <2>2, <2>3, <2>4
<1>11. QED
  BY <1>1, <1>8, <1>9, <1>10

\* Remainders of the numbers that occur as sums and differences of slots.
LEMMA Remainder ==
    ASSUME NEW n \in Nat \ {0}, NEW x \in Int
    PROVE  /\ x \in 0..n - 1 => x % n = x
           /\ x \in n..2 * n - 1 => x % n = x - n
           /\ x \in -n..-1 => x % n = x + n
<1>1. x % n \in 0..n - 1 /\ x \div n \in Int /\ x = n * (x \div n) + (x % n)
  OBVIOUS
<1>2. PICK q \in Int, p \in Int, m \in 0..n - 1 : q = x \div n /\ p = n * q /\ m = x % n
  BY <1>1
<1>3. x = p + m
  BY <1>1, <1>2
<1>4. /\ q = 0 => p = 0
      /\ q = 1 => p = n
      /\ q = -1 => p = -n
      /\ q > 1 => p >= 2 * n
      /\ q < -1 => p <= -2 * n
  BY <1>2
<1>5. q = 0 \/ q = 1 \/ q = -1 \/ q > 1 \/ q < -1
  BY <1>2
<1>6. QED
  BY <1>2, <1>3, <1>4, <1>5
=============================================================================
