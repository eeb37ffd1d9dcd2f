------------------------------ MODULE AlarmProofs ------------------------------
(***************************************************************************)
(* Proofs about the relative alarms of RtcAlarms: the list stays sound,    *)
(* and every event is signalled neither early nor late, for every number   *)
(* of events, every delay up to a period and every place at which the      *)
(* handler comes in.                                                       *)
(***************************************************************************)
EXTENDS RtcProofs, SequenceTheorems, FiniteSetTheorems, WellFoundedInduction

-------------------------------------------------------------------------------
(* Lists of items.                                                         *)

Entry == [ev : Event, at : Times, pending : BOOLEAN]

\* What follows uses of the times only that they can be compared.
LEMMA TimesAreNumbers == Times \subseteq Int /\ 0 \in Times
<1>1. MaxEra + 4 \in Nat /\ Period \in Nat
  BY ClockAssumption DEF Period
<1>2. \A a, b \in Nat : a * b \in Nat
  OBVIOUS
<1>3. (MaxEra + 4) * Period \in Nat
  BY <1>1, <1>2
<1> QED
  BY <1>3 DEF Times

LEMMA EntryFields ==
  ASSUME NEW s \in Seq(Entry), NEW i \in 1 .. Len(s)
  PROVE  /\ s[i] \in Entry /\ s[i].ev \in Event /\ s[i].at \in Times /\ s[i].at \in Int
         /\ s[i].pending \in BOOLEAN
<1>1. s[i] \in Entry
  BY ElementOfSeq
<1> QED
  BY <1>1, TimesAreNumbers DEF Entry

\* A set of places has a first one, to which Min refers.
LEMMA FirstPlace ==
  ASSUME NEW n \in Nat, NEW I \in SUBSET (1 .. n), I # {}
  PROVE  Min(I) \in I /\ \A j \in I : Min(I) <= j
<1> DEFINE R == OpToRel(<, Nat)
<1>1. IsWellFoundedOn(R, Nat)
  BY NatLessThanWellFounded, Zenon
<1>2. I \subseteq Nat
  OBVIOUS
<1> HIDE DEF R
<1>3. PICK x \in I : \A y \in I : ~(<<y, x>> \in R)
  BY <1>1, <1>2, WFMin
<1>4. \A y \in I : ~(y < x)
  BY <1>2, <1>3 DEF R, OpToRel
<1>5. \A y \in I : x <= y
  BY <1>2, <1>4
<1> QED
  BY <1>5 DEF Min

DistinctIn(s) == \A i, j \in 1 .. Len(s) : s[i].ev = s[j].ev => i = j
Distinct == DistinctIn(list)

\* Where the item of an event is.
LEMMA PlaceIs ==
  ASSUME list \in Seq(Entry), NEW e \in Event
  PROVE  \/ Place(e) = 0 /\ \A i \in 1 .. Len(list) : list[i].ev # e
         \/ Place(e) \in 1 .. Len(list) /\ list[Place(e)].ev = e
<1> DEFINE I == {i \in 1 .. Len(list) : list[i].ev = e}
<1>1. e # ListHead
  BY AlarmAssumption
<1>2. Place(e) = IF I # {} THEN Min(I) ELSE 0
  BY <1>1 DEF Place, SelectInSeq
<1>3. Len(list) \in Nat
  OBVIOUS
<1>4. CASE I = {}
  BY <1>2, <1>4
<1>5. CASE I # {}
  <2>1. Min(I) \in I
    BY <1>3, <1>5, FirstPlace
  <2> QED
    BY <1>2, <1>5, <2>1
<1> QED
  BY <1>4, <1>5

LEMMA PlaceOf ==
  ASSUME list \in Seq(Entry), Distinct, NEW i \in 1 .. Len(list)
  PROVE  Place(list[i].ev) = i
<1>1. list[i].ev \in Event
  BY EntryFields
<1>2. Place(list[i].ev) \in 1 .. Len(list) /\ list[Place(list[i].ev)].ev = list[i].ev
  BY <1>1, PlaceIs
<1> QED
  BY <1>2 DEF Distinct, DistinctIn

LEMMA PlaceOfHead == Place(ListHead) = 0 /\ Linked(ListHead)
  BY DEF Place, Linked

LEMMA BeforeIs ==
  ASSUME list \in Seq(Entry), Distinct, NEW i \in 1 .. Len(list) + 1
  PROVE  /\ Before(i) \in Event \cup {ListHead} /\ Linked(Before(i))
         /\ Place(Before(i)) = i - 1
         /\ Before(i) = ListHead <=> i = 1
<1>0. Len(list) \in Nat
  OBVIOUS
<1>1. CASE i = 1
  BY <1>1, PlaceOfHead DEF Before
<1>2. CASE i # 1
  <2>1. i - 1 \in 1 .. Len(list) /\ Before(i) = list[i - 1].ev
    BY <1>0, <1>2 DEF Before
  <2>2. Before(i) \in Event /\ Place(Before(i)) = i - 1
    BY <2>1, PlaceOf, EntryFields
  <2> QED
    BY <1>0, <1>2, <2>1, <2>2, AlarmAssumption DEF Linked
<1> QED
  BY <1>1, <1>2

\* An item due at t is linked after those due before it and before the others.
LEMMA InsertAfterIs ==
  ASSUME list \in Seq(Entry), Distinct, NEW t \in Times
  PROVE  \E k \in 0 .. Len(list) :
           /\ InsertAfter(t) = Before(k + 1)
           /\ \A i \in 1 .. k : list[i].at <= t
           /\ k < Len(list) => t <= list[k + 1].at
<1> DEFINE I == {i \in 1 .. Len(list) : t <= list[i].at}
           m == IF I # {} THEN Min(I) ELSE 0
<1>0. Len(list) \in Nat /\ t \in Int /\ \A i \in 1 .. Len(list) : list[i].at \in Int
  BY EntryFields, TimesAreNumbers
<1>1. InsertAfter(t) = IF m > 0 THEN Before(m) ELSE IF list = <<>> THEN ListHead ELSE Last(list).ev
  BY DEF InsertAfter, SelectInSeq, NotBefore
<1>2. CASE I # {}
  <2>1. m \in I /\ \A j \in I : m <= j
    BY <1>0, <1>2, FirstPlace
  <2> HIDE DEF m
  <2>2. m - 1 \in 0 .. Len(list) /\ (m - 1) + 1 = m /\ m > 0
    BY <1>0, <2>1
  <2>3. \A i \in 1 .. m - 1 : list[i].at <= t
    <3>1. SUFFICES ASSUME NEW i \in 1 .. m - 1 PROVE list[i].at <= t
      OBVIOUS
    <3>2. i \in 1 .. Len(list) /\ ~(m <= i)
      BY <1>0, <2>2
    <3>3. i \notin I
      BY <2>1, <3>2
    <3> QED
      BY <1>0, <3>2, <3>3
  <2>4. t <= list[m].at
    BY <2>1
  <2> QED
    BY <1>1, <2>2, <2>3, <2>4
<1>3. CASE I = {}
  <2>1. m = 0
    BY <1>3
  <2>2. InsertAfter(t) = Before(Len(list) + 1)
    <3>1. CASE list = <<>>
      BY <1>1, <2>1, <3>1 DEF Before
    <3>2. CASE list # <<>>
      <4>1. Len(list) + 1 # 1 /\ (Len(list) + 1) - 1 = Len(list)
        BY <1>0, <3>2, EmptySeq
      <4> QED
        BY <1>1, <2>1, <3>2, <4>1 DEF Before, Last
    <3> QED
      BY <3>1, <3>2
  <2>3. \A i \in 1 .. Len(list) : list[i].at <= t
    BY <1>0, <1>3
  <2> QED
    BY <1>0, <2>2, <2>3
<1> QED
  BY <1>2, <1>3

-------------------------------------------------------------------------------
(* What the steps do to the list.                                          *)

LEMMA InsertAtIs ==
  ASSUME NEW s \in Seq(Entry), NEW x \in Entry, NEW k \in 1 .. Len(s) + 1
  PROVE  /\ InsertAt(s, k, x) \in Seq(Entry)
         /\ Len(InsertAt(s, k, x)) = Len(s) + 1
         /\ \A i \in 1 .. Len(s) + 1 : InsertAt(s, k, x)[i] =
              IF i < k THEN s[i] ELSE IF i = k THEN x ELSE s[i - 1]
<1> DEFINE a == SubSeq(s, 1, k - 1)
           b == <<x>>
           c == SubSeq(s, k, Len(s))
<1>0. Len(s) \in Nat /\ k \in Int /\ 1 <= k /\ k <= Len(s) + 1
  OBVIOUS
<1>1. \A i \in 1 .. Len(s) : s[i] \in Entry
  BY ElementOfSeq
<1>2. /\ a \in Seq(Entry) /\ Len(a) = k - 1
      /\ \A i \in 1 .. k - 1 : a[i] = s[i]
  <2>1. \A i \in 1 .. k - 1 : s[i] \in Entry
    BY <1>0, <1>1
  <2>2. /\ a \in Seq(Entry) /\ Len(a) = (IF 1 <= k - 1 THEN (k - 1) - 1 + 1 ELSE 0)
        /\ \A i \in 1 .. (k - 1) - 1 + 1 : a[i] = s[1 + i - 1]
    BY <1>0, <2>1, SubSeqProperties
  <2> HIDE DEF a
  <2>3. Len(a) = k - 1
    BY <1>0, <2>2
  <2>4. \A i \in 1 .. k - 1 : a[i] = s[i]
    <3>1. SUFFICES ASSUME NEW i \in 1 .. k - 1 PROVE a[i] = s[i]
      OBVIOUS
    <3>2. i \in 1 .. (k - 1) - 1 + 1 /\ 1 + i - 1 = i
      BY <1>0
    <3> QED
      BY <2>2, <3>2
  <2> QED
    BY <2>2, <2>3, <2>4
<1>3. /\ c \in Seq(Entry) /\ Len(c) = Len(s) - k + 1
      /\ \A i \in 1 .. Len(s) - k + 1 : c[i] = s[k + i - 1]
  <2>1. \A i \in k .. Len(s) : s[i] \in Entry
    BY <1>0, <1>1
  <2>2. /\ c \in Seq(Entry) /\ Len(c) = (IF k <= Len(s) THEN Len(s) - k + 1 ELSE 0)
        /\ \A i \in 1 .. Len(s) - k + 1 : c[i] = s[k + i - 1]
    BY <1>0, <2>1, SubSeqProperties
  <2> HIDE DEF c
  <2> QED
    BY <1>0, <2>2
<1>4. b \in Seq(Entry) /\ Len(b) = 1 /\ b[1] = x
  OBVIOUS
<1>5. InsertAt(s, k, x) = (a \o b) \o c
  BY DEF InsertAt
<1> HIDE DEF a, b, c
<1>6. /\ a \o b \in Seq(Entry) /\ Len(a \o b) = Len(a) + Len(b)
      /\ \A i \in 1 .. Len(a) + Len(b) : (a \o b)[i] = IF i <= Len(a) THEN a[i] ELSE b[i - Len(a)]
  BY <1>2, <1>4, ConcatProperties
<1> DEFINE d == a \o b
<1>7. d \in Seq(Entry) /\ Len(d) = k /\ \A i \in 1 .. k : d[i] = IF i < k THEN s[i] ELSE x
  <2>1. Len(d) = k
    BY <1>0, <1>2, <1>4, <1>6
  <2>2. ASSUME NEW i \in 1 .. k PROVE d[i] = IF i < k THEN s[i] ELSE x
    <3>1. d[i] = IF i <= Len(a) THEN a[i] ELSE b[i - Len(a)]
      BY <1>0, <1>2, <1>4, <1>6
    <3>2. CASE i < k
      <4>1. i <= Len(a) /\ i \in 1 .. k - 1
        BY <1>0, <1>2, <3>2
      <4> QED
        BY <1>2, <3>1, <3>2, <4>1
    <3>3. CASE i = k
      <4>1. ~(i <= Len(a)) /\ i - Len(a) = 1
        BY <1>0, <1>2, <3>3
      <4> QED
        BY <1>0, <1>4, <3>1, <3>3, <4>1
    <3>4. i < k \/ i = k
      BY <1>0
    <3> QED
      BY <3>2, <3>3, <3>4
  <2>3. d \in Seq(Entry)
    BY <1>6
  <2> HIDE DEF d
  <2> QED
    BY <2>1, <2>2, <2>3
<1> HIDE DEF d
<1>8. InsertAt(s, k, x) = d \o c
  BY <1>5 DEF d
<1>9. /\ d \o c \in Seq(Entry) /\ Len(d \o c) = Len(d) + Len(c)
      /\ \A i \in 1 .. Len(d) + Len(c) : (d \o c)[i] = IF i <= Len(d) THEN d[i] ELSE c[i - Len(d)]
  BY <1>3, <1>7, ConcatProperties
<1>10. Len(d) + Len(c) = Len(s) + 1
  BY <1>0, <1>3, <1>7
<1>11. ASSUME NEW i \in 1 .. Len(s) + 1
       PROVE  (d \o c)[i] = IF i < k THEN s[i] ELSE IF i = k THEN x ELSE s[i - 1]
  <2>1. (d \o c)[i] = IF i <= k THEN d[i] ELSE c[i - k]
    BY <1>7, <1>9, <1>10
  <2>2. CASE i <= k
    <3>1. i \in 1 .. k
      BY <1>0, <2>2
    <3>2. d[i] = IF i < k THEN s[i] ELSE x
      BY <1>7, <3>1
    <3> QED
      BY <1>0, <2>1, <2>2, <3>2
  <2>3. CASE ~(i <= k)
    <3>1. i - k \in 1 .. Len(s) - k + 1 /\ k + (i - k) - 1 = i - 1 /\ ~(i < k) /\ i # k
      BY <1>0, <2>3
    <3>2. c[i - k] = s[i - 1]
      BY <1>3, <3>1
    <3> QED
      BY <2>1, <2>3, <3>1, <3>2
  <2> QED
    BY <2>2, <2>3
<1> QED
  BY <1>8, <1>9, <1>10, <1>11

LEMMA RemoveAtIs ==
  ASSUME NEW s \in Seq(Entry), NEW k \in 1 .. Len(s)
  PROVE  /\ RemoveAt(s, k) \in Seq(Entry)
         /\ Len(RemoveAt(s, k)) = Len(s) - 1
         /\ \A i \in 1 .. Len(s) - 1 : RemoveAt(s, k)[i] = IF i < k THEN s[i] ELSE s[i + 1]
<1> DEFINE a == SubSeq(s, 1, k - 1)
           c == SubSeq(s, k + 1, Len(s))
<1>0. Len(s) \in Nat /\ k \in Int /\ 1 <= k /\ k <= Len(s)
  OBVIOUS
<1>1. \A i \in 1 .. Len(s) : s[i] \in Entry
  BY ElementOfSeq
<1>2. /\ a \in Seq(Entry) /\ Len(a) = k - 1
      /\ \A i \in 1 .. k - 1 : a[i] = s[i]
  <2>1. \A i \in 1 .. k - 1 : s[i] \in Entry
    BY <1>0, <1>1
  <2>2. /\ a \in Seq(Entry) /\ Len(a) = (IF 1 <= k - 1 THEN (k - 1) - 1 + 1 ELSE 0)
        /\ \A i \in 1 .. (k - 1) - 1 + 1 : a[i] = s[1 + i - 1]
    BY <1>0, <2>1, SubSeqProperties
  <2> HIDE DEF a
  <2>3. Len(a) = k - 1
    BY <1>0, <2>2
  <2>4. \A i \in 1 .. k - 1 : a[i] = s[i]
    <3>1. SUFFICES ASSUME NEW i \in 1 .. k - 1 PROVE a[i] = s[i]
      OBVIOUS
    <3>2. i \in 1 .. (k - 1) - 1 + 1 /\ 1 + i - 1 = i
      BY <1>0
    <3> QED
      BY <2>2, <3>2
  <2> QED
    BY <2>2, <2>3, <2>4
<1>3. /\ c \in Seq(Entry) /\ Len(c) = Len(s) - k
      /\ \A i \in 1 .. Len(s) - k : c[i] = s[k + i]
  <2>1. \A i \in k + 1 .. Len(s) : s[i] \in Entry
    BY <1>0, <1>1
  <2>2. /\ c \in Seq(Entry)
        /\ Len(c) = (IF k + 1 <= Len(s) THEN Len(s) - (k + 1) + 1 ELSE 0)
        /\ \A i \in 1 .. Len(s) - (k + 1) + 1 : c[i] = s[(k + 1) + i - 1]
    BY <1>0, <2>1, SubSeqProperties
  <2> HIDE DEF c
  <2>3. Len(c) = Len(s) - k
    BY <1>0, <2>2
  <2>4. \A i \in 1 .. Len(s) - k : c[i] = s[k + i]
    <3>1. SUFFICES ASSUME NEW i \in 1 .. Len(s) - k PROVE c[i] = s[k + i]
      OBVIOUS
    <3>2. i \in 1 .. Len(s) - (k + 1) + 1 /\ (k + 1) + i - 1 = k + i
      BY <1>0
    <3> QED
      BY <2>2, <3>2
  <2> QED
    BY <2>2, <2>3, <2>4
<1>4. RemoveAt(s, k) = a \o c
  BY DEF RemoveAt
<1> HIDE DEF a, c
<1>5. /\ a \o c \in Seq(Entry) /\ Len(a \o c) = Len(a) + Len(c)
      /\ \A i \in 1 .. Len(a) + Len(c) : (a \o c)[i] = IF i <= Len(a) THEN a[i] ELSE c[i - Len(a)]
  BY <1>2, <1>3, ConcatProperties
<1>6. Len(a) + Len(c) = Len(s) - 1
  BY <1>0, <1>2, <1>3
<1>7. ASSUME NEW i \in 1 .. Len(s) - 1
      PROVE  (a \o c)[i] = IF i < k THEN s[i] ELSE s[i + 1]
  <2>1. (a \o c)[i] = IF i <= k - 1 THEN a[i] ELSE c[i - (k - 1)]
    BY <1>2, <1>5, <1>6
  <2>2. CASE i < k
    <3>1. i \in 1 .. k - 1 /\ i <= k - 1
      BY <1>0, <2>2
    <3> QED
      BY <1>2, <2>1, <2>2, <3>1
  <2>3. CASE ~(i < k)
    <3>1. i - (k - 1) \in 1 .. Len(s) - k /\ k + (i - (k - 1)) = i + 1 /\ ~(i <= k - 1)
      BY <1>0, <2>3
    <3>2. c[i - (k - 1)] = s[i + 1]
      BY <1>3, <3>1
    <3> QED
      BY <2>1, <2>3, <3>1, <3>2
  <2> QED
    BY <2>2, <2>3
<1> QED
  BY <1>4, <1>5, <1>6, <1>7

\* The flags of a list may change without its order.
LEMMA FlagsIs ==
  ASSUME NEW s \in Seq(Entry), NEW f \in [1 .. Len(s) -> BOOLEAN]
  PROVE  LET r == [i \in DOMAIN s |-> [s[i] EXCEPT !.pending = f[i]]]
         IN  /\ r \in Seq(Entry) /\ Len(r) = Len(s)
             /\ \A i \in 1 .. Len(s) : r[i].ev = s[i].ev /\ r[i].at = s[i].at
                                       /\ r[i].pending = f[i]
<1> DEFINE n == Len(s)
           e(i) == [s[i] EXCEPT !.pending = f[i]]
           r == [i \in 1 .. n |-> e(i)]
<1>1. n \in Nat /\ DOMAIN s = 1 .. n
  OBVIOUS
<1>2. ASSUME NEW i \in 1 .. n
      PROVE  e(i) \in Entry /\ e(i).ev = s[i].ev /\ e(i).at = s[i].at /\ e(i).pending = f[i]
  <2>1. s[i] \in Entry /\ f[i] \in BOOLEAN
    BY EntryFields
  <2> QED
    BY <2>1 DEF Entry
<1> HIDE DEF e
<1>3. r \in Seq(Entry)
  BY <1>1, <1>2, IsASeq
<1>4. Len(r) = n
  BY <1>1, <1>3
<1>5. \A i \in 1 .. n : r[i] = e(i)
  OBVIOUS
<1>6. /\ r \in Seq(Entry) /\ Len(r) = n
      /\ \A i \in 1 .. n : r[i].ev = s[i].ev /\ r[i].at = s[i].at /\ r[i].pending = f[i]
  BY <1>2, <1>3, <1>4, <1>5
<1> QED
  BY <1>1, <1>6 DEF e
-------------------------------------------------------------------------------
(* What the handler leaves of the list: the items that are not done, in    *)
(* their order.                                                            *)

LEMMA Induction ==
  ASSUME NEW S, 0 \in S, \A n \in Nat : n \in S => n + 1 \in S
  PROVE  Nat \subseteq S
<1> DEFINE T == Nat \ S
           R == OpToRel(<, Nat)
<1>1. IsWellFoundedOn(R, Nat)
  BY NatLessThanWellFounded, Zenon
<1>2. SUFFICES ASSUME T # {} PROVE FALSE
  OBVIOUS
<1>3. T \subseteq Nat
  OBVIOUS
<1> HIDE DEF T, R
<1>4. PICK x \in T : \A y \in T : ~(<<y, x>> \in R)
  BY <1>1, <1>2, <1>3, WFMin
<1>5. \A y \in T : ~(y < x)
  BY <1>3, <1>4 DEF R, OpToRel
<1>6. x \in Nat /\ x \notin S /\ x # 0
  BY <1>3 DEF T
<1>7. x - 1 \in Nat /\ x - 1 \notin S
  BY <1>6
<1> QED
  BY <1>5, <1>6, <1>7 DEF T

WalkTo(f, t, n) ==
  IF n = 0 THEN <<>>
  ELSE IF IsDone(list[n], t) THEN f[n - 1] ELSE Append(f[n - 1], list[n])

\* r are the items among the first n that are not done; h says where each was.
LeftOf(n, t, r, h) ==
  /\ r \in Seq(Entry) /\ h \in [1 .. Len(r) -> 1 .. n]
  /\ \A k \in 1 .. Len(r) : r[k] = list[h[k]] /\ ~IsDone(list[h[k]], t)
  /\ \A k, l \in 1 .. Len(r) : k < l => h[k] < h[l]
  /\ \A i \in 1 .. n : IsDone(list[i], t) \/ \E k \in 1 .. Len(r) : h[k] = i

\* The recursion has a solution: the first n values exist, for each n.
LEMMA WalkExists ==
  ASSUME list \in Seq(Entry), NEW t
  PROVE  \E f : f = [n \in 0 .. Len(list) |-> WalkTo(f, t, n)]
<1> DEFINE m == Len(list)
           Good(f, n) == f \in [0 .. n -> Seq(Entry)] /\ \A k \in 0 .. n : f[k] = WalkTo(f, t, k)
           S == {n \in Nat : n <= m => \E f : Good(f, n)}
<1>0. m \in Nat
  OBVIOUS
<1> HIDE DEF Good
<1>1. 0 \in S
  <2> DEFINE f == [k \in 0 .. 0 |-> <<>>]
  <2>1. f \in [0 .. 0 -> Seq(Entry)] /\ \A k \in 0 .. 0 : f[k] = WalkTo(f, t, k)
    BY DEF WalkTo
  <2> HIDE DEF f
  <2> QED
    BY <2>1 DEF Good
<1>2. ASSUME NEW n \in Nat, n \in S PROVE n + 1 \in S
  <2>1. SUFFICES ASSUME n + 1 <= m PROVE \E f : Good(f, n + 1)
    OBVIOUS
  <2>9. \E f : Good(f, n)
    BY <1>0, <1>2, <2>1
  <2>2. PICK f : f \in [0 .. n -> Seq(Entry)] /\ \A k \in 0 .. n : f[k] = WalkTo(f, t, k)
    BY <2>9, Zenon DEF Good
  <2> DEFINE g == [k \in 0 .. n + 1 |-> IF k <= n THEN f[k] ELSE WalkTo(f, t, n + 1)]
  <2>3. n + 1 \in 1 .. m /\ n \in 0 .. n /\ (n + 1) - 1 = n /\ n + 1 # 0
    BY <1>0, <2>1
  <2>4. f[n] \in Seq(Entry) /\ list[n + 1] \in Entry
    BY <2>2, <2>3, ElementOfSeq
  <2>5. Append(f[n], list[n + 1]) \in Seq(Entry)
    BY <2>4, AppendProperties
  <2>6. WalkTo(f, t, n + 1) \in Seq(Entry)
    BY <2>3, <2>4, <2>5 DEF WalkTo
  <2>7. g \in [0 .. n + 1 -> Seq(Entry)]
    <3>1. ASSUME NEW k \in 0 .. n + 1, k <= n PROVE f[k] \in Seq(Entry)
      <4>1. k \in 0 .. n
        BY <3>1
      <4> QED
        BY <2>2, <4>1
    <3> QED
      BY <2>6, <3>1
  <2>8. ASSUME NEW k \in 0 .. n + 1 PROVE g[k] = WalkTo(g, t, k)
    <3>1. CASE k = 0
      <4>1. g[0] = f[0] /\ f[0] = WalkTo(f, t, 0)
        BY <2>2
      <4> QED
        BY <3>1, <4>1 DEF WalkTo
    <3>2. CASE k # 0 /\ k <= n
      <4>1. k \in 0 .. n /\ k - 1 \in 0 .. n + 1 /\ k - 1 <= n
        BY <3>2
      <4>2. g[k] = f[k] /\ g[k - 1] = f[k - 1]
        BY <3>2, <4>1
      <4>3. f[k] = WalkTo(f, t, k)
        BY <2>2, <4>1
      <4> HIDE DEF g
      <4> QED
        BY <4>2, <4>3 DEF WalkTo
    <3>3. CASE k = n + 1
      <4>1. g[n + 1] = WalkTo(f, t, n + 1) /\ g[n] = f[n]
        BY <2>3
      <4> HIDE DEF g
      <4> QED
        BY <2>3, <3>3, <4>1 DEF WalkTo
    <3>4. k = 0 \/ (k # 0 /\ k <= n) \/ k = n + 1
      OBVIOUS
    <3> HIDE DEF g
    <3> QED
      BY <3>1, <3>2, <3>3, <3>4
  <2> HIDE DEF g
  <2> QED
    BY <2>7, <2>8 DEF Good
<1>3. m \in S
  <2> HIDE DEF S
  <2> QED
    BY <1>0, <1>1, <1>2, Induction
<1>4. PICK f : Good(f, m)
  BY <1>0, <1>3
<1>5. f = [n \in 0 .. m |-> WalkTo(f, t, n)]
  BY <1>4 DEF Good
<1> QED
  BY <1>5

LEMMA RemainingIs ==
  ASSUME list \in Seq(Entry), NEW t
  PROVE  \E h : LeftOf(Len(list), t, Remaining(t), h)
<1> DEFINE m == Len(list)
           f == CHOOSE f : f = [n \in 0 .. Len(list) |->
                  IF n = 0 THEN <<>>
                  ELSE IF IsDone(list[n], t) THEN f[n - 1] ELSE Append(f[n - 1], list[n])]
           S == {n \in Nat : n <= m => \E h : LeftOf(n, t, f[n], h)}
<1>0. m \in Nat
  OBVIOUS
<1>1. Remaining(t) = f[m]
  BY DEF Remaining
<1>2. f = [n \in 0 .. m |-> WalkTo(f, t, n)]
  BY WalkExists DEF WalkTo
<1> HIDE DEF f
<1>3. \A n \in 0 .. m : f[n] = WalkTo(f, t, n)
  BY <1>2
<1>4. 0 \in S
  <2>1. f[0] = <<>>
    BY <1>0, <1>3 DEF WalkTo
  <2> DEFINE h == [k \in 1 .. 0 |-> k]
  <2>2. h \in [1 .. Len(<<>>) -> 1 .. 0] /\ 1 .. Len(<<>>) = {} /\ 1 .. 0 = {}
    BY EmptySeq
  <2>3. <<>> \in Seq(Entry)
    OBVIOUS
  <2> HIDE DEF h
  <2>4. LeftOf(0, t, <<>>, h)
    BY <2>2, <2>3 DEF LeftOf
  <2> QED
    BY <2>1, <2>4
<1>5. ASSUME NEW n \in Nat, n \in S PROVE n + 1 \in S
  <2>1. SUFFICES ASSUME n + 1 <= m PROVE \E h : LeftOf(n + 1, t, f[n + 1], h)
    OBVIOUS
  <2>2. PICK h : LeftOf(n, t, f[n], h)
    BY <1>0, <1>5, <2>1
  <2>3. n + 1 \in 1 .. m /\ n \in 0 .. m /\ (n + 1) - 1 = n /\ n + 1 # 0 /\ n + 1 \in 0 .. m
    BY <1>0, <2>1
  <2>4. f[n + 1] = IF IsDone(list[n + 1], t) THEN f[n] ELSE Append(f[n], list[n + 1])
    BY <1>3, <2>3 DEF WalkTo
  <2> DEFINE r == f[n]
             q == Len(r)
             x == list[n + 1]
  <2>5. /\ r \in Seq(Entry) /\ h \in [1 .. q -> 1 .. n] /\ q \in Nat
        /\ \A k \in 1 .. q : r[k] = list[h[k]] /\ ~IsDone(list[h[k]], t)
        /\ \A k, l \in 1 .. q : k < l => h[k] < h[l]
        /\ \A i \in 1 .. n : IsDone(list[i], t) \/ \E k \in 1 .. q : h[k] = i
    BY <2>2 DEF LeftOf
  <2>6. x \in Entry
    BY <2>3, ElementOfSeq
  <2> HIDE DEF r, q, x
  <2>7. CASE IsDone(x, t)
    <3>1. f[n + 1] = r
      BY <2>4, <2>7 DEF r, x
    <3>2. h \in [1 .. q -> 1 .. n + 1]
      BY <2>5
    <3>3. ASSUME NEW i \in 1 .. n + 1 PROVE IsDone(list[i], t) \/ \E k \in 1 .. q : h[k] = i
      <4>1. i \in 1 .. n \/ i = n + 1
        OBVIOUS
      <4> QED
        BY <2>5, <2>7, <4>1 DEF x
    <3>4. LeftOf(n + 1, t, r, h)
      BY <2>5, <3>2, <3>3 DEF LeftOf, q
    <3> QED
      BY <3>1, <3>4
  <2>8. CASE ~IsDone(x, t)
    <3> DEFINE s == Append(r, x)
               g == [k \in 1 .. q + 1 |-> IF k <= q THEN h[k] ELSE n + 1]
    <3>1. f[n + 1] = s
      BY <2>4, <2>8 DEF r, x
    <3>2. /\ s \in Seq(Entry) /\ Len(s) = q + 1
          /\ \A k \in 1 .. q : s[k] = r[k]
          /\ s[q + 1] = x
      BY <2>5, <2>6, AppendProperties DEF q
    <3>3. \A k \in 1 .. q : g[k] = h[k] /\ h[k] \in 1 .. n
      BY <2>5
    <3>4. g[q + 1] = n + 1
      BY <2>5
    <3>5. \A k \in 1 .. q + 1 : k \in 1 .. q \/ k = q + 1
      BY <2>5
    <3>6. g \in [1 .. q + 1 -> 1 .. n + 1]
      BY <2>5, <3>3, <3>5
    <3> HIDE DEF s, g
    <3>7. ASSUME NEW k \in 1 .. q + 1 PROVE s[k] = list[g[k]] /\ ~IsDone(list[g[k]], t)
      BY <2>5, <2>8, <3>2, <3>3, <3>4, <3>5 DEF x
    <3>8. ASSUME NEW k \in 1 .. q + 1, NEW l \in 1 .. q + 1, k < l PROVE g[k] < g[l]
      <4>1. k \in 1 .. q /\ q \in Nat
        BY <2>5, <3>8
      <4>2. CASE l \in 1 .. q
        BY <2>5, <3>3, <3>8, <4>1, <4>2
      <4>3. CASE l = q + 1
        <5>1. g[k] \in 1 .. n /\ g[l] = n + 1
          BY <3>3, <3>4, <4>1, <4>3
        <5> QED
          BY <5>1
      <4> QED
        BY <3>5, <4>2, <4>3
    <3>9. ASSUME NEW i \in 1 .. n + 1 PROVE IsDone(list[i], t) \/ \E k \in 1 .. q + 1 : g[k] = i
      <4>1. CASE i \in 1 .. n
        <5>1. ASSUME NEW k \in 1 .. q, h[k] = i PROVE \E l \in 1 .. q + 1 : g[l] = i
          <6>1. k \in 1 .. q + 1 /\ g[k] = i
            BY <2>5, <3>3, <5>1
          <6> QED
            BY <6>1
        <5> QED
          BY <2>5, <4>1, <5>1
      <4>2. CASE i = n + 1
        <5>1. q + 1 \in 1 .. q + 1
          BY <2>5
        <5> QED
          BY <3>4, <4>2, <5>1
      <4>3. i \in 1 .. n \/ i = n + 1
        OBVIOUS
      <4> QED
        BY <4>1, <4>2, <4>3
    <3>10. LeftOf(n + 1, t, s, g)
      BY <3>2, <3>6, <3>7, <3>8, <3>9 DEF LeftOf
    <3> QED
      BY <3>1, <3>10
  <2> QED
    BY <2>7, <2>8
<1>6. m \in S
  <2> HIDE DEF S
  <2> QED
    BY <1>0, <1>4, <1>5, Induction
<1> QED
  BY <1>0, <1>1, <1>6
-------------------------------------------------------------------------------
DoneAt(t) == {i \in DOMAIN list : IsDone(list[i], t)}

\* Each item is left or done.
LEMMA RemainingCount ==
  ASSUME list \in Seq(Entry), NEW t
  PROVE  /\ Cardinality(DoneAt(t)) \in Nat
         /\ Len(Remaining(t)) = Len(list) - Cardinality(DoneAt(t))
         /\ DoneAt(t) = {} => Len(Remaining(t)) = Len(list)
<1> DEFINE n == Len(list)
           r == Remaining(t)
           D == DoneAt(t)
           K == (1 .. n) \ D
<1>0. n \in Nat /\ DOMAIN list = 1 .. n
  OBVIOUS
<1>1. PICK h : LeftOf(n, t, r, h)
  BY RemainingIs
<1> HIDE DEF r
<1>2. Len(r) \in Nat /\ h \in [1 .. Len(r) -> 1 .. n]
  BY <1>1 DEF LeftOf
<1>3. h \in [1 .. Len(r) -> K]
  <2>1. \A k \in 1 .. Len(r) : h[k] \in K
    BY <1>0, <1>1 DEF LeftOf, DoneAt
  <2> HIDE DEF K
  <2> QED
    BY <1>2, <2>1
<1>4. \A k, l \in 1 .. Len(r) : h[k] = h[l] => k = l
  <2>1. SUFFICES ASSUME NEW k \in 1 .. Len(r), NEW l \in 1 .. Len(r), h[k] = h[l], k # l
                 PROVE  FALSE
    OBVIOUS
  <2>2. k < l \/ l < k
    BY <1>2, <2>1
  <2>3. h[k] < h[l] \/ h[l] < h[k]
    BY <1>1, <2>2 DEF LeftOf
  <2>4. h[k] \in Int
    BY <1>2
  <2> QED
    BY <2>1, <2>3, <2>4
<1>5. \A i \in K : \E k \in 1 .. Len(r) : h[k] = i
  BY <1>0, <1>1 DEF LeftOf, DoneAt
<1>6. ExistsBijection(1 .. Len(r), K)
  <2> HIDE DEF K
  <2>1. h \in Injection(1 .. Len(r), K)
    BY <1>3, <1>4, Zenon DEF Injection, IsInjective
  <2>2. h \in Surjection(1 .. Len(r), K)
    BY <1>3, <1>5, Zenon DEF Surjection
  <2> QED
    BY <2>1, <2>2 DEF ExistsBijection, Bijection
<1>7. Cardinality(K) = Len(r)
  <2> HIDE DEF K
  <2> QED
    BY <1>2, <1>6, FS_CountingElements
<1>8. IsFiniteSet(1 .. n) /\ Cardinality(1 .. n) = n
  BY <1>0, FS_Interval, SMTT(30)
<1>9. D \subseteq 1 .. n
  BY <1>0 DEF DoneAt
<1>10. IsFiniteSet(D) /\ Cardinality(D) \in Nat
  BY <1>8, <1>9, FS_Subset, FS_CardinalityType
<1>11. Cardinality(K) = n - Cardinality(D)
  <2> DEFINE I == 1 .. n
  <2>1. I \cap D = D /\ K = I \ D
    BY <1>9
  <2>2. IsFiniteSet(I) /\ Cardinality(I) = n
    BY <1>8
  <2> HIDE DEF n, r, D, I, K
  <2>3. Cardinality(I \ D) = Cardinality(I) - Cardinality(I \cap D)
    BY <2>2, FS_Difference, Zenon
  <2> QED
    BY <2>1, <2>2, <2>3
<1>12. D = {} => Cardinality(D) = 0
  BY FS_EmptySet
<1> QED
  BY <1>0, <1>7, <1>10, <1>11, <1>12 DEF r

\* If none is done the list stays.
LEMMA RemainingAll ==
  ASSUME list \in Seq(Entry), NEW t, DoneAt(t) = {}
  PROVE  Remaining(t) = list
<1> DEFINE n == Len(list)
           r == Remaining(t)
<1>0. n \in Nat /\ DOMAIN list = 1 .. n
  OBVIOUS
<1>1. PICK h : LeftOf(n, t, r, h)
  BY RemainingIs
<1>2. Len(r) = n
  BY RemainingCount
<1> HIDE DEF r
<1>3. /\ h \in [1 .. n -> 1 .. n] /\ r \in Seq(Entry)
      /\ \A k, l \in 1 .. n : k < l => h[k] < h[l]
      /\ \A k \in 1 .. n : r[k] = list[h[k]]
  BY <1>1, <1>2 DEF LeftOf
<1>4. \A k \in 1 .. n : h[k] \in 1 .. n
  BY <1>3
<1> HIDE DEF n
<1>5. \A k \in 1 .. n : k <= h[k]
  <2> DEFINE S == {k \in Nat : k \in 1 .. n => k <= h[k]}
  <2>1. 0 \in S
    OBVIOUS
  <2>2. ASSUME NEW k \in Nat, k \in S PROVE k + 1 \in S
    <3>1. SUFFICES ASSUME k + 1 \in 1 .. n PROVE k + 1 <= h[k + 1]
      OBVIOUS
    <3>2. CASE k = 0
      BY <1>4, <3>1, <3>2
    <3>3. CASE k # 0
      <4>1. k \in 1 .. n /\ k < k + 1
        BY <1>0, <3>1, <3>3
      <4>2. k <= h[k] /\ h[k] < h[k + 1] /\ h[k] \in 1 .. n /\ h[k + 1] \in 1 .. n
        BY <1>3, <1>4, <2>2, <3>1, <4>1
      <4> QED
        BY <4>2
    <3> QED
      BY <3>2, <3>3
  <2> HIDE DEF S
  <2>3. Nat \subseteq S
    BY <2>1, <2>2, Induction
  <2> QED
    BY <1>0, <2>3 DEF S
<1>6. \A k \in 1 .. n : h[k] <= k
  <2> DEFINE S == {j \in Nat : j < n => h[n - j] <= n - j}
  <2>1. 0 \in S
    <3>1. ASSUME 0 < n PROVE h[n - 0] <= n - 0
      <4>1. n \in 1 .. n /\ n - 0 = n
        BY <1>0, <3>1
      <4> QED
        BY <1>4, <4>1
    <3> QED
      BY <3>1
  <2>2. ASSUME NEW j \in Nat, j \in S PROVE j + 1 \in S
    <3>1. SUFFICES ASSUME j + 1 < n PROVE h[n - (j + 1)] <= n - (j + 1)
      OBVIOUS
    <3> DEFINE k == n - (j + 1)
               l == n - j
    <3>2. k \in 1 .. n /\ l \in 1 .. n /\ k < l /\ k + 1 = l /\ j < n
      BY <1>0, <3>1
    <3>3. h[l] <= l
      BY <2>2, <3>2
    <3> HIDE DEF k, l
    <3>4. h[k] < h[l] /\ h[k] \in 1 .. n /\ h[l] \in 1 .. n
      BY <1>3, <1>4, <3>2
    <3>5. h[k] <= k
      BY <1>0, <3>2, <3>3, <3>4
    <3> QED
      BY <3>5 DEF k
  <2> HIDE DEF S
  <2>3. Nat \subseteq S
    BY <2>1, <2>2, Induction
  <2>4. SUFFICES ASSUME NEW k \in 1 .. n PROVE h[k] <= k
    OBVIOUS
  <2>5. n - k \in Nat /\ n - k < n /\ n - (n - k) = k
    BY <1>0
  <2>6. n - k \in S
    BY <2>3, <2>5
  <2>7. h[n - (n - k)] <= n - (n - k)
    BY <2>5, <2>6 DEF S
  <2> QED
    BY <2>5, <2>7
<1>7. \A k \in 1 .. n : h[k] = k
  BY <1>0, <1>4, <1>5, <1>6
<1>8. \A k \in 1 .. n : r[k] = list[k]
  BY <1>3, <1>7
<1>9. r = list
  BY <1>2, <1>3, <1>8, SeqEqual DEF n
<1> QED
  BY <1>9 DEF r
-------------------------------------------------------------------------------
(* The shape of the list, whatever the handler does to it under add_item.  *)

\* add_item has an item in its hand that is not, or not any more, in the list.
Taking == {"unlink", "malloc", "walk", "link"}
InHand == IF pc \in {"walk", "link"} THEN 1 ELSE 0

ListShape == list \in Seq(Entry) /\ Distinct

HandShape ==
  /\ p_temp \in Item /\ p_item \in Event \cup {ListHead}
  /\ pc \in Taking => p_temp \in Entry
  /\ pc \in Taking \ {"unlink"} => \A i \in 1 .. Len(list) : list[i].ev # p_temp.ev

TableShape == used \in Nat /\ used <= TableLen /\ Len(list) + InHand <= used

Shape == ListShape /\ HandShape /\ TableShape

\* What Search finds.
Asking ==
  pc = "search" => asked \in Event /\ set_time \in Times

LEMMA ShapeInit == Init => Shape
<1> SUFFICES ASSUME Init PROVE Shape
  OBVIOUS
<1>1. list = <<>> /\ used = 0 /\ pc = "idle" /\ p_item = ListHead /\ p_temp = NoItem
  BY DEF Init
<1>2. list \in Seq(Entry) /\ Len(list) = 0
  BY <1>1
<1>3. ListShape
  BY <1>2 DEF ListShape, Distinct, DistinctIn
<1>4. HandShape
  BY <1>1, TimesAreNumbers DEF HandShape, Item, NoItem, Taking
<1>5. TableShape
  BY <1>1, <1>2, AlarmAssumption DEF TableShape, InHand
<1> QED
  BY <1>3, <1>4, <1>5 DEF Shape

\* Steps that leave the list and the item in hand alone.
LEMMA ShapeKept ==
  ASSUME Shape, UNCHANGED <<queue, p_temp, p_item>>, pc' \notin Taking \/ pc' = pc
  PROVE  Shape'
<1>1. UNCHANGED <<list, used, p_temp, p_item>>
  BY DEF queue
<1>2. ListShape'
  BY <1>1 DEF Shape, ListShape, Distinct, DistinctIn
<1>3. HandShape'
  BY <1>1 DEF Shape, HandShape
<1>4. InHand' <= InHand /\ InHand' \in Nat /\ InHand \in Nat
  BY DEF InHand, Taking
<1>5. Len(list) \in Nat
  BY DEF Shape, ListShape
<1>6. TableShape'
  BY <1>1, <1>4, <1>5 DEF Shape, TableShape
<1> QED
  BY <1>2, <1>3, <1>6 DEF Shape

LEMMA ShapeSearch == ASSUME Shape, Asking, Search PROVE Shape'
<1>1. /\ UNCHANGED <<list, used>> /\ pc = "search"
      /\ pc' = IF Place(asked) > 0 THEN "unlink" ELSE "malloc"
      /\ p_item' = IF Place(asked) > 0 THEN Before(Place(asked)) ELSE ListHead
      /\ p_temp' = [ev |-> asked, at |-> set_time, pending |-> FALSE]
  BY DEF Search, Step, queue
<1>2. asked \in Event /\ set_time \in Times
  BY <1>1 DEF Asking
<1>3. list \in Seq(Entry) /\ Distinct /\ Len(list) \in Nat
  BY DEF Shape, ListShape
<1>4. ListShape'
  BY <1>1, <1>3 DEF ListShape, Distinct, DistinctIn
<1>5. p_temp' \in Entry /\ p_temp'.ev = asked
  BY <1>1, <1>2 DEF Entry
<1>6. p_temp' \in Item
  BY <1>5 DEF Entry, Item
<1>7. \/ Place(asked) = 0 /\ \A i \in 1 .. Len(list) : list[i].ev # asked
      \/ Place(asked) \in 1 .. Len(list)
  BY <1>2, <1>3, PlaceIs
<1>8. CASE Place(asked) = 0 /\ \A i \in 1 .. Len(list) : list[i].ev # asked
  <2>1. pc' = "malloc" /\ p_item' = ListHead
    BY <1>1, <1>8
  <2>2. HandShape'
    BY <1>1, <1>5, <1>6, <1>8, <2>1 DEF HandShape
  <2>3. TableShape'
    BY <1>1, <1>3, <2>1 DEF Shape, TableShape, InHand
  <2> QED
    BY <1>4, <2>2, <2>3 DEF Shape
<1>9. CASE Place(asked) \in 1 .. Len(list)
  <2>1. Place(asked) > 0 /\ Place(asked) \in 1 .. Len(list) + 1
    BY <1>3, <1>9
  <2>2. pc' = "unlink" /\ p_item' = Before(Place(asked))
    BY <1>1, <2>1
  <2>3. p_item' \in Event \cup {ListHead}
    BY <1>3, <2>1, <2>2, BeforeIs
  <2>4. HandShape'
    BY <1>5, <1>6, <2>2, <2>3 DEF HandShape
  <2>5. TableShape'
    BY <1>1, <1>3, <2>2 DEF Shape, TableShape, InHand
  <2> QED
    BY <1>4, <2>4, <2>5 DEF Shape
<1> QED
  BY <1>7, <1>8, <1>9

\* The list that Unlink leaves: without the item at k, the flag of p_item's cleared.
Cleared == [i \in DOMAIN list |->
              [list[i] EXCEPT !.pending = list[i].pending /\ list[i].ev # p_item]]

LEMMA ClearedIs ==
  ASSUME list \in Seq(Entry)
  PROVE  /\ Cleared \in Seq(Entry) /\ Len(Cleared) = Len(list)
         /\ \A i \in 1 .. Len(list) :
              /\ Cleared[i].ev = list[i].ev /\ Cleared[i].at = list[i].at
              /\ Cleared[i].pending => list[i].pending
<1> DEFINE f == [i \in 1 .. Len(list) |-> list[i].pending /\ list[i].ev # p_item]
           r == [i \in DOMAIN list |-> [list[i] EXCEPT !.pending = f[i]]]
<1>0. DOMAIN list = 1 .. Len(list)
  OBVIOUS
<1>1. f \in [1 .. Len(list) -> BOOLEAN]
  OBVIOUS
<1>2. \A i \in 1 .. Len(list) : f[i] = (list[i].pending /\ list[i].ev # p_item)
  OBVIOUS
<1>3. Cleared = r
  BY <1>0, <1>2 DEF Cleared
<1> HIDE DEF f
<1>4. /\ r \in Seq(Entry) /\ Len(r) = Len(list)
      /\ \A i \in 1 .. Len(list) : r[i].ev = list[i].ev /\ r[i].at = list[i].at
                                   /\ r[i].pending = f[i]
  BY <1>1, FlagsIs
<1> HIDE DEF r
<1>5. \A i \in 1 .. Len(list) : f[i] => list[i].pending
  BY <1>2
<1> QED
  BY <1>3, <1>4, <1>5

\* Where Unlink takes an item, and what it leaves.
Unlinked(k) ==
  /\ k \in 1 .. Len(list) /\ k = Place(p_item) + 1
  /\ p_temp'.ev = list[k].ev /\ p_temp'.at = p_temp.at
  /\ p_temp'.pending = list[k].pending
  /\ list' \in Seq(Entry) /\ Len(list') = Len(list) - 1
  /\ \A i \in 1 .. Len(list) - 1 :
       LET j == IF i < k THEN i ELSE i + 1
       IN  /\ j \in 1 .. Len(list) /\ j # k
           /\ list'[i].ev = list[j].ev /\ list'[i].at = list[j].at
           /\ list'[i].pending => list[j].pending

LEMMA UnlinkIs ==
  ASSUME Shape, Unlink PROVE Unlinked(Place(p_item) + 1) /\ p_temp' \in Entry
<1> DEFINE k == Place(p_item) + 1
<1>1. /\ Place(p_item) < Len(list) /\ pc = "unlink"
      /\ p_temp' = [list[k] EXCEPT !.at = p_temp.at]
      /\ list' = RemoveAt(Cleared, k)
  BY DEF Unlink, Step, Cleared
<1>2. list \in Seq(Entry) /\ Len(list) \in Nat
  BY DEF Shape, ListShape
<1>3. p_item \in Event \cup {ListHead} /\ p_temp \in Entry
  BY <1>1 DEF Shape, HandShape, Taking
<1>4. Place(p_item) = 0 \/ Place(p_item) \in 1 .. Len(list)
  BY <1>2, <1>3, PlaceIs, PlaceOfHead
<1>5. k \in 1 .. Len(list)
  BY <1>1, <1>2, <1>4
<1> HIDE DEF k
<1>6. list[k] \in Entry /\ p_temp.at \in Times
  BY <1>2, <1>3, <1>5, EntryFields DEF Entry
<1>7. /\ p_temp'.ev = list[k].ev /\ p_temp'.at = p_temp.at
      /\ p_temp'.pending = list[k].pending /\ p_temp' \in Entry
  BY <1>1, <1>6 DEF Entry
<1> DEFINE s == Cleared
<1>8. /\ s \in Seq(Entry) /\ Len(s) = Len(list)
      /\ \A i \in 1 .. Len(list) : s[i].ev = list[i].ev /\ s[i].at = list[i].at
                                   /\ (s[i].pending => list[i].pending)
  BY <1>2, ClearedIs
<1> HIDE DEF s
<1>9. /\ list' \in Seq(Entry) /\ Len(list') = Len(list) - 1
      /\ \A i \in 1 .. Len(list) - 1 : list'[i] = IF i < k THEN s[i] ELSE s[i + 1]
  BY <1>1, <1>5, <1>8, RemoveAtIs DEF s
<1>10. ASSUME NEW i \in 1 .. Len(list) - 1
       PROVE  LET j == IF i < k THEN i ELSE i + 1
              IN  /\ j \in 1 .. Len(list) /\ j # k
                  /\ list'[i].ev = list[j].ev /\ list'[i].at = list[j].at
                  /\ list'[i].pending => list[j].pending
  <2> DEFINE j == IF i < k THEN i ELSE i + 1
  <2>1. j \in 1 .. Len(list) /\ j # k
    BY <1>2, <1>5
  <2>2. list'[i] = s[j]
    BY <1>9
  <2> HIDE DEF j
  <2>3. /\ j \in 1 .. Len(list) /\ j # k
        /\ list'[i].ev = list[j].ev /\ list'[i].at = list[j].at
        /\ list'[i].pending => list[j].pending
    BY <1>8, <2>1, <2>2
  <2> QED
    BY <2>3 DEF j
<1>11. k = Place(p_item) + 1
  BY DEF k
<1>12. Unlinked(k)
  BY <1>5, <1>7, <1>9, <1>10, <1>11 DEF Unlinked
<1> QED
  BY <1>7, <1>12 DEF k

LEMMA ShapeUnlink == ASSUME Shape, Unlink PROVE Shape'
<1> DEFINE k == Place(p_item) + 1
<1>1. Unlinked(k) /\ p_temp' \in Entry
  BY UnlinkIs
<1> HIDE DEF k
<1>2. pc = "unlink" /\ pc' = "walk" /\ UNCHANGED <<used, p_item>>
  BY DEF Unlink, Step
<1>3. list \in Seq(Entry) /\ Len(list) \in Nat /\ Distinct
  BY DEF Shape, ListShape
<1>4. ASSUME NEW i \in 1 .. Len(list)
      PROVE  list[i].ev = list[k].ev => i = k
  BY <1>1, <1>3 DEF Unlinked, Distinct, DistinctIn
<1>5. ASSUME NEW i \in 1 .. Len(list'), NEW j \in 1 .. Len(list'), list'[i].ev = list'[j].ev
      PROVE  i = j
  <2> DEFINE a == IF i < k THEN i ELSE i + 1
             b == IF j < k THEN j ELSE j + 1
  <2>1. a \in 1 .. Len(list) /\ b \in 1 .. Len(list) /\ list[a].ev = list[b].ev
    BY <1>1, <1>5 DEF Unlinked
  <2>2. a = b
    BY <1>3, <2>1 DEF Distinct, DistinctIn
  <2>3. i \in Nat /\ j \in Nat /\ k \in Nat
    BY <1>1, <1>3 DEF Unlinked
  <2> QED
    BY <2>2, <2>3
<1>6. ListShape'
  BY <1>1, <1>5 DEF ListShape, Distinct, DistinctIn, Unlinked
<1>7. ASSUME NEW i \in 1 .. Len(list') PROVE list'[i].ev # p_temp'.ev
  <2> DEFINE a == IF i < k THEN i ELSE i + 1
  <2>1. a \in 1 .. Len(list) /\ a # k /\ list'[i].ev = list[a].ev /\ p_temp'.ev = list[k].ev
    BY <1>1 DEF Unlinked
  <2> HIDE DEF a
  <2> QED
    BY <1>4, <2>1
<1>8. p_temp' \in Item
  BY <1>1 DEF Entry, Item
<1>9. HandShape'
  BY <1>1, <1>2, <1>7, <1>8 DEF Shape, HandShape
<1>10. TableShape'
  BY <1>1, <1>2, <1>3 DEF Shape, TableShape, InHand, Unlinked
<1> QED
  BY <1>6, <1>9, <1>10 DEF Shape

LEMMA ShapeMalloc == ASSUME Shape, rtc_alarm_relative_malloc PROVE Shape'
<1>1. /\ pc = "malloc" /\ pc' = "walk" /\ used < TableLen /\ used' = used + 1
      /\ UNCHANGED <<list, p_item, p_temp>>
  BY DEF rtc_alarm_relative_malloc, Step, call
<1>2. Len(list) \in Nat
  BY DEF Shape, ListShape
<1>3. ListShape'
  BY <1>1 DEF Shape, ListShape, Distinct, DistinctIn
<1>4. HandShape'
  BY <1>1 DEF Shape, HandShape, Taking
<1>5. TableShape'
  BY <1>1, <1>2, AlarmAssumption DEF Shape, TableShape, InHand
<1> QED
  BY <1>3, <1>4, <1>5 DEF Shape

LEMMA ShapeWalk == ASSUME Shape, Walk PROVE Shape'
<1>1. /\ pc = "walk" /\ pc' = "link" /\ p_item' = InsertAfter(p_temp.at)
      /\ UNCHANGED <<list, used, p_temp>>
  BY DEF Walk, Step, queue
<1>2. p_temp \in Entry /\ list \in Seq(Entry) /\ Distinct
  BY <1>1 DEF Shape, HandShape, ListShape, Taking
<1>3. p_temp.at \in Times
  BY <1>2 DEF Entry
<1>4. PICK k \in 0 .. Len(list) : InsertAfter(p_temp.at) = Before(k + 1)
  BY <1>2, <1>3, InsertAfterIs
<1>5. k + 1 \in 1 .. Len(list) + 1
  BY <1>2
<1>6. p_item' \in Event \cup {ListHead}
  BY <1>1, <1>2, <1>4, <1>5, BeforeIs
<1>7. ListShape'
  BY <1>1 DEF Shape, ListShape, Distinct, DistinctIn
<1>8. HandShape'
  BY <1>1, <1>6 DEF Shape, HandShape, Taking
<1>9. TableShape'
  BY <1>1 DEF Shape, TableShape, InHand
<1> QED
  BY <1>7, <1>8, <1>9 DEF Shape

\* What Link makes of the list, if it does not lose the item.
Linked1(k) ==
  /\ k \in 1 .. Len(list) + 1 /\ k = Place(p_item) + 1
  /\ list' \in Seq(Entry) /\ Len(list') = Len(list) + 1
  /\ \A i \in 1 .. Len(list) + 1 :
       list'[i] = IF i < k THEN list[i] ELSE IF i = k THEN p_temp ELSE list[i - 1]

LEMMA LinkIs ==
  ASSUME Shape, Link
  PROVE  /\ Linked(p_item) => Linked1(Place(p_item) + 1)
         /\ ~Linked(p_item) => list' = list
<1>1. /\ pc = "link" /\ list' = IF Linked(p_item) THEN InsertAt(list, Place(p_item) + 1, p_temp)
                                                  ELSE list
  BY DEF Link, Step
<1>2. list \in Seq(Entry) /\ Len(list) \in Nat /\ p_temp \in Entry
      /\ p_item \in Event \cup {ListHead}
  BY <1>1 DEF Shape, ListShape, HandShape, Taking
<1>3. ASSUME Linked(p_item) PROVE Linked1(Place(p_item) + 1)
  <2> DEFINE k == Place(p_item) + 1
  <2>1. k \in 1 .. Len(list) + 1
    BY <1>2, PlaceIs, PlaceOfHead
  <2>2. list' = InsertAt(list, k, p_temp)
    BY <1>1, <1>3, Zenon
  <2>3. k = Place(p_item) + 1
    OBVIOUS
  <2> HIDE DEF k
  <2> DEFINE r == InsertAt(list, k, p_temp)
  <2>a. /\ r \in Seq(Entry) /\ Len(r) = Len(list) + 1
        /\ \A i \in 1 .. Len(list) + 1 :
             r[i] = IF i < k THEN list[i] ELSE IF i = k THEN p_temp ELSE list[i - 1]
    BY <1>2, <2>1, InsertAtIs, ZenonT(40)
  <2>b. list' = r
    BY <2>2
  <2> HIDE DEF r
  <2>4. /\ list' \in Seq(Entry) /\ Len(list') = Len(list) + 1
        /\ \A i \in 1 .. Len(list) + 1 :
             list'[i] = IF i < k THEN list[i] ELSE IF i = k THEN p_temp ELSE list[i - 1]
    BY <2>a, <2>b
  <2>5. Linked1(k)
    BY <2>1, <2>3, <2>4 DEF Linked1
  <2> QED
    BY <2>5 DEF k
<1>4. ASSUME ~Linked(p_item) PROVE list' = list
  BY <1>1, <1>4, Zenon
<1> QED
  BY <1>3, <1>4, Zenon

LEMMA ShapeLink == ASSUME Shape, Link PROVE Shape'
<1>1. /\ pc = "link" /\ pc' \notin Taking /\ UNCHANGED used
      /\ p_temp' = NoItem /\ p_item' = ListHead
  BY DEF Link, Step, Taking
<1>2. /\ list \in Seq(Entry) /\ Len(list) \in Nat /\ Distinct
      /\ \A i \in 1 .. Len(list) : list[i].ev # p_temp.ev
  BY <1>1 DEF Shape, ListShape, HandShape, Taking
<1>3. HandShape'
  BY <1>1, TimesAreNumbers DEF HandShape, Item, NoItem
<1>4. InHand = 1 /\ InHand' = 0
  BY <1>1 DEF InHand, Taking
<1>5. CASE ~Linked(p_item)
  <2>1. list' = list
    BY <1>5, LinkIs
  <2>2. ListShape'
    BY <1>2, <2>1 DEF ListShape, Distinct, DistinctIn
  <2>3. TableShape'
    BY <1>1, <1>2, <1>4, <2>1 DEF Shape, TableShape
  <2> QED
    BY <1>3, <2>2, <2>3 DEF Shape
<1>6. CASE Linked(p_item)
  <2> DEFINE k == Place(p_item) + 1
  <2>1. Linked1(k)
    BY <1>6, LinkIs
  <2> HIDE DEF k
  <2>2. TableShape'
    BY <1>1, <1>2, <1>4, <2>1 DEF Shape, TableShape, Linked1
  <2>3. ASSUME NEW i \in 1 .. Len(list'), NEW j \in 1 .. Len(list'), list'[i].ev = list'[j].ev
        PROVE  i = j
    <3> DEFINE from(x) == IF x < k THEN x ELSE x - 1
    <3>1. k \in Nat /\ i \in Nat /\ j \in Nat
      BY <1>2, <2>1 DEF Linked1
    <3>2. \A x \in 1 .. Len(list') : \/ x = k /\ list'[x].ev = p_temp.ev
                                     \/ /\ x # k /\ from(x) \in 1 .. Len(list)
                                        /\ list'[x].ev = list[from(x)].ev
      <4>1. SUFFICES ASSUME NEW x \in 1 .. Len(list')
                     PROVE  \/ x = k /\ list'[x].ev = p_temp.ev
                            \/ /\ x # k /\ from(x) \in 1 .. Len(list)
                               /\ list'[x].ev = list[from(x)].ev
        OBVIOUS
      <4>2. x \in 1 .. Len(list) + 1 /\ k \in 1 .. Len(list) + 1
        BY <2>1 DEF Linked1
      <4>3. list'[x] = IF x < k THEN list[x] ELSE IF x = k THEN p_temp ELSE list[x - 1]
        BY <2>1, <4>2 DEF Linked1
      <4> QED
        BY <1>2, <4>2, <4>3
    <3> HIDE DEF from
    <3>3. CASE i = k \/ j = k
      BY <1>2, <2>3, <3>2, <3>3
    <3>4. CASE i # k /\ j # k
      <4>1. from(i) = from(j)
        BY <1>2, <2>3, <3>2, <3>4 DEF Distinct, DistinctIn
      <4> QED
        BY <3>1, <3>4, <4>1 DEF from
    <3> QED
      BY <3>3, <3>4
  <2>4. ListShape'
    BY <2>1, <2>3 DEF ListShape, Distinct, DistinctIn, Linked1
  <2> QED
    BY <1>3, <2>2, <2>4 DEF Shape
<1> QED
  BY <1>5, <1>6

-------------------------------------------------------------------------------
(* initial_alarm and the handler.                                          *)

\* Steps that keep the items, but not their flags.
LEMMA ShapeFlags ==
  ASSUME Shape, list' \in Seq(Entry), Len(list') = Len(list),
         \A i \in 1 .. Len(list) : list'[i].ev = list[i].ev,
         UNCHANGED <<used, p_item>>, p_temp' \in Item,
         pc' \notin Taking \/ (pc' = pc /\ p_temp' = p_temp)
  PROVE  Shape'
<1>1. Len(list) \in Nat /\ Distinct
  BY DEF Shape, ListShape
<1>2. ListShape'
  BY <1>1 DEF ListShape, Distinct, DistinctIn
<1>3. HandShape'
  BY DEF Shape, HandShape
<1>4. InHand' <= InHand /\ InHand' \in Nat /\ InHand \in Nat
  BY DEF InHand, Taking
<1>5. TableShape'
  BY <1>1, <1>4 DEF Shape, TableShape
<1> QED
  BY <1>2, <1>3, <1>5 DEF Shape

\* Pending are the items that are due with the first.
FirstPending ==
  /\ list' \in Seq(Entry) /\ Len(list') = Len(list)
  /\ \A i \in 1 .. Len(list) :
       /\ list'[i].ev = list[i].ev /\ list'[i].at = list[i].at
       /\ list'[i].pending <=> list[i].at = list[1].at

LEMMA SetPendingIs == ASSUME list \in Seq(Entry), SetPending PROVE FirstPending
<1> DEFINE f == [i \in 1 .. Len(list) |-> list[i].at = list[1].at]
           r == [i \in DOMAIN list |-> [list[i] EXCEPT !.pending = f[i]]]
<1>1. f \in [1 .. Len(list) -> BOOLEAN]
  OBVIOUS
<1>2. \A i \in 1 .. Len(list) : f[i] <=> list[i].at = list[1].at
  OBVIOUS
<1>3. list' = r
  <2>1. DOMAIN list = 1 .. Len(list)
    OBVIOUS
  <2>2. \A i \in 1 .. Len(list) : f[i] = (list[i].at = list[1].at)
    OBVIOUS
  <2>3. list' = [i \in DOMAIN list |->
                   [list[i] EXCEPT !.pending = (list[i].at = list[1].at)]]
    BY DEF SetPending
  <2> HIDE DEF f
  <2> QED
    BY <2>1, <2>2, <2>3
<1> HIDE DEF f
<1>4. /\ r \in Seq(Entry) /\ Len(r) = Len(list)
      /\ \A i \in 1 .. Len(list) : r[i].ev = list[i].ev /\ r[i].at = list[i].at
                                   /\ r[i].pending = f[i]
  BY <1>1, FlagsIs
<1> HIDE DEF r
<1> QED
  BY <1>2, <1>3, <1>4 DEF FirstPending

LEMMA ShapeArm == ASSUME Shape, Arm \/ ArmAgain PROVE Shape'
<1>1. list \in Seq(Entry) /\ Len(list) \in Nat /\ p_temp \in Item
  BY DEF Shape, ListShape, HandShape
<1>2. FirstPending
  BY <1>1, SetPendingIs DEF Arm, ArmAgain
<1>3. UNCHANGED <<used, p_item>>
  BY DEF Arm, ArmAgain, call
<1>4. p_temp' \in Item
  <2>1. p_temp' = p_temp \/ (list # <<>> /\ p_temp' = list[1])
    BY DEF Arm, ArmAgain, call
  <2>2. list # <<>> => list[1] \in Entry
    BY <1>1, EntryFields
  <2> QED
    BY <1>1, <2>1, <2>2 DEF Item, Entry
<1>5. pc' \notin Taking \/ (pc' = pc /\ p_temp' = p_temp)
  BY DEF Arm, ArmAgain, Step, Taking, call
<1> QED
  BY <1>2, <1>3, <1>4, <1>5, ShapeFlags DEF FirstPending

LEMMA ShapeEnable == ASSUME Shape, Enable PROVE Shape'
<1>1. UNCHANGED <<list, used, p_item>> /\ p_temp' = NoItem /\ pc' = "idle"
  BY DEF Enable, Step, queue
<1>2. p_temp' \in Item
  BY <1>1, TimesAreNumbers DEF Item, NoItem
<1>3. list' \in Seq(Entry)
  BY <1>1 DEF Shape, ListShape
<1> QED
  BY <1>1, <1>2, <1>3, ShapeFlags DEF Taking

\* The time at which the handler reads the clock.
Handled == (long_counter + Overflowed) * Period + counter
Handles == RTC0ALRM_IRQHandler /\ alarm2 /\ enabled2

LEMMA HandlesIs ==
  ASSUME Handles
  PROVE  /\ list' = Remaining(Handled) /\ used' = used - Cardinality(DoneAt(Handled))
         /\ UNCHANGED <<pc, caller, call, enabled2, value2, counter, era, late>>
         /\ isr = "off" /\ isr' = "arm" /\ alarm2' = FALSE
BY DEF Handles, RTC0ALRM_IRQHandler, rtc_alarm_relative_handle_timeout_item, Handled, DoneAt

LEMMA ShapeHandles == ASSUME Shape, Handles PROVE Shape'
<1>1. /\ list' = Remaining(Handled) /\ used' = used - Cardinality(DoneAt(Handled))
      /\ UNCHANGED <<pc, p_temp, p_item>>
  BY HandlesIs DEF call
<1>2. list \in Seq(Entry) /\ Len(list) \in Nat /\ Distinct
  BY DEF Shape, ListShape
<1>3. PICK h : LeftOf(Len(list), Handled, list', h)
  BY <1>1, <1>2, RemainingIs
<1>4. /\ Cardinality(DoneAt(Handled)) \in Nat
      /\ Len(list') = Len(list) - Cardinality(DoneAt(Handled))
  BY <1>1, <1>2, RemainingCount
<1>5. /\ list' \in Seq(Entry) /\ Len(list') \in Nat
      /\ \A k \in 1 .. Len(list') : h[k] \in 1 .. Len(list) /\ list'[k] = list[h[k]]
      /\ \A k, l \in 1 .. Len(list') : k < l => h[k] < h[l]
  BY <1>3 DEF LeftOf
<1>6. ASSUME NEW k \in 1 .. Len(list'), NEW l \in 1 .. Len(list'), list'[k].ev = list'[l].ev
      PROVE  k = l
  <2>1. h[k] = h[l] /\ h[k] \in Int /\ h[l] \in Int
    BY <1>2, <1>5, <1>6, SMTT(30) DEF Distinct, DistinctIn
  <2> QED
    BY <1>5, <2>1
<1>7. ListShape'
  BY <1>5, <1>6 DEF ListShape, Distinct, DistinctIn
<1>8. HandShape'
  BY <1>1, <1>5 DEF Shape, HandShape
<1>9. TableShape'
  BY <1>1, <1>2, <1>4, AlarmAssumption DEF Shape, TableShape, InHand
<1> QED
  BY <1>7, <1>8, <1>9 DEF Shape

\* The other half of the handler: only the overflow is counted.
CountsOnly == RTC0ALRM_IRQHandler /\ ~(alarm2 /\ enabled2)

LEMMA CountsOnlyIs ==
  ASSUME CountsOnly
  PROVE  UNCHANGED <<alarm2, queue, observed, upset, isr, counter, era, rtc_time, masked,
                     late, enabled2, value2, pc, caller, call>>
BY DEF CountsOnly, RTC0ALRM_IRQHandler

\* The steps that touch neither the list nor what is to be done to it.
Elsewhere ==
  \/ Tick \/ get_current_time \/ Finish \/ set_current_time \/ SetTimer \/ SetLongCounter
  \/ pmu_enter_sleep \/ rtc_alarm_relative_add_item \/ ThroughNull \/ Rearm
  \/ CountsOnly

LEMMA ElsewhereIs ==
  ASSUME Elsewhere, pc = "finish" => caller \in {"idle", "search", "arm"}
  PROVE  /\ UNCHANGED <<queue, p_temp, p_item, due, left, early>>
         /\ pc' \notin Taking \/ pc' = pc
<1>1. CASE Tick \/ pmu_enter_sleep
  BY <1>1 DEF Tick, pmu_enter_sleep, control, call, observed
<1>2. CASE get_current_time \/ set_current_time \/ rtc_alarm_relative_add_item
  BY <1>2 DEF get_current_time, set_current_time, rtc_alarm_relative_add_item, Begin, Taking,
              call, observed
<1>3. CASE Finish
  BY <1>3 DEF Finish, Step, Taking, observed
<1>4. CASE SetTimer \/ SetLongCounter \/ Rearm
  BY <1>4 DEF SetTimer, SetLongCounter, Rearm, Step, Taking, call, observed
<1>5. CASE ThroughNull
  BY <1>5 DEF ThroughNull, Step, Taking, call, observed
<1>6. CASE CountsOnly
  BY <1>6, CountsOnlyIs DEF call, observed
<1> QED
  BY <1>1, <1>2, <1>3, <1>4, <1>5, <1>6 DEF Elsewhere

\* Every step is one of these.
LEMMA Steps ==
  Next <=> \/ Elsewhere
           \/ Search \/ Unlink \/ rtc_alarm_relative_malloc \/ Walk \/ Link
           \/ Arm \/ Enable \/ Handles \/ ArmAgain
<1>1. RTC0ALRM_IRQHandler <=> Handles \/ CountsOnly
  BY DEF Handles, CountsOnly
<1> QED
  BY <1>1 DEF Next, Elsewhere

LEMMA ShapeStep == ASSUME Shape, ClockInv, Asking, [Next]_vars PROVE Shape'
<1>1. CASE Elsewhere
  <2>1. caller \in {"idle", "search", "arm"}
    BY DEF ClockInv, Masking
  <2> QED
    BY <1>1, <2>1, ElsewhereIs, ShapeKept
<1>2. CASE Search
  BY <1>2, ShapeSearch
<1>3. CASE Unlink
  BY <1>3, ShapeUnlink
<1>4. CASE rtc_alarm_relative_malloc \/ Walk
  BY <1>4, ShapeMalloc, ShapeWalk
<1>5. CASE Link
  BY <1>5, ShapeLink
<1>6. CASE Arm \/ ArmAgain \/ Enable
  BY <1>6, ShapeArm, ShapeEnable
<1>7. CASE Handles
  BY <1>7, ShapeHandles
<1>8. CASE UNCHANGED vars
  <2>1. UNCHANGED <<queue, p_temp, p_item, pc>>
    BY <1>8 DEF vars, call, control
  <2> QED
    BY <2>1, ShapeKept
<1> QED
  BY <1>1, <1>2, <1>3, <1>4, <1>5, <1>6, <1>7, <1>8, Steps

-------------------------------------------------------------------------------
(* The counts stay within the bounds of the model.                         *)

Bounds ==
  /\ era \in 0 .. MaxEra /\ long_counter \in 0 .. MaxEra + 2
  /\ pc # "long" => long_counter + Overflowed <= era + LastTick + 1

LEMMA Bits == Overflowed \in 0 .. 1 /\ LastTick \in 0 .. 1
BY DEF Overflowed, LastTick

LEMMA BoundsInit == Init => Bounds
BY ClockAssumption DEF Init, ClockInit, Bounds, Overflowed, LastTick

\* The clock as it was, or counted.
LEMMA BoundsKept ==
  ASSUME Bounds, UNCHANGED <<counter, era>>,
         \/ UNCHANGED <<long_counter, alarm0>>
         \/ UNCHANGED long_counter /\ alarm0' = FALSE
         \/ pc # "long" /\ long_counter' = long_counter + Overflowed /\ alarm0' = FALSE,
         pc' = "long" \/ pc # "long"
  PROVE  Bounds'
<1>1. MaxEra \in Nat /\ era \in 0 .. MaxEra /\ long_counter \in 0 .. MaxEra + 2
  BY ClockAssumption DEF Bounds
<1>2. LastTick' = LastTick
  BY DEF LastTick
<1>3. CASE UNCHANGED <<long_counter, alarm0>>
  <2>1. Overflowed' = Overflowed
    BY <1>3 DEF Overflowed
  <2> QED
    BY <1>1, <1>2, <1>3, <2>1 DEF Bounds
<1>4. CASE UNCHANGED long_counter /\ alarm0' = FALSE
  <2>1. Overflowed' = 0
    BY <1>4 DEF Overflowed
  <2> QED
    BY <1>1, <1>2, <1>4, <2>1, Bits DEF Bounds
<1>5. CASE pc # "long" /\ long_counter' = long_counter + Overflowed /\ alarm0' = FALSE
  <2>1. Overflowed' = 0
    BY <1>5 DEF Overflowed
  <2> QED
    BY <1>1, <1>2, <1>5, <2>1, Bits DEF Bounds
<1> QED
  BY <1>3, <1>4, <1>5

LEMMA BoundsTick == ASSUME Bounds, ClockTypes, Tick PROVE Bounds'
<1>1. /\ MaxEra \in Nat /\ era \in 0 .. MaxEra /\ long_counter \in 0 .. MaxEra + 2
      /\ counter \in 0 .. overflow_value /\ overflow_value \in Nat /\ overflow_value > 0
  BY ClockAssumption DEF Bounds, ClockTypes
<1>2. /\ counter' = IF counter = overflow_value THEN 0 ELSE counter + 1
      /\ era' = IF counter = overflow_value THEN era + 1 ELSE era
      /\ counter < overflow_value \/ era < MaxEra
      /\ alarm0' <=> (alarm0 \/ counter' = overflow_value)
      /\ UNCHANGED <<long_counter, pc>>
  BY DEF Tick, CounterTicks, control
<1>3. CASE counter = overflow_value
  <2>1. /\ counter' = 0 /\ era' = era + 1 /\ era' \in 0 .. MaxEra /\ LastTick = 1
        /\ LastTick' = 0
    BY <1>1, <1>2, <1>3 DEF LastTick
  <2>2. alarm0' <=> alarm0
    BY <1>1, <1>2, <2>1
  <2>3. Overflowed' = Overflowed
    BY <2>2 DEF Overflowed
  <2> QED
    BY <1>1, <1>2, <2>1, <2>3, Bits DEF Bounds
<1>4. CASE counter # overflow_value
  <2>1. counter' = counter + 1 /\ era' = era /\ LastTick = 0
    BY <1>1, <1>2, <1>4 DEF LastTick
  <2>2. Overflowed' <= Overflowed + LastTick'
    <3>1. CASE counter' = overflow_value
      BY <3>1, Bits DEF Overflowed, LastTick
    <3>2. CASE counter' # overflow_value
      BY <1>2, <3>2, Bits DEF Overflowed, LastTick
    <3> QED
      BY <3>1, <3>2
  <2> QED
    BY <1>1, <1>2, <2>1, <2>2, Bits DEF Bounds, LastTick, Overflowed
<1> QED
  BY <1>3, <1>4

LEMMA BoundsSet == ASSUME Bounds, ClockTypes, SetTimer \/ SetLongCounter PROVE Bounds'
<1>1. MaxEra \in Nat /\ era \in 0 .. MaxEra /\ long_counter \in 0 .. MaxEra + 2
  BY ClockAssumption DEF Bounds
<1>2. CASE SetTimer
  <2>1. pc' = "long" /\ era' = 0 /\ UNCHANGED long_counter
    BY <1>2 DEF SetTimer, Step, SetCounter
  <2> QED
    BY <1>1, <2>1 DEF Bounds
<1>3. CASE SetLongCounter
  <2>1. /\ long_counter' = IF rtc_time = overflow_value THEN 1 ELSE 0
        /\ alarm0' => rtc_time # overflow_value
        /\ era' = era
    BY <1>3 DEF SetLongCounter, SetLong
  <2>2. long_counter' + Overflowed' \in 0 .. 1 /\ long_counter' \in 0 .. 1
    BY <2>1 DEF Overflowed
  <2>3. LastTick' \in 0 .. 1
    BY DEF LastTick
  <2> QED
    BY <1>1, <2>1, <2>2, <2>3 DEF Bounds
<1> QED
  BY <1>2, <1>3

\* The steps of add_item between its readings of the clock, and the handler.
LEMMA EditingKeeps ==
  ASSUME Editing
  PROVE  UNCHANGED clock /\ pc # "long" /\ pc' # "long"
<1>1. CASE Search \/ Unlink \/ rtc_alarm_relative_malloc
  BY <1>1 DEF Search, Unlink, rtc_alarm_relative_malloc, Step
<1>2. CASE ThroughNull
  BY <1>2 DEF ThroughNull, Step
<1>3. CASE Walk \/ Link \/ Arm \/ Enable
  BY <1>3 DEF Walk, Link, Arm, Enable, Step
<1> QED
  BY <1>1, <1>2, <1>3 DEF Editing

LEMMA BoundsStep == ASSUME Bounds, ClockInv, [Next]_vars PROVE Bounds'
<1>0. ClockTypes /\ (pc = "long" => masked)
  BY DEF ClockInv, Masking, Region
<1>1. CASE Tick
  BY <1>0, <1>1, BoundsTick
<1>2. CASE SetTimer \/ SetLongCounter
  BY <1>0, <1>2, BoundsSet
<1>3. CASE \/ get_current_time \/ rtc_alarm_relative_add_item \/ Rearm \/ set_current_time
           \/ Editing \/ UNCHANGED vars
  <2>1. UNCHANGED clock /\ (pc' = "long" \/ pc # "long")
    <3>1. CASE get_current_time \/ rtc_alarm_relative_add_item \/ Rearm
      BY <3>1 DEF get_current_time, rtc_alarm_relative_add_item, Rearm, Begin, Step, Capture
    <3>2. CASE set_current_time
      BY <3>2 DEF set_current_time, Begin, SetBegins
    <3>3. CASE Editing
      BY <3>3, EditingKeeps
    <3>4. CASE UNCHANGED vars
      BY <3>4 DEF vars, control
    <3> QED
      BY <1>3, <3>1, <3>2, <3>3, <3>4
  <2>2. UNCHANGED <<counter, era, long_counter, alarm0>>
    BY <2>1 DEF clock
  <2> QED
    BY <2>1, <2>2, BoundsKept
<1>4. CASE Finish \/ RTC0ALRM_IRQHandler \/ ArmAgain
  <2>1. CountOverflow /\ UNCHANGED <<counter, era>>
    BY <1>4 DEF Finish, FinishRead, RTC0ALRM_IRQHandler, ArmAgain
  <2>2. pc # "long"
    <3>1. CASE Finish
      BY <3>1 DEF Finish, Step
    <3>2. CASE RTC0ALRM_IRQHandler
      BY <1>0, <3>2 DEF RTC0ALRM_IRQHandler, Interrupt
    <3>3. CASE ArmAgain
      BY <1>0, <3>3 DEF ArmAgain, ClockInv, Masking
    <3> QED
      BY <1>4, <3>1, <3>2, <3>3
  <2> QED
    BY <2>1, <2>2, BoundsKept DEF CountOverflow
<1>5. CASE pmu_enter_sleep
  <2>1. /\ UNCHANGED <<counter, era, long_counter>> /\ alarm0' = FALSE /\ pc = "idle"
    BY <1>5 DEF pmu_enter_sleep, ClearOverflow
  <2> QED
    BY <2>1, BoundsKept
<1> QED
  BY <1>1, <1>2, <1>3, <1>4, <1>5 DEF Next, Editing

\* What add_item was called with, and when.
Called ==
  /\ pc = "search" \/ (pc = "finish" /\ caller = "search") => asked \in Event /\ delay \in Delay
  /\ pc = "search" => current_time \in 0 .. (MaxEra + 3) * Period
  /\ caller \in {"idle", "search", "arm"}

LEMMA TimeReadBounded ==
  ASSUME Bounds, ClockTypes, pc = "finish"
  PROVE  TimeRead(rtc_time) \in 0 .. (MaxEra + 3) * Period
<1>1. /\ MaxEra \in Nat /\ era \in 0 .. MaxEra /\ long_counter \in 0 .. MaxEra + 2
      /\ overflow_value \in Nat /\ rtc_time \in 0 .. overflow_value
  BY ClockAssumption DEF Bounds, ClockTypes
<1>2. long_counter + Overflowed \in 0 .. MaxEra + 2
  BY <1>1, Bits DEF Bounds
<1> DEFINE n == long_counter + Overflowed
           c == IF alarm0 THEN 0 ELSE rtc_time
<1>3. c \in 0 .. overflow_value
  BY <1>1
<1>4. \A a, m, p \in Nat : a <= m => (a * p) \in Nat /\ ((m + 1) * p) = (m * p) + p
                                   /\ (a * p) <= (m * p)
  OBVIOUS
<1>5. n \in Nat /\ MaxEra + 2 \in Nat /\ Period \in Nat /\ n <= MaxEra + 2
  BY <1>1, <1>2 DEF Period
<1> HIDE DEF n, c
<1>6. /\ (n * Period) \in Nat /\ ((MaxEra + 2) * Period) \in Nat
      /\ (n * Period) <= ((MaxEra + 2) * Period)
  BY <1>4, <1>5
<1>7. ((MaxEra + 2 + 1) * Period) = ((MaxEra + 2) * Period) + Period
  BY <1>4, <1>5
<1>8. MaxEra + 2 + 1 = MaxEra + 3 /\ Period = overflow_value + 1
  BY <1>1 DEF Period
<1>9. TimeRead(rtc_time) = (n * Period) + c
  BY DEF TimeRead, n, c
<1>10. (n * Period) + c \in 0 .. ((MaxEra + 2) * Period) + Period
  BY <1>1, <1>3, <1>6, <1>8
<1> QED
  BY <1>7, <1>8, <1>9, <1>10

LEMMA AskingHolds == ASSUME Called PROVE Asking
<1> SUFFICES ASSUME pc = "search" PROVE asked \in Event /\ set_time \in Times
  BY DEF Asking
<1>1. /\ asked \in Event /\ delay \in 1 .. overflow_value
      /\ current_time \in 0 .. (MaxEra + 3) * Period
  BY AlarmAssumption DEF Called
<1>2. \A m, p \in Nat : (m * p) \in Nat /\ ((m + 1) * p) = (m * p) + p
  OBVIOUS
<1>3. MaxEra + 3 \in Nat /\ Period \in Nat /\ Period = overflow_value + 1 /\ overflow_value \in Nat
      /\ MaxEra + 4 = (MaxEra + 3) + 1
  BY ClockAssumption DEF Period
<1> DEFINE m == MaxEra + 3
<1>a. m \in Nat /\ MaxEra + 4 = m + 1
  BY <1>3
<1> HIDE DEF m
<1>b. (m * Period) \in Nat /\ ((m + 1) * Period) = (m * Period) + Period
  BY <1>2, <1>3, <1>a
<1>4. ((MaxEra + 3) * Period) \in Nat /\ ((MaxEra + 4) * Period) = ((MaxEra + 3) * Period) + Period
  BY <1>a, <1>b DEF m
<1>5. set_time \in 0 .. (MaxEra + 4) * Period
  BY <1>1, <1>3, <1>4 DEF set_time
<1> QED
  BY <1>1, <1>5 DEF Times

LEMMA CalledStep == ASSUME Called, Bounds, ClockInv, [Next]_vars PROVE Called'
<1>1. caller' \in {"idle", "search", "arm"}
  BY ClockInvStep DEF ClockInv, Masking
<1>2. CASE rtc_alarm_relative_add_item
  BY <1>1, <1>2 DEF rtc_alarm_relative_add_item, Begin, Called
<1>3. CASE Finish
  <2>1. /\ pc = "finish" /\ pc' = caller /\ caller' = "idle" /\ UNCHANGED <<asked, delay>>
        /\ caller = "search" => current_time' = TimeRead(rtc_time)
    BY <1>3 DEF Finish, Step
  <2>2. TimeRead(rtc_time) \in 0 .. (MaxEra + 3) * Period
    BY <2>1, TimeReadBounded DEF ClockInv
  <2> QED
    BY <2>1, <2>2 DEF Called
<1>4. CASE get_current_time \/ set_current_time \/ Rearm
  <2>1. pc' # "search" /\ (pc' = "finish" => caller' # "search")
    BY <1>4 DEF get_current_time, set_current_time, Rearm, Begin, Step
  <2> QED
    BY <1>1, <2>1 DEF Called
<1>5. CASE SetTimer \/ SetLongCounter \/ Editing
  <2>1. pc' # "search" /\ pc' # "finish"
    <3>1. CASE SetTimer \/ SetLongCounter
      BY <3>1 DEF SetTimer, SetLongCounter, Step
    <3>2. CASE Search \/ Unlink \/ rtc_alarm_relative_malloc \/ ThroughNull
      BY <3>2 DEF Search, Unlink, rtc_alarm_relative_malloc, ThroughNull, Step
    <3>3. CASE Walk \/ Link \/ Arm \/ Enable
      BY <3>3 DEF Walk, Link, Arm, Enable, Step
    <3> QED
      BY <1>5, <3>1, <3>2, <3>3 DEF Editing
  <2> QED
    BY <1>1, <2>1 DEF Called
<1>6. CASE Tick \/ pmu_enter_sleep \/ RTC0ALRM_IRQHandler \/ ArmAgain \/ UNCHANGED vars
  <2>1. UNCHANGED <<pc, caller, asked, delay, current_time>>
    BY <1>6 DEF Tick, pmu_enter_sleep, RTC0ALRM_IRQHandler, ArmAgain, vars, control, call, arguments
  <2> QED
    BY <2>1 DEF Called
<1> QED
  BY <1>2, <1>3, <1>4, <1>5, <1>6 DEF Next, Editing

-------------------------------------------------------------------------------
(* The type invariant.                                                     *)

Flags ==
  /\ alarm0 \in BOOLEAN /\ masked \in BOOLEAN
  /\ alarm2 \in BOOLEAN /\ enabled2 \in BOOLEAN /\ early \in BOOLEAN

Values ==
  /\ upset \subseteq Mishap /\ left \subseteq Event
  /\ value2 \in 0 .. overflow_value

ControlTypes ==
  /\ pc \in {"idle", "finish", "set", "long", "search", "unlink", "malloc", "walk",
            "link", "rearm", "arm", "enable", "undefined"}
  /\ isr \in {"off", "arm"}
  /\ asked \in Event \cup {NoEvent} /\ delay \in Delay \cup {0}

QueueInv == Shape /\ ClockInv /\ Called /\ Bounds
TypeInv == QueueInv /\ Flags /\ Values /\ ControlTypes

LEMMA FlagsStep == ASSUME Flags, [Next]_vars PROVE Flags'
<1>1. CASE Tick \/ pmu_enter_sleep
  BY <1>1, Zenon DEF Flags, Tick, CounterTicks, pmu_enter_sleep, ClearOverflow, match, observed
<1>2. CASE get_current_time \/ rtc_alarm_relative_add_item \/ Rearm \/ set_current_time
  BY <1>2, Zenon DEF Flags, get_current_time, rtc_alarm_relative_add_item, Rearm, set_current_time,
              Capture, SetBegins, clock, match, observed
<1>3. CASE Finish \/ SetTimer \/ SetLongCounter
  BY <1>3, Zenon DEF Flags, Finish, FinishRead, CountOverflow, SetTimer, SetLongCounter, SetCounter,
              SetLong, match, observed
<1>4. CASE Search \/ Unlink \/ rtc_alarm_relative_malloc \/ ThroughNull \/ Walk \/ Link
  BY <1>4, Zenon DEF Flags, Search, Unlink, rtc_alarm_relative_malloc, ThroughNull, Walk, Link, clock,
              match, observed, call
<1>5. CASE Arm \/ Enable
  BY <1>5, Zenon DEF Flags, Arm, Enable, rtc_alarm_relative_enable, clock, observed
<1>6. CASE RTC0ALRM_IRQHandler
  BY <1>6, Zenon DEF Flags, RTC0ALRM_IRQHandler, CountOverflow, observed,
              rtc_alarm_relative_handle_timeout_item
<1>7. CASE ArmAgain
  BY <1>7, Zenon DEF Flags, ArmAgain, CountOverflow, rtc_alarm_relative_enable
<1>8. CASE UNCHANGED vars
  BY <1>8, Zenon DEF Flags, vars, clock, match, observed
<1> QED
  BY <1>1, <1>2, <1>3, <1>4, <1>5, <1>6, <1>7, <1>8 DEF Next

LEMMA InRegister == ASSUME NEW t \in Times PROVE t % Period \in 0 .. overflow_value
<1>1. t \in Int /\ overflow_value \in Nat /\ Period = overflow_value + 1
  BY TimesAreNumbers, ClockAssumption DEF Period
<1>2. \A p \in Nat \ {0} : (t % p) \in 0 .. p - 1
  BY <1>1
<1>3. Period \in Nat \ {0} /\ Period - 1 = overflow_value
  BY <1>1
<1> QED
  BY <1>2, <1>3

\* The register of alarm 2 is written by these alone.
LEMMA RegisterStep ==
  ASSUME QueueInv, value2 \in 0 .. overflow_value, [Next]_vars
  PROVE  value2' \in 0 .. overflow_value
<1>1. CASE Enable
  <2>1. value2' = p_temp.at % Period /\ p_temp.at \in Times
    BY <1>1 DEF Enable, rtc_alarm_relative_enable, QueueInv, Shape, HandShape, Item
  <2> QED
    BY <2>1, InRegister
<1>2. CASE ArmAgain
  <2>1. list \in Seq(Entry)
    BY DEF QueueInv, Shape, ListShape
  <2>2. CASE list # <<>>
    <3>1. value2' = list[1].at % Period
      BY <1>2, <2>2 DEF ArmAgain, rtc_alarm_relative_enable
    <3>2. list[1].at \in Times
      BY <2>1, <2>2, EntryFields
    <3> QED
      BY <3>1, <3>2, InRegister
  <2>3. CASE list = <<>>
    BY <1>2, <2>3 DEF ArmAgain
  <2> QED
    BY <2>2, <2>3
<1>3. CASE \/ Tick \/ get_current_time \/ Finish \/ set_current_time \/ SetTimer \/ SetLongCounter
           \/ pmu_enter_sleep \/ rtc_alarm_relative_add_item \/ Rearm
  BY <1>3 DEF Tick, get_current_time, Finish, set_current_time, SetTimer, SetLongCounter,
              pmu_enter_sleep, rtc_alarm_relative_add_item, Rearm, match
<1>4. CASE \/ Search \/ Unlink \/ rtc_alarm_relative_malloc \/ ThroughNull \/ Walk \/ Link \/ Arm
           \/ RTC0ALRM_IRQHandler \/ UNCHANGED vars
  BY <1>4 DEF Search, Unlink, rtc_alarm_relative_malloc, ThroughNull, Walk, Link, Arm,
              RTC0ALRM_IRQHandler, vars, match
<1> QED
  BY <1>1, <1>2, <1>3, <1>4 DEF Next

LEMMA LeftStep ==
  ASSUME Shape, left \subseteq Event, [Next]_vars PROVE left' \subseteq Event
<1>1. CASE Link
  <2>1. p_temp.ev \in Event
    BY <1>1 DEF Link, Step, Shape, HandShape, Taking, Entry
  <2> QED
    BY <1>1, <2>1 DEF Link
<1>2. CASE Arm \/ ArmAgain
  BY <1>2 DEF Arm, ArmAgain, SetPending
<1>3. CASE RTC0ALRM_IRQHandler
  BY <1>3 DEF RTC0ALRM_IRQHandler, rtc_alarm_relative_handle_timeout_item, observed
<1>4. CASE \/ Tick \/ get_current_time \/ Finish \/ set_current_time \/ SetTimer \/ SetLongCounter
           \/ pmu_enter_sleep \/ rtc_alarm_relative_add_item \/ Rearm
  BY <1>4 DEF Tick, get_current_time, Finish, set_current_time, SetTimer, SetLongCounter,
              pmu_enter_sleep, rtc_alarm_relative_add_item, Rearm, observed
<1>5. CASE \/ Search \/ Unlink \/ rtc_alarm_relative_malloc \/ ThroughNull \/ Walk \/ Enable
           \/ UNCHANGED vars
  BY <1>5 DEF Search, Unlink, rtc_alarm_relative_malloc, ThroughNull, Walk, Enable, vars, observed,
              call
<1> QED
  BY <1>1, <1>2, <1>3, <1>4, <1>5 DEF Next

\* Each mishap is noted where it happens, and none is forgotten.
LEMMA UpsetStep ==
  ASSUME upset \subseteq Mishap, [Next]_vars PROVE upset' \subseteq Mishap /\ upset \subseteq upset'
<1>1. CASE Finish
  BY <1>1 DEF Finish, FinishRead, Mishap
<1>2. CASE SetTimer
  BY <1>2 DEF SetTimer, Mishap
<1>3. CASE pmu_enter_sleep
  BY <1>3 DEF pmu_enter_sleep, ClearOverflow, Mishap
<1>4. CASE Enable \/ ArmAgain
  BY <1>4 DEF Enable, ArmAgain, MissedIf, Mishap
<1>5. CASE RTC0ALRM_IRQHandler
  BY <1>5 DEF RTC0ALRM_IRQHandler, rtc_alarm_relative_handle_timeout_item, Mishap
<1>6. CASE \/ Tick \/ get_current_time \/ set_current_time \/ SetLongCounter
           \/ rtc_alarm_relative_add_item \/ Rearm
  BY <1>6 DEF Tick, CounterTicks, get_current_time, set_current_time, SetBegins, SetLongCounter,
              rtc_alarm_relative_add_item, Rearm
<1>7. CASE \/ Search \/ Unlink \/ rtc_alarm_relative_malloc \/ ThroughNull \/ Walk \/ Link \/ Arm
           \/ UNCHANGED vars
  BY <1>7 DEF Search, Unlink, rtc_alarm_relative_malloc, ThroughNull, Walk, Link, Arm, vars
<1> QED
  BY <1>1, <1>2, <1>3, <1>4, <1>5, <1>6, <1>7 DEF Next

LEMMA ControlStep == ASSUME QueueInv, ControlTypes, [Next]_vars PROVE ControlTypes'
<1>1. CASE get_current_time \/ set_current_time \/ rtc_alarm_relative_add_item
  BY <1>1 DEF ControlTypes, get_current_time, set_current_time, rtc_alarm_relative_add_item, Begin, call,
              arguments
<1>2. CASE Finish
  <2>1. caller \in {"idle", "search", "arm"}
    BY DEF QueueInv, Called
  <2> QED
    BY <1>2, <2>1 DEF ControlTypes, Finish, Step
<1>3. CASE SetTimer \/ SetLongCounter \/ rtc_alarm_relative_malloc \/ ThroughNull \/ Rearm
  BY <1>3 DEF ControlTypes, SetTimer, SetLongCounter, rtc_alarm_relative_malloc, ThroughNull, Rearm, Step,
              call, arguments
<1>4. CASE Search \/ Unlink \/ Walk \/ Link \/ Arm \/ Enable
  BY <1>4 DEF ControlTypes, Search, Unlink, Walk, Link, Arm, Enable, Step, Done, arguments
<1>5. CASE Tick \/ pmu_enter_sleep \/ RTC0ALRM_IRQHandler \/ ArmAgain \/ UNCHANGED vars
  BY <1>5 DEF ControlTypes, Tick, pmu_enter_sleep, RTC0ALRM_IRQHandler, ArmAgain, vars, control, call,
              arguments, rtc_alarm_relative_handle_timeout_item
<1> QED
  BY <1>1, <1>2, <1>3, <1>4, <1>5 DEF Next

LEMMA QueueInvInit == Init => QueueInv
BY ShapeInit, ClockInvInit, BoundsInit DEF QueueInv, Called, Init

LEMMA QueueInvStep == ASSUME QueueInv, [Next]_vars PROVE QueueInv'
<1>1. Shape'
  BY ShapeStep, AskingHolds DEF QueueInv
<1>2. ClockInv' /\ Called' /\ Bounds'
  BY ClockInvStep, CalledStep, BoundsStep DEF QueueInv
<1> QED
  BY <1>1, <1>2 DEF QueueInv

\* The queue keeps its types, whatever the handler does under add_item: the table is
\* never given back more entries than were taken (rtc_alarm_relative.c:11-35), and
\* the pointers of add_item are never garbage.
THEOREM AlarmTypeCorrect == Spec => []TypeOK
<1>1. Init => TypeInv
  <2> SUFFICES ASSUME Init PROVE TypeInv
    OBVIOUS
  <2>1. QueueInv
    BY QueueInvInit
  <2>2. Flags
    BY Zenon DEF Init, ClockInit, Flags
  <2>3. Values /\ ControlTypes
    BY ClockAssumption DEF Init, ClockInit, Values, ControlTypes
  <2> QED
    BY <2>1, <2>2, <2>3 DEF TypeInv
<1>2. TypeInv /\ [Next]_vars => TypeInv'
  <2> SUFFICES ASSUME TypeInv, [Next]_vars PROVE TypeInv'
    OBVIOUS
  <2>1. QueueInv' /\ Flags'
    BY QueueInvStep, FlagsStep DEF TypeInv
  <2>2. ControlTypes'
    BY ControlStep DEF TypeInv
  <2>3. value2' \in 0 .. overflow_value /\ left' \subseteq Event /\ upset' \subseteq Mishap
    BY RegisterStep, LeftStep, UpsetStep DEF TypeInv, QueueInv, Values
  <2>4. Values'
    BY <2>3 DEF Values
  <2> QED
    BY <2>1, <2>2, <2>4 DEF TypeInv
<1>3. TypeInv => TypeOK
  <2> SUFFICES ASSUME TypeInv PROVE TypeOK
    OBVIOUS
  <2>1. ClockTypeOK
    BY DEF TypeInv, QueueInv, ClockInv, ClockTypes, Bounds, Flags, Values, ClockTypeOK
  <2>2. list \in Seq(Item)
    <3>1. list \in Seq(Entry) /\ Entry \subseteq Item
      BY DEF TypeInv, QueueInv, Shape, ListShape, Entry, Item
    <3> QED
      BY <3>1
  <2>3. used \in 0 .. TableLen /\ p_item \in Event \cup {ListHead} /\ p_temp \in Item
    BY AlarmAssumption DEF TypeInv, QueueInv, Shape, TableShape, HandShape
  <2>4. alarm2 \in BOOLEAN /\ enabled2 \in BOOLEAN /\ early \in BOOLEAN
    BY DEF TypeInv, Flags
  <2>5. Values /\ ControlTypes /\ caller \in {"idle", "search", "arm"}
    BY DEF TypeInv, QueueInv, Called
  <2> QED
    BY <2>1, <2>2, <2>3, <2>4, <2>5 DEF TypeOK, Values, ControlTypes
<1> QED
  BY <1>1, <1>2, <1>3, PTL DEF Spec

-------------------------------------------------------------------------------
(* The queue is sound as long as the handler did not come in between.      *)

Ordered == \A i, j \in 1 .. Len(list) : i <= j => list[i].at <= list[j].at

\* p_item is the item before the one that is asked for.
Unlinking ==
  pc = "unlink" => \E i \in 1 .. Len(list) : list[i].ev = p_temp.ev /\ p_item = Before(i)

\* p_item is the item after which p_temp is in its place.
Linking ==
  pc = "link" => \E k \in 0 .. Len(list) :
    /\ p_item = Before(k + 1)
    /\ \A i \in 1 .. k : list[i].at <= p_temp.at
    /\ k < Len(list) => p_temp.at <= list[k + 1].at

\* The alarm is set to the first, and off when there is none.
Enabling == pc = "enable" => list # <<>> /\ list[1].at = p_temp.at
Disarmed == list = <<>> /\ isr = "off" /\ pc \notin {"walk", "link"} => ~enabled2

SoundNow ==
  /\ Ordered /\ used = Len(list) + InHand /\ pc # "undefined"
  /\ Unlinking /\ Linking /\ Enabling /\ Disarmed

Sound == "raced" \notin upset => SoundNow

LEMMA SoundInit == Init => Sound
<1> SUFFICES ASSUME Init PROVE SoundNow
  BY DEF Sound
<1>1. list = <<>> /\ used = 0 /\ pc = "idle" /\ ~enabled2 /\ Len(list) = 0
  BY DEF Init
<1> QED
  BY <1>1 DEF SoundNow, Ordered, InHand, Unlinking, Linking, Enabling, Disarmed

\* Each item is another event, so that the table has an entry for one that is not there.
LEMMA RoomForOneMore ==
  ASSUME Shape, pc = "malloc" PROVE Len(list) < TableLen
<1> DEFINE n == Len(list)
           f == [i \in 1 .. n + 1 |-> IF i = n + 1 THEN p_temp.ev ELSE list[i].ev]
<1>1. /\ list \in Seq(Entry) /\ n \in Nat /\ Distinct /\ p_temp \in Entry
      /\ \A i \in 1 .. n : list[i].ev # p_temp.ev
  BY DEF Shape, ListShape, HandShape, Taking
<1>2. \A i \in 1 .. n : list[i].ev \in Event
  BY <1>1, EntryFields
<1>3. p_temp.ev \in Event
  BY <1>1 DEF Entry
<1> HIDE DEF n
<1>4. f \in [1 .. n + 1 -> Event]
  BY <1>1, <1>2, <1>3
<1>5. \A i, j \in 1 .. n + 1 : f[i] = f[j] => i = j
  BY <1>1 DEF Distinct, DistinctIn, n
<1>6. f \in Injection(1 .. n + 1, Event)
  BY <1>4, <1>5 DEF Injection, IsInjective
<1> HIDE DEF f
<1>7. IsFiniteSet(Event) /\ Cardinality(Event) <= TableLen /\ TableLen \in Nat
  BY AlarmAssumption
<1>8. Cardinality(1 .. n + 1) <= Cardinality(Event)
  BY <1>6, <1>7, FS_Injection
<1>9. Cardinality(1 .. n + 1) = n + 1
  <2>1. 1 \in Int /\ n + 1 \in Int /\ ~(1 > n + 1) /\ (n + 1) - 1 + 1 = n + 1
    BY <1>1
  <2> QED
    BY <2>1, FS_Interval
<1>10. Cardinality(Event) \in Nat
  BY <1>7, FS_CardinalityType
<1> QED
  BY <1>1, <1>7, <1>8, <1>9, <1>10 DEF n

\* Steps that leave the queue alone.
LEMMA SoundElsewhere ==
  ASSUME Sound, QueueInv, Elsewhere \/ UNCHANGED vars, upset \subseteq upset' PROVE Sound'
<1> SUFFICES ASSUME "raced" \notin upset, SoundNow PROVE SoundNow'
  BY DEF Sound
<1>1. /\ UNCHANGED <<list, used, p_temp, p_item>>
      /\ pc' \notin Taking \/ pc' = pc
  <2>1. CASE Elsewhere
    BY <2>1, ElsewhereIs DEF QueueInv, Called, queue
  <2>2. CASE UNCHANGED vars
    BY <2>2 DEF vars, queue, call, control
  <2> QED
    BY <2>1, <2>2
<1>2. /\ pc' = "enable" => pc = "enable"
      /\ pc' = "undefined" => pc = "undefined" \/ ThroughNull
  <2>1. CASE Tick \/ pmu_enter_sleep \/ CountsOnly \/ UNCHANGED vars
    BY <2>1, CountsOnlyIs DEF Tick, pmu_enter_sleep, control, vars
  <2>2. CASE get_current_time \/ set_current_time \/ rtc_alarm_relative_add_item
    BY <2>2 DEF get_current_time, set_current_time, rtc_alarm_relative_add_item, Begin
  <2>3. CASE Finish \/ SetTimer \/ SetLongCounter \/ Rearm
    BY <2>3 DEF Finish, SetTimer, SetLongCounter, Rearm, Step, QueueInv, Called
  <2>4. CASE ThroughNull
    BY <2>4 DEF ThroughNull, Step
  <2> QED
    BY <2>1, <2>2, <2>3, <2>4 DEF Elsewhere
<1>3. UNCHANGED isr /\ (pc \in {"walk", "link"} => pc' = pc)
  <2>1. CASE Tick \/ pmu_enter_sleep \/ CountsOnly \/ UNCHANGED vars
    BY <2>1, CountsOnlyIs DEF Tick, pmu_enter_sleep, control, vars
  <2>2. CASE get_current_time \/ set_current_time \/ rtc_alarm_relative_add_item
    BY <2>2 DEF get_current_time, set_current_time, rtc_alarm_relative_add_item, Begin
  <2>3. CASE Finish \/ SetTimer \/ SetLongCounter \/ Rearm
    BY <2>3 DEF Finish, SetTimer, SetLongCounter, Rearm, Step
  <2>4. CASE ThroughNull
    BY <2>4 DEF ThroughNull, Step
  <2> QED
    BY <2>1, <2>2, <2>3, <2>4 DEF Elsewhere
<1>4. enabled2' => enabled2
  <2>1. CASE Tick \/ pmu_enter_sleep \/ CountsOnly \/ UNCHANGED vars
    BY <2>1, CountsOnlyIs DEF Tick, pmu_enter_sleep, match, vars
  <2>2. CASE get_current_time \/ set_current_time \/ rtc_alarm_relative_add_item
    BY <2>2 DEF get_current_time, set_current_time, rtc_alarm_relative_add_item, match
  <2>3. CASE Finish \/ SetTimer \/ SetLongCounter \/ Rearm \/ ThroughNull
    BY <2>3 DEF Finish, SetTimer, SetLongCounter, Rearm, ThroughNull, match
  <2> QED
    BY <2>1, <2>2, <2>3 DEF Elsewhere
<1>5. \A i : Before(i)' = Before(i)
  BY <1>1 DEF Before
<1>6. list \in Seq(Entry) /\ Len(list) \in Nat /\ Distinct
  BY DEF QueueInv, Shape, ListShape
<1>7. ~ThroughNull
  <2>1. CASE pc = "unlink"
    <3>1. PICK i \in 1 .. Len(list) : p_item = Before(i)
      BY <2>1 DEF SoundNow, Unlinking
    <3>2. Linked(p_item) /\ Place(p_item) = i - 1
      BY <1>6, <3>1, BeforeIs
    <3>3. Place(p_item) < Len(list)
      BY <1>6, <3>2
    <3> QED
      BY <2>1, <3>2, <3>3 DEF ThroughNull
  <2>2. CASE pc = "malloc"
    <3>1. used = Len(list) /\ Len(list) < TableLen
      BY <1>6, <2>2, RoomForOneMore DEF SoundNow, InHand, QueueInv
    <3> QED
      BY <1>6, <2>2, <3>1 DEF ThroughNull
  <2> QED
    BY <2>1, <2>2 DEF ThroughNull
<1>8. Ordered' /\ pc' # "undefined"
  BY <1>1, <1>2, <1>7 DEF SoundNow, Ordered
<1>9. (used = Len(list) + InHand)'
  BY <1>1, <1>3 DEF SoundNow, InHand, Taking
<1>10. Unlinking' /\ Linking'
  BY <1>1, <1>5 DEF SoundNow, Unlinking, Linking, Taking
<1>11. Enabling' /\ Disarmed'
  BY <1>1, <1>2, <1>3, <1>4 DEF SoundNow, Enabling, Disarmed, Taking
<1> QED
  BY <1>8, <1>9, <1>10, <1>11 DEF SoundNow

LEMMA SoundSearch ==
  ASSUME SoundNow, QueueInv, Search PROVE SoundNow'
<1>1. /\ UNCHANGED <<list, used, enabled2, isr>> /\ pc = "search"
      /\ pc' = IF Place(asked) > 0 THEN "unlink" ELSE "malloc"
      /\ p_item' = IF Place(asked) > 0 THEN Before(Place(asked)) ELSE ListHead
      /\ p_temp' = [ev |-> asked, at |-> set_time, pending |-> FALSE]
  BY DEF Search, Step, queue, match
<1>2. asked \in Event /\ list \in Seq(Entry) /\ Len(list) \in Nat
  BY <1>1 DEF QueueInv, Called, Shape, ListShape
<1>3. Unlinking'
  <2>1. SUFFICES ASSUME pc' = "unlink"
                 PROVE  \E i \in 1 .. Len(list) : list[i].ev = p_temp'.ev /\ p_item' = Before(i)'
    BY <1>1 DEF Unlinking
  <2>2. Place(asked) > 0
    BY <1>1, <2>1
  <2>3. Place(asked) \in 1 .. Len(list) /\ list[Place(asked)].ev = asked
    BY <1>2, <2>2, PlaceIs
  <2>4. \A i : Before(i)' = Before(i)
    BY <1>1 DEF Before
  <2> QED
    BY <1>1, <2>2, <2>3, <2>4
<1>4. Ordered' /\ Linking' /\ Enabling' /\ pc' # "undefined"
  BY <1>1 DEF SoundNow, Ordered, Linking, Enabling
<1>5. (used = Len(list) + InHand)' /\ Disarmed'
  BY <1>1 DEF SoundNow, InHand, Disarmed
<1> QED
  BY <1>3, <1>4, <1>5 DEF SoundNow

LEMMA SoundUnlink ==
  ASSUME SoundNow, QueueInv, Unlink PROVE SoundNow'
<1> DEFINE k == Place(p_item) + 1
<1>1. Unlinked(k)
  BY UnlinkIs DEF QueueInv
<1> HIDE DEF k
<1>2. /\ pc = "unlink" /\ pc' = "walk" /\ UNCHANGED <<used, enabled2, isr>>
  BY DEF Unlink, Step, match
<1>3. list \in Seq(Entry) /\ Len(list) \in Nat /\ k \in 1 .. Len(list)
  BY <1>1 DEF QueueInv, Shape, ListShape, Unlinked
<1>4. ASSUME NEW i \in 1 .. Len(list'), NEW j \in 1 .. Len(list'), i <= j
      PROVE  list'[i].at <= list'[j].at
  <2> DEFINE from(x) == IF x < k THEN x ELSE x + 1
  <2>1. /\ from(i) \in 1 .. Len(list) /\ from(j) \in 1 .. Len(list)
        /\ list'[i].at = list[from(i)].at /\ list'[j].at = list[from(j)].at
    BY <1>1 DEF Unlinked
  <2>2. from(i) <= from(j)
    BY <1>3, <1>4
  <2> HIDE DEF from
  <2> QED
    BY <2>1, <2>2 DEF SoundNow, Ordered
<1>5. Ordered'
  BY <1>4 DEF Ordered
<1>6. (used = Len(list) + InHand)'
  BY <1>1, <1>2, <1>3 DEF SoundNow, InHand, Unlinked
<1> QED
  BY <1>2, <1>5, <1>6 DEF SoundNow, Unlinking, Linking, Enabling, Disarmed

LEMMA SoundMalloc ==
  ASSUME SoundNow, QueueInv, rtc_alarm_relative_malloc PROVE SoundNow'
<1>1. /\ pc = "malloc" /\ pc' = "walk" /\ UNCHANGED list /\ used' = used + 1
  BY DEF rtc_alarm_relative_malloc, Step
<1>2. Len(list) \in Nat
  BY DEF QueueInv, Shape, ListShape
<1> QED
  BY <1>1, <1>2 DEF SoundNow, Ordered, InHand, Unlinking, Linking, Enabling, Disarmed

LEMMA SoundWalk ==
  ASSUME SoundNow, QueueInv, Walk PROVE SoundNow'
<1>1. /\ pc = "walk" /\ pc' = "link" /\ p_item' = InsertAfter(p_temp.at)
      /\ UNCHANGED <<list, used, p_temp, enabled2, isr>>
  BY DEF Walk, Step, queue, match
<1>2. list \in Seq(Entry) /\ Distinct /\ p_temp.at \in Times
  BY <1>1 DEF QueueInv, Shape, ListShape, HandShape, Taking, Entry
<1>3. PICK k \in 0 .. Len(list) :
        /\ InsertAfter(p_temp.at) = Before(k + 1)
        /\ \A i \in 1 .. k : list[i].at <= p_temp.at
        /\ k < Len(list) => p_temp.at <= list[k + 1].at
  BY <1>2, InsertAfterIs
<1>4. \A i : Before(i)' = Before(i)
  BY <1>1 DEF Before
<1>5. Linking'
  BY <1>1, <1>3, <1>4 DEF Linking
<1> QED
  BY <1>1, <1>5 DEF SoundNow, Ordered, InHand, Unlinking, Enabling, Disarmed

LEMMA SoundLink ==
  ASSUME SoundNow, QueueInv, Link PROVE SoundNow'
<1>1. /\ pc = "link" /\ pc' \in {"rearm", "idle"} /\ UNCHANGED <<used, enabled2, isr>>
  BY DEF Link, Step, match
<1>2. /\ list \in Seq(Entry) /\ Len(list) \in Nat /\ Distinct /\ p_temp \in Entry
  BY <1>1 DEF QueueInv, Shape, ListShape, HandShape, Taking
<1>3. PICK k \in 0 .. Len(list) :
        /\ p_item = Before(k + 1)
        /\ \A i \in 1 .. k : list[i].at <= p_temp.at
        /\ k < Len(list) => p_temp.at <= list[k + 1].at
  BY <1>1 DEF SoundNow, Linking
<1>4. k + 1 \in 1 .. Len(list) + 1
  BY <1>2
<1>5. Linked(p_item) /\ Place(p_item) = (k + 1) - 1
  BY <1>2, <1>3, <1>4, BeforeIs
<1> DEFINE m == Place(p_item) + 1
<1>6. Linked1(m) /\ m = k + 1
  BY <1>2, <1>5, LinkIs DEF QueueInv
<1> HIDE DEF m
<1>7. /\ Len(list') = Len(list) + 1
      /\ \A i \in 1 .. Len(list') : 
           list'[i] = IF i < k + 1 THEN list[i] ELSE IF i = k + 1 THEN p_temp ELSE list[i - 1]
  BY <1>6 DEF Linked1
<1>8. ASSUME NEW i \in 1 .. Len(list'), NEW j \in 1 .. Len(list'), i <= j
      PROVE  list'[i].at <= list'[j].at
  <2>1. /\ \A x \in 1 .. Len(list) : list[x].at \in Int
        /\ p_temp.at \in Int
    BY <1>2, EntryFields, TimesAreNumbers DEF Entry
  <2>2. \A x \in 1 .. Len(list) : x > k => p_temp.at <= list[x].at
    <3>1. SUFFICES ASSUME NEW x \in 1 .. Len(list), x > k PROVE p_temp.at <= list[x].at
      OBVIOUS
    <3>2. k + 1 \in 1 .. Len(list) /\ k + 1 <= x /\ k < Len(list)
      BY <1>2, <3>1
    <3>3. list[k + 1].at <= list[x].at
      BY <3>2 DEF SoundNow, Ordered
    <3> QED
      BY <1>3, <2>1, <3>2, <3>3
  <2>3. /\ i < k + 1 => i \in 1 .. Len(list) /\ i \in 1 .. k /\ list'[i] = list[i]
        /\ j < k + 1 => j \in 1 .. Len(list) /\ j \in 1 .. k /\ list'[j] = list[j]
        /\ i = k + 1 => list'[i] = p_temp
        /\ j = k + 1 => list'[j] = p_temp
        /\ i > k + 1 => i - 1 \in 1 .. Len(list) /\ i - 1 > k /\ list'[i] = list[i - 1]
        /\ j > k + 1 => j - 1 \in 1 .. Len(list) /\ j - 1 > k /\ list'[j] = list[j - 1]
    BY <1>2, <1>7
  <2>4. CASE j < k + 1
    BY <1>8, <2>3, <2>4 DEF SoundNow, Ordered
  <2>5. CASE j = k + 1
    BY <1>2, <1>3, <1>8, <2>1, <2>3, <2>5
  <2>6. CASE j > k + 1
    <3>1. CASE i < k + 1
      <4>1. list[i].at <= p_temp.at /\ p_temp.at <= list[j - 1].at
        BY <1>3, <2>2, <2>3, <2>6, <3>1
      <4> QED
        BY <2>1, <2>3, <2>6, <3>1, <4>1, SMTT(30)
    <3>2. CASE i = k + 1
      BY <2>1, <2>2, <2>3, <2>6, <3>2
    <3>3. CASE i > k + 1
      BY <1>8, <2>3, <2>6, <3>3 DEF SoundNow, Ordered
    <3> QED
      BY <1>7, <3>1, <3>2, <3>3
  <2> QED
    BY <1>7, <2>4, <2>5, <2>6
<1>9. Ordered'
  BY <1>8 DEF Ordered
<1>10. (used = Len(list) + InHand)'
  BY <1>1, <1>2, <1>7 DEF SoundNow, InHand
<1>11. list' # <<>>
  BY <1>2, <1>7
<1> QED
  BY <1>1, <1>9, <1>10, <1>11 DEF SoundNow, Unlinking, Linking, Enabling, Disarmed

\* The flags alone change.
LEMMA OrderedFlags == ASSUME Ordered, FirstPending PROVE Ordered'
BY DEF Ordered, FirstPending

LEMMA BeforeFlags ==
  ASSUME FirstPending, NEW i \in 1 .. Len(list) + 1, Len(list) \in Nat
  PROVE  Before(i)' = Before(i)
<1>1. i = 1 \/ i - 1 \in 1 .. Len(list)
  OBVIOUS
<1> QED
  BY <1>1 DEF FirstPending, Before

LEMMA SoundArm ==
  ASSUME SoundNow, QueueInv, Arm PROVE SoundNow'
<1>1. /\ pc = "arm" /\ pc' = IF list # <<>> THEN "enable" ELSE "idle"
      /\ UNCHANGED <<used, isr>>
      /\ list # <<>> => p_temp' = list[1] /\ UNCHANGED enabled2
      /\ list = <<>> => ~enabled2'
  BY DEF Arm, Step
<1>2. list \in Seq(Entry) /\ Len(list) \in Nat
  BY DEF QueueInv, Shape, ListShape
<1>3. FirstPending
  BY <1>2, SetPendingIs DEF Arm
<1>4. Ordered' /\ (used = Len(list) + InHand)'
  BY <1>1, <1>3, OrderedFlags DEF SoundNow, InHand, FirstPending
<1>5. Enabling'
  <2>1. SUFFICES ASSUME pc' = "enable" PROVE list' # <<>> /\ list'[1].at = p_temp'.at
    BY DEF Enabling
  <2>2. list # <<>> /\ 1 \in 1 .. Len(list)
    BY <1>1, <1>2, <2>1
  <2> QED
    BY <1>1, <1>3, <2>2 DEF FirstPending
<1>6. Disarmed'
  <2>1. list' = <<>> => list = <<>>
    BY <1>2, <1>3 DEF FirstPending
  <2> QED
    BY <1>1, <2>1 DEF SoundNow, Disarmed
<1> QED
  BY <1>1, <1>4, <1>5, <1>6 DEF SoundNow, Unlinking, Linking

LEMMA SoundEnable ==
  ASSUME SoundNow, QueueInv, Enable PROVE SoundNow'
<1>1. /\ pc = "enable" /\ pc' = "idle" /\ UNCHANGED <<list, used, isr>>
  BY DEF Enable, Step, queue
<1> QED
  BY <1>1 DEF SoundNow, Ordered, InHand, Unlinking, Linking, Enabling, Disarmed

LEMMA SoundArmAgain ==
  ASSUME SoundNow, QueueInv, ArmAgain PROVE SoundNow'
<1>1. /\ UNCHANGED <<pc, used, p_item, p_temp>> /\ isr' = "off"
      /\ list = <<>> => ~enabled2'
  BY DEF ArmAgain, call
<1>2. list \in Seq(Entry) /\ Len(list) \in Nat
  BY DEF QueueInv, Shape, ListShape
<1>3. FirstPending
  BY <1>2, SetPendingIs DEF ArmAgain
<1>4. Ordered' /\ (used = Len(list) + InHand)'
  BY <1>1, <1>3, OrderedFlags DEF SoundNow, InHand, FirstPending
<1>5. Unlinking'
  <2>1. SUFFICES ASSUME pc = "unlink"
                 PROVE  \E i \in 1 .. Len(list') : list'[i].ev = p_temp.ev /\ p_item = Before(i)'
    BY <1>1 DEF Unlinking
  <2>2. PICK i \in 1 .. Len(list) : list[i].ev = p_temp.ev /\ p_item = Before(i)
    BY <2>1 DEF SoundNow, Unlinking
  <2>3. i \in 1 .. Len(list) + 1
    BY <1>2
  <2>4. Before(i)' = Before(i)
    BY <1>2, <1>3, <2>3, BeforeFlags
  <2> QED
    BY <1>3, <2>2, <2>4 DEF FirstPending
<1>6. Linking'
  <2>1. SUFFICES ASSUME pc = "link"
                 PROVE  \E k \in 0 .. Len(list') :
                          /\ p_item = Before(k + 1)'
                          /\ \A i \in 1 .. k : list'[i].at <= p_temp.at
                          /\ k < Len(list') => p_temp.at <= list'[k + 1].at
    BY <1>1 DEF Linking
  <2>2. PICK k \in 0 .. Len(list) :
          /\ p_item = Before(k + 1)
          /\ \A i \in 1 .. k : list[i].at <= p_temp.at
          /\ k < Len(list) => p_temp.at <= list[k + 1].at
    BY <2>1 DEF SoundNow, Linking
  <2>3. k + 1 \in 1 .. Len(list) + 1
    BY <1>2
  <2>4. Before(k + 1)' = Before(k + 1)
    BY <1>2, <1>3, <2>3, BeforeFlags
  <2>5. \A i \in 1 .. Len(list) : list'[i].at = list[i].at
    BY <1>3 DEF FirstPending
  <2>6. /\ \A i \in 1 .. k : i \in 1 .. Len(list)
        /\ k < Len(list) => k + 1 \in 1 .. Len(list)
    BY <1>2
  <2> QED
    BY <1>3, <2>2, <2>4, <2>5, <2>6 DEF FirstPending
<1>7. Enabling'
  <2>1. list # <<>> => 1 \in 1 .. Len(list) /\ list' # <<>>
    BY <1>2, <1>3 DEF FirstPending
  <2> QED
    BY <1>1, <1>3, <2>1 DEF SoundNow, Enabling, FirstPending
<1>8. Disarmed'
  <2>1. list' = <<>> => list = <<>>
    BY <1>2, <1>3 DEF FirstPending
  <2> QED
    BY <1>1, <2>1 DEF Disarmed
<1> QED
  BY <1>1, <1>4, <1>5, <1>6, <1>7, <1>8 DEF SoundNow

LEMMA SoundHandles ==
  ASSUME SoundNow, QueueInv, Handles, "raced" \notin upset' PROVE SoundNow'
<1> DEFINE D == DoneAt(Handled)
<1>1. /\ list' = Remaining(Handled) /\ used' = used - Cardinality(D)
      /\ UNCHANGED <<pc, p_temp, p_item>> /\ isr' = "arm"
  BY HandlesIs DEF call
<1>2. list \in Seq(Entry) /\ Len(list) \in Nat
  BY DEF QueueInv, Shape, ListShape
<1>3. D = {} \/ pc \notin {"unlink", "link", "enable"}
  BY DEF Handles, RTC0ALRM_IRQHandler, rtc_alarm_relative_handle_timeout_item, Handled, DoneAt
<1> HIDE DEF D
<1>4. PICK h : LeftOf(Len(list), Handled, list', h)
  BY <1>1, <1>2, RemainingIs
<1>5. Cardinality(D) \in Nat /\ Len(list') = Len(list) - Cardinality(D)
  BY <1>1, <1>2, RemainingCount DEF D
<1>6. /\ Len(list') \in Nat
      /\ \A k \in 1 .. Len(list') : h[k] \in 1 .. Len(list) /\ list'[k] = list[h[k]]
      /\ \A k, l \in 1 .. Len(list') : k < l => h[k] < h[l]
  BY <1>4 DEF LeftOf
<1>7. ASSUME NEW i \in 1 .. Len(list'), NEW j \in 1 .. Len(list'), i <= j
      PROVE  list'[i].at <= list'[j].at
  <2>1. h[i] <= h[j]
    BY <1>6, <1>7
  <2> QED
    BY <1>6, <2>1 DEF SoundNow, Ordered
<1>8. Ordered'
  BY <1>7 DEF Ordered
<1>9. (used = Len(list) + InHand)'
  BY <1>1, <1>2, <1>5 DEF SoundNow, InHand
<1>10. Unlinking' /\ Linking' /\ Enabling'
  <2>1. CASE pc \notin {"unlink", "link", "enable"}
    BY <1>1, <2>1 DEF Unlinking, Linking, Enabling
  <2>2. CASE D = {}
    <3>1. list' = list
      BY <1>1, <1>2, <2>2, RemainingAll DEF D
    <3>2. \A i : Before(i)' = Before(i)
      BY <3>1 DEF Before
    <3> QED
      BY <1>1, <3>1, <3>2 DEF SoundNow, Unlinking, Linking, Enabling
  <2> QED
    BY <1>3, <2>1, <2>2
<1>11. Disarmed' /\ pc' # "undefined"
  BY <1>1 DEF SoundNow, Disarmed
<1> QED
  BY <1>8, <1>9, <1>10, <1>11 DEF SoundNow

LEMMA SoundStep ==
  ASSUME Sound, QueueInv, [Next]_vars, upset \subseteq upset' PROVE Sound'
<1>1. CASE Elsewhere \/ UNCHANGED vars
  BY <1>1, SoundElsewhere
<1>2. CASE Search \/ Unlink \/ rtc_alarm_relative_malloc \/ Walk \/ Link
  BY <1>2, SoundSearch, SoundUnlink, SoundMalloc, SoundWalk, SoundLink DEF Sound
<1>3. CASE Arm \/ Enable \/ ArmAgain
  BY <1>3, SoundArm, SoundEnable, SoundArmAgain DEF Sound
<1>4. CASE Handles
  BY <1>4, SoundHandles DEF Sound
<1> QED
  BY <1>1, <1>2, <1>3, <1>4, Steps

SoundInv == QueueInv /\ upset \subseteq Mishap /\ Sound

LEMMA SoundInvInit == Init => SoundInv
BY QueueInvInit, SoundInit DEF SoundInv, Init, ClockInit

LEMMA SoundInvStep == ASSUME SoundInv, [Next]_vars PROVE SoundInv'
BY QueueInvStep, UpsetStep, SoundStep DEF SoundInv

\* As long as no interrupt has changed the list between two steps of add_item
\* (rtc_alarm_relative.c:57-143), it is ordered, the table holds what is in the list or
\* at hand and nothing else, and neither a full table nor a missing item leads through
\* NULL: each event has at most one item, and there are no more events than entries.
THEOREM QueueSound == Spec => []QueueIsSound
<1>1. SoundInv => QueueIsSound
  <2> SUFFICES ASSUME SoundInv, "raced" \notin upset
               PROVE  /\ \A i \in 1 .. Len(list) - 1 : list[i].at <= list[i + 1].at
                      /\ used = Len(list) + (IF pc \in {"walk", "link"} THEN 1 ELSE 0)
                      /\ pc # "undefined"
    BY DEF QueueIsSound
  <2>1. Ordered /\ used = Len(list) + InHand /\ pc # "undefined" /\ Len(list) \in Nat
    BY DEF SoundInv, Sound, SoundNow, QueueInv, Shape, ListShape
  <2>2. ASSUME NEW i \in 1 .. Len(list) - 1 PROVE list[i].at <= list[i + 1].at
    <3>1. i \in 1 .. Len(list) /\ i + 1 \in 1 .. Len(list) /\ i <= i + 1
      BY <2>1
    <3> QED
      BY <2>1, <3>1 DEF Ordered
  <2> QED
    BY <2>1, <2>2 DEF InHand
<1>2. Spec => []SoundInv
  BY SoundInvInit, SoundInvStep, PTL DEF Spec
<1> QED
  BY <1>1, <1>2, PTL

-------------------------------------------------------------------------------
(* Events are signalled neither early nor late.                            *)

\* A time at which the register of alarm 2 is the counter, if it is v.
Match(t, v) == \E q \in Int : t = (q * Period) + v

LEMMA PeriodIs == Period \in Nat /\ Period > 0 /\ Period = overflow_value + 1 /\ Late < Period
                  /\ overflow_value \in Nat /\ Late \in Nat
BY ClockAssumption DEF Period

LEMMA Multiples ==
  ASSUME NEW q \in Int, NEW r \in Int, NEW p \in Nat, q < r
  PROVE  (q * p) \in Int /\ (r * p) \in Int /\ (q * p) + p <= (r * p)
<1>1. PICK d \in Nat : r = q + 1 + d
  <2>1. r - q - 1 \in Nat /\ r = q + 1 + (r - q - 1)
    OBVIOUS
  <2> QED
    BY <2>1
<1>2. (r * p) = (q * p) + p + (d * p) /\ (d * p) >= 0
  BY <1>1
<1> QED
  BY <1>2

LEMMA Apart ==
  ASSUME NEW A \in Int, NEW B \in Int, NEW v \in Int, Match(A, v), Match(B, v), A < B
  PROVE  A + Period <= B
<1>1. PICK q \in Int : A = (q * Period) + v
  BY DEF Match
<1>2. PICK r \in Int : B = (r * Period) + v
  BY DEF Match
<1> DEFINE a == q * Period
           b == r * Period
<1>3. a \in Int /\ b \in Int /\ A = a + v /\ B = b + v
  BY <1>1, <1>2, PeriodIs
<1>4. q < r => a + Period <= b
  BY Multiples, PeriodIs
<1>5. r < q => b + Period <= a
  BY Multiples, PeriodIs
<1>6. r = q => a = b
  OBVIOUS
<1> HIDE DEF a, b
<1> QED
  BY <1>3, <1>4, <1>5, <1>6, PeriodIs

LEMMA MatchOnce ==
  ASSUME NEW A \in Int, NEW v \in 0 .. overflow_value, NEW w \in 0 .. overflow_value,
         Match(A, v), Match(A, w)
  PROVE  v = w
<1>1. PICK q \in Int : A = (q * Period) + v
  BY DEF Match
<1>2. PICK r \in Int : A = (r * Period) + w
  BY DEF Match
<1> DEFINE a == q * Period
           b == r * Period
<1>3. a \in Int /\ b \in Int /\ A = a + v /\ A = b + w
  BY <1>1, <1>2, PeriodIs
<1>4. q < r => a + Period <= b
  BY Multiples, PeriodIs
<1>5. r < q => b + Period <= a
  BY Multiples, PeriodIs
<1>6. r = q => a = b
  OBVIOUS
<1> HIDE DEF a, b
<1> QED
  BY <1>3, <1>4, <1>5, <1>6, PeriodIs

LEMMA NowMatches == ASSUME ClockTypes PROVE Now \in Int /\ Match(Now, counter)
<1>1. era \in Int /\ counter \in Int /\ (era * Period) \in Int
  BY PeriodIs DEF ClockTypes
<1> QED
  BY <1>1 DEF Now, Match

LEMMA RegisterMatches == ASSUME NEW t \in Times PROVE Match(t, t % Period)
<1>1. t \in Int
  BY TimesAreNumbers
<1>2. \A p \in Nat \ {0} : t \div p \in Int /\ t = ((t \div p) * p) + (t % p)
  BY <1>1
<1>3. Period \in Nat \ {0}
  BY PeriodIs
<1> QED
  BY <1>2, <1>3 DEF Match

\* The clock is right, the list in order.
Calm == upset \cap {"lost", "jumped", "moved", "raced"} = {}

\* The alarm is about to be set.
Hasty == pc \in {"rearm", "arm", "enable"} \/ (pc = "finish" /\ caller = "arm")

\* The last time that was written to the register, or at which it matched since: a
\* pending alarm is at most late ticks old, and an item is pending only when the alarm
\* is set to its time, or is to be set to it next.
Alarm(A) ==
  /\ Match(A, value2) /\ A <= Now + Period
  /\ (alarm2 /\ enabled2) \/ isr = "arm" => A <= Now /\ Now <= A + late
  /\ \A i \in 1 .. Len(list) : list[i].pending /\ list[i].ev \notin left =>
       list[i].at <= IF pc = "enable" THEN p_temp.at ELSE A

\* When nobody is about to set it, the alarm is set to the first item or before it.
Steady(A) ==
  isr = "off" /\ ~Hasty /\ list # <<>> =>
    enabled2 /\ (alarm2 \/ Now < A) /\ A <= list[1].at

\* Each item is to be signalled when it was asked for, within a period.
Booked ==
  /\ \A i \in 1 .. Len(list) :
       (pc = "unlink" /\ list[i].ev = p_temp.ev) \/ due[list[i].ev] = list[i].at
  /\ \A i \in 1 .. Len(list) : list[i].at <= Now + Period
  /\ pc \in Taking => p_temp.at <= Now + Period /\ due[p_temp.ev] = p_temp.at
  /\ isr = "arm" => ~alarm2 /\ enabled2
  /\ ~early

\* Each event that is asked for has its item, which is not overdue when the alarm is set.
Prompt ==
  /\ \A e \in Event : due[e] # 0 =>
       \/ \E i \in 1 .. Len(list) : list[i].ev = e /\ ~(pc = "unlink" /\ p_temp.ev = e)
       \/ pc \in Taking /\ p_temp.ev = e
  /\ pc \in Taking => Now < p_temp.at + late
  /\ isr = "arm" \/ Hasty => \A i \in 1 .. Len(list) : Now < list[i].at + late

Timely(A) == Alarm(A) /\ Booked /\ ("missed" \notin upset => Prompt /\ Steady(A))

Dues == due \in [Event -> Int]

TimelyInv == Calm => \E A \in Int : Timely(A)

AlarmInv ==
  /\ QueueInv /\ Reading /\ Sound /\ upset \subseteq Mishap
  /\ ControlTypes /\ value2 \in 0 .. overflow_value /\ Dues
  /\ TimelyInv

\* Steps that leave alone what this is about.
LEMMA TimelyKept ==
  ASSUME NEW A \in Int, Timely(A),
         UNCHANGED <<list, p_temp, due, left, early, alarm2, enabled2, value2, isr, counter, era>>,
         upset \subseteq upset',
         pc' = pc \/ pc' \notin Taking \cup {"enable"}, pc \in Taking \cup {"enable"} => pc' = pc,
         Hasty' <=> Hasty,
         late' = late \/ ~((alarm2 /\ enabled2) \/ isr = "arm" \/ Hasty \/ pc \in Taking)
  PROVE  Timely(A)'
<1>1. Now' = Now
  BY DEF Now, Period
<1>2. Alarm(A)'
  BY <1>1 DEF Timely, Alarm
<1>3. Booked'
  BY <1>1 DEF Timely, Booked, Taking
<1>4. ASSUME "missed" \notin upset' PROVE Prompt' /\ Steady(A)'
  <2>1. Prompt /\ Steady(A)
    BY <1>4 DEF Timely
  <2>2. Prompt'
    BY <1>1, <2>1 DEF Prompt, Taking
  <2>3. Steady(A)'
    BY <1>1, <2>1 DEF Steady
  <2> QED
    BY <2>2, <2>3
<1> QED
  BY <1>2, <1>3, <1>4 DEF Timely

\* No alarm waits when the program takes a step.
LEMMA NoneWaiting ==
  ASSUME ClockInv, ~Interrupt, pc \notin Region PROVE ~(alarm2 /\ enabled2)
BY DEF ClockInv, Masking, Interrupt

\* The steps of get_current_time, of the sleep, the other ones of the clock.
Reads ==
  \/ get_current_time \/ set_current_time \/ rtc_alarm_relative_add_item
  \/ Finish \/ SetLongCounter \/ Rearm \/ pmu_enter_sleep \/ CountsOnly

LEMMA ReadsKeep ==
  ASSUME ClockInv, Reads
  PROVE  /\ UNCHANGED <<list, p_temp, due, left, early, alarm2, enabled2, value2, isr, counter, era>>
         /\ pc' = pc \/ pc' \notin Taking \cup {"enable"}
         /\ pc \in Taking \cup {"enable"} => pc' = pc
         /\ Hasty' <=> Hasty
         /\ late' = late \/ ~((alarm2 /\ enabled2) \/ isr = "arm" \/ Hasty \/ pc \in Taking)
<1>0. caller \in {"idle", "search", "arm"}
  BY DEF ClockInv, Masking
<1>1. CASE get_current_time \/ set_current_time \/ rtc_alarm_relative_add_item
  <2>1. pc = "idle" /\ isr = "off" /\ ~Interrupt
    BY <1>1 DEF get_current_time, set_current_time, rtc_alarm_relative_add_item, Begin
  <2>2. ~(alarm2 /\ enabled2)
    BY <2>1, NoneWaiting DEF Region
  <2>3. /\ pc' = "set" \/ (pc' = "finish" /\ caller' \in {"idle", "search"})
        /\ UNCHANGED isr
    BY <1>1 DEF get_current_time, set_current_time, rtc_alarm_relative_add_item, Begin
  <2>4. UNCHANGED <<list, p_temp, due, left, early, alarm2, enabled2, value2, counter, era>>
    <3>1. CASE get_current_time
      BY <3>1 DEF get_current_time, Capture, clock, queue, match, call, observed
    <3>2. CASE set_current_time
      BY <3>2 DEF set_current_time, SetBegins, clock, queue, match, call, observed
    <3>3. CASE rtc_alarm_relative_add_item
      BY <3>3 DEF rtc_alarm_relative_add_item, Capture, clock, queue, match, observed
    <3> QED
      BY <1>1, <3>1, <3>2, <3>3
  <2> QED
    BY <2>1, <2>2, <2>3, <2>4 DEF Hasty, Taking
<1>2. CASE Finish
  <2>1. /\ UNCHANGED <<list, p_temp, due, left, early, alarm2, enabled2, value2, isr, counter, era, late>>
        /\ pc = "finish" /\ pc' = caller
    BY <1>2 DEF Finish, Step, FinishRead, queue, match, observed
  <2> QED
    BY <1>0, <2>1 DEF Hasty, Taking
<1>3. CASE SetLongCounter
  <2>1. /\ UNCHANGED <<list, p_temp, due, left, early, alarm2, enabled2, value2, isr, counter, era, late>>
        /\ pc = "long" /\ pc' = "idle"
    BY <1>3 DEF SetLongCounter, Step, SetLong, queue, match, observed, call
  <2> QED
    BY <2>1 DEF Hasty, Taking
<1>4. CASE Rearm
  <2>1. /\ UNCHANGED <<list, p_temp, due, left, early, alarm2, enabled2, value2, isr, counter, era, late>>
        /\ pc = "rearm" /\ pc' = "finish" /\ caller' = "arm"
    BY <1>4 DEF Rearm, Step, Capture, clock, queue, match, observed, call
  <2> QED
    BY <2>1 DEF Hasty, Taking
<1>5. CASE pmu_enter_sleep
  <2>1. UNCHANGED <<list, p_temp, due, left, early, alarm2, enabled2, value2, isr, counter, era, late,
                    pc, caller>>
    BY <1>5 DEF pmu_enter_sleep, ClearOverflow, control, queue, match, observed, call
  <2> QED
    BY <2>1 DEF Hasty, Taking
<1>6. CASE CountsOnly
  <2>1. UNCHANGED <<list, p_temp, due, left, early, alarm2, enabled2, value2, isr, counter, era, late,
                    pc, caller>>
    BY <1>6, CountsOnlyIs DEF queue, observed, call
  <2> QED
    BY <2>1 DEF Hasty, Taking
<1> QED
  BY <1>1, <1>2, <1>3, <1>4, <1>5, <1>6 DEF Reads

LEMMA TimelyReads ==
  ASSUME AlarmInv, Reads, upset \subseteq upset', NEW A \in Int, Timely(A)
  PROVE  Timely(A)'
<1>1. ClockInv
  BY DEF AlarmInv, QueueInv
<1> QED
  BY <1>1, ReadsKeep, TimelyKept

\* The clock is set while no alarm waits.
LEMMA TimelySet ==
  ASSUME AlarmInv, SetTimer, Calm, Calm', NEW A \in Int, Timely(A)
  PROVE  Timely(value2)'
<1>1. /\ pc = "set" /\ pc' = "long" /\ isr = "off"
      /\ UNCHANGED <<list, used, isr, alarm2, enabled2, value2, due, left, early, p_temp>>
      /\ counter' = rtc_time /\ era' = 0
  BY DEF SetTimer, Step, SetCounter, queue, match, call, observed
<1>2. list = <<>>
  BY DEF SetTimer, Calm
<1>3. ~enabled2
  BY <1>1, <1>2 DEF AlarmInv, Sound, Calm, SoundNow, Disarmed
<1>4. value2 \in 0 .. overflow_value /\ rtc_time \in 0 .. overflow_value
  BY DEF AlarmInv, QueueInv, ClockInv, ClockTypes
<1>5. Now' = rtc_time /\ Match(value2, value2)
  <2>1. (0 * Period) = 0
    BY PeriodIs
  <2> QED
    BY <1>1, <1>4, <2>1 DEF Now, Match, Period
<1>6. Alarm(value2)'
  <2>1. value2 <= rtc_time + Period
    BY <1>4, PeriodIs
  <2>2. Len(list') = 0
    BY <1>1, <1>2
  <2>3. Match(value2, value2)'
    BY <1>1, <1>5 DEF Match, Period
  <2> QED
    BY <1>1, <1>2, <1>3, <1>5, <2>1, <2>2, <2>3 DEF Alarm, Period
<1>7. Len(list) = 0
  BY <1>2
<1>8. Booked'
  BY <1>1, <1>7 DEF Timely, Booked, Taking
<1>9. "missed" \notin upset' => Prompt' /\ Steady(value2)'
  <2>1. "missed" \in upset => "missed" \in upset'
    BY DEF SetTimer
  <2> QED
    BY <1>1, <1>2, <1>7, <2>1 DEF Timely, Prompt, Steady, Taking, Hasty
<1> QED
  BY <1>6, <1>8, <1>9 DEF Timely

\* What a tick does to the alarm that was written for A, if it is not late already.
LEMMA TickIs ==
  ASSUME AlarmInv, Tick, NEW A \in Int, Timely(A)
  PROVE  /\ Now \in Int /\ Now' = Now + 1 /\ late \in Int /\ late' \in Int /\ late' >= 0
         /\ UNCHANGED <<list, p_temp, due, left, early, enabled2, value2, isr, pc, caller, upset>>
         /\ alarm2' <=> (alarm2 \/ (enabled2 /\ counter' = value2))
         /\ Busy => late' = late + 1 /\ late' < Period
         /\ Match(A, value2)' /\ Match(Now', counter')
         /\ counter' = value2 => A <= Now'
         /\ counter' = value2 /\ A <= Now => A + Period <= Now'
         /\ Now' = A => counter' = value2
<1>1. ClockTypes /\ ClockInv
  BY DEF AlarmInv, QueueInv, ClockInv
<1>2. Now \in Int /\ Now' = Now + 1
  BY <1>1, NowTicks DEF Tick
<1>3. ClockTypes'
  BY <1>1, ClockInvStep DEF ClockInv, Next
<1>4. Now' \in Int /\ Match(Now', counter')
  <2>1. era' \in Int /\ counter' \in Int /\ (era' * Period) \in Int
    BY <1>3, PeriodIs DEF ClockTypes
  <2>2. Now' = (era' * Period) + counter'
    BY DEF Now, Period
  <2> QED
    BY <2>1, <2>2 DEF Match
<1>5. UNCHANGED <<list, p_temp, due, left, early, enabled2, value2, isr, pc, caller, upset>>
  BY DEF Tick, CounterTicks, queue, call, control, observed
<1>6. alarm2' <=> (alarm2 \/ (enabled2 /\ counter' = value2))
  BY DEF Tick
<1>7. /\ late \in Int /\ late' \in Int /\ late' >= 0
      /\ Busy => late' = late + 1 /\ late' < Period
  BY <1>1, PeriodIs DEF Tick, ClockTypes
<1>8. Match(A, value2) /\ A <= Now + Period
  BY DEF Timely, Alarm
<1>9. Match(A, value2)'
  BY <1>5, <1>8 DEF Match, Period
<1>10. value2 \in 0 .. overflow_value /\ counter' \in 0 .. overflow_value
  BY <1>3 DEF AlarmInv, ClockTypes
<1>11. counter' = value2 => A <= Now'
  <2>1. SUFFICES ASSUME counter' = value2, Now' < A PROVE FALSE
    BY <1>4
  <2>2. Now' + Period <= A
    BY <1>4, <1>8, <1>10, <2>1, Apart
  <2> QED
    BY <1>2, <1>8, <2>2, PeriodIs
<1>12. counter' = value2 /\ A <= Now => A + Period <= Now'
  <2>1. SUFFICES ASSUME counter' = value2, A <= Now PROVE A + Period <= Now'
    OBVIOUS
  <2>2. A < Now'
    BY <1>2, <2>1
  <2> QED
    BY <1>4, <1>8, <1>10, <2>1, <2>2, Apart
<1>13. Now' = A => counter' = value2
  BY <1>4, <1>8, <1>10, MatchOnce
<1> QED
  BY <1>2, <1>5, <1>6, <1>7, <1>4, <1>9, <1>11, <1>12, <1>13

LEMMA TimelyTick ==
  ASSUME AlarmInv, Tick, NEW A \in Int, Timely(A)
  PROVE  \E B \in Int : Timely(B)'
<1>1. /\ Now \in Int /\ Now' = Now + 1 /\ late \in Int /\ late' \in Int /\ late' >= 0
      /\ UNCHANGED <<list, p_temp, due, left, early, enabled2, value2, isr, pc, caller, upset>>
      /\ alarm2' <=> (alarm2 \/ (enabled2 /\ counter' = value2))
      /\ Busy => late' = late + 1 /\ late' < Period
      /\ Match(A, value2)' /\ Match(Now', counter')
      /\ counter' = value2 => A <= Now'
      /\ counter' = value2 /\ A <= Now => A + Period <= Now'
      /\ Now' = A => counter' = value2
  BY TickIs
<1>2. /\ A <= Now + Period
      /\ (alarm2 /\ enabled2) \/ isr = "arm" => A <= Now /\ Now <= A + late
      /\ \A i \in 1 .. Len(list) : list[i].pending /\ list[i].ev \notin left =>
           list[i].at <= IF pc = "enable" THEN p_temp.at ELSE A
  BY DEF Timely, Alarm
<1>3. /\ list \in Seq(Entry) /\ p_temp \in Item
      /\ \A i \in 1 .. Len(list) : list[i].at \in Int
  BY EntryFields DEF AlarmInv, QueueInv, Shape, ListShape, HandShape
<1>4. p_temp.at \in Int
  BY <1>3, TimesAreNumbers DEF Item
<1>0. PICK B \in Int : B = IF enabled2 /\ counter' = value2 THEN Now' ELSE A
  BY <1>1
<1>5. A <= B /\ B <= Now' + Period
  BY <1>0, <1>1, <1>2, PeriodIs
\* It does not match again before the handler is done.
<1>6. ASSUME (alarm2 /\ enabled2) \/ isr = "arm"
      PROVE  counter' # value2 /\ A <= Now /\ Now' <= A + late' /\ B = A
  <2>1. Busy
    BY <1>6 DEF Busy
  <2>2. A <= Now /\ Now <= A + late /\ late' = late + 1 /\ late' < Period
    BY <1>1, <1>2, <1>6, <2>1
  <2>3. A + Period <= Now' => FALSE
    BY <1>1, <2>2, PeriodIs
  <2>4. counter' # value2
    BY <1>1, <2>2, <2>3
  <2> QED
    BY <1>0, <1>1, <2>2, <2>4
<1>7. Match(B, value2')
  BY <1>0, <1>1 DEF Match
<1>8. (alarm2' /\ enabled2') \/ isr' = "arm" => B <= Now' /\ Now' <= B + late'
  <2>0. SUFFICES ASSUME (alarm2' /\ enabled2') \/ isr' = "arm"
               PROVE  B <= Now' /\ Now' <= B + late'
    OBVIOUS
  <2>1. CASE (alarm2 /\ enabled2) \/ isr = "arm"
    <3>1. A <= Now /\ Now' <= A + late' /\ B = A
      BY <1>6, <2>1
    <3>2. A <= Now'
      BY <1>1, <3>1
    <3> QED
      BY <3>1, <3>2, Zenon
  <2>2. CASE ~((alarm2 /\ enabled2) \/ isr = "arm")
    <3>1. enabled2 /\ counter' = value2
      BY <1>1, <2>0, <2>2
    <3>2. B = Now'
      BY <1>0, <3>1
    <3>3. PICK n \in Int, l \in Nat : n = Now' /\ l = late'
      BY <1>1
    <3>4. B = n
      BY <3>2, <3>3
    <3>5. B <= n /\ n <= B + l
      BY <3>4
    <3> QED
      BY <3>3, <3>5
  <2> QED
    BY <2>1, <2>2
<1>9. ASSUME NEW i \in 1 .. Len(list), list[i].pending, list[i].ev \notin left
      PROVE  list[i].at <= IF pc = "enable" THEN p_temp.at ELSE B
  <2>1. list[i].at <= IF pc = "enable" THEN p_temp.at ELSE A
    BY <1>2, <1>9
  <2>2. list[i].at \in Int
    BY <1>3
  <2> QED
    BY <1>4, <1>5, <2>1, <2>2
<1>10. Alarm(B)'
  <2>2. Match(B, value2)'
    BY <1>7 DEF Match, Period
  <2>3. B <= Now' + Period'
    BY <1>5 DEF Period
  <2> QED
    BY <1>1, <1>8, <1>9, <2>2, <2>3 DEF Alarm
<1>11. Booked'
  <2>1. /\ \A i \in 1 .. Len(list) : list[i].at <= Now + Period
        /\ pc \in Taking => p_temp.at <= Now + Period
        /\ isr = "arm" => ~alarm2 /\ enabled2
    BY DEF Timely, Booked
  <2>2. /\ \A i \in 1 .. Len(list) : list[i].at <= Now' + Period'
        /\ pc \in Taking => p_temp.at <= Now' + Period'
    BY <1>1, <1>3, <1>4, <2>1, PeriodIs, SMTT(30) DEF Period
  <2>3. isr = "arm" => ~alarm2' /\ enabled2'
    BY <1>1, <1>6, <2>1
  <2> QED
    BY <1>1, <2>2, <2>3 DEF Timely, Booked, Taking
<1>12. ASSUME "missed" \notin upset' PROVE Prompt'
  <2>1. Prompt
    BY <1>1, <1>12 DEF Timely
  <2>2. pc \in Taking \/ isr = "arm" \/ Hasty => Busy
    BY DEF Taking, Hasty, Busy
  <2>3. pc \in Taking => Now' < p_temp.at + late'
    BY <1>1, <1>4, <2>1, <2>2 DEF Prompt
  <2>4. Hasty' <=> Hasty
    BY <1>1 DEF Hasty
  <2>5. isr = "arm" \/ Hasty => \A i \in 1 .. Len(list) : Now' < list[i].at + late'
    BY <1>1, <1>3, <2>1, <2>2 DEF Prompt
  <2> QED
    BY <1>1, <2>1, <2>3, <2>4, <2>5 DEF Prompt, Taking
<1>13. ASSUME "missed" \notin upset' PROVE Steady(B)'
  <2>1. Steady(A)
    BY <1>1, <1>13 DEF Timely
  <2>2. Hasty' <=> Hasty
    BY <1>1 DEF Hasty
  <2>3. SUFFICES ASSUME isr = "off", ~Hasty, list # <<>>
                 PROVE  enabled2 /\ (alarm2' \/ Now' < B) /\ B <= list[1].at
    BY <1>1, <2>2 DEF Steady
  <2>4. enabled2 /\ (alarm2 \/ Now < A) /\ A <= list[1].at
    BY <2>1, <2>3 DEF Steady
  <2>5. CASE alarm2
    BY <1>1, <1>6, <2>4, <2>5
  <2>6. CASE ~alarm2 /\ counter' = value2
    <3>1. B = Now' /\ A = Now' /\ alarm2'
      BY <1>0, <1>1, <2>4, <2>6
    <3> QED
      BY <2>4, <3>1
  <2>7. CASE ~alarm2 /\ counter' # value2
    <3>1. B = A /\ Now' # A
      BY <1>0, <1>1, <2>7
    <3> QED
      BY <1>1, <2>4, <2>7, <3>1
  <2> QED
    BY <2>5, <2>6, <2>7
<1>14. Timely(B)'
  BY <1>10, <1>11, <1>12, <1>13 DEF Timely
<1> QED
  BY <1>14

\* What is used of the invariants when the list is sound.
LEMMA CalmIs ==
  ASSUME AlarmInv, Calm
  PROVE  /\ SoundNow /\ Shape /\ ClockInv /\ Called /\ Undisturbed /\ "raced" \notin upset
         /\ list \in Seq(Entry) /\ Len(list) \in Nat /\ Distinct /\ Ordered
         /\ \A i \in 1 .. Len(list) : /\ list[i].at \in Int /\ list[i].ev \in Event
                                      /\ list[i] \in Entry
         /\ late \in Int /\ late >= 0 /\ Now \in Int
<1>1. Shape /\ ClockInv /\ Called /\ Undisturbed /\ "raced" \notin upset
  BY DEF AlarmInv, QueueInv, Calm, Undisturbed
<1>2. SoundNow
  BY <1>1 DEF AlarmInv, Sound
<1>3. list \in Seq(Entry) /\ Len(list) \in Nat /\ Distinct /\ Ordered
  BY <1>1, <1>2 DEF Shape, ListShape, SoundNow
<1>4. \A i \in 1 .. Len(list) : list[i].at \in Int /\ list[i].ev \in Event /\ list[i] \in Entry
  BY <1>3, EntryFields
<1>5. late \in Int /\ late >= 0 /\ Now \in Int
  BY <1>1, NowMatches, PeriodIs DEF ClockInv, ClockTypes
<1> QED
  BY <1>1, <1>2, <1>3, <1>4, <1>5

\* A search in order to move an item, or to take a new one: the time asked for is at
\* least a tick after the time that was read, and at most a period.
LEMMA TimelySearch ==
  ASSUME AlarmInv, Search, Calm, NEW A \in Int, Timely(A)
  PROVE  Timely(A)'
<1>1. /\ UNCHANGED <<list, left, early, alarm2, enabled2, value2, isr, counter, era, late, upset>>
      /\ pc = "search" /\ pc' = IF Place(asked) > 0 THEN "unlink" ELSE "malloc"
      /\ p_temp' = [ev |-> asked, at |-> set_time, pending |-> FALSE]
      /\ due' = [due EXCEPT ![asked] = set_time]
  BY DEF Search, Step, queue, match, clock
<1>2. /\ SoundNow /\ Called /\ list \in Seq(Entry) /\ Len(list) \in Nat
      /\ \A i \in 1 .. Len(list) : list[i].at \in Int /\ list[i].ev \in Event
      /\ late \in Int /\ late >= 0 /\ Now \in Int
  BY CalmIs
<1>3. asked \in Event /\ delay \in 1 .. overflow_value
  BY <1>1, <1>2, AlarmAssumption DEF Called
<1>4. current_time \in Now - late .. Now + 1
  BY <1>1, CalmIs DEF AlarmInv, Reading
<1>5. set_time \in Int /\ Now < set_time + late /\ set_time <= Now + Period
  BY <1>2, <1>3, <1>4, PeriodIs DEF set_time
<1>6. Now' = Now /\ (Now + Period)' = Now + Period
  BY <1>1 DEF Now, Period
<1>7. /\ p_temp'.ev = asked /\ p_temp'.at = set_time
      /\ \A e \in Event : due'[e] = IF e = asked THEN set_time ELSE due[e]
  BY <1>1, <1>3 DEF AlarmInv, Dues
<1>8. Alarm(A)'
  BY <1>1, <1>6 DEF Timely, Alarm, Match, Period
<1>9. Booked'
  <2>1. ASSUME NEW i \in 1 .. Len(list)
        PROVE  (pc' = "unlink" /\ list[i].ev = p_temp'.ev) \/ due'[list[i].ev] = list[i].at
    <3>1. CASE list[i].ev = asked
      <4>1. Place(asked) > 0
        <5>1. Place(asked) = i
          BY <3>1, PlaceOf, CalmIs
        <5> QED
          BY <5>1
      <4> QED
        BY <1>1, <1>7, <3>1, <4>1
    <3>2. CASE list[i].ev # asked
      BY <1>1, <1>2, <1>7, <3>2 DEF Timely, Booked
    <3> QED
      BY <3>1, <3>2
  <2>2. due'[p_temp'.ev] = p_temp'.at
    BY <1>3, <1>7
  <2> QED
    BY <1>1, <1>5, <1>6, <1>7, <2>1, <2>2 DEF Timely, Booked
<1>10. ASSUME "missed" \notin upset' PROVE Prompt' /\ Steady(A)'
  <2>1. Prompt /\ Steady(A)
    BY <1>1, <1>10 DEF Timely
  <2>2. ~Hasty /\ ~Hasty'
    BY <1>1 DEF Hasty
  <2>3. Steady(A)'
    BY <1>1, <1>6, <2>1, <2>2 DEF Steady
  <2>4. ASSUME NEW e \in Event, due'[e] # 0
        PROVE  \/ \E i \in 1 .. Len(list) : list[i].ev = e /\ ~(pc' = "unlink" /\ p_temp'.ev = e)
               \/ pc' \in Taking /\ p_temp'.ev = e
    BY <1>1, <1>7, <2>1, <2>4 DEF Prompt, Taking
  <2>5. isr' # "arm"
    BY <1>1 DEF Search, Step
  <2>6. Prompt'
    BY <1>1, <1>5, <1>6, <1>7, <2>2, <2>4, <2>5 DEF Prompt
  <2> QED
    BY <2>3, <2>6
<1> QED
  BY <1>8, <1>9, <1>10 DEF Timely

LEMMA TimelyUnlink ==
  ASSUME AlarmInv, Unlink, Calm, NEW A \in Int, Timely(A)
  PROVE  Timely(A)'
<1> DEFINE k == Place(p_item) + 1
<1>1. Unlinked(k)
  BY UnlinkIs, CalmIs
<1>2. /\ UNCHANGED <<due, left, early, alarm2, enabled2, value2, isr, counter, era, late, upset>>
      /\ pc = "unlink" /\ pc' = "walk" /\ isr = "off"
  BY DEF Unlink, Step, match, clock, observed
<1>3. /\ SoundNow /\ list \in Seq(Entry) /\ Len(list) \in Nat /\ Distinct /\ Ordered
      /\ \A i \in 1 .. Len(list) : list[i].at \in Int /\ list[i].ev \in Event
      /\ late \in Int /\ late >= 0 /\ Now \in Int
  BY CalmIs
<1>4. PICK n \in 1 .. Len(list) : list[n].ev = p_temp.ev /\ p_item = Before(n)
  BY <1>2, <1>3 DEF SoundNow, Unlinking
<1>5. n = k
  <2>1. n \in 1 .. Len(list) + 1
    BY <1>3
  <2>2. Place(p_item) = n - 1
    BY <1>3, <1>4, <2>1, BeforeIs
  <2> QED
    BY <1>3, <2>2
<1> HIDE DEF k
<1>6. /\ k \in 1 .. Len(list) /\ list[k].ev = p_temp.ev
      /\ p_temp'.ev = p_temp.ev /\ p_temp'.at = p_temp.at
      /\ Len(list') = Len(list) - 1
  BY <1>1, <1>4, <1>5 DEF Unlinked
<1>7. \A i \in 1 .. Len(list') : \E j \in 1 .. Len(list) :
        /\ j # k /\ j = (IF i < k THEN i ELSE i + 1)
        /\ list'[i].ev = list[j].ev /\ list'[i].at = list[j].at
        /\ list'[i].pending => list[j].pending
  BY <1>1 DEF Unlinked
<1>8. \A j \in 1 .. Len(list) : j # k => \E i \in 1 .. Len(list') : list'[i].ev = list[j].ev
  <2>1. SUFFICES ASSUME NEW j \in 1 .. Len(list), j # k
                 PROVE  \E i \in 1 .. Len(list') : list'[i].ev = list[j].ev
    OBVIOUS
  <2>2. PICK i \in Int : i = IF j < k THEN j ELSE j - 1
    OBVIOUS
  <2>3. i \in 1 .. Len(list') /\ j = (IF i < k THEN i ELSE i + 1)
    BY <1>3, <1>6, <2>1, <2>2
  <2> QED
    BY <1>7, <2>3
<1>9. \A j \in 1 .. Len(list) : j # k => list[j].ev # p_temp.ev /\ due[list[j].ev] = list[j].at
  BY <1>2, <1>3, <1>6 DEF Timely, Booked, Distinct, DistinctIn
<1>10. Now' = Now /\ (Now + Period)' = Now + Period
  BY <1>2 DEF Now, Period
<1>11. Alarm(A)'
  <2>1. ASSUME NEW i \in 1 .. Len(list'), list'[i].pending, list'[i].ev \notin left
        PROVE  list'[i].at <= A
    <3>1. PICK j \in 1 .. Len(list) :
            list'[i].ev = list[j].ev /\ list'[i].at = list[j].at /\ list[j].pending
      BY <1>7, <2>1
    <3> QED
      BY <1>2, <2>1, <3>1 DEF Timely, Alarm
  <2> QED
    BY <1>2, <1>10, <2>1 DEF Timely, Alarm, Match, Period
<1>12. Booked'
  <2>1. ASSUME NEW i \in 1 .. Len(list')
        PROVE  due[list'[i].ev] = list'[i].at /\ list'[i].at <= Now + Period
    <3>1. PICK j \in 1 .. Len(list) :
            j # k /\ list'[i].ev = list[j].ev /\ list'[i].at = list[j].at
      BY <1>7
    <3> QED
      BY <1>9, <3>1 DEF Timely, Booked
  <2> QED
    BY <1>2, <1>6, <1>10, <2>1 DEF Timely, Booked, Taking
<1>13. ASSUME "missed" \notin upset' PROVE Prompt'
  <2>1. Prompt
    BY <1>2, <1>13 DEF Timely
  <2>2. ASSUME NEW e \in Event, due[e] # 0, e # p_temp.ev
        PROVE  \E i \in 1 .. Len(list') : list'[i].ev = e
    <3>1. PICK j \in 1 .. Len(list) : list[j].ev = e
      BY <2>1, <2>2 DEF Prompt
    <3> QED
      BY <1>6, <1>8, <2>2, <3>1
  <2>3. ~Hasty' /\ isr' # "arm"
    BY <1>2 DEF Hasty
  <2>4. Now < p_temp.at + late
    BY <1>2, <2>1 DEF Prompt, Taking
  <2> QED
    BY <1>2, <1>6, <1>10, <2>2, <2>3, <2>4 DEF Prompt, Taking
<1>14. ASSUME "missed" \notin upset' PROVE Steady(A)'
  <2>1. Steady(A) /\ ~Hasty
    BY <1>2, <1>14 DEF Timely, Hasty
  <2>2. SUFFICES ASSUME list' # <<>>
                 PROVE  enabled2 /\ (alarm2 \/ Now < A) /\ A <= list'[1].at
    BY <1>2, <1>10 DEF Steady
  <2>3. list # <<>> /\ 1 \in 1 .. Len(list)
    BY <1>3, <1>6
  <2>4. enabled2 /\ (alarm2 \/ Now < A) /\ A <= list[1].at
    BY <1>2, <2>1, <2>3 DEF Steady
  <2>5. 1 \in 1 .. Len(list')
    BY <1>1, <1>6, <2>2 DEF Unlinked
  <2>6. PICK j \in 1 .. Len(list) : list'[1].at = list[j].at
    BY <1>7, <2>5
  <2>7. list[1].at <= list[j].at
    BY <1>3, <2>3 DEF Ordered
  <2> QED
    BY <1>3, <2>3, <2>4, <2>6, <2>7
<1> QED
  BY <1>11, <1>12, <1>13, <1>14 DEF Timely

LEMMA TimelyWalk ==
  ASSUME AlarmInv, rtc_alarm_relative_malloc \/ Walk, Calm, NEW A \in Int, Timely(A)
  PROVE  Timely(A)'
<1>1. /\ UNCHANGED <<list, p_temp, due, left, early, alarm2, enabled2, value2, isr, counter, era, late,
                     upset>>
      /\ pc \in {"malloc", "walk"} /\ pc' \in {"walk", "link"} /\ isr = "off"
  <2>1. CASE rtc_alarm_relative_malloc
    BY <2>1 DEF rtc_alarm_relative_malloc, Step, match, clock, call, observed
  <2>2. CASE Walk
    BY <2>2 DEF Walk, Step, queue, match, clock, observed
  <2> QED
    BY <2>1, <2>2
<1>2. Now' = Now /\ (Now + Period)' = Now + Period
  BY <1>1 DEF Now, Period
<1>3. Alarm(A)'
  BY <1>1, <1>2 DEF Timely, Alarm, Match, Period
<1>4. Booked'
  BY <1>1, <1>2 DEF Timely, Booked, Taking
<1>5. "missed" \notin upset' => Prompt' /\ Steady(A)'
  BY <1>1, <1>2 DEF Timely, Prompt, Steady, Taking, Hasty
<1> QED
  BY <1>3, <1>4, <1>5 DEF Timely

\* The item is linked in its place; only as the first one it asks for the alarm.
LEMMA TimelyLink ==
  ASSUME AlarmInv, Link, Calm, NEW A \in Int, Timely(A)
  PROVE  Timely(A)'
<1>1. /\ UNCHANGED <<due, early, alarm2, enabled2, value2, isr, counter, era, late, upset>>
      /\ pc = "link" /\ pc' = IF Linked(p_item) /\ p_item = ListHead THEN "rearm" ELSE "idle"
      /\ isr = "off" /\ ~Interrupt
      /\ left' = IF p_temp.pending THEN left \cup {p_temp.ev} ELSE left
  BY DEF Link, Step, match, clock
<1>2. /\ SoundNow /\ list \in Seq(Entry) /\ Len(list) \in Nat /\ Distinct /\ Ordered
      /\ \A i \in 1 .. Len(list) : list[i].at \in Int /\ list[i].ev \in Event
      /\ late \in Int /\ late >= 0 /\ Now \in Int /\ ClockInv /\ Shape
  BY CalmIs
<1>3. /\ p_temp \in Entry /\ p_temp.at \in Int
      /\ \A i \in 1 .. Len(list) : list[i].ev # p_temp.ev
  BY <1>1, <1>2, TimesAreNumbers DEF Shape, HandShape, Taking, Entry
<1>4. PICK k \in 0 .. Len(list) : p_item = Before(k + 1)
  BY <1>1, <1>2 DEF SoundNow, Linking
<1>5. k + 1 \in 1 .. Len(list) + 1
  BY <1>2
<1>6. Linked(p_item) /\ Place(p_item) = (k + 1) - 1 /\ (p_item = ListHead <=> k + 1 = 1)
  BY <1>2, <1>4, <1>5, BeforeIs
<1> DEFINE m == Place(p_item) + 1
<1>7. Linked1(m) /\ m = k + 1
  BY <1>2, <1>5, <1>6, LinkIs
<1> HIDE DEF m
<1>8. /\ Len(list') = Len(list) + 1 /\ m \in 1 .. Len(list')
      /\ \A i \in 1 .. Len(list') :
           list'[i] = IF i < m THEN list[i] ELSE IF i = m THEN p_temp ELSE list[i - 1]
  BY <1>7 DEF Linked1
<1>9. \A i \in 1 .. Len(list') :
        list'[i] = p_temp \/ \E j \in 1 .. Len(list) : list'[i] = list[j]
  <2>1. SUFFICES ASSUME NEW i \in 1 .. Len(list')
                 PROVE  list'[i] = p_temp \/ \E j \in 1 .. Len(list) : list'[i] = list[j]
    OBVIOUS
  <2>2. CASE i < m
    <3>1. i \in 1 .. Len(list) /\ list'[i] = list[i]
      BY <1>2, <1>8, <2>2
    <3> QED
      BY <3>1
  <2>3. CASE i = m
    BY <1>8, <2>3
  <2>4. CASE i > m
    <3>1. i - 1 \in 1 .. Len(list) /\ list'[i] = list[i - 1]
      BY <1>2, <1>8, <2>4
    <3> QED
      BY <3>1
  <2> QED
    BY <1>2, <1>8, <2>2, <2>3, <2>4
<1>10. /\ list'[m] = p_temp
       /\ \A j \in 1 .. Len(list) : \E i \in 1 .. Len(list') : list'[i] = list[j]
  <2>1. list'[m] = p_temp
    BY <1>2, <1>8
  <2>2. SUFFICES ASSUME NEW j \in 1 .. Len(list)
                 PROVE  \E i \in 1 .. Len(list') : list'[i] = list[j]
    BY <2>1
  <2>3. CASE j < m
    <3>1. j \in 1 .. Len(list') /\ list'[j] = list[j]
      BY <1>2, <1>8, <2>3
    <3> QED
      BY <3>1
  <2>4. CASE j >= m
    <3>1. j + 1 \in 1 .. Len(list') /\ list'[j + 1] = list[(j + 1) - 1] /\ (j + 1) - 1 = j
      BY <1>2, <1>8, <2>4
    <3> QED
      BY <3>1
  <2> QED
    BY <1>2, <1>8, <2>3, <2>4
<1>11. Now' = Now /\ (Now + Period)' = Now + Period
  BY <1>1 DEF Now, Period
<1>12. Alarm(A)'
  <2>1. ASSUME NEW i \in 1 .. Len(list'), list'[i].pending, list'[i].ev \notin left'
        PROVE  list'[i].at <= A
    <3>1. list'[i] # p_temp /\ list'[i].ev \notin left
      BY <1>1, <2>1
    <3>2. PICK j \in 1 .. Len(list) : list'[i] = list[j]
      BY <1>9, <3>1
    <3> QED
      BY <1>1, <2>1, <3>1, <3>2 DEF Timely, Alarm
  <2> QED
    BY <1>1, <1>11, <2>1 DEF Timely, Alarm, Match, Period
<1>13. Booked'
  <2>1. ASSUME NEW i \in 1 .. Len(list')
        PROVE  due[list'[i].ev] = list'[i].at /\ list'[i].at <= Now + Period
    BY <1>1, <1>9 DEF Timely, Booked, Taking
  <2> QED
    BY <1>1, <1>11, <2>1 DEF Timely, Booked, Taking
\* No alarm is pending: the one that is set is still to come.
<1>14. ~(alarm2 /\ enabled2)
  BY <1>1, <1>2, NoneWaiting DEF Region
<1>15. ASSUME "missed" \notin upset', list # <<>>
       PROVE  enabled2 /\ Now < A /\ A <= list[1].at /\ 1 \in 1 .. Len(list)
  <2>1. Steady(A) /\ ~Hasty
    BY <1>1, <1>15 DEF Timely, Hasty
  <2>2. enabled2 /\ (alarm2 \/ Now < A) /\ A <= list[1].at
    BY <1>1, <1>15, <2>1 DEF Steady
  <2> QED
    BY <1>2, <1>14, <1>15, <2>2
<1>16. ASSUME "missed" \notin upset' PROVE Prompt'
  <2>1. Prompt
    BY <1>1, <1>16 DEF Timely
  <2>2. ASSUME NEW e \in Event, due[e] # 0
        PROVE  \E i \in 1 .. Len(list') : list'[i].ev = e
    <3>1. CASE e = p_temp.ev
      BY <1>8, <1>10, <3>1
    <3>2. CASE e # p_temp.ev
      <4>1. PICK j \in 1 .. Len(list) : list[j].ev = e
        BY <2>1, <2>2, <3>2 DEF Prompt
      <4> QED
        BY <1>10, <4>1
    <3> QED
      BY <3>1, <3>2
  <2>3. ASSUME NEW i \in 1 .. Len(list') PROVE Now < list'[i].at + late
    <3>1. Now < p_temp.at + late
      BY <1>1, <2>1 DEF Prompt, Taking
    <3>2. ASSUME NEW j \in 1 .. Len(list) PROVE Now < list[j].at + late
      <4>1. Now < A /\ A <= list[1].at /\ 1 \in 1 .. Len(list)
        <5>1. list # <<>>
          BY <1>2
        <5> QED
          BY <1>15, <1>16, <5>1
      <4>2. list[1].at <= list[j].at
        BY <1>2, <4>1 DEF Ordered
      <4> QED
        BY <1>2, <4>1, <4>2
    <3> QED
      BY <1>9, <3>1, <3>2
  <2> QED
    BY <1>1, <1>11, <2>2, <2>3 DEF Prompt, Taking, Hasty
<1>17. ASSUME "missed" \notin upset' PROVE Steady(A)'
  <2>1. SUFFICES ASSUME ~Hasty' PROVE enabled2 /\ Now < A /\ A <= list'[1].at
    BY <1>1, <1>11 DEF Steady
  <2>2. m # 1
    BY <1>1, <1>6, <1>7, <2>1 DEF Hasty
  <2>3. 1 < m /\ 1 \in 1 .. Len(list') /\ list # <<>>
    BY <1>2, <1>8, <2>2
  <2>4. list'[1] = list[1]
    BY <1>8, <2>3
  <2> QED
    BY <1>15, <1>17, <2>3, <2>4
<1> QED
  BY <1>12, <1>13, <1>16, <1>17 DEF Timely

LEMMA TimelyArm ==
  ASSUME AlarmInv, Arm, Calm, NEW A \in Int, Timely(A)
  PROVE  Timely(A)'
<1>1. /\ UNCHANGED <<due, early, alarm2, value2, isr, counter, era, late, upset>>
      /\ pc = "arm" /\ pc' = IF list # <<>> THEN "enable" ELSE "idle"
      /\ isr = "off" /\ ~Interrupt
      /\ list # <<>> => p_temp' = list[1] /\ UNCHANGED enabled2
      /\ list = <<>> => ~enabled2'
  BY DEF Arm, Step, clock
<1>2. /\ list \in Seq(Entry) /\ Len(list) \in Nat
      /\ \A i \in 1 .. Len(list) : list[i].at \in Int /\ list[i].ev \in Event
      /\ late \in Int /\ late >= 0 /\ Now \in Int /\ ClockInv
  BY CalmIs
<1>3. FirstPending
  BY <1>2, SetPendingIs DEF Arm
<1>4. /\ list' \in Seq(Entry) /\ Len(list') = Len(list) /\ (list' = <<>> <=> list = <<>>)
      /\ \A i \in 1 .. Len(list) :
           /\ list'[i].ev = list[i].ev /\ list'[i].at = list[i].at
           /\ list'[i].pending <=> list[i].at = list[1].at
  BY <1>2, <1>3 DEF FirstPending
<1>5. ~(alarm2 /\ enabled2)
  BY <1>1, <1>2, NoneWaiting DEF Region
<1>6. Now' = Now /\ (Now + Period)' = Now + Period
  BY <1>1 DEF Now, Period
<1>7. Alarm(A)'
  <2>1. ASSUME NEW i \in 1 .. Len(list'), list'[i].pending
        PROVE  list'[i].at <= IF pc' = "enable" THEN p_temp'.at ELSE A
    <3>1. i \in 1 .. Len(list) /\ list # <<>>
      BY <1>2, <1>4
    <3>2. pc' = "enable" /\ p_temp'.at = list[1].at /\ list'[i].at = list[1].at
      BY <1>1, <1>4, <2>1, <3>1
    <3>3. list'[i].at \in Int
      BY <1>2, <1>4, <3>1
    <3> QED
      BY <3>2, <3>3
  <2>2. ~(alarm2' /\ enabled2')
    BY <1>1, <1>5
  <2> QED
    BY <1>1, <1>6, <2>1, <2>2 DEF Timely, Alarm, Match, Period
<1>8. Booked'
  BY <1>1, <1>4, <1>6 DEF Timely, Booked, Taking
<1>9. ASSUME "missed" \notin upset' PROVE Prompt'
  <2>1. Prompt
    BY <1>1, <1>9 DEF Timely
  <2>2. ASSUME NEW e \in Event, due[e] # 0
        PROVE  \E i \in 1 .. Len(list') : list'[i].ev = e
    BY <1>1, <1>4, <2>1, <2>2 DEF Prompt, Taking
  <2>3. \A i \in 1 .. Len(list') : Now < list'[i].at + late
    BY <1>1, <1>4, <2>1 DEF Prompt, Hasty
  <2> QED
    BY <1>1, <1>6, <2>2, <2>3 DEF Prompt, Taking
<1>10. Steady(A)'
  BY <1>1, <1>4 DEF Steady, Hasty
<1> QED
  BY <1>7, <1>8, <1>9, <1>10 DEF Timely

LEMMA TimelyEnable ==
  ASSUME AlarmInv, Enable, Calm, NEW A \in Int, Timely(A)
  PROVE  \E B \in Int : Timely(B)'
<1>1. /\ UNCHANGED <<list, due, left, early, isr, counter, era, late>>
      /\ pc = "enable" /\ pc' = "idle" /\ isr = "off" /\ ~Interrupt
      /\ value2' = p_temp.at % Period
      /\ alarm2' <=> (alarm2 /\ enabled2)
      /\ enabled2'
      /\ upset' = MissedIf(p_temp.at)
  BY DEF Enable, Step, rtc_alarm_relative_enable, clock, queue, observed
<1>2. /\ SoundNow /\ list \in Seq(Entry) /\ Len(list) \in Nat /\ Ordered /\ Shape
      /\ \A i \in 1 .. Len(list) : list[i].at \in Int /\ list[i].ev \in Event
      /\ Now \in Int /\ ClockInv
  BY CalmIs
<1>3. list # <<>> /\ 1 \in 1 .. Len(list) /\ list[1].at = p_temp.at
  BY <1>1, <1>2 DEF SoundNow, Enabling
<1>4. p_temp.at \in Times /\ p_temp.at \in Int
  BY <1>2, TimesAreNumbers DEF Shape, HandShape, Item
<1>5. PICK B \in Int : B = p_temp.at
  BY <1>4
<1>6. ~alarm2'
  BY <1>1, <1>2, NoneWaiting DEF Region
<1>7. Now' = Now /\ (Now + Period)' = Now + Period
  BY <1>1 DEF Now, Period
<1>8. Match(B, value2)'
  <2>1. Match(B, value2')
    BY <1>1, <1>4, <1>5, RegisterMatches
  <2> QED
    BY <2>1 DEF Match, Period
<1>9. Alarm(B)'
  <2>1. B <= Now + Period
    BY <1>3, <1>5 DEF Timely, Booked
  <2>2. \A i \in 1 .. Len(list) : list[i].pending /\ list[i].ev \notin left => list[i].at <= B
    BY <1>1, <1>5 DEF Timely, Alarm
  <2> QED
    BY <1>1, <1>6, <1>7, <1>8, <2>1, <2>2 DEF Alarm
<1>10. Booked'
  BY <1>1, <1>7 DEF Timely, Booked, Taking
<1>11. ASSUME "missed" \notin upset' PROVE Prompt' /\ Steady(B)'
  <2>1. Now < p_temp.at /\ "missed" \notin upset
    BY <1>1, <1>2, <1>4, <1>11 DEF MissedIf
  <2>2. Prompt
    BY <2>1 DEF Timely
  <2>3. Prompt'
    BY <1>1, <1>7, <2>2 DEF Prompt, Taking, Hasty
  <2>4. B <= list[1].at
    BY <1>3, <1>5
  <2>5. Steady(B)'
    BY <1>1, <1>5, <1>7, <2>1, <2>4 DEF Steady
  <2> QED
    BY <2>3, <2>5
<1>12. Timely(B)'
  BY <1>9, <1>10, <1>11 DEF Timely
<1> QED
  BY <1>12

LEMMA TimelyArmAgain ==
  ASSUME AlarmInv, ArmAgain, Calm, NEW A \in Int, Timely(A)
  PROVE  \E B \in Int : Timely(B)'
<1>1. /\ UNCHANGED <<due, early, counter, era, late, pc, caller, p_temp>>
      /\ isr = "arm" /\ isr' = "off"
      /\ list # <<>> => /\ value2' = list[1].at % Period
                        /\ alarm2' <=> (alarm2 /\ enabled2)
                        /\ enabled2'
                        /\ upset' = MissedIf(list[1].at)
      /\ list = <<>> => ~enabled2' /\ UNCHANGED <<value2, upset>>
  BY DEF ArmAgain, rtc_alarm_relative_enable, call
<1>2. /\ SoundNow /\ list \in Seq(Entry) /\ Len(list) \in Nat /\ Shape
      /\ \A i \in 1 .. Len(list) : list[i].at \in Int /\ list[i].ev \in Event
      /\ Now \in Int
  BY CalmIs
<1>3. FirstPending
  BY <1>2, SetPendingIs DEF ArmAgain
<1>4. /\ list' \in Seq(Entry) /\ Len(list') = Len(list) /\ (list' = <<>> <=> list = <<>>)
      /\ \A i \in 1 .. Len(list) :
           /\ list'[i].ev = list[i].ev /\ list'[i].at = list[i].at
           /\ list'[i].pending <=> list[i].at = list[1].at
  BY <1>2, <1>3 DEF FirstPending
<1>5. list # <<>> => 1 \in 1 .. Len(list) /\ list[1].at \in Times
  BY <1>2, EntryFields
<1>6. PICK B \in Int : B = IF list # <<>> THEN list[1].at ELSE A
  BY <1>2, <1>5
<1>7. ~(alarm2' /\ enabled2')
  BY <1>1 DEF Timely, Booked
<1>8. Now' = Now /\ (Now + Period)' = Now + Period
  BY <1>1 DEF Now, Period
<1>9. Match(B, value2)'
  <2>1. Match(B, value2')
    <3>1. CASE list # <<>>
      BY <1>1, <1>5, <1>6, <3>1, RegisterMatches
    <3>2. CASE list = <<>>
      BY <1>1, <1>6, <3>2 DEF Timely, Alarm
    <3> QED
      BY <3>1, <3>2
  <2> QED
    BY <2>1 DEF Match, Period
<1>10. Alarm(B)'
  <2>1. B <= Now + Period
    BY <1>5, <1>6 DEF Timely, Booked, Alarm
  <2>2. ASSUME NEW i \in 1 .. Len(list'), list'[i].pending
        PROVE  list'[i].at <= IF pc' = "enable" THEN p_temp'.at ELSE B
    <3>1. i \in 1 .. Len(list) /\ list # <<>>
      BY <1>2, <1>4
    <3>2. list'[i].at = list[1].at /\ B = list[1].at
      BY <1>4, <1>6, <2>2, <3>1
    <3>3. pc' = "enable" => p_temp'.at = list[1].at
      BY <1>1, <1>2 DEF SoundNow, Enabling
    <3> QED
      BY <3>2, <3>3
  <2> QED
    BY <1>1, <1>7, <1>8, <1>9, <2>1, <2>2 DEF Alarm
<1>11. Booked'
  BY <1>1, <1>4, <1>8 DEF Timely, Booked, Taking
<1>12. ASSUME "missed" \notin upset' PROVE Prompt' /\ Steady(B)'
  <2>1. "missed" \notin upset /\ (list # <<>> => Now < list[1].at)
    BY <1>1, <1>2, <1>5, <1>12 DEF MissedIf
  <2>2. Prompt
    BY <2>1 DEF Timely
  <2>3. Hasty' <=> Hasty
    BY <1>1 DEF Hasty
  <2>4. Prompt'
    BY <1>1, <1>4, <1>8, <2>2, <2>3 DEF Prompt, Taking
  <2>5. SUFFICES ASSUME list # <<>> PROVE enabled2' /\ Now < B /\ B <= list'[1].at
    BY <1>4, <1>8, <2>4 DEF Steady
  <2> QED
    BY <1>1, <1>4, <1>5, <1>6, <2>1, <2>5
<1>13. Timely(B)'
  BY <1>10, <1>11, <1>12 DEF Timely
<1> QED
  BY <1>13

\* What the handler signals, and when it thinks it is.
LEMMA HandledIsNow ==
  ASSUME AlarmInv, Handles, Calm, Calm' PROVE Handled = Now
<1>1. /\ counter \in Int /\ era \in Int /\ long_counter \in Int /\ pc # "long"
      /\ "lost" \notin upset
  BY DEF AlarmInv, QueueInv, ClockInv, ClockTypes, Masking, Region, Handles,
         RTC0ALRM_IRQHandler, Interrupt, Calm
<1>2. long_counter + Overflowed = era + LastTick
  BY <1>1 DEF AlarmInv, QueueInv, ClockInv, Counting, Counted
<1>3. ~Jumps(counter, FALSE)
  BY DEF Handles, RTC0ALRM_IRQHandler, rtc_alarm_relative_handle_timeout_item, Calm
<1>4. LastTick = 0
  BY <1>3 DEF Jumps, LastTick
<1>5. long_counter + Overflowed = era
  BY <1>1, <1>2, <1>4
<1> QED
  BY <1>5 DEF Handled, Now

LEMMA TimelyHandles ==
  ASSUME AlarmInv, Handles, Calm, Calm', NEW A \in Int, Timely(A)
  PROVE  Timely(A)'
<1> DEFINE D == DoneAt(Now)
           signalled == {list[i].ev : i \in D}
<1>1. Handled = Now
  BY HandledIsNow
<1>2. /\ UNCHANGED <<pc, caller, p_temp, enabled2, value2, counter, era, late>>
      /\ isr = "off" /\ isr' = "arm" /\ alarm2' = FALSE /\ alarm2 /\ enabled2
      /\ list' = Remaining(Now)
  BY <1>1, HandlesIs DEF call, Handles
<1>3. /\ due' = [e \in Event |-> IF e \in signalled THEN 0 ELSE due[e]]
      /\ left' = left \ signalled
      /\ early' = (early \/ \E e \in signalled \ left : due[e] > Now)
      /\ D # {} /\ pc \in {"unlink", "link", "enable"} => "raced" \in upset'
      /\ "missed" \in upset => "missed" \in upset'
  BY <1>1 DEF Handles, RTC0ALRM_IRQHandler, rtc_alarm_relative_handle_timeout_item, Handled, DoneAt
<1>4. /\ list \in Seq(Entry) /\ Len(list) \in Nat /\ Distinct /\ Shape
      /\ \A i \in 1 .. Len(list) : list[i].at \in Int /\ list[i].ev \in Event
      /\ late \in Int /\ late >= 0 /\ Now \in Int
  BY CalmIs
<1>5. D = {} \/ pc \notin {"unlink", "link", "enable"}
  BY <1>3 DEF Calm
<1>6. \A i \in 1 .. Len(list) : i \in D <=> (list[i].pending \/ list[i].at <= Now)
  BY <1>4 DEF DoneAt, IsDone
<1>7. \A e : e \in signalled <=> \E i \in 1 .. Len(list) : i \in D /\ list[i].ev = e
  BY <1>4 DEF DoneAt
<1>8. PICK h : LeftOf(Len(list), Now, list', h)
  BY <1>2, <1>4, RemainingIs
<1>9. /\ \A k \in 1 .. Len(list') : \E i \in 1 .. Len(list) : i \notin D /\ list'[k] = list[i]
      /\ \A i \in 1 .. Len(list) : i \in D \/ \E k \in 1 .. Len(list') : list'[k] = list[i]
  <2>1. /\ \A k \in 1 .. Len(list') : h[k] \in 1 .. Len(list) /\ list'[k] = list[h[k]]
                                      /\ ~IsDone(list[h[k]], Now)
        /\ \A i \in 1 .. Len(list) : IsDone(list[i], Now) \/ \E k \in 1 .. Len(list') : h[k] = i
    BY <1>8 DEF LeftOf
  <2>2. \A i \in 1 .. Len(list) : i \in D <=> IsDone(list[i], Now)
    BY <1>6 DEF IsDone
  <2> HIDE DEF D
  <2> QED
    BY <2>1, <2>2
<1> HIDE DEF D, signalled
<1>10. \A i \in 1 .. Len(list) : i \notin D => list[i].ev \notin signalled
  BY <1>4, <1>7 DEF Distinct, DistinctIn
<1>11. Now' = Now /\ (Now + Period)' = Now + Period
  BY <1>2 DEF Now, Period
<1>12. A <= Now /\ Now <= A + late
  BY <1>2 DEF Timely, Alarm
<1>13. Alarm(A)'
  <2>1. ASSUME NEW k \in 1 .. Len(list'), list'[k].pending, list'[k].ev \notin left'
        PROVE  FALSE
    <3>1. PICK i \in 1 .. Len(list) : i \notin D /\ list'[k] = list[i]
      BY <1>9
    <3> QED
      BY <1>6, <2>1, <3>1
  <2> QED
    BY <1>2, <1>11, <1>12, <2>1 DEF Timely, Alarm, Match, Period
\* None is signalled before its time.
<1>14. ASSUME NEW e \in signalled \ left PROVE ~(due[e] > Now)
  <2>1. PICK i \in 1 .. Len(list) : i \in D /\ list[i].ev = e
    BY <1>7
  <2>2. pc # "unlink" /\ pc # "enable"
    BY <1>5, <2>1
  <2>3. due[e] = list[i].at /\ list[i].at \in Int
    BY <1>4, <2>1, <2>2 DEF Timely, Booked
  <2>4. list[i].at <= Now
    <3>1. CASE list[i].pending
      <4>1. list[i].at <= A
        BY <2>1, <2>2, <3>1 DEF Timely, Alarm
      <4> QED
        BY <1>4, <1>12, <2>3, <4>1
    <3>2. CASE ~list[i].pending
      BY <1>6, <2>1, <3>2
    <3> QED
      BY <3>1, <3>2
  <2> QED
    BY <1>4, <2>3, <2>4
<1>15. \A e \in Event : due'[e] = IF e \in signalled THEN 0 ELSE due[e]
  BY <1>3
<1>16. pc \in Taking => p_temp.ev \in Event /\ p_temp.ev \notin signalled
  <2>1. pc \in Taking => p_temp.ev \in Event
    BY <1>4 DEF Shape, HandShape, Entry
  <2>2. CASE pc = "unlink"
    BY <1>5, <1>7, <2>1, <2>2
  <2>3. CASE pc \in Taking \ {"unlink"}
    BY <1>4, <1>7, <2>1, <2>3 DEF Shape, HandShape
  <2> QED
    BY <2>1, <2>2, <2>3
<1>17. Booked'
  <2>1. ASSUME NEW k \in 1 .. Len(list')
        PROVE  /\ (pc = "unlink" /\ list'[k].ev = p_temp.ev) \/ due'[list'[k].ev] = list'[k].at
               /\ list'[k].at <= Now + Period
    <3>1. PICK i \in 1 .. Len(list) : i \notin D /\ list'[k] = list[i]
      BY <1>9
    <3>2. due'[list[i].ev] = due[list[i].ev]
      BY <1>4, <1>10, <1>15, <3>1
    <3> QED
      BY <3>1, <3>2 DEF Timely, Booked
  <2>2. pc \in Taking => due'[p_temp.ev] = due[p_temp.ev]
    BY <1>15, <1>16
  <2>3. ~early'
    BY <1>3, <1>14, Zenon DEF Timely, Booked
  <2> QED
    BY <1>2, <1>11, <2>1, <2>2, <2>3 DEF Timely, Booked
<1>18. ASSUME "missed" \notin upset' PROVE Prompt'
  <2>1. Prompt
    BY <1>3, <1>18 DEF Timely
  <2>2. ASSUME NEW e \in Event, due'[e] # 0
        PROVE  \/ \E k \in 1 .. Len(list') : list'[k].ev = e /\ ~(pc = "unlink" /\ p_temp.ev = e)
               \/ pc \in Taking /\ p_temp.ev = e
    <3>1. e \notin signalled /\ due[e] # 0
      BY <1>15, <2>2
    <3>2. CASE pc \in Taking /\ p_temp.ev = e
      BY <3>2
    <3>3. CASE ~(pc \in Taking /\ p_temp.ev = e)
      <4>1. PICK i \in 1 .. Len(list) : list[i].ev = e /\ ~(pc = "unlink" /\ p_temp.ev = e)
        BY <2>1, <3>1, <3>3 DEF Prompt
      <4>2. PICK k \in 1 .. Len(list') : list'[k] = list[i]
        BY <1>7, <1>9, <3>1, <4>1
      <4> QED
        BY <4>1, <4>2
    <3> QED
      BY <3>2, <3>3
  <2>3. ASSUME NEW k \in 1 .. Len(list') PROVE Now < list'[k].at + late
    <3>1. PICK i \in 1 .. Len(list) : i \notin D /\ list'[k] = list[i]
      BY <1>9
    <3> QED
      BY <1>4, <1>6, <3>1
  <2> QED
    BY <1>2, <1>11, <2>1, <2>2, <2>3 DEF Prompt, Taking
<1>19. Steady(A)'
  BY <1>2 DEF Steady
<1> QED
  BY <1>13, <1>17, <1>18, <1>19 DEF Timely

LEMMA DuesStep == ASSUME AlarmInv, [Next]_vars PROVE Dues'
<1>1. CASE Search
  <2>1. asked \in Event /\ set_time \in Int
    BY <1>1, AskingHolds, TimesAreNumbers DEF AlarmInv, QueueInv, Asking, Search, Step
  <2> QED
    BY <1>1, <2>1 DEF Search, AlarmInv, Dues
<1>2. CASE Handles
  BY <1>2 DEF Handles, RTC0ALRM_IRQHandler, rtc_alarm_relative_handle_timeout_item, AlarmInv, Dues
<1>3. CASE Elsewhere
  BY <1>3, ElsewhereIs DEF AlarmInv, QueueInv, Called, Dues
<1>4. CASE Unlink \/ rtc_alarm_relative_malloc \/ Walk \/ Link \/ Arm \/ Enable \/ ArmAgain \/ UNCHANGED vars
  BY <1>4 DEF Unlink, rtc_alarm_relative_malloc, Walk, Link, Arm, Enable, ArmAgain, vars, observed, call,
              AlarmInv, Dues
<1> QED
  BY <1>1, <1>2, <1>3, <1>4, Steps

LEMMA TimelyStep ==
  ASSUME AlarmInv, Sound', [Next]_vars, upset \subseteq upset' PROVE TimelyInv'
<1> SUFFICES ASSUME Calm' PROVE \E B \in Int : Timely(B)'
  BY DEF TimelyInv
<1>1. Calm
  BY DEF Calm
<1>2. PICK A \in Int : Timely(A)
  BY <1>1 DEF AlarmInv, TimelyInv
<1>3. CASE Tick
  BY <1>2, <1>3, TimelyTick
<1>4. CASE Reads
  BY <1>2, <1>4, TimelyReads
<1>5. CASE SetTimer
  <2>1. Timely(value2)' /\ value2 \in Int /\ value2' = value2
    BY <1>1, <1>2, <1>5, TimelySet DEF AlarmInv, SetTimer, match
  <2>2. PICK B \in Int : B = value2
    BY <2>1
  <2> QED
    BY <2>1, <2>2
<1>6. CASE ThroughNull
  <2>1. pc' = "undefined"
    BY <1>6 DEF ThroughNull, Step
  <2>2. "raced" \notin upset'
    BY DEF Calm
  <2> QED
    BY <2>1, <2>2 DEF Sound, SoundNow
<1>7. CASE Search \/ Unlink \/ rtc_alarm_relative_malloc \/ Walk \/ Link
  BY <1>1, <1>2, <1>7, TimelySearch, TimelyUnlink, TimelyWalk, TimelyLink
<1>8. CASE Arm \/ Enable \/ ArmAgain
  BY <1>1, <1>2, <1>8, TimelyArm, TimelyEnable, TimelyArmAgain
<1>9. CASE Handles
  BY <1>1, <1>2, <1>9, TimelyHandles
<1>10. CASE UNCHANGED vars
  <2>1. UNCHANGED <<list, p_temp, due, left, early, alarm2, enabled2, value2, isr, counter, era, late,
                    pc, caller>>
    BY <1>10 DEF vars, clock, control, queue, match, call, observed
  <2>2. Hasty' <=> Hasty
    BY <2>1 DEF Hasty
  <2> QED
    BY <1>2, <2>1, <2>2, TimelyKept
<1> QED
  BY <1>3, <1>4, <1>5, <1>6, <1>7, <1>8, <1>9, <1>10, Steps DEF Elsewhere, Reads

LEMMA AlarmInvInit == Init => AlarmInv
<1> SUFFICES ASSUME Init PROVE AlarmInv
  OBVIOUS
<1>1. /\ list = <<>> /\ Len(list) = 0 /\ pc = "idle" /\ isr = "off" /\ ~enabled2 /\ value2 = 0
      /\ due = [e \in Event |-> 0] /\ ~early /\ upset = {} /\ era = 0 /\ counter = 0
  BY DEF Init, ClockInit
<1>2. Now = 0 /\ Match(0, value2) /\ 0 <= Now + Period
  <2>1. (0 * Period) = 0
    BY PeriodIs
  <2> QED
    BY <1>1, <2>1, PeriodIs DEF Now, Match
<1>3. Timely(0)
  BY <1>1, <1>2 DEF Timely, Alarm, Booked, Prompt, Steady, Taking, Hasty
<1>4. value2 \in 0 .. overflow_value /\ Dues
  BY <1>1, PeriodIs DEF Dues
<1>6. ControlTypes
  BY DEF Init, ControlTypes
<1>5. TimelyInv
  BY <1>3 DEF TimelyInv
<1> QED
  BY <1>1, <1>4, <1>5, <1>6, QueueInvInit, TimeInvInit, SoundInit DEF AlarmInv, TimeInv

LEMMA AlarmInvStep == ASSUME AlarmInv, [Next]_vars PROVE AlarmInv'
<1>1. QueueInv' /\ upset' \subseteq Mishap /\ upset \subseteq upset'
  BY QueueInvStep, UpsetStep DEF AlarmInv
<1>2. Sound'
  BY <1>1, SoundStep DEF AlarmInv
<1>3. Reading'
  BY TimeInvStep DEF AlarmInv, QueueInv, TimeInv
<1>4. value2' \in 0 .. overflow_value /\ ControlTypes'
  BY RegisterStep, ControlStep DEF AlarmInv
<1>5. Dues' /\ TimelyInv'
  BY <1>1, <1>2, DuesStep, TimelyStep
<1> QED
  BY <1>1, <1>2, <1>3, <1>4, <1>5 DEF AlarmInv

THEOREM AlarmInvariant == Spec => []AlarmInv
<1>1. Init => AlarmInv
  BY AlarmInvInit
<1>2. AlarmInv /\ [Next]_vars => AlarmInv'
  BY AlarmInvStep
<1> QED
  BY <1>1, <1>2, PTL DEF Spec

\* No flag is set before the time asked for (rtc_alarm_relative.c:201-226), unless the
\* clock was a period ahead or was set meanwhile, or the handler came in between; nor is
\* one set early because the counter matched the register a period too soon.
THEOREM SignalledNotEarly == Spec => []NeverEarly
<1>1. AlarmInv => NeverEarly
  BY DEF AlarmInv, TimelyInv, Calm, Timely, Booked, NeverEarly
<1> QED
  BY <1>1, AlarmInvariant, PTL

\* Every flag asked for is set within Late ticks of its time, if in addition the alarm
\* was never written too late: the alarm is always set to the first of the list or
\* before it (rtc_alarm_relative.c:103-141, 230-236), and no item is forgotten.
THEOREM SignalledNotLate == Spec => []NeverLate
<1>1. AlarmInv => NeverLate
  <2> SUFFICES ASSUME AlarmInv, Calm, "missed" \notin upset, NEW e \in Event, due[e] # 0
               PROVE  Now <= due[e] + Late
    BY DEF NeverLate, Calm
  <2>1. PICK A \in Int : Alarm(A) /\ Booked /\ Prompt /\ Steady(A)
    BY DEF AlarmInv, TimelyInv, Timely
  <2>2. /\ list \in Seq(Entry) /\ Len(list) \in Nat /\ Ordered /\ Shape
        /\ \A i \in 1 .. Len(list) : list[i].at \in Int
        /\ Now \in Int
    BY CalmIs
  <2>3. late \in 0 .. Late /\ Late \in Nat
    BY PeriodIs DEF AlarmInv, QueueInv, ClockInv, ClockTypes
  <2>4. CASE pc \in Taking /\ p_temp.ev = e
    <3>1. Now < p_temp.at + late /\ due[e] = p_temp.at
      BY <2>1, <2>4 DEF Prompt, Booked
    <3>2. p_temp.at \in Int
      BY <2>2, <2>4, TimesAreNumbers DEF Shape, HandShape, Entry
    <3> QED
      BY <2>2, <2>3, <3>1, <3>2
  <2>5. CASE ~(pc \in Taking /\ p_temp.ev = e)
    <3>1. PICK i \in 1 .. Len(list) : list[i].ev = e /\ ~(pc = "unlink" /\ p_temp.ev = e)
      BY <2>1, <2>5 DEF Prompt
    <3>2. due[e] = list[i].at /\ list[i].at \in Int
      BY <2>1, <2>2, <3>1 DEF Booked
    <3>3. CASE isr = "arm" \/ Hasty
      <4>1. Now < list[i].at + late
        BY <2>1, <3>3 DEF Prompt
      <4> QED
        BY <2>2, <2>3, <3>2, <4>1
    <3>4. CASE ~(isr = "arm" \/ Hasty)
      <4>1. isr = "off" /\ list # <<>> /\ 1 \in 1 .. Len(list)
        <5>1. isr \in {"off", "arm"}
          BY DEF AlarmInv, ControlTypes
        <5> QED
          BY <2>2, <3>1, <3>4, <5>1
      <4>2. (alarm2 \/ Now < A) /\ enabled2 /\ A <= list[1].at
        BY <2>1, <3>4, <4>1 DEF Steady
      <4>3. list[1].at <= list[i].at
        BY <2>2, <4>1 DEF Ordered
      <4>4. Now <= A + late
        <5>1. CASE alarm2
          BY <2>1, <4>2, <5>1 DEF Alarm
        <5>2. CASE Now < A
          BY <2>2, <2>3, <5>2
        <5> QED
          BY <4>2, <5>1, <5>2
      <4>5. list[1].at \in Int
        BY <2>2, <4>1
      <4> QED
        BY <2>2, <2>3, <3>2, <4>2, <4>3, <4>4, <4>5
    <3> QED
      BY <3>3, <3>4
  <2> QED
    BY <2>4, <2>5
<1> QED
  BY <1>1, AlarmInvariant, PTL
===============================================================================
