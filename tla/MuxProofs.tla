-------------------------------- MODULE MuxProofs --------------------------------
(***************************************************************************)
(* Proofs about the time-out multiplexer: no event is forgotten and none   *)
(* is signalled early, for any number of events, any times and any width   *)
(* of the counter, as long as the handler does not come under a call.      *)
(***************************************************************************)
EXTENDS TimeoutMux, SequenceTheorems, FiniteSetTheorems, WellFoundedInduction, TLAPS

-------------------------------------------------------------------------------
(* The inductive invariant.                                                *)

Item == [ev : Event, time : Int, flag : BOOLEAN]

Flags ==
  /\ pc \in {"idle", "shift", "append", "sort", "remove", "missing"}
  /\ unit \in {"US", "MS"}

Values ==
  /\ items \in Seq(Item)
  /\ timeout_current_time \in 0 .. Width - 1 /\ count \in 0 .. Width - 1
  /\ current_time \in Nat
  /\ pc \in {"shift", "append"} => arg.ev \in Event /\ arg.time \in Nat
  /\ waiting \subseteq Event /\ remains \in [Event -> Nat]

\* The timer runs while there are items, but for the microseconds under a call and
\* before a new item has been sorted in.
Runs ==
  items # <<>> /\ (pc = "idle" \/ (unit = "MS" /\ pc # "sort")) => running

DistinctIn(s) == \A i, j \in 1 .. Len(s) : s[i].ev = s[j].ev => i = j
Ordered(s) == \A i, j \in 1 .. Len(s) : i <= j => s[i].time <= s[j].time

Listed ==
  /\ Events(items) = waiting /\ DistinctIn(items)
  /\ pc # "sort" => Ordered(items)
  /\ pc \in {"shift", "append"} => arg.ev \notin waiting
  /\ pc = "remove" => arg.time \in 1 .. Len(items) /\ items[arg.time].ev = arg.ev

\* The timer is set to the first item, which is flagged, and those of its time with it.
SetToFirst ==
  items # <<>> =>
    /\ timeout_current_time = FirstTime(items) % Width
    /\ \A i \in 1 .. Len(items) : items[i].flag <=> items[i].time = FirstTime(items)

\* The ticks since the timer was set, of which the handler knows all but the last.
SetAt == Width - 1 - timeout_current_time
Elapsed ==
  IF pc \notin {"idle", "missing"} THEN 0
  ELSE IF overflow THEN timeout_current_time
  ELSE count - SetAt

\* An event is due no later than its item says, unless a call took the time that has
\* passed with the wrong sign.
DueWithin ==
  \A i \in 1 .. Len(items) : items[i].ev \notin disturbed =>
    /\ items[i].time >= 0
    /\ remains[items[i].ev] = 0 \/ remains[items[i].ev] <= items[i].time - Elapsed

Timed ==
  /\ pc \notin {"append", "sort"} => SetToFirst
  /\ items # <<>> /\ pc \in {"idle", "missing"} /\ ~overflow => SetAt <= count
  /\ pc \in {"shift", "remove"} /\ current_time # 0 => waiting \subseteq disturbed
  /\ DueWithin
  /\ ~early

MuxInv == Flags /\ Values /\ Runs /\ (~raced => Listed /\ Timed)
-------------------------------------------------------------------------------
(* What is left of the array: the items that stay, in their order, their   *)
(* times moved on.                                                         *)

LEMMA ItemFields ==
  ASSUME NEW s \in Seq(Item), NEW i \in 1 .. Len(s)
  PROVE  s[i] \in Item /\ s[i].ev \in Event /\ s[i].time \in Int /\ s[i].flag \in BOOLEAN
<1>1. s[i] \in Item
  BY ElementOfSeq
<1> QED
  BY <1>1 DEF Item

LEMMA MovedIs ==
  ASSUME NEW x \in Item, NEW t \in Int
  PROVE  /\ Moved(x, t) \in Item
         /\ Moved(x, t).ev = x.ev /\ Moved(x, t).time = x.time - t /\ Moved(x, t).flag = x.flag
BY DEF Moved, Item

LEMMA Induction ==
  ASSUME NEW S, 0 \in S, \A n \in Nat : n \in S => n + 1 \in S
  PROVE  Nat \subseteq S
<1> DEFINE T == Nat \ S
           R == OpToRel(<, Nat)
<1>1. IsWellFoundedOn(R, Nat)
  BY NatLessThanWellFounded, Zenon
<1>2. SUFFICES ASSUME T # {} PROVE FALSE
  OBVIOUS
<1>3. T \subseteq Nat
  OBVIOUS
<1> HIDE DEF T, R
<1>4. PICK x \in T : \A y \in T : ~(<<y, x>> \in R)
  BY <1>1, <1>2, <1>3, WFMin
<1>5. \A y \in T : ~(y < x)
  BY <1>3, <1>4 DEF R, OpToRel
<1>6. x \in Nat /\ x \notin S /\ x # 0
  BY <1>3 DEF T
<1>7. x - 1 \in Nat /\ x - 1 \notin S
  BY <1>6
<1> QED
  BY <1>5, <1>6, <1>7 DEF T

WalkTo(f, s, I, t, n) ==
  IF n = 0 THEN <<>>
  ELSE IF Goes(s, I, t, n) THEN f[n - 1] ELSE Append(f[n - 1], Moved(s[n], t))

\* r are the items among the first n that do not go; h says where each was.
LeftOf(n, s, I, t, r, h) ==
  /\ r \in Seq(Item) /\ h \in [1 .. Len(r) -> 1 .. n]
  /\ \A k \in 1 .. Len(r) : r[k] = Moved(s[h[k]], t) /\ ~Goes(s, I, t, h[k])
  /\ \A k, l \in 1 .. Len(r) : k < l => h[k] < h[l]
  /\ \A i \in 1 .. n : Goes(s, I, t, i) \/ \E k \in 1 .. Len(r) : h[k] = i

LEMMA WalkExists ==
  ASSUME NEW s \in Seq(Item), NEW I, NEW t \in Int
  PROVE  \E f : f = [n \in 0 .. Len(s) |-> WalkTo(f, s, I, t, n)]
<1> DEFINE m == Len(s)
           Good(f, n) == f \in [0 .. n -> Seq(Item)] /\ \A k \in 0 .. n : f[k] = WalkTo(f, s, I, t, k)
           S == {n \in Nat : n <= m => \E f : Good(f, n)}
<1>0. m \in Nat
  OBVIOUS
<1> HIDE DEF Good
<1>1. 0 \in S
  <2> DEFINE f == [k \in 0 .. 0 |-> <<>>]
  <2>1. f \in [0 .. 0 -> Seq(Item)] /\ \A k \in 0 .. 0 : f[k] = WalkTo(f, s, I, t, k)
    BY DEF WalkTo
  <2> HIDE DEF f
  <2> QED
    BY <2>1 DEF Good
<1>2. ASSUME NEW n \in Nat, n \in S PROVE n + 1 \in S
  <2>1. SUFFICES ASSUME n + 1 <= m PROVE \E f : Good(f, n + 1)
    OBVIOUS
  <2>9. \E f : Good(f, n)
    BY <1>0, <1>2, <2>1
  <2>2. PICK f : f \in [0 .. n -> Seq(Item)] /\ \A k \in 0 .. n : f[k] = WalkTo(f, s, I, t, k)
    BY <2>9, Zenon DEF Good
  <2> DEFINE g == [k \in 0 .. n + 1 |-> IF k <= n THEN f[k] ELSE WalkTo(f, s, I, t, n + 1)]
  <2>3. n + 1 \in 1 .. m /\ n \in 0 .. n /\ (n + 1) - 1 = n /\ n + 1 # 0
    BY <1>0, <2>1
  <2>4. f[n] \in Seq(Item) /\ Moved(s[n + 1], t) \in Item
    BY <2>2, <2>3, ElementOfSeq, MovedIs
  <2>5. Append(f[n], Moved(s[n + 1], t)) \in Seq(Item)
    BY <2>4, AppendProperties
  <2>6. WalkTo(f, s, I, t, n + 1) \in Seq(Item)
    BY <2>3, <2>4, <2>5 DEF WalkTo
  <2>7. g \in [0 .. n + 1 -> Seq(Item)]
    <3>1. ASSUME NEW k \in 0 .. n + 1, k <= n PROVE f[k] \in Seq(Item)
      <4>1. k \in 0 .. n
        BY <3>1
      <4> QED
        BY <2>2, <4>1
    <3> QED
      BY <2>6, <3>1
  <2>8. ASSUME NEW k \in 0 .. n + 1 PROVE g[k] = WalkTo(g, s, I, t, k)
    <3>1. CASE k = 0
      <4>1. g[0] = f[0] /\ f[0] = WalkTo(f, s, I, t, 0)
        BY <2>2
      <4> QED
        BY <3>1, <4>1 DEF WalkTo
    <3>2. CASE k # 0 /\ k <= n
      <4>1. k \in 0 .. n /\ k - 1 \in 0 .. n + 1 /\ k - 1 <= n
        BY <3>2
      <4>2. g[k] = f[k] /\ g[k - 1] = f[k - 1]
        BY <3>2, <4>1
      <4>3. f[k] = WalkTo(f, s, I, t, k)
        BY <2>2, <4>1
      <4> HIDE DEF g
      <4> QED
        BY <4>2, <4>3 DEF WalkTo
    <3>3. CASE k = n + 1
      <4>1. g[n + 1] = WalkTo(f, s, I, t, n + 1) /\ g[n] = f[n]
        BY <2>3
      <4> HIDE DEF g
      <4> QED
        BY <2>3, <3>3, <4>1 DEF WalkTo
    <3>4. k = 0 \/ (k # 0 /\ k <= n) \/ k = n + 1
      OBVIOUS
    <3> HIDE DEF g
    <3> QED
      BY <3>1, <3>2, <3>3, <3>4
  <2> HIDE DEF g
  <2> QED
    BY <2>7, <2>8 DEF Good
<1>3. m \in S
  <2> HIDE DEF S
  <2> QED
    BY <1>0, <1>1, <1>2, Induction
<1>4. PICK f : Good(f, m)
  BY <1>0, <1>3
<1>5. f = [n \in 0 .. m |-> WalkTo(f, s, I, t, n)]
  BY <1>4 DEF Good
<1> QED
  BY <1>5

LEMMA RestIs ==
  ASSUME NEW s \in Seq(Item), NEW I, NEW t \in Int
  PROVE  \E h : LeftOf(Len(s), s, I, t, Rest(s, I, t), h)
<1> DEFINE m == Len(s)
           f == CHOOSE f : f = [n \in 0 .. Len(s) |->
                  IF n = 0 THEN <<>>
                  ELSE IF Goes(s, I, t, n) THEN f[n - 1]
                  ELSE Append(f[n - 1], Moved(s[n], t))]
           S == {n \in Nat : n <= m => \E h : LeftOf(n, s, I, t, f[n], h)}
<1>0. m \in Nat
  OBVIOUS
<1>1. Rest(s, I, t) = f[m]
  BY DEF Rest
<1>2. f = [n \in 0 .. m |-> WalkTo(f, s, I, t, n)]
  <2>1. \E g : g = [n \in 0 .. Len(s) |->
                IF n = 0 THEN <<>>
                ELSE IF Goes(s, I, t, n) THEN g[n - 1] ELSE Append(g[n - 1], Moved(s[n], t))]
    BY WalkExists DEF WalkTo
  <2>2. f = [n \in 0 .. Len(s) |->
                IF n = 0 THEN <<>>
                ELSE IF Goes(s, I, t, n) THEN f[n - 1] ELSE Append(f[n - 1], Moved(s[n], t))]
    BY <2>1
  <2> QED
    BY <2>2 DEF WalkTo
<1> HIDE DEF f
<1>3. \A n \in 0 .. m : f[n] = WalkTo(f, s, I, t, n)
  BY <1>2
<1>4. 0 \in S
  <2>1. f[0] = <<>>
    BY <1>0, <1>3 DEF WalkTo
  <2> DEFINE h == [k \in 1 .. 0 |-> k]
  <2>2. h \in [1 .. Len(<<>>) -> 1 .. 0] /\ 1 .. Len(<<>>) = {} /\ 1 .. 0 = {}
    BY EmptySeq
  <2>3. <<>> \in Seq(Item)
    OBVIOUS
  <2> HIDE DEF h
  <2>4. LeftOf(0, s, I, t, <<>>, h)
    BY <2>2, <2>3 DEF LeftOf
  <2> QED
    BY <2>1, <2>4
<1>5. ASSUME NEW n \in Nat, n \in S PROVE n + 1 \in S
  <2>1. SUFFICES ASSUME n + 1 <= m PROVE \E h : LeftOf(n + 1, s, I, t, f[n + 1], h)
    OBVIOUS
  <2>2. PICK h : LeftOf(n, s, I, t, f[n], h)
    BY <1>0, <1>5, <2>1
  <2>3. n + 1 \in 1 .. m /\ n \in 0 .. m /\ (n + 1) - 1 = n /\ n + 1 # 0 /\ n + 1 \in 0 .. m
    BY <1>0, <2>1
  <2>4. f[n + 1] = IF Goes(s, I, t, n + 1) THEN f[n] ELSE Append(f[n], Moved(s[n + 1], t))
    BY <1>3, <2>3 DEF WalkTo
  <2> DEFINE r == f[n]
             q == Len(r)
             x == Moved(s[n + 1], t)
  <2>5. /\ r \in Seq(Item) /\ h \in [1 .. q -> 1 .. n] /\ q \in Nat
        /\ \A k \in 1 .. q : r[k] = Moved(s[h[k]], t) /\ ~Goes(s, I, t, h[k])
        /\ \A k, l \in 1 .. q : k < l => h[k] < h[l]
        /\ \A i \in 1 .. n : Goes(s, I, t, i) \/ \E k \in 1 .. q : h[k] = i
    BY <2>2 DEF LeftOf
  <2>6. x \in Item
    BY <2>3, ItemFields, MovedIs
  <2> HIDE DEF r, q, x
  <2>7. CASE Goes(s, I, t, n + 1)
    <3>1. f[n + 1] = r
      BY <2>4, <2>7 DEF r, x
    <3>2. h \in [1 .. q -> 1 .. n + 1]
      BY <2>5
    <3>3. ASSUME NEW i \in 1 .. n + 1 PROVE Goes(s, I, t, i) \/ \E k \in 1 .. q : h[k] = i
      <4>1. i \in 1 .. n \/ i = n + 1
        OBVIOUS
      <4> QED
        BY <2>5, <2>7, <4>1 DEF x
    <3>4. LeftOf(n + 1, s, I, t, r, h)
      BY <2>5, <3>2, <3>3 DEF LeftOf, q
    <3> QED
      BY <3>1, <3>4
  <2>8. CASE ~Goes(s, I, t, n + 1)
    <3> DEFINE z == Append(r, x)
               g == [k \in 1 .. q + 1 |-> IF k <= q THEN h[k] ELSE n + 1]
    <3>1. f[n + 1] = z
      BY <2>4, <2>8 DEF r, x
    <3>2. /\ z \in Seq(Item) /\ Len(z) = q + 1
          /\ \A k \in 1 .. q : z[k] = r[k]
          /\ z[q + 1] = x
      BY <2>5, <2>6, AppendProperties DEF q
    <3>3. \A k \in 1 .. q : g[k] = h[k] /\ h[k] \in 1 .. n
      BY <2>5
    <3>4. g[q + 1] = n + 1
      BY <2>5
    <3>5. \A k \in 1 .. q + 1 : k \in 1 .. q \/ k = q + 1
      BY <2>5
    <3>6. g \in [1 .. q + 1 -> 1 .. n + 1]
      BY <2>5, <3>3, <3>5
    <3> HIDE DEF z, g
    <3>7. ASSUME NEW k \in 1 .. q + 1 PROVE z[k] = Moved(s[g[k]], t) /\ ~Goes(s, I, t, g[k])
      BY <2>5, <2>8, <3>2, <3>3, <3>4, <3>5 DEF x
    <3>8. ASSUME NEW k \in 1 .. q + 1, NEW l \in 1 .. q + 1, k < l PROVE g[k] < g[l]
      <4>1. k \in 1 .. q /\ q \in Nat
        BY <2>5, <3>8
      <4>2. CASE l \in 1 .. q
        BY <2>5, <3>3, <3>8, <4>1, <4>2
      <4>3. CASE l = q + 1
        <5>1. g[k] \in 1 .. n /\ g[l] = n + 1
          BY <3>3, <3>4, <4>1, <4>3
        <5> QED
          BY <5>1
      <4> QED
        BY <3>5, <4>2, <4>3
    <3>9. ASSUME NEW i \in 1 .. n + 1 PROVE Goes(s, I, t, i) \/ \E k \in 1 .. q + 1 : g[k] = i
      <4>1. CASE i \in 1 .. n
        <5>1. ASSUME NEW k \in 1 .. q, h[k] = i PROVE \E l \in 1 .. q + 1 : g[l] = i
          <6>1. k \in 1 .. q + 1 /\ g[k] = i
            BY <2>5, <3>3, <5>1
          <6> QED
            BY <6>1
        <5> QED
          BY <2>5, <4>1, <5>1
      <4>2. CASE i = n + 1
        <5>1. q + 1 \in 1 .. q + 1
          BY <2>5
        <5> QED
          BY <3>4, <4>2, <5>1
      <4>3. i \in 1 .. n \/ i = n + 1
        OBVIOUS
      <4> QED
        BY <4>1, <4>2, <4>3
    <3>10. LeftOf(n + 1, s, I, t, z, g)
      BY <3>2, <3>6, <3>7, <3>8, <3>9 DEF LeftOf
    <3> QED
      BY <3>1, <3>10
  <2> QED
    BY <2>7, <2>8
<1>6. m \in S
  <2> HIDE DEF S
  <2> QED
    BY <1>0, <1>4, <1>5, Induction
<1> QED
  BY <1>0, <1>1, <1>6

-------------------------------------------------------------------------------
(* Sorting: a sorted array has the items of the array, each at one place,  *)
(* in the order of their times.                                            *)

DistinctPlaces(p, n) == \A k, l \in 1 .. n : p[k] = p[l] => k = l

UpTo(s, i) ==
  {j \in DOMAIN s : s[j].time < s[i].time \/ (s[j].time = s[i].time /\ j <= i)}

LEMMA PlaceIsInRange ==
  ASSUME NEW s \in Seq(Item), NEW i \in 1 .. Len(s)
  PROVE  /\ UpTo(s, i) \in SUBSET (1 .. Len(s)) /\ i \in UpTo(s, i)
         /\ IsFiniteSet(UpTo(s, i)) /\ Place(s, i) = Cardinality(UpTo(s, i))
         /\ Place(s, i) \in 1 .. Len(s)
<1> DEFINE n == Len(s)
<1>1. n \in Nat /\ DOMAIN s = 1 .. n
  OBVIOUS
<1>2. IsFiniteSet(1 .. n) /\ Cardinality(1 .. n) = n
  <2>1. /\ IsFiniteSet(1 .. n)
        /\ Cardinality(1 .. n) = IF 1 > n THEN 0 ELSE n - 1 + 1
    BY <1>1, FS_Interval
  <2> QED
    BY <1>1, <2>1
<1>3. UpTo(s, i) \in SUBSET (1 .. n)
  BY <1>1 DEF UpTo
<1>4. i \in UpTo(s, i)
  BY <1>1, ItemFields DEF UpTo
<1>5. Place(s, i) = Cardinality(UpTo(s, i))
  BY DEF Place, UpTo
<1>6. IsFiniteSet(UpTo(s, i)) /\ Cardinality(UpTo(s, i)) <= n
  BY <1>2, <1>3, FS_Subset
<1>7. Cardinality(UpTo(s, i)) \in Nat
  BY <1>6, FS_CardinalityType
<1>8. Cardinality(UpTo(s, i)) # 0
  BY <1>4, <1>6, FS_EmptySet
<1> QED
  BY <1>1, <1>3, <1>4, <1>5, <1>6, <1>7, <1>8

\* An item goes before those that are later, or at the same time but further up.
LEMMA PlaceFollowsTime ==
  ASSUME NEW s \in Seq(Item), NEW i \in 1 .. Len(s), NEW j \in 1 .. Len(s),
         s[i].time < s[j].time \/ (s[i].time = s[j].time /\ i < j)
  PROVE  Place(s, i) < Place(s, j)
<1>1. DOMAIN s = 1 .. Len(s) /\ \A k \in 1 .. Len(s) : s[k].time \in Int
  BY ItemFields
<1>2. UpTo(s, i) \in SUBSET UpTo(s, j)
  BY <1>1 DEF UpTo
<1>3. j \notin UpTo(s, i)
  BY <1>1 DEF UpTo
<1>4. j \in UpTo(s, j) /\ IsFiniteSet(UpTo(s, j)) /\ IsFiniteSet(UpTo(s, i))
  BY PlaceIsInRange
<1>5. Cardinality(UpTo(s, i)) <= Cardinality(UpTo(s, j))
      /\ Cardinality(UpTo(s, i)) # Cardinality(UpTo(s, j))
  BY <1>2, <1>3, <1>4, FS_Subset
<1>6. Cardinality(UpTo(s, i)) \in Nat /\ Cardinality(UpTo(s, j)) \in Nat
  BY <1>4, FS_CardinalityType
<1>7. Place(s, i) = Cardinality(UpTo(s, i)) /\ Place(s, j) = Cardinality(UpTo(s, j))
  BY PlaceIsInRange
<1> QED
  BY <1>5, <1>6, <1>7

LEMMA PlaceIsDistinct ==
  ASSUME NEW s \in Seq(Item), NEW i \in 1 .. Len(s), NEW j \in 1 .. Len(s),
         Place(s, i) = Place(s, j)
  PROVE  i = j
<1>1. s[i].time \in Int /\ s[j].time \in Int
  BY ItemFields
<1>2. Place(s, i) \in Int
  BY PlaceIsInRange
<1>3. ~(Place(s, i) < Place(s, j)) /\ ~(Place(s, j) < Place(s, i))
  BY <1>2
<1>4. ~(s[i].time < s[j].time) /\ ~(s[i].time = s[j].time /\ i < j)
  BY <1>3, PlaceFollowsTime
<1>5. ~(s[j].time < s[i].time) /\ ~(s[j].time = s[i].time /\ j < i)
  BY <1>3, PlaceFollowsTime
<1> QED
  BY <1>1, <1>4, <1>5

LEMMA EveryPlace ==
  ASSUME NEW s \in Seq(Item), NEW k \in 1 .. Len(s)
  PROVE  \E i \in 1 .. Len(s) : Place(s, i) = k
<1> DEFINE n == Len(s)
           f == [i \in 1 .. n |-> Place(s, i)]
<1>1. n \in Nat
  OBVIOUS
<1>2. IsFiniteSet(1 .. n)
  BY <1>1, FS_Interval
<1>3. f \in [1 .. n -> 1 .. n]
  BY PlaceIsInRange
<1>4. \A i, j \in 1 .. n : f[i] = f[j] => i = j
  BY PlaceIsDistinct
<1>5. f \in Injection(1 .. n, 1 .. n)
  <2> HIDE DEF f
  <2> QED
    BY <1>3, <1>4 DEF Injection, IsInjective
<1> HIDE DEF f
<1>6. f \in Surjection(1 .. n, 1 .. n)
  BY <1>2, <1>5, FS_Injection
<1>7. \E i \in 1 .. n : f[i] = k
  BY <1>6 DEF Surjection
<1> QED
  BY <1>7 DEF f

\* s sorted: p says where each item was.
SortedFrom(s, z, p) ==
  /\ z \in Seq(Item) /\ Len(z) = Len(s)
  /\ p \in [1 .. Len(s) -> 1 .. Len(s)]
  /\ \A k \in 1 .. Len(s) : z[k] = s[p[k]]
  /\ DistinctPlaces(p, Len(s))
  /\ \A i \in 1 .. Len(s) : \E k \in 1 .. Len(s) : p[k] = i
  /\ Ordered(z)

LEMMA SortedIs ==
  ASSUME NEW s \in Seq(Item)
  PROVE  \E p : SortedFrom(s, Sorted(s), p)
<1> DEFINE n == Len(s)
           p == [k \in 1 .. n |-> CHOOSE i \in 1 .. n : Place(s, i) = k]
           z == Sorted(s)
<1>1. n \in Nat /\ DOMAIN s = 1 .. n
  OBVIOUS
<1>2. ASSUME NEW k \in 1 .. n PROVE p[k] \in 1 .. n /\ Place(s, p[k]) = k
  <2>1. \E i \in 1 .. n : Place(s, i) = k
    BY EveryPlace
  <2>2. p[k] = CHOOSE i \in 1 .. n : Place(s, i) = k
    OBVIOUS
  <2> QED
    BY <2>1, <2>2
<1>3. z = [k \in 1 .. n |-> s[p[k]]]
  BY <1>1 DEF Sorted
<1>4. p \in [1 .. n -> 1 .. n]
  <2>1. p = [k \in 1 .. n |-> p[k]]
    OBVIOUS
  <2> HIDE DEF p
  <2> QED
    BY <1>2, <2>1
<1> HIDE DEF p, z
<1>5. \A k \in 1 .. n : z[k] = s[p[k]] /\ s[p[k]] \in Item
  BY <1>2, <1>3, ItemFields
<1>6. z \in Seq(Item) /\ Len(z) = n
  <2>1. z \in [1 .. n -> Item]
    BY <1>3, <1>5
  <2>2. z \in Seq(Item)
    BY <1>1, <2>1
  <2>3. DOMAIN z = 1 .. n /\ Len(z) \in Nat /\ DOMAIN z = 1 .. Len(z)
    BY <2>1, <2>2
  <2> QED
    BY <1>1, <2>2, <2>3
<1>7. DistinctPlaces(p, n)
  BY <1>2 DEF DistinctPlaces
<1>8. ASSUME NEW i \in 1 .. n PROVE \E k \in 1 .. n : p[k] = i
  <2>1. Place(s, i) \in 1 .. n
    BY PlaceIsInRange
  <2>2. Place(s, p[Place(s, i)]) = Place(s, i) /\ p[Place(s, i)] \in 1 .. n
    BY <1>2, <2>1
  <2>3. p[Place(s, i)] = i
    BY <2>2, PlaceIsDistinct
  <2> QED
    BY <2>1, <2>3
<1>9. ASSUME NEW k \in 1 .. n, NEW l \in 1 .. n, k <= l PROVE z[k].time <= z[l].time
  <2>1. p[k] \in 1 .. n /\ p[l] \in 1 .. n /\ Place(s, p[k]) = k /\ Place(s, p[l]) = l
    BY <1>2
  <2>2. s[p[k]].time \in Int /\ s[p[l]].time \in Int
    BY <2>1, ItemFields
  <2>3. ~(s[p[l]].time < s[p[k]].time)
    <3>1. ~(Place(s, p[l]) < Place(s, p[k]))
      BY <1>9, <2>1
    <3> QED
      BY <2>1, <3>1, PlaceFollowsTime
  <2>4. z[k] = s[p[k]] /\ z[l] = s[p[l]]
    BY <1>5
  <2> QED
    BY <2>2, <2>3, <2>4
<1>10. Ordered(z)
  BY <1>6, <1>9 DEF Ordered
<1>11. SortedFrom(s, z, p)
  BY <1>4, <1>5, <1>6, <1>7, <1>8, <1>10 DEF SortedFrom
<1> QED
  BY <1>11 DEF z
-------------------------------------------------------------------------------
(* What the other operators do to the items.                               *)

\* z has the events of s at the same places.
SameEvents(s, z) ==
  /\ z \in Seq(Item) /\ Len(z) = Len(s)
  /\ \A i \in 1 .. Len(s) : z[i].ev = s[i].ev

LEMMA LaterIs ==
  ASSUME NEW s \in Seq(Item), NEW t \in Int
  PROVE  /\ SameEvents(s, Later(s, t))
         /\ \A i \in 1 .. Len(s) : Later(s, t)[i].time = s[i].time - t
<1> DEFINE z == Later(s, t)
<1>1. Len(s) \in Nat /\ DOMAIN s = 1 .. Len(s)
  OBVIOUS
<1>2. \A i \in 1 .. Len(s) : z[i] = Moved(s[i], t) /\ Moved(s[i], t) \in Item
  BY <1>1, ItemFields, MovedIs DEF Later
<1>3. z \in [1 .. Len(s) -> Item]
  BY <1>1, <1>2 DEF Later
<1> HIDE DEF z
<1>4. z \in Seq(Item) /\ Len(z) = Len(s)
  <2>1. z \in Seq(Item)
    BY <1>1, <1>3
  <2>2. DOMAIN z = 1 .. Len(s) /\ Len(z) \in Nat /\ DOMAIN z = 1 .. Len(z)
    BY <1>3, <2>1
  <2> QED
    BY <1>1, <2>1, <2>2
<1>5. \A i \in 1 .. Len(s) : z[i].ev = s[i].ev
  BY <1>2, ItemFields, MovedIs
<1>6. ASSUME NEW i \in 1 .. Len(s) PROVE z[i].time = s[i].time - t
  <2>1. s[i] \in Item /\ z[i] = Moved(s[i], t)
    BY <1>2, ItemFields
  <2>2. Moved(s[i], t).time = s[i].time - t
    BY <2>1, MovedIs
  <2> QED
    BY <2>1, <2>2
<1> QED
  BY <1>4, <1>5, <1>6 DEF SameEvents, z

LEMMA FlagSet ==
  ASSUME NEW x \in Item, NEW b \in BOOLEAN
  PROVE  /\ [x EXCEPT !.flag = b] \in Item
         /\ [x EXCEPT !.flag = b].ev = x.ev /\ [x EXCEPT !.flag = b].time = x.time
         /\ [x EXCEPT !.flag = b].flag = b
BY DEF Item

LEMMA FlaggedIs ==
  ASSUME NEW s \in Seq(Item), NEW t \in Int
  PROVE  /\ SameEvents(s, Flagged(s, t))
         /\ \A i \in 1 .. Len(s) : Flagged(s, t)[i].time = s[i].time
         /\ \A i \in 1 .. Len(s) : Flagged(s, t)[i].flag <=> s[i].time = t
<1> DEFINE z == Flagged(s, t)
           y(i) == [s[i] EXCEPT !.flag = (s[i].time = t)]
<1>1. Len(s) \in Nat /\ DOMAIN s = 1 .. Len(s)
  OBVIOUS
<1>2. \A i \in 1 .. Len(s) : z[i] = y(i)
  BY <1>1 DEF Flagged
<1>3. ASSUME NEW i \in 1 .. Len(s)
      PROVE  /\ y(i) \in Item /\ y(i).ev = s[i].ev /\ y(i).time = s[i].time
             /\ y(i).flag <=> s[i].time = t
  <2>1. s[i] \in Item /\ (s[i].time = t) \in BOOLEAN
    BY ItemFields
  <2> QED
    BY <2>1, FlagSet
<1>4. z = [i \in 1 .. Len(s) |-> y(i)]
  BY <1>1 DEF Flagged
<1> HIDE DEF z, y
<1>5. z \in [1 .. Len(s) -> Item]
  BY <1>3, <1>4
<1>6. z \in Seq(Item) /\ Len(z) = Len(s)
  <2>1. z \in Seq(Item)
    BY <1>1, <1>5
  <2>2. DOMAIN z = 1 .. Len(s) /\ Len(z) \in Nat /\ DOMAIN z = 1 .. Len(z)
    BY <1>5, <2>1
  <2> QED
    BY <1>1, <2>1, <2>2
<1>7. \A i \in 1 .. Len(s) : z[i].ev = s[i].ev /\ z[i].time = s[i].time
  BY <1>2, <1>3
<1>8. \A i \in 1 .. Len(s) : z[i].flag <=> s[i].time = t
  BY <1>2, <1>3
<1> QED
  BY <1>6, <1>7, <1>8 DEF SameEvents, z

LEMMA FirstFlaggedIs ==
  ASSUME NEW s \in Seq(Item), NEW t \in Int
  PROVE  /\ SameEvents(s, FirstFlagged(s, t))
         /\ \A i \in 1 .. Len(s) : FirstFlagged(s, t)[i].time = s[i].time
         /\ \A i \in 1 .. Len(s) :
              FirstFlagged(s, t)[i].flag <=> s[i].flag \/ \A j \in 1 .. i : s[j].time = t
<1> DEFINE z == FirstFlagged(s, t)
           y(i) == IF \A j \in 1 .. i : s[j].time = t THEN [s[i] EXCEPT !.flag = TRUE] ELSE s[i]
<1>1. Len(s) \in Nat /\ DOMAIN s = 1 .. Len(s)
  OBVIOUS
<1>2. \A i \in 1 .. Len(s) : z[i] = y(i)
  BY <1>1 DEF FirstFlagged
<1>3. ASSUME NEW i \in 1 .. Len(s)
      PROVE  /\ y(i) \in Item /\ y(i).ev = s[i].ev /\ y(i).time = s[i].time
             /\ y(i).flag <=> s[i].flag \/ \A j \in 1 .. i : s[j].time = t
  <2>1. s[i] \in Item
    BY ItemFields
  <2>2. CASE \A j \in 1 .. i : s[j].time = t
    <3>1. y(i) = [s[i] EXCEPT !.flag = TRUE]
      BY <2>2
    <3> HIDE DEF y
    <3> QED
      BY <2>1, <2>2, <3>1, FlagSet
  <2>3. CASE ~\A j \in 1 .. i : s[j].time = t
    <3>1. y(i) = s[i]
      BY <2>3
    <3> HIDE DEF y
    <3> QED
      BY <2>1, <2>3, <3>1
  <2> QED
    BY <2>2, <2>3
<1>4. z = [i \in 1 .. Len(s) |-> y(i)]
  BY <1>1 DEF FirstFlagged
<1> HIDE DEF z, y
<1>5. z \in [1 .. Len(s) -> Item]
  BY <1>3, <1>4
<1>6. z \in Seq(Item) /\ Len(z) = Len(s)
  <2>1. z \in Seq(Item)
    BY <1>1, <1>5
  <2>2. DOMAIN z = 1 .. Len(s) /\ Len(z) \in Nat /\ DOMAIN z = 1 .. Len(z)
    BY <1>5, <2>1
  <2> QED
    BY <1>1, <2>1, <2>2
<1>7. \A i \in 1 .. Len(s) : z[i].ev = s[i].ev /\ z[i].time = s[i].time
  BY <1>2, <1>3
<1>8. \A i \in 1 .. Len(s) : z[i].flag <=> s[i].flag \/ \A j \in 1 .. i : s[j].time = t
  BY <1>2, <1>3
<1> QED
  BY <1>6, <1>7, <1>8 DEF SameEvents, z

LEMMA SameEventsKeeps ==
  ASSUME NEW s \in Seq(Item), NEW z, SameEvents(s, z)
  PROVE  Events(z) = Events(s) /\ (DistinctIn(s) => DistinctIn(z)) /\ (z = <<>> <=> s = <<>>)
<1>1. Len(s) \in Nat /\ DOMAIN s = 1 .. Len(s) /\ DOMAIN z = 1 .. Len(s) /\ Len(z) = Len(s)
  BY DEF SameEvents
<1>2. Events(z) = Events(s)
  BY <1>1 DEF SameEvents, Events
<1>3. DistinctIn(s) => DistinctIn(z)
  BY DEF SameEvents, DistinctIn
<1>4. z = <<>> <=> s = <<>>
  BY <1>1, EmptySeq DEF SameEvents
<1> QED
  BY <1>2, <1>3, <1>4

\* The width is hidden behind what is used of the remainder.
LEMMA Remainder ==
  ASSUME NEW t \in Int
  PROVE  t % Width \in 0 .. Width - 1 /\ (t \in 0 .. Width - 1 => t % Width = t)
BY MuxAssumption

LEMMA FirstTimeIs ==
  ASSUME NEW s \in Seq(Item), s # <<>>
  PROVE  /\ FirstTime(s) \in Int /\ FirstTime(s) <= s[1].time /\ FirstTime(s) <= Width - 1
         /\ s[1].time <= Width - 1 => FirstTime(s) = s[1].time
         /\ s[1].time >= 0 => FirstTime(s) >= 0 /\ FirstTime(s) % Width = FirstTime(s)
<1>1. 1 \in 1 .. Len(s) /\ Width - 1 \in Nat
  BY EmptySeq, MuxAssumption
<1>2. s[1].time \in Int
  BY <1>1, ItemFields
<1>3. FirstTime(s) = IF s[1].time > Width - 1 THEN Width - 1 ELSE s[1].time
  BY DEF FirstTime
<1>4. s[1].time >= 0 => FirstTime(s) \in 0 .. Width - 1
  BY <1>1, <1>2, <1>3
<1> QED
  BY <1>1, <1>2, <1>3, <1>4, Remainder
-------------------------------------------------------------------------------
(* What stays of the array, and the timer set for it.                      *)

GoneAt(s, I, t) == {i \in 1 .. Len(s) : Goes(s, I, t, i)}

\* Each item of r is one of s that stays, t less in its time.
StaysFrom(s, I, t, r) ==
  /\ r \in Seq(Item)
  /\ \A k \in 1 .. Len(r) : \E i \in 1 .. Len(s) :
       /\ i \notin GoneAt(s, I, t)
       /\ r[k].ev = s[i].ev /\ r[k].time = s[i].time - t /\ r[k].flag = s[i].flag

LEMMA RestStays ==
  ASSUME NEW s \in Seq(Item), NEW I, NEW t \in Int
  PROVE  StaysFrom(s, I, t, Rest(s, I, t))
<1> DEFINE r == Rest(s, I, t)
<1>1. PICK h : LeftOf(Len(s), s, I, t, r, h)
  BY RestIs
<1>2. /\ r \in Seq(Item) /\ h \in [1 .. Len(r) -> 1 .. Len(s)]
      /\ \A k \in 1 .. Len(r) : r[k] = Moved(s[h[k]], t) /\ ~Goes(s, I, t, h[k])
  BY <1>1 DEF LeftOf
<1> HIDE DEF r
<1>3. ASSUME NEW k \in 1 .. Len(r)
      PROVE  \E i \in 1 .. Len(s) :
               /\ i \notin GoneAt(s, I, t)
               /\ r[k].ev = s[i].ev /\ r[k].time = s[i].time - t /\ r[k].flag = s[i].flag
  <2>1. h[k] \in 1 .. Len(s) /\ h[k] \notin GoneAt(s, I, t)
    BY <1>2 DEF GoneAt
  <2>2. s[h[k]] \in Item
    BY <2>1, ItemFields
  <2>3. /\ Moved(s[h[k]], t).ev = s[h[k]].ev /\ Moved(s[h[k]], t).time = s[h[k]].time - t
        /\ Moved(s[h[k]], t).flag = s[h[k]].flag
    BY <2>2, MovedIs
  <2>4. r[k] = Moved(s[h[k]], t)
    BY <1>2
  <2> QED
    BY <2>1, <2>3, <2>4, Zenon
<1> QED
  BY <1>2, <1>3 DEF StaysFrom, r

LEMMA RestKeepsOrder ==
  ASSUME NEW s \in Seq(Item), NEW I, NEW t \in Int
  PROVE  /\ Ordered(s) => Ordered(Rest(s, I, t))
         /\ DistinctIn(s) => DistinctIn(Rest(s, I, t))
<1> DEFINE r == Rest(s, I, t)
<1>1. PICK h : LeftOf(Len(s), s, I, t, r, h)
  BY RestIs
<1>2. /\ r \in Seq(Item) /\ h \in [1 .. Len(r) -> 1 .. Len(s)]
      /\ \A k \in 1 .. Len(r) : r[k] = Moved(s[h[k]], t)
      /\ \A k, l \in 1 .. Len(r) : k < l => h[k] < h[l]
  BY <1>1 DEF LeftOf
<1> HIDE DEF r
<1>3. ASSUME NEW k \in 1 .. Len(r)
      PROVE  /\ h[k] \in 1 .. Len(s) /\ s[h[k]].time \in Int
             /\ r[k].ev = s[h[k]].ev /\ r[k].time = s[h[k]].time - t
  <2>1. h[k] \in 1 .. Len(s)
    BY <1>2
  <2>2. s[h[k]] \in Item /\ s[h[k]].time \in Int
    BY <2>1, ItemFields
  <2>3. r[k] = Moved(s[h[k]], t)
    BY <1>2
  <2>4. Moved(s[h[k]], t).ev = s[h[k]].ev /\ Moved(s[h[k]], t).time = s[h[k]].time - t
    BY <2>2, MovedIs
  <2> QED
    BY <2>1, <2>2, <2>3, <2>4
<1>4. ASSUME NEW k \in 1 .. Len(r), NEW l \in 1 .. Len(r)
      PROVE  /\ k <= l => h[k] <= h[l]
             /\ h[k] = h[l] => k = l
  <2>1. h[k] \in 1 .. Len(s) /\ h[l] \in 1 .. Len(s)
    BY <1>2
  <2>2. (k < l => h[k] < h[l]) /\ (l < k => h[l] < h[k])
    BY <1>2
  <2> QED
    BY <2>1, <2>2
<1>5. ASSUME Ordered(s), NEW k \in 1 .. Len(r), NEW l \in 1 .. Len(r), k <= l
      PROVE  r[k].time <= r[l].time
  <2>1. h[k] <= h[l] /\ h[k] \in 1 .. Len(s) /\ h[l] \in 1 .. Len(s)
    BY <1>3, <1>4, <1>5
  <2>2. s[h[k]].time <= s[h[l]].time
    BY <1>5, <2>1 DEF Ordered
  <2>3. /\ r[k].time = s[h[k]].time - t /\ s[h[k]].time \in Int
        /\ r[l].time = s[h[l]].time - t /\ s[h[l]].time \in Int
    BY <1>3
  <2>4. \A a, b \in Int : a <= b => a - t <= b - t
    OBVIOUS
  <2> QED
    BY <2>2, <2>3, <2>4
<1>6. ASSUME DistinctIn(s), NEW k \in 1 .. Len(r), NEW l \in 1 .. Len(r), r[k].ev = r[l].ev
      PROVE  k = l
  <2>1. h[k] \in 1 .. Len(s) /\ h[l] \in 1 .. Len(s) /\ s[h[k]].ev = s[h[l]].ev
    BY <1>3, <1>6
  <2>2. h[k] = h[l]
    BY <1>6, <2>1 DEF DistinctIn
  <2> QED
    BY <1>4, <2>2
<1> QED
  BY <1>5, <1>6 DEF Ordered, DistinctIn, r

GoneEvents(s, I, t) == {s[i].ev : i \in GoneAt(s, I, t)}

LEMMA RestEvents ==
  ASSUME NEW s \in Seq(Item), NEW I, NEW t \in Int, DistinctIn(s)
  PROVE  Events(Rest(s, I, t)) = Events(s) \ GoneEvents(s, I, t)
<1> DEFINE r == Rest(s, I, t)
           G == GoneAt(s, I, t)
<1>1. PICK h : LeftOf(Len(s), s, I, t, r, h)
  BY RestIs
<1>2. /\ r \in Seq(Item) /\ h \in [1 .. Len(r) -> 1 .. Len(s)]
      /\ \A i \in 1 .. Len(s) : Goes(s, I, t, i) \/ \E k \in 1 .. Len(r) : h[k] = i
      /\ \A k \in 1 .. Len(r) : r[k] = Moved(s[h[k]], t)
  BY <1>1 DEF LeftOf
<1>3. StaysFrom(s, I, t, r)
  BY RestStays
<1> HIDE DEF r, G
<1>4. DOMAIN s = 1 .. Len(s) /\ DOMAIN r = 1 .. Len(r)
  BY <1>2
<1>5. ASSUME NEW e \in Events(r) PROVE e \in Events(s) /\ e \notin {s[i].ev : i \in G}
  <2>1. PICK k \in 1 .. Len(r) : r[k].ev = e
    BY <1>4 DEF Events
  <2>2. PICK i \in 1 .. Len(s) : i \notin G /\ s[i].ev = e
    BY <1>3, <2>1 DEF StaysFrom, G
  <2>3. ASSUME NEW j \in G PROVE s[j].ev # e
    <3>1. j \in 1 .. Len(s) /\ j # i
      BY <2>2, <2>3 DEF G, GoneAt
    <3> QED
      BY <2>2, <3>1 DEF DistinctIn
  <2> QED
    BY <1>4, <2>2, <2>3 DEF Events
<1>6. ASSUME NEW e \in Events(s), e \notin {s[i].ev : i \in G} PROVE e \in Events(r)
  <2>1. PICK i \in 1 .. Len(s) : s[i].ev = e
    BY <1>4 DEF Events
  <2>2. ~Goes(s, I, t, i)
    BY <1>6, <2>1 DEF G, GoneAt
  <2>3. PICK k \in 1 .. Len(r) : h[k] = i
    BY <1>2, <2>2
  <2>4. r[k] = Moved(s[i], t) /\ s[i] \in Item
    BY <1>2, <2>3, ItemFields
  <2>5. r[k].ev = e
    BY <2>1, <2>4, MovedIs
  <2> QED
    BY <1>4, <2>5 DEF Events
<1>7. Events(r) = Events(s) \ {s[i].ev : i \in G}
  BY <1>5, <1>6
<1> QED
  BY <1>7 DEF r, G, GoneEvents

\* Items that are to be removed, and those that are past.
LEMMA GoneAre ==
  ASSUME NEW s \in Seq(Item), NEW I \in SUBSET (1 .. Len(s)), NEW t
  PROVE  GoneAt(s, I, t) = I \cup Past(s, I, t)
BY DEF GoneAt, Goes, Past

\* The timer is set for what stays: the flags are those of the first time, when no
\* other item was flagged.
SetFor(r, z) ==
  /\ SameEvents(r, z)
  /\ \A i \in 1 .. Len(r) : z[i].time = r[i].time
  /\ \A i \in 1 .. Len(r) : z[i].flag <=> z[i].time = FirstTime(z)
  /\ FirstTime(z) = FirstTime(r)

LEMMA SetForIs ==
  ASSUME NEW r \in Seq(Item), r # <<>>, Ordered(r),
         \A i \in 1 .. Len(r) : r[i].flag => r[i].time = FirstTime(r)
  PROVE  SetFor(r, FirstFlagged(r, FirstTime(r)))
<1> DEFINE t == FirstTime(r)
           z == FirstFlagged(r, t)
<1>1. t \in Int /\ t <= r[1].time
  BY FirstTimeIs
<1> HIDE DEF t
<1>2. /\ SameEvents(r, z)
      /\ \A i \in 1 .. Len(r) : z[i].time = r[i].time
      /\ \A i \in 1 .. Len(r) : z[i].flag <=> r[i].flag \/ \A j \in 1 .. i : r[j].time = t
  BY <1>1, FirstFlaggedIs
<1> HIDE DEF z
<1>3. 1 \in 1 .. Len(r) /\ Len(r) \in Nat
  BY EmptySeq
<1>4. FirstTime(z) = t
  <2>1. z # <<>>
    BY <1>2, SameEventsKeeps
  <2>2. z[1].time = r[1].time
    BY <1>2, <1>3
  <2> QED
    BY <2>1, <2>2 DEF FirstTime, t
<1>5. ASSUME NEW i \in 1 .. Len(r), r[i].time = t PROVE \A j \in 1 .. i : r[j].time = t
  <2>1. SUFFICES ASSUME NEW j \in 1 .. i PROVE r[j].time = t
    OBVIOUS
  <2>2. j \in 1 .. Len(r) /\ 1 <= j /\ j <= i
    BY <1>3
  <2>3. r[1].time <= r[j].time /\ r[j].time <= r[i].time
    BY <1>3, <2>2 DEF Ordered
  <2>4. r[1].time \in Int /\ r[j].time \in Int
    BY <1>3, <2>2, ItemFields
  <2> QED
    BY <1>1, <1>5, <2>3, <2>4
<1>6. ASSUME NEW i \in 1 .. Len(r), \A j \in 1 .. i : r[j].time = t PROVE r[i].time = t
  BY <1>3, <1>6
<1>7. ASSUME NEW i \in 1 .. Len(r), r[i].flag PROVE r[i].time = t
  BY <1>7 DEF t
<1>8. ASSUME NEW i \in 1 .. Len(r) PROVE z[i].flag <=> r[i].time = t
  BY <1>2, <1>5, <1>6, <1>7
<1>9. ASSUME NEW i \in 1 .. Len(r) PROVE z[i].flag <=> z[i].time = FirstTime(z)
  BY <1>2, <1>4, <1>8
<1> QED
  BY <1>2, <1>4, <1>9 DEF SetFor, t, z
-------------------------------------------------------------------------------
(* The values of the variables, and the timer that runs.                   *)

LEMMA ReadingIs ==
  ASSUME Values
  PROVE  /\ get_timeout_time \in 0 .. Width - 1
         /\ SetAt <= count /\ get_timeout_time = 0 => count = SetAt
<1> DEFINE x == (Width - 1 - count) - timeout_current_time
<1>1. /\ Width \in Nat \ {0} /\ count \in 0 .. Width - 1
      /\ timeout_current_time \in 0 .. Width - 1
  BY MuxAssumption DEF Values
<1>2. x \in Int /\ x = SetAt - count /\ SetAt \in Int /\ x > -Width
  BY <1>1 DEF SetAt
<1>3. get_timeout_time = IF timeout_current_time = 0 THEN 0 ELSE x % Width
  BY DEF get_timeout_time
<1> HIDE DEF x
<1>4. x % Width \in 0 .. Width - 1
  BY <1>2, Remainder
<1>5. get_timeout_time \in 0 .. Width - 1
  BY <1>1, <1>3, <1>4
<1>6. ASSUME SetAt <= count, get_timeout_time = 0 PROVE count = SetAt
  <2>1. CASE timeout_current_time = 0
    BY <1>1, <1>6, <2>1 DEF SetAt
  <2>2. CASE timeout_current_time # 0
    <3>1. x % Width = 0 /\ x <= 0
      BY <1>1, <1>2, <1>3, <1>6, <2>2
    <3>2. x < 0 => x % Width = x + Width
      BY <1>1, <1>2
    <3>3. x = 0
      BY <1>1, <1>2, <3>1, <3>2
    <3> QED
      BY <1>1, <1>2, <3>3
  <2> QED
    BY <2>1, <2>2
<1> QED
  BY <1>5, <1>6

LEMMA FirstTimeInt ==
  ASSUME NEW s \in Seq(Item)
  PROVE  FirstTime(s) \in Int /\ FirstTime(s) % Width \in 0 .. Width - 1
<1>1. FirstTime(s) \in Int
  <2>1. CASE s = <<>>
    BY <2>1 DEF FirstTime
  <2>2. CASE s # <<>>
    BY <2>2, FirstTimeIs
  <2> QED
    BY <2>1, <2>2
<1> QED
  BY <1>1, Remainder

\* What setting the timer for what stays does to the array and the timer.
LEMMA SetForRestTypes ==
  ASSUME NEW r \in Seq(Item), Values, SetForRest(r)
  PROVE  /\ items' \in Seq(Item)
         /\ timeout_current_time' \in 0 .. Width - 1 /\ count' \in 0 .. Width - 1
<1>1. /\ timeout_current_time \in 0 .. Width - 1 /\ count \in 0 .. Width - 1
      /\ Width \in Nat \ {0}
  BY MuxAssumption DEF Values
<1>2. CASE r = <<>>
  BY <1>1, <1>2 DEF SetForRest, timer
<1>3. CASE r # <<>>
  <2> DEFINE t == FirstTime(r)
             q == t % Width
  <2>1. t \in Int /\ q \in 0 .. Width - 1
    BY FirstTimeInt
  <2>2. timeout_current_time' = q /\ items' = FirstFlagged(r, t) /\ count' = Width - 1 - q
    BY <1>3 DEF SetForRest, set_timeout_time
  <2> HIDE DEF t, q
  <2>3. items' \in Seq(Item)
    BY <2>1, <2>2, FirstFlaggedIs DEF SameEvents
  <2> QED
    BY <1>1, <2>1, <2>2, <2>3
<1> QED
  BY <1>2, <1>3

LEMMA ValuesStep ==
  ASSUME Values, [Next]_vars
  PROVE  Values'
<1>0. /\ Width \in Nat \ {0} /\ Reload \in 0 .. Width - 1 /\ Times \subseteq Nat
      /\ items \in Seq(Item)
      /\ timeout_current_time \in 0 .. Width - 1 /\ count \in 0 .. Width - 1
      /\ current_time \in Nat
      /\ pc \in {"shift", "append"} => arg.ev \in Event /\ arg.time \in Nat
      /\ waiting \subseteq Event /\ remains \in [Event -> Nat]
  BY MuxAssumption DEF Values
<1>1. CASE Tick
  <2>1. count' \in 0 .. Width - 1
    BY <1>0, <1>1 DEF Tick
  <2>2. remains' \in [Event -> Nat]
    <3>1. \A e \in Event : remains[e] \in Nat
      BY <1>0
    <3>2. \A e \in Event : (IF remains[e] > 0 THEN remains[e] - 1 ELSE 0) \in Nat
      BY <3>1
    <3> QED
      BY <1>1, <3>2 DEF Tick
  <2> QED
    BY <1>0, <1>1, <2>1, <2>2 DEF Tick, Values
<1>2. ASSUME NEW n \in {"shift", "missing", "remove"}, NEW a, Call(n, a),
             n = "shift" => a.ev \in Event /\ a.time \in Nat
      PROVE  Values'
  <2>1. /\ UNCHANGED <<items, timeout_current_time, count, waiting, remains>>
        /\ current_time' = get_timeout_time /\ arg' = a /\ pc' = n
    BY <1>2 DEF Call, Step
  <2>2. current_time' \in Nat
    <3>1. get_timeout_time \in 0 .. Width - 1
      BY ReadingIs
    <3> QED
      BY <1>0, <2>1, <3>1
  <2>3. n # "append"
    OBVIOUS
  <2> QED
    BY <1>0, <1>2, <2>1, <2>2, <2>3 DEF Values
<1>3. ASSUME NEW e \in Event, NEW t \in Times, timeout_add_item(e, t) PROVE Values'
  BY <1>0, <1>2, <1>3 DEF timeout_add_item
<1>4. CASE Shift
  <2>1. items' \in Seq(Item)
    BY <1>0, <1>4, LaterIs DEF Shift, SameEvents
  <2> QED
    BY <1>0, <1>4, <2>1 DEF Shift, Step, timer, observers, Values
<1>5. CASE Enter
  <2>1. arg.ev \in Event /\ arg.time \in Nat
    BY <1>0, <1>5 DEF Enter, Step
  <2>2. [ev |-> arg.ev, time |-> arg.time, flag |-> FALSE] \in Item
    BY <2>1 DEF Item
  <2>3. items' \in Seq(Item)
    BY <1>0, <1>5, <2>2, AppendProperties DEF Enter
  <2>4. remains' \in [Event -> Nat] /\ waiting' \subseteq Event
    BY <1>0, <1>5, <2>1 DEF Enter
  <2> QED
    BY <1>0, <1>5, <2>3, <2>4 DEF Enter, Step, timer, Values
<1>6. CASE Sort
  <2> DEFINE s == Sorted(items)
             t == FirstTime(s)
             q == t % Width
  <2>1. s \in Seq(Item)
    BY <1>0, SortedIs DEF SortedFrom
  <2>2. t \in Int /\ q \in 0 .. Width - 1
    BY <2>1, FirstTimeInt
  <2>3. /\ timeout_current_time' = q /\ items' = Flagged(s, t) /\ count' = Width - 1 - q
        /\ current_time' = 0 /\ pc' = "idle" /\ UNCHANGED <<waiting, remains>>
    BY <1>6 DEF Sort, Step, set_timeout_time, observers
  <2> HIDE DEF s, t, q
  <2>4. items' \in Seq(Item)
    BY <2>1, <2>2, <2>3, FlaggedIs DEF SameEvents
  <2> QED
    BY <1>0, <2>2, <2>3, <2>4 DEF Values
<1>7. ASSUME NEW e \in Event, timeout_remove_item(e) PROVE Values'
  BY <1>2, <1>7 DEF timeout_remove_item
<1>8. CASE RemoveItem
  <2>1. Rest(items, {arg.time}, current_time) \in Seq(Item)
    BY <1>0, RestStays DEF StaysFrom
  <2>2. SetForRest(Rest(items, {arg.time}, current_time))
    BY <1>8 DEF RemoveItem
  <2>3. /\ items' \in Seq(Item)
        /\ timeout_current_time' \in 0 .. Width - 1 /\ count' \in 0 .. Width - 1
    BY <2>1, <2>2, SetForRestTypes
  <2>4. current_time' = 0 /\ pc' = "idle" /\ remains' = remains /\ waiting' \subseteq waiting
    BY <1>8 DEF RemoveItem, Step
  <2> QED
    BY <1>0, <2>3, <2>4 DEF Values
<1>9. CASE NothingToRemove
  BY <1>0, <1>9 DEF NothingToRemove, Step, observers, Values
<1>10. CASE TIMER0_IRQHandler
  <2> DEFINE due == {i \in DOMAIN items : \A j \in 1 .. i : items[j].flag}
             r == Rest(items, due, timeout_current_time)
  <2>1. r \in Seq(Item)
    BY <1>0, RestStays DEF StaysFrom
  <2>2. /\ IF r = <<>>
           THEN items' = r /\ UNCHANGED <<timeout_current_time, count>>
           ELSE SetForRest(r)
        /\ UNCHANGED <<pc, arg, current_time, remains>> /\ waiting' \subseteq waiting
    BY <1>10 DEF TIMER0_IRQHandler, Signal
  <2> HIDE DEF r
  <2>3. /\ items' \in Seq(Item)
        /\ timeout_current_time' \in 0 .. Width - 1 /\ count' \in 0 .. Width - 1
    <3>1. CASE r = <<>>
      BY <1>0, <2>1, <2>2, <3>1
    <3>2. CASE r # <<>>
      BY <2>1, <2>2, <3>2, SetForRestTypes
    <3> QED
      BY <3>1, <3>2
  <2> QED
    BY <1>0, <2>2, <2>3 DEF Values
<1>11. CASE UNCHANGED vars
  BY <1>0, <1>11 DEF vars, timer, observers, Values
<1> QED
  BY <1>1, <1>3, <1>4, <1>5, <1>6, <1>7, <1>8, <1>9, <1>10, <1>11 DEF Next

LEMMA FlagsStep ==
  ASSUME Flags, [Next]_vars
  PROVE  Flags'
<1>1. pc' = pc \/ pc' \in {"idle", "shift", "append", "sort", "remove", "missing"}
  BY DEF Next, vars, Tick, timeout_add_item, Call, Step, Shift, Enter, Sort,
         timeout_remove_item, RemoveItem, NothingToRemove, TIMER0_IRQHandler
<1>2. unit' = unit
  BY DEF Next, vars, Tick, timeout_add_item, Call, Step, Shift, Enter, Sort,
         timeout_remove_item, RemoveItem, NothingToRemove, TIMER0_IRQHandler
<1> QED
  BY <1>1, <1>2 DEF Flags

LEMMA RunsStep ==
  ASSUME Flags, Values, Runs, [Next]_vars
  PROVE  Runs'
<1>0. items \in Seq(Item) /\ current_time \in Int
  BY DEF Values
<1>1. CASE Tick
  BY <1>1 DEF Tick, Runs
<1>2. ASSUME NEW n \in {"shift", "missing", "remove"}, NEW a, Call(n, a) PROVE Runs'
  <2>1. pc = "idle" /\ pc' = n /\ unit' = unit /\ items' = items
    BY <1>2 DEF Call, Step
  <2>2. running' = (running /\ unit # "US")
    BY <1>2 DEF Call, stop_timeout_timer
  <2>3. ASSUME items # <<>>, unit = "MS" PROVE running'
    <3>1. running
      BY <2>1, <2>3 DEF Runs
    <3>2. unit # "US"
      BY <2>3
    <3> QED
      BY <2>2, <3>1, <3>2, Zenon
  <2> QED
    BY <2>1, <2>3 DEF Runs
<1>3. ASSUME NEW e, NEW t, timeout_add_item(e, t) PROVE Runs'
  BY <1>2, <1>3 DEF timeout_add_item
<1>4. CASE Shift
  <2>1. pc = "shift" /\ pc' = "append" /\ unit' = unit /\ running' = running
        /\ items' = Later(items, current_time)
    BY <1>4 DEF Shift, Step, timer
  <2>2. items' = <<>> <=> items = <<>>
    BY <1>0, <2>1, LaterIs, SameEventsKeeps
  <2> QED
    BY <2>1, <2>2 DEF Runs
<1>5. CASE Enter
  BY <1>5 DEF Enter, Step, Runs
<1>6. CASE Sort
  BY <1>6 DEF Sort, set_timeout_time, Runs
<1>7. ASSUME NEW e, timeout_remove_item(e) PROVE Runs'
  BY <1>2, <1>7 DEF timeout_remove_item
<1>8. CASE RemoveItem
  <2> DEFINE r == Rest(items, {arg.time}, current_time)
  <2>1. SetForRest(r)
    BY <1>8 DEF RemoveItem
  <2> HIDE DEF r
  <2>2. CASE r = <<>>
    BY <2>1, <2>2 DEF SetForRest, Runs
  <2>3. CASE r # <<>>
    BY <2>1, <2>3 DEF SetForRest, set_timeout_time, Runs
  <2> QED
    BY <2>2, <2>3
<1>9. CASE NothingToRemove
  <2>1. pc = "missing" /\ pc' = "idle" /\ items' = items
    BY <1>9 DEF NothingToRemove, Step
  <2>2. ASSUME items # <<>> PROVE running'
    <3>1. running' = (running \/ unit = "US")
      BY <1>9, <2>2 DEF NothingToRemove, start_timeout_timer
    <3>2. running \/ unit = "US"
      BY <2>1, <2>2 DEF Runs, Flags
    <3> QED
      BY <3>1, <3>2, Zenon
  <2> QED
    BY <2>1, <2>2 DEF Runs
<1>10. CASE TIMER0_IRQHandler
  <2> DEFINE due == {i \in DOMAIN items : \A j \in 1 .. i : items[j].flag}
             r == Rest(items, due, timeout_current_time)
  <2>1. IF r = <<>> THEN items' = r ELSE SetForRest(r)
    BY <1>10 DEF TIMER0_IRQHandler
  <2> HIDE DEF r
  <2>2. CASE r = <<>>
    BY <2>1, <2>2 DEF Runs
  <2>3. CASE r # <<>>
    BY <2>1, <2>3 DEF SetForRest, set_timeout_time, Runs
  <2> QED
    BY <2>2, <2>3
<1>11. CASE UNCHANGED vars
  BY <1>11 DEF vars, timer, Runs
<1> QED
  BY <1>1, <1>3, <1>4, <1>5, <1>6, <1>7, <1>8, <1>9, <1>10, <1>11 DEF Next
-------------------------------------------------------------------------------
(* The list and the times.                                                 *)

Kept == (Listed /\ Timed)'

LEMMA TimeTypes ==
  ASSUME Values
  PROVE  /\ Width \in Nat \ {0} /\ count \in 0 .. Width - 1
         /\ timeout_current_time \in 0 .. Width - 1 /\ SetAt \in 0 .. Width - 1
         /\ Elapsed \in Int /\ Len(items) \in Nat /\ DOMAIN items = 1 .. Len(items)
         /\ \A i \in 1 .. Len(items) :
              /\ items[i].time \in Int /\ items[i].ev \in Event
              /\ remains[items[i].ev] \in Nat
<1>1. /\ Width \in Nat \ {0} /\ count \in 0 .. Width - 1
      /\ timeout_current_time \in 0 .. Width - 1
      /\ items \in Seq(Item) /\ remains \in [Event -> Nat]
  BY MuxAssumption DEF Values
<1>2. SetAt \in 0 .. Width - 1
  BY <1>1 DEF SetAt
<1>3. Elapsed \in Int
  BY <1>1, <1>2 DEF Elapsed
<1>4. \A i \in 1 .. Len(items) : items[i].time \in Int /\ items[i].ev \in Event
  BY <1>1, ItemFields
<1>5. \A i \in 1 .. Len(items) : remains[items[i].ev] \in Nat
  BY <1>1, <1>4
<1> QED
  BY <1>1, <1>2, <1>3, <1>4, <1>5

\* The events of the items are those that wait.
LEMMA ItemWaits ==
  ASSUME Values, Listed, NEW i \in 1 .. Len(items)
  PROVE  items[i].ev \in waiting
BY TimeTypes DEF Listed, Events

LEMMA TickKeeps ==
  ASSUME Values, Listed, Timed, Tick
  PROVE  Kept
<1>1. /\ ~overflow /\ items' = items /\ timeout_current_time' = timeout_current_time
      /\ pc' = pc /\ arg' = arg /\ current_time' = current_time
      /\ waiting' = waiting /\ disturbed' = disturbed /\ early' = early
      /\ remains' = [e \in Event |-> IF remains[e] > 0 THEN remains[e] - 1 ELSE 0]
  BY DEF Tick
<1>2. \/ count = Width - 1 /\ overflow'
      \/ count' = count + 1 /\ ~overflow'
  BY <1>1 DEF Tick
<1>3. Listed'
  BY <1>1 DEF Listed, Events
<1>4. SetToFirst' <=> SetToFirst
  BY <1>1 DEF SetToFirst
<1>5. items # <<>> /\ pc \in {"idle", "missing"} => SetAt <= count
  BY <1>1 DEF Timed
<1>6. items' # <<>> /\ pc' \in {"idle", "missing"} /\ ~overflow' => SetAt' <= count'
  BY <1>1, <1>2, <1>5, TimeTypes DEF SetAt
<1>7. Elapsed' <= Elapsed + 1
  <2>1. CASE pc \notin {"idle", "missing"}
    BY <1>1, <2>1 DEF Elapsed
  <2>2. CASE pc \in {"idle", "missing"}
    <3>1. Elapsed = count - SetAt
      BY <1>1, <2>2 DEF Elapsed
    <3>2. CASE count = Width - 1 /\ overflow'
      <4>1. Elapsed' = timeout_current_time
        BY <1>1, <2>2, <3>2 DEF Elapsed
      <4>2. Width \in Int /\ timeout_current_time \in Int
        BY TimeTypes
      <4>3. Elapsed = (Width - 1) - (Width - 1 - timeout_current_time)
        BY <3>1, <3>2 DEF SetAt
      <4> QED
        BY <4>1, <4>2, <4>3
    <3>3. CASE count' = count + 1 /\ ~overflow'
      <4>1. Elapsed' = count' - SetAt'
        BY <1>1, <2>2, <3>3 DEF Elapsed
      <4>2. SetAt' = SetAt
        BY <1>1 DEF SetAt
      <4>3. SetAt \in Int /\ count \in Int
        BY TimeTypes
      <4> QED
        BY <3>1, <3>3, <4>1, <4>2, <4>3
    <3> QED
      BY <1>2, <3>2, <3>3
  <2> QED
    BY <2>1, <2>2
<1>8. Elapsed' \in Int
  BY <1>1, <1>2, TimeTypes DEF Elapsed, SetAt
<1>9. DueWithin'
  <2>1. SUFFICES ASSUME NEW i \in 1 .. Len(items), items[i].ev \notin disturbed
                 PROVE  /\ items[i].time >= 0
                        /\ \/ remains'[items[i].ev] = 0
                           \/ remains'[items[i].ev] <= items[i].time - Elapsed'
    BY <1>1 DEF DueWithin
  <2>2. /\ items[i].time >= 0
        /\ remains[items[i].ev] = 0 \/ remains[items[i].ev] <= items[i].time - Elapsed
    BY <2>1 DEF Timed, DueWithin
  <2>3. remains[items[i].ev] \in Nat /\ items[i].time \in Int /\ items[i].ev \in Event
        /\ Elapsed \in Int
    BY TimeTypes
  <2>4. remains'[items[i].ev] = IF remains[items[i].ev] > 0 THEN remains[items[i].ev] - 1 ELSE 0
    BY <1>1, <2>3
  <2> QED
    BY <1>7, <1>8, <2>2, <2>3, <2>4, SMTT(30)
<1> QED
  BY <1>1, <1>3, <1>4, <1>6, <1>9 DEF Kept, Timed

LEMMA CallKeeps ==
  ASSUME Values, Listed, Timed, NEW n \in {"shift", "missing", "remove"}, NEW a, Call(n, a),
         n = "shift" => a.ev \notin waiting,
         n = "remove" => a.time \in 1 .. Len(items) /\ items[a.time].ev = a.ev
  PROVE  Kept
<1>1. /\ pc = "idle" /\ pc' = n /\ ~overflow /\ overflow' = overflow /\ items' = items
      /\ timeout_current_time' = timeout_current_time /\ count' = count
      /\ arg' = a /\ current_time' = get_timeout_time
      /\ waiting' = waiting /\ remains' = remains /\ early' = early
  BY DEF Call, Step
<1>2. disturbed' = IF get_timeout_time # 0 THEN disturbed \cup waiting ELSE disturbed
  BY DEF Call
<1>3. Listed'
  BY <1>1 DEF Listed, Events
<1>4. SetToFirst' /\ (items # <<>> => SetAt <= count)
  BY <1>1 DEF SetToFirst, Timed
<1>5. items' # <<>> /\ pc' \in {"idle", "missing"} /\ ~overflow' => SetAt' <= count'
  BY <1>1, <1>4 DEF SetAt
<1>6. pc' \in {"shift", "remove"} /\ current_time' # 0 => waiting' \subseteq disturbed'
  BY <1>1, <1>2
<1>7. DueWithin'
  <2>1. SUFFICES ASSUME NEW i \in 1 .. Len(items), items[i].ev \notin disturbed'
                 PROVE  /\ items[i].time >= 0
                        /\ \/ remains[items[i].ev] = 0
                           \/ remains[items[i].ev] <= items[i].time - Elapsed'
    BY <1>1 DEF DueWithin
  <2>2. get_timeout_time = 0 /\ items[i].ev \notin disturbed
    BY <1>2, <2>1, ItemWaits
  <2>3. /\ items[i].time >= 0
        /\ remains[items[i].ev] = 0 \/ remains[items[i].ev] <= items[i].time - Elapsed
    BY <2>2 DEF Timed, DueWithin
  <2>4. SetAt <= count
    BY <1>4, <2>1, EmptySeq
  <2>5. Elapsed = count - SetAt /\ count = SetAt
    BY <1>1, <2>2, <2>4, ReadingIs DEF Elapsed
  <2>6. Elapsed' = 0 \/ Elapsed' = count - SetAt
    BY <1>1 DEF Elapsed, SetAt
  <2>7. Elapsed' = Elapsed
    BY <2>5, <2>6, TimeTypes
  <2> QED
    BY <2>3, <2>7
<1> QED
  BY <1>1, <1>3, <1>4, <1>5, <1>6, <1>7 DEF Kept, Timed

LEMMA ShiftKeeps ==
  ASSUME Values, Listed, Timed, Shift
  PROVE  Kept
<1>1. /\ pc = "shift" /\ pc' = "append" /\ items' = Later(items, current_time)
      /\ arg' = arg /\ current_time' = current_time
      /\ waiting' = waiting /\ remains' = remains /\ disturbed' = disturbed /\ early' = early
  BY DEF Shift, Step, observers
<1>2. items \in Seq(Item) /\ current_time \in Int
  BY DEF Values
<1>3. /\ SameEvents(items, items')
      /\ \A i \in 1 .. Len(items) : items'[i].time = items[i].time - current_time
  BY <1>1, <1>2, LaterIs
<1>4. Events(items') = Events(items) /\ DistinctIn(items')
  BY <1>2, <1>3, SameEventsKeeps DEF Listed
<1>5. Len(items') = Len(items)
  BY <1>3 DEF SameEvents
<1>6. ASSUME NEW i \in 1 .. Len(items), NEW j \in 1 .. Len(items), i <= j
      PROVE  items'[i].time <= items'[j].time
  <2>1. items[i].time <= items[j].time
    BY <1>1, <1>6 DEF Listed, Ordered
  <2> QED
    BY <1>2, <1>3, <2>1, TimeTypes
<1>7. Ordered(items')
  BY <1>5, <1>6 DEF Ordered
<1>8. Listed'
  BY <1>1, <1>4, <1>7 DEF Listed
<1>9. Elapsed' = 0 /\ Elapsed = 0
  BY <1>1 DEF Elapsed
<1>10. DueWithin'
  <2>1. SUFFICES ASSUME NEW i \in 1 .. Len(items), items'[i].ev \notin disturbed
                 PROVE  /\ items'[i].time >= 0
                        /\ \/ remains[items'[i].ev] = 0
                           \/ remains[items'[i].ev] <= items'[i].time - Elapsed'
    BY <1>1, <1>5 DEF DueWithin
  <2>2. items'[i].ev = items[i].ev /\ items'[i].time = items[i].time - current_time
    BY <1>3 DEF SameEvents
  <2>3. current_time = 0
    BY <1>1, <2>1, <2>2, ItemWaits DEF Timed
  <2>4. items'[i].time = items[i].time
    BY <2>2, <2>3, TimeTypes
  <2>5. /\ items[i].time >= 0
        /\ remains[items[i].ev] = 0 \/ remains[items[i].ev] <= items[i].time - Elapsed
    BY <2>1, <2>2 DEF Timed, DueWithin
  <2> QED
    BY <1>9, <2>2, <2>4, <2>5
<1>11. ~early'
  BY <1>1 DEF Timed
<1> QED
  BY <1>1, <1>8, <1>10, <1>11 DEF Kept, Timed

LEMMA EnterKeeps ==
  ASSUME Values, Listed, Timed, Enter
  PROVE  Kept
<1> DEFINE n == Len(items)
           x == [ev |-> arg.ev, time |-> arg.time, flag |-> FALSE]
<1>1. /\ pc = "append" /\ pc' = "sort" /\ items' = Append(items, x)
      /\ waiting' = waiting \cup {arg.ev} /\ remains' = [remains EXCEPT ![arg.ev] = arg.time]
      /\ disturbed' = disturbed \ {arg.ev} /\ early' = early
  BY DEF Enter, Step
<1>2. items \in Seq(Item) /\ n \in Nat /\ arg.ev \in Event /\ arg.time \in Nat
      /\ remains \in [Event -> Nat]
  BY <1>1 DEF Values
<1>3. x.ev = arg.ev /\ x.time = arg.time /\ x \in Item
  BY <1>2 DEF Item
<1>4. arg.ev \notin waiting /\ Events(items) = waiting /\ DistinctIn(items)
  BY <1>1 DEF Listed
<1> HIDE DEF x, n
<1>5. /\ items' \in Seq(Item) /\ Len(items') = n + 1
      /\ \A i \in 1 .. n : items'[i] = items[i]
      /\ items'[n + 1] = x
  BY <1>1, <1>2, <1>3, AppendProperties DEF n
<1>6. DOMAIN items' = 1 .. n + 1 /\ DOMAIN items = 1 .. n
  BY <1>2, <1>5 DEF n
<1>7. \A i \in 1 .. n + 1 : i \in 1 .. n \/ i = n + 1
  BY <1>2
<1>8. Events(items') = waiting'
  <2>1. ASSUME NEW e \in Events(items') PROVE e \in waiting'
    <3>1. PICK i \in 1 .. n + 1 : e = items'[i].ev
      BY <1>6 DEF Events
    <3>2. CASE i \in 1 .. n
      <4>1. e \in Events(items)
        BY <1>5, <1>6, <3>1, <3>2 DEF Events
      <4> QED
        BY <1>1, <1>4, <4>1
    <3>3. CASE i = n + 1
      BY <1>1, <1>3, <1>5, <3>1, <3>3
    <3> QED
      BY <1>7, <3>2, <3>3
  <2>2. ASSUME NEW e \in waiting PROVE e \in Events(items')
    <3>1. PICK i \in 1 .. n : e = items[i].ev
      BY <1>4, <1>6 DEF Events
    <3>2. i \in 1 .. n + 1 /\ e = items'[i].ev
      BY <1>2, <1>5, <3>1
    <3> QED
      BY <1>6, <3>2 DEF Events
  <2>3. arg.ev \in Events(items')
    <3>1. n + 1 \in 1 .. n + 1 /\ items'[n + 1].ev = arg.ev
      BY <1>2, <1>3, <1>5
    <3> QED
      BY <1>6, <3>1 DEF Events
  <2> QED
    BY <1>1, <2>1, <2>2, <2>3
<1>9. \A i \in 1 .. n : items[i].ev # arg.ev
  BY <1>4, <1>6 DEF Events
<1>10. DistinctIn(items')
  <2>1. SUFFICES ASSUME NEW i \in 1 .. n + 1, NEW j \in 1 .. n + 1, items'[i].ev = items'[j].ev
                 PROVE  i = j
    BY <1>5 DEF DistinctIn
  <2>2. CASE i \in 1 .. n /\ j \in 1 .. n
    BY <1>4, <1>5, <2>1, <2>2 DEF DistinctIn, n
  <2>3. CASE i = n + 1 /\ j \in 1 .. n
    BY <1>3, <1>5, <1>9, <2>1, <2>3
  <2>4. CASE i \in 1 .. n /\ j = n + 1
    BY <1>3, <1>5, <1>9, <2>1, <2>4
  <2> QED
    BY <1>7, <2>2, <2>3, <2>4
<1>11. Listed'
  BY <1>1, <1>8, <1>10 DEF Listed
<1>12. Elapsed' = 0 /\ Elapsed = 0
  BY <1>1 DEF Elapsed
<1>13. DueWithin'
  <2>1. SUFFICES ASSUME NEW i \in 1 .. n + 1, items'[i].ev \notin disturbed'
                 PROVE  /\ items'[i].time >= 0
                        /\ \/ remains'[items'[i].ev] = 0
                           \/ remains'[items'[i].ev] <= items'[i].time - Elapsed'
    BY <1>5 DEF DueWithin
  <2>2. CASE i \in 1 .. n
    <3>1. items'[i] = items[i] /\ items[i].ev # arg.ev /\ items[i].ev \in Event
      BY <1>5, <1>9, <2>2, TimeTypes DEF n
    <3>2. remains'[items[i].ev] = remains[items[i].ev] /\ items[i].ev \notin disturbed
      BY <1>1, <1>2, <2>1, <3>1
    <3>3. /\ items[i].time >= 0
          /\ remains[items[i].ev] = 0 \/ remains[items[i].ev] <= items[i].time - Elapsed
      BY <2>2, <3>2 DEF Timed, DueWithin, n
    <3> QED
      BY <1>12, <3>1, <3>2, <3>3
  <2>3. CASE i = n + 1
    <3>1. items'[i].ev = arg.ev /\ items'[i].time = arg.time
      BY <1>3, <1>5, <2>3
    <3>2. remains'[arg.ev] = arg.time
      BY <1>1, <1>2
    <3> QED
      BY <1>2, <1>12, <3>1, <3>2
  <2> QED
    BY <1>7, <2>2, <2>3
<1>14. ~early'
  BY <1>1 DEF Timed
<1> QED
  BY <1>1, <1>11, <1>13, <1>14 DEF Kept, Timed

LEMMA SortKeeps ==
  ASSUME Values, Listed, Timed, Sort
  PROVE  Kept
<1> DEFINE n == Len(items)
           z == Sorted(items)
           t == FirstTime(z)
           q == t % Width
<1>1. /\ pc = "sort" /\ pc' = "idle" /\ items' = Flagged(z, t) /\ timeout_current_time' = q
      /\ count' = Width - 1 - q /\ overflow' = FALSE /\ current_time' = 0
      /\ waiting' = waiting /\ remains' = remains /\ disturbed' = disturbed /\ early' = early
  BY DEF Sort, Step, set_timeout_time, observers
<1>2. items \in Seq(Item) /\ n \in Nat
  BY DEF Values
<1>3. PICK p : SortedFrom(items, z, p)
  BY <1>2, SortedIs
<1>4. /\ z \in Seq(Item) /\ Len(z) = n /\ Ordered(z)
      /\ \A k \in 1 .. n : p[k] \in 1 .. n /\ z[k] = items[p[k]]
      /\ \A k, l \in 1 .. n : p[k] = p[l] => k = l
      /\ \A i \in 1 .. n : \E k \in 1 .. n : p[k] = i
  BY <1>3 DEF SortedFrom, DistinctPlaces
<1>5. t \in Int /\ q \in 0 .. Width - 1
  BY <1>4, FirstTimeInt
<1>6. q = FirstTime(z) % Width
  OBVIOUS
<1>7. t = FirstTime(z)
  OBVIOUS
<1> HIDE DEF z, t, q, n
<1>8. /\ SameEvents(z, items')
      /\ \A i \in 1 .. n : items'[i].time = z[i].time
      /\ \A i \in 1 .. n : items'[i].flag <=> z[i].time = t
  BY <1>1, <1>4, <1>5, FlaggedIs
<1>9. Events(items') = Events(z) /\ (DistinctIn(z) => DistinctIn(items'))
      /\ (items' = <<>> <=> z = <<>>)
  BY <1>4, <1>8, SameEventsKeeps
<1>10. Events(z) = Events(items)
  <2>1. DOMAIN z = 1 .. n /\ DOMAIN items = 1 .. n
    BY <1>2, <1>4 DEF n
  <2>2. ASSUME NEW e \in Events(z) PROVE e \in Events(items)
    <3>1. PICK k \in 1 .. n : e = z[k].ev
      BY <2>1, <2>2 DEF Events
    <3>2. p[k] \in 1 .. n /\ e = items[p[k]].ev
      BY <1>4, <3>1
    <3> QED
      BY <2>1, <3>2 DEF Events
  <2>3. ASSUME NEW e \in Events(items) PROVE e \in Events(z)
    <3>1. PICK i \in 1 .. n : e = items[i].ev
      BY <2>1, <2>3 DEF Events
    <3>2. PICK k \in 1 .. n : p[k] = i
      BY <1>4
    <3>3. z[k].ev = e
      BY <1>4, <3>1, <3>2
    <3> QED
      BY <2>1, <3>3 DEF Events
  <2> QED
    BY <2>2, <2>3
<1>11. DistinctIn(z)
  <2>1. ASSUME NEW k \in 1 .. n, NEW l \in 1 .. n, z[k].ev = z[l].ev PROVE k = l
    <3>1. p[k] \in 1 .. n /\ p[l] \in 1 .. n /\ items[p[k]].ev = items[p[l]].ev
      BY <1>4, <2>1
    <3>2. p[k] = p[l]
      BY <3>1 DEF Listed, DistinctIn, n
    <3> QED
      BY <1>4, <3>2
  <2> QED
    BY <1>4, <2>1 DEF DistinctIn
<1>12. Ordered(items') /\ Len(items') = n
  BY <1>4, <1>8 DEF Ordered, SameEvents
<1>13. Listed'
  BY <1>1, <1>9, <1>10, <1>11, <1>12 DEF Listed
<1>14. SetToFirst'
  <2>1. ASSUME items' # <<>> PROVE FirstTime(items') = t
    <3>1. z # <<>>
      BY <1>9, <2>1
    <3>2. 1 \in 1 .. n
      BY <1>4, <3>1, EmptySeq
    <3>3. items'[1].time = z[1].time
      BY <1>8, <3>2
    <3> QED
      BY <1>7, <2>1, <3>1, <3>3 DEF FirstTime
  <2>2. ASSUME items' # <<>>, NEW i \in 1 .. n
        PROVE  items'[i].flag <=> items'[i].time = FirstTime(items')
    BY <1>8, <2>1, <2>2
  <2>3. timeout_current_time' = t % Width
    BY <1>1, <1>6, <1>7
  <2> QED
    BY <1>12, <2>1, <2>2, <2>3 DEF SetToFirst
<1>15. SetAt' = count' /\ Elapsed' = 0 /\ Elapsed = 0 /\ count' \in Int
  <2>1. SetAt' = count' /\ count' \in Int
    BY <1>1, <1>5, TimeTypes DEF SetAt
  <2>2. Elapsed' = count' - SetAt'
    BY <1>1 DEF Elapsed
  <2> QED
    BY <1>1, <2>1, <2>2 DEF Elapsed
<1>16. DueWithin'
  <2>1. SUFFICES ASSUME NEW k \in 1 .. n, items'[k].ev \notin disturbed
                 PROVE  /\ items'[k].time >= 0
                        /\ \/ remains[items'[k].ev] = 0
                           \/ remains[items'[k].ev] <= items'[k].time - Elapsed'
    BY <1>1, <1>12 DEF DueWithin
  <2>2. items'[k].ev = z[k].ev /\ items'[k].time = z[k].time
    BY <1>4, <1>8 DEF SameEvents
  <2>3. p[k] \in 1 .. n /\ z[k] = items[p[k]]
    BY <1>4
  <2>4. items[p[k]].ev \notin disturbed
    BY <2>1, <2>2, <2>3
  <2>5. /\ items[p[k]].time >= 0
        /\ \/ remains[items[p[k]].ev] = 0
           \/ remains[items[p[k]].ev] <= items[p[k]].time - Elapsed
    BY <2>3, <2>4 DEF Timed, DueWithin, n
  <2> QED
    BY <1>15, <2>2, <2>3, <2>5
<1>17. SetAt' <= count'
  BY <1>15
<1>18. ~early'
  BY <1>1 DEF Timed
<1> QED
  BY <1>1, <1>13, <1>14, <1>16, <1>17, <1>18 DEF Kept, Timed

\* What stays is flagged only where the timer is set to it.
LEMMA RestFlags ==
  ASSUME NEW s \in Seq(Item), NEW I, NEW t \in Nat, Ordered(s),
         \A i \in 1 .. Len(s) : s[i].flag <=> s[i].time = FirstTime(s),
         Rest(s, I, t) # <<>>
  PROVE  \A k \in 1 .. Len(Rest(s, I, t)) :
           Rest(s, I, t)[k].flag => Rest(s, I, t)[k].time = FirstTime(Rest(s, I, t))
<1> DEFINE r == Rest(s, I, t)
<1>1. StaysFrom(s, I, t, r) /\ Ordered(r)
  BY RestStays, RestKeepsOrder
<1>2. r # <<>>
  OBVIOUS
<1> HIDE DEF r
<1>3. /\ r \in Seq(Item)
      /\ \A k \in 1 .. Len(r) : \E i \in 1 .. Len(s) :
           r[k].ev = s[i].ev /\ r[k].time = s[i].time - t /\ r[k].flag = s[i].flag
  BY <1>1, Zenon DEF StaysFrom
<1>4. 1 \in 1 .. Len(r)
  BY <1>2, <1>3, EmptySeq
<1>5. ASSUME NEW k \in 1 .. Len(r), r[k].flag PROVE r[k].time = FirstTime(r)
  <2>1. PICK i \in 1 .. Len(s) : r[k].time = s[i].time - t /\ r[k].flag = s[i].flag
    BY <1>3, Zenon
  <2>2. PICK j \in 1 .. Len(s) : r[1].time = s[j].time - t
    BY <1>3, <1>4, Zenon
  <2>3. s[i].time = FirstTime(s)
    <3>1. s[i].flag
      BY <1>5, <2>1, Zenon
    <3> QED
      BY <3>1
  <2>4. s # <<>> /\ 1 \in 1 .. Len(s) /\ 1 <= j
    BY <2>1, EmptySeq
  <2>5. FirstTime(s) <= s[1].time /\ FirstTime(s) <= Width - 1 /\ FirstTime(s) \in Int
    BY <2>4, FirstTimeIs
  <2>6. s[1].time <= s[j].time
    BY <2>4 DEF Ordered
  <2>7. r[1].time <= r[k].time
    BY <1>1, <1>4 DEF Ordered
  <2>8. s[1].time \in Int /\ s[j].time \in Int /\ s[i].time \in Int /\ Width \in Int
    BY <2>4, ItemFields, MuxAssumption
  <2>9. r[1].time = r[k].time /\ r[1].time <= Width - 1
    <3>1. s[j].time <= FirstTime(s)
      BY <2>1, <2>2, <2>3, <2>5, <2>7, <2>8
    <3>2. s[j].time = FirstTime(s)
      BY <2>5, <2>6, <2>8, <3>1
    <3> QED
      BY <2>1, <2>2, <2>3, <2>5, <2>8, <3>2
  <2> QED
    BY <1>2, <1>3, <2>9, FirstTimeIs
<1> QED
  BY <1>5 DEF r

\* The timer is set for what stays of the array, when t ticks are taken from the times.
LEMMA SetForRestKeeps ==
  ASSUME Values, Ordered(items), DistinctIn(items), SetToFirst,
         NEW I \in SUBSET (1 .. Len(items)), NEW t \in Nat,
         Rest(items, I, t) # <<>>, SetForRest(Rest(items, I, t))
  PROVE  /\ SetToFirst' /\ Ordered(items') /\ DistinctIn(items')
         /\ Events(items') = Events(Rest(items, I, t))
         /\ SetAt' = count' /\ count' \in Int /\ overflow' = FALSE
         /\ \A k \in 1 .. Len(items') : \E i \in 1 .. Len(items) :
              /\ items[i].time >= t
              /\ items'[k].ev = items[i].ev /\ items'[k].time = items[i].time - t
<1> DEFINE r == Rest(items, I, t)
           u == FirstTime(r)
           q == u % Width
<1>1. items \in Seq(Item)
  BY DEF Values
<1>2. StaysFrom(items, I, t, r) /\ Ordered(r) /\ DistinctIn(r)
  BY <1>1, RestStays, RestKeepsOrder
<1>3. r # <<>> /\ SetForRest(r) /\ r \in Seq(Item)
  BY <1>2 DEF StaysFrom
<1>4. items # <<>>
  <2>1. 1 \in 1 .. Len(r)
    BY <1>3, EmptySeq
  <2>2. \E i \in 1 .. Len(items) : TRUE
    BY <1>2, <2>1 DEF StaysFrom
  <2> QED
    BY <2>2, EmptySeq
<1>5. \A i \in 1 .. Len(items) : items[i].flag <=> items[i].time = FirstTime(items)
  BY <1>4 DEF SetToFirst
<1>6. \A k \in 1 .. Len(r) : r[k].flag => r[k].time = FirstTime(r)
  BY <1>1, <1>5, RestFlags
<1>7. /\ items' = FirstFlagged(r, u) /\ timeout_current_time' = q
      /\ count' = Width - 1 - q /\ overflow' = FALSE
  BY <1>3 DEF SetForRest, set_timeout_time
<1>8. SetFor(r, items')
  BY <1>2, <1>3, <1>6, <1>7, SetForIs
<1>9. u \in Int /\ q \in 0 .. Width - 1 /\ u = FirstTime(r) /\ q = u % Width
  BY <1>3, FirstTimeInt
<1> HIDE DEF r, u, q
<1>10. /\ SameEvents(r, items') /\ Len(items') = Len(r) /\ FirstTime(items') = u
       /\ \A k \in 1 .. Len(r) : items'[k].ev = r[k].ev /\ items'[k].time = r[k].time
       /\ \A k \in 1 .. Len(r) : items'[k].flag <=> items'[k].time = FirstTime(items')
  BY <1>8, <1>9 DEF SetFor, SameEvents
<1>11. SetToFirst'
  BY <1>7, <1>9, <1>10 DEF SetToFirst
<1>12. Ordered(items')
  BY <1>2, <1>10 DEF Ordered
<1>13. DistinctIn(items') /\ Events(items') = Events(r)
  BY <1>2, <1>3, <1>10, SameEventsKeeps
<1>14. SetAt' = count' /\ count' \in Int
  BY <1>7, <1>9, TimeTypes DEF SetAt
<1>15. ASSUME NEW k \in 1 .. Len(items')
       PROVE  \E i \in 1 .. Len(items) :
                /\ items[i].time >= t
                /\ items'[k].ev = items[i].ev /\ items'[k].time = items[i].time - t
  <2>1. PICK i \in 1 .. Len(items) :
          /\ i \notin GoneAt(items, I, t)
          /\ r[k].ev = items[i].ev /\ r[k].time = items[i].time - t
    BY <1>2, <1>10, Zenon DEF StaysFrom
  <2>2. ~(items[i].time < t)
    BY <2>1 DEF GoneAt, Goes
  <2>3. items[i].time >= t
    BY <2>2, TimeTypes
  <2>4. items'[k].ev = r[k].ev /\ items'[k].time = r[k].time
    BY <1>10
  <2> QED
    BY <2>1, <2>3, <2>4
<1> QED
  BY <1>7, <1>11, <1>12, <1>13, <1>14, <1>15 DEF r

LEMMA RemoveItemKeeps ==
  ASSUME Values, Listed, Timed, RemoveItem
  PROVE  Kept
<1> DEFINE t == current_time
           r == Rest(items, {arg.time}, t)
           P == Past(items, {arg.time}, t)
           E == {items[i].ev : i \in P}
<1>1. /\ pc = "remove" /\ pc' = "idle" /\ SetForRest(r)
      /\ waiting' = waiting \ ({arg.ev} \cup E)
      /\ early' = (early \/ \E e \in E \ disturbed : remains[e] > 0)
      /\ remains' = remains /\ disturbed' = disturbed /\ current_time' = 0
  BY DEF RemoveItem, Step
<1>2. /\ items \in Seq(Item) /\ t \in Nat /\ Ordered(items) /\ DistinctIn(items)
      /\ Events(items) = waiting /\ SetToFirst
      /\ arg.time \in 1 .. Len(items) /\ items[arg.time].ev = arg.ev
  BY <1>1 DEF Values, Listed, Timed
<1>3. GoneAt(items, {arg.time}, t) = {arg.time} \cup P
  BY <1>2, GoneAre
<1>4. Events(r) = waiting'
  <2>1. Events(r) = waiting \ {items[i].ev : i \in {arg.time} \cup P}
    <3>1. t \in Int
      BY <1>2
    <3>2. Events(r) = Events(items) \ GoneEvents(items, {arg.time}, t)
      BY <1>2, <3>1, RestEvents
    <3> HIDE DEF r, P
    <3> QED
      BY <1>2, <1>3, <3>2 DEF GoneEvents
  <2>2. {items[i].ev : i \in {arg.time} \cup P} = {arg.ev} \cup E
    BY <1>2
  <2> QED
    BY <1>1, <2>1, <2>2
\* An item that is not disturbed was not past.
<1>5. ASSUME NEW e \in E \ disturbed PROVE FALSE
  <2>1. PICK i \in 1 .. Len(items) : items[i].time < t /\ items[i].ev = e
    BY <1>2, <1>5 DEF Past
  <2>2. items[i].time >= 0 /\ items[i].time \in Int
    BY <1>5, <2>1, TimeTypes DEF Timed, DueWithin
  <2>3. t # 0
    BY <2>1, <2>2
  <2>4. waiting \subseteq disturbed
    BY <1>1, <2>3 DEF Timed
  <2> QED
    BY <1>5, <2>1, <2>4, ItemWaits
<1>6. ~early'
  <2>1. ~\E e \in E \ disturbed : remains[e] > 0
    BY <1>5
  <2>2. ~early
    BY DEF Timed
  <2> HIDE DEF E
  <2> QED
    BY <1>1, <2>1, <2>2, Zenon
<1> HIDE DEF E, P
<1>7. CASE r = <<>>
  <2>1. items' = <<>> /\ Len(items') = 0
    BY <1>1, <1>7 DEF SetForRest
  <2>2. Events(items') = waiting'
    BY <1>4, <1>7, <2>1
  <2>3. Listed'
    BY <1>1, <2>1, <2>2 DEF Listed, DistinctIn, Ordered
  <2>4. SetToFirst' /\ DueWithin'
    BY <2>1 DEF SetToFirst, DueWithin
  <2> QED
    BY <1>1, <1>6, <2>1, <2>3, <2>4 DEF Kept, Timed
<1>8. CASE r # <<>>
  <2>1. /\ SetToFirst' /\ Ordered(items') /\ DistinctIn(items')
        /\ Events(items') = Events(r)
        /\ SetAt' = count' /\ count' \in Int /\ overflow' = FALSE
        /\ \A k \in 1 .. Len(items') : \E i \in 1 .. Len(items) :
             /\ items[i].time >= t
             /\ items'[k].ev = items[i].ev /\ items'[k].time = items[i].time - t
    BY <1>1, <1>2, <1>8, SetForRestKeeps
  <2>2. Listed'
    BY <1>1, <1>4, <2>1 DEF Listed
  <2>3. Elapsed' = 0 /\ Elapsed = 0
    <3>1. Elapsed' = count' - SetAt'
      BY <1>1, <2>1 DEF Elapsed
    <3> QED
      BY <1>1, <2>1, <3>1 DEF Elapsed
  <2>4. DueWithin'
    <3>1. SUFFICES ASSUME NEW k \in 1 .. Len(items'), items'[k].ev \notin disturbed
                   PROVE  /\ items'[k].time >= 0
                          /\ \/ remains[items'[k].ev] = 0
                             \/ remains[items'[k].ev] <= items'[k].time - Elapsed'
      BY <1>1 DEF DueWithin
    <3>2. PICK i \in 1 .. Len(items) :
            items'[k].ev = items[i].ev /\ items'[k].time = items[i].time - t
      BY <2>1
    <3>3. t = 0
      BY <1>1, <3>1, <3>2, ItemWaits DEF Timed
    <3>4. items'[k].time = items[i].time
      BY <3>2, <3>3, TimeTypes
    <3>5. /\ items[i].time >= 0
          /\ remains[items[i].ev] = 0 \/ remains[items[i].ev] <= items[i].time - Elapsed
      BY <3>1, <3>2 DEF Timed, DueWithin
    <3> QED
      BY <2>3, <3>2, <3>4, <3>5
  <2>5. SetAt' <= count'
    BY <2>1
  <2> QED
    BY <1>1, <1>6, <2>1, <2>2, <2>4, <2>5 DEF Kept, Timed
<1> QED
  BY <1>7, <1>8

LEMMA NothingToRemoveKeeps ==
  ASSUME Values, Listed, Timed, NothingToRemove
  PROVE  Kept
<1>1. /\ pc = "missing" /\ pc' = "idle" /\ items' = items
      /\ timeout_current_time' = timeout_current_time /\ count' = count /\ overflow' = overflow
      /\ current_time' = 0
      /\ waiting' = waiting /\ remains' = remains /\ disturbed' = disturbed /\ early' = early
  BY DEF NothingToRemove, Step, observers
<1>2. Listed'
  BY <1>1 DEF Listed, Events
<1>3. Elapsed' = Elapsed /\ SetAt' = SetAt
  BY <1>1 DEF Elapsed, SetAt
<1>4. DueWithin' /\ SetToFirst'
  BY <1>1, <1>3 DEF DueWithin, SetToFirst, Timed
<1>5. items' # <<>> /\ ~overflow' => SetAt' <= count'
  BY <1>1, <1>3 DEF Timed
<1> QED
  BY <1>1, <1>2, <1>4, <1>5 DEF Kept, Timed

\* What the handler signals is due: it is of the time the timer was set to, or past it.
LEMMA SignalledIsDue ==
  ASSUME Values, Timed, SetToFirst, pc = "idle", overflow,
         NEW i \in 1 .. Len(items), items[i].ev \notin disturbed,
         items[i].flag \/ items[i].time < timeout_current_time
  PROVE  remains[items[i].ev] = 0
<1>1. /\ items[i].time >= 0
      /\ remains[items[i].ev] = 0 \/ remains[items[i].ev] <= items[i].time - Elapsed
  BY DEF Timed, DueWithin
<1>2. Elapsed = timeout_current_time
  BY DEF Elapsed
<1>3. /\ items[i].time \in Int /\ remains[items[i].ev] \in Nat
      /\ timeout_current_time \in Int /\ items # <<>>
  BY TimeTypes, EmptySeq
<1>4. CASE items[i].time < timeout_current_time
  BY <1>1, <1>2, <1>3, <1>4
<1>5. CASE items[i].flag
  <2>1. items[i].time = FirstTime(items) /\ timeout_current_time = FirstTime(items) % Width
    BY <1>3, <1>5 DEF SetToFirst
  <2>2. FirstTime(items) \in Int /\ FirstTime(items) <= Width - 1 /\ Width \in Nat
    BY <1>3, FirstTimeIs, MuxAssumption DEF Values
  <2>3. FirstTime(items) \in 0 .. Width - 1
    BY <1>1, <2>1, <2>2
  <2>4. timeout_current_time = FirstTime(items)
    BY <2>1, <2>2, <2>3, Remainder
  <2> QED
    BY <1>1, <1>2, <1>3, <2>1, <2>4
<1> QED
  BY <1>4, <1>5

LEMMA HandlerKeeps ==
  ASSUME Values, Listed, Timed, TIMER0_IRQHandler, ~raced'
  PROVE  Kept
<1> DEFINE t == timeout_current_time
           due == {i \in DOMAIN items : \A j \in 1 .. i : items[j].flag}
           r == Rest(items, due, t)
           P == Past(items, due, t)
           E == {items[i].ev : i \in due \cup P}
<1>1. /\ overflow /\ pc' = pc /\ remains' = remains
      /\ waiting' = waiting \ E
      /\ IF r = <<>> THEN items' = r /\ overflow' = FALSE ELSE SetForRest(r)
  BY DEF TIMER0_IRQHandler, Signal
<1>2. early' = (early \/ (pc = "idle" /\ \E e \in E \ disturbed : remains[e] > 0))
  BY DEF TIMER0_IRQHandler, Signal
<1>3. pc = "idle"
  BY DEF TIMER0_IRQHandler
<1>4. disturbed' = disturbed
  BY <1>3 DEF TIMER0_IRQHandler
<1>5. /\ items \in Seq(Item) /\ t \in Nat /\ t \in Int /\ Ordered(items) /\ DistinctIn(items)
      /\ Events(items) = waiting /\ SetToFirst /\ DOMAIN items = 1 .. Len(items)
      /\ Len(items) \in Nat
  BY <1>3, TimeTypes DEF Values, Listed, Timed
<1>6. due \in SUBSET (1 .. Len(items)) /\ \A i \in due : items[i].flag
  <2>1. ASSUME NEW i \in due PROVE i \in 1 .. Len(items) /\ items[i].flag
    <3>1. i \in 1 .. Len(items) /\ \A j \in 1 .. i : items[j].flag
      BY <1>5
    <3>2. i \in 1 .. i
      BY <3>1
    <3> QED
      BY <3>1, <3>2
  <2> QED
    BY <2>1
<1> HIDE DEF due
<1>7. GoneAt(items, due, t) = due \cup P
  BY <1>5, <1>6, GoneAre
<1>8. Events(r) = waiting'
  <2>1. Events(r) = Events(items) \ GoneEvents(items, due, t)
    BY <1>5, RestEvents
  <2> HIDE DEF r, P
  <2> QED
    BY <1>1, <1>5, <1>7, <2>1 DEF GoneEvents
<1>9. ASSUME NEW e \in E \ disturbed PROVE remains[e] = 0
  <2>1. PICK i \in due \cup P : items[i].ev = e
    BY <1>9
  <2>2. i \in 1 .. Len(items) /\ (items[i].flag \/ items[i].time < t)
    BY <1>5, <1>6, <2>1 DEF Past
  <2> QED
    BY <1>1, <1>3, <1>5, <1>9, <2>1, <2>2, SignalledIsDue
<1>10. ~early'
  <2>1. \A e \in E \ disturbed : ~(remains[e] > 0)
    BY <1>9
  <2>2. ~early
    BY DEF Timed
  <2> HIDE DEF E
  <2> QED
    BY <1>2, <2>1, <2>2, Zenon
<1> HIDE DEF E, P
<1>11. CASE r = <<>>
  <2>1. items' = <<>> /\ Len(items') = 0
    BY <1>1, <1>11
  <2>2. Events(items') = waiting'
    BY <1>8, <1>11, <2>1
  <2>3. Listed'
    BY <1>1, <1>3, <2>1, <2>2 DEF Listed, DistinctIn, Ordered
  <2>4. SetToFirst' /\ DueWithin'
    BY <2>1 DEF SetToFirst, DueWithin
  <2> QED
    BY <1>1, <1>3, <1>10, <2>1, <2>3, <2>4 DEF Kept, Timed
<1>12. CASE r # <<>>
  <2>1. /\ SetToFirst' /\ Ordered(items') /\ DistinctIn(items')
        /\ Events(items') = Events(r)
        /\ SetAt' = count' /\ count' \in Int /\ overflow' = FALSE
        /\ \A k \in 1 .. Len(items') : \E i \in 1 .. Len(items) :
             /\ items[i].time >= t
             /\ items'[k].ev = items[i].ev /\ items'[k].time = items[i].time - t
    BY <1>1, <1>5, <1>6, <1>12, SetForRestKeeps
  <2>2. Listed'
    BY <1>1, <1>3, <1>8, <2>1 DEF Listed
  <2>3. Elapsed' = 0 /\ Elapsed = t
    <3>1. Elapsed' = count' - SetAt'
      BY <1>1, <1>3, <2>1 DEF Elapsed
    <3> QED
      BY <1>1, <1>3, <2>1, <3>1 DEF Elapsed
  <2>4. DueWithin'
    <3>1. SUFFICES ASSUME NEW k \in 1 .. Len(items'), items'[k].ev \notin disturbed
                   PROVE  /\ items'[k].time >= 0
                          /\ \/ remains[items'[k].ev] = 0
                             \/ remains[items'[k].ev] <= items'[k].time - Elapsed'
      BY <1>1, <1>4 DEF DueWithin
    <3>2. PICK i \in 1 .. Len(items) :
            /\ items[i].time >= t
            /\ items'[k].ev = items[i].ev /\ items'[k].time = items[i].time - t
      BY <2>1
    <3>3. remains[items[i].ev] = 0 \/ remains[items[i].ev] <= items[i].time - Elapsed
      BY <3>1, <3>2 DEF Timed, DueWithin
    <3>4. items[i].time \in Int /\ remains[items[i].ev] \in Nat
      BY TimeTypes
    <3> HIDE DEF t
    <3> QED
      BY <1>5, <2>3, <3>2, <3>3, <3>4
  <2>5. SetAt' <= count'
    BY <2>1
  <2> QED
    BY <1>1, <1>3, <1>10, <2>1, <2>2, <2>4, <2>5 DEF Kept, Timed
<1> QED
  BY <1>11, <1>12

\* Where the item of an event is found.
LEMMA FirstPlace ==
  ASSUME NEW n \in Nat, NEW I \in SUBSET (1 .. n), I # {}
  PROVE  Min(I) \in I
<1> DEFINE R == OpToRel(<, Nat)
<1>1. IsWellFoundedOn(R, Nat)
  BY NatLessThanWellFounded, Zenon
<1>2. I \subseteq Nat
  OBVIOUS
<1> HIDE DEF R
<1>3. PICK x \in I : \A y \in I : ~(<<y, x>> \in R)
  BY <1>1, <1>2, WFMin
<1>4. \A y \in I : ~(y < x)
  BY <1>2, <1>3 DEF R, OpToRel
<1>5. \A y \in I : x <= y
  BY <1>2, <1>4
<1> QED
  BY <1>5 DEF Min

LEMMA FoundIs ==
  ASSUME NEW s \in Seq(Item), NEW e
  PROVE  LET i == SelectInSeq(s, LAMBDA x : x.ev = e)
         IN  i = 0 \/ (i \in 1 .. Len(s) /\ s[i].ev = e)
<1> DEFINE I == {i \in 1 .. Len(s) : s[i].ev = e}
<1>1. SelectInSeq(s, LAMBDA x : x.ev = e) = IF I # {} THEN Min(I) ELSE 0
  BY DEF SelectInSeq
<1>2. Len(s) \in Nat /\ I \in SUBSET (1 .. Len(s))
  OBVIOUS
<1>3. CASE I = {}
  BY <1>1, <1>3
<1>4. CASE I # {}
  <2>1. Min(I) \in I
    BY <1>2, <1>4, FirstPlace
  <2> QED
    BY <1>1, <1>4, <2>1
<1> QED
  BY <1>3, <1>4

LEMMA KeptStep ==
  ASSUME Values, ~raced => Listed /\ Timed, [Next]_vars, ~raced'
  PROVE  Kept
<1>1. ~raced
  BY DEF Next, vars, observers, Tick, timeout_add_item, Call, Shift, Enter, Sort,
         timeout_remove_item, RemoveItem, NothingToRemove, TIMER0_IRQHandler
<1>2. Listed /\ Timed
  BY <1>1
<1>3. CASE Tick
  BY <1>2, <1>3, TickKeeps
<1>4. ASSUME NEW e \in Event, NEW t \in Times, timeout_add_item(e, t) PROVE Kept
  <2> DEFINE a == [ev |-> e, time |-> t]
  <2>1. Call("shift", a) /\ a.ev \notin waiting
    BY <1>4 DEF timeout_add_item
  <2> HIDE DEF a
  <2> QED
    BY <1>2, <2>1, CallKeeps
<1>5. CASE Shift
  BY <1>2, <1>5, ShiftKeeps
<1>6. CASE Enter
  BY <1>2, <1>6, EnterKeeps
<1>7. CASE Sort
  BY <1>2, <1>7, SortKeeps
<1>8. ASSUME NEW e \in Event, timeout_remove_item(e) PROVE Kept
  <2> DEFINE i == SelectInSeq(items, LAMBDA x : x.ev = e)
             a == [ev |-> e, time |-> i]
             n == IF i = 0 THEN "missing" ELSE "remove"
  <2>1. i = 0 \/ (i \in 1 .. Len(items) /\ items[i].ev = e)
    BY FoundIs DEF Values
  <2>2. Call(n, a)
    BY <1>8 DEF timeout_remove_item
  <2>3. a.ev = e /\ a.time = i
    OBVIOUS
  <2>4. n \in {"shift", "missing", "remove"} /\ n # "shift"
    OBVIOUS
  <2>5. n = "remove" => i # 0
    OBVIOUS
  <2> HIDE DEF i, a, n
  <2> QED
    BY <1>2, <2>1, <2>2, <2>3, <2>4, <2>5, CallKeeps
<1>9. CASE RemoveItem
  BY <1>2, <1>9, RemoveItemKeeps
<1>10. CASE NothingToRemove
  BY <1>2, <1>10, NothingToRemoveKeeps
<1>11. CASE TIMER0_IRQHandler
  BY <1>2, <1>11, HandlerKeeps
<1>12. CASE UNCHANGED vars
  BY <1>2, <1>12 DEF vars, timer, observers, Kept, Listed, Timed, Events, SetToFirst, DueWithin,
                     Elapsed, SetAt
<1> QED
  BY <1>3, <1>4, <1>5, <1>6, <1>7, <1>8, <1>9, <1>10, <1>11, <1>12 DEF Next

LEMMA MuxInit == Init => MuxInv
<1> SUFFICES ASSUME Init PROVE MuxInv
  OBVIOUS
<1>1. Flags /\ Runs
  BY DEF Init, Flags, Runs
<1>2. Values
  <2>1. Width \in Nat \ {0}
    BY MuxAssumption
  <2>2. <<>> \in Seq(Item)
    OBVIOUS
  <2> QED
    BY <2>1, <2>2 DEF Init, Values
<1>3. items = <<>> /\ Len(items) = 0 /\ DOMAIN items = {}
  BY DEF Init
<1>4. Listed
  BY <1>3 DEF Init, Listed, Events, DistinctIn, Ordered
<1>5. Timed
  BY <1>3 DEF Init, Timed, SetToFirst, DueWithin
<1> QED
  BY <1>1, <1>2, <1>4, <1>5 DEF MuxInv

LEMMA MuxInvStep == MuxInv /\ [Next]_vars => MuxInv'
<1> SUFFICES ASSUME MuxInv, [Next]_vars PROVE MuxInv'
  OBVIOUS
<1>1. Flags /\ Values /\ Runs /\ (~raced => Listed /\ Timed)
  BY DEF MuxInv
<1>2. Flags' /\ Values' /\ Runs'
  BY <1>1, FlagsStep, ValuesStep, RunsStep
<1>3. ~raced' => Kept
  BY <1>1, KeptStep
<1> QED
  BY <1>2, <1>3 DEF MuxInv, Kept

LEMMA MuxInvariant == Spec => []MuxInv
BY MuxInit, MuxInvStep, PTL DEF Spec

-------------------------------------------------------------------------------
\* Unless the handler came under a call, between the calls the array holds the events
\* that wait, each once and in the order of their times; the timer runs as long as
\* there are any.
THEOREM NothingForgotten == Spec => []NothingIsForgotten
<1>1. MuxInv => NothingIsForgotten
  <2> SUFFICES ASSUME MuxInv, pc = "idle"
               PROVE  /\ items # <<>> => running
                      /\ ~raced =>
                           /\ Events(items) = waiting
                           /\ IsInjective([i \in DOMAIN items |-> items[i].ev])
                           /\ \A i \in 1 .. Len(items) - 1 : items[i].time <= items[i + 1].time
    BY DEF NothingIsForgotten
  <2>1. items # <<>> => running
    BY DEF MuxInv, Runs
  <2>2. ASSUME ~raced
        PROVE  /\ Events(items) = waiting
               /\ IsInjective([i \in DOMAIN items |-> items[i].ev])
               /\ \A i \in 1 .. Len(items) - 1 : items[i].time <= items[i + 1].time
    <3>1. Events(items) = waiting /\ DistinctIn(items) /\ Ordered(items) /\ items \in Seq(Item)
      BY <2>2 DEF MuxInv, Listed, Values
    <3>2. DOMAIN items = 1 .. Len(items) /\ Len(items) \in Nat
      BY <3>1
    <3>3. IsInjective([i \in DOMAIN items |-> items[i].ev])
      BY <3>1, <3>2 DEF IsInjective, DistinctIn
    <3>4. ASSUME NEW i \in 1 .. Len(items) - 1 PROVE items[i].time <= items[i + 1].time
      <4>1. i \in 1 .. Len(items) /\ i + 1 \in 1 .. Len(items) /\ i <= i + 1
        BY <3>2
      <4> QED
        BY <3>1, <4>1 DEF Ordered
    <3> QED
      BY <3>1, <3>3, <3>4
  <2> QED
    BY <2>1, <2>2
<1> QED
  BY <1>1, MuxInvariant, PTL

\* No event is signalled before its time, unless a later call found the timer part of
\* the way or the handler came under a call.
THEOREM SignalledInTime == Spec => []NeverEarly
<1>1. MuxInv => NeverEarly
  BY DEF MuxInv, Timed, NeverEarly
<1> QED
  BY <1>1, MuxInvariant, PTL
===============================================================================
