--------------------------- MODULE PacketPoolProofs ---------------------------
(***************************************************************************)
(* The packet pool implements FrameFifo: a proof for every size of the     *)
(* ring, every length of a frame and every range of the length byte.       *)
(***************************************************************************)
EXTENDS PacketPool, WellFoundedInduction, TLAPS

-------------------------------------------------------------------------------
(* The ring.                                                               *)

LEMMA Sizes ==
  /\ Size \in Nat /\ Size > 0
  /\ Byte \in Nat /\ Byte > 0
  /\ Before = 14 /\ After = 2
  /\ Lengths \subseteq Int
BY PoolAssumption DEF Before, After

LEMMA Remainder ==
  ASSUME NEW a \in Nat
  PROVE  /\ (a % Size) \in 0 .. Size - 1
         /\ (a \div Size) \in Nat
         /\ a = ((a \div Size) * Size) + (a % Size)
BY Sizes

LEMMA RemainderIs ==
  ASSUME NEW q \in Nat, NEW r \in 0 .. Size - 1
  PROVE  ((q * Size) + r) % Size = r
<1> DEFINE a == (q * Size) + r
           p == a \div Size
           t == a % Size
<1>1. a \in Nat /\ (q * Size) \in Nat
  BY Sizes
<1>2. p \in Nat /\ t \in 0 .. Size - 1 /\ a = (p * Size) + t
  BY <1>1, Remainder
<1> SUFFICES t = r
  OBVIOUS
<1> HIDE DEF p, t
<1>3. CASE p < q
  <2>1. PICK d \in Nat : q = p + 1 + d
    <3>1. q - p - 1 \in Nat /\ q = p + 1 + (q - p - 1)
      BY <1>2, <1>3
    <3> QED BY <3>1
  <2>2. (q * Size) = (p * Size) + Size + (d * Size) /\ (d * Size) \in Nat /\ (p * Size) \in Nat
    BY <1>2, <2>1, Sizes
  <2> QED BY <1>1, <1>2, <2>2, Sizes
<1>4. CASE q < p
  <2>1. PICK d \in Nat : p = q + 1 + d
    <3>1. p - q - 1 \in Nat /\ p = q + 1 + (p - q - 1)
      BY <1>2, <1>4
    <3> QED BY <3>1
  <2>2. (p * Size) = (q * Size) + Size + (d * Size) /\ (d * Size) \in Nat
    BY <1>2, <2>1, Sizes
  <2> QED BY <1>1, <1>2, <2>2, Sizes
<1>5. CASE p = q
  BY <1>1, <1>2, <1>5
<1> QED BY <1>2, <1>3, <1>4, <1>5

\* Going on from a place by less than a turn.
LEMMA Onwards ==
  ASSUME NEW a \in Nat, NEW n \in 0 .. Size
  PROVE  (a + n) % Size = IF (a % Size) + n < Size THEN (a % Size) + n
                                                   ELSE (a % Size) + n - Size
<1> DEFINE q == a \div Size
           r == a % Size
<1>1. q \in Nat /\ r \in 0 .. Size - 1 /\ a = (q * Size) + r /\ (q * Size) \in Nat
  BY Remainder, Sizes
<1> HIDE DEF q, r
<1>2. CASE r + n < Size
  <2>1. r + n \in 0 .. Size - 1 /\ a + n = (q * Size) + (r + n)
    BY <1>1, <1>2, Sizes
  <2>2. ((q * Size) + (r + n)) % Size = r + n
    BY <1>1, <2>1, RemainderIs
  <2> QED BY <1>2, <2>1, <2>2 DEF r
<1>3. CASE ~(r + n < Size)
  <2>1. r + n - Size \in 0 .. Size - 1 /\ q + 1 \in Nat
    BY <1>1, <1>3, Sizes
  <2>2. ((q + 1) * Size) = (q * Size) + Size
    BY <1>1, Sizes
  <2>3. a + n = ((q + 1) * Size) + (r + n - Size)
    BY <1>1, <2>2, Sizes
  <2>4. (((q + 1) * Size) + (r + n - Size)) % Size = r + n - Size
    BY <2>1, RemainderIs
  <2> QED BY <1>3, <2>3, <2>4 DEF r
<1> QED BY <1>2, <1>3

\* The distance from one index to another.
LEMMA Distance ==
  ASSUME NEW i \in 0 .. Size - 1, NEW t \in 0 .. Size - 1
  PROVE  (i - t) % Size = IF i >= t THEN i - t ELSE i - t + Size
<1>1. CASE i >= t
  <2>1. i - t \in 0 .. Size - 1 /\ i - t = (0 * Size) + (i - t)
    BY <1>1, Sizes
  <2> QED BY <1>1, <2>1, RemainderIs
<1>2. CASE ~(i >= t)
  BY <1>2, Sizes
<1> QED BY <1>1, <1>2

\* The step of an index is that of the place.
LEMMA Step ==
  ASSUME NEW a \in Nat, NEW n \in 0 .. Size
  PROVE  ((a % Size) + n) % Size = (a + n) % Size
<1> DEFINE r == a % Size
<1>1. r \in Nat /\ r % Size = r
  <2>1. r \in 0 .. Size - 1 /\ r = (0 * Size) + r
    BY Remainder, Sizes
  <2> HIDE DEF r
  <2> QED BY <2>1, RemainderIs
<1> HIDE DEF r
<1>2. (r + n) % Size = IF r + n < Size THEN r + n ELSE r + n - Size
  BY <1>1, Onwards
<1>3. (a + n) % Size = IF r + n < Size THEN r + n ELSE r + n - Size
  BY Onwards DEF r
<1> QED BY <1>2, <1>3 DEF r

\* The byte that WRITE_PACKET_POOL puts k places after p.
LEMMA PlaceWritten ==
  ASSUME NEW p \in Nat, NEW k \in 1 .. Size
  PROVE  ((((p + k) % Size) - ((p + 1) % Size)) % Size) + 1 = k
<1> DEFINE t == (p + 1) % Size
           x == (p + k) % Size
<1>1. t \in 0 .. Size - 1 /\ x \in 0 .. Size - 1
  BY Remainder, Sizes
<1>2. x = IF t + (k - 1) < Size THEN t + (k - 1) ELSE t + (k - 1) - Size
  <2>1. p + 1 \in Nat /\ k - 1 \in 0 .. Size /\ (p + 1) + (k - 1) = p + k
    BY Sizes
  <2>2. ((p + 1) + (k - 1)) % Size
          = IF t + (k - 1) < Size THEN t + (k - 1) ELSE t + (k - 1) - Size
    BY <2>1, Onwards
  <2> QED BY <2>1, <2>2
<1> HIDE DEF t, x
<1>3. (x - t) % Size = IF x >= t THEN x - t ELSE x - t + Size
  BY <1>1, Distance
<1>4. (x - t) % Size = k - 1
  BY <1>1, <1>2, <1>3, Sizes
<1>5. ((x - t) % Size) + 1 = k
  BY <1>4, Sizes
<1> QED BY <1>5 DEF t, x

\* A place at most Size - 2 before p is written only by a record that comes round.
LEMMA PlaceKept ==
  ASSUME NEW p \in Nat, NEW a \in Nat, a <= p, p + 1 - a < Size
  PROVE  (((a % Size) - ((p + 1) % Size)) % Size) + 1 = Size - (p - a)
<1> DEFINE t == (p + 1) % Size
           x == a % Size
           d == p + 1 - a
<1>1. t \in 0 .. Size - 1 /\ x \in 0 .. Size - 1 /\ d \in 1 .. Size - 1
  BY Remainder, Sizes
<1>2. t = IF x + d < Size THEN x + d ELSE x + d - Size
  <2>1. d \in 0 .. Size /\ a + d = p + 1
    BY <1>1, Sizes
  <2>2. (a + d) % Size = IF x + d < Size THEN x + d ELSE x + d - Size
    BY <2>1, Onwards
  <2> QED BY <2>1, <2>2
<1> HIDE DEF t, x
<1>3. (x - t) % Size = IF x >= t THEN x - t ELSE x - t + Size
  BY <1>1, Distance
<1>4. (x - t) % Size = Size - d
  BY <1>1, <1>2, <1>3, Sizes
<1>5. ((x - t) % Size) + 1 = Size - (p - a)
  BY <1>4, Sizes
<1> QED BY <1>5 DEF t, x

-------------------------------------------------------------------------------
(* What the ring holds.  s[i] is the place of the last byte before the i-th  *)
(* record, counted on from the first turn without going back to 0; the one    *)
(* after the last record is where the next one begins.                        *)

RingHolds(s, queue, buffer, h, t) ==
  LET n == Len(queue)
  IN  /\ h = s[1] % Size
      /\ t = (s[n + 1] + 1) % Size
      /\ s[n + 1] < s[1] + Size
      /\ \A i \in 1 .. n : s[i + 1] = s[i] + RecordSize(queue[i])
      /\ \A i, j \in 1 .. n + 1 : i <= j => s[i] + (16 * (j - i)) <= s[j]
      /\ \A i \in 1 .. n : \A k \in 1 .. RecordSize(queue[i]) :
           buffer[(s[i] + k) % Size] = <<queue[i], k>>

LEMMA Apart ==
  ASSUME NEW x \in Nat, NEW y \in Nat, NEW d \in Nat, x + (16 * d) <= y
  PROVE  x <= y
OBVIOUS

\* Where an old byte lies behind the place after the last record, and that the first of
\* the records fits the ring.
LEMMA Behind ==
  ASSUME NEW b \in Nat, NEW p \in Nat, NEW a \in Nat, NEW size \in Nat,
         b < a, a <= p, p + size < b + Size
  PROVE  p + 1 - a < Size /\ Size - (p - a) > size
BY Sizes

LEMMA FirstFits ==
  ASSUME NEW x \in Nat, NEW y \in Nat, NEW z \in Nat, NEW n \in Nat, NEW size \in Nat,
         n > 0, y = x + size, y + (16 * ((n + 1) - 2)) <= z, z < x + Size
  PROVE  y <= z /\ size < Size
BY Sizes

\* A record of f written from index t on.
WrittenAt(t, f, buffer) ==
  [i \in DOMAIN buffer |->
    LET k == ((i - t) % Size) + 1
    IN  IF k <= RecordSize(f) THEN Record(f)[k] ELSE buffer[i]]

LEMMA Frames ==
  ASSUME NEW f \in Frame
  PROVE  /\ f.length \in Nat /\ RecordSize(f) = 16 + f.length
         /\ RecordSize(f) \in Nat
         /\ Record(f) \in Seq(Frame \X Nat) /\ Len(Record(f)) = RecordSize(f)
         /\ \A k \in 1 .. RecordSize(f) : Record(f)[k] = <<f, k>>
<1>1. PICK len \in Lengths : f.length = PayloadLength(len)
  BY DEF Frame
<1>2. f.length \in Nat
  BY <1>1, Sizes DEF PayloadLength, PACKET_OVERHEAD, PACKET_FOOTER
<1>3. RecordSize(f) = 16 + f.length /\ RecordSize(f) \in Nat
  BY <1>2, Sizes DEF RecordSize
<1>4. Record(f) \in [1 .. RecordSize(f) -> Frame \X Nat]
  BY <1>3 DEF Record
<1>5. Record(f) \in Seq(Frame \X Nat) /\ Len(Record(f)) = RecordSize(f)
  BY <1>3, <1>4
<1> QED BY <1>2, <1>3, <1>5 DEF Record

\* The pool as mac_init leaves it.
LEMMA RingEmpty ==
  ASSUME NEW buffer
  PROVE  RingHolds([i \in 1 .. 1 |-> Size - 1], <<>>, buffer, Size - 1, 0)
<1>1. (Size - 1) % Size = Size - 1
  <2>1. Size - 1 \in 0 .. Size - 1 /\ Size - 1 = (0 * Size) + (Size - 1)
    BY Sizes
  <2> QED BY <2>1, RemainderIs
<1>2. ((Size - 1) + 1) % Size = 0
  <2>1. (Size - 1) + 1 = (1 * Size) + 0 /\ 0 \in 0 .. Size - 1
    BY Sizes
  <2> QED BY <2>1, RemainderIs
<1> DEFINE s == [i \in 1 .. 1 |-> Size - 1]
<1>3. s[1] = Size - 1 /\ Size - 1 \in Nat /\ Len(<<>>) = 0
  BY Sizes
<1> HIDE DEF s
<1>4. /\ Size - 1 = s[1] % Size /\ 0 = (s[0 + 1] + 1) % Size
      /\ s[0 + 1] < s[1] + Size
  BY <1>1, <1>2, <1>3, Sizes
<1>5. \A i, j \in 1 .. 0 + 1 : i <= j => s[i] + (16 * (j - i)) <= s[j]
  BY <1>3
<1>6. RingHolds(s, <<>>, buffer, Size - 1, 0)
  BY <1>3, <1>4, <1>5 DEF RingHolds
<1> QED BY <1>6 DEF s

\* A record is at least 16 bytes: that many of them fit.
LEMMA RingCount ==
  ASSUME NEW queue \in Seq(Frame), NEW s \in [1 .. Len(queue) + 1 -> Nat],
         NEW buffer, NEW h, NEW t, RingHolds(s, queue, buffer, h, t)
  PROVE  /\ Len(queue) <= Size \div (Before + After)
         /\ h \in 0 .. Size - 1 /\ t \in 0 .. Size - 1
<1> DEFINE n == Len(queue)
           a == s[1]
           b == s[n + 1]
<1>1. n \in Nat /\ a \in Nat /\ b \in Nat
  OBVIOUS
<1>2. a + (16 * ((n + 1) - 1)) <= b /\ b < a + Size
  BY <1>1 DEF RingHolds
<1>3. h = a % Size /\ t = (b + 1) % Size
  BY DEF RingHolds
<1> HIDE DEF n, a, b
<1>4. 16 * n < Size
  BY <1>1, <1>2, Sizes
<1>5. n <= Size \div 16
  BY <1>1, <1>4, Sizes
<1>6. h \in 0 .. Size - 1 /\ t \in 0 .. Size - 1
  BY <1>1, <1>3, Remainder
<1> QED BY <1>5, <1>6, Sizes DEF n

\* The room that CHECK_POOL finds.
LEMMA RoomOf ==
  ASSUME NEW a \in Nat, NEW b \in Nat, a <= b, b < a + Size,
         header = a % Size, tail = (b + 1) % Size
  PROVE  CHECK_POOL = Size - 1 - (b - a)
<1> DEFINE d == b + 1 - a
<1>1. d \in 1 .. Size /\ a + d = b + 1
  BY Sizes
<1>2. header \in 0 .. Size - 1
  BY Remainder
<1>3. tail = IF header + d < Size THEN header + d ELSE header + d - Size
  BY <1>1, Onwards
<1> HIDE DEF d
<1>4. CHECK_POOL = Size - d
  BY <1>1, <1>2, <1>3, Sizes DEF CHECK_POOL
<1> QED BY <1>1, <1>4, Sizes

\* A record that is added where the last one ends, by WRITE_PACKET_POOL.
LEMMA RingGrows ==
  ASSUME NEW queue \in Seq(Frame), NEW f \in Frame,
         NEW s \in [1 .. Len(queue) + 1 -> Nat],
         NEW buffer, NEW next, NEW h, NEW t,
         DOMAIN buffer = 0 .. Size - 1,
         RingHolds(s, queue, buffer, h, t),
         s[Len(queue) + 1] + RecordSize(f) < s[1] + Size,
         next = WrittenAt(t, f, buffer)
  PROVE  \E r \in [1 .. Len(Append(queue, f)) + 1 -> Nat] :
           RingHolds(r, Append(queue, f), next, h, (t + RecordSize(f)) % Size)
<1> DEFINE n == Len(queue)
           p == s[n + 1]
           size == RecordSize(f)
           r == [i \in 1 .. n + 2 |-> IF i <= n + 1 THEN s[i] ELSE p + size]
           longer == Append(queue, f)
<1>1. /\ n \in Nat /\ p \in Nat /\ size \in Nat /\ size >= 16 /\ s[1] \in Nat
      /\ Len(longer) = n + 1
      /\ \A i \in 1 .. n : longer[i] = queue[i]
      /\ longer[n + 1] = f
  <2>1. n \in Nat
    OBVIOUS
  <2>2. p \in Nat /\ s[1] \in Nat
    BY <2>1
  <2>3. size \in Nat /\ size >= 16
    BY Frames, SMTT(30)
  <2>4. Len(longer) = n + 1 /\ longer[n + 1] = f
    OBVIOUS
  <2>5. \A i \in 1 .. n : longer[i] = queue[i]
    OBVIOUS
  <2> QED BY <2>1, <2>2, <2>3, <2>4, <2>5
<1>2. /\ h = s[1] % Size /\ t = (p + 1) % Size /\ p < s[1] + Size
      /\ \A i \in 1 .. n : s[i + 1] = s[i] + RecordSize(queue[i])
      /\ \A i, j \in 1 .. n + 1 : i <= j => s[i] + (16 * (j - i)) <= s[j]
      /\ \A i \in 1 .. n : \A k \in 1 .. RecordSize(queue[i]) :
           buffer[(s[i] + k) % Size] = <<queue[i], k>>
  BY DEF RingHolds
<1>3a. \A i, j \in 1 .. n + 1 : i <= j => s[i] + (16 * (j - i)) <= s[j]
  BY <1>2
<1>3. \A i \in 1 .. n + 1 : s[i] \in Nat /\ r[i] = s[i]
  BY <1>1, SMTT(30)
<1>4. r \in [1 .. Len(longer) + 1 -> Nat] /\ r[n + 2] = p + size
  BY <1>1, <1>3
<1>5. s[1] <= p /\ p + size < s[1] + Size /\ size < Size
  <2>1. s[1] + (16 * ((n + 1) - 1)) <= s[n + 1]
    BY <1>1, <1>2
  <2>2. p + size < s[1] + Size
    OBVIOUS
  <2> HIDE DEF size, p
  <2> QED BY <1>1, <2>1, <2>2, Sizes DEF p
<1>6. (t + size) % Size = (r[n + 2] + 1) % Size
  <2>1. p + 1 \in Nat /\ size \in 0 .. Size /\ (p + 1) + size = r[n + 2] + 1
    BY <1>1, <1>4, <1>5, Sizes
  <2>2. (((p + 1) % Size) + size) % Size = ((p + 1) + size) % Size
    BY <2>1, Step
  <2> QED BY <1>2, <2>1, <2>2
<1>7. \A i \in 1 .. n + 1 : r[i + 1] = r[i] + RecordSize(longer[i])
  <2> SUFFICES ASSUME NEW i \in 1 .. n + 1
               PROVE  r[i + 1] = r[i] + RecordSize(longer[i])
    OBVIOUS
  <2>1. CASE i \in 1 .. n
    BY <1>1, <1>2, <1>3, <2>1
  <2>2. CASE i = n + 1
    BY <1>1, <1>3, <1>4, <2>2
  <2> QED BY <1>1, <2>1, <2>2
<1>8. \A i, j \in 1 .. n + 2 : i <= j => r[i] + (16 * (j - i)) <= r[j]
  <2> SUFFICES ASSUME NEW i \in 1 .. n + 2, NEW j \in 1 .. n + 2, i <= j
               PROVE  r[i] + (16 * (j - i)) <= r[j]
    OBVIOUS
  <2>1. CASE j \in 1 .. n + 1
    BY <1>1, <1>2, <1>3, <2>1, SMTT(30)
  <2>2. CASE j = n + 2 /\ i \in 1 .. n + 1
    <3>1. s[i] + (16 * ((n + 1) - i)) <= p /\ s[i] \in Nat
      BY <1>1, <1>2, <1>3, <2>2, SMTT(30)
    <3> QED BY <1>1, <1>3, <1>4, <2>2, <3>1
  <2>3. CASE j = n + 2 /\ i = n + 2
    BY <1>1, <1>4, <2>3
  <2> QED BY <1>1, <2>1, <2>2, <2>3
<1>9. ASSUME NEW i \in 1 .. n + 1, NEW k \in 1 .. RecordSize(longer[i])
      PROVE  next[(r[i] + k) % Size] = <<longer[i], k>>
  <2>1. CASE i = n + 1
    <3>1. k \in 1 .. size /\ k \in 1 .. Size /\ r[i] = p /\ longer[i] = f
      BY <1>1, <1>3, <1>5, <2>1, Sizes
    <3> DEFINE x == (p + k) % Size
    <3>2. x \in DOMAIN buffer
      <4>1. p + k \in Nat
        BY <1>1, <3>1
      <4> HIDE DEF p
      <4> QED BY <4>1, Remainder
    <3>3. ((x - t) % Size) + 1 = k
      <4> HIDE DEF p
      <4> QED BY <1>1, <1>2, <3>1, PlaceWritten
    <3> HIDE DEF x
    <3>4. next[x] = Record(f)[k]
      BY <3>1, <3>2, <3>3 DEF WrittenAt
    <3>5. Record(f)[k] = <<f, k>>
      BY <3>1, Frames
    <3> HIDE DEF p, r, longer
    <3> QED BY <3>1, <3>4, <3>5 DEF x
  <2>2. CASE i \in 1 .. n
    <3> DEFINE a == s[i] + k
               x == a % Size
    <3> HIDE DEF p, r, longer, n
    <3>0. i \in 1 .. n + 1 /\ i + 1 \in 1 .. n + 1 /\ n + 1 \in 1 .. n + 1
          /\ 1 \in 1 .. n + 1
      BY <1>1, <2>2
    <3>1. longer[i] = queue[i] /\ r[i] = s[i] /\ s[i] \in Nat /\ s[i + 1] \in Nat
      BY <1>1, <1>3, <2>2, <3>0
    <3>2. queue[i] \in Frame
      BY <2>2 DEF n
    <3>3. RecordSize(queue[i]) \in Nat /\ k \in 1 .. RecordSize(queue[i])
      BY <3>1, <3>2, Frames
    <3>4. s[i + 1] = s[i] + RecordSize(queue[i]) /\ s[i + 1] <= p /\ s[1] <= s[i]
      <4>0. i + 1 <= n + 1 /\ 1 <= i
        BY <1>1, <2>2
      <4>1. s[i + 1] + (16 * ((n + 1) - (i + 1))) <= s[n + 1]
        BY <1>3a, <3>0, <4>0
      <4>2. s[1] + (16 * (i - 1)) <= s[i]
        BY <1>3a, <3>0, <4>0
      <4>3. s[i + 1] = s[i] + RecordSize(queue[i])
        BY <1>2, <2>2
      <4>4. p = s[n + 1] /\ s[1] \in Nat /\ p \in Nat /\ n \in Nat
        BY <1>1 DEF p
      <4>5. (n + 1) - (i + 1) \in Nat /\ i - 1 \in Nat
        BY <1>1, <2>2
      <4>6. s[i + 1] <= p
        BY <3>1, <4>1, <4>4, <4>5, Apart
      <4>7. s[1] <= s[i]
        BY <3>1, <4>2, <4>4, <4>5, Apart
      <4> QED BY <4>3, <4>6, <4>7
    <3>5. a \in Nat /\ a <= p /\ s[1] < a
      <4>1. p \in Nat /\ s[1] \in Nat
        BY <1>1
      <4> QED BY <4>1, <3>1, <3>3, <3>4
    <3>6. p + 1 - a < Size /\ Size - (p - a) > size
      <4>1. p \in Nat /\ s[1] \in Nat /\ size \in Nat /\ p + size < s[1] + Size
        BY <1>1, <1>5
      <4> HIDE DEF a, size
      <4> QED BY <3>5, <4>1, Behind
    <3>8. buffer[x] = <<queue[i], k>>
      BY <1>2, <2>2, <3>3
    <3> HIDE DEF a
    <3>7. x \in DOMAIN buffer /\ ((x - t) % Size) + 1 = Size - (p - a)
      <4>1. x \in DOMAIN buffer
        BY <3>5, Remainder
      <4>2. ((x - t) % Size) + 1 = Size - (p - a)
        BY <1>1, <1>2, <3>5, <3>6, PlaceKept
      <4> QED BY <4>1, <4>2
    <3> HIDE DEF x
    <3>9. ~(((x - t) % Size) + 1 <= size)
      BY <1>1, <3>5, <3>6, <3>7, Sizes
    <3>10. next[x] = buffer[x]
      BY <3>7, <3>9 DEF WrittenAt
    <3>11. next[x] = <<longer[i], k>>
      BY <3>1, <3>8, <3>10
    <3>12. x = (r[i] + k) % Size
      BY <3>1 DEF x, a
    <3> QED BY <3>11, <3>12
  <2>3. i = n + 1 \/ i \in 1 .. n
    BY <1>1
  <2> QED BY <2>1, <2>2, <2>3
<1>10. r[1] = s[1] /\ r[n + 2] < r[1] + Size
  BY <1>1, <1>3, <1>4, <1>5
<1> HIDE DEF r, longer, size, p
<1>11. RingHolds(r, longer, next, h, (t + size) % Size)
  <2> DEFINE m == Len(longer)
  <2>1. m = n + 1 /\ m + 1 = n + 2 /\ h = r[1] % Size
    BY <1>1, <1>2, <1>10
  <2> HIDE DEF m, n
  <2>2. (t + size) % Size = (r[m + 1] + 1) % Size /\ r[m + 1] < r[1] + Size
    BY <1>6, <1>10, <2>1
  <2>3. \A i \in 1 .. m : r[i + 1] = r[i] + RecordSize(longer[i])
    BY <1>7, <2>1
  <2>4. \A i, j \in 1 .. m + 1 : i <= j => r[i] + (16 * (j - i)) <= r[j]
    BY <1>8, <2>1
  <2>5. \A i \in 1 .. m : \A k \in 1 .. RecordSize(longer[i]) :
          next[(r[i] + k) % Size] = <<longer[i], k>>
    BY <1>9, <2>1
  <2> QED BY <2>1, <2>2, <2>3, <2>4, <2>5 DEF RingHolds, m
<1> QED BY <1>4, <1>11 DEF longer, size

\* The first record of the ring, and the ring without it.
LEMMA RingShrinks ==
  ASSUME NEW queue \in Seq(Frame), queue # <<>>,
         NEW s \in [1 .. Len(queue) + 1 -> Nat],
         NEW h, NEW t, RingHolds(s, queue, packet_buffer, h, t)
  PROVE  /\ READ_PACKET_POOL(h) = Record(Head(queue))
         /\ \E r \in [1 .. Len(Tail(queue)) + 1 -> Nat] :
              RingHolds(r, Tail(queue), packet_buffer,
                        (h + RecordSize(Head(queue))) % Size, t)
<1> DEFINE n == Len(queue)
           f == queue[1]
           size == RecordSize(f)
           rest == Tail(queue)
           r == [i \in 1 .. n |-> s[i + 1]]
<1>1. /\ n \in Nat /\ n > 0 /\ f \in Frame /\ Head(queue) = f
      /\ Len(rest) = n - 1
      /\ \A i \in 1 .. n - 1 : rest[i] = queue[i + 1]
  OBVIOUS
<1>2. /\ h = s[1] % Size /\ t = (s[n + 1] + 1) % Size /\ s[n + 1] < s[1] + Size
      /\ \A i \in 1 .. n : s[i + 1] = s[i] + RecordSize(queue[i])
      /\ \A i, j \in 1 .. n + 1 : i <= j => s[i] + (16 * (j - i)) <= s[j]
      /\ \A i \in 1 .. n : \A k \in 1 .. RecordSize(queue[i]) :
           packet_buffer[(s[i] + k) % Size] = <<queue[i], k>>
  BY DEF RingHolds
<1>3. /\ size \in Nat /\ size = 16 + f.length /\ f.length \in Nat
      /\ Record(f) = [k \in 1 .. size |-> <<f, k>>]
  BY <1>1, Frames DEF Record
<1>4. \A i \in 1 .. n + 1 : s[i] \in Nat
  BY <1>1
<1>5. s[2] = s[1] + size /\ s[2] <= s[n + 1] /\ size < Size
  <2>1. s[2] = s[1] + size
    BY <1>1, <1>2
  <2>2. s[2] + (16 * ((n + 1) - 2)) <= s[n + 1]
    BY <1>1, <1>2
  <2>3. 1 \in 1 .. n + 1 /\ 2 \in 1 .. n + 1 /\ n + 1 \in 1 .. n + 1
    BY <1>1
  <2>4. s[1] \in Nat /\ s[2] \in Nat /\ s[n + 1] \in Nat
    BY <1>4, <2>3
  <2>5. s[n + 1] < s[1] + Size /\ n \in Nat /\ n > 0 /\ size \in Nat
    BY <1>1, <1>2, <1>3
  <2> HIDE DEF n, f, size
  <2> QED BY <2>1, <2>2, <2>4, <2>5, FirstFits
<1>6. ASSUME NEW k \in 1 .. size
      PROVE  packet_buffer[(h + k) % Size] = <<f, k>>
  <2>1. s[1] \in Nat /\ k \in 0 .. Size
    BY <1>1, <1>3, <1>4, <1>5, Sizes
  <2>2. ((s[1] % Size) + k) % Size = (s[1] + k) % Size
    BY <2>1, Step
  <2>3. 1 \in 1 .. n /\ k \in 1 .. RecordSize(queue[1])
    BY <1>1
  <2>4. packet_buffer[(s[1] + k) % Size] = <<queue[1], k>>
    BY <1>2, <2>3
  <2> QED BY <1>2, <2>2, <2>4
<1>7. SizeAt(h) = size
  <2>1. 14 \in 1 .. size
    BY <1>3
  <2>2. packet_buffer[(h + 14) % Size] = <<f, 14>>
    BY <1>6, <2>1
  <2>3. LengthIn(<<f, 14>>) = f.length
    BY Sizes DEF LengthIn
  <2>4. SizeAt(h) = 14 + f.length + 2
    BY <2>2, <2>3, Sizes DEF SizeAt
  <2> HIDE DEF size, f
  <2> QED BY <1>3, <2>4
<1>8. READ_PACKET_POOL(h) = Record(f)
  BY <1>3, <1>6, <1>7 DEF READ_PACKET_POOL, ReadFrom
<1>9. (h + size) % Size = r[1] % Size
  <2>1. s[1] \in Nat /\ size \in 0 .. Size /\ r[1] = s[1] + size
    BY <1>1, <1>3, <1>4, <1>5, Sizes, SMTT(30)
  <2> QED BY <1>2, <2>1, Step
<1>10. r \in [1 .. Len(rest) + 1 -> Nat] /\ r[n] = s[n + 1]
  BY <1>1, <1>4
<1>11. RingHolds(r, rest, packet_buffer, (h + size) % Size, t)
  <2>1. t = (r[n] + 1) % Size /\ r[n] < r[1] + Size
    <3>1. t = (r[n] + 1) % Size
      BY <1>2, <1>10
    <3>2. r[1] = s[2] /\ s[1] \in Nat /\ s[2] \in Nat /\ s[n + 1] \in Nat
      BY <1>1, <1>4
    <3>3. s[n + 1] < s[1] + Size /\ s[2] = s[1] + size /\ size \in Nat /\ r[n] = s[n + 1]
      BY <1>2, <1>3, <1>5, <1>10
    <3> HIDE DEF r, size, n
    <3>4. r[n] < r[1] + Size
      BY <3>2, <3>3, Sizes
    <3> QED BY <3>1, <3>4
  <2>2. \A i \in 1 .. n - 1 : r[i + 1] = r[i] + RecordSize(rest[i])
    BY <1>1, <1>2
  <2>3. \A i, j \in 1 .. n : i <= j => r[i] + (16 * (j - i)) <= r[j]
    <3> SUFFICES ASSUME NEW i \in 1 .. n, NEW j \in 1 .. n, i <= j
                 PROVE  r[i] + (16 * (j - i)) <= r[j]
      OBVIOUS
    <3>1. i + 1 \in 1 .. n + 1 /\ j + 1 \in 1 .. n + 1 /\ i + 1 <= j + 1
          /\ (j + 1) - (i + 1) = j - i
      BY <1>1
    <3>2. s[i + 1] + (16 * ((j + 1) - (i + 1))) <= s[j + 1]
      BY <1>2, <3>1
    <3> QED BY <3>1, <3>2
  <2>4. \A i \in 1 .. n - 1 : \A k \in 1 .. RecordSize(rest[i]) :
          packet_buffer[(r[i] + k) % Size] = <<rest[i], k>>
    <3> SUFFICES ASSUME NEW i \in 1 .. n - 1, NEW k \in 1 .. RecordSize(rest[i])
                 PROVE  packet_buffer[(r[i] + k) % Size] = <<rest[i], k>>
      OBVIOUS
    <3>1. i + 1 \in 1 .. n /\ rest[i] = queue[i + 1] /\ r[i] = s[i + 1]
      BY <1>1
    <3> HIDE DEF r, rest, n
    <3>2. packet_buffer[(s[i + 1] + k) % Size] = <<queue[i + 1], k>>
      BY <1>2, <3>1
    <3> QED BY <3>1, <3>2
  <2> HIDE DEF r, rest, size
  <2>5. Len(rest) + 1 = n
    BY <1>1
  <2> QED BY <1>1, <1>9, <2>1, <2>2, <2>3, <2>4, <2>5 DEF RingHolds
<1> QED BY <1>1, <1>8, <1>10, <1>11

-------------------------------------------------------------------------------
(* The invariants.                                                           *)

\* The handler is kept out from the reading of a record to the update of the
\* count; until then the record is counted and no longer pending.
KeptOut == pc # "main" => masked

Counting ==
  /\ pc \in {"main", "load", "store"}
  /\ pc = "main" => packet_received = Len(pending) /\ loaded = 0
  /\ pc = "load" => packet_received = Len(pending) + 1 /\ loaded = 0
  /\ pc = "store" => packet_received = Len(pending) + 1 /\ loaded = packet_received

RingTypes ==
  /\ DOMAIN packet_buffer = 0 .. Size - 1
  /\ pending \in Seq(Frame)

Ring ==
  \E s \in [1 .. Len(pending) + 1 -> Nat] :
    RingHolds(s, pending, packet_buffer, header, tail)

\* What is left in rx_frame is a data frame of the air, or none.
Buffered == rx_frame \in Ids \cup {None.id}

PoolInv == KeptOut /\ Counting /\ RingTypes /\ Buffered /\ Ring

\* All but the frame last read.
Others == <<pool, packet_received, pc, loaded, masked, out, pending>>

Accepted(len, id) ==
  LET f == [id |-> id, length |-> PayloadLength(len)]
  IN  /\ ~masked /\ HasRoom(f)
      /\ WRITE_PACKET_POOL(Record(f))
      /\ packet_received' = packet_received + 1
      /\ pending' = Append(pending, f)
      /\ UNCHANGED <<header, pc, loaded, masked, out>>

LEMMA Received ==
  ASSUME Buffered,
         NEW len \in Lengths, NEW id \in Ids, NEW ok \in BOOLEAN, NEW data \in BOOLEAN,
         rf2xx_trx_recv_packet(len, id, ok, data)
  PROVE  /\ (\E j \in Ids : Accepted(len, j)) \/ UNCHANGED Others
         /\ Buffered'
<1> DEFINE j == LastRead(len, id, data)
<1>1. j \in Ids \cup {None.id} /\ rx_frame' = j
  BY DEF rf2xx_trx_recv_packet, LastRead, Buffered
<1>2. UNCHANGED Others \/ (j # None.id /\ Accepted(len, j))
  BY DEF rf2xx_trx_recv_packet, Accepted, Others, pool
<1> QED BY <1>1, <1>2 DEF Buffered

LEMMA BufferKept == Buffered /\ [Next]_vars => Buffered'
BY Received DEF Next, vars, mac_parze_packet, Load, Store, rf2xx_protoc_init, Buffered

LEMMA PoolInit == Init => PoolInv
<1> SUFFICES ASSUME Init PROVE PoolInv
  OBVIOUS
<1>1. KeptOut /\ Counting /\ RingTypes /\ Buffered
  BY DEF Init, KeptOut, Counting, RingTypes, Buffered
<1>2. Ring
  <2>1. [i \in 1 .. 1 |-> Size - 1] \in [1 .. Len(<<>>) + 1 -> Nat]
    BY Sizes
  <2>2. RingHolds([i \in 1 .. 1 |-> Size - 1], <<>>, packet_buffer, Size - 1, 0)
    BY RingEmpty
  <2> QED BY <2>1, <2>2 DEF Ring, Init
<1> QED BY <1>1, <1>2 DEF PoolInv

LEMMA CountKept == PoolInv /\ [Next]_vars => KeptOut' /\ Counting'
<1> SUFFICES ASSUME PoolInv, [Next]_vars PROVE KeptOut' /\ Counting'
  OBVIOUS
<1>1. CASE UNCHANGED Others
  <2>1. KeptOut'
    BY <1>1 DEF PoolInv, KeptOut, Others
  <2>2. Counting'
    BY <1>1 DEF PoolInv, Counting, Others
  <2> QED BY <2>1, <2>2
<1>2. ASSUME NEW len \in Lengths, NEW id \in Ids, Accepted(len, id)
      PROVE  KeptOut' /\ Counting'
  <2>1. pc = "main" /\ pc' = "main"
    BY <1>2 DEF Accepted, PoolInv, KeptOut, Counting
  <2>2. Len(pending') = Len(pending) + 1
    BY <1>2 DEF Accepted, PoolInv, RingTypes
  <2>3. Counting'
    BY <1>2, <2>1, <2>2 DEF Accepted, PoolInv, Counting
  <2> QED BY <2>1, <2>3 DEF KeptOut
<1>3. CASE mac_parze_packet
  <2>1. pc = "main" /\ packet_received > 0 /\ packet_received = Len(pending) /\ loaded = 0
    BY <1>3 DEF mac_parze_packet, PoolInv, Counting
  <2>2. pending # <<>> /\ Len(Tail(pending)) + 1 = Len(pending)
    BY <2>1 DEF PoolInv, RingTypes
  <2>3. Counting'
    BY <1>3, <2>1, <2>2 DEF mac_parze_packet, Counting
  <2>4. KeptOut'
    BY <1>3 DEF mac_parze_packet, ENTER_CRITICAL_REGION, KeptOut
  <2> QED BY <2>3, <2>4
<1>4. CASE Load
  <2>1. Counting'
    BY <1>4 DEF Load, PoolInv, Counting
  <2>2. KeptOut'
    BY <1>4 DEF Load, PoolInv, KeptOut
  <2> QED BY <2>1, <2>2
<1>5. CASE Store
  <2>1. Counting'
    BY <1>5 DEF Store, PoolInv, Counting, RingTypes
  <2>2. KeptOut'
    BY <1>5 DEF Store, KeptOut
  <2> QED BY <2>1, <2>2
<1>6. CASE rf2xx_protoc_init
  <2>1. Counting'
    BY <1>6 DEF rf2xx_protoc_init, PoolInv, Counting
  <2>2. KeptOut'
    BY <1>6 DEF rf2xx_protoc_init, KeptOut
  <2> QED BY <2>1, <2>2
<1>7. CASE UNCHANGED vars
  BY <1>1, <1>7 DEF vars, Others
<1>8. ASSUME NEW len \in Lengths, NEW id \in Ids, NEW ok \in BOOLEAN, NEW data \in BOOLEAN,
             rf2xx_trx_recv_packet(len, id, ok, data)
      PROVE  KeptOut' /\ Counting'
  BY <1>1, <1>2, <1>8, Received DEF PoolInv
<1> QED BY <1>3, <1>4, <1>5, <1>6, <1>7, <1>8 DEF Next

LEMMA RingKept == PoolInv /\ [Next]_vars => RingTypes' /\ Ring'
<1> SUFFICES ASSUME PoolInv, [Next]_vars PROVE RingTypes' /\ Ring'
  OBVIOUS
<1> USE DEF PoolInv
<1>1. CASE UNCHANGED <<pool, pending>>
  BY <1>1 DEF RingTypes, Ring, pool
<1>2. ASSUME NEW len \in Lengths, NEW id \in Ids, Accepted(len, id)
      PROVE  RingTypes' /\ Ring'
  <2> DEFINE f == [id |-> id, length |-> PayloadLength(len)]
             n == Len(pending)
  <2>1. f \in Frame /\ pending \in Seq(Frame) /\ n \in Nat
    BY DEF Frame, RingTypes
  <2>2. PICK s \in [1 .. n + 1 -> Nat] : RingHolds(s, pending, packet_buffer, header, tail)
    BY DEF Ring
  <2>3. /\ HasRoom(f) /\ WRITE_PACKET_POOL(Record(f))
        /\ pending' = Append(pending, f) /\ header' = header
    BY <1>2 DEF Accepted
  <2> HIDE DEF f, n
  <2>4. RecordSize(f) = 16 + f.length /\ f.length \in Nat /\ Len(Record(f)) = RecordSize(f)
    BY <2>1, Frames
  <2>5. s[n + 1] + RecordSize(f) < s[1] + Size
    <3>1. s[1] \in Nat /\ s[n + 1] \in Nat
      BY <2>1
    <3>2. s[1] <= s[n + 1] /\ s[n + 1] < s[1] + Size
          /\ header = s[1] % Size /\ tail = (s[n + 1] + 1) % Size
      <4>1. s[1] + (16 * ((n + 1) - 1)) <= s[n + 1]
        BY <2>1, <2>2 DEF RingHolds, n
      <4>2. s[1] <= s[n + 1]
        BY <2>1, <3>1, <4>1, Apart
      <4> QED BY <2>2, <4>2 DEF RingHolds, n
    <3>3. CHECK_POOL = Size - 1 - (s[n + 1] - s[1])
      BY <3>1, <3>2, RoomOf
    <3>4. f.length + 16 < CHECK_POOL
      BY <2>3 DEF HasRoom
    <3>5. f.length + 16 < Size - 1 - (s[n + 1] - s[1])
      BY <3>3, <3>4
    <3> DEFINE a == s[1]
               b == s[n + 1]
    <3>6. a \in Nat /\ b \in Nat /\ f.length + 16 < Size - 1 - (b - a)
      BY <3>1, <3>5
    <3> HIDE DEF a, b
    <3>7. b + RecordSize(f) < a + Size
      BY <2>4, <3>6, Sizes
    <3> QED BY <3>7 DEF a, b
  <2>6. packet_buffer' = WrittenAt(tail, f, packet_buffer)
        /\ tail' = (tail + RecordSize(f)) % Size
    BY <2>3, <2>4 DEF WRITE_PACKET_POOL, WrittenAt
  <2>7. \E r \in [1 .. Len(Append(pending, f)) + 1 -> Nat] :
          RingHolds(r, Append(pending, f), packet_buffer', header,
                    (tail + RecordSize(f)) % Size)
    BY <2>1, <2>2, <2>5, <2>6, RingGrows DEF RingTypes, n
  <2>8. Ring'
    BY <2>3, <2>6, <2>7 DEF Ring
  <2>9. RingTypes'
    BY <2>1, <2>3, <2>6 DEF RingTypes, WrittenAt
  <2> QED BY <2>8, <2>9
<1>3. CASE mac_parze_packet
  <2>1. /\ pending # <<>> /\ pending' = Tail(pending) /\ pending \in Seq(Frame)
        /\ packet_buffer' = packet_buffer /\ tail' = tail
        /\ out' = READ_PACKET_POOL(header) /\ header' = (header + Len(out')) % Size
    BY <1>3 DEF mac_parze_packet, Counting, RingTypes
  <2>2. PICK s \in [1 .. Len(pending) + 1 -> Nat] :
          RingHolds(s, pending, packet_buffer, header, tail)
    BY DEF Ring
  <2>3. Head(pending) \in Frame
    BY <2>1
  <2>4. out' = Record(Head(pending))
    BY <2>1, <2>2, RingShrinks
  <2>5. header' = (header + RecordSize(Head(pending))) % Size
    BY <2>1, <2>3, <2>4, Frames
  <2>6. \E r \in [1 .. Len(Tail(pending)) + 1 -> Nat] :
          RingHolds(r, Tail(pending), packet_buffer,
                    (header + RecordSize(Head(pending))) % Size, tail)
    BY <2>1, <2>2, RingShrinks
  <2>7. Ring'
    BY <2>1, <2>5, <2>6 DEF Ring
  <2>8. RingTypes'
    BY <2>1 DEF RingTypes
  <2> QED BY <2>7, <2>8
<1>4. CASE rf2xx_protoc_init
  <2>1. [i \in 1 .. 1 |-> Size - 1] \in [1 .. Len(<<>>) + 1 -> Nat]
    BY Sizes
  <2>2. RingHolds([i \in 1 .. 1 |-> Size - 1], <<>>, packet_buffer, Size - 1, 0)
    BY RingEmpty
  <2>3. Ring'
    BY <1>4, <2>1, <2>2 DEF rf2xx_protoc_init, Ring
  <2>4. RingTypes'
    BY <1>4 DEF rf2xx_protoc_init, RingTypes
  <2> QED BY <2>3, <2>4
<1>5. CASE Load \/ Store
  BY <1>1, <1>5 DEF Load, Store
<1>6. CASE UNCHANGED Others \/ UNCHANGED vars
  BY <1>1, <1>6 DEF vars, Others
<1>7. ASSUME NEW len \in Lengths, NEW id \in Ids, NEW ok \in BOOLEAN, NEW data \in BOOLEAN,
             rf2xx_trx_recv_packet(len, id, ok, data)
      PROVE  RingTypes' /\ Ring'
  BY <1>2, <1>6, <1>7, Received
<1> QED BY <1>3, <1>4, <1>5, <1>6, <1>7 DEF Next

LEMMA PoolInvariant == Spec => []PoolInv
<1>1. PoolInv /\ [Next]_vars => PoolInv'
  BY CountKept, RingKept, BufferKept DEF PoolInv
<1> QED BY <1>1, PoolInit, PTL DEF Spec

\* The count is that of the records, and one more while a record is parsed.
LEMMA TypeKept == PoolInv /\ PoolInv' /\ TypeOK /\ [Next]_vars => TypeOK'
<1> SUFFICES ASSUME PoolInv, PoolInv', TypeOK, [Next]_vars PROVE TypeOK'
  OBVIOUS
<1>1. tail' \in 0 .. Size - 1 /\ header' \in 0 .. Size - 1
      /\ Len(pending') <= Size \div (Before + After)
  <2>1. PICK s \in [1 .. Len(pending') + 1 -> Nat] :
          RingHolds(s, pending', packet_buffer', header', tail')
    BY DEF PoolInv, Ring
  <2>2. pending' \in Seq(Frame)
    BY DEF PoolInv, RingTypes
  <2> QED BY <2>1, <2>2, RingCount
<1>2. DOMAIN packet_buffer' = 0 .. Size - 1 /\ pc' \in {"main", "load", "store"}
      /\ Len(pending') \in Nat
  BY DEF PoolInv, RingTypes, Counting
<1>3. packet_received' \in Nat /\ loaded' \in {0, packet_received'}
  BY <1>2 DEF PoolInv, Counting
<1>4. packet_received' <= Size \div (Before + After)
  <2>1. CASE pc' = "main"
    BY <1>1, <2>1 DEF PoolInv, Counting
  <2>2. CASE pc' # "main"
    <3>1. packet_received' = packet_received
      BY <2>2, Received
         DEF Next, vars, Others, mac_parze_packet, Load, Store, rf2xx_protoc_init, Accepted,
             PoolInv, KeptOut, Counting
    <3> QED BY <3>1 DEF TypeOK
  <2> QED BY <2>1, <2>2
<1>5. Size \div (Before + After) \in Nat
  BY Sizes
<1>6. packet_received' \in 0 .. Size \div (Before + After)
      /\ loaded' \in 0 .. Size \div (Before + After)
  BY <1>3, <1>4, <1>5
<1>7. masked' \in BOOLEAN
  BY Received
     DEF TypeOK, PoolInv, Next, vars, Others, mac_parze_packet, Load, Store,
         rf2xx_protoc_init, Accepted, ENTER_CRITICAL_REGION
<1> QED BY <1>1, <1>2, <1>6, <1>7 DEF TypeOK, PoolInv, Buffered

\* tail and header stay inside the ring and no more records are counted than fit.
THEOREM PoolTypeCorrect == Spec => []TypeOK
<1>1. Init => TypeOK
  <2> SUFFICES ASSUME Init PROVE TypeOK
    OBVIOUS
  <2>1. 0 \in 0 .. Size - 1 /\ Size - 1 \in 0 .. Size - 1
        /\ 0 \in 0 .. Size \div (Before + After)
    BY Sizes
  <2> QED BY <2>1 DEF Init, TypeOK
<1> QED BY <1>1, TypeKept, PoolInvariant, PTL DEF Spec

-------------------------------------------------------------------------------
(* The refinement.                                                           *)

LEMMA FifoStep == PoolInv /\ [Next]_vars => [Fifo!Next]_(Fifo!fvars)
<1> SUFFICES ASSUME PoolInv, [Next]_vars PROVE [Fifo!Next]_(Fifo!fvars)
  OBVIOUS
<1> USE DEF PoolInv
<1>1. CASE UNCHANGED <<pending, out>>
  <2>1. FrameOf(out)' = FrameOf(out)
    BY <1>1 DEF FrameOf
  <2> QED BY <1>1, <2>1 DEF Fifo!fvars
<1>2. ASSUME NEW len \in Lengths, NEW id \in Ids, Accepted(len, id)
      PROVE  Fifo!Next
  <2> DEFINE f == [id |-> id, length |-> PayloadLength(len)]
  <2>1. f \in Frame
    BY DEF Frame
  <2>2. pending' = Append(pending, f) /\ out' = out
    BY <1>2 DEF Accepted
  <2>3. FrameOf(out)' = FrameOf(out)
    BY <2>2 DEF FrameOf
  <2> HIDE DEF f
  <2> QED BY <2>1, <2>2, <2>3 DEF Fifo!Next, Fifo!Receive
<1>3. CASE mac_parze_packet
  <2>1. /\ pending # <<>> /\ pending' = Tail(pending) /\ pending \in Seq(Frame)
        /\ out' = READ_PACKET_POOL(header)
    BY <1>3 DEF mac_parze_packet, Counting, RingTypes
  <2>2. PICK s \in [1 .. Len(pending) + 1 -> Nat] :
          RingHolds(s, pending, packet_buffer, header, tail)
    BY DEF Ring
  <2> DEFINE f == Head(pending)
  <2>3. f \in Frame
    BY <2>1
  <2>4. out' = Record(f)
    BY <2>1, <2>2, RingShrinks
  <2> HIDE DEF f
  <2>5. Record(f)[1] = <<f, 1>> /\ Record(f) # <<>>
    <3>1. RecordSize(f) \in Nat /\ RecordSize(f) >= 16 /\ Len(Record(f)) = RecordSize(f)
          /\ \A k \in 1 .. RecordSize(f) : Record(f)[k] = <<f, k>>
      BY <2>3, Frames, SMTT(30)
    <3> QED BY <3>1
  <2>6. FrameOf(out)' = f
    BY <2>4, <2>5 DEF FrameOf
  <2> QED BY <2>1, <2>6 DEF Fifo!Next, Fifo!Parse, f
<1>4. CASE rf2xx_protoc_init
  <2>1. pending' = <<>> /\ out' = out
    BY <1>4 DEF rf2xx_protoc_init
  <2>2. FrameOf(out)' = FrameOf(out)
    BY <2>1 DEF FrameOf
  <2> QED BY <2>1, <2>2 DEF Fifo!Next, Fifo!Restart
<1>5. CASE Load \/ Store
  BY <1>1, <1>5 DEF Load, Store
<1>6. CASE UNCHANGED Others \/ UNCHANGED vars
  BY <1>1, <1>6 DEF vars, Others
<1>7. ASSUME NEW len \in Lengths, NEW id \in Ids, NEW ok \in BOOLEAN, NEW data \in BOOLEAN,
             rf2xx_trx_recv_packet(len, id, ok, data)
      PROVE  [Fifo!Next]_(Fifo!fvars)
  BY <1>2, <1>6, <1>7, Received
<1> QED BY <1>3, <1>4, <1>5, <1>6, <1>7 DEF Next

\* Frames are parsed whole, each once, in the order in which they were accepted, until the
\* radio is initialised again: the pool of rf2xx_recv.c implements FrameFifo.
THEOREM FramesComeOutInOrder == Spec => FramesInOrder
<1>1. Init => Fifo!Init
  BY DEF Init, Fifo!Init, FrameOf
<1> QED BY <1>1, FifoStep, PoolInvariant, PTL DEF Spec, FramesInOrder, Fifo!Spec

-------------------------------------------------------------------------------
(* The count, the room and the ring.  Both properties follow the records   *)
(* one after the other, as far as there are any: the induction is over     *)
(* their number.                                                           *)

LEMMA SetInduction ==
  ASSUME NEW S, 0 \in S, \A n \in Nat : n \in S => n + 1 \in S
  PROVE  Nat \subseteq S
<1> DEFINE T == Nat \ S
           R == OpToRel(<, Nat)
<1>1. IsWellFoundedOn(R, Nat)
  BY NatLessThanWellFounded, Zenon
<1>2. SUFFICES ASSUME T # {} PROVE FALSE
  OBVIOUS
<1>3. T \subseteq Nat
  OBVIOUS
<1> HIDE DEF T, R
<1>4. PICK x \in T : \A y \in T : ~(<<y, x>> \in R)
  BY <1>1, <1>2, <1>3, WFMin
<1>5. \A y \in T : ~(y < x)
  BY <1>3, <1>4 DEF R, OpToRel
<1>6. x \in Nat /\ x \notin S /\ x # 0
  BY <1>3 DEF T
<1>7. x - 1 \in Nat /\ x - 1 \notin S
  BY <1>6
<1> QED BY <1>5, <1>6, <1>7 DEF T

\* Every record of the ring tells its size to who reads from the byte before it.
LEMMA RecordAt ==
  ASSUME NEW queue \in Seq(Frame), NEW s \in [1 .. Len(queue) + 1 -> Nat],
         NEW h, NEW t, RingHolds(s, queue, packet_buffer, h, t),
         NEW i \in 1 .. Len(queue)
  PROVE  /\ SizeAt(s[i] % Size) = RecordSize(queue[i])
         /\ RecordSize(queue[i]) \in 0 .. Size
<1> DEFINE n == Len(queue)
           f == queue[i]
           a == s[i]
           b == s[i + 1]
           c == s[n + 1]
           size == RecordSize(f)
<1>1. /\ n \in Nat /\ f \in Frame
      /\ a \in Nat /\ b \in Nat /\ c \in Nat /\ s[1] \in Nat
      /\ i \in 1 .. n + 1 /\ i + 1 \in 1 .. n + 1 /\ 1 \in 1 .. n + 1 /\ n + 1 \in 1 .. n + 1
  OBVIOUS
<1>2. size = 16 + f.length /\ f.length \in Nat
  BY <1>1, Frames
<1>3. b = a + size /\ c < s[1] + Size
  BY DEF RingHolds
<1>4. b <= c /\ s[1] <= a
  <2>1. \A j, k \in 1 .. n + 1 : j <= k => s[j] + (16 * (k - j)) <= s[k]
    BY DEF RingHolds
  <2>2. i + 1 <= n + 1 /\ 1 <= i
    BY <1>1
  <2>3. s[i + 1] + (16 * ((n + 1) - (i + 1))) <= s[n + 1]
    BY <1>1, <2>1, <2>2
  <2>4. s[1] + (16 * (i - 1)) <= s[i]
    BY <1>1, <2>1, <2>2
  <2>5. (n + 1) - (i + 1) \in Nat /\ i - 1 \in Nat
    BY <1>1
  <2>6. b <= c
    BY <1>1, <2>3, <2>5, Apart
  <2>7. s[1] <= a
    BY <1>1, <2>4, <2>5, Apart
  <2> QED BY <2>6, <2>7
<1>5. \A k \in 1 .. size : packet_buffer[(a + k) % Size] = <<f, k>>
  BY DEF RingHolds
<1> DEFINE first == s[1]
<1>6. size \in 0 .. Size /\ 14 \in 1 .. size /\ 14 \in 0 .. Size
  <2>1. /\ first \in Nat /\ c < first + Size /\ first <= a
        /\ a \in Nat /\ c \in Nat /\ b = a + size /\ b <= c
    BY <1>1, <1>3, <1>4
  <2>2. size \in Nat /\ size >= 16
    <3> HIDE DEF size
    <3> QED BY <1>2
  <2> HIDE DEF n, f, a, b, c, size, first
  <2>3. size < Size
    BY <2>1, <2>2, Sizes
  <2> QED BY <2>2, <2>3, Sizes
<1> HIDE DEF n, f, a, b, c, size, first
<1>7. ((a % Size) + 14) % Size = (a + 14) % Size
  BY <1>1, <1>6, Step
<1>8. packet_buffer[((a % Size) + 14) % Size] = <<f, 14>>
  BY <1>5, <1>6, <1>7
<1>9. LengthIn(<<f, 14>>) = f.length
  BY Sizes DEF LengthIn
<1>10. SizeAt(a % Size) = 14 + f.length + 2
  BY <1>8, <1>9, Sizes DEF SizeAt
<1>11. SizeAt(a % Size) = size
  BY <1>2, <1>10
<1> QED BY <1>6, <1>11 DEF a, f, size

\* Start[n] is where the n-th record of the ring ends.
LEMMA StartIs ==
  ASSUME pending \in Seq(Frame), Waiting = Len(pending),
         NEW s \in [1 .. Len(pending) + 1 -> Nat],
         RingHolds(s, pending, packet_buffer, header, tail)
  PROVE  Start[Len(pending)] = s[Len(pending) + 1] % Size
<1> DEFINE m == Len(pending)
           Next1(h) == (h + SizeAt(h)) % Size
           g == [n \in 0 .. m |-> s[n + 1] % Size]
<1>1. m \in Nat /\ header = s[1] % Size
  BY DEF RingHolds
<1>0. \A n \in 1 .. m : s[n] \in Nat /\ s[n + 1] = s[n] + RecordSize(pending[n])
  <2>1. \A n \in 1 .. m : s[n + 1] = s[n] + RecordSize(pending[n])
    BY DEF RingHolds
  <2>2. \A n \in 1 .. m : s[n] \in Nat
    OBVIOUS
  <2> QED BY <2>1, <2>2
<1>2. ASSUME NEW n \in 1 .. m PROVE Next1(s[n] % Size) = s[n + 1] % Size
  <2>1. SizeAt(s[n] % Size) = RecordSize(pending[n]) /\ RecordSize(pending[n]) \in 0 .. Size
    BY RecordAt
  <2>2. s[n] \in Nat /\ s[n + 1] = s[n] + RecordSize(pending[n])
    BY <1>0
  <2>3. ((s[n] % Size) + RecordSize(pending[n])) % Size = (s[n] + RecordSize(pending[n])) % Size
    BY <2>1, <2>2, Step
  <2> QED BY <2>1, <2>2, <2>3
<1> HIDE DEF Next1
<1>3. g = [n \in 0 .. m |-> IF n = 0 THEN header ELSE Next1(g[n - 1])]
  <2>1. ASSUME NEW n \in 0 .. m PROVE g[n] = IF n = 0 THEN header ELSE Next1(g[n - 1])
    <3>1. CASE n = 0
      BY <1>1, <3>1
    <3>2. CASE n # 0
      <4>1. n \in 1 .. m /\ n - 1 \in 0 .. m /\ (n - 1) + 1 = n
        BY <1>1, <3>2
      <4>2. g[n - 1] = s[n] % Size
        BY <4>1
      <4> QED BY <1>2, <3>2, <4>1, <4>2
    <3> QED BY <3>1, <3>2
  <2> QED BY <2>1
<1> HIDE DEF g
<1>4. Start = [n \in 0 .. m |-> IF n = 0 THEN header ELSE Next1(Start[n - 1])]
  BY <1>3 DEF Start, Next1
<1> DEFINE S == {n \in Nat : n \in 0 .. m => Start[n] = g[n]}
<1>5. 0 \in S
  BY <1>1, <1>3, <1>4
<1>6. ASSUME NEW n \in Nat, n \in S PROVE n + 1 \in S
  <2>1. SUFFICES ASSUME n + 1 \in 0 .. m PROVE Start[n + 1] = g[n + 1]
    OBVIOUS
  <2>2. n \in 0 .. m /\ n + 1 # 0 /\ (n + 1) - 1 = n
    BY <1>1, <2>1
  <2>3. Start[n + 1] = Next1(Start[n]) /\ g[n + 1] = Next1(g[n])
    BY <1>3, <1>4, <2>1, <2>2
  <2> QED BY <1>6, <2>2, <2>3
<1>7. m \in S
  <2> HIDE DEF S
  <2> QED BY <1>1, <1>5, <1>6, SetInduction
<1>8. Start[m] = g[m]
  BY <1>1, <1>7
<1>9. g[m] = s[m + 1] % Size
  BY <1>1 DEF g
<1> QED BY <1>8, <1>9

\* Used[n] is what n records take.
LEMMA UsedIs ==
  ASSUME pending \in Seq(Frame), NEW s \in [1 .. Len(pending) + 1 -> Nat],
         RingHolds(s, pending, packet_buffer, header, tail)
  PROVE  Used[Len(pending)] = s[Len(pending) + 1] - s[1]
<1> DEFINE m == Len(pending)
           g == [n \in 0 .. m |-> s[n + 1] - s[1]]
<1>1. m \in Nat /\ \A n \in 1 .. m : s[n + 1] = s[n] + RecordSize(pending[n])
  BY DEF RingHolds
<1>2. \A n \in 1 .. m : RecordSize(pending[n]) \in Nat
  BY Frames
<1>3. g = [n \in 0 .. m |-> IF n = 0 THEN 0 ELSE g[n - 1] + RecordSize(pending[n])]
  <2>1. ASSUME NEW n \in 0 .. m
        PROVE  g[n] = IF n = 0 THEN 0 ELSE g[n - 1] + RecordSize(pending[n])
    <3>1. CASE n = 0
      BY <1>1, <3>1
    <3>2. CASE n # 0
      <4>1. n \in 1 .. m /\ n - 1 \in 0 .. m /\ (n - 1) + 1 = n
        BY <1>1, <3>2
      <4>2. g[n - 1] = s[n] - s[1] /\ g[n] = s[n + 1] - s[1]
        BY <4>1
      <4>3. s[n + 1] = s[n] + RecordSize(pending[n]) /\ s[n] \in Nat /\ s[1] \in Nat
            /\ RecordSize(pending[n]) \in Nat
        BY <1>1, <1>2, <4>1, SMTT(30)
      <4> QED BY <3>2, <4>2, <4>3
    <3> QED BY <3>1, <3>2
  <2> QED BY <2>1
<1> HIDE DEF g
<1>4. Used = [n \in 0 .. m |-> IF n = 0 THEN 0 ELSE Used[n - 1] + RecordSize(pending[n])]
  BY <1>3 DEF Used
<1> DEFINE S == {n \in Nat : n \in 0 .. m => Used[n] = g[n]}
<1>5. 0 \in S
  BY <1>1, <1>3, <1>4
<1>6. ASSUME NEW n \in Nat, n \in S PROVE n + 1 \in S
  <2>1. SUFFICES ASSUME n + 1 \in 0 .. m PROVE Used[n + 1] = g[n + 1]
    OBVIOUS
  <2>2. n \in 0 .. m /\ n + 1 # 0 /\ (n + 1) - 1 = n
    BY <1>1, <2>1
  <2>3. /\ Used[n + 1] = Used[n] + RecordSize(pending[n + 1])
        /\ g[n + 1] = g[n] + RecordSize(pending[n + 1])
    BY <1>3, <1>4, <2>1, <2>2
  <2> QED BY <1>6, <2>2, <2>3
<1>7. m \in S
  <2> HIDE DEF S
  <2> QED BY <1>1, <1>5, <1>6, SetInduction
<1>8. Used[m] = g[m]
  BY <1>1, <1>7
<1>9. g[m] = s[m + 1] - s[1]
  BY <1>1 DEF g
<1> QED BY <1>8, <1>9

LEMMA CountAndRoom == PoolInv => CountMatchesTheRing /\ RoomIsWhatIsLeft
<1> SUFFICES ASSUME PoolInv PROVE CountMatchesTheRing /\ RoomIsWhatIsLeft
  OBVIOUS
<1> DEFINE m == Len(pending)
<1>1. pending \in Seq(Frame) /\ m \in Nat
  BY DEF PoolInv, RingTypes
<1>2. Waiting = m
  BY <1>1 DEF PoolInv, Counting, Waiting
<1>3. PICK s \in [1 .. m + 1 -> Nat] : RingHolds(s, pending, packet_buffer, header, tail)
  BY DEF PoolInv, Ring
<1> DEFINE a == s[1]
           b == s[m + 1]
<1>4. /\ a \in Nat /\ b \in Nat /\ b < a + Size /\ header = a % Size /\ tail = (b + 1) % Size
      /\ a + (16 * ((m + 1) - 1)) <= b
  BY <1>1, <1>3 DEF RingHolds
<1>5. Start[m] = b % Size
  BY <1>1, <1>2, <1>3, StartIs
<1>6. Used[m] = b - a
  BY <1>1, <1>3, UsedIs
<1> HIDE DEF m, a, b
<1>7. a <= b
  BY <1>1, <1>4, Apart
<1>8. CHECK_POOL = Size - 1 - (b - a)
  BY <1>4, <1>7, RoomOf
<1>9. ((b % Size) + 1) % Size = (b + 1) % Size
  <2>1. 1 \in 0 .. Size
    BY Sizes
  <2> QED BY <1>4, <2>1, Step
<1> QED BY <1>2, <1>4, <1>5, <1>6, <1>8, <1>9 DEF CountMatchesTheRing, RoomIsWhatIsLeft, m

\* In every state, as many records on from header as are waiting lies tail: the count that
\* the handler and the main loop both change (rf2xx_recv.c:59, :130) never parts from the
\* ring.
THEOREM CountIsOfTheRing == Spec => []CountMatchesTheRing
BY CountAndRoom, PoolInvariant, PTL

\* The room that decides whether a frame is taken (rf2xx_recv.c:118) is what the frames
\* waiting leave, however often the ring has turned.
THEOREM RoomDoesNotLeak == Spec => []RoomIsWhatIsLeft
BY CountAndRoom, PoolInvariant, PTL
===============================================================================
