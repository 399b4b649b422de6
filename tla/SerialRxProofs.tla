--------------------------- MODULE SerialRxProofs ---------------------------
(***************************************************************************)
(* What TLC checks of SerialRx for a buffer of eight bytes, proved for     *)
(* every size, every pair of bounds and every overshoot of the modem that  *)
(* leave the margin: types, and that the receiver implements the queue.    *)
(***************************************************************************)
EXTENDS SerialRx, SequenceTheorems, TLAPS

-----------------------------------------------------------------------------
(* The buffer: what the operators of CBuf do, for every size               *)

\* The remainder over the range an index or a byte's number ever reaches.
LEMMA ModLemma ==
  ASSUME NEW m \in Nat \ {0}, NEW x \in -m .. 2 * m - 1
  PROVE  /\ x < 0 => x % m = x + m
         /\ 0 <= x /\ x < m => x % m = x
         /\ m <= x => x % m = x - m
         /\ x % m \in 0 .. m - 1
  OBVIOUS

LEMMA SizeNat == Size \in Nat /\ Size >= 4
  BY SizeAssumption

\* xbee_cbuf_used and xbee_cbuf_free add up to the capacity, which is one less
\* than the size, and forget a tail that is a whole size ahead of the head.
LEMMA UsedAny ==
  ASSUME NEW V, NEW c \in Cbuf(V)
  PROVE  /\ c.tail < c.head => Used(c) = c.tail - c.head + Size
         /\ c.head <= c.tail /\ c.tail - c.head < Size => Used(c) = c.tail - c.head
         /\ c.tail - c.head = Size => Used(c) = 0
         /\ Used(c) \in 0 .. Size - 1
         /\ Free(c) = Size - 1 - Used(c)
<1>1. /\ c.head \in 0 .. Size /\ c.tail \in 0 .. Size
  BY SizeNat DEF Cbuf, Index
<1> DEFINE u == c.tail - c.head
           f == c.head - c.tail - 1
<1>2. /\ u \in -Size .. 2 * Size - 1 /\ f + Size \in -Size .. 2 * Size - 1
      /\ Size \in Nat \ {0}
  BY <1>1, SizeNat
<1>3. /\ u < 0 => u % Size = u + Size
      /\ 0 <= u /\ u < Size => u % Size = u
      /\ Size <= u => u % Size = u - Size
  BY <1>2, ModLemma
<1>4. f % Size = Size - 1 - (u % Size)
  <2>1. CASE f = -Size - 1
    <3>1. f % Size = Size - 1
      BY <2>1, SizeAssumption
    <3> QED
      BY <2>1, <3>1, <1>1, <1>3, SizeNat
  <2>2. CASE f # -Size - 1
    <3>1. f \in -Size .. 2 * Size - 1
      BY <2>2, <1>1, SizeNat
    <3>2. /\ f < 0 => f % Size = f + Size
          /\ 0 <= f /\ f < Size => f % Size = f
      BY <1>2, <3>1, ModLemma
    <3> QED
      BY <2>2, <3>2, <1>1, <1>3, SizeNat
  <2> QED
    BY <2>1, <2>2
<1>5. Used(c) = u % Size /\ Free(c) = f % Size
  BY DEF Used, Free
<1> QED
  BY <1>1, <1>3, <1>4, <1>5, SizeNat

\* Head h and tail t leave u bytes in the buffer: the relation by itself, for
\* the arithmetic of the indices.
Fill(h, t, u) ==
  /\ h \in 0 .. Size /\ t \in 0 .. Size /\ u \in 0 .. Size - 1
  /\ t < h => u = t - h + Size
  /\ h <= t /\ t - h < Size => u = t - h
  /\ t - h = Size => u = 0

LEMMA FillUsed ==
  ASSUME NEW V, NEW c \in Cbuf(V)
  PROVE  Fill(c.head, c.tail, Used(c))
<1>1. c.head \in 0 .. Size /\ c.tail \in 0 .. Size
  BY DEF Cbuf, Index
<1> QED
  BY <1>1, UsedAny DEF Fill

\* n bytes taken at the head, n bytes put at the tail.
LEMMA FillTake ==
  ASSUME NEW h, NEW t, NEW u, Fill(h, t, u), NEW n \in 0 .. u,
         NEW g, NEW v, Fill(g, t, v), g = h + n \/ g = h + n - Size
  PROVE  v = u - n
  BY SizeNat DEF Fill

\* The same while the tail is a proper index.
LEMMA UsedFree ==
  ASSUME NEW V, NEW c \in Cbuf(V), c.tail < Size
  PROVE  /\ c.head <= c.tail => Used(c) = c.tail - c.head
         /\ c.tail < c.head => Used(c) = c.tail - c.head + Size
         /\ Used(c) \in 0 .. Size - 1
         /\ Free(c) = Size - 1 - Used(c)
<1>1. /\ c.head \in 0 .. Size /\ c.tail \in 0 .. Size - 1
  BY SizeNat DEF Cbuf, Index
<1>2. c.tail - c.head < Size
  BY <1>1, SizeNat
<1> QED
  BY <1>2, UsedAny

\* Where the j-th of the bytes in the buffer is.
Place(c, j) == (c.head + j - 1) % Size

LEMMA PlaceAny ==
  ASSUME NEW V, NEW c \in Cbuf(V), NEW j \in 1 .. Used(c) + 1
  PROVE  /\ c.head + j - 1 < Size => Place(c, j) = c.head + j - 1
         /\ Size <= c.head + j - 1 => Place(c, j) = c.head + j - 1 - Size
         /\ Place(c, j) \in 0 .. Size - 1
<1>1. c.head \in 0 .. Size
  BY SizeNat DEF Cbuf, Index
<1>2. Used(c) \in 0 .. Size - 1
  BY UsedAny
<1> DEFINE x == c.head + j - 1
<1>3. x \in -Size .. 2 * Size - 1 /\ 0 <= x /\ Size \in Nat \ {0}
  BY <1>1, <1>2, SizeNat
<1>4. /\ x < Size => x % Size = x
      /\ Size <= x => x % Size = x - Size
  BY <1>3, ModLemma
<1>5. Place(c, j) = x % Size
  BY DEF Place
<1> QED
  BY <1>1, <1>2, <1>3, <1>4, <1>5, SizeNat

\* The tail, as long as it is a proper index, is behind the places of the bytes.
LEMMA PlaceLemma ==
  ASSUME NEW V, NEW c \in Cbuf(V), c.tail < Size, NEW j \in 1 .. Used(c) + 1
  PROVE  /\ Place(c, j) \in 0 .. Size - 1
         /\ Place(c, j) = c.tail <=> j = Used(c) + 1
<1>1. c.head \in 0 .. Size /\ c.tail \in 0 .. Size - 1
  BY SizeNat DEF Cbuf, Index
<1>2. /\ c.head + j - 1 < Size => Place(c, j) = c.head + j - 1
      /\ Size <= c.head + j - 1 => Place(c, j) = c.head + j - 1 - Size
      /\ Place(c, j) \in 0 .. Size - 1
  BY PlaceAny
<1>3. /\ c.head <= c.tail => Used(c) = c.tail - c.head
      /\ c.tail < c.head => Used(c) = c.tail - c.head + Size
      /\ Used(c) \in 0 .. Size - 1
  BY UsedFree
<1> QED
  BY <1>1, <1>2, <1>3, SizeNat

\* xbee_cbuf_putch into a buffer with room: one more byte, in the place behind
\* the others, which stay where they are.
LEMMA PutchLemma ==
  ASSUME NEW V, NEW c \in Cbuf(V), c.tail < Size, Free(c) > 0, NEW ch \in V
  PROVE  LET d == Putch(c, ch) IN
         /\ d \in Cbuf(V) /\ d.tail < Size /\ d.head = c.head
         /\ Used(d) = Used(c) + 1
         /\ \A j \in 1 .. Used(c) : d.data[Place(d, j)] = c.data[Place(c, j)]
         /\ d.data[Place(d, Used(d))] = ch
<1> DEFINE t == (c.tail + 1) % Size
           s == [c EXCEPT !.data[c.tail] = ch]
           d == [s EXCEPT !.tail = t]
<1>1. /\ c.head \in 0 .. Size /\ c.tail \in 0 .. Size - 1
      /\ c.data \in [0 .. Size -> V]
  BY SizeNat DEF Cbuf, Index
<1>2. /\ Used(c) \in 0 .. Size - 2
      /\ c.head <= c.tail => Used(c) = c.tail - c.head
      /\ c.tail < c.head => Used(c) = c.tail - c.head + Size
  BY UsedFree, SizeNat
<1>3. /\ c.tail + 1 = Size => t = 0
      /\ c.tail + 1 # Size => t = c.tail + 1
      /\ t \in 0 .. Size - 1
  <2> DEFINE x == c.tail + 1
  <2>1. x \in -Size .. 2 * Size - 1 /\ Size \in Nat \ {0}
    BY <1>1, SizeNat
  <2>2. /\ 0 <= x /\ x < Size => x % Size = x
        /\ Size <= x => x % Size = x - Size
        /\ x % Size \in 0 .. Size - 1
    BY <2>1, ModLemma
  <2> QED
    BY <2>2, <1>1, SizeNat
<1>4. t # c.head
  BY SMTT(30), <1>1, <1>2, <1>3, SizeNat
<1>5. Putch(c, ch) = d
  BY <1>1, <1>4 DEF Putch
<1>6. /\ d.head = c.head /\ d.tail = t
      /\ d.data = [c.data EXCEPT ![c.tail] = ch]
      /\ d \in Cbuf(V) /\ d.tail < Size
  <2> DEFINE e == [c.data EXCEPT ![c.tail] = ch]
  <2>1. d = [head |-> c.head, tail |-> t, data |-> e]
    <3>1. s = [head |-> c.head, tail |-> c.tail, data |-> e]
      BY DEF Cbuf
    <3> HIDE DEF s, e
    <3> QED
      BY <3>1
  <2>2. e \in [0 .. Size -> V]
    BY <1>1
  <2>3. t \in 0 .. Size - 1
    BY <1>1, <1>3, SizeNat
  <2> HIDE DEF d, t, e
  <2>4. d.head = c.head /\ d.tail = t /\ d.data = e
    BY <2>1
  <2>5. d \in Cbuf(V)
    BY <1>1, <2>1, <2>2, <2>3, SizeNat DEF Cbuf, Index
  <2> QED
    BY <2>3, <2>4, <2>5, SizeNat DEF e
<1> HIDE DEF d
<1>7. Used(d) = Used(c) + 1
  <2>1. /\ d.head <= d.tail => Used(d) = d.tail - d.head
        /\ d.tail < d.head => Used(d) = d.tail - d.head + Size
    BY <1>6, UsedFree
  <2>2. d.head = c.head /\ d.tail = t
    BY <1>6
  <2> HIDE DEF t
  <2>3. /\ c.head <= t => Used(d) = t - c.head
        /\ t < c.head => Used(d) = t - c.head + Size
    BY <2>1, <2>2
  <2>4. CASE c.tail + 1 = Size
    BY <1>1, <1>2, <1>3, <1>4, <2>3, <2>4, SizeNat
  <2>5. CASE c.tail + 1 # Size /\ c.head <= c.tail
    BY <1>1, <1>2, <1>3, <1>4, <2>3, <2>5, SizeNat
  <2>6. CASE c.tail + 1 # Size /\ c.tail < c.head
    <3>1. t = c.tail + 1
      BY <2>6, <1>3
    <3>2. t < c.head
      BY <1>1, <1>4, <2>6, <3>1, SizeNat
    <3>3. Used(d) = t - c.head + Size
      BY <2>3, <3>2
    <3>4. Used(c) = c.tail - c.head + Size
      BY <1>2, <2>6
    <3> QED
      BY <1>1, <3>1, <3>3, <3>4, SizeNat
  <2> QED
    BY <1>1, <2>4, <2>5, <2>6, SizeNat
<1>8. \A j \in 1 .. Used(c) : d.data[Place(d, j)] = c.data[Place(c, j)]
  <2> TAKE j \in 1 .. Used(c)
  <2>1. j \in 1 .. Used(c) + 1 /\ j # Used(c) + 1
    BY <1>2
  <2>2. Place(c, j) # c.tail /\ Place(c, j) \in 0 .. Size
    BY <2>1, PlaceLemma, SizeNat
  <2>3. Place(d, j) = Place(c, j)
    BY <1>6 DEF Place
  <2> QED
    BY <1>1, <1>6, <2>2, <2>3
<1>9. d.data[Place(d, Used(d))] = ch
  <2>1. Used(c) + 1 \in 1 .. Used(c) + 1
    BY <1>2
  <2>2. Place(c, Used(c) + 1) = c.tail
    BY <2>1, PlaceLemma
  <2>3. Place(d, Used(d)) = c.tail
    BY <1>6, <1>7, <2>2 DEF Place
  <2>4. c.tail \in 0 .. Size
    BY <1>1, SizeNat
  <2> QED
    BY <1>1, <1>6, <2>3, <2>4
<1> QED
  BY <1>5, <1>6, <1>7, <1>8, <1>9

\* The head moved on over n of the bytes, round the end or to it: those that are
\* left keep their places.
LEMMA AdvanceLemma ==
  ASSUME NEW V, NEW c \in Cbuf(V), NEW d \in Cbuf(V),
         NEW n \in 0 .. Used(c),
         d.tail = c.tail, d.data = c.data,
         d.head = c.head + n \/ d.head = c.head + n - Size
  PROVE  /\ Used(d) = Used(c) - n
         /\ \A j \in 1 .. Used(d) : d.data[Place(d, j)] = c.data[Place(c, j + n)]
<1>1. /\ c.head \in 0 .. Size /\ c.tail \in 0 .. Size /\ d.head \in 0 .. Size
  BY SizeNat DEF Cbuf, Index
<1>2. /\ Used(c) \in 0 .. Size - 1
      /\ c.tail < c.head => Used(c) = c.tail - c.head + Size
      /\ c.head <= c.tail /\ c.tail - c.head < Size => Used(c) = c.tail - c.head
      /\ c.tail - c.head = Size => Used(c) = 0
  BY UsedAny
<1>3. Used(d) \in 0 .. Size - 1
  BY UsedAny
<1>4. Used(d) = Used(c) - n
  BY FillUsed, FillTake
<1>5. \A j \in 1 .. Used(d) : Place(d, j) = Place(c, j + n)
  <2> TAKE j \in 1 .. Used(d)
  <2>1. j \in 1 .. Used(d) + 1 /\ j + n \in 1 .. Used(c) + 1
    BY <1>2, <1>3, <1>4
  <2>2. /\ d.head + j - 1 < Size => Place(d, j) = d.head + j - 1
        /\ Size <= d.head + j - 1 => Place(d, j) = d.head + j - 1 - Size
        /\ Place(d, j) \in 0 .. Size - 1
    BY <2>1, PlaceAny
  <2>3. /\ c.head + (j + n) - 1 < Size => Place(c, j + n) = c.head + (j + n) - 1
        /\ Size <= c.head + (j + n) - 1 => Place(c, j + n) = c.head + (j + n) - 1 - Size
        /\ Place(c, j + n) \in 0 .. Size - 1
    BY <2>1, PlaceAny
  <2> QED
    BY <1>1, <1>2, <1>3, <2>1, <2>2, <2>3, SizeNat
<1> QED
  BY <1>4, <1>5

\* Counting on in two steps is counting on in one.
LEMMA CountOnMod ==
  ASSUME NEW N \in Nat, N > Size, NEW l \in 0 .. N - 1,
         NEW a \in 0 .. Size, NEW b \in 0 .. Size, a + b <= Size
  PROVE  /\ (l + a) % N \in 0 .. N - 1
         /\ (((l + a) % N) + b) % N = (l + (a + b)) % N
<1> DEFINE x == l + a
           y == x % N
           z == l + (a + b)
           w == y + b
<1>1. /\ N \in Nat \ {0} /\ N > Size /\ Size \in Nat
      /\ x \in -N .. 2 * N - 1 /\ 0 <= x
      /\ z \in -N .. 2 * N - 1 /\ 0 <= z
      /\ l \in Nat /\ l < N /\ a \in Nat /\ b \in Nat
  BY SizeNat
<1>2. /\ x < N => y = x
      /\ N <= x => y = x - N
      /\ y \in 0 .. N - 1
  BY <1>1, ModLemma
<1>3. /\ z < N => z % N = z
      /\ N <= z => z % N = z - N
  BY <1>1, ModLemma
<1> HIDE DEF y
<1>4. w \in -N .. 2 * N - 1 /\ 0 <= w
  BY <1>1, <1>2
<1>5. /\ w < N => w % N = w
      /\ N <= w => w % N = w - N
  BY <1>1, <1>4, ModLemma
<1>6. w % N = z % N
  <2>1. CASE x < N
    BY <2>1, <1>1, <1>2
  <2>2. CASE N <= x
    <3>1. y = x - N /\ w = z - N /\ N <= z /\ w < N
      BY <2>2, <1>1, <1>2
    <3> HIDE DEF w, z
    <3> QED
      BY <3>1, <1>3, <1>4, <1>5
  <2> QED
    BY <2>1, <2>2, <1>1
<1> QED
  BY <1>2, <1>6 DEF y

\* Counting on by nothing, and back by one.
LEMMA CountBackMod ==
  ASSUME NEW N \in Nat, N > Size, NEW l \in 0 .. N - 1, NEW k \in 0 .. Size - 1
  PROVE  /\ l % N = l
         /\ (((l + (k + 1)) % N) - 1) % N = (l + k) % N
<1> DEFINE x == l + k
           z == l + (k + 1)
           y == z % N
           w == y - 1
<1>1. /\ N \in Nat \ {0} /\ N > Size /\ Size \in Nat
      /\ x \in -N .. 2 * N - 1 /\ 0 <= x
      /\ z \in -N .. 2 * N - 1 /\ 0 <= z
      /\ l \in -N .. 2 * N - 1 /\ 0 <= l /\ l < N
  BY SizeNat
<1>2. /\ z < N => y = z
      /\ N <= z => y = z - N
      /\ y \in 0 .. N - 1
  BY <1>1, ModLemma
<1>3. /\ x < N => x % N = x
      /\ N <= x => x % N = x - N
      /\ l % N = l
  BY <1>1, ModLemma
<1> HIDE DEF y
<1>4. w \in -N .. 2 * N - 1
  BY <1>1, <1>2
<1>5. /\ w < 0 => w % N = w + N
      /\ 0 <= w /\ w < N => w % N = w
  BY <1>1, <1>4, ModLemma
<1>6. w % N = x % N
  BY <1>1, <1>2, <1>3, <1>5
<1> QED
  BY <1>3, <1>6 DEF y

-----------------------------------------------------------------------------
(* The inductive invariant.                                                  *)

\* The tail is a proper index, the head may be Size after xbee_cbuf_get; command
\* mode starts with a flush and gets bytes one at a time, which wraps the head.
IndexOK ==
  /\ rx.tail < Size
  /\ mode = "at" => rx.head < Size /\ pc \in {"idle", "check", "assert"}

\* What xbee_cbuf_get has still to copy is there, and by the second half it does
\* not reach beyond the end of the buffer.
Bounded ==
  /\ pc \in {"first", "rest"} => length <= Used(rx)
  /\ pc = "rest" => rx.head + length <= Size

\* The bytes in the buffer are those between the last delivered and the next.
Numbered ==
  /\ \A j \in 1 .. Used(rx) : rx.data[Place(rx, j)] = (last + j) % Numbers
  /\ next = (last + Used(rx) + 1) % Numbers

\* How much space is left: above the bound when RTS is about to be asserted, and
\* as much less as the modem may have sent since it was deasserted; otherwise the
\* modem may have used up its overshoot once before, between the comparison of
\* checkRxBufferLower and the pin.
FlowControl ==
  /\ pc = "assert" /\ rts => Free(rx) > UpperBound
  /\ pc = "assert" /\ ~rts => Free(rx) >= UpperBound - late
  /\ pc # "assert" /\ rts => Free(rx) >= UpperBound - Overshoot
  /\ pc # "assert" /\ ~rts => Free(rx) >= UpperBound - Overshoot - 1 - late

IInv == TypeOK /\ IndexOK /\ Bounded /\ Numbered /\ FlowControl

-----------------------------------------------------------------------------
(* Runs of numbered bytes                                                    *)

Number == 0 .. Numbers - 1

\* The k bytes sent after byte l.
Run(l, k) == [j \in 1 .. k |-> (l + j) % Numbers]

LEMMA NumbersNat == Numbers \in Nat /\ Numbers > Size
  BY MarginAssumption

\* Counting on in two steps is counting on in one.
LEMMA CountOn ==
  ASSUME NEW l \in Number, NEW a \in 0 .. Size, NEW b \in 0 .. Size, a + b <= Size
  PROVE  /\ (l + a) % Numbers \in Number
         /\ (((l + a) % Numbers) + b) % Numbers = (l + (a + b)) % Numbers
  BY NumbersNat, CountOnMod DEF Number

\* Counting on by nothing, and back by one.
LEMMA CountBack ==
  ASSUME NEW l \in Number, NEW k \in 0 .. Size - 1
  PROVE  /\ l % Numbers = l
         /\ (((l + (k + 1)) % Numbers) - 1) % Numbers = (l + k) % Numbers
  BY NumbersNat, CountBackMod DEF Number

LEMMA RunSeq ==
  ASSUME NEW l \in Number, NEW k \in 0 .. Size
  PROVE  /\ Run(l, k) \in Seq(Number)
         /\ Len(Run(l, k)) = k
         /\ \A j \in 1 .. k : Run(l, k)[j] = (l + j) % Numbers
<1>1. \A j \in 1 .. k : (l + j) % Numbers \in Number
  BY CountOn, SizeNat
<1> QED
  BY <1>1, SizeNat DEF Run

\* The first n of them gone.
LEMMA RunGet ==
  ASSUME NEW l \in Number, NEW k \in 0 .. Size, NEW n \in 0 .. k
  PROVE  Run((l + n) % Numbers, k - n) = SubSeq(Run(l, k), n + 1, k)
<1> DEFINE m == (l + n) % Numbers
           s == Run(m, k - n)
           t == SubSeq(Run(l, k), n + 1, k)
<1>1. m \in Number /\ k - n \in 0 .. Size /\ k \in Nat /\ n \in Nat /\ n <= k
  BY CountOn, SizeNat
<1>2. /\ s \in Seq(Number) /\ Len(s) = k - n
      /\ \A j \in 1 .. k - n : s[j] = (m + j) % Numbers
  BY <1>1, RunSeq
<1>3. /\ Run(l, k) \in Seq(Number) /\ Len(Run(l, k)) = k
      /\ \A j \in 1 .. k : Run(l, k)[j] = (l + j) % Numbers
  BY RunSeq
<1>4. /\ t \in Seq(Number)
      /\ Len(t) = k - n
      /\ \A j \in 1 .. k - n : t[j] = Run(l, k)[n + j]
  <2>1. \A i \in n + 1 .. k : Run(l, k)[i] \in Number
    BY <1>1, <1>3, ElementOfSeq
  <2>2. /\ t \in Seq(Number)
        /\ Len(t) = IF n + 1 <= k THEN k - (n + 1) + 1 ELSE 0
        /\ \A j \in 1 .. k - (n + 1) + 1 : t[j] = Run(l, k)[n + 1 + j - 1]
    BY <1>1, <2>1, SubSeqProperties
  <2> QED
    BY <2>2, <1>1
<1>5. \A j \in 1 .. k - n : s[j] = t[j]
  <2> TAKE j \in 1 .. k - n
  <2>1. n + j \in 1 .. k /\ n \in 0 .. Size /\ j \in 0 .. Size /\ n + j <= Size
    BY <1>1, SizeNat
  <2>2. (m + j) % Numbers = (l + (n + j)) % Numbers
    BY <2>1, CountOn
  <2> QED
    BY <2>1, <2>2, <1>2, <1>3, <1>4
<1> HIDE DEF s, t
<1>6. s = t
  BY <1>2, <1>4, <1>5, SeqEqual
<1> QED
  BY <1>6 DEF s, t

\* One more.
LEMMA RunPut ==
  ASSUME NEW l \in Number, NEW k \in 0 .. Size - 1
  PROVE  Run(l, k + 1)
           = Run(l, k) \o [j \in 1 .. 1 |-> (((l + (k + 1)) % Numbers) + j - 1) % Numbers]
<1> DEFINE m == (l + (k + 1)) % Numbers
           s == Run(l, k + 1)
           r == Run(l, k)
           e == [j \in 1 .. 1 |-> (m + j - 1) % Numbers]
           t == r \o e
<1>1. /\ m \in Number /\ k + 1 \in 0 .. Size /\ k \in 0 .. Size /\ k \in Nat
  BY CountOn, SizeNat
<1>2. /\ s \in Seq(Number) /\ Len(s) = k + 1
      /\ \A j \in 1 .. k + 1 : s[j] = (l + j) % Numbers
  BY <1>1, RunSeq
<1>3. /\ r \in Seq(Number) /\ Len(r) = k
      /\ \A j \in 1 .. k : r[j] = (l + j) % Numbers
  BY <1>1, RunSeq
<1>4. e \in Seq(Number) /\ Len(e) = 1 /\ e[1] = m
  <2>1. m % Numbers = m
    <3>1. 0 \in 0 .. Size - 1
      BY SizeNat
    <3> QED
      BY <1>1, <3>1, CountBack
  <2>2. \A j \in 1 .. 1 : j = 1 /\ m + j - 1 = m
    BY <1>1, NumbersNat DEF Number
  <2>3. e = [j \in 1 .. 1 |-> m]
    BY <2>1, <2>2
  <2> HIDE DEF e, m
  <2> QED
    BY <1>1, <2>3
<1> HIDE DEF s, r, e
<1>5. /\ t \in Seq(Number) /\ Len(t) = k + 1
      /\ \A i \in 1 .. k + 1 : t[i] = IF i <= k THEN r[i] ELSE e[i - k]
  <2>1. /\ r \o e \in Seq(Number) /\ Len(r \o e) = Len(r) + Len(e)
        /\ \A i \in 1 .. Len(r) + Len(e) :
             (r \o e)[i] = IF i <= Len(r) THEN r[i] ELSE e[i - Len(r)]
    BY <1>3, <1>4, ConcatProperties
  <2> QED
    BY <2>1, <1>3, <1>4
<1>6. \A j \in 1 .. k + 1 : s[j] = t[j]
  <2> TAKE j \in 1 .. k + 1
  <2>1. CASE j \in 1 .. k
    BY <2>1, <1>1, <1>2, <1>3, <1>5
  <2>2. CASE j = k + 1
    <3>1. k + 1 \in 1 .. k + 1 /\ ~(k + 1 <= k) /\ k + 1 - k = 1
      BY <1>1
    <3> QED
      BY <2>2, <3>1, <1>2, <1>4, <1>5
  <2> HIDE DEF t, m
  <2> QED
    BY <2>1, <2>2, <1>1
<1> HIDE DEF t
<1>7. s = t
  BY <1>2, <1>5, <1>6, SeqEqual
<1> QED
  BY <1>7 DEF s, t, r, e

-----------------------------------------------------------------------------
(* What a state of the invariant says of the buffer                          *)

LEMMA State ==
  ASSUME TypeOK, IndexOK
  PROVE  /\ rx \in Cbuf(Number) /\ rx.tail < Size
         /\ rx.head \in 0 .. Size /\ rx.tail \in 0 .. Size - 1
         /\ rx.data \in [0 .. Size -> Number]
         /\ Used(rx) \in 0 .. Size - 1 /\ Free(rx) = Size - 1 - Used(rx)
         /\ last \in Number /\ next \in Number
<1>1. rx \in Cbuf(Number) /\ rx.tail < Size /\ last \in Number /\ next \in Number
  BY DEF TypeOK, IndexOK, Number
<1>2. Used(rx) \in 0 .. Size - 1 /\ Free(rx) = Size - 1 - Used(rx)
  BY <1>1, UsedFree
<1> QED
  BY <1>1, <1>2, SizeNat DEF Cbuf, Index

\* The queue of the refinement is the run between last and next.
LEMMA ContentsRun ==
  ASSUME TypeOK, IndexOK, Numbered
  PROVE  Contents = Run(last, Used(rx))
  BY DEF Contents, Numbered, Place, Run

\* The interrupt always finds room: the overshoot has used up less than the
\* space held back.
LEMMA AlwaysRoom ==
  ASSUME IInv, rts \/ late < Overshoot
  PROVE  Free(rx) > 0
<1>1. Free(rx) \in Nat /\ late \in 0 .. Overshoot /\ rts \in BOOLEAN
  BY State, SizeNat DEF IInv, TypeOK
<1> QED
  BY <1>1, MarginAssumption DEF IInv, FlowControl

\* The fewest bytes that make checkRxBufferLower assert RTS leave more space
\* free than the upper bound.
LEMMA LowerLeavesRoom ==
  ASSUME TypeOK, IndexOK, Used(rx) <= LowerBound
  PROVE  Free(rx) > UpperBound
<1>1. LowerBound \in Nat
  BY SizeNat DEF LowerBound
<1> QED
  BY <1>1, State, MarginAssumption, SizeNat

\* A step that takes the first n bytes out of the buffer: the numbering goes on
\* behind them, the queue loses them, the space grows by them.
LEMMA Takes ==
  ASSUME TypeOK, IndexOK, Numbered, NEW n \in 0 .. Used(rx),
         rx' \in Cbuf(Number), rx'.tail = rx.tail, rx'.data = rx.data,
         rx'.head = rx.head + n \/ rx'.head = rx.head + n - Size,
         last' = (last + n) % Numbers, next' = next
  PROVE  /\ Numbered'
         /\ Used(rx') = Used(rx) - n /\ Free(rx') = Free(rx) + n
         /\ Contents' = Run(last', Used(rx) - n)
<1>1. /\ rx \in Cbuf(Number) /\ rx.tail < Size /\ last \in Number
      /\ Used(rx) \in 0 .. Size - 1 /\ Free(rx) = Size - 1 - Used(rx)
  BY State
<1>2. /\ Used(rx') = Used(rx) - n
      /\ \A j \in 1 .. Used(rx') : rx'.data[Place(rx', j)] = rx.data[Place(rx, j + n)]
  BY <1>1, AdvanceLemma
<1>3. Free(rx') = Size - 1 - Used(rx')
  BY <1>1, UsedFree
<1>4. \A j \in 1 .. Used(rx') : rx'.data[Place(rx', j)] = (last' + j) % Numbers
  <2> TAKE j \in 1 .. Used(rx')
  <2>1. /\ j + n \in 1 .. Used(rx) /\ n + j <= Size
        /\ n \in 0 .. Size /\ j \in 0 .. Size /\ j + n = n + j
    BY <1>1, <1>2, SizeNat
  <2>2. rx.data[Place(rx, j + n)] = (last + (j + n)) % Numbers
    BY <2>1 DEF Numbered
  <2>3. (last' + j) % Numbers = (last + (n + j)) % Numbers
    BY <1>1, <2>1, CountOn
  <2> QED
    BY <1>2, <2>1, <2>2, <2>3
<1>5. next' = (last' + Used(rx') + 1) % Numbers
  <2> DEFINE r == Used(rx') + 1
  <2>1. /\ n \in 0 .. Size /\ r \in 0 .. Size /\ n + r <= Size
        /\ n + r = Used(rx) + 1
    BY <1>1, <1>2, SizeNat
  <2>2. (last' + r) % Numbers = (last + (n + r)) % Numbers
    BY <1>1, <2>1, CountOn
  <2>3. /\ last + (Used(rx) + 1) = last + Used(rx) + 1
        /\ last' + (Used(rx') + 1) = last' + Used(rx') + 1
    <3>1. last \in Nat /\ last' \in Nat /\ Used(rx) \in Nat /\ Used(rx') \in Nat
      BY <1>1, <1>2, <2>1, CountOn, NumbersNat, SizeNat DEF Number
    <3> QED
      BY <3>1
  <2> QED
    BY <2>1, <2>2, <2>3 DEF Numbered
<1>6. Contents' = Run(last', Used(rx) - n)
  BY <1>2, <1>4 DEF Contents, Place, Run
<1> QED
  BY <1>1, <1>2, <1>3, <1>4, <1>5, <1>6, SizeNat DEF Numbered

\* ... and such a step is the queue's Get, or a stutter when n is 0.
QueueVars == <<Contents, next, (last + 1) % Numbers>>

LEMMA TakesIsGet ==
  ASSUME TypeOK, IndexOK, Numbered, NEW n \in 0 .. Used(rx),
         last' = (last + n) % Numbers, next' = next,
         Contents' = Run(last', Used(rx) - n)
  PROVE  Queue!Get \/ UNCHANGED QueueVars
<1>1. last \in Number /\ Used(rx) \in 0 .. Size - 1
  BY State
<1>2. Contents = Run(last, Used(rx))
  BY ContentsRun
<1>3. CASE n = 0
  <2>1. 0 \in 0 .. Size - 1
    BY SizeNat
  <2>2. last' = last
    <3>1. last % Numbers = last
      BY <1>1, <2>1, CountBack
    <3>2. last + 0 = last
      BY <1>1, NumbersNat DEF Number
    <3> QED
      BY <3>1, <3>2, <1>3
  <2>3. Used(rx) - n = Used(rx)
    BY <1>1, <1>3, SizeNat
  <2> QED
    BY <1>2, <2>2, <2>3 DEF QueueVars
<1>4. CASE n \in 1 .. Used(rx)
  <2>1. Used(rx) \in 0 .. Size /\ n \in 1 .. Used(rx)
    BY <1>1, <1>4, SizeNat
  <2>2. /\ Len(Contents) = Used(rx)
        /\ Contents[n] = (last + n) % Numbers
    BY <1>1, <1>2, <2>1, RunSeq
  <2>3. Contents' = SubSeq(Contents, n + 1, Len(Contents))
    BY <1>1, <1>2, <2>1, <2>2, RunGet
  <2>4. ((last + 1) % Numbers)' = (Contents[n] + 1) % Numbers
    BY <2>2
  <2> QED
    BY <2>1, <2>2, <2>3, <2>4 DEF Queue!Get
<1> QED
  BY <1>1, <1>3, <1>4, SizeNat

-----------------------------------------------------------------------------
(* Every step keeps the invariant and is one of the queue's, or a stutter.   *)

LEMMA Begin == Init => IInv /\ Queue!Init
<1> SUFFICES ASSUME Init
             PROVE  IInv /\ Queue!Init
  OBVIOUS
<1>1. /\ rx \in Cbuf(Number) /\ rx.head = 0 /\ rx.tail = 0
      /\ last = Numbers - 1 /\ next = 0 /\ last \in Number /\ next \in Number
  BY SizeNat, NumbersNat DEF Init, CbufInit, Cbuf, Index, Number
<1>2. Used(rx) = 0 /\ Free(rx) = Size - 1
  BY <1>1, UsedFree, SizeNat
<1>3. (last + 1) % Numbers = 0 /\ last + Used(rx) + 1 = last + 1
  BY <1>1, <1>2, NumbersNat, SizeNat
<1>4. TypeOK
  BY <1>1, MarginAssumption, SizeNat DEF Init, TypeOK, Number
<1>5. IndexOK /\ Bounded
  BY <1>1, SizeNat DEF Init, IndexOK, Bounded
<1>6. Numbered
  BY <1>1, <1>2, <1>3 DEF Numbered
<1>7. FlowControl
  <2>1. LowerBound \in Nat
    BY SizeNat DEF LowerBound
  <2> QED
    BY <1>2, <2>1, MarginAssumption, SizeNat DEF FlowControl, Init
<1>8. Queue!Init
  <2>1. Contents = [j \in 1 .. 0 |-> rx.data[(rx.head + j - 1) % Size]]
    BY <1>2 DEF Contents
  <2>2. Contents = << >>
    BY <2>1
  <2> QED
    BY <1>1, <1>3, <2>2 DEF Queue!Init
<1> QED
  BY <1>4, <1>5, <1>6, <1>7, <1>8 DEF IInv

\* A byte arrives.
LEMMA RxIRQStep ==
  ASSUME IInv, RxIRQ
  PROVE  IInv' /\ Queue!Put
<1>1. /\ rx \in Cbuf(Number) /\ rx.tail < Size /\ last \in Number /\ next \in Number
      /\ rx.head \in 0 .. Size
      /\ Used(rx) \in 0 .. Size - 1 /\ Free(rx) = Size - 1 - Used(rx)
  BY State DEF IInv
<1>2. Free(rx) > 0
  BY AlwaysRoom DEF RxIRQ
<1>3. /\ rx' \in Cbuf(Number) /\ rx'.tail < Size /\ rx'.head = rx.head
      /\ Used(rx') = Used(rx) + 1
      /\ \A j \in 1 .. Used(rx) : rx'.data[Place(rx', j)] = rx.data[Place(rx, j)]
      /\ rx'.data[Place(rx', Used(rx'))] = next
  BY <1>1, <1>2, PutchLemma DEF RxIRQ
<1>4. Free(rx') = Free(rx) - 1
  <2>1. Free(rx') = Size - 1 - Used(rx')
    BY <1>3, UsedFree
  <2> QED
    BY <1>1, <1>3, <2>1, SizeNat
<1>5. /\ next' = (next + 1) % Numbers /\ last' = last /\ mode' = mode /\ pc' = pc
      /\ length' = length
  BY DEF RxIRQ
<1>6. Used(rx) \in 0 .. Size - 2 /\ Used(rx) + 1 \in 0 .. Size - 1
  BY <1>1, <1>2, SizeNat
<1>7. next = (last + (Used(rx) + 1)) % Numbers
  <2>1. last + Used(rx) + 1 = last + (Used(rx) + 1)
    BY <1>1, <1>6, NumbersNat, SizeNat DEF Number
  <2> QED
    BY <2>1 DEF IInv, Numbered
<1>8. TypeOK'
  <2>1. next' \in Number
    <3>1. next + 1 = next + 1 /\ 1 \in 0 .. Size /\ 0 \in 0 .. Size /\ 1 + 0 <= Size
      BY SizeNat
    <3> QED
      BY <1>1, <1>5, <3>1, CountOn
  <2>2. late' \in 0 .. Overshoot /\ rts' \in BOOLEAN
    BY MarginAssumption DEF RxIRQ, IInv, TypeOK
  <2> QED
    BY <1>3, <1>5, <2>1, <2>2 DEF TypeOK, IInv, Number
<1>9. IndexOK' /\ Bounded'
  BY <1>1, <1>3, <1>5, <1>6, SizeNat DEF IInv, IndexOK, Bounded, TypeOK
<1>10. Numbered'
  <2>1. \A j \in 1 .. Used(rx') : rx'.data[Place(rx', j)] = (last' + j) % Numbers
    <3> TAKE j \in 1 .. Used(rx')
    <3>1. CASE j \in 1 .. Used(rx)
      BY <3>1, <1>3, <1>5 DEF IInv, Numbered
    <3>2. CASE j = Used(rx')
      BY <3>2, <1>3, <1>5, <1>7
    <3> QED
      BY <3>1, <3>2, <1>3, <1>6
  <2>2. next' = (last' + Used(rx') + 1) % Numbers
    <3> DEFINE r == Used(rx) + 1
    <3>1. r \in 0 .. Size /\ 1 \in 0 .. Size /\ r + 1 <= Size
      BY <1>6, SizeNat
    <3>2. (((last + r) % Numbers) + 1) % Numbers = (last + (r + 1)) % Numbers
      BY <1>1, <3>1, CountOn
    <3>3. last + (r + 1) = last + r + 1
      BY <1>1, <1>6, NumbersNat, SizeNat DEF Number
    <3> QED
      BY <1>3, <1>5, <1>7, <3>2, <3>3
  <2> QED
    BY <2>1, <2>2 DEF Numbered
<1>11. FlowControl'
  <2>1. Free(rx) \in Nat /\ late \in 0 .. Overshoot /\ rts \in BOOLEAN
    BY <1>1, SizeNat DEF IInv, TypeOK
  <2>2. CASE rts
    <3>1. /\ late' = 0 /\ (rts' => Free(rx') > UpperBound)
          /\ pc = "assert" => Free(rx) > UpperBound
          /\ pc # "assert" => Free(rx) >= UpperBound - Overshoot
      BY <1>4, <2>2 DEF RxIRQ, IInv, FlowControl
    <3>2. CASE rts'
      BY <1>4, <1>5, <2>1, <3>1, <3>2, MarginAssumption DEF FlowControl
    <3>3. CASE ~rts'
      BY <1>4, <1>5, <2>1, <3>1, <3>3, MarginAssumption DEF FlowControl
    <3> QED
      BY <3>2, <3>3
  <2>3. CASE ~rts
    BY <1>4, <1>5, <2>1, <2>3, MarginAssumption DEF RxIRQ, IInv, FlowControl
  <2> QED
    BY <2>2, <2>3
<1>12. Queue!Put
  <2>1. Contents = Run(last, Used(rx))
    BY ContentsRun DEF IInv
  <2>2. Contents' = Run(last, Used(rx) + 1)
    BY <1>3, <1>5, <1>10 DEF Contents, Numbered, Place, Run
  <2>3. Contents' = Contents \o [j \in 1 .. 1 |-> (next + j - 1) % Numbers]
    BY <1>1, <1>7, <2>1, <2>2, RunPut
  <2>4. 1 \in 1 .. Numbers
    BY NumbersNat, SizeNat
  <2> QED
    BY <1>5, <2>3, <2>4 DEF Queue!Put
<1> QED
  BY <1>8, <1>9, <1>10, <1>11, <1>12 DEF IInv

\* A step that takes bytes, or none, without touching RTS: what is left to check
\* are the labels of the task.
LEMMA TakesStep ==
  ASSUME IInv, NEW n \in 0 .. Used(rx),
         rx' \in Cbuf(Number), rx'.tail = rx.tail, rx'.data = rx.data,
         rx'.head = rx.head + n \/ rx'.head = rx.head + n - Size,
         last' = (last + n) % Numbers, next' = next, late' = late, rts' = rts,
         pc # "assert", pc' # "assert",
         length' \in 0 .. Size - 1, mode' \in {"api", "at"},
         pc' \in {"idle", "first", "rest", "check"},
         mode' = "at" => rx'.head < Size /\ pc' \in {"idle", "check"},
         pc' \in {"first", "rest"} => length' <= Used(rx) - n,
         pc' = "rest" => rx'.head + length' <= Size
  PROVE  IInv' /\ (Queue!Get \/ UNCHANGED QueueVars)
<1>1. /\ Numbered'
      /\ Used(rx') = Used(rx) - n /\ Free(rx') = Free(rx) + n
      /\ Contents' = Run(last', Used(rx) - n)
  BY Takes DEF IInv
<1>2. Used(rx) \in 0 .. Size - 1 /\ last \in Number /\ Free(rx) = Size - 1 - Used(rx)
  BY State DEF IInv
<1>3. last' \in Number
  <2>1. n \in 0 .. Size /\ 0 \in 0 .. Size /\ n + 0 <= Size
    BY <1>2, SizeNat
  <2> QED
    BY <1>2, <2>1, CountOn
<1>4. TypeOK'
  BY <1>3 DEF IInv, TypeOK, Number
<1>5. IndexOK' /\ Bounded'
  BY <1>1 DEF IInv, IndexOK, Bounded
<1>6. FlowControl'
  BY <1>1, <1>2, SizeNat, MarginAssumption DEF IInv, FlowControl, TypeOK
<1>7. Queue!Get \/ UNCHANGED QueueVars
  BY <1>1, TakesIsGet DEF IInv
<1> QED
  BY <1>1, <1>4, <1>5, <1>6, <1>7 DEF IInv

\* n bytes from the head to the end of the buffer, or fewer: the last of them
\* is the n-th after the last delivered.
LEMMA DeliveredLast ==
  ASSUME IInv, NEW n \in 0 .. Used(rx), rx.head + n <= Size, Delivered(n)
  PROVE  last' = (last + n) % Numbers
<1>1. /\ last \in Number /\ Used(rx) \in 0 .. Size - 1
      /\ rx.head \in 0 .. Size /\ rx \in Cbuf(Number) /\ rx.tail < Size
  BY State DEF IInv
<1>2. CASE n = 0
  <2>1. 0 \in 0 .. Size - 1 /\ last + 0 = last
    BY <1>1, SizeNat, NumbersNat DEF Number
  <2>2. last % Numbers = last
    BY <1>1, <2>1, CountBack
  <2> QED
    BY <1>2, <2>1, <2>2 DEF Delivered
<1>3. CASE n # 0
  <2>1. n \in 1 .. Used(rx) /\ n \in 1 .. Used(rx) + 1 /\ rx.head + n - 1 < Size
    BY <1>1, <1>3, SizeNat
  <2>2. Place(rx, n) = rx.head + n - 1
    BY <1>1, <2>1, PlaceAny
  <2> QED
    BY <1>3, <2>1, <2>2 DEF Delivered, IInv, Numbered
<1> QED
  BY <1>2, <1>3

\* The first half of xbee_cbuf_get.
LEMMA ReadFirstStep ==
  ASSUME IInv, ReadFirst
  PROVE  IInv' /\ (Queue!Get \/ UNCHANGED QueueVars)
<1>1. /\ rx \in Cbuf(Number) /\ rx.tail < Size /\ last \in Number
      /\ rx.head \in 0 .. Size /\ rx.tail \in 0 .. Size - 1
      /\ rx.data \in [0 .. Size -> Number]
      /\ Used(rx) \in 0 .. Size - 1
      /\ rx.head <= rx.tail => Used(rx) = rx.tail - rx.head
      /\ rx.tail < rx.head => Used(rx) = rx.tail - rx.head + Size
  BY State, UsedFree DEF IInv
<1>2. /\ pc = "first" /\ pc' = "rest" /\ mode # "at" /\ length <= Used(rx)
      /\ mode' = mode /\ mode \in {"api", "at"} /\ rts' = rts /\ late' = late /\ next' = next
      /\ length \in 0 .. Size - 1
  BY DEF ReadFirst, Goto, IInv, TypeOK, IndexOK, Bounded
<1>3. CASE GetWraps(rx, length)
  <2> DEFINE n == Size - rx.head
  <2>1. /\ Delivered(n) /\ rx' = [rx EXCEPT !.head = 0] /\ length' = length - n
        /\ length > n
    BY <1>3 DEF ReadFirst, GetFirst, GetWraps
  <2>2. /\ n \in 0 .. Used(rx) /\ rx.head + n <= Size /\ 0 = rx.head + n - Size
        /\ length' \in 0 .. Size - 1 /\ length' <= Used(rx) - n
    <3>1. n \in 0 .. Size /\ n < length /\ length' = length - n
      BY <1>1, <2>1, SizeNat
    <3>2. n \in 0 .. Used(rx) /\ length' \in 0 .. Size - 1 /\ length' <= Used(rx) - n
      <4> HIDE DEF n
      <4> QED
        BY <1>1, <1>2, <3>1, SizeNat
    <3>3. rx.head + n <= Size /\ 0 = rx.head + n - Size
      BY <1>1, SizeNat
    <3> QED
      BY <3>2, <3>3
  <2>3. last' = (last + n) % Numbers
    BY <2>1, <2>2, DeliveredLast
  <2>4. /\ rx' \in Cbuf(Number) /\ rx'.head = 0 /\ rx'.tail = rx.tail
        /\ rx'.data = rx.data
    BY <1>1, <2>1, SizeNat DEF Cbuf, Index
  <2>5. rx'.head + length' <= Size
    <3> HIDE DEF n
    <3>1. rx'.head = 0
      BY <2>4
    <3>2. PICK k \in 0 .. Size - 1 : k = length'
      BY <2>2
    <3>3. 0 + k <= Size
      BY SizeNat
    <3> QED
      BY <3>1, <3>2, <3>3
  <2> HIDE DEF n
  <2> QED
    BY <1>2, <2>2, <2>3, <2>4, <2>5, TakesStep
<1>4. CASE ~GetWraps(rx, length)
  <2>1. UNCHANGED <<rx, length, last>> /\ rx.head + length <= Size
    <3>1. ~(length > Size - rx.head)
      BY <1>4 DEF GetWraps
    <3>2. rx.head + length <= Size
      BY <1>1, <1>2, <3>1, SizeNat
    <3> QED
      BY <1>4, <3>2 DEF ReadFirst
  <2>2. 0 \in 0 .. Used(rx) /\ rx'.head = rx.head + 0 /\ length' <= Used(rx) - 0
    BY <1>1, <1>2, <2>1, SizeNat
  <2>3. last' = (last + 0) % Numbers
    <3>1. 0 \in 0 .. Size - 1 /\ last + 0 = last
      BY <1>1, SizeNat, NumbersNat DEF Number
    <3>2. last % Numbers = last
      BY <1>1, <3>1, CountBack
    <3> QED
      BY <2>1, <3>1, <3>2
  <2> QED
    BY <1>1, <1>2, <2>1, <2>2, <2>3, TakesStep
<1> QED
  BY <1>3, <1>4

\* The second half.
LEMMA ReadRestStep ==
  ASSUME IInv, ReadRest
  PROVE  IInv' /\ (Queue!Get \/ UNCHANGED QueueVars)
<1>1. /\ rx \in Cbuf(Number) /\ rx.tail < Size
      /\ rx.head \in 0 .. Size /\ Used(rx) \in 0 .. Size - 1
  BY State DEF IInv
<1>2. /\ pc = "rest" /\ pc' = "check" /\ mode # "at" /\ length <= Used(rx)
      /\ rx.head + length <= Size
      /\ mode' = mode /\ mode \in {"api", "at"} /\ rts' = rts /\ late' = late /\ next' = next
      /\ length \in 0 .. Size - 1 /\ length' = 0
      /\ Delivered(length) /\ rx' = [rx EXCEPT !.head = @ + length]
  BY DEF ReadRest, Goto, GetRest, IInv, TypeOK, IndexOK, Bounded
<1>3. length \in 0 .. Used(rx) /\ length' \in 0 .. Size - 1
  BY <1>1, <1>2, SizeNat
<1>4. last' = (last + length) % Numbers
  BY <1>2, <1>3, DeliveredLast
<1>5. /\ rx' \in Cbuf(Number) /\ rx'.head = rx.head + length /\ rx'.tail = rx.tail
      /\ rx'.data = rx.data
  BY <1>1, <1>2, SizeNat DEF Cbuf, Index
<1> QED
  BY <1>2, <1>3, <1>4, <1>5, TakesStep

\* xbee_ser_getchar.
LEMMA GetcharStep ==
  ASSUME IInv, Getchar
  PROVE  IInv' /\ (Queue!Get \/ UNCHANGED QueueVars)
<1>1. /\ rx \in Cbuf(Number) /\ rx.tail < Size /\ rx.head \in 0 .. Size - 1
      /\ rx.tail \in 0 .. Size - 1
      /\ Used(rx) \in 0 .. Size - 1
      /\ rx.head <= rx.tail => Used(rx) = rx.tail - rx.head
      /\ rx.tail < rx.head => Used(rx) = rx.tail - rx.head + Size
  <2>1. mode = "at"
    BY DEF Getchar
  <2> QED
    BY <2>1, State, UsedFree, SizeNat DEF IInv, IndexOK
<1>2. /\ pc = "idle" /\ pc' = "check" /\ rx.head # rx.tail
      /\ mode' = mode /\ mode = "at" /\ rts' = rts /\ late' = late /\ next' = next
      /\ length' = length /\ length \in 0 .. Size - 1
      /\ rx' = [rx EXCEPT !.head = (@ + 1) % Size]
      /\ last' = rx.data[rx.head]
  BY DEF Getchar, CanGetch, GetchByte, Getch, Goto, IInv, TypeOK
<1>3. 1 \in 0 .. Used(rx) /\ rx.head + 1 <= Size
  BY <1>1, <1>2, SizeNat
<1>4. last' = (last + 1) % Numbers
  <2>1. rx.head + 1 - 1 = rx.head
    BY <1>1, SizeNat
  <2>2. Delivered(1)
    BY <1>2, <2>1 DEF Delivered
  <2> QED
    BY <1>3, <2>2, DeliveredLast
<1>5. /\ rx'.head = rx.head + 1 \/ rx'.head = rx.head + 1 - Size
      /\ rx'.head \in 0 .. Size - 1
  <2> DEFINE x == rx.head + 1
  <2>1. x \in -Size .. 2 * Size - 1 /\ 0 <= x /\ Size \in Nat \ {0}
    BY <1>1, SizeNat
  <2>2. /\ 0 <= x /\ x < Size => x % Size = x
        /\ Size <= x => x % Size = x - Size
        /\ x % Size \in 0 .. Size - 1
    BY <2>1, ModLemma
  <2>3. rx'.head = x % Size
    BY <1>1, <1>2 DEF Cbuf
  <2> QED
    BY <1>1, <2>2, <2>3, SizeNat
<1>6. rx' \in Cbuf(Number) /\ rx'.tail = rx.tail /\ rx'.data = rx.data
  <2> DEFINE h == (rx.head + 1) % Size
  <2>1. rx' = [rx EXCEPT !.head = h] /\ h \in Index
    BY <1>1, <1>2, <1>5, SizeNat DEF Cbuf, Index
  <2> HIDE DEF h
  <2> QED
    BY <1>1, <2>1 DEF Cbuf
<1>7. rx'.head < Size
  BY <1>5, SizeNat
<1> QED
  BY <1>2, <1>3, <1>4, <1>5, <1>6, <1>7, TakesStep

\* xbee_ser_rx_flush, on the way into command mode and out of it.
LEMMA FlushStep ==
  ASSUME IInv, RxFlush, pc = "idle", mode' \in {"api", "at"}
  PROVE  IInv' /\ (Queue!Get \/ UNCHANGED QueueVars)
<1>1. /\ rx \in Cbuf(Number) /\ rx.tail < Size /\ rx.head \in 0 .. Size
      /\ rx.tail \in 0 .. Size - 1 /\ last \in Number
      /\ Used(rx) \in 0 .. Size - 1
      /\ rx.head <= rx.tail => Used(rx) = rx.tail - rx.head
      /\ rx.tail < rx.head => Used(rx) = rx.tail - rx.head + Size
  BY State, UsedFree DEF IInv
<1>2. /\ pc' = "idle" /\ rts' = rts /\ late' = late /\ next' = next
      /\ length' = length /\ length \in 0 .. Size - 1
      /\ rx' = [rx EXCEPT !.head = rx.tail]
      /\ last' = (next - 1) % Numbers
  BY DEF RxFlush, Flush, IInv, TypeOK
<1>3. /\ rx' \in Cbuf(Number) /\ rx'.tail = rx.tail /\ rx'.data = rx.data
      /\ rx'.head = rx.tail
  BY <1>1, <1>2 DEF Cbuf
<1>4. rx'.head = rx.head + Used(rx) \/ rx'.head = rx.head + Used(rx) - Size
  BY <1>1, <1>3, SizeNat
<1>5. last' = (last + Used(rx)) % Numbers
  <2>1. last + Used(rx) + 1 = last + (Used(rx) + 1)
    BY <1>1, NumbersNat, SizeNat DEF Number
  <2>2. next = (last + (Used(rx) + 1)) % Numbers
    BY <2>1 DEF IInv, Numbered
  <2> QED
    BY <1>1, <1>2, <2>2, CountBack
<1>6. Used(rx) \in 0 .. Used(rx) /\ rx'.head < Size
  BY <1>1, <1>3, SizeNat
<1> QED
  BY <1>2, <1>3, <1>4, <1>5, <1>6, TakesStep

\* The steps that leave the bytes alone, the flow control aside.
LEMMA QuietStep ==
  ASSUME IInv, ReadBegin \/ ReadCheck \/ ReadAssert \/ UNCHANGED vars
  PROVE  IInv' /\ UNCHANGED QueueVars
<1>1. /\ Used(rx) \in 0 .. Size - 1 /\ Free(rx) = Size - 1 - Used(rx)
      /\ rx.head \in 0 .. Size /\ rx.tail < Size
  BY State DEF IInv
<1>2. rx' = rx /\ late' = late /\ next' = next /\ last' = last /\ mode' = mode
  BY DEF ReadBegin, ReadCheck, ReadAssert, vars
<1>3. UNCHANGED QueueVars
  BY <1>2 DEF QueueVars, Contents
<1>4. Numbered'
  BY <1>2 DEF IInv, Numbered
<1>5. CASE ReadBegin
  <2>1. /\ pc = "idle" /\ pc' = "first" /\ mode = "api" /\ rts' = rts
        /\ length' \in 0 .. Size - 1 /\ length' <= Used(rx)
    BY <1>1, <1>5, MarginAssumption, SizeNat DEF ReadBegin, Goto
  <2>2. TypeOK' /\ IndexOK' /\ Bounded'
    BY <1>2, <2>1 DEF IInv, TypeOK, IndexOK, Bounded
  <2>3. FlowControl'
    BY <1>2, <2>1 DEF IInv, FlowControl
  <2> QED
    BY <1>3, <1>4, <2>2, <2>3 DEF IInv
<1>6. CASE ReadCheck
  <2>1. /\ pc = "check" /\ pc' \in {"idle", "assert"} /\ rts' = rts /\ length' = length
        /\ pc' = "assert" => Used(rx) <= LowerBound
    BY <1>6 DEF ReadCheck, Goto
  <2>2. TypeOK' /\ IndexOK' /\ Bounded'
    BY <1>2, <2>1 DEF IInv, TypeOK, IndexOK, Bounded
  <2>3. pc' = "assert" => Free(rx) > UpperBound
    BY <2>1, LowerLeavesRoom DEF IInv
  <2>4. FlowControl'
    BY <1>1, <1>2, <2>1, <2>3, SizeNat, MarginAssumption DEF IInv, FlowControl, TypeOK
  <2> QED
    BY <1>3, <1>4, <2>2, <2>4 DEF IInv
<1>7. CASE ReadAssert
  <2>1. pc = "assert" /\ pc' = "idle" /\ rts' /\ rts' \in BOOLEAN /\ length' = length
    BY <1>7 DEF ReadAssert, Goto
  <2>2. TypeOK' /\ IndexOK' /\ Bounded'
    BY <1>2, <2>1 DEF IInv, TypeOK, IndexOK, Bounded
  <2>3. Free(rx) >= UpperBound - Overshoot
    BY <1>1, <2>1, SizeNat, MarginAssumption DEF IInv, FlowControl, TypeOK
  <2>4. FlowControl'
    BY <1>2, <2>1, <2>3 DEF FlowControl
  <2> QED
    BY <1>3, <1>4, <2>2, <2>4 DEF IInv
<1>8. CASE UNCHANGED vars
  BY <1>3, <1>8 DEF vars, IInv, TypeOK, IndexOK, Bounded, Numbered, FlowControl
<1> QED
  BY <1>5, <1>6, <1>7, <1>8

LEMMA Steps ==
  ASSUME IInv, [Next]_vars
  PROVE  IInv' /\ [Queue!Next]_QueueVars
<1>1. CASE RxIRQ
  BY <1>1, RxIRQStep DEF Queue!Next
<1>2. CASE ReadFirst
  BY <1>2, ReadFirstStep DEF Queue!Next
<1>3. CASE ReadRest
  BY <1>3, ReadRestStep DEF Queue!Next
<1>4. CASE EnterCommandMode \/ ExitCommandMode
  BY <1>4, FlushStep DEF EnterCommandMode, ExitCommandMode, Queue!Next
<1>5. CASE Getchar
  BY <1>5, GetcharStep DEF Queue!Next
<1>6. CASE ReadBegin \/ ReadCheck \/ ReadAssert \/ UNCHANGED vars
  BY <1>6, QuietStep
<1> QED
  BY <1>1, <1>2, <1>3, <1>4, <1>5, <1>6 DEF Next, Read

-----------------------------------------------------------------------------
(* The theorems                                                              *)

\* The inductive invariant holds in every state.
THEOREM Invariance == Spec => []IInv
  BY Begin, Steps, PTL DEF Spec

\* Every variable keeps its type: in particular the indices of rx_buffer never
\* exceed its size, whatever the interrupt does between the halves of a read.
THEOREM TypeCorrect == Spec => []TypeOK
<1>1. IInv => TypeOK
  BY DEF IInv
<1> QED
  BY <1>1, Invariance, PTL

\* No byte is dropped: whenever the interrupt may fall, xbee_cbuf_putch finds
\* room in rx_buffer.
THEOREM NeverFull == Spec => [](rts \/ late < Overshoot => Free(rx) > 0)
<1>1. IInv => (rts \/ late < Overshoot => Free(rx) > 0)
  BY AlwaysRoom
<1> QED
  BY <1>1, Invariance, PTL

\* The receiver implements the queue: every byte the modem sent is delivered
\* once and in order, but for what a flush drops.
THEOREM ImplementsQueue == Spec => RxIsQueue
<1>1. Init => Queue!Init
  BY Begin
<1>2. IInv /\ [Next]_vars => [Queue!Next]_<<Contents, next, (last + 1) % Numbers>>
  BY Steps DEF QueueVars
<1> QED
  BY <1>1, <1>2, Invariance, PTL DEF Spec, RxIsQueue, Queue!Spec
=============================================================================
