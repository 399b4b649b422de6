--------------------------- MODULE SerialTxProofs ---------------------------
(***************************************************************************)
(* What TLC checks of SerialTx for a buffer of eight bytes and three       *)
(* frames, proved for every size and every set of frames: types, that no   *)
(* byte waits with the interrupt disabled, and that until the interrupt    *)
(* goes astray the bytes leave in order and every frame is written whole.  *)
(***************************************************************************)
EXTENDS SerialTx, SequenceTheorems, TLAPS

-----------------------------------------------------------------------------
(* The buffer: what the operators of CBuf do, for every size; the bytes that *)
(* leave and the counts are as in SerialRxProofs, which has them on its own.  *)

\* The remainder over the range an index or a byte's number ever reaches.
LEMMA ModLemma ==
  ASSUME NEW m \in Nat \ {0}, NEW x \in -m .. 2 * m - 1
  PROVE  /\ x < 0 => x % m = x + m
         /\ 0 <= x /\ x < m => x % m = x
         /\ m <= x => x % m = x - m
         /\ x % m \in 0 .. m - 1
  OBVIOUS

LEMMA SizeNat == Size \in Nat /\ Size >= 4
  BY SizeAssumption

\* xbee_cbuf_used and xbee_cbuf_free add up to the capacity, which is one less
\* than the size, and forget a tail that is a whole size ahead of the head.
LEMMA UsedAny ==
  ASSUME NEW V, NEW c \in Cbuf(V)
  PROVE  /\ c.tail < c.head => Used(c) = c.tail - c.head + Size
         /\ c.head <= c.tail /\ c.tail - c.head < Size => Used(c) = c.tail - c.head
         /\ c.tail - c.head = Size => Used(c) = 0
         /\ Used(c) \in 0 .. Size - 1
         /\ Free(c) = Size - 1 - Used(c)
<1>1. /\ c.head \in 0 .. Size /\ c.tail \in 0 .. Size
  BY SizeNat DEF Cbuf, Index
<1> DEFINE u == c.tail - c.head
           f == c.head - c.tail - 1
<1>2. /\ u \in -Size .. 2 * Size - 1 /\ f + Size \in -Size .. 2 * Size - 1
      /\ Size \in Nat \ {0}
  BY <1>1, SizeNat
<1>3. /\ u < 0 => u % Size = u + Size
      /\ 0 <= u /\ u < Size => u % Size = u
      /\ Size <= u => u % Size = u - Size
  BY <1>2, ModLemma
<1>4. f % Size = Size - 1 - (u % Size)
  <2>1. CASE f = -Size - 1
    <3>1. f % Size = Size - 1
      BY <2>1, SizeAssumption
    <3> QED
      BY <2>1, <3>1, <1>1, <1>3, SizeNat
  <2>2. CASE f # -Size - 1
    <3>1. f \in -Size .. 2 * Size - 1
      BY <2>2, <1>1, SizeNat
    <3>2. /\ f < 0 => f % Size = f + Size
          /\ 0 <= f /\ f < Size => f % Size = f
      BY <1>2, <3>1, ModLemma
    <3> QED
      BY <2>2, <3>2, <1>1, <1>3, SizeNat
  <2> QED
    BY <2>1, <2>2
<1>5. Used(c) = u % Size /\ Free(c) = f % Size
  BY DEF Used, Free
<1> QED
  BY <1>1, <1>3, <1>4, <1>5, SizeNat

\* Head h and tail t leave u bytes in the buffer: the relation by itself, for
\* the arithmetic of the indices.
Fill(h, t, u) ==
  /\ h \in 0 .. Size /\ t \in 0 .. Size /\ u \in 0 .. Size - 1
  /\ t < h => u = t - h + Size
  /\ h <= t /\ t - h < Size => u = t - h
  /\ t - h = Size => u = 0

LEMMA FillUsed ==
  ASSUME NEW V, NEW c \in Cbuf(V)
  PROVE  Fill(c.head, c.tail, Used(c))
<1>1. c.head \in 0 .. Size /\ c.tail \in 0 .. Size
  BY DEF Cbuf, Index
<1> QED
  BY <1>1, UsedAny DEF Fill

\* n bytes taken at the head, n bytes put at the tail.
LEMMA FillTake ==
  ASSUME NEW h, NEW t, NEW u, Fill(h, t, u), NEW n \in 0 .. u,
         NEW g, NEW v, Fill(g, t, v), g = h + n \/ g = h + n - Size
  PROVE  v = u - n
  BY SizeNat DEF Fill

LEMMA FillPut ==
  ASSUME NEW h, NEW t, NEW u, Fill(h, t, u),
         NEW n \in 0 .. Size - 1 - u, t + n <= Size,
         NEW g, NEW v, Fill(h, g, v), g = t + n \/ g = t + n - Size
  PROVE  v = u + n
  BY SizeNat DEF Fill

\* The place of the j-th byte, among those in the buffer and behind them.
At(h, j, p) ==
  /\ h + j - 1 < Size => p = h + j - 1
  /\ Size <= h + j - 1 => p = h + j - 1 - Size
  /\ p \in 0 .. Size - 1

LEMMA AtFill ==
  ASSUME NEW h, NEW t, NEW u, Fill(h, t, u),
         NEW n \in 0 .. Size - 1 - u, t + n <= Size,
         NEW j \in 1 .. u + n, NEW p, At(h, j, p)
  PROVE  /\ j <= u => p \notin t .. t + n - 1
         /\ u < j => p = t + (j - u) - 1 /\ t < Size
  BY SizeNat DEF Fill, At

\* Where the j-th of the bytes in the buffer is.
Place(c, j) == (c.head + j - 1) % Size

LEMMA PlaceAny ==
  ASSUME NEW V, NEW c \in Cbuf(V), NEW j \in 1 .. Used(c) + 1
  PROVE  /\ c.head + j - 1 < Size => Place(c, j) = c.head + j - 1
         /\ Size <= c.head + j - 1 => Place(c, j) = c.head + j - 1 - Size
         /\ Place(c, j) \in 0 .. Size - 1
<1>1. c.head \in 0 .. Size
  BY SizeNat DEF Cbuf, Index
<1>2. Used(c) \in 0 .. Size - 1
  BY UsedAny
<1> DEFINE x == c.head + j - 1
<1>3. x \in -Size .. 2 * Size - 1 /\ 0 <= x /\ Size \in Nat \ {0}
  BY <1>1, <1>2, SizeNat
<1>4. /\ x < Size => x % Size = x
      /\ Size <= x => x % Size = x - Size
  BY <1>3, ModLemma
<1>5. Place(c, j) = x % Size
  BY DEF Place
<1> QED
  BY <1>1, <1>2, <1>3, <1>4, <1>5, SizeNat

\* The head moved on over n of the bytes, round the end or to it: those that are
\* left keep their places.
LEMMA AdvanceLemma ==
  ASSUME NEW V, NEW c \in Cbuf(V), NEW d \in Cbuf(V),
         NEW n \in 0 .. Used(c),
         d.tail = c.tail, d.data = c.data,
         d.head = c.head + n \/ d.head = c.head + n - Size
  PROVE  /\ Used(d) = Used(c) - n
         /\ \A j \in 1 .. Used(d) : d.data[Place(d, j)] = c.data[Place(c, j + n)]
<1>1. /\ c.head \in 0 .. Size /\ c.tail \in 0 .. Size /\ d.head \in 0 .. Size
  BY SizeNat DEF Cbuf, Index
<1>2. /\ Used(c) \in 0 .. Size - 1
      /\ c.tail < c.head => Used(c) = c.tail - c.head + Size
      /\ c.head <= c.tail /\ c.tail - c.head < Size => Used(c) = c.tail - c.head
      /\ c.tail - c.head = Size => Used(c) = 0
  BY UsedAny
<1>3. Used(d) \in 0 .. Size - 1
  BY UsedAny
<1>4. Used(d) = Used(c) - n
  BY FillUsed, FillTake
<1>5. \A j \in 1 .. Used(d) : Place(d, j) = Place(c, j + n)
  <2> TAKE j \in 1 .. Used(d)
  <2>1. j \in 1 .. Used(d) + 1 /\ j + n \in 1 .. Used(c) + 1
    BY <1>2, <1>3, <1>4
  <2>2. /\ d.head + j - 1 < Size => Place(d, j) = d.head + j - 1
        /\ Size <= d.head + j - 1 => Place(d, j) = d.head + j - 1 - Size
        /\ Place(d, j) \in 0 .. Size - 1
    BY <2>1, PlaceAny
  <2>3. /\ c.head + (j + n) - 1 < Size => Place(c, j + n) = c.head + (j + n) - 1
        /\ Size <= c.head + (j + n) - 1 => Place(c, j + n) = c.head + (j + n) - 1 - Size
        /\ Place(c, j + n) \in 0 .. Size - 1
    BY <2>1, PlaceAny
  <2> QED
    BY <1>1, <1>2, <1>3, <2>1, <2>2, <2>3, SizeNat
<1> QED
  BY <1>4, <1>5

\* One half of xbee_cbuf_put: n bytes into the space behind the tail, up to the
\* end of the buffer at most, where the tail may stay or go round to 0.
LEMMA StoreLemma ==
  ASSUME NEW V, NEW c \in Cbuf(V), NEW d \in Cbuf(V), NEW s \in Seq(V),
         NEW n \in 0 .. Free(c), Len(s) = n, c.tail + n <= Size,
         d.head = c.head, d.data = Store(c.data, c.tail, s),
         d.tail = c.tail + n \/ d.tail = c.tail + n - Size
  PROVE  /\ Used(d) = Used(c) + n
         /\ \A j \in 1 .. Used(c) : d.data[Place(d, j)] = c.data[Place(c, j)]
         /\ \A j \in 1 .. n : d.data[Place(d, Used(c) + j)] = s[j]
<1>1. /\ c.head \in 0 .. Size /\ c.tail \in 0 .. Size /\ d.tail \in 0 .. Size
  BY SizeNat DEF Cbuf, Index
<1>2. Used(c) \in 0 .. Size - 1 /\ Free(c) = Size - 1 - Used(c)
  BY UsedAny
<1>3. Fill(c.head, c.tail, Used(c)) /\ Fill(c.head, d.tail, Used(d))
  BY FillUsed
<1>4. n \in 0 .. Size - 1 - Used(c)
  BY <1>2
<1>5. Used(d) = Used(c) + n
  BY <1>3, <1>4, FillPut
<1>6. \A j \in 1 .. Used(c) + n : Place(d, j) = Place(c, j)
  BY DEF Place
<1>7. \A k \in 0 .. Size : d.data[k] = IF k \in c.tail .. c.tail + n - 1
                                       THEN s[k - c.tail + 1] ELSE c.data[k]
  BY <1>1 DEF Store, Index
<1>8. \A j \in 1 .. Used(c) : d.data[Place(d, j)] = c.data[Place(c, j)]
  <2> TAKE j \in 1 .. Used(c)
  <2>1. j \in 1 .. Used(c) + 1 /\ j \in 1 .. Used(c) + n
    BY <1>2, <1>4
  <2>2. At(c.head, j, Place(c, j)) /\ j <= Used(c)
    BY <1>2, <2>1, PlaceAny DEF At
  <2>3. Place(c, j) \notin c.tail .. c.tail + n - 1
    BY <1>3, <1>4, <2>1, <2>2, AtFill
  <2>4. Place(c, j) \in 0 .. Size
    BY <2>2, SizeNat DEF At
  <2> QED
    BY <2>1, <2>3, <2>4, <1>6, <1>7
<1>9. \A j \in 1 .. n : d.data[Place(d, Used(c) + j)] = s[j]
  <2> TAKE j \in 1 .. n
  <2> DEFINE i == Used(c) + j
  <2>1. i \in 1 .. Used(d) + 1 /\ i \in 1 .. Used(c) + n /\ Used(c) < i /\ i - Used(c) = j
    BY <1>2, <1>4, <1>5
  <2>2. At(c.head, i, Place(d, i))
    BY <2>1, PlaceAny DEF At
  <2>3. Place(d, i) = c.tail + j - 1
    <3>1. Place(d, i) = c.tail + (i - Used(c)) - 1
      BY <1>3, <1>4, <2>1, <2>2, AtFill
    <3> QED
      BY <2>1, <3>1
  <2> DEFINE k == c.tail + j - 1
  <2>4. k \in 0 .. Size /\ k \in c.tail .. c.tail + n - 1 /\ k - c.tail + 1 = j
    BY <1>1, <1>4, SizeNat
  <2>5. Place(d, i) = k
    BY <2>3
  <2> HIDE DEF k
  <2>6. d.data[k] = s[j]
    BY <2>4, <1>7
  <2> QED
    BY <2>5, <2>6
<1> QED
  BY <1>5, <1>8, <1>9

\* Counting on in two steps is counting on in one.
LEMMA CountOnMod ==
  ASSUME NEW N \in Nat, N > Size, NEW l \in 0 .. N - 1,
         NEW a \in 0 .. Size, NEW b \in 0 .. Size, a + b <= Size
  PROVE  /\ (l + a) % N \in 0 .. N - 1
         /\ (((l + a) % N) + b) % N = (l + (a + b)) % N
<1> DEFINE x == l + a
           y == x % N
           z == l + (a + b)
           w == y + b
<1>1. /\ N \in Nat \ {0} /\ N > Size /\ Size \in Nat
      /\ x \in -N .. 2 * N - 1 /\ 0 <= x
      /\ z \in -N .. 2 * N - 1 /\ 0 <= z
      /\ l \in Nat /\ l < N /\ a \in Nat /\ b \in Nat
  BY SizeNat
<1>2. /\ x < N => y = x
      /\ N <= x => y = x - N
      /\ y \in 0 .. N - 1
  BY <1>1, ModLemma
<1>3. /\ z < N => z % N = z
      /\ N <= z => z % N = z - N
  BY <1>1, ModLemma
<1> HIDE DEF y
<1>4. w \in -N .. 2 * N - 1 /\ 0 <= w
  BY <1>1, <1>2
<1>5. /\ w < N => w % N = w
      /\ N <= w => w % N = w - N
  BY <1>1, <1>4, ModLemma
<1>6. w % N = z % N
  <2>1. CASE x < N
    BY <2>1, <1>1, <1>2
  <2>2. CASE N <= x
    <3>1. y = x - N /\ w = z - N /\ N <= z /\ w < N
      BY <2>2, <1>1, <1>2
    <3> HIDE DEF w, z
    <3> QED
      BY <3>1, <1>3, <1>4, <1>5
  <2> QED
    BY <2>1, <2>2, <1>1
<1> QED
  BY <1>2, <1>6 DEF y

\* Counting on by nothing, and back by one.
LEMMA CountBackMod ==
  ASSUME NEW N \in Nat, N > Size, NEW l \in 0 .. N - 1, NEW k \in 0 .. Size - 1
  PROVE  /\ l % N = l
         /\ (((l + (k + 1)) % N) - 1) % N = (l + k) % N
<1> DEFINE x == l + k
           z == l + (k + 1)
           y == z % N
           w == y - 1
<1>1. /\ N \in Nat \ {0} /\ N > Size /\ Size \in Nat
      /\ x \in -N .. 2 * N - 1 /\ 0 <= x
      /\ z \in -N .. 2 * N - 1 /\ 0 <= z
      /\ l \in -N .. 2 * N - 1 /\ 0 <= l /\ l < N
  BY SizeNat
<1>2. /\ z < N => y = z
      /\ N <= z => y = z - N
      /\ y \in 0 .. N - 1
  BY <1>1, ModLemma
<1>3. /\ x < N => x % N = x
      /\ N <= x => x % N = x - N
      /\ l % N = l
  BY <1>1, ModLemma
<1> HIDE DEF y
<1>4. w \in -N .. 2 * N - 1
  BY <1>1, <1>2
<1>5. /\ w < 0 => w % N = w + N
      /\ 0 <= w /\ w < N => w % N = w
  BY <1>1, <1>4, ModLemma
<1>6. w % N = x % N
  BY <1>1, <1>2, <1>3, <1>5
<1> QED
  BY <1>3, <1>6 DEF y

-----------------------------------------------------------------------------
(* The inductive invariant.                                                  *)

\* A frame has at most four pieces.
PieceAt(s, k) == IF k <= Len(s) THEN s[k] ELSE 0
Total(s) == PieceAt(s, 1) + PieceAt(s, 2) + PieceAt(s, 3) + PieceAt(s, 4)

\* Where xbee_frame_write is under way there is a piece to write.
PiecesOK ==
  /\ pieces \in Seq(Nat \ {0}) /\ Len(pieces) <= 4
  /\ pc \in {"check", "write", "first", "rest", "enable"} => pieces # <<>>

\* The second half of xbee_cbuf_put stays within the buffer.
Bounded == pc = "rest" => tx.tail + length <= Size

\* tx_break is set only inside xbee_ser_break.
BreakOK == brk <=> pc \in {"break", "flushed"}

\* The bytes in the buffer are those between the last sent and the next.
Numbered ==
  /\ \A j \in 1 .. Used(tx) : tx.data[Place(tx, j)] = (last + j) % Numbers
  /\ next = (last + Used(tx) + 1) % Numbers

\* There is room for what is still to be written of the frame.
Reserved ==
  /\ pc = "check" => size = Total(pieces) /\ free <= Free(tx)
  /\ pc = "write" => Total(pieces) <= Free(tx)
  /\ pc \in {"first", "rest"} => length + Total(Tail(pieces)) <= Free(tx)
  /\ pc = "enable" => Total(Tail(pieces)) <= Free(tx)

\* What holds until the interrupt has gone astray.
Orderly == ~garbled /\ ~short /\ Numbered /\ Reserved

TypeInv == TypeOK /\ PiecesOK /\ Bounded /\ BreakOK /\ NoneStuck

IInv == TypeInv /\ (astray \/ Orderly)

-----------------------------------------------------------------------------
(* Lengths and numbers                                                       *)

Number == 0 .. Numbers - 1

LEMMA NumbersNat == Numbers \in Nat /\ Numbers > Size
  BY FramesAssumption

\* Counting bytes on and back.
LEMMA CountOn ==
  ASSUME NEW l \in Number, NEW a \in 0 .. Size, NEW b \in 0 .. Size, a + b <= Size
  PROVE  /\ (l + a) % Numbers \in Number
         /\ (((l + a) % Numbers) + b) % Numbers = (l + (a + b)) % Numbers
  BY NumbersNat, CountOnMod DEF Number

LEMMA CountBack ==
  ASSUME NEW l \in Number, NEW k \in 0 .. Size - 1
  PROVE  /\ l % Numbers = l
         /\ (((l + (k + 1)) % Numbers) - 1) % Numbers = (l + k) % Numbers
  BY NumbersNat, CountBackMod DEF Number

\* The pieces of a frame are as long as framesize says.
LEMMA PiecesLemma ==
  ASSUME NEW f \in Frames
  PROVE  LET s == Pieces(f) IN
         /\ s \in Seq(Nat \ {0}) /\ Len(s) <= 4 /\ s # <<>>
         /\ Total(s) = f.headerlen + f.datalen + 3 + 1
         /\ f.headerlen + f.datalen + 3 + 1 \in Nat
<1>1. f.headerlen \in Nat /\ f.datalen \in Nat
  BY FramesAssumption
<1>2. CASE f.datalen = 0
  <2>1. Pieces(f) = <<3, f.headerlen, 1>> /\ f.headerlen > 0
    BY <1>1, <1>2, FramesAssumption DEF Pieces
  <2> QED
    BY <1>1, <1>2, <2>1 DEF Total, PieceAt
<1>3. CASE f.datalen > 0 /\ f.headerlen = 0
  <2>1. Pieces(f) = <<3, f.datalen, 1>>
    BY <1>1, <1>3 DEF Pieces
  <2> QED
    BY <1>1, <1>3, <2>1 DEF Total, PieceAt
<1>4. CASE f.datalen > 0 /\ f.headerlen > 0
  <2>1. Pieces(f) = <<3, f.headerlen, f.datalen, 1>>
    BY <1>1, <1>4 DEF Pieces
  <2> QED
    BY <1>1, <1>4, <2>1 DEF Total, PieceAt
<1> QED
  BY <1>1, <1>2, <1>3, <1>4

\* What is left when the first piece is done.
LEMMA TotalTail ==
  ASSUME NEW s \in Seq(Nat \ {0}), Len(s) <= 4, s # <<>>
  PROVE  /\ Tail(s) \in Seq(Nat \ {0}) /\ Len(Tail(s)) <= 4
         /\ Head(s) \in Nat \ {0} /\ Total(Tail(s)) \in Nat
         /\ Total(s) = Head(s) + Total(Tail(s))
<1>1. /\ Head(s) \in Nat \ {0} /\ Tail(s) \in Seq(Nat \ {0})
      /\ Len(s) \in 1 .. 4 /\ Len(Tail(s)) = Len(s) - 1
      /\ \A i \in 1 .. Len(Tail(s)) : Tail(s)[i] = s[i + 1]
      /\ Head(s) = s[1]
  <2>1. Len(s) \in Nat \ {0}
    BY EmptySeq
  <2>2. Head(s) = s[1]
    OBVIOUS
  <2>3. /\ Head(s) \in Nat \ {0} /\ Tail(s) \in Seq(Nat \ {0})
        /\ Len(Tail(s)) = Len(s) - 1
        /\ \A i \in 1 .. Len(Tail(s)) : Tail(s)[i] = s[i + 1]
    BY HeadTailProperties, Zenon
  <2>4. Len(s) \in 1 .. 4
    <3> DEFINE n == Len(s)
    <3>1. n \in Nat \ {0} /\ n <= 4
      BY <2>1
    <3> HIDE DEF n
    <3>2. n \in 1 .. 4
      BY <3>1
    <3> QED
      BY <3>2 DEF n
  <2> QED
    BY <2>2, <2>3, <2>4
<1>2. \A i \in 1 .. Len(s) : s[i] \in Nat
  BY ElementOfSeq
<1>3. /\ PieceAt(s, 1) = Head(s)
      /\ PieceAt(s, 2) = PieceAt(Tail(s), 1)
      /\ PieceAt(s, 3) = PieceAt(Tail(s), 2)
      /\ PieceAt(s, 4) = PieceAt(Tail(s), 3)
      /\ PieceAt(Tail(s), 4) = 0
  BY <1>1 DEF PieceAt
<1>4. /\ PieceAt(s, 1) \in Nat /\ PieceAt(s, 2) \in Nat
      /\ PieceAt(s, 3) \in Nat /\ PieceAt(s, 4) \in Nat
  BY <1>1, <1>2 DEF PieceAt
<1> QED
  BY SMTT(30), <1>1, <1>3, <1>4 DEF Total

-----------------------------------------------------------------------------
(* What a state of the invariant says of the buffer                          *)

LEMMA State ==
  ASSUME TypeOK
  PROVE  /\ tx \in Cbuf(Number)
         /\ tx.head \in 0 .. Size /\ tx.tail \in 0 .. Size
         /\ tx.data \in [0 .. Size -> Number]
         /\ Used(tx) \in 0 .. Size - 1 /\ Free(tx) = Size - 1 - Used(tx)
         /\ last \in Number /\ next \in Number
<1>1. tx \in Cbuf(Number) /\ last \in Number /\ next \in Number
  BY DEF TypeOK, Number
<1>2. Used(tx) \in 0 .. Size - 1 /\ Free(tx) = Size - 1 - Used(tx)
  BY <1>1, UsedAny
<1> QED
  BY <1>1, <1>2, SizeNat DEF Cbuf, Index

\* A step that takes the first n bytes out of the buffer.
LEMMA Takes ==
  ASSUME TypeOK, Numbered, NEW n \in 0 .. Used(tx),
         tx' \in Cbuf(Number), tx'.tail = tx.tail, tx'.data = tx.data,
         tx'.head = tx.head + n \/ tx'.head = tx.head + n - Size,
         last' = (last + n) % Numbers, next' = next
  PROVE  Numbered' /\ Free(tx') = Free(tx) + n
<1>1. /\ tx \in Cbuf(Number) /\ last \in Number
      /\ Used(tx) \in 0 .. Size - 1 /\ Free(tx) = Size - 1 - Used(tx)
  BY State
<1>2. /\ Used(tx') = Used(tx) - n
      /\ \A j \in 1 .. Used(tx') : tx'.data[Place(tx', j)] = tx.data[Place(tx, j + n)]
  BY <1>1, AdvanceLemma
<1>3. Free(tx') = Size - 1 - Used(tx')
  BY <1>1, UsedAny
<1>4. \A j \in 1 .. Used(tx') : tx'.data[Place(tx', j)] = (last' + j) % Numbers
  <2> TAKE j \in 1 .. Used(tx')
  <2>1. /\ j + n \in 1 .. Used(tx) /\ n + j <= Size
        /\ n \in 0 .. Size /\ j \in 0 .. Size /\ j + n = n + j
    BY <1>1, <1>2, SizeNat
  <2>2. tx.data[Place(tx, j + n)] = (last + (j + n)) % Numbers
    BY <2>1 DEF Numbered
  <2>3. (last' + j) % Numbers = (last + (n + j)) % Numbers
    BY <1>1, <2>1, CountOn
  <2> QED
    BY <1>2, <2>1, <2>2, <2>3
<1>5. next' = (last' + Used(tx') + 1) % Numbers
  <2> DEFINE r == Used(tx') + 1
  <2>1. /\ n \in 0 .. Size /\ r \in 0 .. Size /\ n + r <= Size
        /\ n + r = Used(tx) + 1
    BY <1>1, <1>2, SizeNat
  <2>2. (last' + r) % Numbers = (last + (n + r)) % Numbers
    BY <1>1, <2>1, CountOn
  <2>3. /\ last + (Used(tx) + 1) = last + Used(tx) + 1
        /\ last' + (Used(tx') + 1) = last' + Used(tx') + 1
    <3>1. last \in Nat /\ last' \in Nat /\ Used(tx) \in Nat /\ Used(tx') \in Nat
      BY <1>1, <1>2, <2>1, CountOn, NumbersNat, SizeNat DEF Number
    <3> QED
      BY <3>1
  <2> QED
    BY <2>1, <2>2, <2>3 DEF Numbered
<1> QED
  BY <1>1, <1>2, <1>3, <1>4, <1>5, SizeNat DEF Numbered

\* A step that puts the next n bytes into the buffer, from the sequence s.
LEMMA Puts ==
  ASSUME TypeOK, Numbered, NEW n \in 0 .. Free(tx), tx.tail + n <= Size,
         NEW s \in Seq(Number), Len(s) = n,
         \A j \in 1 .. n : s[j] = (next + j - 1) % Numbers,
         tx' \in Cbuf(Number), tx'.head = tx.head,
         tx'.data = Store(tx.data, tx.tail, s),
         tx'.tail = tx.tail + n \/ tx'.tail = tx.tail + n - Size,
         last' = last, next' = (next + n) % Numbers
  PROVE  Numbered' /\ Free(tx') = Free(tx) - n
<1>1. /\ tx \in Cbuf(Number) /\ last \in Number /\ next \in Number
      /\ Used(tx) \in 0 .. Size - 1 /\ Free(tx) = Size - 1 - Used(tx)
  BY State
<1>2. n \in Nat /\ Used(tx) + n \in 0 .. Size - 1
  BY <1>1, SizeNat
<1>3. /\ Used(tx') = Used(tx) + n
      /\ \A j \in 1 .. Used(tx) : tx'.data[Place(tx', j)] = tx.data[Place(tx, j)]
      /\ \A j \in 1 .. n : tx'.data[Place(tx', Used(tx) + j)] = s[j]
  BY <1>1, StoreLemma
<1>4. Free(tx') = Size - 1 - Used(tx')
  BY <1>1, UsedAny
<1>5. next = (last + (Used(tx) + 1)) % Numbers
  <2>1. last + Used(tx) + 1 = last + (Used(tx) + 1)
    BY <1>1, NumbersNat, SizeNat DEF Number
  <2> QED
    BY <2>1 DEF Numbered
<1>6. \A j \in 1 .. n : s[j] = (last + (Used(tx) + j)) % Numbers
  <2> TAKE j \in 1 .. n
  <2>1. /\ Used(tx) + 1 \in 0 .. Size /\ j - 1 \in 0 .. Size
        /\ Used(tx) + 1 + (j - 1) <= Size /\ Used(tx) + 1 + (j - 1) = Used(tx) + j
        /\ next + j - 1 = next + (j - 1)
    BY SMTT(30), <1>1, <1>2, SizeNat, NumbersNat DEF Number
  <2>2. (next + (j - 1)) % Numbers = (last + (Used(tx) + 1 + (j - 1))) % Numbers
    BY <1>1, <1>5, <2>1, CountOn
  <2> QED
    BY <2>1, <2>2
<1>7. \A j \in 1 .. Used(tx') : tx'.data[Place(tx', j)] = (last' + j) % Numbers
  <2> TAKE j \in 1 .. Used(tx')
  <2>1. CASE j \in 1 .. Used(tx)
    BY <2>1, <1>3 DEF Numbered
  <2>2. CASE j \notin 1 .. Used(tx)
    <3> DEFINE i == j - Used(tx)
    <3>1. i \in 1 .. n /\ Used(tx) + i = j
      BY <2>2, <1>1, <1>2, <1>3
    <3> HIDE DEF i
    <3> QED
      BY <3>1, <1>3, <1>6
  <2> QED
    BY <2>1, <2>2
<1>8. next' = (last' + Used(tx') + 1) % Numbers
  <2>1. /\ Used(tx) + 1 \in 0 .. Size /\ n \in 0 .. Size /\ Used(tx) + 1 + n <= Size
        /\ last + (Used(tx) + 1 + n) = last' + Used(tx') + 1
    BY <1>1, <1>2, <1>3, SizeNat, NumbersNat DEF Number
  <2>2. (next + n) % Numbers = (last + (Used(tx) + 1 + n)) % Numbers
    BY <1>1, <1>5, <2>1, CountOn
  <2> QED
    BY <2>1, <2>2
<1> QED
  BY <1>1, <1>2, <1>3, <1>4, <1>7, <1>8, SizeNat DEF Numbered

-----------------------------------------------------------------------------
(* Every step keeps the invariant.                                           *)

LEMMA Begin == Init => IInv
<1> SUFFICES ASSUME Init
             PROVE  IInv
  OBVIOUS
<1>1. /\ tx \in Cbuf(Number) /\ tx.head = 0 /\ tx.tail = 0
      /\ last = Numbers - 1 /\ next = 0
  BY SizeNat, NumbersNat DEF Init, CbufInit, Cbuf, Index, Number
<1>2. Used(tx) = 0
  BY <1>1, UsedAny, SizeNat
<1>3. TypeInv
  <2>1. TypeOK
    <3>1. 0 \in 0 .. Size - 1 /\ 0 \in 0 .. Numbers - 1 /\ Numbers - 1 \in 0 .. Numbers - 1
      BY NumbersNat, SizeNat
    <3>2. << >> \in Seq(Nat)
      BY EmptySeq
    <3> QED
      BY <1>1, <3>1, <3>2 DEF Init, TypeOK, Number
  <2>2. PiecesOK
    BY EmptySeq DEF Init, PiecesOK
  <2>3. Bounded /\ BreakOK /\ NoneStuck
    BY <1>1 DEF Init, Bounded, BreakOK, NoneStuck
  <2> QED
    BY <2>1, <2>2, <2>3 DEF TypeInv
<1>4. Numbered
  <2>1. (last + 1) % Numbers = 0 /\ last + Used(tx) + 1 = last + 1
    BY <1>1, <1>2, NumbersNat, SizeNat
  <2> QED
    BY <1>1, <1>2, <2>1 DEF Numbered
<1> QED
  BY <1>3, <1>4 DEF Init, IInv, Orderly, Reserved

\* The interrupt.
LEMMA TxIRQStep ==
  ASSUME IInv, TxIRQ
  PROVE  IInv'
<1>1. /\ tx \in Cbuf(Number) /\ tx.head \in 0 .. Size /\ tx.tail \in 0 .. Size
      /\ tx.data \in [0 .. Size -> Number] /\ last \in Number
      /\ Used(tx) \in 0 .. Size - 1 /\ Free(tx) = Size - 1 - Used(tx)
  BY State DEF IInv, TypeInv
<1>2. CASE brk \/ ~CanGetch(tx)
  <2>1. UNCHANGED <<tx, last, garbled, astray, brk, next, pc, frame>> /\ txbl' = FALSE
    BY <1>2 DEF TxIRQ
  <2>2. TypeOK' /\ PiecesOK'
    BY <2>1 DEF frame, IInv, TypeInv, TypeOK, PiecesOK
  <2>3. Bounded' /\ BreakOK' /\ NoneStuck'
    BY <1>2, <2>1 DEF frame, IInv, TypeInv, Bounded, BreakOK, NoneStuck, CanGetch
  <2>4. astray \/ Orderly'
    BY <2>1 DEF frame, IInv, Orderly, Numbered, Reserved
  <2> QED
    BY <2>1, <2>2, <2>3, <2>4 DEF IInv, TypeInv
<1>3. CASE ~(brk \/ ~CanGetch(tx))
  <2> DEFINE h == (tx.head + 1) % Size
  <2>1. /\ tx' = [tx EXCEPT !.head = h]
        /\ last' = tx.data[tx.head] /\ tx.head # tx.tail
        /\ garbled' = (garbled \/ last' # (last + 1) % Numbers)
        /\ astray' = (astray \/ Astray)
        /\ txbl' = txbl /\ brk' = brk /\ next' = next /\ pc' = pc
        /\ pieces' = pieces /\ size' = size /\ free' = free /\ length' = length
        /\ result' = result /\ short' = short
    BY <1>1, <1>3 DEF TxIRQ, CanGetch, GetchByte, Getch, frame, Cbuf
  <2>2. /\ h \in 0 .. Size - 1
        /\ tx.head + 1 < Size => h = tx.head + 1
        /\ Size <= tx.head + 1 => h = tx.head + 1 - Size
    <3> DEFINE x == tx.head + 1
    <3>1. x \in -Size .. 2 * Size - 1 /\ 0 <= x /\ Size \in Nat \ {0}
      BY SMTT(30), <1>1, SizeNat
    <3>2. /\ 0 <= x /\ x < Size => x % Size = x
          /\ Size <= x => x % Size = x - Size
          /\ x % Size \in 0 .. Size - 1
      BY <3>1, ModLemma
    <3> QED
      BY <1>1, <3>2, SizeNat
  <2> HIDE DEF h
  <2>3. h \in Index
    BY <2>2, SizeNat DEF Index
  <2>4. /\ tx' \in Cbuf(Number) /\ tx'.head = h /\ tx'.tail = tx.tail
        /\ tx'.data = tx.data
    BY <1>1, <2>1, <2>3 DEF Cbuf
  <2>5. TypeOK'
    <3>1. last' \in Number
      BY <1>1, <2>1
    <3> QED
      BY <2>1, <2>4, <3>1 DEF IInv, TypeInv, TypeOK, Number
  <2>6. TypeInv'
    BY <2>1, <2>4, <2>5, <1>3
    DEF IInv, TypeInv, PiecesOK, Bounded, BreakOK, NoneStuck, TxIRQ
  <2>7. CASE ~astray'
    <3>1. Orderly /\ ~Astray /\ ~astray
      BY <2>1, <2>7 DEF IInv, TypeOK, TypeInv
    <3>2. 1 \in 0 .. Used(tx) /\ tx.head \in 0 .. Size - 1
      BY <1>1, <2>1, <3>1, SizeNat DEF Astray
    <3>3. last' = (last + 1) % Numbers
      <4>1. 1 \in 1 .. Used(tx) /\ 1 \in 1 .. Used(tx) + 1
        BY <1>1, <3>2
      <4>2. /\ tx.head + 1 - 1 = tx.head
            /\ tx.head + 1 - 1 < Size => Place(tx, 1) = tx.head + 1 - 1
        BY <1>1, <3>2, <4>1, PlaceAny
      <4>3. Place(tx, 1) = tx.head
        BY <3>2, <4>2, SizeNat
      <4> QED
        BY <2>1, <3>1, <4>1, <4>3 DEF Orderly, Numbered
    <3>4. h = tx.head + 1 \/ h = tx.head + 1 - Size
      BY <1>1, <2>2, SizeNat
    <3>5. Numbered' /\ Free(tx') = Free(tx) + 1
      BY <2>1, <2>4, <3>1, <3>2, <3>3, <3>4, Takes DEF IInv, TypeInv, Orderly
    <3>6. Reserved'
      <4>1. Free(tx) \in Nat
        BY <1>1, SizeNat
      <4>2. pc \in {"check", "write", "first", "rest", "enable"} =>
              Total(pieces) \in Nat /\ Total(Tail(pieces)) \in Nat
        <5>1. CASE pieces # <<>>
          BY <5>1, TotalTail DEF IInv, TypeInv, PiecesOK
        <5> QED
          BY <5>1 DEF IInv, TypeInv, PiecesOK
      <4>3. length \in Nat /\ free \in Nat
        BY SizeNat DEF IInv, TypeInv, TypeOK
      <4>4. pc' = "check" => size' = Total(pieces') /\ free' <= Free(tx')
        BY <2>1, <3>1, <3>5, <4>1, <4>2, <4>3 DEF Orderly, Reserved
      <4>5. pc' = "write" => Total(pieces') <= Free(tx')
        BY <2>1, <3>1, <3>5, <4>1, <4>2, <4>3 DEF Orderly, Reserved
      <4>6. pc' \in {"first", "rest"} => length' + Total(Tail(pieces')) <= Free(tx')
        BY <2>1, <3>1, <3>5, <4>1, <4>2, <4>3 DEF Orderly, Reserved
      <4>7. pc' = "enable" => Total(Tail(pieces')) <= Free(tx')
        BY <2>1, <3>1, <3>5, <4>1, <4>2, <4>3 DEF Orderly, Reserved
      <4> QED
        BY <4>4, <4>5, <4>6, <4>7 DEF Reserved
    <3> QED
      BY <2>1, <2>6, <3>1, <3>3, <3>5, <3>6 DEF IInv, Orderly
  <2> QED
    BY <2>6, <2>7 DEF IInv
<1> QED
  BY <1>2, <1>3

\* The call and the decision of xbee_frame_write.
LEMMA FrameBeginStep ==
  ASSUME IInv, FrameBegin
  PROVE  IInv'
<1>1. PICK f \in Frames : pieces' = Pieces(f) /\ size' = f.headerlen + f.datalen + 3 + 1
  BY DEF FrameBegin
<1>2. /\ pieces' \in Seq(Nat \ {0}) /\ Len(pieces') <= 4 /\ pieces' # <<>>
      /\ Total(pieces') = size' /\ size' \in Nat /\ pieces' \in Seq(Nat)
  <2>1. /\ pieces' \in Seq(Nat \ {0}) /\ Len(pieces') <= 4 /\ pieces' # <<>>
        /\ Total(pieces') = size' /\ size' \in Nat
    BY <1>1, PiecesLemma
  <2> QED
    BY <2>1, SeqMonotonic
<1>3. /\ pc = "idle" /\ pc' = "check" /\ free' = Free(tx)
      /\ UNCHANGED <<tx, txbl, next, last, brk, length, result, short, garbled, astray>>
  BY DEF FrameBegin, Goto, buffer
<1>4. Free(tx) \in 0 .. Size - 1
  BY State, SizeNat DEF IInv, TypeInv
<1>5. TypeInv'
  BY <1>2, <1>3, <1>4 DEF IInv, TypeInv, TypeOK, PiecesOK, Bounded, BreakOK, NoneStuck
<1>6. Orderly => Orderly'
  BY <1>2, <1>3, <1>4 DEF Orderly, Numbered, Reserved
<1> QED
  BY <1>3, <1>5, <1>6 DEF IInv

LEMMA FrameCheckStep ==
  ASSUME IInv, FrameCheck
  PROVE  IInv'
<1>1. /\ pc = "check" /\ pc' \in {"idle", "write"} /\ result' \in {0, EBUSY, EMSGSIZE}
      /\ UNCHANGED <<tx, txbl, next, last, brk, pieces, size, free, length, short, garbled,
                     astray>>
      /\ pc' = "write" => ~(free < size)
  BY DEF FrameCheck, Goto, buffer, IInv, TypeInv, TypeOK
<1>2. TypeInv'
  BY <1>1 DEF IInv, TypeInv, TypeOK, PiecesOK, Bounded, BreakOK, NoneStuck
<1>3. free \in Nat /\ size \in Nat /\ Free(tx) \in Nat
  BY State, SizeNat DEF IInv, TypeInv, TypeOK
<1>4. Orderly => Orderly'
  BY <1>1, <1>3 DEF Orderly, Numbered, Reserved
<1> QED
  BY <1>1, <1>2, <1>4 DEF IInv

\* xbee_cbuf_put: how much it takes.
LEMMA WriteBeginStep ==
  ASSUME IInv, WriteBegin
  PROVE  IInv'
<1>1. /\ pc = "write" /\ pc' = "first"
      /\ length' = IF Head(pieces) > Free(tx) THEN Free(tx) ELSE Head(pieces)
      /\ short' = (short \/ length' < Head(pieces))
      /\ UNCHANGED <<tx, txbl, next, last, brk, pieces, size, free, result, garbled, astray>>
  BY DEF WriteBegin, Goto, buffer
<1>2. /\ Head(pieces) \in Nat /\ Total(Tail(pieces)) \in Nat
      /\ Total(pieces) = Head(pieces) + Total(Tail(pieces))
  BY <1>1, TotalTail DEF IInv, TypeInv, PiecesOK
<1>3. Free(tx) \in 0 .. Size - 1 /\ Size \in Nat
  BY State, SizeNat DEF IInv, TypeInv
<1>4. length' \in 0 .. Size - 1
  BY <1>1, <1>2, <1>3
<1>5. short' \in BOOLEAN
  BY <1>1 DEF IInv, TypeInv, TypeOK
<1>6. TypeInv'
  BY <1>1, <1>4, <1>5 DEF IInv, TypeInv, TypeOK, PiecesOK, Bounded, BreakOK, NoneStuck
<1>7. ASSUME Orderly
      PROVE  Orderly'
  <2>1. Total(pieces) <= Free(tx)
    BY <1>1, <1>7 DEF Orderly, Reserved
  <2>2. length' = Head(pieces) /\ ~(length' < Head(pieces))
    BY <1>1, <1>2, <1>3, <2>1
  <2>3. length' + Total(Tail(pieces)) <= Free(tx)
    BY <1>2, <2>1, <2>2
  <2> QED
    BY <1>1, <1>7, <2>2, <2>3 DEF Orderly, Numbered, Reserved
<1> QED
  BY <1>1, <1>6, <1>7 DEF IInv

\* USART_IntEnable.
LEMMA WriteEnableStep ==
  ASSUME IInv, WriteEnable
  PROVE  IInv'
<1>1. /\ pc = "enable" /\ txbl' = TRUE /\ pieces' = Tail(pieces)
      /\ pc' \in {"idle", "write"} /\ (pc' = "write" => Tail(pieces) # <<>>)
      /\ result' \in {0, EBUSY, EMSGSIZE}
      /\ UNCHANGED <<tx, next, last, brk, size, free, length, short, garbled, astray>>
  BY DEF WriteEnable, Goto, IInv, TypeInv, TypeOK
<1>2. pieces' \in Seq(Nat \ {0}) /\ Len(pieces') <= 4 /\ pieces' \in Seq(Nat)
  <2>1. pieces' \in Seq(Nat \ {0}) /\ Len(pieces') <= 4
    BY <1>1, TotalTail DEF IInv, TypeInv, PiecesOK
  <2> QED
    BY <2>1, SeqMonotonic
<1>3. TypeInv'
  BY <1>1, <1>2 DEF IInv, TypeInv, TypeOK, PiecesOK, Bounded, BreakOK, NoneStuck
<1>4. Orderly => Orderly'
  BY <1>1 DEF Orderly, Numbered, Reserved
<1> QED
  BY <1>1, <1>3, <1>4 DEF IInv

\* The bytes to put, as a sequence.
LEMMA BytesSeq ==
  ASSUME TypeOK, NEW n \in 0 .. Size
  PROVE  /\ Bytes(n) \in Seq(Number) /\ Len(Bytes(n)) = n
         /\ \A j \in 1 .. n : Bytes(n)[j] = (next + j - 1) % Numbers
<1>1. \A j \in 1 .. n : (next + j - 1) % Numbers \in Number
  <2> TAKE j \in 1 .. n
  <2>1. /\ j - 1 \in 0 .. Size /\ 0 \in 0 .. Size /\ j - 1 + 0 <= Size /\ next \in Number
        /\ next + j - 1 = next + (j - 1)
    BY SizeNat, NumbersNat DEF TypeOK, Number
  <2>2. (next + (j - 1)) % Numbers \in Number
    BY <2>1, CountOn
  <2> QED
    BY <2>1, <2>2
<1> QED
  BY <1>1, SizeNat DEF Bytes

\* What memcpy leaves in the buffer are bytes.
LEMMA StoreType ==
  ASSUME TypeOK, NEW s \in Seq(Number), Len(s) <= Size - tx.tail
  PROVE  Store(tx.data, tx.tail, s) \in [Index -> Number]
<1>1. /\ tx.data \in [0 .. Size -> Number] /\ tx.tail \in 0 .. Size /\ Len(s) \in Nat
  BY State
<1>2. \A j \in Index : (IF j \in tx.tail .. tx.tail + Len(s) - 1
                        THEN s[j - tx.tail + 1] ELSE tx.data[j]) \in Number
  <2> TAKE j \in Index
  <2>1. j \in 0 .. Size
    BY DEF Index
  <2>2. CASE j \in tx.tail .. tx.tail + Len(s) - 1
    <3>1. j - tx.tail + 1 \in 1 .. Len(s)
      BY <1>1, <2>1, <2>2, SizeNat
    <3> QED
      BY <2>2, <3>1, ElementOfSeq
  <2>3. CASE j \notin tx.tail .. tx.tail + Len(s) - 1
    BY <1>1, <2>1, <2>3
  <2> QED
    BY <2>2, <2>3
<1> QED
  BY <1>2 DEF Store

\* xbee_cbuf_put: the first half.
LEMMA WriteFirstStep ==
  ASSUME IInv, WriteFirst
  PROVE  IInv'
<1>1. /\ tx \in Cbuf(Number) /\ tx.head \in 0 .. Size /\ tx.tail \in 0 .. Size
      /\ tx.data \in [0 .. Size -> Number] /\ last \in Number /\ next \in Number
      /\ Used(tx) \in 0 .. Size - 1 /\ Free(tx) = Size - 1 - Used(tx)
      /\ length \in 0 .. Size - 1 /\ TypeOK
  BY State DEF IInv, TypeInv, TypeOK
<1>2. /\ pc = "first" /\ pc' = "rest"
      /\ UNCHANGED <<txbl, last, brk, pieces, size, free, result, short, garbled, astray>>
  BY DEF WriteFirst, Goto
<1>3. /\ length \in 0 .. Size
      /\ Bytes(length) \in Seq(Number) /\ Len(Bytes(length)) = length
      /\ \A j \in 1 .. length : Bytes(length)[j] = (next + j - 1) % Numbers
  <2>1. length \in 0 .. Size
    BY <1>1, SizeNat
  <2> QED
    BY <1>1, <2>1, BytesSeq
<1>4. Total(Tail(pieces)) \in Nat
  BY <1>2, TotalTail DEF IInv, TypeInv, PiecesOK
<1>5. CASE ~PutWraps(tx, Bytes(length))
  <2>1. UNCHANGED <<tx, next, length>> /\ length <= Size - tx.tail
    BY <1>1, <1>3, <1>5, SizeNat DEF WriteFirst, PutWraps
  <2>2. tx.tail + length <= Size
    BY <1>1, <2>1, SizeNat
  <2>3. TypeInv'
    BY <1>2, <2>1, <2>2 DEF IInv, TypeInv, TypeOK, PiecesOK, Bounded, BreakOK, NoneStuck
  <2>4. Orderly => Orderly'
    BY <1>2, <2>1 DEF Orderly, Numbered, Reserved
  <2> QED
    BY <1>2, <2>3, <2>4 DEF IInv
<1>6. CASE PutWraps(tx, Bytes(length))
  <2> DEFINE n == Size - tx.tail
             s == SubSeq(Bytes(length), 1, n)
             a == Store(tx.data, tx.tail, s)
  <2>1. /\ n < length /\ n \in 0 .. Size /\ n \in Int /\ tx.tail + n = Size
        /\ 0 = tx.tail + n - Size
    BY <1>1, <1>3, <1>6, SizeNat DEF PutWraps
  <2>2. /\ tx' = [tx EXCEPT !.data = a, !.tail = 0]
        /\ next' = (next + Size - tx.tail) % Numbers /\ length' = length - n
    BY <1>1, <1>6 DEF WriteFirst, PutFirst, Cbuf
  <2>3. /\ s \in Seq(Number) /\ Len(s) = n
        /\ \A j \in 1 .. n : s[j] = (next + j - 1) % Numbers
    <3> HIDE DEF n
    <3>1. \A i \in 1 .. n : Bytes(length)[i] \in Number /\ i \in 1 .. length
      BY <1>1, <1>3, <2>1, ElementOfSeq
    <3>2. /\ s \in Seq(Number)
          /\ Len(s) = IF 1 <= n THEN n - 1 + 1 ELSE 0
          /\ \A i \in 1 .. n - 1 + 1 : s[i] = Bytes(length)[1 + i - 1]
      BY <2>1, <3>1, SubSeqProperties
    <3>3. n - 1 + 1 = n /\ \A i \in 1 .. n : 1 + i - 1 = i
      BY <2>1, SizeNat
    <3> QED
      BY <1>3, <2>1, <3>1, <3>2, <3>3
  <2>4. a \in [Index -> Number]
    <3>1. Len(s) <= Size - tx.tail
      BY <1>1, <2>3, SizeNat
    <3> HIDE DEF s
    <3> QED
      BY <1>1, <2>3, <3>1, StoreType
  <2> HIDE DEF a
  <2>5. /\ tx' \in Cbuf(Number) /\ tx'.head = tx.head /\ tx'.tail = 0 /\ tx'.data = a
    <3> DEFINE z == 0
    <3>1. z \in Index /\ tx' = [tx EXCEPT !.data = a, !.tail = z]
      BY <2>2, SizeNat DEF Index
    <3> HIDE DEF z
    <3>2. tx' \in Cbuf(Number) /\ tx'.head = tx.head /\ tx'.tail = z /\ tx'.data = a
      BY <1>1, <2>4, <3>1 DEF Cbuf
    <3> QED
      BY <3>2 DEF z
  <2>6. next' = (next + n) % Numbers /\ next' \in Number
    <3>1. next + Size - tx.tail = next + n /\ n \in 0 .. Size /\ 0 \in 0 .. Size /\ n + 0 <= Size
      BY <1>1, <2>1, SizeNat, NumbersNat DEF Number
    <3>2. (next + n) % Numbers \in Number
      BY <1>1, <3>1, CountOn
    <3> QED
      BY <2>2, <3>1, <3>2
  <2> HIDE DEF n
  <2>7. length' \in 0 .. Size - 1 /\ tx'.tail + length' <= Size
    <3>1. \A l \in 0 .. Size - 1, m \in 0 .. Size :
            m < l => l - m \in 0 .. Size - 1 /\ 0 + (l - m) <= Size
      BY SizeNat
    <3>2. length' = length - n /\ n < length /\ n \in 0 .. Size /\ length \in 0 .. Size - 1
      BY <1>1, <2>1, <2>2
    <3>3. length - n \in 0 .. Size - 1 /\ 0 + (length - n) <= Size
      BY <3>1, <3>2
    <3> QED
      BY <2>5, <3>2, <3>3
  <2>8. TypeInv'
    BY <1>2, <2>5, <2>6, <2>7
    DEF IInv, TypeInv, TypeOK, PiecesOK, Bounded, BreakOK, NoneStuck, Number
  <2>9. ASSUME Orderly
        PROVE  Orderly'
    <3>1. length + Total(Tail(pieces)) <= Free(tx)
      BY <1>2, <2>9 DEF Orderly, Reserved
    <3>2. n \in 0 .. Free(tx) /\ tx.tail + n <= Size
      BY <1>1, <1>4, <2>1, <3>1, SizeNat
    <3> HIDE DEF s
    <3>3. /\ tx'.data = Store(tx.data, tx.tail, s) /\ last' = last
          /\ tx'.tail = tx.tail + n \/ tx'.tail = tx.tail + n - Size
      BY <1>2, <2>1, <2>5 DEF a
    <3>4. Numbered' /\ Free(tx') = Free(tx) - n
      BY <1>1, <2>3, <2>5, <2>6, <2>9, <3>2, <3>3, Puts DEF Orderly
    <3>5. length' + Total(Tail(pieces)) <= Free(tx')
      BY <1>1, <1>4, <2>1, <2>2, <3>1, <3>4, SizeNat
    <3> QED
      BY <1>2, <2>9, <3>4, <3>5 DEF Orderly, Reserved
  <2> QED
    BY <1>2, <2>8, <2>9 DEF IInv
<1> QED
  BY <1>5, <1>6

\* The second half.
LEMMA WriteRestStep ==
  ASSUME IInv, WriteRest
  PROVE  IInv'
<1>1. /\ tx \in Cbuf(Number) /\ tx.head \in 0 .. Size /\ tx.tail \in 0 .. Size
      /\ tx.data \in [0 .. Size -> Number] /\ last \in Number /\ next \in Number
      /\ Used(tx) \in 0 .. Size - 1 /\ Free(tx) = Size - 1 - Used(tx)
      /\ length \in 0 .. Size - 1 /\ TypeOK
  BY State DEF IInv, TypeInv, TypeOK
<1>2. /\ pc = "rest" /\ pc' = "enable" /\ length' = 0
      /\ next' = (next + length) % Numbers
      /\ tx.tail + length <= Size
      /\ UNCHANGED <<txbl, last, brk, pieces, size, free, result, short, garbled, astray>>
  BY DEF WriteRest, Goto, IInv, TypeInv, Bounded
<1>3. /\ length \in 0 .. Size
      /\ Bytes(length) \in Seq(Number) /\ Len(Bytes(length)) = length
      /\ \A j \in 1 .. length : Bytes(length)[j] = (next + j - 1) % Numbers
  <2>1. length \in 0 .. Size
    BY <1>1, SizeNat
  <2> QED
    BY <1>1, <2>1, BytesSeq
<1>4. Total(Tail(pieces)) \in Nat
  BY <1>2, TotalTail DEF IInv, TypeInv, PiecesOK
<1> DEFINE a == Store(tx.data, tx.tail, Bytes(length))
           t == tx.tail + length
<1>5. a \in [Index -> Number] /\ t \in Index
  <2>1. Len(Bytes(length)) <= Size - tx.tail
    BY <1>1, <1>2, <1>3, SizeNat
  <2>2. t \in 0 .. Size
    BY <1>1, <1>2, SizeNat
  <2> QED
    BY <1>1, <1>3, <2>1, <2>2, StoreType DEF Index
<1>6. tx' = [tx EXCEPT !.data = a, !.tail = t]
  BY <1>1, <1>3 DEF WriteRest, PutRest, Cbuf
<1> HIDE DEF a, t
<1>7. /\ tx' \in Cbuf(Number) /\ tx'.head = tx.head /\ tx'.tail = t /\ tx'.data = a
  BY <1>1, <1>5, <1>6 DEF Cbuf
<1>8. next' \in Number
  <2>1. length \in 0 .. Size /\ 0 \in 0 .. Size /\ length + 0 <= Size
    BY <1>3, SizeNat
  <2> QED
    BY <1>1, <1>2, <2>1, CountOn
<1>9. TypeInv'
  BY <1>2, <1>7, <1>8, SizeNat
  DEF IInv, TypeInv, TypeOK, PiecesOK, Bounded, BreakOK, NoneStuck, Number
<1>10. ASSUME Orderly
       PROVE  Orderly'
  <2>1. length + Total(Tail(pieces)) <= Free(tx)
    BY <1>2, <1>10 DEF Orderly, Reserved
  <2>2. length \in 0 .. Free(tx)
    BY <1>1, <1>4, <2>1, SizeNat
  <2>3. Numbered' /\ Free(tx') = Free(tx) - length
    BY <1>1, <1>2, <1>3, <1>7, <1>10, <2>2, Puts DEF Orderly, a, t
  <2>4. Total(Tail(pieces)) <= Free(tx')
    BY <1>1, <1>4, <2>1, <2>3, SizeNat
  <2> QED
    BY <1>2, <1>10, <2>3, <2>4 DEF Orderly, Reserved
<1> QED
  BY <1>2, <1>9, <1>10 DEF IInv

\* The break, and the flush inside it.
LEMMA BreakStep ==
  ASSUME IInv, BreakOn \/ BreakOff
  PROVE  IInv'
<1>1. /\ UNCHANGED <<tx, next, last, frame, garbled, astray>>
      /\ pc' \in {"break", "idle"} /\ txbl' \in BOOLEAN
      /\ brk' = (pc' = "break") /\ (pc' = "idle" => txbl')
  BY DEF BreakOn, BreakOff, Goto
<1>2. TypeInv'
  BY <1>1 DEF frame, IInv, TypeInv, TypeOK, PiecesOK, Bounded, BreakOK, NoneStuck
<1>3. Orderly => Orderly'
  BY <1>1 DEF frame, Orderly, Numbered, Reserved
<1> QED
  BY <1>1, <1>2, <1>3 DEF IInv

LEMMA TxFlushStep ==
  ASSUME IInv, TxFlush
  PROVE  IInv'
<1>1. /\ tx \in Cbuf(Number) /\ tx.head \in 0 .. Size /\ tx.tail \in 0 .. Size
      /\ last \in Number /\ next \in Number
      /\ Used(tx) \in 0 .. Size - 1
  BY State DEF IInv, TypeInv
<1>2. /\ pc = "break" /\ pc' = "flushed" /\ tx' = [tx EXCEPT !.head = tx.tail]
      /\ last' = (next - 1) % Numbers
      /\ UNCHANGED <<txbl, next, brk, frame, garbled, astray>>
  BY DEF TxFlush, Goto, Flush
<1>3. /\ tx' \in Cbuf(Number) /\ tx'.tail = tx.tail /\ tx'.data = tx.data
      /\ tx'.head = tx.tail
  BY <1>1, <1>2 DEF Cbuf
<1>4. last' \in Number
  BY <1>1, <1>2, NumbersNat, SizeNat, ModLemma DEF Number
<1>5. TypeInv'
  BY <1>2, <1>3, <1>4
  DEF frame, IInv, TypeInv, TypeOK, PiecesOK, Bounded, BreakOK, NoneStuck, Number
<1>6. ASSUME Orderly
      PROVE  Orderly'
  <2>1. Used(tx') = 0
    <3>1. Fill(tx.tail, tx.tail, Used(tx'))
      BY <1>3, FillUsed
    <3> QED
      BY <3>1, SizeNat DEF Fill
  <2>2. last' = (last + Used(tx)) % Numbers
    <3>1. last + Used(tx) + 1 = last + (Used(tx) + 1)
      BY <1>1, NumbersNat, SizeNat DEF Number
    <3>2. next = (last + (Used(tx) + 1)) % Numbers
      BY <1>6, <3>1 DEF Orderly, Numbered
    <3> QED
      BY <1>1, <1>2, <3>2, CountBack
  <2>3. next' = (last' + Used(tx') + 1) % Numbers
    <3>1. /\ Used(tx) \in 0 .. Size /\ 1 \in 0 .. Size /\ Used(tx) + 1 <= Size
          /\ last + (Used(tx) + 1) = last + Used(tx) + 1
          /\ last' + 0 + 1 = last' + 1
      BY <1>1, <1>4, NumbersNat, SizeNat DEF Number
    <3>2. (last' + 1) % Numbers = (last + (Used(tx) + 1)) % Numbers
      BY <1>1, <2>2, <3>1, CountOn
    <3> QED
      BY <1>2, <1>6, <2>1, <3>1, <3>2 DEF Orderly, Numbered
  <2>4. Numbered'
    BY <2>1, <2>3 DEF Numbered
  <2> QED
    BY <1>2, <1>6, <2>4 DEF frame, Orderly, Reserved
<1> QED
  BY <1>2, <1>5, <1>6 DEF IInv

LEMMA Steps ==
  ASSUME IInv, [Next]_vars
  PROVE  IInv'
<1>1. CASE TxIRQ
  BY <1>1, TxIRQStep
<1>2. CASE FrameBegin
  BY <1>2, FrameBeginStep
<1>3. CASE FrameCheck
  BY <1>3, FrameCheckStep
<1>4. CASE WriteBegin
  BY <1>4, WriteBeginStep
<1>5. CASE WriteFirst
  BY <1>5, WriteFirstStep
<1>6. CASE WriteRest
  BY <1>6, WriteRestStep
<1>7. CASE WriteEnable
  BY <1>7, WriteEnableStep
<1>8. CASE BreakOn \/ BreakOff
  BY <1>8, BreakStep
<1>9. CASE TxFlush
  BY <1>9, TxFlushStep
<1>10. CASE UNCHANGED vars
  BY <1>10 DEF vars, buffer, frame, IInv, TypeInv, TypeOK, PiecesOK, Bounded, BreakOK,
       NoneStuck, Orderly, Numbered, Reserved
<1> QED
  BY <1>1, <1>2, <1>3, <1>4, <1>5, <1>6, <1>7, <1>8, <1>9, <1>10 DEF Next

-----------------------------------------------------------------------------
(* The theorems                                                              *)

\* The inductive invariant holds in every state.
THEOREM Invariance == Spec => []IInv
  BY Begin, Steps, PTL DEF Spec

\* Every variable keeps its type: in particular neither half of xbee_cbuf_put
\* stores beyond the end of tx_buffer, even when the interrupt has gone astray.
THEOREM TypeCorrect == Spec => []TypeOK
<1>1. IInv => TypeOK
  BY DEF IInv, TypeInv
<1> QED
  BY <1>1, Invariance, PTL

\* No byte waits with the interrupt disabled: wherever the interrupt disables
\* itself during a write, the task enables it again before it returns.
THEOREM NeverStuck == Spec => []NoneStuck
<1>1. IInv => NoneStuck
  BY DEF IInv, TypeInv
<1> QED
  BY <1>1, Invariance, PTL

\* The bytes of the frames leave in the order they were written, each once,
\* until the interrupt reads where nothing had been put.
THEOREM InOrder == Spec => []InOrderUntilAstray
<1>1. IInv => InOrderUntilAstray
  BY DEF IInv, Orderly, InOrderUntilAstray, TypeInv, TypeOK
<1> QED
  BY <1>1, Invariance, PTL

\* xbee_frame_write leaves no partial frame behind: the room it found is still
\* there for the last piece, for every length of header and data.
THEOREM FramesWhole == Spec => []WholeFrames
<1>1. IInv => WholeFrames
  BY DEF IInv, Orderly, WholeFrames, TypeInv, TypeOK
<1> QED
  BY <1>1, Invariance, PTL
=============================================================================
