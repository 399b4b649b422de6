-------------------------------- MODULE CBuf --------------------------------
(***************************************************************************)
(* The circular buffer of src/XBee/xbee_cbuf.c, as operators on a record   *)
(* with its head, its tail and its bytes: written at the tail, read at the *)
(* head.  Size is cbuf->mask + 1, a power of two; `& cbuf->mask' is        *)
(* % Size.  xbee_cbuf_put and xbee_cbuf_get store an index that may equal  *)
(* Size, which is congruent to 0 but not equal to it; the byte at that     *)
(* index lies behind the buffer.                                           *)
(***************************************************************************)
EXTENDS Integers, Sequences

CONSTANT Size

ASSUME SizeAssumption == Size \in {4, 8, 16, 32, 64, 128, 256, 512, 1024, 2048}

Index == 0 .. Size

Cbuf(Value) == [head : Index, tail : Index, data : [Index -> Value]]

\* xbee_cbuf_init over a buffer that holds v everywhere.
CbufInit(v) == [head |-> 0, tail |-> 0, data |-> [k \in Index |-> v]]

Used(c) == (c.tail - c.head) % Size
Free(c) == (c.head - c.tail - 1) % Size

\* The byte goes to the tail in any case; the tail moves unless this fills the
\* buffer.
Putch(c, ch) ==
  LET d == [c EXCEPT !.data[c.tail] = ch]
      t == (c.tail + 1) % Size
  IN IF t = c.head THEN d ELSE [d EXCEPT !.tail = t]

\* A byte can be got; the byte; the buffer without it.
CanGetch(c) == c.head # c.tail
GetchByte(c) == c.data[c.head]
Getch(c) == [c EXCEPT !.head = (@ + 1) % Size]

Flush(c) == [c EXCEPT !.head = c.tail]

\* memcpy of the sequence s to index k
Store(data, k, s) ==
  [j \in Index |-> IF j \in k .. k + Len(s) - 1 THEN s[j - k + 1] ELSE data[j]]

\* xbee_cbuf_put of s, which must fit: first what reaches beyond the end of the
\* buffer makes it wrap, then the rest.  The two halves are separate stores.

\* Fault: one byte too many counts as before the end.
PutWrapsLate(c, s) == Len(s) > Size - c.tail + 1

PutWraps(c, s) == Len(s) > Size - c.tail
PutFirst(c, s) ==
  [c EXCEPT !.data = Store(@, c.tail, SubSeq(s, 1, Size - c.tail)), !.tail = 0]
PutRest(c, s) == [c EXCEPT !.data = Store(@, c.tail, s), !.tail = @ + Len(s)]

\* xbee_cbuf_get of n bytes, which must be there, likewise in two halves.

\* Fault: one byte too many counts as before the end.
GetWrapsLate(c, n) == n > Size - c.head + 1

GetWraps(c, n) == n > Size - c.head
GetFirst(c) == [c EXCEPT !.head = 0]
GetRest(c, n) == [c EXCEPT !.head = @ + n]
BytesAt(c, n) == [j \in 1 .. n |-> c.data[c.head + j - 1]]
=============================================================================
