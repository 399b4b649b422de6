----------------------------- MODULE GnssProofs -----------------------------
(***************************************************************************)
(* Proved of Gnss for every payload length, byte width, set of solutions    *)
(* and of other messages: the parser stays within its half and finds every  *)
(* good packet that begins while it waits, the half gnssSln copies from     *)
(* stands still, and whatever comes over the line, each copy is the payload *)
(* of one packet that was heard whole, with the right checksum.             *)
(*                                                                          *)
(* The invariant follows a packet byte by byte.  What gnssCksum computes    *)
(* along the way is stated in closed form (Sums), so that the last two      *)
(* bytes of the packet are known without an induction over the payload.     *)
(* For a packet with any payload, the sums are followed along the bytes     *)
(* heard (Runs); that they are those of Fletcher is shown by the least      *)
(* number for which they would differ.                                      *)
(***************************************************************************)
EXTENDS Gnss, SequenceTheorems, WellFoundedInduction, TLAPS

(* The inductive invariant                                                   *)

\* The static variables in each state of the parser: what is counted stays
\* within the half that is written, and a length within two bytes.
ParserInv ==
  /\ state # "PAYLOAD" => i < 2
  /\ state = "SYNC" => valid /\ len = 0 /\ cksum = <<0, 0>>
  /\ state = "CLSID" => len = 0
  /\ state = "LENGTH" => len < Base /\ (i = 0 => len = 0) /\ (valid /\ i = 1 => len = PayLen)
  /\ state \in {"PAYLOAD", "CKSUM"} /\ valid => len = PayLen
  /\ state = "PAYLOAD" /\ valid => i < PayLen

\* gnssSln copies from a half it has locked, and has what is there.
ReaderInv ==
  /\ pc = "copy" => front # -1 /\ src \in {0, 1} /\ locks[src]
  /\ pc = "copy" => \A k \in 1 .. Len(sln) : sln[k] = navPvts[src][k - 1]
  /\ pc = "idle" => sln = << >>

TypeInv == TypeOK /\ ParserInv /\ ReaderInv

\* The sums of the header and of n payload bytes v, before they are cut to a
\* byte: the sum of the bytes, and the sum of the sums.
Triangle(n) == (n * (n + 1)) \div 2
Sums(n, v) ==
  LET h == NavPvt[1] + NavPvt[2] + PayLen
      hh == 4 * NavPvt[1] + 3 * NavPvt[2] + 2 * PayLen
  IN <<h + n * v, hh + n * h + v * Triangle(n)>>
Cut(s) == <<s[1] % Base, s[2] % Base>>

\* The checksum before byte n of the packet, up to the length.
HeaderSums(n) ==
  CASE n <= 3 -> <<0, 0>>
    [] n = 4  -> <<NavPvt[1], NavPvt[1]>>
    [] n = 5  -> <<NavPvt[1] + NavPvt[2], 2 * NavPvt[1] + NavPvt[2]>>
    [] n = 6  -> <<NavPvt[1] + NavPvt[2] + PayLen, 3 * NavPvt[1] + 2 * NavPvt[2] + PayLen>>

\* The parser before byte n of a packet that found it waiting.  The back half
\* is filled unless gnssSln has locked it.
Parsed(n) ==
  /\ n \in 1 .. 2 => state = "SYNC" /\ i = n - 1
  /\ n \in 3 .. 4 => state = "CLSID" /\ i = n - 3 /\ valid /\ cksum = Cut(HeaderSums(n))
  /\ n \in 5 .. 6 => state = "LENGTH" /\ i = n - 5 /\ valid /\ cksum = Cut(HeaderSums(n))
  /\ n \in 7 .. PayLen + 6 =>
       /\ state = "PAYLOAD" /\ i = n - 7 /\ len = PayLen
       /\ valid <=> (i = 0 \/ ~locks[Back])
       /\ valid => cksum = Cut(Sums(i, good))
       /\ valid => \A j \in 0 .. i - 1 : navPvts[Back][j] = good
  /\ n \in PayLen + 7 .. PayLen + 8 =>
       /\ state = "CKSUM" /\ i = n - (PayLen + 7)
       /\ valid <=> ~locks[Back]
       /\ valid => cksum = Cut(Sums(PayLen, good)) /\ navPvts[Back] = Payload(good)

\* What is still to arrive is the end of the packet.
Arriving(n) ==
  /\ n \in 1 .. PayLen + 8 /\ Len(rest) = PayLen + 9 - n
  /\ \A k \in 1 .. Len(rest) : rest[k] = Packet(good)[n + k - 1]

\* Byte by byte, the parser follows the packet.
GoodInv ==
  good # NoSolution /\ aligned /\ rest # << >> =>
    \E n \in 1 .. PayLen + 8 : Arriving(n) /\ Parsed(n)

\* The sums over the header and the first n payload bytes of the bytes b, one
\* after the other, before they are cut to a byte.
HeadSums ==
  <<NavPvt[1] + NavPvt[2] + PayLen, 4 * NavPvt[1] + 3 * NavPvt[2] + 2 * PayLen>>
Runs(b, n) ==
  {s \in [0 .. n -> Nat \X Nat] :
     /\ s[0] = HeadSums
     /\ \A k \in 1 .. n :
          s[k] = <<s[k - 1][1] + b[k + 6], (s[k - 1][2] + s[k - 1][1]) + b[k + 6]>>}

\* The first n payload bytes of b are in the back half and in the checksum.
Filled(b, n) ==
  /\ n > 0 => ~locks[Back]
  /\ \A k \in 0 .. n - 1 : navPvts[Back][k] = b[k + 7]
  /\ \E s \in Runs(b, n) : cksum = Cut(s[n])

\* The parser, while it takes what it reads for a NAV-PVT packet, has read b.
Read(b) ==
  /\ state = "SYNC" => Len(b) = i
  /\ state = "CLSID" => Len(b) = 2 + i /\ cksum = Cut(HeaderSums(3 + i))
  /\ state = "LENGTH" => Len(b) = 4 + i /\ cksum = Cut(HeaderSums(5 + i))
  /\ state = "PAYLOAD" => Len(b) = 6 + i /\ Filled(b, i)
  /\ state = "CKSUM" => Len(b) = PayLen + 6 + i /\ Filled(b, PayLen)
  /\ state = "CKSUM" /\ i = 1 => b[PayLen + 7] = cksum[1]

\* What the parser has read was heard, and what has become the front half came
\* in a whole packet.
HeardInv ==
  /\ \A b \in heard : BeginsPacket(b)
  /\ valid /\ (state = "SYNC" => i = 1) => \E b \in heard : Read(b)
  /\ front # -1 => navPvts[front] \in fixes
  /\ pc = "copy" => navPvts[src] \in fixes

-----------------------------------------------------------------------------
(* Packets                                                                   *)

\* What ConstantsAssumption says, in the form the steps need.
LEMMA Constants ==
  /\ Base \in Nat /\ Base > 0
  /\ PayLen \in Nat /\ PayLen > 0 /\ PayLen < Base /\ PayLen \in Byte
  /\ 0 \in Byte
BY ConstantsAssumption DEF Byte

\* The two bytes of each mark.
LEMMA SyncNavPvt ==
  /\ Sync = <<Sync[1], Sync[2]>> /\ Sync[1] \in Byte /\ Sync[2] \in Byte
  /\ NavPvt = <<NavPvt[1], NavPvt[2]>> /\ NavPvt[1] \in Byte /\ NavPvt[2] \in Byte
<1>1. Sync \in Byte \X Byte /\ NavPvt \in Byte \X Byte
  BY ConstantsAssumption
<1>2. \A p \in Byte \X Byte : p = <<p[1], p[2]>> /\ p[1] \in Byte /\ p[2] \in Byte
  OBVIOUS
<1> QED
  BY <1>1, <1>2

\* The checksum of a packet is two bytes, and the sums of its whole payload.
LEMMA BodyCksumBytes ==
  ASSUME NEW v \in Byte
  PROVE  /\ BodyCksum(v) = Cut(Sums(PayLen, v))
         /\ BodyCksum(v) \in Byte \X Byte
<1>0. \A x \in Nat : x % Base \in Byte
  BY Constants DEF Byte
<1>1. /\ NavPvt[1] \in Nat /\ NavPvt[2] \in Nat /\ PayLen \in Nat /\ v \in Nat
  BY Constants, SyncNavPvt DEF Byte
<1>2. (PayLen * (PayLen + 1)) \div 2 \in Nat
  <2>1. PayLen * (PayLen + 1) \in Nat
    BY <1>1
  <2>2. \A x \in Nat : x \div 2 \in Nat
    OBVIOUS
  <2> QED
    BY <2>1, <2>2
<1>3. BodyCksum(v) = Cut(Sums(PayLen, v))
  BY DEF BodyCksum, Cut, Sums, Triangle
<1>4. Sums(PayLen, v)[1] \in Nat
  <2>1. PayLen * v \in Nat
    BY <1>1
  <2> QED
    BY <1>1, <2>1 DEF Sums
<1>5. Sums(PayLen, v)[2] \in Nat
  <2> DEFINE t == Triangle(PayLen)
             h == NavPvt[1] + NavPvt[2] + PayLen
  <2>1. t \in Nat
    BY <1>2 DEF Triangle
  <2>2. h \in Nat
    BY <1>1
  <2>3. Sums(PayLen, v)[2] = (4 * NavPvt[1] + 3 * NavPvt[2] + 2 * PayLen) + PayLen * h + v * t
    BY DEF Sums
  <2> HIDE DEF t, h
  <2>4. PayLen * h \in Nat /\ v * t \in Nat
    BY <1>1, <2>1, <2>2
  <2> QED
    BY <1>1, <2>3, <2>4
<1> QED
  BY <1>0, <1>3, <1>4, <1>5 DEF Cut

\* Two sequences of bytes one after the other.
LEMMA Joined ==
  ASSUME NEW s \in Seq(Byte), NEW t \in Seq(Byte)
  PROVE  /\ s \o t \in Seq(Byte) /\ Len(s \o t) = Len(s) + Len(t)
         /\ \A k \in 1 .. Len(s) : (s \o t)[k] = s[k]
         /\ \A k \in Len(s) + 1 .. Len(s) + Len(t) : (s \o t)[k] = t[k - Len(s)]
<1> DEFINE m == Len(s)
           n == Len(t)
<1>0. m \in Nat /\ n \in Nat
  OBVIOUS
<1>1. /\ s \o t \in Seq(Byte) /\ Len(s \o t) = m + n
      /\ \A k \in 1 .. m + n : (s \o t)[k] = IF k <= m THEN s[k] ELSE t[k - m]
  BY ConcatProperties
<1> HIDE DEF m, n
<1>2. \A k \in 1 .. m : k \in 1 .. m + n /\ k <= m
  BY <1>0
<1>3. \A k \in m + 1 .. m + n : k \in 1 .. m + n /\ ~(k <= m)
  BY <1>0
<1>4. /\ s \o t \in Seq(Byte) /\ Len(s \o t) = m + n
      /\ \A k \in 1 .. m : (s \o t)[k] = s[k]
      /\ \A k \in m + 1 .. m + n : (s \o t)[k] = t[k - m]
  BY <1>1, <1>2, <1>3
<1> QED
  BY <1>4 DEF m, n

\* A pair of bytes as a sequence.
LEMMA TwoBytes ==
  ASSUME NEW a \in Byte, NEW b \in Byte
  PROVE  <<a, b>> \in Seq(Byte) /\ Len(<<a, b>>) = 2 /\ <<a, b>>[1] = a /\ <<a, b>>[2] = b
  OBVIOUS

\* The bytes every NAV-PVT packet begins with.
LEMMA HeaderBytes ==
  /\ Header \in Seq(Byte) /\ Len(Header) = 6
  /\ Header[1] = Sync[1] /\ Header[2] = Sync[2] /\ Header[3] = NavPvt[1]
  /\ Header[4] = NavPvt[2] /\ Header[5] = PayLen /\ Header[6] = 0
<1> DEFINE z == <<PayLen, 0>>
           a == Sync \o NavPvt
           q == a \o z
<1>1. /\ Sync \in Seq(Byte) /\ Len(Sync) = 2 /\ NavPvt \in Seq(Byte) /\ Len(NavPvt) = 2
  <2>1. /\ <<Sync[1], Sync[2]>> \in Seq(Byte) /\ Len(<<Sync[1], Sync[2]>>) = 2
        /\ <<NavPvt[1], NavPvt[2]>> \in Seq(Byte) /\ Len(<<NavPvt[1], NavPvt[2]>>) = 2
    BY SyncNavPvt, TwoBytes
  <2>2. Sync = <<Sync[1], Sync[2]>> /\ NavPvt = <<NavPvt[1], NavPvt[2]>>
    BY SyncNavPvt
  <2> QED
    BY <2>1, <2>2, Zenon
<1>2. z \in Seq(Byte) /\ Len(z) = 2 /\ z[1] = PayLen /\ z[2] = 0
  BY Constants, TwoBytes
<1>3. Header = q
  BY DEF Header
<1> HIDE DEF z
<1>4. /\ a \in Seq(Byte) /\ Len(a) = 4
      /\ a[1] = Sync[1] /\ a[2] = Sync[2] /\ a[3] = NavPvt[1] /\ a[4] = NavPvt[2]
  <2>1. /\ a \in Seq(Byte) /\ Len(a) = Len(Sync) + Len(NavPvt)
        /\ \A k \in 1 .. Len(Sync) : a[k] = Sync[k]
        /\ \A k \in Len(Sync) + 1 .. Len(Sync) + Len(NavPvt) : a[k] = NavPvt[k - Len(Sync)]
    BY <1>1, Joined
  <2> HIDE DEF a
  <2> QED
    BY <1>1, <2>1
<1> HIDE DEF a
<1>5. /\ q \in Seq(Byte) /\ Len(q) = 6
      /\ \A k \in 1 .. 4 : q[k] = a[k]
      /\ q[5] = PayLen /\ q[6] = 0
  <2>1. /\ q \in Seq(Byte) /\ Len(q) = Len(a) + Len(z)
        /\ \A k \in 1 .. Len(a) : q[k] = a[k]
        /\ \A k \in Len(a) + 1 .. Len(a) + Len(z) : q[k] = z[k - Len(a)]
    BY <1>2, <1>4, Joined
  <2> HIDE DEF q
  <2> QED
    BY <1>2, <1>4, <2>1
<1> HIDE DEF q
<1> QED
  BY <1>3, <1>4, <1>5

\* The bytes of a packet by their number.
LEMMA PacketBytes ==
  ASSUME NEW v \in Byte
  PROVE  /\ Packet(v) \in Seq(Byte) /\ Len(Packet(v)) = PayLen + 8
         /\ Packet(v)[1] = Sync[1] /\ Packet(v)[2] = Sync[2]
         /\ Packet(v)[3] = NavPvt[1] /\ Packet(v)[4] = NavPvt[2]
         /\ Packet(v)[5] = PayLen /\ Packet(v)[6] = 0
         /\ \A k \in 7 .. PayLen + 6 : Packet(v)[k] = v
         /\ Packet(v)[PayLen + 7] = BodyCksum(v)[1]
         /\ Packet(v)[PayLen + 8] = BodyCksum(v)[2]
<1> DEFINE p == [k \in 1 .. PayLen |-> v]
           c == BodyCksum(v)
           q == Header
           r == q \o p
           d == r \o c
<1>1. p \in Seq(Byte) /\ Len(p) = PayLen /\ \A k \in 1 .. PayLen : p[k] = v
  <2>1. p \in [1 .. PayLen -> Byte]
    OBVIOUS
  <2> QED
    BY <2>1, Constants
<1>2. c \in Seq(Byte) /\ Len(c) = 2
  <2>1. c = <<c[1], c[2]>> /\ c[1] \in Byte /\ c[2] \in Byte
    BY BodyCksumBytes
  <2> HIDE DEF c
  <2> QED
    BY <2>1, TwoBytes
<1>3. Packet(v) = d
  BY DEF Packet
<1>7. q \in Seq(Byte) /\ Len(q) = 6
  BY HeaderBytes
<1> HIDE DEF p, c
<1> HIDE DEF q
<1>8. /\ r \in Seq(Byte) /\ Len(r) = PayLen + 6
      /\ \A k \in 1 .. 6 : r[k] = q[k]
      /\ \A k \in 7 .. PayLen + 6 : r[k] = v
  <2>0. /\ r \in Seq(Byte) /\ Len(r) = Len(q) + Len(p)
        /\ \A k \in 1 .. Len(q) : r[k] = q[k]
        /\ \A k \in Len(q) + 1 .. Len(q) + Len(p) : r[k] = p[k - Len(q)]
    BY <1>1, <1>7, Joined
  <2>1. /\ r \in Seq(Byte) /\ Len(r) = 6 + PayLen
        /\ \A k \in 1 .. 6 : r[k] = q[k]
        /\ \A k \in 6 + 1 .. 6 + PayLen : r[k] = p[k - 6]
    <3> HIDE DEF r
    <3> QED
      BY <1>1, <1>7, <2>0
  <2> HIDE DEF r
  <2>2. ASSUME NEW k \in 7 .. PayLen + 6 PROVE r[k] = v
    <3>1. k \in 6 + 1 .. 6 + PayLen /\ k - 6 \in 1 .. PayLen
      BY Constants
    <3> QED
      BY <1>1, <2>1, <3>1
  <2> QED
    BY <2>1, <2>2, Constants
<1> HIDE DEF r
<1>9. /\ d \in Seq(Byte) /\ Len(d) = PayLen + 8
      /\ \A k \in 1 .. PayLen + 6 : d[k] = r[k]
      /\ d[PayLen + 7] = c[1] /\ d[PayLen + 8] = c[2]
  <2> DEFINE m == PayLen + 6
  <2>0. m \in Nat
    BY Constants
  <2>1. Len(r) = m
    BY <1>8
  <2>2. /\ d \in Seq(Byte) /\ Len(d) = m + 2
        /\ \A k \in 1 .. m : d[k] = r[k]
        /\ \A k \in m + 1 .. m + 2 : d[k] = c[k - m]
    <3>1. /\ d \in Seq(Byte) /\ Len(d) = Len(r) + Len(c)
          /\ \A k \in 1 .. Len(r) : d[k] = r[k]
          /\ \A k \in Len(r) + 1 .. Len(r) + Len(c) : d[k] = c[k - Len(r)]
      BY <1>2, <1>8, Joined
    <3> HIDE DEF m, d
    <3> QED
      BY <1>2, <2>1, <3>1
  <2> HIDE DEF d
  <2>3. /\ m + 1 = PayLen + 7 /\ m + 2 = PayLen + 8
        /\ m + 1 \in m + 1 .. m + 2 /\ m + 2 \in m + 1 .. m + 2
        /\ (m + 1) - m = 1 /\ (m + 2) - m = 2
    BY Constants
  <2> QED
    BY <2>2, <2>3
<1> HIDE DEF d
<1>10. \A k \in 1 .. 6 : k \in 1 .. PayLen + 6
  BY Constants
<1>11. \A k \in 7 .. PayLen + 6 : k \in 1 .. PayLen + 6
  OBVIOUS
<1>12. /\ \A k \in 1 .. 6 : d[k] = q[k]
       /\ \A k \in 7 .. PayLen + 6 : d[k] = v
  BY <1>8, <1>9, <1>10, <1>11
<1>13. /\ d[1] = Sync[1] /\ d[2] = Sync[2] /\ d[3] = NavPvt[1] /\ d[4] = NavPvt[2]
       /\ d[5] = PayLen /\ d[6] = 0
  BY <1>12, HeaderBytes DEF q
<1> QED
  BY <1>3, <1>9, <1>12, <1>13 DEF c

-----------------------------------------------------------------------------
(* One byte received, in each state of the parser                            *)

\* What RxIRQ takes off the line.
LEMMA NextByteTypes ==
  ASSUME TypeOK, rest # << >>
  PROVE  Head(rest) \in Byte /\ Tail(rest) \in Seq(Byte) /\ Len(Tail(rest)) = Len(rest) - 1
  BY DEF TypeOK

\* What gnssRxHandler does with the byte ch in the state SYNC, and below in each
\* of the others.
TakesSync(ch) ==
  /\ UNCHANGED <<navPvts, front>>
  /\ valid' = TRUE /\ len' = 0 /\ cksum' = <<0, 0>>
  /\ ch # Sync[i + 1] => state' = "SYNC" /\ i' = 0
  /\ ch = Sync[i + 1] /\ i = 0 => state' = "SYNC" /\ i' = 1
  /\ ch = Sync[i + 1] /\ i = 1 => state' = "CLSID" /\ i' = 0

LEMMA RxSync ==
  ASSUME TypeInv, NEW ch \in Byte, RxHandler(ch), state = "SYNC"
  PROVE  TakesSync(ch)
<1>1. valid /\ len = 0 /\ cksum = <<0, 0>> /\ i \in {0, 1}
  BY DEF TypeInv, ParserInv, TypeOK
<1>2. CASE ch # Sync[i + 1]
  BY <1>1, <1>2 DEF TakesSync, RxHandler, Accepted, Reset
<1>3. CASE ch = Sync[i + 1]
  <2>1. Advance(ch, valid /\ Accepted(ch)) /\ UNCHANGED navPvts
    BY <1>1, <1>3 DEF TakesSync, RxHandler, Accepted
  <2>2. valid /\ Accepted(ch)
    BY <1>1, <1>3 DEF Accepted
  <2>3. CASE i = 0
    <3>1. state' = "SYNC" /\ i' = 1
      BY <1>1, <2>1, <2>3 DEF Advance
    <3>2. valid' = TRUE /\ len' = 0
      BY <1>1, <2>1, <2>2, <2>3 DEF Advance, NewLen
    <3>3. cksum' = <<0, 0>>
      BY <1>1, <2>1, <2>3 DEF Advance
    <3>4. front' = front
      BY <1>1, <2>1, <2>3 DEF Advance
    <3> QED
      BY <1>3, <2>1, <2>3, <3>1, <3>2, <3>3, <3>4 DEF TakesSync
  <2>4. CASE i = 1
    <3>1. state' = "CLSID" /\ i' = 0
      BY <1>1, <2>1, <2>4 DEF Advance, Following
    <3>2. valid' = TRUE /\ len' = 0
      BY <1>1, <2>1, <2>2, <2>4 DEF Advance, NewLen
    <3>3. cksum' = <<0, 0>>
      BY <1>1, <2>1, <2>4 DEF Advance
    <3>4. front' = front
      BY <1>1, <2>1, <2>4 DEF Advance
    <3> QED
      BY <1>3, <2>1, <2>4, <3>1, <3>2, <3>3, <3>4 DEF TakesSync
  <2> QED
    BY <1>1, <1>3, <2>3, <2>4
<1> QED
  BY <1>1, <1>2, <1>3 DEF TakesSync

TakesClsId(ch) ==
  /\ UNCHANGED <<navPvts, front, len>>
  /\ valid' = (valid /\ ch = NavPvt[i + 1])
  /\ cksum' = IF valid THEN Sum(cksum, ch) ELSE cksum
  /\ i = 0 => state' = "CLSID" /\ i' = 1
  /\ i = 1 => state' = "LENGTH" /\ i' = 0

LEMMA RxClsId ==
  ASSUME TypeInv, NEW ch \in Byte, RxHandler(ch), state = "CLSID"
  PROVE  TakesClsId(ch)
<1>1. i \in {0, 1}
  BY DEF TypeInv, ParserInv, TypeOK
<1>2. CASE i = 0
  BY <1>2 DEF TakesClsId, RxHandler, Accepted, Advance, NewLen, Following
<1>3. CASE i = 1
  BY <1>3 DEF TakesClsId, RxHandler, Accepted, Advance, NewLen, Following
<1> QED
  BY <1>1, <1>2, <1>3 DEF TakesClsId

TakesLength(ch) ==
  /\ UNCHANGED <<navPvts, front>>
  /\ cksum' = IF valid THEN Sum(cksum, ch) ELSE cksum
  /\ i = 0 => /\ state' = "LENGTH" /\ i' = 1
              /\ valid' = (valid /\ ch = PayLen)
              /\ len' = IF valid THEN ch ELSE len
  /\ i = 1 => /\ state' = "PAYLOAD" /\ i' = 0
              /\ valid' = (valid /\ ch = 0)
              /\ len' = IF valid THEN PayLen + ch * Base ELSE len

LEMMA RxLength ==
  ASSUME TypeInv, NEW ch \in Byte, RxHandler(ch), state = "LENGTH"
  PROVE  TakesLength(ch)
<1>1. i \in {0, 1} /\ (i = 0 => len = 0) /\ (valid /\ i = 1 => len = PayLen)
  BY DEF TypeInv, ParserInv, TypeOK
<1>2. CASE i = 0
  <2>1. ch * 1 = ch /\ 0 + ch = ch
    BY Constants DEF Byte
  <2> QED
    BY <1>1, <1>2, <2>1 DEF TakesLength, RxHandler, Accepted, Advance, NewLen, Following
<1>3. CASE i = 1
  BY <1>1, <1>3 DEF TakesLength, RxHandler, Accepted, Advance, NewLen, Following
<1> QED
  BY <1>1, <1>2, <1>3 DEF TakesLength

TakesPayload(ch) ==
  /\ UNCHANGED <<front, len>>
  /\ valid' = (valid /\ ~locks[Back])
  /\ cksum' = IF valid THEN Sum(cksum, ch) ELSE cksum
  /\ i + 1 < len => state' = "PAYLOAD" /\ i' = i + 1
  /\ i + 1 >= len => state' = "CKSUM" /\ i' = 0
  /\ navPvts' = IF valid /\ ~locks[Back]
                THEN [navPvts EXCEPT ![Back][i] = ch] ELSE navPvts

LEMMA RxPayload ==
  ASSUME TypeInv, NEW ch \in Byte, RxHandler(ch), state = "PAYLOAD"
  PROVE  TakesPayload(ch)
<1>1. i \in Nat /\ len \in Nat
  BY Constants DEF TypeInv, TypeOK
<1>2. CASE i + 1 < len
  BY <1>1, <1>2 DEF TakesPayload, RxHandler, Accepted, Advance, NewLen, Following
<1>3. CASE i + 1 >= len
  BY <1>1, <1>3 DEF TakesPayload, RxHandler, Accepted, Advance, NewLen, Following
<1> QED
  BY <1>1, <1>2, <1>3 DEF TakesPayload

TakesCksum(ch) ==
  /\ UNCHANGED navPvts
  /\ i = 0 => /\ state' = "CKSUM" /\ i' = 1
              /\ valid' = (valid /\ ch = cksum[1])
              /\ UNCHANGED <<front, len, cksum>>
  /\ i = 1 => /\ state' = "SYNC" /\ i' = 0 /\ len' = 0 /\ cksum' = <<0, 0>>
              /\ valid' = TRUE
              /\ front' = IF valid /\ ch = cksum[2] THEN Back ELSE front

LEMMA RxCksum ==
  ASSUME TypeInv, NEW ch \in Byte, RxHandler(ch), state = "CKSUM"
  PROVE  TakesCksum(ch)
<1>1. i \in {0, 1}
  BY DEF TypeInv, ParserInv, TypeOK
<1>2. CASE i = 0
  BY <1>2 DEF TakesCksum, RxHandler, Accepted, Advance, NewLen, Following
<1>3. CASE i = 1
  BY <1>3 DEF TakesCksum, RxHandler, Accepted, Advance, NewLen, Following, Reset
<1> QED
  BY <1>1, <1>2, <1>3 DEF TakesCksum

\* gnssCksum keeps both sums in a byte.
LEMMA SumBytes ==
  ASSUME NEW ck \in Byte \X Byte, NEW ch \in Byte
  PROVE  Sum(ck, ch) \in Byte \X Byte
<1>1. \A x \in Nat : x % Base \in Byte
  BY Constants DEF Byte
<1>2. ck[1] \in Nat /\ ck[2] \in Nat /\ ch \in Nat
  BY DEF Byte
<1>3. \A x, y \in Nat : x + y \in Nat
  OBVIOUS
<1>4. \A x \in Byte : x \in Nat
  BY DEF Byte
<1> QED
  BY <1>1, <1>2, <1>3, <1>4 DEF Sum

\* A length read from two bytes.
LEMMA TwoByteLength ==
  /\ \A a, b \in Byte : a + b * Base \in 0 .. Base * Base - 1
  /\ \A a \in Byte : a \in 0 .. Base * Base - 1
  /\ PayLen + 0 * Base = PayLen
  /\ 0 \in 0 .. Base * Base - 1
<1>1. ASSUME NEW a \in Byte, NEW b \in Byte PROVE a + b * Base \in 0 .. Base * Base - 1
  <2>0. a \in Nat /\ b \in Nat /\ a <= Base - 1 /\ b <= Base - 1 /\ Base \in Nat
    BY Constants DEF Byte
  <2>1. b * Base <= (Base - 1) * Base
    BY <2>0
  <2>2. (Base - 1) * Base = Base * Base - Base
    BY <2>0
  <2>3. b * Base \in Nat /\ Base * Base \in Nat
    BY <2>0
  <2> QED
    BY <2>0, <2>1, <2>2, <2>3
<1>2. ASSUME NEW a \in Byte PROVE a \in 0 .. Base * Base - 1
  <2>1. a + 0 * Base \in 0 .. Base * Base - 1
    BY <1>1, Constants
  <2> QED
    BY <2>1, Constants DEF Byte
<1> QED
  BY <1>1, <1>2, Constants

LEMMA EmptyOrHeard ==
  ASSUME HistoryOK, NEW b \in heard \cup {<< >>}
  PROVE  b \in Seq(Byte)
<1>1. << >> \in Seq(Byte)
  OBVIOUS
<1> QED
  BY <1>1, Zenon DEF HistoryOK

\* What is heard are bytes, no more than a packet has.
LEMMA HistoryStep ==
  ASSUME HistoryOK, NEW ch \in Byte, Hears(ch)
  PROVE  HistoryOK'
<1> DEFINE Longer == {Append(b, ch) : b \in heard \cup {<< >>}}
<1>1. ASSUME NEW b \in heard \cup {<< >>} PROVE b \in Seq(Byte) /\ Append(b, ch) \in Seq(Byte)
  <2>1. b \in Seq(Byte)
    BY EmptyOrHeard
  <2> QED
    BY <2>1
<1>2. \A b \in Longer : b \in Seq(Byte)
  BY <1>1
<1>3. /\ heard' = {b \in Longer : Len(b) < PayLen + 8 /\ BeginsPacket(b)}
      /\ fixes' = fixes \cup {PayloadOf(b) : b \in {c \in Longer : IsPacket(c)}}
  BY DEF Hears
<1>4. ASSUME NEW b \in Longer, IsPacket(b) PROVE PayloadOf(b) \in [0 .. PayLen - 1 -> Byte]
  <2>1. b \in Seq(Byte) /\ Len(b) = PayLen + 8
    BY <1>2, <1>4 DEF IsPacket
  <2>2. \A k \in 0 .. PayLen - 1 : k + 7 \in 1 .. Len(b)
    BY <2>1, Constants
  <2>3. \A k \in 0 .. PayLen - 1 : b[k + 7] \in Byte
    BY <2>1, <2>2
  <2> QED
    BY <2>3 DEF PayloadOf
<1> HIDE DEF Longer
<1>5. heard' \subseteq Seq(Byte) /\ \A b \in heard' : Len(b) < PayLen + 8
  BY <1>2, <1>3
<1>6. fixes' \subseteq [0 .. PayLen - 1 -> Byte]
  <2>1. {PayloadOf(b) : b \in {c \in Longer : IsPacket(c)}} \subseteq [0 .. PayLen - 1 -> Byte]
    BY <1>4
  <2> QED
    BY <1>3, <2>1 DEF HistoryOK
<1> QED
  BY <1>5, <1>6 DEF HistoryOK

LEMMA HistoryKept ==
  ASSUME HistoryOK, UNCHANGED history
  PROVE  HistoryOK'
BY DEF HistoryOK, history

\* Types, the counts of the parser and what gnssSln has.
LEMMA TypeStep ==
  ASSUME TypeInv, [Next]_vars
  PROVE  TypeInv'
<1>0. UNCHANGED history => HistoryOK'
  BY HistoryKept DEF TypeInv, TypeOK
<1>1. CASE RxIRQ
  <2> DEFINE ch == Head(rest)
  <2>1. /\ ch \in Byte /\ rest' \in Seq(Byte) /\ RxHandler(ch) /\ HistoryOK'
        /\ UNCHANGED <<locks, reader, good, aligned>>
    <3>1. ch \in Byte /\ Hears(ch) /\ HistoryOK
      BY <1>1, NextByteTypes DEF RxIRQ, TypeInv, TypeOK
    <3>2. HistoryOK'
      BY <3>1, HistoryStep
    <3> QED
      BY <1>1, <3>2, NextByteTypes DEF RxIRQ, TypeInv
  <2> HIDE DEF ch
  <2>2. CASE state = "SYNC"
    <3>0. TakesSync(ch)
      BY <2>1, <2>2, RxSync
    <3>1. TypeOK'
      BY <2>1, <2>2, <3>0, Constants DEF TakesSync, TypeInv, TypeOK, States, reader, ParserInv
    <3>2. ParserInv'
      BY <2>1, <2>2, <3>0, Constants DEF TakesSync, TypeInv, TypeOK, ParserInv, Byte
    <3>3. ReaderInv'
      BY <2>1, <2>2, <3>0 DEF TakesSync, TypeInv, TypeOK, ReaderInv, reader
    <3> QED
      BY <3>1, <3>2, <3>3 DEF TypeInv
  <2>3. CASE state = "CLSID"
    <3>0. TakesClsId(ch)
      BY <2>1, <2>3, RxClsId
    <3>1. TypeOK'
      BY <2>1, <2>3, <3>0, SumBytes DEF TakesClsId, TypeInv, TypeOK, States, reader, ParserInv
    <3>2. ParserInv'
      BY <2>1, <2>3, <3>0, Constants DEF TakesClsId, TypeInv, TypeOK, ParserInv, Byte
    <3>3. ReaderInv'
      BY <2>1, <2>3, <3>0 DEF TakesClsId, TypeInv, TypeOK, ReaderInv, reader
    <3> QED
      BY <3>1, <3>2, <3>3 DEF TypeInv
  <2>4. CASE state = "LENGTH"
    <3>0. TakesLength(ch)
      BY <2>1, <2>4, RxLength
    <3>a. /\ i \in {0, 1} /\ (i = 0 => len = 0) /\ (valid /\ i = 1 => len = PayLen)
          /\ len \in 0 .. Base * Base - 1 /\ len < Base /\ cksum \in Byte \X Byte
      BY <2>4 DEF TypeInv, TypeOK, ParserInv
    <3>b. cksum' \in Byte \X Byte
      BY <2>1, <3>0, <3>a, SumBytes DEF TakesLength
    <3>c. ASSUME i = 0 PROVE TypeOK' /\ ParserInv'
      <4>1. /\ state' = "LENGTH" /\ i' = 1 /\ valid' \in BOOLEAN
            /\ len' \in Byte /\ (valid' => len' = PayLen)
        BY <2>1, <3>0, <3>a, <3>c, Constants DEF TakesLength
      <4>2. len' \in 0 .. Base * Base - 1 /\ len' < Base
        BY <4>1, TwoByteLength, Constants DEF Byte
      <4>3. TypeOK'
        BY <2>1, <3>0, <3>b, <4>1, <4>2 DEF TakesLength, TypeInv, TypeOK, States, reader
      <4> QED
        BY <4>1, <4>2, <4>3 DEF ParserInv
    <3>d. ASSUME i = 1 PROVE TypeOK' /\ ParserInv'
      <4>1. /\ state' = "PAYLOAD" /\ i' = 0 /\ valid' \in BOOLEAN
            /\ len' = len \/ len' = PayLen + ch * Base
            /\ valid' => len' = PayLen + 0 * Base
        BY <2>1, <3>0, <3>a, <3>d DEF TakesLength
      <4>2. len' \in 0 .. Base * Base - 1 /\ (valid' => len' = PayLen)
        <5>1. PayLen + ch * Base \in 0 .. Base * Base - 1
          BY <2>1, TwoByteLength, Constants
        <5> QED
          BY <3>a, <4>1, <5>1, TwoByteLength
      <4>3. TypeOK'
        BY <2>1, <3>0, <3>b, <4>1, <4>2 DEF TakesLength, TypeInv, TypeOK, States, reader
      <4> QED
        BY <4>1, <4>2, <4>3, Constants DEF ParserInv
    <3>1. TypeOK' /\ ParserInv'
      BY <3>a, <3>c, <3>d
    <3>3. ReaderInv'
      BY <2>1, <2>4, <3>0 DEF TakesLength, TypeInv, TypeOK, ReaderInv, reader
    <3> QED
      BY <3>1, <3>3 DEF TypeInv
  <2>5. CASE state = "PAYLOAD"
    <3>0. TakesPayload(ch)
      BY <2>1, <2>5, RxPayload
    <3>1. TypeOK'
      BY <2>1, <2>5, <3>0, SumBytes DEF TakesPayload, TypeInv, TypeOK, States, reader, ParserInv, Back
    <3>2. ParserInv'
      BY <2>1, <2>5, <3>0, Constants DEF TakesPayload, TypeInv, TypeOK, ParserInv, Byte
    <3>3. ReaderInv'
      BY <2>1, <2>5, <3>0 DEF TakesPayload, TypeInv, TypeOK, ReaderInv, reader, Back
    <3> QED
      BY <3>1, <3>2, <3>3 DEF TypeInv
  <2>6. CASE state = "CKSUM"
    <3>0. TakesCksum(ch)
      BY <2>1, <2>6, RxCksum
    <3>a. front' \in {front, Back} /\ Back \in {0, 1} /\ navPvts' = navPvts
      BY <2>6, <3>0 DEF TakesCksum, Back, TypeInv, TypeOK, ParserInv
    <3>b. front' \in -1 .. 1
      BY <3>a DEF TypeInv, TypeOK
    <3>c. i \in {0, 1}
      BY <2>6 DEF TypeInv, TypeOK, ParserInv
    <3>d. /\ state' \in States /\ i' \in Nat /\ valid' \in BOOLEAN
          /\ len' \in 0 .. Base * Base - 1 /\ cksum' \in Byte \X Byte
      <4>1. CASE i = 0
        <5>1. state' = "CKSUM" /\ i' = 1 /\ valid' \in BOOLEAN /\ len' = len /\ cksum' = cksum
          BY <3>0, <4>1 DEF TakesCksum
        <5> QED
          BY <5>1 DEF TypeInv, TypeOK, States
      <4>2. CASE i = 1
        <5>1. state' = "SYNC" /\ i' = 0 /\ valid' = TRUE /\ len' = 0 /\ cksum' = <<0, 0>>
          BY <3>0, <4>2 DEF TakesCksum
        <5> QED
          BY <5>1, TwoByteLength, Constants DEF States
      <4> QED
        BY <3>c, <4>1, <4>2
    <3>1. TypeOK'
      BY <2>1, <3>a, <3>b, <3>d DEF TypeInv, TypeOK, reader
    <3>2. ParserInv'
      BY <2>1, <2>6, <3>0, Constants DEF TakesCksum, TypeInv, TypeOK, ParserInv, Byte
    <3>3. ReaderInv'
      BY <2>1, <3>a DEF TypeInv, ReaderInv, reader
    <3> QED
      BY <3>1, <3>2, <3>3 DEF TypeInv
  <2> QED
    BY <2>2, <2>3, <2>4, <2>5, <2>6 DEF TypeInv, TypeOK, States
<1>2. CASE SendGood
  BY <1>0, <1>2, PacketBytes, ConstantsAssumption DEF TypeInv, SendGood, TypeOK, ParserInv, ReaderInv, parser, shared, reader
<1>3. CASE SendOther
  <2>1. rest' \in Seq(Byte)
    <3>1. \A f \in Foreign : f \in Seq(Byte)
      BY ConstantsAssumption
    <3>2. ASSUME NEW v \in Solutions, NEW n \in Noise
          PROVE  \A k \in DOMAIN Packet(v) : [Packet(v) EXCEPT ![k] = n] \in Seq(Byte)
      <4>1. v \in Byte /\ n \in Byte
        BY ConstantsAssumption
      <4>2. Packet(v) \in Seq(Byte)
        BY <4>1, PacketBytes
      <4> QED
        BY <4>1, <4>2, ExceptSeq
    <3> QED
      BY <1>3, <3>1, <3>2 DEF SendOther
  <2> QED
    BY <1>0, <1>3, <2>1 DEF TypeInv, SendOther, TypeOK, ParserInv, ReaderInv, parser, shared, reader
<1>4. CASE SlnBegin
  BY <1>0, <1>4, Constants DEF TypeInv, SlnBegin, TypeOK, ParserInv, ReaderInv, parser, shared, line
<1>5. CASE SlnCopy
  <2> DEFINE m == Len(sln)
             b == navPvts[src][m]
  <2>1. m \in 0 .. PayLen - 1 /\ src \in 0 .. 1 /\ sln \in Seq(Byte)
    BY <1>5, Constants DEF TypeInv, SlnCopy, TypeOK, ReaderInv
  <2>2. b \in Byte
    <3>1. navPvts[src] \in [0 .. PayLen - 1 -> Byte]
      BY <2>1 DEF TypeInv, TypeOK
    <3> QED
      BY <2>1, <3>1
  <2>3. sln' = Append(sln, b)
    BY <1>5 DEF SlnCopy
  <2>4. Len(sln) = m
    OBVIOUS
  <2> HIDE DEF m, b
  <2>5. /\ sln' \in Seq(Byte) /\ Len(sln') = m + 1
        /\ \A k \in 1 .. m : sln'[k] = sln[k]
        /\ sln'[m + 1] = b
    BY <2>1, <2>2, <2>3, <2>4
  <2>6. ASSUME NEW k \in 1 .. Len(sln') PROVE sln'[k] = navPvts[src][k - 1]
    <3>1. CASE k \in 1 .. m
      BY <1>5, <2>4, <2>5, <3>1 DEF TypeInv, SlnCopy, ReaderInv
    <3>2. CASE k = m + 1
      <4>1. k - 1 = m
        BY <2>1, <3>2
      <4> QED
        BY <2>5, <3>2, <4>1 DEF b, m
    <3> QED
      BY <2>1, <2>5, <3>1, <3>2
  <2>7. Len(sln') <= PayLen
    BY <2>1, <2>5, Constants
  <2> QED
    BY <1>0, <1>5, <2>5, <2>6, <2>7 DEF TypeInv, SlnCopy, TypeOK, ParserInv, ReaderInv, parser, shared, line
<1>6. CASE SlnEnd
  BY <1>0, <1>6, Constants DEF TypeInv, SlnEnd, TypeOK, ParserInv, ReaderInv, parser, shared, line, NoHalf
<1>7. CASE UNCHANGED vars
  BY <1>0, <1>7 DEF TypeInv, vars, parser, shared, reader, line, TypeOK, ParserInv, ReaderInv
<1> QED
  BY <1>1, <1>2, <1>3, <1>4, <1>5, <1>6, <1>7 DEF Next

-----------------------------------------------------------------------------
(* The checksum of a packet in closed form                                   *)

\* Cutting a summand to a byte does not change the sum cut to a byte.
LEMMA ModAdd ==
  ASSUME NEW x \in Nat, NEW y \in Nat
  PROVE  /\ ((x % Base) + y) % Base = (x + y) % Base
         /\ ((x % Base) + (y % Base)) % Base = (x + y) % Base
<1>1. \A a \in Nat : \E q \in Nat, r \in 0 .. Base - 1 : a = q * Base + r /\ a % Base = r
  <2> SUFFICES ASSUME NEW a \in Nat
               PROVE  \E q \in Nat, r \in 0 .. Base - 1 : a = q * Base + r /\ a % Base = r
    OBVIOUS
  <2>1. a \div Base \in Nat /\ a % Base \in 0 .. Base - 1 /\ a = (a \div Base) * Base + (a % Base)
    BY Constants
  <2> QED
    BY <2>1
<1>2. ASSUME NEW a \in Nat, NEW q \in Int, NEW r \in 0 .. Base - 1, a = q * Base + r
      PROVE  a % Base = r
  <2>1. PICK p \in Nat, s \in 0 .. Base - 1 : a = p * Base + s /\ a % Base = s
    BY <1>1
  <2>2. (p - q) * Base = r - s
    BY <1>2, <2>1, Constants
  <2>3. r - s < Base /\ s - r < Base
    BY Constants
  <2>4. p - q = 0
    <3>1. CASE p - q >= 1
      <4>1. (p - q) * Base >= Base
        BY <3>1, Constants
      <4> QED
        BY <2>2, <2>3, <4>1, Constants
    <3>2. CASE p - q <= 0 - 1
      <4>1. (q - p) * Base >= Base
        BY <3>2, Constants
      <4>2. (q - p) * Base = s - r
        BY <1>2, <2>1, Constants
      <4> QED
        BY <2>3, <4>1, <4>2, Constants
    <3> QED
      BY <3>1, <3>2
  <2>5. (p - q) * Base = 0
    BY <2>4, Constants
  <2> QED
    BY <2>1, <2>2, <2>5
<1>3. PICK q1 \in Nat, r1 \in 0 .. Base - 1 : x = q1 * Base + r1 /\ x % Base = r1
  BY <1>1
<1>4. PICK q2 \in Nat, r2 \in 0 .. Base - 1 : y = q2 * Base + r2 /\ y % Base = r2
  BY <1>1
<1>5. r1 + y \in Nat /\ r1 + r2 \in Nat /\ x + y \in Nat
  BY Constants
<1>6. PICK q3 \in Nat, r3 \in 0 .. Base - 1 : r1 + y = q3 * Base + r3 /\ (r1 + y) % Base = r3
  BY <1>1, <1>5
<1>7. PICK q4 \in Nat, r4 \in 0 .. Base - 1 : r1 + r2 = q4 * Base + r4 /\ (r1 + r2) % Base = r4
  BY <1>1, <1>5
<1>8. x + y = (q1 + q3) * Base + r3
  BY <1>3, <1>6, Constants
<1>9. x + y = (q1 + q2 + q4) * Base + r4
  BY <1>3, <1>4, <1>7, Constants
<1>10. (x + y) % Base = r3
  BY <1>2, <1>5, <1>8
<1>11. (x + y) % Base = r4
  BY <1>2, <1>5, <1>9
<1> QED
  BY <1>3, <1>4, <1>6, <1>7, <1>10, <1>11

\* gnssCksum adds the byte to the one sum and the one sum to the other.
LEMMA CutSum ==
  ASSUME NEW a \in Nat, NEW b \in Nat, NEW ch \in Nat
  PROVE  Sum(Cut(<<a, b>>), ch) = Cut(<<a + ch, (b + a) + ch>>)
<1>1. ((a % Base) + ch) % Base = (a + ch) % Base
  BY ModAdd
<1>2. ((b % Base) + ((a + ch) % Base)) % Base = (b + (a + ch)) % Base
  <2>1. a + ch \in Nat
    OBVIOUS
  <2> QED
    BY <2>1, ModAdd
<1>3. b + (a + ch) = (b + a) + ch
  OBVIOUS
<1> QED
  BY <1>1, <1>2, <1>3 DEF Sum, Cut

\* The sum of the numbers up to n.
LEMMA TriangleStep ==
  /\ Triangle(0) = 0
  /\ \A n \in Nat : Triangle(n) \in Nat /\ Triangle(n + 1) = Triangle(n) + (n + 1)
<1>1. Triangle(0) = 0
  BY DEF Triangle
<1>2. ASSUME NEW n \in Nat
      PROVE  Triangle(n) \in Nat /\ Triangle(n + 1) = Triangle(n) + (n + 1)
  <2> DEFINE x == n * (n + 1)
  <2>1. x \in Nat
    OBVIOUS
  <2>2. (n + 1) * ((n + 1) + 1) = x + 2 * (n + 1)
    OBVIOUS
  <2>3. \A y \in Nat, z \in Nat : y \div 2 \in Nat /\ (y + 2 * z) \div 2 = y \div 2 + z
    OBVIOUS
  <2>4. Triangle(n) = x \div 2 /\ Triangle(n + 1) = (x + 2 * (n + 1)) \div 2
    BY <2>2 DEF Triangle
  <2> HIDE DEF x
  <2>5. n + 1 \in Nat
    OBVIOUS
  <2> QED
    BY <2>1, <2>3, <2>4, <2>5
<1> QED
  BY <1>1, <1>2

\* The checksum along the header.
LEMMA HeaderStep ==
  /\ Cut(HeaderSums(3)) = <<0, 0>>
  /\ Sum(Cut(HeaderSums(3)), NavPvt[1]) = Cut(HeaderSums(4))
  /\ Sum(Cut(HeaderSums(4)), NavPvt[2]) = Cut(HeaderSums(5))
  /\ Sum(Cut(HeaderSums(5)), PayLen) = Cut(HeaderSums(6))
  /\ \A v \in Byte : Sum(Cut(HeaderSums(6)), 0) = Cut(Sums(0, v))
<1>1. PICK a, b, p \in Nat : a = NavPvt[1] /\ b = NavPvt[2] /\ p = PayLen
  BY SyncNavPvt, Constants DEF Byte
<1>2. /\ HeaderSums(3) = <<0, 0>>
      /\ HeaderSums(4) = <<a, a>>
      /\ HeaderSums(5) = <<a + b, 2 * a + b>>
      /\ HeaderSums(6) = <<a + b + p, 3 * a + 2 * b + p>>
  BY <1>1 DEF HeaderSums
<1>3. Cut(<<0, 0>>) = <<0, 0>>
  BY Constants DEF Cut
<1>4. Sum(Cut(<<0, 0>>), a) = Cut(<<a, a>>)
  <2>1. Sum(Cut(<<0, 0>>), a) = Cut(<<0 + a, (0 + 0) + a>>)
    BY CutSum
  <2>2. 0 + a = a /\ (0 + 0) + a = a
    OBVIOUS
  <2> QED
    BY <2>1, <2>2
<1>5. Sum(Cut(<<a, a>>), b) = Cut(<<a + b, 2 * a + b>>)
  <2>1. Sum(Cut(<<a, a>>), b) = Cut(<<a + b, (a + a) + b>>)
    BY CutSum
  <2>2. (a + a) + b = 2 * a + b
    OBVIOUS
  <2> QED
    BY <2>1, <2>2
<1>6. Sum(Cut(<<a + b, 2 * a + b>>), p) = Cut(<<a + b + p, 3 * a + 2 * b + p>>)
  <2>1. PICK x, y \in Nat : x = a + b /\ y = 2 * a + b
    OBVIOUS
  <2>2. Sum(Cut(<<x, y>>), p) = Cut(<<x + p, (y + x) + p>>)
    BY CutSum
  <2>3. x + p = a + b + p /\ (y + x) + p = 3 * a + 2 * b + p
    BY <2>1
  <2> QED
    BY <2>1, <2>2, <2>3
<1>7. ASSUME NEW v \in Byte
      PROVE  Sum(Cut(<<a + b + p, 3 * a + 2 * b + p>>), 0) = Cut(Sums(0, v))
  <2>1. PICK x, y \in Nat : x = a + b + p /\ y = 3 * a + 2 * b + p
    OBVIOUS
  <2>2. Sum(Cut(<<x, y>>), 0) = Cut(<<x + 0, (y + x) + 0>>)
    BY CutSum
  <2>3. Sums(0, v) = <<x, 4 * a + 3 * b + 2 * p>>
    <3>1. v \in Nat /\ Triangle(0) = 0
      BY TriangleStep DEF Byte
    <3>2. 0 * v = 0 /\ 0 * x = 0 /\ v * 0 = 0
      BY <2>1, <3>1
    <3>3. x + 0 = x /\ (4 * a + 3 * b + 2 * p) + 0 + 0 = 4 * a + 3 * b + 2 * p
      BY <2>1
    <3> QED
      BY <1>1, <2>1, <3>1, <3>2, <3>3 DEF Sums
  <2>4. x + 0 = x /\ (y + x) + 0 = 4 * a + 3 * b + 2 * p
    BY <2>1
  <2> QED
    BY <2>1, <2>2, <2>3, <2>4
<1> QED
  BY <1>1, <1>2, <1>3, <1>4, <1>5, <1>6, <1>7

\* The checksum along the payload.
LEMMA PayloadStep ==
  ASSUME NEW v \in Byte, NEW n \in Nat
  PROVE  Sum(Cut(Sums(n, v)), v) = Cut(Sums(n + 1, v))
<1>1. PICK h, g \in Nat : /\ h = NavPvt[1] + NavPvt[2] + PayLen
                          /\ g = 4 * NavPvt[1] + 3 * NavPvt[2] + 2 * PayLen
  BY SyncNavPvt, Constants DEF Byte
<1>2. PICK t \in Nat : t = Triangle(n) /\ Triangle(n + 1) = t + (n + 1)
  BY TriangleStep
<1>3. v \in Nat
  BY DEF Byte
<1>4. PICK x, y \in Nat : x = h + n * v /\ y = g + n * h + v * t
  <2>1. \A c, d \in Nat : c * d \in Nat /\ c + d \in Nat
    OBVIOUS
  <2> QED
    BY <1>3, <2>1
<1>5. Sums(n, v) = <<x, y>>
  BY <1>1, <1>2, <1>4 DEF Sums
<1>6. Sum(Cut(<<x, y>>), v) = Cut(<<x + v, (y + x) + v>>)
  BY <1>3, CutSum
<1>7. x + v = h + (n + 1) * v
  BY <1>3, <1>4
<1>8. (y + x) + v = g + (n + 1) * h + v * (t + (n + 1))
  BY <1>3, <1>4
<1>9. Sums(n + 1, v) = <<h + (n + 1) * v, g + (n + 1) * h + v * (t + (n + 1))>>
  BY <1>1, <1>2 DEF Sums
<1> QED
  BY <1>5, <1>6, <1>7, <1>8, <1>9

-----------------------------------------------------------------------------
(* A packet that found the parser waiting                                    *)

\* One byte of it, but the last.
LEMMA ParseStep ==
  ASSUME TypeInv, NEW v \in Byte, good = v, NEW n \in 1 .. PayLen + 7, Parsed(n),
         NEW m \in Nat, m = n + 1,
         NEW ch \in Byte, ch = Packet(v)[n], RxHandler(ch),
         UNCHANGED <<locks, good>>
  PROVE  Parsed(m)'
<1> USE Constants
<1>1. CASE n = 1
  <2>1. state = "SYNC" /\ i = 0 /\ ch = Sync[i + 1]
    BY <1>1, PacketBytes DEF Parsed
  <2>2. state' = "SYNC" /\ i' = 1
    BY <2>1, RxSync DEF TakesSync
  <2> QED
    BY <1>1, <2>2 DEF Parsed
<1>2. CASE n = 2
  <2>0. ch = Sync[2]
    BY <1>2, PacketBytes
  <2>a. state = "SYNC" /\ i = 1
    BY <1>2 DEF Parsed
  <2>1. state = "SYNC" /\ i = 1 /\ ch = Sync[i + 1]
    BY <2>0, <2>a
  <2>2. state' = "CLSID" /\ i' = 0 /\ valid' /\ cksum' = <<0, 0>>
    BY <2>1, RxSync DEF TakesSync
  <2> QED
    BY <1>2, <2>2, HeaderStep DEF Parsed
<1>3. CASE n = 3
  <2>0. ch = NavPvt[1]
    BY <1>3, PacketBytes
  <2>a. state = "CLSID" /\ i = 0 /\ valid /\ cksum = Cut(HeaderSums(3))
    BY <1>3 DEF Parsed
  <2>1. state = "CLSID" /\ i = 0 /\ valid /\ cksum = Cut(HeaderSums(3)) /\ ch = NavPvt[i + 1]
    BY <2>0, <2>a
  <2>2. state' = "CLSID" /\ i' = 1 /\ valid' /\ cksum' = Sum(cksum, ch)
    BY <2>1, RxClsId DEF TakesClsId
  <2> QED
    BY <1>3, <2>1, <2>2, HeaderStep DEF Parsed
<1>4. CASE n = 4
  <2>0. ch = NavPvt[2]
    BY <1>4, PacketBytes
  <2>a. state = "CLSID" /\ i = 1 /\ valid /\ cksum = Cut(HeaderSums(4))
    BY <1>4 DEF Parsed
  <2>1. state = "CLSID" /\ i = 1 /\ valid /\ cksum = Cut(HeaderSums(4)) /\ ch = NavPvt[i + 1]
    BY <2>0, <2>a
  <2>2. state' = "LENGTH" /\ i' = 0 /\ valid' /\ cksum' = Sum(cksum, ch)
    BY <2>1, RxClsId DEF TakesClsId
  <2> QED
    BY <1>4, <2>1, <2>2, HeaderStep DEF Parsed
<1>5. CASE n = 5
  <2>1. state = "LENGTH" /\ i = 0 /\ ch = PayLen /\ valid /\ cksum = Cut(HeaderSums(5))
    BY <1>5, PacketBytes DEF Parsed
  <2>2. state' = "LENGTH" /\ i' = 1 /\ valid' /\ cksum' = Sum(cksum, ch)
    BY <2>1, RxLength DEF TakesLength
  <2> QED
    BY <1>5, <2>1, <2>2, HeaderStep DEF Parsed
<1>6. CASE n = 6
  <2>0. ch = 0
    BY <1>6, PacketBytes
  <2>a. state = "LENGTH" /\ i = 1 /\ valid /\ cksum = Cut(HeaderSums(6))
    BY <1>6 DEF Parsed
  <2>1. state = "LENGTH" /\ i = 1 /\ valid /\ cksum = Cut(HeaderSums(6)) /\ ch = 0
    BY <2>0, <2>a
  <2>2. /\ state' = "PAYLOAD" /\ i' = 0 /\ valid' /\ cksum' = Sum(cksum, ch)
        /\ len' = PayLen + 0 * Base
    BY <2>1, RxLength DEF TakesLength
  <2>3. len' = PayLen /\ cksum' = Cut(Sums(0, v))
    BY <2>1, <2>2, HeaderStep, TwoByteLength
  <2> QED
    BY <1>6, <2>2, <2>3 DEF Parsed
<1>7. CASE n \in 7 .. PayLen + 6
  <2>1. /\ state = "PAYLOAD" /\ i = n - 7 /\ len = PayLen /\ ch = v
        /\ valid <=> (i = 0 \/ ~locks[Back])
        /\ valid => cksum = Cut(Sums(i, v))
        /\ valid => \A j \in 0 .. i - 1 : navPvts[Back][j] = v
    BY <1>7, PacketBytes DEF Parsed
  <2>2. TakesPayload(ch)
    BY <2>1, RxPayload
  <2>3. Back' = Back /\ Back \in 0 .. 1 /\ locks' = locks /\ good' = v /\ len' = PayLen
    BY <2>1, <2>2 DEF TakesPayload, Back
  <2>4. valid' <=> ~locks[Back]
    BY <2>1, <2>2 DEF TakesPayload
  <2>5. PICK k \in Nat : k = i /\ k \in 0 .. PayLen - 1 /\ k = n - 7
    BY <1>7, <2>1
  <2>6. ASSUME ~locks[Back]
        PROVE  /\ cksum' = Cut(Sums(k + 1, v))
               /\ \A j \in 0 .. k : navPvts'[Back][j] = v
    <3>1. valid
      BY <2>1, <2>6
    <3>2. cksum' = Sum(Cut(Sums(k, v)), v)
      BY <2>1, <2>2, <2>5, <3>1 DEF TakesPayload
    <3>3. navPvts' = [navPvts EXCEPT ![Back][k] = v]
      BY <2>1, <2>2, <2>5, <2>6, <3>1 DEF TakesPayload
    <3>4. navPvts \in [0 .. 1 -> [0 .. PayLen - 1 -> Byte]]
      BY DEF TypeInv, TypeOK
    <3>5. navPvts'[Back] = [navPvts[Back] EXCEPT ![k] = v]
      BY <2>3, <3>3, <3>4
    <3>6. navPvts[Back] \in [0 .. PayLen - 1 -> Byte]
      BY <2>3, <3>4
    <3>7. ASSUME NEW j \in 0 .. k PROVE navPvts'[Back][j] = v
      <4>1. CASE j = k
        BY <2>5, <3>5, <3>6, <4>1
      <4>2. CASE j \in 0 .. k - 1
        <5>1. j # k /\ j \in 0 .. PayLen - 1 /\ navPvts[Back][j] = v
          BY <2>1, <2>5, <3>1, <4>2
        <5> QED
          BY <3>5, <3>6, <5>1
      <4> QED
        BY <2>5, <4>1, <4>2
    <3> QED
      BY <2>5, <3>2, <3>7, PayloadStep
  <2>7. CASE n < PayLen + 6
    <3>1. state' = "PAYLOAD" /\ i' = k + 1 /\ m \in 7 .. PayLen + 6 /\ k + 1 = m - 7
      BY <1>7, <2>1, <2>2, <2>5, <2>7 DEF TakesPayload
    <3>2. i' # 0 /\ (i' - 1 = k)
      BY <2>5, <3>1
    <3> QED
      BY <2>3, <2>4, <2>5, <2>6, <3>1, <3>2 DEF Parsed
  <2>8. CASE n = PayLen + 6
    <3>1. state' = "CKSUM" /\ i' = 0 /\ k + 1 = PayLen /\ m = PayLen + 7
      BY <2>1, <2>2, <2>5, <2>8 DEF TakesPayload
    <3>2. ASSUME ~locks[Back] PROVE navPvts'[Back] = Payload(v)
      <4>1. navPvts'[Back] \in [0 .. PayLen - 1 -> Byte]
        <5>1. navPvts' \in [0 .. 1 -> [0 .. PayLen - 1 -> Byte]]
          <6>1. k \in 0 .. PayLen - 1 /\ v \in Byte /\ navPvts \in [0 .. 1 -> [0 .. PayLen - 1 -> Byte]]
            BY <2>5 DEF TypeInv, TypeOK
          <6>2. navPvts' \in {navPvts, [navPvts EXCEPT ![Back][k] = v]}
            BY <2>1, <2>2, <2>5 DEF TakesPayload
          <6> QED
            <7>1. [navPvts EXCEPT ![Back][k] = v] \in [0 .. 1 -> [0 .. PayLen - 1 -> Byte]]
              BY <2>3, <6>1
            <7> QED
              BY <6>1, <6>2, <7>1
        <5> QED
          BY <2>3, <5>1
      <4>2. \A j \in 0 .. PayLen - 1 : navPvts'[Back][j] = v
        BY <2>5, <2>6, <3>1, <3>2
      <4> QED
        BY <4>1, <4>2 DEF Payload
    <3> QED
      BY <2>3, <2>4, <2>6, <3>1, <3>2 DEF Parsed
  <2> QED
    BY <1>7, <2>7, <2>8
<1>8. CASE n = PayLen + 7
  <2>1. /\ state = "CKSUM" /\ i = 0 /\ ch = BodyCksum(v)[1]
        /\ valid <=> ~locks[Back]
        /\ valid => cksum = Cut(Sums(PayLen, v)) /\ navPvts[Back] = Payload(v)
    <3>1. ch = BodyCksum(v)[1]
      BY <1>8, PacketBytes
    <3>2. n \in PayLen + 7 .. PayLen + 8 /\ n - (PayLen + 7) = 0
      BY <1>8
    <3> QED
      BY <3>1, <3>2 DEF Parsed
  <2>2. TakesCksum(ch)
    BY <2>1, RxCksum
  <2>3. /\ state' = "CKSUM" /\ i' = 1 /\ cksum' = cksum /\ navPvts' = navPvts
        /\ Back' = Back /\ locks' = locks /\ good' = v
        /\ valid' = (valid /\ ch = cksum[1])
    BY <2>1, <2>2 DEF TakesCksum, Back
  <2>4. valid => ch = cksum[1]
    BY <2>1, BodyCksumBytes
  <2>5. m = PayLen + 8
    BY <1>8
  <2>6. valid' <=> ~locks[Back]
    BY <2>1, <2>3, <2>4
  <2>7. valid' => cksum' = Cut(Sums(PayLen, v)) /\ navPvts'[Back] = Payload(v)
    BY <2>1, <2>3, <2>6
  <2>8. /\ m \in PayLen + 7 .. PayLen + 8 /\ 1 = m - (PayLen + 7)
        /\ m \notin 1 .. 2 /\ m \notin 3 .. 4 /\ m \notin 5 .. 6 /\ m \notin 7 .. PayLen + 6
    BY <2>5
  <2> QED
    BY <2>3, <2>6, <2>7, <2>8 DEF Parsed
<1> QED
  BY <1>1, <1>2, <1>3, <1>4, <1>5, <1>6, <1>7, <1>8

\* The solution of a good packet is a byte.
LEMMA GoodByte ==
  ASSUME TypeOK, good # NoSolution
  PROVE  good \in Byte
  BY ConstantsAssumption DEF TypeOK

\* The first of the bytes that are still to arrive.
LEMMA ArrivingHead ==
  ASSUME TypeOK, NEW n \in 1 .. PayLen + 8, Arriving(n), good # NoSolution
  PROVE  /\ rest # << >> /\ Head(rest) = Packet(good)[n]
         /\ Len(rest) = 1 <=> n = PayLen + 8
<1>1. Len(rest) \in Nat /\ Len(rest) > 0 /\ rest \in Seq(Byte) /\ Len(rest) = PayLen + 9 - n
  BY Constants DEF Arriving, TypeOK
<1>2. rest # << >> /\ Head(rest) = rest[1]
  BY <1>1
<1>3. rest[1] = Packet(good)[n + 1 - 1]
  BY <1>1 DEF Arriving
<1>4. n + 1 - 1 = n
  OBVIOUS
<1> QED
  BY <1>1, <1>2, <1>3, <1>4, Constants

\* gnssSln locks and unlocks the front half only.
LEMMA BackKeepsLock ==
  ASSUME TypeInv, front # -1, NEW b \in BOOLEAN, locks' = [locks EXCEPT ![front] = b],
         UNCHANGED front
  PROVE  Back' = Back /\ locks'[Back] = locks[Back]
<1>1. front \in {0, 1} /\ Back \in {0, 1} /\ Back # front
  BY DEF TypeInv, TypeOK, Back
<1>2. locks \in [0 .. 1 -> BOOLEAN]
  BY DEF TypeInv, TypeOK
<1>3. locks'[Back] = locks[Back]
  BY <1>1, <1>2
<1> QED
  BY <1>3 DEF Back

\* What the parser has of a packet stays while gnssSln works.
LEMMA ParsedKept ==
  ASSUME NEW n \in Nat, Parsed(n), Arriving(n), UNCHANGED <<parser, navPvts, line>>,
         Back' = Back, locks'[Back] = locks[Back]
  PROVE  Parsed(n)' /\ Arriving(n)'
<1>1. /\ state' = state /\ i' = i /\ len' = len /\ cksum' = cksum /\ valid' = valid
      /\ navPvts' = navPvts /\ rest' = rest /\ good' = good /\ aligned' = aligned
  BY DEF parser, line
<1>2. locks'[Back'] = locks[Back]
  BY Zenon
<1>3. Arriving(n)'
  BY <1>1 DEF Arriving
<1>4. Parsed(n)'
  BY <1>1, <1>2 DEF Parsed
<1> QED
  BY <1>3, <1>4

\* Every step keeps the parser on the packet.
LEMMA GoodStep ==
  ASSUME TypeInv, GoodInv, [Next]_vars
  PROVE  GoodInv'
<1> DEFINE InPacket == good # NoSolution /\ aligned /\ rest # << >>
           Goal == \E n \in 1 .. PayLen + 8 : Arriving(n)' /\ Parsed(n)'
<1> SUFFICES ASSUME InPacket'
             PROVE  Goal
  BY DEF GoodInv
<1>1. CASE RxIRQ
  <2>1. /\ good' = good /\ aligned' = aligned /\ locks' = locks /\ rest' = Tail(rest)
        /\ rest # << >> /\ RxHandler(Head(rest))
    BY <1>1 DEF RxIRQ
  <2>2. InPacket
    BY <2>1
  <2>3. PICK n \in 1 .. PayLen + 8 : Arriving(n) /\ Parsed(n)
    BY <2>2 DEF GoodInv
  <2>4. PICK v \in Byte : v = good
    BY <2>2, GoodByte DEF TypeInv
  <2>5. PICK ch \in Byte : ch = Head(rest)
    BY <2>1, NextByteTypes DEF TypeInv
  <2>6. ch = Packet(v)[n]
    BY <2>2, <2>3, <2>4, <2>5, ArrivingHead DEF TypeInv
  <2>7. /\ rest' \in Seq(Byte) /\ Len(rest') = Len(rest) - 1 /\ Len(rest) = PayLen + 9 - n
        /\ \A k \in 1 .. Len(rest') : rest'[k] = rest[k + 1]
    BY <2>1, <2>3 DEF TypeInv, TypeOK, Arriving
  <2>8. Len(rest') > 0
    BY <2>7
  <2>9. n \in 1 .. PayLen + 7
    BY <2>7, <2>8, Constants
  <2>10. PICK m \in Nat : m = n + 1
    BY <2>9
  <2>11. Parsed(m)'
    BY <2>1, <2>3, <2>4, <2>5, <2>6, <2>9, <2>10, ParseStep
  <2>12. m \in 1 .. PayLen + 8
    BY <2>9, <2>10, Constants
  <2>13. Arriving(m)'
    <3>1. Len(rest') = PayLen + 9 - m
      BY <2>7, <2>10, Constants
    <3>2. ASSUME NEW k \in 1 .. Len(rest') PROVE rest'[k] = Packet(good)[m + k - 1]
      <4>1. k + 1 \in 1 .. Len(rest)
        BY <2>7, Constants
      <4>2. rest[k + 1] = Packet(good)[n + (k + 1) - 1]
        BY <2>3, <4>1 DEF Arriving
      <4>3. n + (k + 1) - 1 = m + k - 1
        BY <2>10, <3>1
      <4> QED
        BY <2>7, <4>2, <4>3
    <3> QED
      BY <2>1, <2>12, <3>1, <3>2 DEF Arriving
  <2> QED
    BY <2>11, <2>12, <2>13
<1>2. CASE SendGood
  <2>1. PICK v \in Solutions : rest' = Packet(v) /\ good' = v
    BY <1>2 DEF SendGood
  <2>2. v \in Byte
    BY ConstantsAssumption
  <2>3. Arriving(1)'
    <3>1. Len(rest') = PayLen + 8 /\ 1 \in 1 .. PayLen + 8 /\ PayLen + 8 = PayLen + 9 - 1
      BY <2>1, <2>2, PacketBytes, Constants
    <3>2. ASSUME NEW k \in 1 .. Len(rest') PROVE rest'[k] = Packet(good')[1 + k - 1]
      <4>1. 1 + k - 1 = k
        BY <3>1
      <4> QED
        BY <2>1, <4>1
    <3> QED
      BY <3>1, <3>2 DEF Arriving
  <2>4. state' = "SYNC" /\ i' = 0
    BY <1>2 DEF SendGood, parser
  <2>5. Parsed(1)'
    BY <2>4, Constants DEF Parsed
  <2> QED
    BY <2>3, <2>5, Constants
<1>3. CASE SendOther
  BY <1>3 DEF SendOther
<1>4. CASE SlnBegin \/ SlnEnd \/ SlnCopy \/ UNCHANGED vars
  <2>1. UNCHANGED <<parser, navPvts, line>> /\ Back' = Back /\ locks'[Back] = locks[Back]
    <3>1. CASE SlnBegin
      BY <3>1, BackKeepsLock DEF SlnBegin
    <3>2. CASE SlnEnd
      <4>1. front # -1
        BY <3>2 DEF SlnEnd, TypeInv, ReaderInv
      <4> QED
        BY <3>2, <4>1, BackKeepsLock DEF SlnEnd
    <3>3. CASE SlnCopy
      BY <3>3 DEF SlnCopy, shared, Back
    <3>4. CASE UNCHANGED vars
      BY <3>4 DEF vars, shared, Back
    <3> QED
      BY <1>4, <3>1, <3>2, <3>3, <3>4
  <2>2. InPacket
    BY <2>1 DEF line
  <2>3. PICK n \in 1 .. PayLen + 8 : Arriving(n) /\ Parsed(n)
    BY <2>2 DEF GoodInv
  <2>4. n \in Nat
    BY Constants
  <2>5. Arriving(n)' /\ Parsed(n)'
    BY <2>1, <2>3, <2>4, ParsedKept
  <2> QED
    BY <2>5
<1> QED
  BY <1>1, <1>2, <1>3, <1>4 DEF Next

\* The last byte.
LEMMA LastByte ==
  ASSUME TypeInv, GoodInv, RxIRQ, good # NoSolution, aligned, Len(rest) = 1, ~locks[Back]
  PROVE  front' = Back /\ navPvts'[Back] = Payload(good)
<1>1. rest # << >> /\ RxHandler(Head(rest))
  BY DEF RxIRQ
<1>2. PICK n \in 1 .. PayLen + 8 : Arriving(n) /\ Parsed(n)
  BY <1>1 DEF GoodInv
<1>3. PICK v \in Byte : v = good
  BY GoodByte DEF TypeInv
<1>4. PICK ch \in Byte : ch = Head(rest)
  BY <1>1, NextByteTypes DEF TypeInv
<1>5. n = PayLen + 8 /\ ch = BodyCksum(v)[2]
  BY <1>2, <1>3, <1>4, ArrivingHead, PacketBytes DEF TypeInv
<1>6. n \in PayLen + 7 .. PayLen + 8 /\ n - (PayLen + 7) = 1
  BY <1>5, Constants
<1>7. /\ state = "CKSUM" /\ i = 1 /\ valid
      /\ cksum = Cut(Sums(PayLen, v)) /\ navPvts[Back] = Payload(v)
  BY <1>2, <1>3, <1>6 DEF Parsed
<1>8. ch = cksum[2]
  BY <1>5, <1>7, BodyCksumBytes
<1>9. TakesCksum(ch)
  BY <1>1, <1>4, <1>7, RxCksum
<1> QED
  BY <1>3, <1>7, <1>8, <1>9 DEF TakesCksum

-----------------------------------------------------------------------------
(* The half gnssSln copies from                                              *)

\* The interrupt writes the back half only, and not while it is locked.
LEMMA OtherHalf ==
  ASSUME TypeInv, NEW ch \in Byte, RxHandler(ch), NEW b \in 0 .. 1, b # Back \/ locks[b]
  PROVE  navPvts'[b] = navPvts[b]
<1>1. CASE state # "PAYLOAD"
  BY <1>1, RxSync, RxClsId, RxLength, RxCksum
  DEF TakesSync, TakesClsId, TakesLength, TakesCksum, TypeInv, TypeOK, States
<1>2. CASE state = "PAYLOAD"
  <2>1. navPvts' = IF valid /\ ~locks[Back]
                   THEN [navPvts EXCEPT ![Back][i] = ch] ELSE navPvts
    BY <1>2, RxPayload DEF TakesPayload
  <2>2. navPvts \in [0 .. 1 -> [0 .. PayLen - 1 -> Byte]] /\ Back \in 0 .. 1
    BY DEF TypeInv, TypeOK, Back
  <2>3. CASE valid /\ ~locks[Back]
    <3>1. b # Back
      BY <2>3
    <3> QED
      BY <2>1, <2>2, <2>3, <3>1
  <2>4. CASE ~(valid /\ ~locks[Back])
    BY <2>1, <2>4
  <2> QED
    BY <2>3, <2>4
<1> QED
  BY <1>1, <1>2

\* gnssSln has locked what it copies from.
LEMMA HalfStep ==
  ASSUME TypeInv, [Next]_vars, pc = "copy"
  PROVE  navPvts'[src] = navPvts[src]
<1>1. src \in 0 .. 1 /\ locks[src]
  BY DEF TypeInv, ReaderInv
<1>2. CASE RxIRQ
  <2>1. rest # << >> /\ RxHandler(Head(rest))
    BY <1>2 DEF RxIRQ
  <2>2. Head(rest) \in Byte
    BY <2>1, NextByteTypes DEF TypeInv
  <2> QED
    BY <1>1, <2>1, <2>2, OtherHalf
<1>3. CASE ~RxIRQ
  <2>1. navPvts' = navPvts
    BY <1>3 DEF Next, SendGood, SendOther, SlnBegin, SlnCopy, SlnEnd, vars, shared
  <2> QED
    BY <2>1
<1> QED
  BY <1>2, <1>3

-----------------------------------------------------------------------------
(* What was heard                                                            *)

\* Induction, by the least number for which something would be wrong.
LEMMA Least ==
  ASSUME NEW T \in SUBSET Nat, T # {}
  PROVE  \E x \in T : \A y \in T : x <= y
<1>1. PICK x \in T : \A y \in T : <<y, x>> \notin OpToRel(<, Nat)
  BY NatLessThanWellFounded, WFMin
<1>2. \A y \in T : ~(y < x)
  BY <1>1 DEF OpToRel
<1>3. \A y \in T : y \in Nat /\ x \in Nat
  OBVIOUS
<1> QED
  BY <1>2, <1>3

\* The sums over the payload heard are those Fletcher cuts.
LEMMA FletcherRuns ==
  ASSUME NEW b \in Seq(Byte), NEW s \in Runs(b, PayLen)
  PROVE  Fletcher(PayloadOf(b)) = Cut(s[PayLen])
<1> DEFINE p == PayloadOf(b)
           F(t) == [n \in 0 .. PayLen |->
                      IF n = 0 THEN HeadSums
                      ELSE <<t[n - 1][1] + p[n - 1],
                             t[n - 1][2] + t[n - 1][1] + p[n - 1]>>]
           sums == CHOOSE t : t = F(t)
<1>0. PayLen \in Nat /\ \A n \in 1 .. PayLen : p[n - 1] = b[n + 6]
  <2>1. ASSUME NEW n \in 1 .. PayLen PROVE p[n - 1] = b[n + 6]
    <3>1. n - 1 \in 0 .. PayLen - 1 /\ (n - 1) + 7 = n + 6
      BY Constants
    <3> QED
      BY <3>1 DEF PayloadOf
  <2> QED
    BY <2>1, Constants
<1>1. s = F(s)
  <2>1. DOMAIN s = 0 .. PayLen /\ s = [n \in 0 .. PayLen |-> s[n]]
    BY DEF Runs
  <2>2. \A n \in 0 .. PayLen :
          s[n] = IF n = 0 THEN HeadSums
                 ELSE <<s[n - 1][1] + p[n - 1], s[n - 1][2] + s[n - 1][1] + p[n - 1]>>
    <3> HIDE DEF p
    <3> QED
      BY <1>0 DEF Runs
  <2> HIDE DEF p
  <2> QED
    BY <2>1, <2>2
<1>2. sums = F(sums)
  <2> HIDE DEF F
  <2> QED
    BY <1>1
<1>3. Fletcher(p) = <<sums[PayLen][1] % Base, sums[PayLen][2] % Base>>
  BY DEF Fletcher, HeadSums
<1> HIDE DEF sums
<1>4. \A n \in 0 .. PayLen :
        sums[n] = IF n = 0 THEN HeadSums
                  ELSE <<sums[n - 1][1] + p[n - 1], sums[n - 1][2] + sums[n - 1][1] + p[n - 1]>>
  BY <1>2
<1>5. \A n \in 0 .. PayLen : sums[n] = s[n]
  <2> DEFINE T == {n \in 0 .. PayLen : sums[n] # s[n]}
  <2> SUFFICES ASSUME T # {} PROVE FALSE
    OBVIOUS
  <2>1. T \in SUBSET Nat
    BY <1>0
  <2>2. PICK k \in T : \A j \in T : k <= j
    <3> HIDE DEF T
    <3> QED
      BY <2>1, Least
  <2>3. k # 0 /\ k \in 1 .. PayLen
    <3>1. k \in 0 .. PayLen /\ sums[k] # s[k]
      OBVIOUS
    <3>2. s[0] = HeadSums
      BY DEF Runs
    <3>3. sums[0] = HeadSums
      <4>1. 0 \in 0 .. PayLen
        BY <1>0
      <4> QED
        BY <1>4, <4>1, Zenon
    <3> QED
      BY <1>0, <3>1, <3>2, <3>3
  <2>4. k - 1 \in 0 .. PayLen /\ k - 1 \notin T
    BY <1>0, <2>1, <2>2, <2>3
  <2>5. sums[k - 1] = s[k - 1]
    BY <2>4
  <2>6. s[k] = <<s[k - 1][1] + b[k + 6], (s[k - 1][2] + s[k - 1][1]) + b[k + 6]>>
    BY <2>3 DEF Runs
  <2>7. sums[k] = <<sums[k - 1][1] + p[k - 1], sums[k - 1][2] + sums[k - 1][1] + p[k - 1]>>
    BY <1>0, <1>4, <2>3
  <2> HIDE DEF p
  <2> QED
    BY <1>0, <2>2, <2>3, <2>5, <2>6, <2>7
<1> QED
  BY <1>0, <1>3, <1>5 DEF Cut

\* The first sums, and one payload byte more.
LEMMA RunsStart ==
  ASSUME NEW b
  PROVE  \E s \in Runs(b, 0) : Cut(s[0]) = Sum(Cut(HeaderSums(6)), 0)
<1> DEFINE s == [n \in 0 .. 0 |-> HeadSums]
<1>1. HeadSums \in Nat \X Nat
  <2>1. NavPvt[1] \in Nat /\ NavPvt[2] \in Nat /\ PayLen \in Nat
    BY SyncNavPvt, Constants DEF Byte
  <2> QED
    BY <2>1 DEF HeadSums
<1>2. s \in Runs(b, 0) /\ s[0] = HeadSums
  BY <1>1 DEF Runs
<1>3. Cut(HeadSums) = Sum(Cut(HeaderSums(6)), 0)
  <2>1. Sum(Cut(HeaderSums(6)), 0) = Cut(Sums(0, 0))
    BY HeaderStep, Constants
  <2>2. Sums(0, 0) = HeadSums
    <3>1. PICK a, c \in Nat : /\ a = NavPvt[1] + NavPvt[2] + PayLen
                              /\ c = 4 * NavPvt[1] + 3 * NavPvt[2] + 2 * PayLen
      BY SyncNavPvt, Constants DEF Byte
    <3>2. Triangle(0) = 0
      BY TriangleStep
    <3>3. Sums(0, 0) = <<a + 0 * 0, c + 0 * a + 0 * 0>>
      BY <3>1, <3>2 DEF Sums
    <3>4. a + 0 * 0 = a /\ c + 0 * a + 0 * 0 = c
      OBVIOUS
    <3> QED
      BY <3>1, <3>3, <3>4 DEF HeadSums
  <2> QED
    BY <2>1, <2>2
<1> HIDE DEF s
<1> QED
  BY <1>2, <1>3

LEMMA RunsMore ==
  ASSUME NEW b \in Seq(Byte), NEW n \in Nat, Len(b) = n + 6, NEW s \in Runs(b, n),
         NEW ch \in Byte
  PROVE  \E t \in Runs(Append(b, ch), n + 1) : Cut(t[n + 1]) = Sum(Cut(s[n]), ch)
<1> DEFINE d == <<s[n][1] + ch, (s[n][2] + s[n][1]) + ch>>
           t == [k \in 0 .. n + 1 |-> IF k = n + 1 THEN d ELSE s[k]]
           e == Append(b, ch)
<1>1. /\ s \in [0 .. n -> Nat \X Nat] /\ s[0] = HeadSums
      /\ \A k \in 1 .. n :
           s[k] = <<s[k - 1][1] + b[k + 6], (s[k - 1][2] + s[k - 1][1]) + b[k + 6]>>
  BY DEF Runs
<1>2. s[n] \in Nat \X Nat /\ ch \in Nat
  BY <1>1 DEF Byte
<1>3. PICK x, y \in Nat : s[n] = <<x, y>>
  BY <1>2
<1>4. d = <<x + ch, (y + x) + ch>> /\ d \in Nat \X Nat
  BY <1>2, <1>3
<1>5. Cut(d) = Sum(Cut(s[n]), ch)
  BY <1>2, <1>3, <1>4, CutSum
<1>6. e[n + 7] = ch /\ \A k \in 1 .. n : e[k + 6] = b[k + 6]
  <2>1. Len(b) + 1 = n + 7
    OBVIOUS
  <2>2. e[Len(b) + 1] = ch /\ \A k \in 1 .. Len(b) : e[k] = b[k]
    BY AppendProperties
  <2>3. \A k \in 1 .. n : k + 6 \in 1 .. Len(b)
    OBVIOUS
  <2> QED
    BY <2>1, <2>2, <2>3
<1> HIDE DEF d, e
<1>7. /\ t \in [0 .. n + 1 -> Nat \X Nat] /\ t[n + 1] = d
      /\ \A k \in 0 .. n : t[k] = s[k]
  <2>1. PICK S : S = Nat \X Nat
    OBVIOUS
  <2>2. s \in [0 .. n -> S] /\ d \in S
    BY <1>1, <1>4, <2>1
  <2>3. \A k \in 0 .. n + 1 : k # n + 1 => k \in 0 .. n
    OBVIOUS
  <2>4. t \in [0 .. n + 1 -> S]
    BY <2>2, <2>3
  <2> QED
    BY <2>1, <2>4
<1> HIDE DEF t
<1>8. ASSUME NEW k \in 1 .. n + 1
      PROVE  t[k] = <<t[k - 1][1] + e[k + 6], (t[k - 1][2] + t[k - 1][1]) + e[k + 6]>>
  <2>1. k - 1 \in 0 .. n /\ t[k - 1] = s[k - 1]
    BY <1>7
  <2>2. CASE k = n + 1
    <3>1. k - 1 = n /\ k + 6 = n + 7
      BY <2>2
    <3> QED
      BY <1>6, <1>7, <2>1, <2>2, <3>1 DEF d
  <2>3. CASE k # n + 1
    <3>1. k \in 1 .. n /\ k \in 0 .. n
      BY <2>3
    <3> QED
      BY <1>1, <1>6, <1>7, <2>1, <3>1
  <2> QED
    BY <2>2, <2>3
<1>9. t \in Runs(e, n + 1)
  <2>1. t[0] = HeadSums
    BY <1>1, <1>7
  <2> QED
    BY <1>7, <1>8, <2>1 DEF Runs
<1> QED
  BY <1>5, <1>7, <1>9 DEF e

\* The byte ch may follow the n bytes b of a packet, and makes them e.
Fits(b, n, ch) ==
  /\ b \in heard \cup {<< >>} /\ BeginsPacket(b)
  /\ n \in Nat /\ Len(b) = n
  /\ n < 6 => ch = Header[n + 1]
Grown(b, n, ch, e) ==
  /\ b \in Seq(Byte) /\ e \in Seq(Byte)
  /\ e = Append(b, ch) /\ Len(e) = n + 1 /\ BeginsPacket(e)
  /\ \A k \in 1 .. n : e[k] = b[k]
  /\ e[n + 1] = ch
  /\ n < PayLen + 7 => e \in heard'
  /\ IsPacket(e) => PayloadOf(e) \in fixes'

\* A beginning of a packet that was heard, with one byte more.
LEMMA HeardMore ==
  ASSUME TypeInv, NEW b, NEW n, NEW ch \in Byte, Hears(ch), Fits(b, n, ch)
  PROVE  \E e : Grown(b, n, ch, e)
<1>0. /\ b \in heard \cup {<< >>} /\ BeginsPacket(b) /\ n \in Nat /\ Len(b) = n
      /\ n < 6 => ch = Header[n + 1]
  BY DEF Fits
<1> DEFINE e == Append(b, ch)
<1>1. b \in Seq(Byte)
  BY <1>0, EmptyOrHeard DEF TypeInv, TypeOK
<1>2. /\ e \in Seq(Byte) /\ Len(e) = n + 1
      /\ \A k \in 1 .. n : e[k] = b[k]
      /\ e[n + 1] = ch
  BY <1>0, <1>1, AppendProperties
<1>4. /\ heard' = {c \in {Append(a, ch) : a \in heard \cup {<< >>}} :
                     Len(c) < PayLen + 8 /\ BeginsPacket(c)}
      /\ fixes' = fixes \cup {PayloadOf(a) : a \in
                                {c \in {Append(a, ch) : a \in heard \cup {<< >>}} : IsPacket(c)}}
  BY DEF Hears
<1>5. e \in {Append(a, ch) : a \in heard \cup {<< >>}}
  BY <1>0
<1> HIDE DEF e
<1>3. BeginsPacket(e)
  <2> SUFFICES ASSUME NEW k \in DOMAIN e, k <= 6 PROVE e[k] = Header[k]
    BY DEF BeginsPacket
  <2>1. k \in 1 .. n + 1
    BY <1>0, <1>2
  <2>2. CASE k \in 1 .. n
    <3>1. k \in DOMAIN b
      BY <1>0, <1>1, <2>2
    <3> QED
      BY <1>0, <1>2, <2>2, <3>1 DEF BeginsPacket
  <2>3. CASE k = n + 1
    BY <1>0, <1>2, <2>3
  <2> QED
    BY <1>0, <2>1, <2>2, <2>3
<1>6. n < PayLen + 7 => Len(e) < PayLen + 8
  BY <1>0, <1>2, Constants
<1>7. n < PayLen + 7 => e \in heard'
  BY <1>3, <1>4, <1>5, <1>6
<1>8. IsPacket(e) => PayloadOf(e) \in fixes'
  BY <1>4, <1>5
<1>9. e = Append(b, ch)
  BY DEF e
<1> QED
  BY <1>1, <1>2, <1>3, <1>7, <1>8, <1>9 DEF Grown

\* One byte of a packet, as the parser reads it.
LEMMA ReadStep ==
  ASSUME TypeInv, HeardInv, NEW ch \in Byte, RxHandler(ch), Hears(ch), UNCHANGED locks,
         valid', state' = "SYNC" => i' = 1
  PROVE  \E b \in heard' : Read(b)'
<1> USE Constants
<1>0. /\ state \in States /\ (state # "PAYLOAD" => i \in {0, 1})
      /\ (state = "PAYLOAD" => i \in Nat)
  BY DEF TypeInv, TypeOK, ParserInv
<1>b. ASSUME NEW b \in heard, Read(b) PROVE BeginsPacket(b) /\ b \in heard \cup {<< >>}
  BY DEF HeardInv
<1>1. CASE state = "SYNC"
  <2>1. TakesSync(ch)
    BY <1>1, RxSync
  <2>2. CASE i = 0
    <3>1. ch = Sync[1] /\ state' = "SYNC" /\ i' = 1
      BY <1>1, <2>1, <2>2 DEF TakesSync
    <3>2. PICK b : b = << >>
      OBVIOUS
    <3>3. BeginsPacket(b) /\ Len(b) = 0 /\ b \in heard \cup {<< >>}
      BY <3>2 DEF BeginsPacket
    <3>4. ch = Header[0 + 1]
      BY <3>1, HeaderBytes
    <3>5. PICK e \in heard' : Len(e) = 1
      <4>1. Fits(b, 0, ch)
        BY <3>3, <3>4 DEF Fits
      <4>2. PICK e : Grown(b, 0, ch, e)
        BY <4>1, HeardMore
      <4>3. 0 < PayLen + 7 /\ 0 + 1 = 1
        BY Constants
      <4>4. e \in heard' /\ Len(e) = 0 + 1
        BY <4>2, <4>3 DEF Grown
      <4> QED
        BY <4>3, <4>4
    <3> QED
      BY <3>1, <3>5 DEF Read
  <2>3. CASE i = 1
    <3>1. ch = Sync[2] /\ state' = "CLSID" /\ i' = 0 /\ cksum' = <<0, 0>>
      BY <1>1, <2>1, <2>3 DEF TakesSync
    <3>2. valid
      BY <1>1 DEF TypeInv, ParserInv
    <3>3. PICK b \in heard : Read(b)
      BY <2>3, <3>2 DEF HeardInv
    <3>4. Len(b) = 1
      BY <1>1, <2>3, <3>3 DEF Read
    <3>5. ch = Header[1 + 1]
      BY <3>1, HeaderBytes
    <3>6. PICK e \in heard' : Len(e) = 2
      <4>1. Fits(b, 1, ch)
        BY <1>b, <3>3, <3>4, <3>5 DEF Fits
      <4>2. PICK e : Grown(b, 1, ch, e)
        BY <4>1, HeardMore
      <4>3. 1 < PayLen + 7 /\ 1 + 1 = 2
        BY Constants
      <4>4. e \in heard' /\ Len(e) = 1 + 1
        BY <4>2, <4>3 DEF Grown
      <4> QED
        BY <4>3, <4>4
    <3>7. cksum' = Cut(HeaderSums(3))
      BY <3>1, HeaderStep
    <3> QED
      BY <3>1, <3>6, <3>7 DEF Read
  <2> QED
    BY <1>0, <1>1, <2>2, <2>3
<1>2. CASE state = "CLSID"
  <2>1. TakesClsId(ch)
    BY <1>2, RxClsId
  <2>2. valid /\ ch = NavPvt[i + 1] /\ cksum' = Sum(cksum, ch)
    BY <2>1 DEF TakesClsId
  <2>3. PICK b \in heard : Read(b)
    BY <1>2, <2>2 DEF HeardInv
  <2>4. Len(b) = 2 + i /\ cksum = Cut(HeaderSums(3 + i))
    BY <1>2, <2>3 DEF Read
  <2>5. CASE i = 0
    <3>1. ch = Header[2 + 1] /\ state' = "CLSID" /\ i' = 1
      BY <2>1, <2>2, <2>5, HeaderBytes DEF TakesClsId
    <3>2. PICK e \in heard' : Len(e) = 3
      <4>1. Fits(b, 2, ch)
        BY <1>b, <2>3, <2>4, <2>5, <3>1 DEF Fits
      <4>2. PICK e : Grown(b, 2, ch, e)
        BY <4>1, HeardMore
      <4>3. 2 < PayLen + 7 /\ 2 + 1 = 3
        BY Constants
      <4>4. e \in heard' /\ Len(e) = 2 + 1
        BY <4>2, <4>3 DEF Grown
      <4> QED
        BY <4>3, <4>4
    <3>3. cksum' = Cut(HeaderSums(4))
      BY <2>2, <2>4, <2>5, HeaderStep
    <3> QED
      BY <3>1, <3>2, <3>3 DEF Read
  <2>6. CASE i = 1
    <3>1. ch = Header[3 + 1] /\ state' = "LENGTH" /\ i' = 0
      BY <2>1, <2>2, <2>6, HeaderBytes DEF TakesClsId
    <3>2. PICK e \in heard' : Len(e) = 4
      <4>1. Fits(b, 3, ch)
        BY <1>b, <2>3, <2>4, <2>6, <3>1 DEF Fits
      <4>2. PICK e : Grown(b, 3, ch, e)
        BY <4>1, HeardMore
      <4>3. 3 < PayLen + 7 /\ 3 + 1 = 4
        BY Constants
      <4>4. e \in heard' /\ Len(e) = 3 + 1
        BY <4>2, <4>3 DEF Grown
      <4> QED
        BY <4>3, <4>4
    <3>3. cksum' = Cut(HeaderSums(5))
      BY <2>2, <2>4, <2>6, HeaderStep
    <3> QED
      BY <3>1, <3>2, <3>3 DEF Read
  <2> QED
    BY <1>0, <1>2, <2>5, <2>6
<1>3. CASE state = "LENGTH"
  <2>1. TakesLength(ch)
    BY <1>3, RxLength
  <2>2. valid /\ cksum' = Sum(cksum, ch)
    BY <1>0, <1>3, <2>1 DEF TakesLength
  <2>3. PICK b \in heard : Read(b)
    BY <1>3, <2>2 DEF HeardInv
  <2>4. Len(b) = 4 + i /\ cksum = Cut(HeaderSums(5 + i))
    BY <1>3, <2>3 DEF Read
  <2>5. CASE i = 0
    <3>1. ch = Header[4 + 1] /\ ch = PayLen /\ state' = "LENGTH" /\ i' = 1
      <4>1. ch = PayLen /\ state' = "LENGTH" /\ i' = 1
        BY <2>1, <2>5 DEF TakesLength
      <4> QED
        BY <4>1, HeaderBytes
    <3>2. PICK e \in heard' : Len(e) = 5
      <4>1. Fits(b, 4, ch)
        BY <1>b, <2>3, <2>4, <2>5, <3>1 DEF Fits
      <4>2. PICK e : Grown(b, 4, ch, e)
        BY <4>1, HeardMore
      <4>3. 4 < PayLen + 7 /\ 4 + 1 = 5
        BY Constants
      <4>4. e \in heard' /\ Len(e) = 4 + 1
        BY <4>2, <4>3 DEF Grown
      <4> QED
        BY <4>3, <4>4
    <3>3. cksum' = Cut(HeaderSums(6))
      BY <2>2, <2>4, <2>5, <3>1, HeaderStep
    <3> QED
      BY <3>1, <3>2, <3>3 DEF Read
  <2>6. CASE i = 1
    <3>1. ch = Header[5 + 1] /\ ch = 0 /\ state' = "PAYLOAD" /\ i' = 0
      <4>1. ch = 0 /\ state' = "PAYLOAD" /\ i' = 0
        BY <2>1, <2>6 DEF TakesLength
      <4> QED
        BY <4>1, HeaderBytes
    <3>2. PICK e \in heard' : Len(e) = 6
      <4>1. Fits(b, 5, ch)
        BY <1>b, <2>3, <2>4, <2>6, <3>1 DEF Fits
      <4>2. PICK e : Grown(b, 5, ch, e)
        BY <4>1, HeardMore
      <4>3. 5 < PayLen + 7 /\ 5 + 1 = 6
        BY Constants
      <4>4. e \in heard' /\ Len(e) = 5 + 1
        BY <4>2, <4>3 DEF Grown
      <4> QED
        BY <4>3, <4>4
    <3>3. cksum' = Sum(Cut(HeaderSums(6)), 0)
      BY <2>2, <2>4, <2>6, <3>1
    <3>4. PICK s \in Runs(e, 0) : Cut(s[0]) = cksum'
      BY <3>3, RunsStart
    <3>5. Filled(e, 0)'
      BY <3>4 DEF Filled
    <3> QED
      BY <3>1, <3>2, <3>5 DEF Read
  <2> QED
    BY <1>0, <1>3, <2>5, <2>6
<1>4. CASE state = "PAYLOAD"
  <2>1. TakesPayload(ch)
    BY <1>4, RxPayload
  <2>a. valid /\ ~locks[Back]
    BY <2>1 DEF TakesPayload
  <2>b. Back' = Back /\ Back \in 0 .. 1
    BY <2>1 DEF TakesPayload, Back
  <2>2. /\ valid /\ ~locks[Back] /\ cksum' = Sum(cksum, ch)
        /\ navPvts' = [navPvts EXCEPT ![Back][i] = ch]
        /\ Back' = Back /\ Back \in 0 .. 1 /\ locks' = locks
    BY <2>1, <2>a, <2>b DEF TakesPayload
  <2>3. PICK b \in heard : Read(b)
    BY <1>4, <2>2 DEF HeardInv
  <2>4. Len(b) = 6 + i /\ Filled(b, i)
    BY <1>4, <2>3 DEF Read
  <2>5. i \in Nat /\ i < PayLen /\ len = PayLen /\ i \in 0 .. PayLen - 1
    BY <1>4, <2>2 DEF TypeInv, TypeOK, ParserInv
  <2>6. PICK j \in Nat : j = i
    BY <2>5
  <2>7. PICK e : e = Append(b, ch)
    OBVIOUS
  <2>8. /\ e \in heard' /\ Len(e) = j + 7
        /\ \A k \in 1 .. j + 6 : e[k] = b[k]
        /\ e[j + 7] = ch
    <3>1. Len(b) = j + 6 /\ ~(Len(b) < 6) /\ Len(b) < PayLen + 7
      BY <2>4, <2>5, <2>6
    <3>2. PICK n \in Nat : n = j + 6
      OBVIOUS
    <3>3. Fits(b, n, ch) /\ n < PayLen + 7
      BY <1>b, <2>3, <3>1, <3>2 DEF Fits
    <3>4. /\ Len(e) = n + 1 /\ e \in heard'
          /\ \A k \in 1 .. n : e[k] = b[k]
          /\ e[n + 1] = ch
      <4>1. PICK g : Grown(b, n, ch, g)
        BY <3>3, HeardMore
      <4> QED
        BY <2>7, <3>3, <4>1 DEF Grown
    <3> QED
      BY <3>2, <3>4
  <2>9. \A k \in 0 .. j : navPvts'[Back][k] = e[k + 7]
    <3>1. navPvts \in [0 .. 1 -> [0 .. PayLen - 1 -> Byte]]
      BY DEF TypeInv, TypeOK
    <3>2. navPvts'[Back] = [navPvts[Back] EXCEPT ![j] = ch]
      BY <2>2, <2>6, <3>1
    <3>3. navPvts[Back] \in [0 .. PayLen - 1 -> Byte]
      BY <2>2, <3>1
    <3> SUFFICES ASSUME NEW k \in 0 .. j PROVE navPvts'[Back][k] = e[k + 7]
      OBVIOUS
    <3>4. CASE k = j
      BY <2>5, <2>6, <2>8, <3>2, <3>3, <3>4
    <3>5. CASE k \in 0 .. j - 1
      <4>1. navPvts[Back][k] = b[k + 7]
        BY <2>4, <2>6, <3>5 DEF Filled
      <4>2. k # j /\ k \in 0 .. PayLen - 1 /\ k + 7 \in 1 .. j + 6
        BY <2>5, <2>6, <3>5
      <4> QED
        BY <2>8, <3>2, <3>3, <4>1, <4>2
    <3> QED
      BY <3>4, <3>5
  <2>10. PICK t \in Runs(e, j + 1) : cksum' = Cut(t[j + 1])
    <3>1. PICK s \in Runs(b, j) : cksum = Cut(s[j])
      BY <2>4, <2>6 DEF Filled
    <3>2. b \in Seq(Byte) /\ Len(b) = j + 6
      BY <2>4, <2>6 DEF TypeInv, TypeOK, HistoryOK
    <3>3. \E t \in Runs(e, j + 1) : Cut(t[j + 1]) = Sum(Cut(s[j]), ch)
      BY <2>7, <3>2, RunsMore
    <3> QED
      BY <2>2, <3>1, <3>3
  <2>11. Filled(e, j + 1)'
    <3>1. \A k \in 0 .. (j + 1) - 1 : navPvts'[Back'][k] = e[k + 7]
      BY <2>2, <2>9
    <3>2. ~locks'[Back']
      BY <2>2
    <3> QED
      BY <2>10, <3>1, <3>2 DEF Filled
  <2>12. CASE j + 1 < PayLen
    <3>1. state' = "PAYLOAD" /\ i' = j + 1 /\ Len(e) = 6 + (j + 1)
      BY <2>1, <2>5, <2>6, <2>8, <2>12 DEF TakesPayload
    <3> QED
      BY <2>8, <2>11, <3>1 DEF Read
  <2>13. CASE ~(j + 1 < PayLen)
    <3>1. state' = "CKSUM" /\ i' = 0 /\ j + 1 = PayLen /\ Len(e) = PayLen + 6 + 0
      BY <2>1, <2>5, <2>6, <2>8, <2>13 DEF TakesPayload
    <3> QED
      BY <2>8, <2>11, <3>1 DEF Read
  <2> QED
    BY <2>12, <2>13
<1>5. CASE state = "CKSUM"
  <2>1. TakesCksum(ch)
    BY <1>5, RxCksum
  <2>2. i = 0
    BY <1>0, <1>5, <2>1 DEF TakesCksum
  <2>3. /\ valid /\ ch = cksum[1] /\ cksum' = cksum /\ navPvts' = navPvts /\ locks' = locks
        /\ state' = "CKSUM" /\ i' = 1 /\ Back' = Back
    <3>1. Back' = Back
      BY <2>1, <2>2 DEF TakesCksum, Back
    <3> QED
      BY <2>1, <2>2, <3>1 DEF TakesCksum
  <2>4. PICK b \in heard : Read(b)
    BY <1>5, <2>3 DEF HeardInv
  <2>5. Len(b) = PayLen + 6 /\ Filled(b, PayLen)
    BY <1>5, <2>2, <2>4 DEF Read
  <2>6. PICK e : e = Append(b, ch)
    OBVIOUS
  <2>7. /\ e \in heard' /\ Len(e) = PayLen + 7
        /\ \A k \in 1 .. PayLen + 6 : e[k] = b[k]
        /\ e[PayLen + 7] = ch
    <3>1. PICK n \in Nat : n = PayLen + 6
      OBVIOUS
    <3>2. Fits(b, n, ch) /\ n < PayLen + 7
      BY <1>b, <2>4, <2>5, <3>1 DEF Fits
    <3>3. /\ Len(e) = n + 1 /\ e \in heard'
          /\ \A k \in 1 .. n : e[k] = b[k]
          /\ e[n + 1] = ch
      <4>1. PICK g : Grown(b, n, ch, g)
        BY <3>2, HeardMore
      <4> QED
        BY <2>6, <3>2, <4>1 DEF Grown
    <3> QED
      BY <3>1, <3>3
  <2>8. Filled(e, PayLen)'
    <3>1. ~locks'[Back']
      BY <2>3, <2>5 DEF Filled
    <3>2. \A k \in 0 .. PayLen - 1 : navPvts'[Back'][k] = e[k + 7]
      <4>1. \A k \in 0 .. PayLen - 1 : k + 7 \in 1 .. PayLen + 6
        OBVIOUS
      <4> QED
        BY <2>3, <2>5, <2>7, <4>1 DEF Filled
    <3>3. PICK s \in Runs(b, PayLen) : cksum = Cut(s[PayLen])
      BY <2>5 DEF Filled
    <3>4. s \in Runs(e, PayLen)
      <4>1. \A k \in 1 .. PayLen : k + 6 \in 1 .. PayLen + 6
        OBVIOUS
      <4>2. \A k \in 1 .. PayLen : e[k + 6] = b[k + 6]
        BY <2>7, <4>1
      <4> QED
        BY <4>2 DEF Runs
    <3> QED
      BY <2>3, <3>1, <3>2, <3>3, <3>4 DEF Filled
  <2> QED
    BY <2>3, <2>7, <2>8 DEF Read
<1> QED
  BY <1>0, <1>1, <1>2, <1>3, <1>4, <1>5 DEF States

\* The byte that ends a packet with the right checksum.
LEMMA FlipIsFix ==
  ASSUME TypeInv, HeardInv, NEW ch \in Byte, RxHandler(ch), Hears(ch), front' # front
  PROVE  front' = Back /\ navPvts' = navPvts /\ navPvts[Back] \in fixes'
<1> USE Constants
<1>1. state = "CKSUM"
  BY RxSync, RxClsId, RxLength, RxPayload
  DEF TakesSync, TakesClsId, TakesLength, TakesPayload, TypeInv, TypeOK, States
<1>2. TakesCksum(ch)
  BY <1>1, RxCksum
<1>3. i \in {0, 1}
  BY <1>1 DEF TypeInv, TypeOK, ParserInv
<1>4. i = 1 /\ valid /\ ch = cksum[2] /\ front' = Back /\ navPvts' = navPvts
  BY <1>2, <1>3 DEF TakesCksum
<1>5. PICK b \in heard : Read(b)
  BY <1>1, <1>4 DEF HeardInv
<1>6. Len(b) = PayLen + 7 /\ Filled(b, PayLen) /\ b[PayLen + 7] = cksum[1]
  BY <1>1, <1>4, <1>5 DEF Read
<1>7. PICK e : e = Append(b, ch)
  OBVIOUS
<1>8. /\ b \in Seq(Byte) /\ e \in Seq(Byte) /\ Len(e) = PayLen + 8 /\ BeginsPacket(e)
      /\ \A k \in 1 .. PayLen + 7 : e[k] = b[k]
      /\ e[PayLen + 8] = ch
      /\ IsPacket(e) => PayloadOf(e) \in fixes'
  <2>1. PICK n \in Nat : n = PayLen + 7
    OBVIOUS
  <2>2. Fits(b, n, ch)
    BY <1>6, <2>1 DEF Fits, HeardInv
  <2>3. /\ b \in Seq(Byte) /\ e \in Seq(Byte) /\ Len(e) = n + 1 /\ BeginsPacket(e)
        /\ \A k \in 1 .. n : e[k] = b[k]
        /\ e[n + 1] = ch
        /\ IsPacket(e) => PayloadOf(e) \in fixes'
    <3>1. PICK g : Grown(b, n, ch, g)
      BY <2>2, HeardMore
    <3> QED
      BY <1>7, <3>1 DEF Grown
  <2> QED
    BY <2>1, <2>3
<1>9. PICK s \in Runs(b, PayLen) : cksum = Cut(s[PayLen])
  BY <1>6 DEF Filled
<1>10. PayloadOf(e) = PayloadOf(b)
  <2>1. \A k \in 0 .. PayLen - 1 : k + 7 \in 1 .. PayLen + 7
    OBVIOUS
  <2>2. \A k \in 0 .. PayLen - 1 : e[k + 7] = b[k + 7]
    BY <1>8, <2>1
  <2> QED
    BY <2>2 DEF PayloadOf
<1>11. Fletcher(PayloadOf(e)) = cksum
  BY <1>8, <1>9, <1>10, FletcherRuns
<1>12. IsPacket(e)
  <2>1. PayLen + 7 \in 1 .. PayLen + 7
    OBVIOUS
  <2>2. e[PayLen + 7] = cksum[1] /\ e[PayLen + 8] = cksum[2]
    BY <1>4, <1>6, <1>8, <2>1
  <2>3. cksum = <<cksum[1], cksum[2]>>
    BY DEF TypeInv, TypeOK
  <2> QED
    BY <1>8, <1>11, <2>2, <2>3 DEF IsPacket
<1>13. navPvts[Back] = PayloadOf(e)
  <2>1. navPvts[Back] \in [0 .. PayLen - 1 -> Byte]
    <3>1. navPvts \in [0 .. 1 -> [0 .. PayLen - 1 -> Byte]]
      BY DEF TypeInv, TypeOK
    <3>2. Back \in 0 .. 1
      BY DEF Back
    <3> QED
      BY <3>1, <3>2
  <2>2. \A k \in 0 .. PayLen - 1 : navPvts[Back][k] = b[k + 7]
    BY <1>6 DEF Filled
  <2> QED
    BY <1>10, <2>1, <2>2 DEF PayloadOf
<1> QED
  BY <1>4, <1>8, <1>12, <1>13

LEMMA HeardStep ==
  ASSUME TypeInv, HeardInv, [Next]_vars
  PROVE  HeardInv'
<1>a. front \in -1 .. 1 /\ src \in {NoHalf, 0, 1}
  BY DEF TypeInv, TypeOK
<1>1. CASE RxIRQ
  <2>1. /\ locks' = locks /\ pc' = pc /\ src' = src
        /\ rest # << >> /\ RxHandler(Head(rest)) /\ Hears(Head(rest))
    BY <1>1 DEF RxIRQ, reader
  <2>2. PICK ch \in Byte : ch = Head(rest)
    BY <2>1, NextByteTypes DEF TypeInv
  <2>3. RxHandler(ch) /\ Hears(ch)
    BY <2>1, <2>2
  <2>4. (\A b \in heard' : BeginsPacket(b)) /\ fixes \subseteq fixes'
    BY <2>3 DEF Hears
  <2>5. valid' /\ (state' = "SYNC" => i' = 1) => \E b \in heard' : Read(b)'
    BY <2>1, <2>3, ReadStep
  <2>6. front' # -1 => navPvts'[front'] \in fixes'
    <3>1. CASE front' = front
      <4>1. front # -1 => navPvts'[front] = navPvts[front]
        BY <1>a, <2>3, OtherHalf DEF Back
      <4> QED
        BY <2>4, <3>1, <4>1 DEF HeardInv
    <3>2. CASE front' # front
      BY <2>3, <3>2, FlipIsFix
    <3> QED
      BY <3>1, <3>2
  <2>7. pc' = "copy" => navPvts'[src'] \in fixes'
    <3>1. pc = "copy" => navPvts'[src] = navPvts[src]
      BY HalfStep
    <3> QED
      BY <2>1, <2>4, <3>1 DEF HeardInv
  <2>8. \A b \in heard' : BeginsPacket(b)'
    BY <2>4 DEF BeginsPacket
  <2> QED
    BY <2>5, <2>6, <2>7, <2>8 DEF HeardInv
<1>2. CASE SendGood \/ SendOther \/ UNCHANGED vars
  <2>1. UNCHANGED <<parser, shared, reader, history>>
    BY <1>2 DEF SendGood, SendOther, vars
  <2> QED
    BY <2>1 DEF HeardInv, Read, Filled, BeginsPacket, Back, parser, shared, reader, history
<1>3. CASE SlnBegin \/ SlnCopy \/ SlnEnd
  <2>1. /\ UNCHANGED <<parser, navPvts, front, history>>
        /\ pc' = "copy" => \/ pc = "copy" /\ src' = src
                           \/ front # -1 /\ src' = front
    BY <1>3 DEF SlnBegin, SlnCopy, SlnEnd, shared
  <2>2. front # -1 => Back' = Back /\ locks'[Back] = locks[Back]
    BY <1>3, BackKeepsLock DEF SlnBegin, SlnCopy, SlnEnd, shared, Back
  <2>3. front # -1
    BY <1>3 DEF SlnBegin, SlnCopy, SlnEnd, TypeInv, ReaderInv
  <2>4. /\ state' = state /\ i' = i /\ cksum' = cksum /\ valid' = valid /\ navPvts' = navPvts
        /\ heard' = heard /\ fixes' = fixes /\ front' = front
    BY <2>1 DEF parser, history
  <2>5. ASSUME NEW b \in heard, NEW n, Filled(b, n) PROVE Filled(b, n)'
    <3>1. locks'[Back'] = locks[Back] /\ Back' = Back
      BY <2>2, <2>3
    <3> QED
      BY <2>4, <2>5, <3>1 DEF Filled
  <2>6. ASSUME NEW b \in heard, Read(b) PROVE Read(b)'
    BY <2>4, <2>5, <2>6 DEF Read
  <2>7. valid' /\ (state' = "SYNC" => i' = 1) => \E b \in heard' : Read(b)'
    BY <2>4, <2>6 DEF HeardInv
  <2> QED
    BY <2>1, <2>4, <2>7 DEF HeardInv, BeginsPacket
<1> QED
  BY <1>1, <1>2, <1>3 DEF Next

-----------------------------------------------------------------------------
(* Theorems                                                                  *)

\* The invariants hold before the first byte arrives.
LEMMA InitInv == Init => TypeInv /\ GoodInv /\ HeardInv
<1> SUFFICES ASSUME Init PROVE TypeInv /\ GoodInv /\ HeardInv
  OBVIOUS
<1>1. navPvts \in [0 .. 1 -> [0 .. PayLen - 1 -> Byte]]
  BY Constants DEF Init, Payload
<1>2. TypeOK
  <2>1. /\ state \in States /\ i \in Nat /\ len \in 0 .. Base * Base - 1
        /\ cksum \in Byte \X Byte /\ valid \in BOOLEAN
    BY TwoByteLength, Constants DEF Init, States
  <2>2. /\ front \in -1 .. 1 /\ locks \in [0 .. 1 -> BOOLEAN] /\ pc \in {"idle", "copy"}
        /\ src \in {NoHalf, 0, 1}
    BY DEF Init
  <2>3. /\ sln \in Seq(Byte) /\ Len(sln) <= PayLen /\ rest \in Seq(Byte)
        /\ good \in Solutions \cup {NoSolution} /\ aligned \in BOOLEAN
    <3>1. << >> \in Seq(Byte) /\ Len(<< >>) = 0 /\ 0 <= PayLen
      BY Constants
    <3>2. sln = << >> /\ rest = << >> /\ good = NoSolution /\ aligned = FALSE
      BY DEF Init
    <3> QED
      BY <3>1, <3>2
  <2>4. HistoryOK
    BY DEF Init, HistoryOK
  <2> QED
    BY <1>1, <2>1, <2>2, <2>3, <2>4 DEF TypeOK
<1>3. ParserInv /\ ReaderInv
  BY Constants DEF Init, ParserInv, ReaderInv
<1>4. GoodInv /\ HeardInv
  BY DEF Init, GoodInv, HeardInv
<1> QED
  BY <1>2, <1>3, <1>4 DEF TypeInv

\* The types and the place of the parser in a packet that found it waiting, in
\* every reachable state.
THEOREM Invariance == Spec => [](TypeInv /\ GoodInv)
<1>1. TypeInv /\ GoodInv /\ [Next]_vars => (TypeInv /\ GoodInv)'
  BY TypeStep, GoodStep
<1> QED
  BY InitInv, <1>1, PTL DEF Spec

\* The variables keep their types: whatever arrives, the parser writes within the
\* half, and gnssSln reads within it.
THEOREM TypeCorrect == Spec => []TypeOK
<1>1. TypeInv => TypeOK
  BY DEF TypeInv
<1> QED
  BY Invariance, <1>1, PTL

\* No byte of the half gnssSln copies from changes while it copies, although
\* the interrupt goes on between the bytes and may flip the halves.
THEOREM HalfStands == Spec => [][pc = "copy" => navPvts'[src] = navPvts[src]]_vars
<1>1. TypeInv /\ GoodInv /\ [Next]_vars
        => [pc = "copy" => navPvts'[src] = navPvts[src]]_vars
  BY HalfStep
<1> QED
  BY Invariance, <1>1, PTL DEF Spec

\* A good packet that finds the parser waiting is the front half after its last
\* byte, unless gnssSln has locked the half it needs: the checksum gnssCksum
\* computes along the way is the one the packet ends with.
THEOREM PacketDelivered == Spec => GoodPacketDelivered
<1> DEFINE A == good # NoSolution /\ aligned /\ Len(rest) = 1 /\ rest' = << >>
           B == \/ locks[Back]
                \/ front' = Back /\ navPvts'[front'] = Payload(good)
<1>1. TypeInv /\ GoodInv /\ [Next]_vars => [A => B]_vars
  <2> SUFFICES ASSUME TypeInv, GoodInv, [Next]_vars, A PROVE B
    OBVIOUS
  <2>1. rest # << >>
    OBVIOUS
  <2>2. RxIRQ
    BY <2>1 DEF Next, SendGood, SendOther, SlnBegin, SlnCopy, SlnEnd, vars, line
  <2>3. ~locks[Back] => front' = Back /\ navPvts'[Back] = Payload(good)
    BY <2>2, LastByte
  <2> QED
    BY <2>3
<1>2. Spec => [][A => B]_vars
  <2> HIDE DEF A, B
  <2> QED
    BY Invariance, <1>1, PTL DEF Spec
<1> QED
  BY <1>2, PTL DEF GoodPacketDelivered

\* Whatever comes over the line, what gnssSln copies, byte by byte between
\* interrupts, is the payload of one NAV-PVT packet that came whole and with the
\* right checksum.
THEOREM CopiesWhole == Spec => []SolutionWhole
<1>1. TypeInv /\ GoodInv /\ HeardInv /\ [Next]_vars => (TypeInv /\ GoodInv /\ HeardInv)'
  BY TypeStep, GoodStep, HeardStep
<1>2. TypeInv /\ HeardInv => SolutionWhole
  <2> SUFFICES ASSUME TypeInv, HeardInv, pc = "copy"
               PROVE  \E p \in fixes : \A k \in DOMAIN sln : sln[k] = p[k - 1]
    BY DEF SolutionWhole
  <2>1. DOMAIN sln = 1 .. Len(sln)
    BY DEF TypeInv, TypeOK
  <2>2. \A k \in DOMAIN sln : sln[k] = navPvts[src][k - 1]
    BY <2>1 DEF TypeInv, ReaderInv
  <2>3. navPvts[src] \in fixes
    BY DEF HeardInv
  <2> QED
    BY <2>2, <2>3
<1> QED
  BY InitInv, <1>1, <1>2, PTL DEF Spec
=============================================================================
