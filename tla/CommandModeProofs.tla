------------------------- MODULE CommandModeProofs -------------------------
(***************************************************************************)
(* Proofs about CommandMode and FrameLoad, which it extends: the types;    *)
(* that no frame is loaded over the one that a handler looks at; that a    *)
(* frame whose first byte was taken for a start is dispatched; and that a  *)
(* job that returned without an error is saved in the XBee.                *)
(*                                                                         *)
(* Beside the types there are two invariants.  FrameInv says that behind   *)
(* the first byte of an undamaged frame the rest of it follows, over what  *)
(* was read, what the driver holds and what is on the line.  Dialogue says *)
(* that, once the break was answered with nothing behind it, what is left  *)
(* to read is the answer to the command that was sent, and what the XBee   *)
(* has done by then.                                                       *)
(*                                                                         *)
(* The provers cannot instantiate the library's rules of induction: what   *)
(* Checksum computes is shown by the least number for which it would be    *)
(* wrong.                                                                  *)
(***************************************************************************)
EXTENDS CommandMode, SequenceTheorems, WellFoundedInduction, TLAPS

\* A byte on the line or received.
Cell == [byte : Byte, frame : Frames \cup {None}]

Devs == [state : {"WAITSTART", "LENGTH_MSB", "LENGTH_LSB", "RXFRAME"},
         length : Nat, data : Seq(Byte)]

Activations == [at : {"load", "dispatch"}, dispatched : Nat, frame : Seq(Byte)]

Tasks == [pc : {"start", "break", "enter", "send", "reply", "exit", "left", "wait", "flush",
                "echo", "echoed", "urat", "init", "run", "stop"},
          job : {"BYPASS", "API", "APN"}, step : Nat, clock : 0 .. 2,
          ret : Int, buff : Seq(Byte), inStep : BOOLEAN]

Registers == [ap : {"transparent", "API", "BYPASS", "APN"}, bd : Nat]

XBees == [mode : {"data", "command", "leaving"}, noticed : BOOLEAN, late : Seq(Byte),
          set : Registers, saved : Registers, now : Registers, apn : Seq(Byte)]

LineTypes == line \in Seq(Cell) /\ rx \in Seq(Cell) /\ Len(rx) <= MaxRx

DevTypes ==
  /\ dev \in Devs
  /\ dev.state = "RXFRAME" => dev.length \in 2 .. MaxLength /\ Len(dev.data) <= dev.length
  /\ Len(dev.data) <= MaxLength + 1

OtherTypes == faults \in 0 .. MaxFaults /\ expect \in Frames \cup {None}

\* The loader runs once, and its handlers see the frame in the buffer.
StackOK ==
  \/ stack = << >> /\ inTick = FALSE
  \/ /\ inTick = TRUE
     /\ \E a \in Activations :
          /\ stack = <<a>>
          /\ a.at = "dispatch" => SubSeq(dev.data, 1, dev.length) = a.frame

TaskTypes ==
  /\ task \in Tasks /\ Len(task.buff) < BuffSize
  /\ port \in [baud : Nat, break : BOOLEAN]
  /\ port.break = (task.pc \in {"break", "enter"})
  /\ xbee \in XBees
  /\ stack # << >> => task.pc \in {"init", "run"}
  /\ task.pc = "urat" => Len(task.buff) < Len(ModemOK)

TypeInv == LineTypes /\ DevTypes /\ OtherTypes /\ StackOK /\ TaskTypes

-----------------------------------------------------------------------------
(* The checksum                                                              *)

\* Induction, by the least number for which something would be wrong.
LEMMA Least ==
  ASSUME NEW T \in SUBSET Nat, T # {}
  PROVE  \E x \in T : \A y \in T : x <= y
<1>1. PICK x \in T : \A y \in T : <<y, x>> \notin OpToRel(<, Nat)
  BY NatLessThanWellFounded, WFMin
<1>2. \A y \in T : ~(y < x)
  BY <1>1 DEF OpToRel
<1>3. \A y \in T : y \in Nat /\ x \in Nat
  OBVIOUS
<1> QED
  BY <1>2, <1>3

Next256(s, b) == (s - b) % 256

LEMMA Next256Lemma ==
  ASSUME NEW s \in Byte, NEW b \in Byte
  PROVE  Next256(s, b) \in Byte /\ Next256(s, s) = 0
BY DEF Next256, Byte

\* The sums over the first n bytes of bytes.
Sums(bytes, initial, m) ==
  {s \in [0 .. m -> Byte] :
     s[0] = initial /\ \A n \in 1 .. m : s[n] = Next256(s[n - 1], bytes[n])}

LEMMA SumsExist ==
  ASSUME NEW bytes \in Seq(Byte), NEW initial \in Byte, NEW m \in 0 .. Len(bytes)
  PROVE  Sums(bytes, initial, m) # {}
<1> DEFINE T == {k \in 0 .. Len(bytes) : Sums(bytes, initial, k) = {}}
<1>0. Len(bytes) \in Nat
  BY LenProperties
<1>1. T = {}
  <2> SUFFICES ASSUME T # {} PROVE FALSE
    OBVIOUS
  <2>1. T \in SUBSET Nat
    BY <1>0
  <2>2. PICK k \in T : \A j \in T : k <= j
    <3> HIDE DEF T
    <3> QED
      BY <2>1, Least
  <2>3. CASE k = 0
    <3>1. [n \in 0 .. 0 |-> initial] \in Sums(bytes, initial, 0)
      BY DEF Sums
    <3> QED
      BY <2>2, <2>3, <3>1
  <2>4. CASE k # 0
    <3>1. k \in Nat /\ k - 1 \in Nat /\ k - 1 \in 0 .. Len(bytes) /\ k <= Len(bytes)
      BY <1>0, <2>4
    <3>2. k - 1 \notin T
      BY <2>1, <2>2, <3>1
    <3>3. PICK s : s \in Sums(bytes, initial, k - 1)
      BY <3>1, <3>2
    <3> DEFINE b == Next256(s[k - 1], bytes[k])
               t == [n \in 0 .. k |-> IF n = k THEN b ELSE s[n]]
    <3>4. /\ s \in [0 .. k - 1 -> Byte] /\ s[0] = initial
          /\ \A n \in 1 .. k - 1 : s[n] = Next256(s[n - 1], bytes[n])
      BY <3>3 DEF Sums
    <3>5. b \in Byte
      <4>1. s[k - 1] \in Byte /\ bytes[k] \in Byte
        BY <1>0, <2>4, <3>1, <3>4, LenProperties
      <4> QED
        BY <4>1, Next256Lemma
    <3> HIDE DEF b
    <3>6. t \in [0 .. k -> Byte] /\ t[0] = initial
      BY <2>4, <3>1, <3>4, <3>5
    <3>7. t[k] = b /\ \A n \in 0 .. k - 1 : t[n] = s[n]
      BY <3>1
    <3>8. ASSUME NEW n \in 1 .. k
          PROVE  t[n] = Next256(t[n - 1], bytes[n])
      <4>1. n - 1 \in 0 .. k - 1
        BY <3>1
      <4>2. t[n - 1] = s[n - 1]
        BY <3>7, <4>1
      <4>3. CASE n = k
        BY <3>7, <4>2, <4>3 DEF b
      <4>4. CASE n # k
        <5>1. n \in 0 .. k - 1 /\ n \in 1 .. k - 1
          BY <3>1, <4>4
        <5> QED
          BY <3>4, <3>7, <4>2, <5>1
      <4> QED
        BY <4>3, <4>4
    <3>9. t \in Sums(bytes, initial, k)
      <4> HIDE DEF t
      <4> QED
        BY <3>6, <3>8 DEF Sums
    <3> QED
      BY <2>2, <3>9
  <2> QED
    BY <2>3, <2>4
<1> QED
  BY <1>1

\* Checksum is the last of the sums.
LEMMA ChecksumSums ==
  ASSUME NEW bytes \in Seq(Byte), NEW initial \in Byte
  PROVE  \E s \in Sums(bytes, initial, Len(bytes)) : Checksum(bytes, initial) = s[Len(bytes)]
<1> DEFINE F(s) == [n \in 0 .. Len(bytes) |->
                      IF n = 0 THEN initial ELSE (s[n - 1] - bytes[n]) % 256]
           sum == CHOOSE s : s = F(s)
<1>0. Len(bytes) \in Nat
  BY LenProperties
<1>1. PICK s : s \in Sums(bytes, initial, Len(bytes))
  BY <1>0, SumsExist
<1>2. s = F(s)
  <2>1. DOMAIN s = 0 .. Len(bytes) /\ s = [n \in 0 .. Len(bytes) |-> s[n]]
    BY <1>1 DEF Sums
  <2>2. \A n \in 0 .. Len(bytes) :
          s[n] = IF n = 0 THEN initial ELSE (s[n - 1] - bytes[n]) % 256
    BY <1>0, <1>1 DEF Sums, Next256
  <2> QED
    BY <2>1, <2>2
<1>3. sum = F(sum)
  <2> HIDE DEF F
  <2> QED
    BY <1>2
<1>4. Checksum(bytes, initial) = sum[Len(bytes)]
  BY DEF Checksum
<1> HIDE DEF sum
<1>5. \A n \in 0 .. Len(bytes) :
        sum[n] = IF n = 0 THEN initial ELSE (sum[n - 1] - bytes[n]) % 256
  BY <1>3
<1>6. \A n \in 0 .. Len(bytes) : sum[n] = s[n]
  <2> DEFINE T == {n \in 0 .. Len(bytes) : sum[n] # s[n]}
  <2> SUFFICES ASSUME T # {} PROVE FALSE
    OBVIOUS
  <2>1. T \in SUBSET Nat
    BY <1>0
  <2>2. PICK k \in T : \A j \in T : k <= j
    <3> HIDE DEF T
    <3> QED
      BY <2>1, Least
  <2>3. k # 0 /\ k \in Nat /\ k <= Len(bytes)
    BY <1>0, <1>1, <1>5 DEF Sums
  <2>4. k - 1 \in 0 .. Len(bytes) /\ k - 1 \notin T
    BY <1>0, <2>1, <2>2, <2>3
  <2>5. sum[k - 1] = s[k - 1]
    BY <2>4
  <2>6. s[k] = Next256(s[k - 1], bytes[k])
    BY <1>0, <1>1, <2>3 DEF Sums
  <2>7. sum[k] = Next256(sum[k - 1], bytes[k])
    BY <1>0, <1>5, <2>3 DEF Next256
  <2> QED
    BY <2>2, <2>5, <2>6, <2>7
<1> QED
  BY <1>0, <1>1, <1>4, <1>6

LEMMA ChecksumType ==
  ASSUME NEW bytes \in Seq(Byte), NEW initial \in Byte
  PROVE  Checksum(bytes, initial) \in Byte
BY ChecksumSums, LenProperties DEF Sums

\* Over a frame and its checksum the sum is 0.
LEMMA ChecksumWhole ==
  ASSUME NEW f \in Seq(Byte), NEW data \in Seq(Byte), Len(data) = Len(f) + 1,
         \A i \in 1 .. Len(f) : data[i] = f[i],
         data[Len(f) + 1] = Checksum(f, 255)
  PROVE  Checksum(data, 255) = 0
<1>0. Len(f) \in Nat /\ 255 \in Byte
  BY LenProperties DEF Byte
<1>1. PICK s \in Sums(f, 255, Len(f)) : Checksum(f, 255) = s[Len(f)]
  BY <1>0, ChecksumSums
<1>2. PICK t \in Sums(data, 255, Len(f) + 1) : Checksum(data, 255) = t[Len(f) + 1]
  BY <1>0, ChecksumSums
<1>3. \A n \in 0 .. Len(f) : s[n] = t[n]
  <2> DEFINE T == {n \in 0 .. Len(f) : s[n] # t[n]}
  <2> SUFFICES ASSUME T # {} PROVE FALSE
    OBVIOUS
  <2>1. T \in SUBSET Nat
    BY <1>0
  <2>2. PICK k \in T : \A j \in T : k <= j
    <3> HIDE DEF T
    <3> QED
      BY <2>1, Least
  <2>3. k # 0 /\ k \in Nat /\ k <= Len(f)
    BY <1>0, <1>1, <1>2 DEF Sums
  <2>4. k - 1 \in 0 .. Len(f) /\ k - 1 \notin T
    BY <1>0, <2>1, <2>2, <2>3
  <2>5. s[k - 1] = t[k - 1]
    BY <2>4
  <2>6. s[k] = Next256(s[k - 1], f[k]) /\ t[k] = Next256(t[k - 1], data[k])
    BY <1>0, <1>1, <1>2, <2>3 DEF Sums
  <2>7. data[k] = f[k]
    BY <1>0, <2>3
  <2> QED
    BY <2>2, <2>5, <2>6, <2>7
<1>4. s[Len(f)] = t[Len(f)] /\ t[Len(f)] \in Byte
  BY <1>0, <1>2, <1>3 DEF Sums
<1>5. t[Len(f) + 1] = Next256(t[Len(f)], data[Len(f) + 1])
  <2>1. Len(f) + 1 \in 1 .. Len(f) + 1 /\ Len(f) + 1 - 1 = Len(f)
    BY <1>0
  <2> QED
    BY <1>2, <2>1 DEF Sums
<1> QED
  BY <1>1, <1>2, <1>4, <1>5, Next256Lemma

-----------------------------------------------------------------------------
(* Bytes and frames                                                          *)

LEMMA NoneLemma == None \in Seq(Byte) /\ None \notin Frames /\ Len(None) = 0
<1>1. None \in Seq(Byte) /\ Len(None) = 0
  BY EmptySeq DEF None
<1>2. \A f \in Frames : Len(f) # 0
  BY FrameAssumption
<1> QED
  BY <1>1, <1>2

LEMMA PlainLemma ==
  ASSUME NEW b \in Seq(Byte)
  PROVE  /\ Plain(b) \in Seq(Cell) /\ Len(Plain(b)) = Len(b) /\ Len(b) \in Nat
         /\ \A i \in 1 .. Len(b) : Plain(b)[i].byte = b[i] /\ Plain(b)[i].frame = None
<1>1. Len(b) \in Nat /\ DOMAIN b = 1 .. Len(b)
  BY LenProperties
<1>2. Plain(b) \in [1 .. Len(b) -> Cell]
  <2>1. \A i \in 1 .. Len(b) : [byte |-> b[i], frame |-> None] \in Cell
    BY <1>1, LenProperties DEF Cell
  <2> QED
    BY <1>1, <2>1 DEF Plain
<1>3. Plain(b) \in Seq(Cell)
  BY <1>1, <1>2, SeqDef
<1> QED
  BY <1>1, <1>2, <1>3, LenProperties DEF Plain

LEMMA EncodeLemma ==
  ASSUME NEW f \in Frames
  PROVE  /\ Encode(f) \in Seq(Byte) /\ Len(Encode(f)) = Len(f) + 4
         /\ Len(f) \in 2 .. MaxLength /\ Len(f) \in Nat
         /\ Encode(f)[1] = Start
         /\ Encode(f)[2] = Len(f) \div 256 /\ Len(f) \div 256 \in 0 .. Start - 1
         /\ Encode(f)[3] = Len(f) % 256 /\ Len(f) % 256 \in Byte
         /\ 256 * (Len(f) \div 256) + (Len(f) % 256) = Len(f)
         /\ \A i \in 1 .. Len(f) : Encode(f)[3 + i] = f[i]
         /\ Encode(f)[Len(f) + 4] = Checksum(f, 255)
<1>1. f \in Seq(Byte) /\ Len(f) \in 2 .. MaxLength /\ Len(f) \in Nat
  BY FrameAssumption
<1>2. /\ Len(f) \div 256 \in 0 .. Start - 1
      /\ Len(f) % 256 \in Byte
      /\ 256 * (Len(f) \div 256) + (Len(f) % 256) = Len(f)
  <2> DEFINE n == Len(f)
  <2>1. n \in Nat /\ n < 126 * 256
    BY <1>1, FrameAssumption DEF Start
  <2> HIDE DEF n
  <2>2. n \div 256 \in 0 .. 125 /\ n % 256 \in 0 .. 255 /\ 256 * (n \div 256) + (n % 256) = n
    BY <2>1
  <2> QED
    BY <2>2 DEF n, Start, Byte
<1>3. Checksum(f, 255) \in Byte
  <2>1. 255 \in Byte
    BY DEF Byte
  <2> QED
    BY <1>1, <2>1, ChecksumType
<1> DEFINE a == <<Start, Len(f) \div 256, Len(f) % 256>>
           c == <<Checksum(f, 255)>>
<1>4. /\ a \in Seq(Byte) /\ Len(a) = 3
      /\ a[1] = Start /\ a[2] = Len(f) \div 256 /\ a[3] = Len(f) % 256
  <2>1. Start \in Byte /\ Len(f) \div 256 \in Byte /\ Len(f) % 256 \in Byte
    BY <1>2 DEF Start, Byte
  <2> HIDE DEF Start, Byte
  <2> QED
    BY <2>1
<1>5. c \in Seq(Byte) /\ Len(c) = 1 /\ c[1] = Checksum(f, 255)
  BY <1>3
<1> HIDE DEF a, c
<1>6. /\ a \o f \in Seq(Byte) /\ Len(a \o f) = Len(f) + 3
      /\ \A i \in 1 .. Len(f) + 3 : (a \o f)[i] = IF i <= 3 THEN a[i] ELSE f[i - 3]
  <2>1. /\ a \o f \in Seq(Byte) /\ Len(a \o f) = Len(a) + Len(f)
        /\ \A i \in 1 .. Len(a) + Len(f) :
             (a \o f)[i] = IF i <= Len(a) THEN a[i] ELSE f[i - Len(a)]
    BY ZenonT(60), <1>1, <1>4, ConcatProperties
  <2>2. Len(a) + Len(f) = Len(f) + 3
    BY <1>1, <1>4
  <2>3. Len(a) = 3
    BY <1>4
  <2> DEFINE ac == a \o f
  <2> HIDE DEF ac
  <2>4. ac \in Seq(Byte) /\ Len(ac) = Len(a) + Len(f)
    BY <2>1 DEF ac
  <2>5. \A i \in 1 .. Len(a) + Len(f) : ac[i] = IF i <= Len(a) THEN a[i] ELSE f[i - Len(a)]
    BY <2>1 DEF ac
  <2>6. \A i \in 1 .. Len(f) + 3 : ac[i] = IF i <= 3 THEN a[i] ELSE f[i - 3]
    BY <2>2, <2>3, <2>5
  <2> QED
    BY <2>2, <2>4, <2>6 DEF ac
<1> DEFINE d == a \o f
<1>7. /\ d \o c \in Seq(Byte) /\ Len(d \o c) = Len(f) + 4
      /\ \A i \in 1 .. Len(f) + 4 : (d \o c)[i] = IF i <= Len(f) + 3 THEN d[i] ELSE c[i - (Len(f) + 3)]
  <2>1. d \in Seq(Byte) /\ Len(d) = Len(f) + 3
    BY <1>6
  <2> HIDE DEF d
  <2>2. /\ d \o c \in Seq(Byte) /\ Len(d \o c) = Len(d) + Len(c)
        /\ \A i \in 1 .. Len(d) + Len(c) :
             (d \o c)[i] = IF i <= Len(d) THEN d[i] ELSE c[i - Len(d)]
    BY ZenonT(60), <1>5, <2>1, ConcatProperties
  <2>3. Len(d) + Len(c) = Len(f) + 4
    BY <1>1, <1>5, <2>1
  <2> QED
    BY <2>1, <2>2, <2>3
<1>8. Encode(f) = d \o c
  BY DEF Encode, a, c
<1> DEFINE e == d \o c
<1>9. \A i \in 1 .. Len(f) + 3 : e[i] = IF i <= 3 THEN a[i] ELSE f[i - 3]
  BY <1>1, <1>6, <1>7
<1>10. e[1] = Start /\ e[2] = Len(f) \div 256 /\ e[3] = Len(f) % 256
  BY <1>1, <1>4, <1>9
<1>11. \A i \in 1 .. Len(f) : e[3 + i] = f[i]
  <2> TAKE i \in 1 .. Len(f)
  <2>1. 3 + i \in 1 .. Len(f) + 3 /\ ~(3 + i <= 3) /\ 3 + i - 3 = i
    BY <1>1
  <2> HIDE DEF e
  <2> QED
    BY <1>9, <2>1
<1>12. e[Len(f) + 4] = Checksum(f, 255)
  <2>1. Len(f) + 4 \in 1 .. Len(f) + 4 /\ ~(Len(f) + 4 <= Len(f) + 3)
        /\ Len(f) + 4 - (Len(f) + 3) = 1
    BY <1>1
  <2> QED
    BY <1>5, <1>7, <2>1
<1> HIDE DEF e
<1>13. Encode(f) = e
  BY <1>8 DEF e
<1>14. e \in Seq(Byte) /\ Len(e) = Len(f) + 4
  BY <1>7 DEF e
<1> QED
  BY <1>1, <1>2, <1>10, <1>11, <1>12, <1>13, <1>14

\* A frame as the XBee sends it: its first byte carries it along.
LEMMA WholeLemma ==
  ASSUME NEW f \in Frames
  PROVE  /\ Whole(f) \in Seq(Cell) /\ Len(Whole(f)) = Len(Encode(f))
         /\ \A i \in 1 .. Len(Encode(f)) :
              /\ Whole(f)[i].byte = Encode(f)[i]
              /\ Whole(f)[i].frame = IF i = 1 THEN f ELSE None
<1> DEFINE p == Plain(Encode(f))
           n == Len(Encode(f))
<1>1. p \in Seq(Cell) /\ Len(p) = n /\ n \in Nat /\ n > 1
      /\ \A i \in 1 .. n : p[i].byte = Encode(f)[i] /\ p[i].frame = None /\ p[i] \in Cell
  BY EncodeLemma, PlainLemma, LenProperties
<1> HIDE DEF p, n
<1>2. Whole(f) = [p EXCEPT ![1] = [p[1] EXCEPT !.frame = f]]
  BY DEF Whole, p
<1>3. 1 \in 1 .. Len(p)
  BY <1>1
<1>4. /\ [p[1] EXCEPT !.frame = f] \in Cell
      /\ [p[1] EXCEPT !.frame = f].byte = p[1].byte
      /\ [p[1] EXCEPT !.frame = f].frame = f
  BY <1>1, <1>3 DEF Cell
<1> DEFINE c == [p[1] EXCEPT !.frame = f]
<1> HIDE DEF c
<1>5. /\ Whole(f) \in Seq(Cell) /\ Len(Whole(f)) = Len(p)
      /\ \A j \in 1 .. Len(p) : Whole(f)[j] = IF j = 1 THEN c ELSE p[j]
  BY <1>1, <1>2, <1>3, <1>4, ExceptSeq DEF c
<1> QED
  BY <1>1, <1>3, <1>4, <1>5 DEF n, c

\* What is left of a sequence when n elements were taken.
LEMMA DropLemma ==
  ASSUME NEW S, NEW s \in Seq(S), NEW n \in Nat
  PROVE  /\ SubSeq(s, n + 1, Len(s)) \in Seq(S) /\ Len(s) \in Nat
         /\ Len(SubSeq(s, n + 1, Len(s))) = IF n <= Len(s) THEN Len(s) - n ELSE 0
         /\ \A k \in 1 .. Len(s) - n :
              n + k \in 1 .. Len(s) /\ SubSeq(s, n + 1, Len(s))[k] = s[n + k]
<1>1. Len(s) \in Nat /\ \A k \in 1 .. Len(s) : s[k] \in S
  BY LenProperties
<1>2. n + 1 \in Int /\ Len(s) \in Int /\ \A k \in n + 1 .. Len(s) : s[k] \in S
  BY <1>1
<1> DEFINE t == SubSeq(s, n + 1, Len(s))
<1>3. /\ t \in Seq(S)
      /\ Len(t) = IF n + 1 <= Len(s) THEN Len(s) - (n + 1) + 1 ELSE 0
      /\ \A k \in 1 .. Len(s) - (n + 1) + 1 : t[k] = s[n + 1 + k - 1]
  BY <1>2, SubSeqProperties
<1> HIDE DEF t
<1>4. Len(t) = IF n <= Len(s) THEN Len(s) - n ELSE 0
  <2>1. Len(s) - (n + 1) + 1 = Len(s) - n /\ (n + 1 <= Len(s) => n <= Len(s))
    BY <1>1
  <2>2. CASE n + 1 <= Len(s)
    BY <1>3, <2>1, <2>2
  <2>3. CASE ~(n + 1 <= Len(s))
    <3>1. n <= Len(s) => Len(s) - n = 0
      BY <1>1, <2>3
    <3> QED
      BY <1>3, <2>3, <3>1
  <2> QED
    BY <2>2, <2>3
<1>5. ASSUME NEW k \in 1 .. Len(s) - n
      PROVE  n + k \in 1 .. Len(s) /\ t[k] = s[n + k]
  <2>1. k \in 1 .. Len(s) - (n + 1) + 1 /\ n + 1 + k - 1 = n + k
    BY <1>1
  <2> QED
    BY <1>1, <1>3, <2>1
<1> QED
  BY <1>1, <1>3, <1>4, <1>5 DEF t

LEMMA ConcatSeq ==
  ASSUME NEW S, NEW s \in Seq(S), NEW t \in Seq(S)
  PROVE  s \o t \in Seq(S)
BY ConcatProperties

\* The texts of the dialogue.
LEMMA TextLemma ==
  /\ OK \in Seq(Byte) /\ ERROR \in Seq(Byte) /\ Dash \in Seq(Byte)
  /\ <<CR>> \in Seq(Byte) /\ <<CR, LF>> \in Seq(Byte)
  /\ ModemOK \in Seq(Byte) /\ OK \o <<CR>> \in Seq(Byte) /\ ERROR \o <<CR>> \in Seq(Byte)
  /\ (<<CR, LF>> \o ERROR) \o <<CR, LF>> \in Seq(Byte)
<1>1. /\ CR \in Byte /\ LF \in Byte /\ 79 \in Byte /\ 75 \in Byte /\ 69 \in Byte
      /\ 82 \in Byte /\ 45 \in Byte
  BY DEF CR, LF, Byte
<1> HIDE DEF CR, LF, Byte
<1>2. OK \in Seq(Byte) /\ ERROR \in Seq(Byte) /\ Dash \in Seq(Byte)
  BY <1>1 DEF OK, ERROR, Dash
<1>3. <<CR>> \in Seq(Byte) /\ <<CR, LF>> \in Seq(Byte)
  BY <1>1
<1> DEFINE crlf == <<CR, LF>>
           cr == <<CR>>
<1>4. crlf \in Seq(Byte) /\ cr \in Seq(Byte)
  BY <1>3
<1> HIDE DEF crlf, cr
<1>5. (crlf \o OK) \o crlf \in Seq(Byte) /\ (crlf \o ERROR) \o crlf \in Seq(Byte)
      /\ OK \o cr \in Seq(Byte) /\ ERROR \o cr \in Seq(Byte)
  <2>1. crlf \o OK \in Seq(Byte) /\ crlf \o ERROR \in Seq(Byte)
    BY <1>2, <1>4, ConcatSeq
  <2> QED
    BY <1>2, <1>4, <2>1, ConcatSeq
<1> QED
  BY <1>2, <1>3, <1>5 DEF crlf, cr, ModemOK

\* The line with something more on it.
LEMMA MoreLine ==
  ASSUME line \in Seq(Cell), NEW b \in Seq(Byte)
  PROVE  line \o Plain(b) \in Seq(Cell)
BY PlainLemma, ConcatSeq

LEMMA FaultLemma ==
  ASSUME faults \in 0 .. MaxFaults, faults < MaxFaults
  PROVE  faults + 1 \in 0 .. MaxFaults
BY FrameAssumption

LEMMA AnswerTypes ==
  ASSUME line \in Seq(Cell), faults \in 0 .. MaxFaults,
         NEW x \in XBees, NEW text \in Seq(Byte), Answer(x, text)
  PROVE  line' \in Seq(Cell) /\ faults' \in 0 .. MaxFaults /\ xbee' \in XBees
<1>1. x.late \o text \in Seq(Byte)
  BY ConcatSeq DEF XBees
<1> DEFINE l == x.late \o text
<1> HIDE DEF l
<1>2. [x EXCEPT !.late = l] \in XBees
  BY <1>1 DEF XBees, l
<1>3. [x EXCEPT !.late = @ \o text] = [x EXCEPT !.late = l]
  BY DEF l
<1> QED
  BY <1>2, <1>3, MoreLine, FaultLemma DEF Answer

LEMMA EffectTypes ==
  ASSUME xbee \in XBees, task \in Tasks, NEW c
  PROVE  Effect(c) \in XBees
<1>1. Fresh \in Registers
  BY DEF Fresh, Registers
<1>2. [xbee.set EXCEPT !.ap = task.job] \in Registers
  BY DEF XBees, Tasks, Registers
<1>3. [xbee.set EXCEPT !.bd = Target] \in Registers
  BY DEF XBees, Registers, Target
<1>4. \A r \in Registers : [xbee EXCEPT !.set = r] \in XBees /\ [xbee EXCEPT !.saved = r] \in XBees
  BY DEF XBees
<1>5. [xbee EXCEPT !.apn = Dash] \in XBees
  BY TextLemma DEF XBees
<1>6. [xbee EXCEPT !.mode = "leaving"] \in XBees
  BY DEF XBees
<1>7. xbee.set \in Registers
  BY DEF XBees
<1>8. /\ [xbee EXCEPT !.set.ap = task.job] = [xbee EXCEPT !.set = [xbee.set EXCEPT !.ap = task.job]]
      /\ [xbee EXCEPT !.set.bd = Target] = [xbee EXCEPT !.set = [xbee.set EXCEPT !.bd = Target]]
  OBVIOUS
<1>9. /\ [xbee EXCEPT !.set.ap = task.job] \in XBees
      /\ [xbee EXCEPT !.set.bd = Target] \in XBees
  BY <1>2, <1>3, <1>4, <1>8
<1> QED
  BY <1>1, <1>4, <1>5, <1>6, <1>7, <1>9 DEF Effect

LEMMA AskedTypes ==
  ASSUME line \in Seq(Cell), faults \in 0 .. MaxFaults, xbee \in XBees, task \in Tasks,
         NEW c, Asked(c)
  PROVE  line' \in Seq(Cell) /\ faults' \in 0 .. MaxFaults /\ xbee' \in XBees
<1>1. Effect(c) \in XBees
  BY EffectTypes
<1>2. Said(c) \in Seq(Byte)
  <2>1. (IF c = "AN" THEN xbee.apn ELSE OK) \in Seq(Byte)
    BY TextLemma DEF XBees
  <2> QED
    BY <2>1, TextLemma, ConcatSeq DEF Said
<1>3. CASE Answer(Effect(c), Said(c))
  BY <1>1, <1>2, <1>3, AnswerTypes
<1> DEFINE reached == xbee.mode = "command" /\ port.baud = 9600
<1>4. CASE reached /\ ~Answer(Effect(c), Said(c))
  <2>1. faults < MaxFaults /\ faults' = faults + 1 /\ xbee' = xbee
    BY <1>4 DEF Asked
  <2>2. line' = line \o Plain(ERROR \o <<CR>>)
    BY SMTT(30), <1>4 DEF Asked
  <2> QED
    BY <2>1, <2>2, TextLemma, MoreLine, FaultLemma
<1>5. CASE ~reached
  BY <1>5 DEF Asked
<1> QED
  BY <1>3, <1>4, <1>5

LEMMA ModemTypes ==
  ASSUME line \in Seq(Cell), faults \in 0 .. MaxFaults, xbee \in XBees, ModemAsked
  PROVE  line' \in Seq(Cell) /\ faults' \in 0 .. MaxFaults /\ xbee' \in XBees
<1>1. CASE Answer(xbee, ModemOK)
  BY <1>1, TextLemma, AnswerTypes
<1>2. CASE /\ faults < MaxFaults /\ faults' = faults + 1
           /\ line' = line \o Plain(<<CR, LF>> \o ERROR \o <<CR, LF>>)
           /\ UNCHANGED xbee
  BY <1>2, TextLemma, MoreLine, FaultLemma
<1>3. CASE UNCHANGED <<line, xbee, faults>>
  BY <1>3
<1> QED
  BY <1>1, <1>2, <1>3 DEF ModemAsked

\* Also a damaged frame is one of bytes.
LEMMA DamagedText ==
  ASSUME NEW f \in Frames, SendDamaged(f)
  PROVE  \E t \in Seq(Byte) : line' = Plain(t)
<1> DEFINE e == Encode(f)
<1>1. e \in Seq(Byte) /\ DOMAIN e = 1 .. Len(e) /\ Len(e) \in Nat /\ \A k \in 1 .. Len(e) : e[k] \in Byte
  BY EncodeLemma, LenProperties
<1>2. PICK i \in 1 .. Len(e) :
        line' = Plain(RemoveAt(e, i)) \/ line' = Plain(InsertAt(e, i, Start))
  BY <1>1 DEF SendDamaged
<1> HIDE DEF e
<1>3. \A a, b \in Int : 1 <= a /\ b <= Len(e) => SubSeq(e, a, b) \in Seq(Byte)
  <2> TAKE a, b \in Int
  <2>1. 1 <= a /\ b <= Len(e) => \A k \in a .. b : e[k] \in Byte
    BY <1>1
  <2> QED
    BY <2>1, SubSeqProperties
<1>4. SubSeq(e, 1, i - 1) \in Seq(Byte) /\ SubSeq(e, i + 1, Len(e)) \in Seq(Byte)
      /\ SubSeq(e, i, Len(e)) \in Seq(Byte)
  BY <1>1, <1>3
<1>5. <<Start>> \in Seq(Byte)
  BY DEF Start, Byte
<1>6. RemoveAt(e, i) \in Seq(Byte)
  BY <1>4, ConcatSeq DEF RemoveAt
<1>7. InsertAt(e, i, Start) \in Seq(Byte)
  <2>1. SubSeq(e, 1, i - 1) \o <<Start>> \in Seq(Byte)
    BY <1>4, <1>5, ConcatSeq
  <2> QED
    BY <1>4, <2>1, ConcatSeq DEF InsertAt
<1> QED
  BY <1>2, <1>6, <1>7

LEMMA DamagedTypes ==
  ASSUME NEW f \in Frames, SendDamaged(f), faults \in 0 .. MaxFaults
  PROVE  line' \in Seq(Cell) /\ faults' \in 0 .. MaxFaults
<1>1. line' \in Seq(Cell)
  BY DamagedText, PlainLemma
<1> QED
  BY <1>1, FaultLemma DEF SendDamaged

LEMMA ReceiveTypes ==
  ASSUME LineTypes, NEW b \in Cell, Receive(b)
  PROVE  LineTypes'
<1>1. Tail(line) \in Seq(Cell)
  BY HeadTailProperties DEF LineTypes, Receive
<1>2. Append(rx, b) \in Seq(Cell) /\ Len(Append(rx, b)) = Len(rx) + 1 /\ Len(rx) \in Nat
  BY AppendProperties, LenProperties DEF LineTypes
<1>3. Len(Append(rx, b)) <= MaxRx
  BY <1>2, FrameAssumption DEF Receive
<1> QED
  BY <1>1, <1>2, <1>3 DEF LineTypes, Receive

LEMMA MinLemma ==
  ASSUME NEW T \in SUBSET Nat, T # {}
  PROVE  Min(T) \in T /\ \A y \in T : Min(T) <= y
BY Least DEF Min

\* The bytes read for the frame or the answer, with the first n of rx.
LEMMA BytesLemma ==
  ASSUME rx \in Seq(Cell), NEW buff \in Seq(Byte), NEW n \in 0 .. Len(rx)
  PROVE  LET text == buff \o [i \in 1 .. n |-> rx[i].byte] IN
         /\ text \in Seq(Byte) /\ Len(text) = Len(buff) + n /\ Len(buff) \in Nat
         /\ \A i \in 1 .. Len(buff) : text[i] = buff[i]
         /\ \A i \in 1 .. n : text[Len(buff) + i] = rx[i].byte
<1> DEFINE b == [i \in 1 .. n |-> rx[i].byte]
<1>0. Len(rx) \in Nat /\ Len(buff) \in Nat /\ n \in Nat /\ \A i \in 1 .. Len(rx) : rx[i] \in Cell
  BY LenProperties
<1>1. b \in [1 .. n -> Byte]
  BY <1>0 DEF Cell
<1>2. b \in Seq(Byte) /\ Len(b) = n
  <2> HIDE DEF b
  <2>1. b \in Seq(Byte)
    BY <1>0, <1>1, SeqDef
  <2> QED
    BY <1>0, <1>1, <2>1, LenProperties
<1>3. \A i \in 1 .. n : b[i] = rx[i].byte
  OBVIOUS
<1> HIDE DEF b
<1> DEFINE text == buff \o b
<1>4. /\ text \in Seq(Byte) /\ Len(text) = Len(buff) + n
      /\ \A i \in 1 .. Len(buff) + n :
           text[i] = IF i <= Len(buff) THEN buff[i] ELSE b[i - Len(buff)]
  BY <1>2, ConcatProperties
<1> HIDE DEF text
<1>5. \A i \in 1 .. Len(buff) : text[i] = buff[i]
  BY <1>0, <1>4
<1>6. ASSUME NEW i \in 1 .. n
      PROVE  text[Len(buff) + i] = rx[i].byte
  <2>1. Len(buff) + i \in 1 .. Len(buff) + n /\ ~(Len(buff) + i <= Len(buff))
        /\ Len(buff) + i - Len(buff) = i
    BY <1>0
  <2> QED
    BY <1>3, <1>4, <2>1
<1> QED
  BY <1>0, <1>4, <1>5, <1>6 DEF text, b

Returns == {i \in DOMAIN rx : rx[i].byte = CR}
Room == BuffSize - 1 - Len(task.buff)
Text(n) == task.buff \o [i \in 1 .. n |-> rx[i].byte]

\* What xbee_atmode_read_response does, by cases.
LEMMA ReadLemma ==
  ASSUME rx \in Seq(Cell), task \in Tasks, Len(task.buff) < BuffSize
  PROVE  \/ /\ ReadResponse.ret = 0 /\ \E i \in Returns : i <= Room
            /\ ReadResponse.read = Min(Returns)
            /\ Min(Returns) \in Returns /\ \A i \in Returns : Min(Returns) <= i
            /\ ReadResponse.text = Text(Min(Returns) - 1)
         \/ /\ ReadResponse.ret = ENOSPC /\ Len(rx) >= Room
            /\ ReadResponse.read = Room /\ ReadResponse.text = None
            /\ \A i \in Returns : i > Room
         \/ /\ ReadResponse.ret = EAGAIN /\ ReadResponse.read = Len(rx)
            /\ ReadResponse.text = Text(Len(rx)) /\ Len(rx) < Room /\ Returns = {}
<1>1. Len(rx) \in Nat /\ DOMAIN rx = 1 .. Len(rx) /\ Room \in Nat
  <2>1. Len(task.buff) \in Nat
    BY LenProperties DEF Tasks
  <2> QED
    BY <2>1, CommandAssumption, LenProperties DEF Room
<1>2. Returns \in SUBSET Nat
  BY <1>1 DEF Returns
<1>3. CASE \E i \in Returns : i <= Room
  <2>1. Returns # {}
    BY <1>3
  <2>2. Min(Returns) \in Returns /\ \A i \in Returns : Min(Returns) <= i
    BY <1>2, <2>1, MinLemma
  <2>3. ~(\A i \in Returns : i > Room)
    BY <1>1, <1>2, <1>3
  <2>4. ReadResponse =
          [ret |-> 0, text |-> Text(Min(Returns) - 1), read |-> Min(Returns)]
    BY <1>3, <2>3 DEF ReadResponse, Returns, Room, Text
  <2> QED
    BY <1>3, <2>2, <2>4
<1>4. CASE Len(rx) >= Room /\ \A i \in Returns : i > Room
  <2>1. ~(\E i \in Returns : i <= Room)
    BY <1>1, <1>2, <1>4
  <2>2. ReadResponse = [ret |-> ENOSPC, text |-> None, read |-> Room]
    BY <1>4, <2>1 DEF ReadResponse, Returns, Room
  <2> QED
    BY <1>4, <2>2
<1>5. CASE ~(\E i \in Returns : i <= Room) /\ ~(Len(rx) >= Room)
  <2>1. ReadResponse = [ret |-> EAGAIN, text |-> Text(Len(rx)), read |-> Len(rx)]
    BY <1>5 DEF ReadResponse, Returns, Room, Text
  <2>2. Len(rx) < Room
    BY <1>1, <1>5
  <2>3. Returns = {}
    <3>1. \A i \in Returns : i \in Nat /\ i <= Len(rx)
      BY <1>1 DEF Returns
    <3> QED
      BY <1>1, <1>5, <2>2, <3>1
  <2> QED
    BY <2>1, <2>2, <2>3
<1> QED
  BY <1>1, <1>2, <1>3, <1>4, <1>5

LEMMA ReadTypes ==
  ASSUME LineTypes, task \in Tasks, Len(task.buff) < BuffSize
  PROVE  /\ ReadResponse.ret \in {0, ENOSPC, EAGAIN}
         /\ ReadResponse.text \in Seq(Byte) /\ ReadResponse.read \in 0 .. Len(rx)
         /\ ReadResponse.ret = EAGAIN => Len(ReadResponse.text) < BuffSize
         /\ Reads => LineTypes'
<1> DEFINE R == ReadResponse
<1>1. Len(rx) \in Nat /\ DOMAIN rx = 1 .. Len(rx) /\ Room \in Nat /\ Len(task.buff) \in Nat
      /\ task.buff \in Seq(Byte)
  <2>1. Len(task.buff) \in Nat /\ task.buff \in Seq(Byte)
    BY LenProperties DEF Tasks
  <2> QED
    BY <2>1, CommandAssumption, LenProperties DEF Room, LineTypes
<1>2. ASSUME NEW n \in 0 .. Len(rx)
      PROVE  Text(n) \in Seq(Byte) /\ Len(Text(n)) = Len(task.buff) + n
  BY <1>1, <1>2, BytesLemma DEF Text, LineTypes
<1>3. /\ R.ret \in {0, ENOSPC, EAGAIN} /\ R.text \in Seq(Byte) /\ R.read \in 0 .. Len(rx)
      /\ R.ret = EAGAIN => Len(R.text) < BuffSize
  <2>1. CASE /\ R.ret = 0 /\ R.read = Min(Returns) /\ Min(Returns) \in Returns
             /\ R.text = Text(Min(Returns) - 1)
    <3>1. Min(Returns) \in 1 .. Len(rx)
      BY <1>1, <2>1 DEF Returns
    <3>2. Min(Returns) - 1 \in 0 .. Len(rx) /\ Min(Returns) \in 0 .. Len(rx)
      BY <1>1, <3>1
    <3> QED
      BY <1>2, <2>1, <3>2 DEF EAGAIN
  <2>2. CASE R.ret = ENOSPC /\ Len(rx) >= Room /\ R.read = Room /\ R.text = None
    BY <1>1, <2>2, NoneLemma DEF ENOSPC, EAGAIN
  <2>3. CASE R.ret = EAGAIN /\ R.read = Len(rx) /\ R.text = Text(Len(rx)) /\ Len(rx) < Room
    <3>1. Len(rx) \in 0 .. Len(rx)
      BY <1>1
    <3>2. Len(task.buff) + Len(rx) < BuffSize
      <4>1. \A l, n, b \in Nat : n < b - 1 - l => l + n < b
        OBVIOUS
      <4>2. Len(rx) < BuffSize - 1 - Len(task.buff)
        BY <2>3 DEF Room
      <4> HIDE DEF R
      <4> QED
        BY <1>1, <4>1, <4>2, CommandAssumption
    <3> QED
      BY <1>2, <2>3, <3>1, <3>2
  <2> QED
    BY <2>1, <2>2, <2>3, ReadLemma DEF LineTypes
<1> HIDE DEF R
<1>4. ASSUME Reads
      PROVE  LineTypes'
  <2>1. rx' = SubSeq(rx, R.read + 1, Len(rx)) /\ line' = line
    BY <1>4 DEF Reads, R
  <2>2. R.read \in Nat /\ R.read <= Len(rx)
    BY <1>1, <1>3
  <2>3. rx' \in Seq(Cell) /\ Len(rx') = Len(rx) - R.read
    BY <2>1, <2>2, DropLemma DEF LineTypes
  <2> QED
    BY SMTT(30), <1>1, <2>1, <2>2, <2>3, FrameAssumption DEF LineTypes
<1> QED
  BY <1>3, <1>4 DEF R

-----------------------------------------------------------------------------
(* The loader                                                                *)

\* A stack of one activation.
LEMMA OneLemma ==
  ASSUME NEW a
  PROVE  /\ Len(<<a>>) = 1 /\ <<a>>[1] = a /\ <<a>> # << >>
         /\ Last(<<a>>) = a /\ Front(<<a>>) = << >> /\ Append(<< >>, a) = <<a>>
         /\ \A b : [<<a>> EXCEPT ![1] = b] = <<b>>
<1>1. Len(<<a>>) = 1 /\ <<a>>[1] = a /\ <<a>> # << >>
  OBVIOUS
<1>2. Last(<<a>>) = a
  BY <1>1 DEF Last
<1>3. Front(<<a>>) = << >>
  BY <1>1 DEF Front
<1>4. Append(<< >>, a) = <<a>>
  OBVIOUS
<1>5. \A b : [<<a>> EXCEPT ![1] = b] = <<b>>
  OBVIOUS
<1> QED
  BY <1>1, <1>2, <1>3, <1>4, <1>5

\* What the loader keeps.
LoadTypes == LineTypes /\ DevTypes /\ OtherTypes /\ StackOK

LEMMA StackLemma ==
  ASSUME StackOK, stack # << >>
  PROVE  /\ inTick = TRUE /\ Last(stack) \in Activations /\ stack = <<Last(stack)>>
         /\ Front(stack) = << >> /\ Len(stack) = 1 /\ stack[1] = Last(stack)
         /\ Last(stack).at = "dispatch" =>
              SubSeq(dev.data, 1, dev.length) = Last(stack).frame
<1>1. PICK a \in Activations :
        stack = <<a>> /\ (a.at = "dispatch" => SubSeq(dev.data, 1, dev.length) = a.frame)
  BY DEF StackOK
<1>2. inTick = TRUE
  BY DEF StackOK
<1> QED
  BY <1>1, <1>2, OneLemma

\* A stack that is loading does not say anything of the buffer.
LEMMA LoadingKeepsStack ==
  ASSUME StackOK, stack # << >>, Last(stack).at = "load", UNCHANGED <<stack, inTick>>
  PROVE  StackOK'
<1>1. Last(stack) \in Activations /\ stack = <<Last(stack)>> /\ inTick = TRUE
  BY StackLemma
<1>2. PICK a : a = Last(stack)
  OBVIOUS
<1>3. a \in Activations /\ stack' = <<a>> /\ inTick' = TRUE /\ a.at = "load"
  BY <1>1, <1>2
<1> QED
  BY <1>3 DEF StackOK

LEMMA NothingStep ==
  ASSUME LoadTypes, stack # << >>, Nothing, UNCHANGED <<line, faults>>
  PROVE  LoadTypes'
<1>1. stack' = << >> /\ inTick' = FALSE
  BY StackLemma DEF LoadTypes, Nothing, Return
<1>2. LineTypes' /\ DevTypes' /\ OtherTypes'
  BY DEF LoadTypes, Nothing, LineTypes, DevTypes, OtherTypes
<1> QED
  BY <1>1, <1>2 DEF LoadTypes, StackOK

\* The first byte of rx is taken.
LEMMA TakeLemma ==
  ASSUME LineTypes, rx # << >>
  PROVE  /\ Head(rx) \in Cell /\ Byte1 \in Byte /\ Byte1 \in Nat
         /\ Head(rx).frame \in Frames \cup {None}
         /\ rx' = Tail(rx) /\ UNCHANGED line => LineTypes'
<1>1. Head(rx) \in Cell /\ Tail(rx) \in Seq(Cell) /\ Len(Tail(rx)) = Len(rx) - 1 /\ Len(rx) \in Nat
  BY HeadTailProperties, LenProperties DEF LineTypes
<1>2. Byte1 \in Byte /\ Byte1 \in Nat /\ Head(rx).frame \in Frames \cup {None}
  <2>1. \A c \in Cell : c.byte \in Byte /\ c.frame \in Frames \cup {None}
    BY DEF Cell
  <2>2. \A b \in Byte : b \in Nat
    BY DEF Byte
  <2> QED
    BY <1>1, <2>1, <2>2 DEF Byte1
<1>3. Len(rx) - 1 <= MaxRx
  BY <1>1, FrameAssumption DEF LineTypes
<1> QED
  BY <1>1, <1>2, <1>3 DEF LineTypes

LEMMA BeginsTypes ==
  ASSUME DevTypes, LineTypes, rx # << >>, Begins
  PROVE  DevTypes' /\ expect' \in Frames \cup {None}
<1>1. dev' \in Devs /\ dev'.state = "LENGTH_MSB" /\ dev'.data = dev.data
  BY DEF DevTypes, Devs, Begins
<1> QED
  BY <1>1, TakeLemma DEF DevTypes, Begins

LEMMA WaitStartStep ==
  ASSUME LoadTypes, WaitStart
  PROVE  LoadTypes'
<1>1. stack # << >> /\ Last(stack).at = "load" /\ UNCHANGED <<line, faults>>
  BY DEF WaitStart, Loading
<1>2. CASE Nothing
  BY <1>1, <1>2, NothingStep
<1>3. CASE rx # << >> /\ rx' = Tail(rx) /\ UNCHANGED <<stack, inTick>>
           /\ IF Byte1 = Start THEN Begins ELSE UNCHANGED <<dev, expect>>
  <2>1. LineTypes' /\ StackOK'
    BY <1>1, <1>3, TakeLemma, LoadingKeepsStack DEF LoadTypes
  <2>2. DevTypes' /\ expect' \in Frames \cup {None}
    <3>1. CASE Begins
      BY <1>3, <3>1, BeginsTypes DEF LoadTypes
    <3>2. CASE UNCHANGED <<dev, expect>>
      BY <3>2 DEF LoadTypes, DevTypes, OtherTypes
    <3> QED
      BY <1>3, <3>1, <3>2
  <2> QED
    BY <1>1, <2>1, <2>2 DEF LoadTypes, OtherTypes
<1> QED
  BY <1>2, <1>3 DEF WaitStart

LEMMA LengthMsbStep ==
  ASSUME LoadTypes, LengthMsb
  PROVE  LoadTypes'
<1>1. stack # << >> /\ Last(stack).at = "load" /\ UNCHANGED <<line, faults>>
  BY DEF LengthMsb, Loading
<1>2. CASE Nothing
  BY <1>1, <1>2, NothingStep
<1>3. CASE /\ rx # << >> /\ rx' = Tail(rx) /\ UNCHANGED <<stack, inTick>>
           /\ \/ Begins
              \/ /\ dev' = [dev EXCEPT !.state = "LENGTH_LSB", !.length = 256 * Byte1]
                 /\ UNCHANGED expect
  <2>1. LineTypes' /\ StackOK'
    BY <1>1, <1>3, TakeLemma, LoadingKeepsStack DEF LoadTypes
  <2>2. DevTypes' /\ expect' \in Frames \cup {None}
    <3>1. CASE Begins
      BY <1>3, <3>1, BeginsTypes DEF LoadTypes
    <3>2. CASE /\ dev' = [dev EXCEPT !.state = "LENGTH_LSB", !.length = 256 * Byte1]
               /\ UNCHANGED expect
      <4>1. 256 * Byte1 \in Nat
        BY <1>3, TakeLemma DEF LoadTypes
      <4>2. dev' \in Devs /\ dev'.state = "LENGTH_LSB" /\ dev'.data = dev.data
        BY <3>2, <4>1 DEF LoadTypes, DevTypes, Devs
      <4> QED
        BY <3>2, <4>2 DEF LoadTypes, DevTypes, OtherTypes
    <3> QED
      BY <1>3, <3>1, <3>2
  <2> QED
    BY <1>1, <2>1, <2>2 DEF LoadTypes, OtherTypes
<1> QED
  BY <1>2, <1>3 DEF LengthMsb

LEMMA LengthLsbStep ==
  ASSUME LoadTypes, LengthLsb
  PROVE  LoadTypes'
<1> DEFINE length == dev.length + Byte1
<1>1. stack # << >> /\ Last(stack).at = "load" /\ UNCHANGED <<line, faults>>
  BY DEF LengthLsb, Loading
<1>2. CASE Nothing
  BY <1>1, <1>2, NothingStep
<1>3. CASE /\ rx # << >> /\ rx' = Tail(rx) /\ UNCHANGED <<stack, inTick>>
           /\ \/ Begins
              \/ dev' = [dev EXCEPT !.state = "WAITSTART"] /\ expect' = None
              \/ /\ ~BadLength(length) /\ UNCHANGED expect
                 /\ dev' = [state |-> "RXFRAME", length |-> length, data |-> << >>]
  <2>1. LineTypes' /\ StackOK'
    BY <1>1, <1>3, TakeLemma, LoadingKeepsStack DEF LoadTypes
  <2>2. DevTypes' /\ expect' \in Frames \cup {None}
    <3>1. CASE Begins
      BY <1>3, <3>1, BeginsTypes DEF LoadTypes
    <3>2. CASE dev' = [dev EXCEPT !.state = "WAITSTART"] /\ expect' = None
      <4>1. dev' \in Devs /\ dev'.state = "WAITSTART" /\ dev'.data = dev.data
        BY <3>2 DEF LoadTypes, DevTypes, Devs
      <4> QED
        BY <3>2, <4>1 DEF LoadTypes, DevTypes
    <3>3. CASE /\ ~BadLength(length) /\ UNCHANGED expect
               /\ dev' = [state |-> "RXFRAME", length |-> length, data |-> << >>]
      <4>1. length \in Nat
        BY <1>3, TakeLemma DEF LoadTypes, DevTypes, Devs
      <4>2. length \in 2 .. MaxLength /\ MaxLength \in Nat
        BY <3>3, <4>1, FrameAssumption DEF BadLength
      <4> HIDE DEF length
      <4>3. << >> \in Seq(Byte) /\ Len(<< >>) = 0
        BY EmptySeq
      <4>4. dev' \in Devs /\ dev'.length = length /\ Len(dev'.data) = 0
        BY <3>3, <4>1, <4>3 DEF Devs
      <4> QED
        BY <3>3, <4>2, <4>4 DEF LoadTypes, DevTypes, OtherTypes
    <3> HIDE DEF length
    <3> QED
      BY <1>3, <3>1, <3>2, <3>3
  <2> QED
    BY <1>1, <2>1, <2>2 DEF LoadTypes, OtherTypes
<1> QED
  BY <1>2, <1>3 DEF LengthLsb

\* What RxFrame reads.
Left1 == dev.length - Len(dev.data) + 1
Read1 == IF Len(rx) < Left1 THEN Len(rx) ELSE Left1
Data1 == dev.data \o [i \in 1 .. Read1 |-> rx[i].byte]

LEMMA RxFrameLemma ==
  ASSUME LineTypes, DevTypes, RxFrame
  PROVE  /\ stack # << >> /\ Last(stack).at = "load" /\ dev.state = "RXFRAME"
         /\ UNCHANGED <<line, astray, faults>>
         /\ dev.length \in 2 .. MaxLength /\ Read1 \in 0 .. Len(rx) /\ Len(rx) \in Nat
         /\ Len(dev.data) \in Nat /\ Data1 \in Seq(Byte) /\ Len(Data1) = Len(dev.data) + Read1
         /\ \A i \in 1 .. Len(dev.data) : Data1[i] = dev.data[i]
         /\ \A i \in 1 .. Read1 : Data1[Len(dev.data) + i] = rx[i].byte
         /\ rx' = SubSeq(rx, Read1 + 1, Len(rx))
         /\ \/ /\ Len(Data1) <= dev.length /\ Read1 = Len(rx)
               /\ dev' = [dev EXCEPT !.data = Data1]
               /\ Return /\ UNCHANGED expect
            \/ /\ Len(Data1) = dev.length + 1
               /\ dev' = [dev EXCEPT !.state = "WAITSTART", !.data = Data1]
               /\ expect' = None /\ UNCHANGED inTick
               /\ stack' = IF Checksum(Data1, 255) # 0 THEN stack
                           ELSE [stack EXCEPT ![Len(stack)].at = "dispatch",
                                   ![Len(stack)].dispatched = @ + 1,
                                   ![Len(stack)].frame = SubSeq(Data1, 1, dev.length)]
<1>1. stack # << >> /\ Last(stack).at = "load" /\ dev.state = "RXFRAME" /\ UNCHANGED <<line, astray, faults>>
  BY DEF RxFrame, Loading
<1>2. /\ dev.length \in 2 .. MaxLength /\ Len(dev.data) <= dev.length /\ Len(rx) \in Nat
      /\ Len(dev.data) \in Nat /\ dev.data \in Seq(Byte) /\ MaxLength \in Nat
      /\ dev.length \in Nat
  <2>1. dev.data \in Seq(Byte) /\ dev.length \in Nat
    BY DEF DevTypes, Devs
  <2> QED
    BY <1>1, <2>1, LenProperties, FrameAssumption DEF LineTypes, DevTypes
<1>3. Left1 \in Nat /\ Read1 \in 0 .. Len(rx) /\ Read1 <= Left1 /\ (Read1 # Left1 => Read1 = Len(rx))
  BY <1>2 DEF Left1, Read1
<1>4. /\ Data1 \in Seq(Byte) /\ Len(Data1) = Len(dev.data) + Read1
      /\ \A i \in 1 .. Len(dev.data) : Data1[i] = dev.data[i]
      /\ \A i \in 1 .. Read1 : Data1[Len(dev.data) + i] = rx[i].byte
  <2> HIDE DEF Read1
  <2> QED
    BY <1>2, <1>3, BytesLemma DEF Data1, LineTypes
<1>5. /\ Read1 = Left1 => Len(Data1) = dev.length + 1
      /\ Read1 # Left1 => Len(Data1) <= dev.length
  <2>1. Left1 = dev.length - Len(dev.data) + 1
    BY DEF Left1
  <2>2. \A d, l, r, n \in Nat : l = d - n + 1 /\ r <= l =>
          (r = l => n + r = d + 1) /\ (r # l => n + r <= d)
    OBVIOUS
  <2> HIDE DEF Read1, Left1
  <2>3. /\ Read1 \in Nat /\ Left1 \in Nat /\ Read1 <= Left1
        /\ dev.length \in Nat /\ Len(dev.data) \in Nat
    BY <1>3, <1>2
  <2>4. /\ Read1 = Left1 => Len(dev.data) + Read1 = dev.length + 1
        /\ Read1 # Left1 => Len(dev.data) + Read1 <= dev.length
    BY <2>1, <2>2, <2>3
  <2> QED
    BY <1>4, <2>4
<1>6. /\ rx' = SubSeq(rx, Read1 + 1, Len(rx))
      /\ \/ /\ Read1 # Left1
            /\ dev' = [dev EXCEPT !.data = Data1]
            /\ Return /\ UNCHANGED expect
         \/ /\ Read1 = Left1
            /\ dev' = [dev EXCEPT !.state = "WAITSTART", !.data = Data1]
            /\ expect' = None /\ UNCHANGED inTick
            /\ stack' = IF Checksum(Data1, 255) # 0 THEN stack
                        ELSE [stack EXCEPT ![Len(stack)].at = "dispatch",
                                ![Len(stack)].dispatched = @ + 1,
                                ![Len(stack)].frame = SubSeq(Data1, 1, dev.length)]
  BY DEF RxFrame, Left1, Read1, Data1
<1> HIDE DEF Left1, Read1, Data1
<1> QED
  BY <1>1, <1>2, <1>3, <1>4, <1>5, <1>6

LEMMA SubSeqType ==
  ASSUME NEW d \in Seq(Byte), NEW n \in Nat, n <= Len(d)
  PROVE  /\ SubSeq(d, 1, n) \in Seq(Byte) /\ Len(SubSeq(d, 1, n)) = n
         /\ \A i \in 1 .. n : SubSeq(d, 1, n)[i] = d[i]
<1>1. Len(d) \in Nat /\ \A k \in 1 .. Len(d) : d[k] \in Byte
  BY LenProperties
<1>2. 1 \in Int /\ n \in Int /\ \A k \in 1 .. n : d[k] \in Byte
  BY <1>1
<1>3. /\ SubSeq(d, 1, n) \in Seq(Byte)
      /\ Len(SubSeq(d, 1, n)) = IF 1 <= n THEN n - 1 + 1 ELSE 0
      /\ \A i \in 1 .. n - 1 + 1 : SubSeq(d, 1, n)[i] = d[1 + i - 1]
  BY <1>2, SubSeqProperties
<1>4. n - 1 + 1 = n /\ \A i \in 1 .. n : 1 + i - 1 = i
  OBVIOUS
<1> QED
  BY <1>3, <1>4

LEMMA RxFrameStep ==
  ASSUME LoadTypes, RxFrame
  PROVE  LoadTypes'
<1>1. LineTypes /\ DevTypes /\ StackOK
  BY DEF LoadTypes
<1>2. LineTypes'
  <2>1. Read1 \in Nat /\ Read1 <= Len(rx) /\ Len(rx) \in Nat
    BY <1>1, RxFrameLemma
  <2>2. rx' \in Seq(Cell) /\ Len(rx') = Len(rx) - Read1
    <3>1. rx' = SubSeq(rx, Read1 + 1, Len(rx))
      BY <1>1, RxFrameLemma
    <3>2. rx \in Seq(Cell)
      BY <1>1 DEF LineTypes
    <3> QED
      BY <2>1, <3>1, <3>2, DropLemma
  <2> QED
    BY <1>1, <2>1, <2>2, RxFrameLemma, FrameAssumption DEF LineTypes
<1> DEFINE d == Data1
<1>3. /\ d \in Seq(Byte) /\ dev.length \in Nat /\ dev.length <= MaxLength /\ MaxLength \in Nat
      /\ dev.length \in 2 .. MaxLength /\ Len(d) \in Nat
  <2>1. d \in Seq(Byte) /\ dev.length \in 2 .. MaxLength
    BY <1>1, RxFrameLemma
  <2> HIDE DEF d
  <2> QED
    BY <2>1, FrameAssumption, LenProperties
<1>4. CASE /\ Len(d) <= dev.length
           /\ dev' = [dev EXCEPT !.data = d]
           /\ Return /\ UNCHANGED expect
  <2> HIDE DEF d
  <2>1. dev' \in Devs /\ dev'.length = dev.length /\ dev'.data = d /\ dev'.state = dev.state
    BY <1>1, <1>3, <1>4 DEF DevTypes, Devs
  <2>2. DevTypes'
    BY <1>3, <1>4, <2>1 DEF DevTypes
  <2>3. StackOK'
    BY <1>1, <1>4, RxFrameLemma, StackLemma DEF Return, StackOK
  <2> QED
    BY <1>1, <1>2, <1>4, <2>2, <2>3, RxFrameLemma DEF LoadTypes, OtherTypes
<1>5. CASE /\ Len(d) = dev.length + 1
           /\ dev' = [dev EXCEPT !.state = "WAITSTART", !.data = d]
           /\ expect' = None /\ UNCHANGED inTick
           /\ stack' = IF Checksum(d, 255) # 0 THEN stack
                       ELSE [stack EXCEPT ![Len(stack)].at = "dispatch",
                               ![Len(stack)].dispatched = @ + 1,
                               ![Len(stack)].frame = SubSeq(d, 1, dev.length)]
  <2>0. UNCHANGED <<line, faults>> /\ stack # << >> /\ Last(stack).at = "load"
    BY <1>1, RxFrameLemma
  <2> HIDE DEF d
  <2>1. dev' \in Devs /\ dev'.length = dev.length /\ dev'.data = d /\ dev'.state = "WAITSTART"
    BY <1>1, <1>3, <1>5 DEF DevTypes, Devs
  <2>2. DevTypes'
    BY <1>3, <1>5, <2>1 DEF DevTypes
  <2>3. StackOK'
    <3>1. CASE stack' = stack
      BY <1>1, <1>5, <2>0, <3>1, LoadingKeepsStack
    <3>2. CASE stack' = [stack EXCEPT ![Len(stack)].at = "dispatch",
                          ![Len(stack)].dispatched = @ + 1,
                          ![Len(stack)].frame = SubSeq(d, 1, dev.length)]
      <4>1. PICK a \in Activations : stack = <<a>>
        BY <1>1, <2>0, StackLemma
      <4> DEFINE fr == SubSeq(d, 1, dev.length)
                 n == a.dispatched + 1
                 b == [a EXCEPT !.at = "dispatch", !.dispatched = n, !.frame = fr]
      <4>2. fr \in Seq(Byte)
        BY <1>3, <1>5, SubSeqType
      <4>3. stack' = <<b>>
        BY <3>2, <4>1
      <4>4. SubSeq(dev'.data, 1, dev'.length) = fr
        BY <2>1
      <4>7. n \in Nat
        BY <4>1 DEF Activations
      <4> HIDE DEF fr, n
      <4>5. b \in Activations /\ b.frame = fr
        BY <4>1, <4>2, <4>7 DEF Activations
      <4>6. inTick' = TRUE
        BY <1>1, <1>5, <2>0, StackLemma
      <4> HIDE DEF b
      <4> QED
        BY <4>3, <4>4, <4>5, <4>6 DEF StackOK
    <3> QED
      BY <1>5, <3>1, <3>2
  <2> QED
    BY <1>2, <1>5, <2>0, <2>2, <2>3 DEF LoadTypes, OtherTypes
<1> QED
  BY <1>1, <1>4, <1>5, RxFrameLemma

LEMMA DispatchedStep ==
  ASSUME LoadTypes, Dispatched
  PROVE  LoadTypes'
<1>1. PICK a \in Activations : stack = <<a>> /\ a = Last(stack) /\ inTick = TRUE
  BY StackLemma DEF LoadTypes, Dispatched
<1>2. LineTypes' /\ DevTypes' /\ OtherTypes'
  BY DEF LoadTypes, Dispatched, LineTypes, DevTypes, OtherTypes
<1>3. CASE Return
  BY <1>1, <1>2, <1>3, OneLemma DEF LoadTypes, StackOK, Return
<1>4. CASE /\ stack' = [stack EXCEPT ![Len(stack)].at = "load", ![Len(stack)].frame = None]
           /\ UNCHANGED inTick
  <2> DEFINE b == [a EXCEPT !.at = "load", !.frame = None]
  <2>0. stack = <<a>>
    BY <1>1
  <2>1. stack' = <<b>>
    BY <1>4, <2>0
  <2>2. b \in Activations /\ b.at = "load"
    BY NoneLemma DEF Activations
  <2> HIDE DEF b
  <2> QED
    BY <1>1, <1>2, <1>4, <2>1, <2>2 DEF LoadTypes, StackOK
<1> QED
  BY <1>3, <1>4 DEF Dispatched

\* A call of xbee_dev_tick, from within or not.
LEMMA TickStep ==
  ASSUME LoadTypes, xbee_dev_tick
  PROVE  LoadTypes' /\ (stack = << >> \/ UNCHANGED stack)
<1>1. LineTypes' /\ DevTypes' /\ OtherTypes' /\ UNCHANGED dev
  BY DEF LoadTypes, xbee_dev_tick, LineTypes, DevTypes, OtherTypes
<1>2. CASE UNCHANGED <<stack, inTick>>
  BY <1>1, <1>2 DEF LoadTypes, StackOK
<1>3. CASE inTick = FALSE /\ stack' = Append(stack, Activation) /\ inTick' = TRUE
  <2>1. stack = << >>
    BY <1>3 DEF LoadTypes, StackOK
  <2>2. stack' = <<Activation>> /\ Activation.at = "load"
    BY <1>3, <2>1, OneLemma DEF Activation
  <2>3. Activation \in Activations
    BY NoneLemma DEF Activation, Activations
  <2> QED
    BY <1>1, <1>3, <2>1, <2>2, <2>3 DEF LoadTypes, StackOK
<1> QED
  BY <1>2, <1>3 DEF xbee_dev_tick, LoadTypes, StackOK

LEMMA LoaderStep ==
  ASSUME LoadTypes, Load \/ HandlerTicks
  PROVE  LoadTypes' /\ stack # << >>
<1>1. stack # << >>
  BY DEF Load, HandlerTicks, WaitStart, LengthMsb, LengthLsb, RxFrame, Dispatched, Loading
<1> QED
  BY <1>1, WaitStartStep, LengthMsbStep, LengthLsbStep, RxFrameStep, DispatchedStep, TickStep
  DEF Load, HandlerTicks

-----------------------------------------------------------------------------
(* The other steps                                                           *)

LEMMA KeepLoad ==
  ASSUME LoadTypes, UNCHANGED loadVars, line' \in Seq(Cell), faults' \in 0 .. MaxFaults
  PROVE  LoadTypes'
BY DEF LoadTypes, LineTypes, DevTypes, OtherTypes, StackOK, loadVars

LEMMA FlushLoad ==
  ASSUME LoadTypes, Flushed, line' \in Seq(Cell), faults' \in 0 .. MaxFaults
  PROVE  LoadTypes'
<1>1. << >> \in Seq(Cell) /\ Len(<< >>) = 0 /\ 0 <= MaxRx
  BY EmptySeq, FrameAssumption
<1>2. LineTypes'
  BY <1>1 DEF Flushed, LineTypes
<1> QED
  BY <1>2 DEF Flushed, LoadTypes, DevTypes, OtherTypes, StackOK

LEMMA ReadsLoad ==
  ASSUME LoadTypes, TaskTypes, Reads
  PROVE  LoadTypes'
<1>1. LineTypes'
  BY ReadTypes DEF LoadTypes, TaskTypes
<1> QED
  BY <1>1 DEF Reads, LoadTypes, DevTypes, OtherTypes, StackOK

\* UratRead reads up to n bytes.
LEMMA UratLoad ==
  ASSUME LoadTypes, NEW n \in Nat, rx' = SubSeq(rx, n + 1, Len(rx)),
         UNCHANGED <<line, dev, inTick, stack, expect, astray, faults>>
  PROVE  LoadTypes'
<1>1. rx' \in Seq(Cell) /\ Len(rx') <= Len(rx) /\ Len(rx) <= MaxRx /\ Len(rx) \in Nat /\ Len(rx') \in Nat
  <2>1. rx \in Seq(Cell) /\ Len(rx) <= MaxRx
    BY DEF LoadTypes, LineTypes
  <2>2. /\ SubSeq(rx, n + 1, Len(rx)) \in Seq(Cell) /\ Len(rx) \in Nat
        /\ Len(SubSeq(rx, n + 1, Len(rx))) = IF n <= Len(rx) THEN Len(rx) - n ELSE 0
    BY <2>1, DropLemma
  <2>3. rx' \in Seq(Cell) /\ Len(rx') = IF n <= Len(rx) THEN Len(rx) - n ELSE 0
    BY <2>2
  <2> QED
    BY <2>1, <2>2, <2>3
<1>2. Len(rx') <= MaxRx
  BY <1>1, FrameAssumption
<1> QED
  BY <1>1, <1>2 DEF LoadTypes, LineTypes, DevTypes, OtherTypes, StackOK

LEMMA ShortBuff == Len(None) < BuffSize /\ None \in Seq(Byte) /\ None = << >>
BY NoneLemma, CommandAssumption DEF None

\* The steps of the task that change where it is, while no loader runs.
LEMMA TaskLemma ==
  ASSUME TaskTypes, task.pc \notin {"init", "run"}, UNCHANGED stack,
         task' \in Tasks, Len(task'.buff) < BuffSize,
         port' \in [baud : Nat, break : BOOLEAN],
         port'.break = (task'.pc \in {"break", "enter"}),
         xbee' \in XBees,
         task'.pc = "urat" => Len(task'.buff) < Len(ModemOK)
  PROVE  TaskTypes'
BY DEF TaskTypes

LEMMA PortLemma ==
  ASSUME TaskTypes, UNCHANGED port, (task.pc \in {"break", "enter"}) = (task'.pc \in {"break", "enter"})
  PROVE  port' \in [baud : Nat, break : BOOLEAN] /\ port'.break = (task'.pc \in {"break", "enter"})
BY DEF TaskTypes

LEMMA BreakStep ==
  ASSUME TypeInv, Break
  PROVE  LoadTypes' /\ TaskTypes'
<1>1. LoadTypes'
  BY KeepLoad DEF TypeInv, Break, LoadTypes, LineTypes, OtherTypes, frameVars
<1>2. /\ task' \in Tasks /\ task'.buff = task.buff /\ task'.pc = "break"
      /\ port' \in [baud : Nat, break : BOOLEAN] /\ port'.break = TRUE
  BY DEF TypeInv, TaskTypes, Tasks, Break
<1> QED
  BY <1>1, <1>2, TaskLemma DEF TypeInv, TaskTypes, Break, frameVars, loadVars

LEMMA ListenStep ==
  ASSUME TypeInv, Listen
  PROVE  LoadTypes' /\ TaskTypes'
<1>1. LoadTypes'
  BY FlushLoad DEF TypeInv, Listen, LoadTypes, LineTypes, OtherTypes
<1>2. port.break = TRUE
  BY DEF TypeInv, TaskTypes, Listen
<1>3. /\ task' \in Tasks /\ task'.buff = << >> /\ task'.pc = "enter"
      /\ port' \in [baud : Nat, break : BOOLEAN] /\ port'.break = TRUE
  <2>1. << >> \in Seq(Byte) /\ task \in Tasks /\ port \in [baud : Nat, break : BOOLEAN]
    BY ShortBuff DEF TypeInv, TaskTypes
  <2>2. task' = [task EXCEPT !.pc = "enter", !.buff = << >>] /\ port' = [port EXCEPT !.baud = 9600]
    BY DEF Listen
  <2>3. PICK b \in Seq(Byte) : b = << >>
    BY <2>1
  <2>4. [task EXCEPT !.pc = "enter", !.buff = b] \in Tasks
    BY <2>1 DEF Tasks
  <2>5. task' \in Tasks /\ task'.buff = << >> /\ task'.pc = "enter"
    BY <2>1, <2>2, <2>3, <2>4 DEF Tasks
  <2> QED
    BY <1>2, <2>1, <2>2, <2>5
<1> QED
  BY <1>1, <1>3, ShortBuff, TaskLemma DEF TypeInv, TaskTypes, Listen, Flushed

LEMMA ReadMoreStep ==
  ASSUME TypeInv, ReadMore
  PROVE  LoadTypes' /\ TaskTypes'
<1>1. LoadTypes'
  BY ReadsLoad DEF TypeInv, LoadTypes, ReadMore
<1>2. ReadResponse.text \in Seq(Byte) /\ Len(ReadResponse.text) < BuffSize
  BY ReadTypes DEF TypeInv, TaskTypes, ReadMore
<1>3. task' \in Tasks /\ task'.buff = ReadResponse.text /\ task'.pc = task.pc
  BY <1>2 DEF TypeInv, TaskTypes, Tasks, ReadMore
<1>4. UNCHANGED <<stack, port, xbee>> /\ task.pc \notin {"init", "run", "urat"}
  BY DEF ReadMore, Reads
<1>5. port' \in [baud : Nat, break : BOOLEAN] /\ port'.break = (task'.pc \in {"break", "enter"})
      /\ xbee' \in XBees
  BY <1>3, <1>4 DEF TypeInv, TaskTypes
<1> QED
  BY <1>1, <1>2, <1>3, <1>4, <1>5, TaskLemma DEF TypeInv

\* enterCommandMode ends, or goes on.
LEMMA EnteredTypes ==
  ASSUME TaskTypes, NEW ret \in Int, NEW inStep \in BOOLEAN, Entered(ret, inStep),
         task.pc \notin {"init", "run"}, UNCHANGED stack
  PROVE  TaskTypes'
<1>1. /\ task' \in Tasks /\ task'.buff = << >> /\ task'.pc \in {"exit", "send"}
      /\ port' \in [baud : Nat, break : BOOLEAN] /\ port'.break = FALSE
      /\ xbee' \in XBees
  <2>1. << >> \in Seq(Byte) /\ task \in Tasks /\ port \in [baud : Nat, break : BOOLEAN] /\ xbee \in XBees
    BY ShortBuff DEF TaskTypes
  <2> DEFINE p == IF ret < 0 THEN "exit" ELSE "send"
  <2>2. /\ task' = [task EXCEPT !.pc = p, !.ret = ret, !.inStep = inStep, !.buff = << >>,
                                !.clock = 0, !.step = 1]
        /\ p \in {"exit", "send"}
    BY DEF Entered
  <2>3. port' = [port EXCEPT !.break = FALSE] /\ xbee' = [xbee EXCEPT !.noticed = FALSE]
    BY DEF Entered
  <2> HIDE DEF p
  <2>4. task' \in Tasks /\ task'.buff = << >> /\ task'.pc \in {"exit", "send"}
    <3>1. /\ task' = [pc |-> p, job |-> task.job, step |-> 1, clock |-> 0, ret |-> ret,
                      buff |-> << >>, inStep |-> inStep]
      BY <2>1, <2>2 DEF Tasks
    <3>2. task.job \in {"BYPASS", "API", "APN"} /\ 0 \in 0 .. 2
      BY <2>1 DEF Tasks
    <3> QED
      <4>1. \A e \in Seq(Byte) :
              [pc |-> p, job |-> task.job, step |-> 1, clock |-> 0, ret |-> ret,
               buff |-> e, inStep |-> inStep] \in Tasks
        BY <2>2, <3>2 DEF Tasks
      <4>2. task' \in Tasks
        BY <2>1, <3>1, <4>1
      <4> QED
        BY <2>2, <3>1, <4>2
  <2> QED
    BY <2>1, <2>3, <2>4 DEF XBees
<1> QED
  BY <1>1, ShortBuff, TaskLemma

LEMMA TurnTypes ==
  ASSUME TaskTypes, NEW ret \in Int, NEW seconds \in 0 .. 2, Turn(ret, seconds),
         task.pc = "enter", UNCHANGED stack
  PROVE  TaskTypes'
<1>1. CASE /\ task.clock + seconds < 3
           /\ task' = [task EXCEPT !.clock = @ + seconds, !.buff = << >>]
           /\ UNCHANGED <<port, xbee>>
  <2> DEFINE c == task.clock + seconds
  <2>1. c \in 0 .. 2
    BY <1>1 DEF TaskTypes, Tasks
  <2>2. task' = [task EXCEPT !.clock = c, !.buff = << >>]
    BY <1>1
  <2> HIDE DEF c
  <2>3. task' \in Tasks /\ task'.buff = << >> /\ task'.pc = task.pc
    BY <2>1, <2>2, ShortBuff DEF TaskTypes, Tasks
  <2>4. port' \in [baud : Nat, break : BOOLEAN] /\ port'.break = (task'.pc \in {"break", "enter"})
        /\ xbee' \in XBees
    BY <1>1, <2>3 DEF TaskTypes
  <2> QED
    BY <2>3, <2>4, ShortBuff, TaskLemma
<1>2. CASE Entered(ret, FALSE)
  BY <1>2, EnteredTypes
<1> QED
  BY <1>1, <1>2 DEF Turn

LEMMA EnterReadStep ==
  ASSUME TypeInv, EnterRead
  PROVE  LoadTypes' /\ TaskTypes'
<1> DEFINE text == ReadResponse.text
<1>1. LoadTypes' /\ UNCHANGED stack /\ task.pc = "enter"
  BY ReadsLoad DEF TypeInv, LoadTypes, EnterRead, Responds, Reads
<1>2. Len(text) \in Nat
  BY ReadTypes, LenProperties DEF TypeInv, TaskTypes
<1>3. TaskTypes'
  <2> DEFINE in == rx' = << >> /\ line = << >> /\ xbee.late = << >> /\ xbee.noticed
             r == IF Len(text) < 2 THEN ETIMEDOUT ELSE Len(text)
  <2>1. r \in Int
    BY <1>2 DEF ETIMEDOUT
  <2>2. in \in BOOLEAN
    BY DEF TypeInv, TaskTypes, XBees
  <2>3. Entered(0, in) \/ \E seconds \in 0 .. 2 : Turn(r, seconds)
    BY DEF EnterRead
  <2> HIDE DEF r, in, text
  <2> QED
    BY <1>1, <2>1, <2>2, <2>3, EnteredTypes, TurnTypes DEF TypeInv
<1> QED
  BY <1>1, <1>3

LEMMA EnterTimeoutStep ==
  ASSUME TypeInv, EnterTimeout
  PROVE  LoadTypes' /\ TaskTypes'
<1>1. LoadTypes'
  BY KeepLoad DEF TypeInv, EnterTimeout, LoadTypes, LineTypes, OtherTypes, frameVars
<1>2. ETIMEDOUT \in Int /\ 2 \in 0 .. 2
  BY DEF ETIMEDOUT
<1> QED
  BY <1>1, <1>2, TurnTypes DEF TypeInv, EnterTimeout, frameVars, loadVars

LEMMA AskedStep ==
  ASSUME TypeInv, NEW c, Asked(c), UNCHANGED <<loadVars, astray, port>>,
         task.pc \in {"send", "exit"}, NEW pc2 \in {"reply", "left"},
         task' = [task EXCEPT !.pc = pc2, !.buff = << >>]
  PROVE  LoadTypes' /\ TaskTypes'
<1>1. line' \in Seq(Cell) /\ faults' \in 0 .. MaxFaults /\ xbee' \in XBees
  BY AskedTypes DEF TypeInv, LineTypes, OtherTypes, TaskTypes
<1>2. LoadTypes'
  BY <1>1, KeepLoad DEF TypeInv, LoadTypes
<1>3. task' \in Tasks /\ task'.buff = << >> /\ task'.pc \in {"reply", "left"}
  BY ShortBuff DEF TypeInv, TaskTypes, Tasks
<1>4. port' \in [baud : Nat, break : BOOLEAN] /\ port'.break = (task'.pc \in {"break", "enter"})
  BY <1>3 DEF TypeInv, TaskTypes
<1> QED
  BY <1>1, <1>2, <1>3, <1>4, ShortBuff, TaskLemma DEF TypeInv, loadVars

LEMMA ErrExitTypes ==
  ASSUME TaskTypes, NEW ret \in Int, ErrExit(ret), task.pc = "reply", UNCHANGED <<stack, port, xbee>>
  PROVE  TaskTypes'
<1>1. task' \in Tasks /\ task'.buff = << >> /\ task'.pc = "exit"
  BY ShortBuff DEF TaskTypes, Tasks, ErrExit
<1>2. port' \in [baud : Nat, break : BOOLEAN] /\ port'.break = (task'.pc \in {"break", "enter"})
  BY <1>1 DEF TaskTypes
<1>3. xbee' \in XBees
  BY DEF TaskTypes
<1> QED
  BY <1>1, <1>2, <1>3, ShortBuff, TaskLemma

LEMMA ReplyStep ==
  ASSUME TypeInv, Reply
  PROVE  LoadTypes' /\ TaskTypes'
<1> DEFINE ret == ReadResponse.ret
           text == ReadResponse.text
           c == Commands(task.job)[task.step]
           r == IF c = "AN" THEN ret ELSE getOKResponse(ret, text)
<1>1. LoadTypes' /\ UNCHANGED <<stack, port, xbee>> /\ task.pc = "reply"
  BY ReadsLoad DEF TypeInv, LoadTypes, Reply, Responds, Reads, Replied
<1>2. ret \in Int
  BY ReadTypes DEF TypeInv, TaskTypes, ENOSPC, EAGAIN
<1>3. r \in Int
  <2> HIDE DEF ret, text, c
  <2> QED
    BY <1>2 DEF getOKResponse, EIO
<1>4. \/ ErrExit(r) \/ ErrExit(1) \/ ErrExit(0)
      \/ task' = [task EXCEPT !.pc = "send", !.step = @ + 1]
  BY DEF Reply, Replied
<1> HIDE DEF ret, text, c, r
<1>5. CASE ErrExit(r) \/ ErrExit(1) \/ ErrExit(0)
  BY <1>1, <1>3, <1>5, ErrExitTypes DEF TypeInv
<1>6. CASE task' = [task EXCEPT !.pc = "send", !.step = @ + 1]
  <2> DEFINE k == task.step + 1
  <2>1. k \in Nat
    BY DEF TypeInv, TaskTypes, Tasks
  <2>2. task' = [task EXCEPT !.pc = "send", !.step = k]
    BY <1>6
  <2> HIDE DEF k
  <2>3. task' \in Tasks /\ task'.buff = task.buff /\ task'.pc = "send"
    BY <2>1, <2>2 DEF TypeInv, TaskTypes, Tasks
  <2>4. port' \in [baud : Nat, break : BOOLEAN] /\ port'.break = (task'.pc \in {"break", "enter"})
    BY <1>1, <2>3 DEF TypeInv, TaskTypes
  <2> QED
    BY <1>1, <2>3, <2>4, TaskLemma DEF TypeInv, TaskTypes
<1> QED
  BY <1>1, <1>4, <1>5, <1>6

LEMMA ReplyTimeoutStep ==
  ASSUME TypeInv, ReplyTimeout
  PROVE  LoadTypes' /\ TaskTypes'
<1>1. LoadTypes'
  BY KeepLoad DEF TypeInv, ReplyTimeout, LoadTypes, LineTypes, OtherTypes, frameVars
<1>2. ETIMEDOUT \in Int
  BY DEF ETIMEDOUT
<1> QED
  BY <1>1, <1>2, ErrExitTypes DEF TypeInv, ReplyTimeout, frameVars, loadVars

LEMMA LeftTypes ==
  ASSUME TaskTypes, NEW ret, NEW text, Left(ret, text), task.pc = "left", UNCHANGED stack
  PROVE  TaskTypes'
<1>1. task' \in Tasks /\ task'.buff = << >> /\ task'.pc \in {"flush", "wait"}
  BY ShortBuff DEF TaskTypes, Tasks, Left
<1>2. port' \in [baud : Nat, break : BOOLEAN] /\ port'.break = (task'.pc \in {"break", "enter"})
  BY <1>1 DEF TaskTypes, Left
<1>3. xbee' \in XBees
  BY DEF TaskTypes, Left
<1> QED
  BY <1>1, <1>2, <1>3, ShortBuff, TaskLemma

LEMMA ExitStep ==
  ASSUME TypeInv, ExitReply \/ ExitTimeout \/ ExitWait \/ ExitFlush
  PROVE  LoadTypes' /\ TaskTypes'
<1>1. CASE ExitReply
  BY <1>1, ReadsLoad, LeftTypes DEF TypeInv, LoadTypes, ExitReply, Responds, Reads
<1>2. CASE ExitTimeout
  <2>1. LoadTypes'
    BY <1>2, KeepLoad DEF TypeInv, ExitTimeout, LoadTypes, LineTypes, OtherTypes, frameVars
  <2> QED
    BY <1>2, <2>1, LeftTypes DEF TypeInv, ExitTimeout, frameVars, loadVars
<1>3. CASE ExitWait
  <2>1. LoadTypes'
    BY <1>3, KeepLoad DEF TypeInv, ExitWait, LoadTypes, LineTypes, OtherTypes, frameVars
  <2>2. task' \in Tasks /\ task'.buff = task.buff /\ task'.pc = "flush"
    BY <1>3 DEF TypeInv, TaskTypes, Tasks, ExitWait
  <2>3. port' \in [baud : Nat, break : BOOLEAN] /\ port'.break = (task'.pc \in {"break", "enter"})
    BY <1>3, <2>2 DEF TypeInv, TaskTypes, ExitWait
  <2> QED
    BY <1>3, <2>1, <2>2, <2>3, TaskLemma DEF TypeInv, TaskTypes, ExitWait, frameVars, loadVars
<1>4. CASE ExitFlush
  <2>1. LoadTypes'
    BY <1>4, FlushLoad DEF TypeInv, ExitFlush, LoadTypes, LineTypes, OtherTypes
  <2>2. After(task.job, task.ret) \in {"run", "stop", "init", "echo"}
    <3>1. task.job \in {"BYPASS", "API", "APN"}
      BY DEF TypeInv, TaskTypes, Tasks
    <3> QED
      BY <3>1 DEF After
  <2>3. task' \in Tasks /\ task'.buff = task.buff /\ task'.pc \in {"run", "stop", "init", "echo"}
    <3> DEFINE p == After(task.job, task.ret)
    <3>1. task' = [task EXCEPT !.pc = p, !.ret = 0, !.step = 1, !.inStep = FALSE]
      BY <1>4 DEF ExitFlush
    <3> HIDE DEF p
    <3>3. p \in {"run", "stop", "init", "echo"}
      BY <2>2 DEF p
    <3>2. task \in Tasks
      BY DEF TypeInv, TaskTypes
    <3> QED
      <4>1. task' = [pc |-> p, job |-> task.job, step |-> 1, clock |-> task.clock,
                     ret |-> 0, buff |-> task.buff, inStep |-> FALSE]
        BY <3>1, <3>2 DEF Tasks
      <4>2. /\ task.job \in {"BYPASS", "API", "APN"} /\ task.clock \in 0 .. 2
            /\ task.buff \in Seq(Byte)
        BY <3>2 DEF Tasks
      <4> QED
        BY <3>3, <4>1, <4>2 DEF Tasks
  <2>4. port' \in [baud : Nat, break : BOOLEAN] /\ port'.break = port.break
    BY <1>4 DEF TypeInv, TaskTypes, ExitFlush, Target
  <2>5. port'.break = (task'.pc \in {"break", "enter"})
    BY <1>4, <2>3, <2>4 DEF TypeInv, TaskTypes, ExitFlush
  <2> QED
    BY <1>4, <2>1, <2>3, <2>4, <2>5, TaskLemma DEF TypeInv, TaskTypes, ExitFlush, Flushed
<1> QED
  BY <1>1, <1>2, <1>3, <1>4

LEMMA ModemOKLemma == Len(ModemOK) = 6
<1>1. Len(OK) = 2 /\ Len(<<CR, LF>>) = 2
  BY DEF OK
<1>2. Len(<<CR, LF>> \o OK) = Len(<<CR, LF>>) + Len(OK) /\ <<CR, LF>> \o OK \in Seq(Byte)
  BY TextLemma, ConcatProperties
<1>3. Len((<<CR, LF>> \o OK) \o <<CR, LF>>) = Len(<<CR, LF>> \o OK) + Len(<<CR, LF>>)
  BY <1>2, TextLemma, ConcatProperties
<1> QED
  BY <1>1, <1>2, <1>3 DEF ModemOK

LEMMA ModemStep ==
  ASSUME TypeInv, Echo \/ Urat
  PROVE  LoadTypes' /\ TaskTypes'
<1>1. /\ ModemAsked /\ UNCHANGED <<port, stack>> /\ task.pc \in {"echo", "echoed"}
      /\ UNCHANGED loadVars \/ Flushed
      /\ \/ task' = [task EXCEPT !.pc = "echoed"]
         \/ task' = [task EXCEPT !.pc = "urat", !.buff = << >>]
  BY DEF Echo, Urat, loadVars, Flushed
<1>2. line' \in Seq(Cell) /\ faults' \in 0 .. MaxFaults /\ xbee' \in XBees
  BY <1>1, ModemTypes DEF TypeInv, LineTypes, OtherTypes, TaskTypes
<1>3. LoadTypes'
  BY <1>1, <1>2, KeepLoad, FlushLoad DEF TypeInv, LoadTypes
<1>4. task' \in Tasks /\ Len(task'.buff) < BuffSize /\ task'.pc \in {"echoed", "urat"}
      /\ (task'.pc = "urat" => Len(task'.buff) < Len(ModemOK))
  <2>1. task \in Tasks /\ Len(task.buff) < BuffSize
    BY DEF TypeInv, TaskTypes
  <2>2. CASE task' = [task EXCEPT !.pc = "echoed"]
    <3>1. task' \in Tasks /\ task'.buff = task.buff /\ task'.pc = "echoed"
      BY <2>1, <2>2 DEF Tasks
    <3> QED
      BY <2>1, <3>1
  <2>3. CASE task' = [task EXCEPT !.pc = "urat", !.buff = << >>]
    <3>1. task' \in Tasks /\ task'.buff = << >> /\ task'.pc = "urat"
      BY <2>1, <2>3, ShortBuff DEF Tasks
    <3> QED
      <4>1. Len(task'.buff) = 0
        BY <3>1
      <4> QED
        BY <3>1, <4>1, ModemOKLemma, CommandAssumption
  <2> QED
    BY <1>1, <2>2, <2>3
<1>5. port' \in [baud : Nat, break : BOOLEAN] /\ port'.break = (task'.pc \in {"break", "enter"})
  BY <1>1, <1>4 DEF TypeInv, TaskTypes
<1> QED
  BY <1>1, <1>2, <1>3, <1>4, <1>5, TaskLemma DEF TypeInv

LEMMA ChosenTypes ==
  ASSUME TaskTypes, NEW ok, Chosen(ok), task.pc = "urat", UNCHANGED <<stack, port, xbee>>
  PROVE  TaskTypes'
<1> DEFINE p == IF ok THEN "start" ELSE "stop"
<1>1. task' = [task EXCEPT !.pc = p, !.job = "API", !.buff = << >>] /\ p \in {"start", "stop"}
  BY DEF Chosen
<1> HIDE DEF p
<1>2. task' \in Tasks /\ task'.buff = << >> /\ task'.pc \in {"start", "stop"}
  <2>1. task \in Tasks /\ << >> \in Seq(Byte)
    BY ShortBuff DEF TaskTypes
  <2> QED
    BY <1>1, <2>1 DEF Tasks
<1>3. port' \in [baud : Nat, break : BOOLEAN] /\ port'.break = (task'.pc \in {"break", "enter"})
      /\ xbee' \in XBees
  BY <1>2 DEF TaskTypes
<1> QED
  BY <1>2, <1>3, ShortBuff, TaskLemma

LEMMA UratReadStep ==
  ASSUME TypeInv, UratRead
  PROVE  LoadTypes' /\ TaskTypes'
<1> DEFINE left == Len(ModemOK) - Len(task.buff)
           n == IF Len(rx) < left THEN Len(rx) ELSE left
           text == task.buff \o [i \in 1 .. n |-> rx[i].byte]
<1>1. /\ rx' = SubSeq(rx, n + 1, Len(rx)) /\ task.pc = "urat"
      /\ UNCHANGED <<line, dev, inTick, stack, expect, astray, faults, port, xbee>>
      /\ \/ Chosen(text = ModemOK)
         \/ task' = [task EXCEPT !.buff = text] /\ n # left
  BY DEF UratRead
<1>2. Len(rx) \in Nat /\ Len(task.buff) \in Nat /\ Len(task.buff) < Len(ModemOK) /\ Len(ModemOK) = 6
      /\ rx \in Seq(Cell) /\ task.buff \in Seq(Byte) /\ LoadTypes /\ TaskTypes
  <2>1. rx \in Seq(Cell) /\ task.buff \in Seq(Byte)
    BY DEF TypeInv, LineTypes, TaskTypes, Tasks
  <2>2. Len(task.buff) < Len(ModemOK) /\ LoadTypes /\ TaskTypes
    BY <1>1 DEF TypeInv, TaskTypes, LoadTypes
  <2> HIDE DEF left, n, text
  <2> QED
    BY <2>1, <2>2, LenProperties, ModemOKLemma
<1>3. n \in 0 .. Len(rx) /\ n \in Nat /\ left \in Nat /\ n <= left
  <2>1. left \in Nat
    BY <1>2
  <2>2. \A a, b \in Nat : (IF a < b THEN a ELSE b) \in 0 .. a
                        /\ (IF a < b THEN a ELSE b) \in Nat /\ (IF a < b THEN a ELSE b) <= b
    OBVIOUS
  <2> HIDE DEF left
  <2> QED
    BY <1>2, <2>1, <2>2
<1>4. text \in Seq(Byte) /\ Len(text) = Len(task.buff) + n
  <2> HIDE DEF n
  <2> QED
    BY <1>2, <1>3, BytesLemma
<1>5. n # left => Len(text) < Len(ModemOK) /\ Len(text) < BuffSize
  <2>1. left = Len(ModemOK) - Len(task.buff)
    OBVIOUS
  <2>2. \A l, m, k, b \in Nat : l = m - k /\ n <= l /\ n # l /\ m = 6 /\ b > 8 => k + n < m /\ k + n < b
    <3> HIDE DEF n
    <3> QED
      BY <1>3
  <2> HIDE DEF n, left, text
  <2> QED
    BY <1>2, <1>3, <1>4, <2>1, <2>2, CommandAssumption
<1> HIDE DEF n, left, text
<1>6. LoadTypes'
  BY <1>1, <1>2, <1>3, UratLoad
<1>7. CASE Chosen(text = ModemOK)
  BY <1>1, <1>2, <1>6, <1>7, ChosenTypes
<1>8. CASE task' = [task EXCEPT !.buff = text] /\ n # left
  <2>1. task' \in Tasks /\ task'.buff = text /\ task'.pc = task.pc
    BY <1>2, <1>4, <1>8 DEF TaskTypes, Tasks
  <2> QED
    BY <1>1, <1>2, <1>5, <1>6, <1>8, <2>1 DEF TaskTypes
<1> QED
  BY <1>1, <1>7, <1>8

LEMMA UratTimeoutStep ==
  ASSUME TypeInv, UratTimeout
  PROVE  LoadTypes' /\ TaskTypes'
<1>1. LoadTypes'
  BY KeepLoad DEF TypeInv, UratTimeout, LoadTypes, LineTypes, OtherTypes, frameVars
<1> QED
  BY <1>1, ChosenTypes DEF TypeInv, UratTimeout, frameVars, loadVars

LEMMA QueryEndsStep ==
  ASSUME TypeInv, QueryEnds
  PROVE  LoadTypes' /\ TaskTypes'
<1>1. LoadTypes'
  BY KeepLoad DEF TypeInv, QueryEnds, LoadTypes, LineTypes, OtherTypes, frameVars
<1>2. PICK p \in {"start", "stop"} : task' = [task EXCEPT !.pc = p, !.job = "APN"]
  BY DEF QueryEnds
<1>3. task' \in Tasks /\ task'.buff = task.buff /\ task'.pc \in {"start", "stop"}
  BY <1>2 DEF TypeInv, TaskTypes, Tasks
<1> QED
  BY <1>1, <1>3 DEF TypeInv, TaskTypes, QueryEnds, frameVars, loadVars

LEMMA LoadersStep ==
  ASSUME TypeInv, Tick \/ Loader
  PROVE  LoadTypes' /\ TaskTypes'
<1>1. LoadTypes'
  BY TickStep, LoaderStep DEF TypeInv, LoadTypes, Tick, Loader
<1>2. task.pc \in {"init", "run"}
  BY LoaderStep DEF TypeInv, TaskTypes, Tick, Loader, LoadTypes
<1> QED
  BY <1>1, <1>2 DEF TypeInv, TaskTypes, Tick, Loader

LEMMA XBeeStep ==
  ASSUME TypeInv, XBee \/ Arrive
  PROVE  LoadTypes' /\ TaskTypes'
<1>1. UNCHANGED <<task, port, stack>>
  BY DEF XBee, Arrive, XBeeBreak, XBeeLate, XBeeLeaves, XBeeSends, SendFrame, SendDamaged,
         Receive, loadVars, frameVars
<1>2. LoadTypes' /\ xbee' \in XBees
  <2>0. line \in Seq(Cell) /\ faults \in 0 .. MaxFaults /\ xbee \in XBees /\ LoadTypes /\ LineTypes
    BY DEF TypeInv, LineTypes, OtherTypes, TaskTypes, LoadTypes
  <2>1. CASE XBeeBreak
    <3> DEFINE x == [xbee EXCEPT !.mode = "command", !.noticed = TRUE]
    <3>1. x \in XBees
      BY <2>0 DEF XBees
    <3>2. Answer(x, OK \o <<CR>>) /\ UNCHANGED loadVars
      BY <2>1 DEF XBeeBreak
    <3> HIDE DEF x
    <3> QED
      BY <2>0, <3>1, <3>2, TextLemma, AnswerTypes, KeepLoad
  <2>2. CASE XBeeLate
    <3>1. xbee.late \in Seq(Byte) /\ xbee' \in XBees
      BY <2>0, <2>2, ShortBuff DEF XBees, XBeeLate
    <3> QED
      BY <2>0, <2>2, <3>1, PlainLemma, KeepLoad DEF XBeeLate
  <2>3. CASE XBeeLeaves
    <3>1. xbee' \in XBees
      BY <2>0, <2>3 DEF XBees, XBeeLeaves
    <3> QED
      BY <2>0, <2>3, <3>1, KeepLoad DEF XBeeLeaves, frameVars
  <2>4. CASE XBeeSends
    <3>1. PICK f \in Frames : SendFrame(f) \/ SendDamaged(f)
      BY <2>4 DEF XBeeSends
    <3>2. xbee' = xbee /\ UNCHANGED loadVars
      BY <2>4, <3>1 DEF XBeeSends, SendFrame, SendDamaged
    <3>3. line' \in Seq(Cell) /\ faults' \in 0 .. MaxFaults
      BY <2>0, <3>1, WholeLemma, DamagedTypes DEF SendFrame
    <3> QED
      BY <2>0, <3>2, <3>3, KeepLoad
  <2>5. CASE Arrive
    <3>1. PICK b \in Cell : Receive(b)
      <4>1. Head(line) \in Cell
        BY <2>0, <2>5, HeadTailProperties DEF Arrive
      <4>2. [byte |-> 255, frame |-> None] \in Cell
        BY DEF Cell, Byte
      <4> QED
        BY <2>5, <4>1, <4>2 DEF Arrive
    <3>2. LineTypes'
      BY <2>0, <3>1, ReceiveTypes
    <3>3. UNCHANGED <<dev, inTick, stack, expect, astray, faults, xbee>>
      BY <2>5, <3>1 DEF Receive, Arrive
    <3> QED
      BY <2>0, <3>2, <3>3 DEF LoadTypes, DevTypes, OtherTypes, StackOK
  <2> QED
    BY <2>1, <2>2, <2>3, <2>4, <2>5 DEF XBee
<1> QED
  BY <1>1, <1>2 DEF TypeInv, TaskTypes

LEMMA TypeInit == Init => TypeInv
<1> SUFFICES ASSUME Init PROVE TypeInv
  OBVIOUS
<1>1. << >> \in Seq(Cell) /\ << >> \in Seq(Byte) /\ Len(<< >>) = 0 /\ 0 <= MaxRx /\ 0 < BuffSize
      /\ 0 <= MaxLength + 1 /\ 0 \in 0 .. MaxFaults
  BY EmptySeq, FrameAssumption, CommandAssumption
<1>2. LineTypes /\ DevTypes /\ OtherTypes /\ StackOK
  BY <1>1 DEF Init, FrameInit, LineTypes, DevTypes, Devs, OtherTypes, StackOK
<1>3. task \in Tasks /\ task.buff = << >> /\ task.pc = "start"
      /\ port \in [baud : Nat, break : BOOLEAN] /\ port.break = FALSE
  BY <1>1 DEF Init, Tasks, Target
<1>4. xbee \in XBees
  <2>1. \A name \in Names : name \in Seq(Byte)
    <3>1. \A s \in Seq(Byte \ {CR}) : s \in Seq(Byte)
      <4> TAKE s \in Seq(Byte \ {CR})
      <4>1. s \in [1 .. Len(s) -> Byte] /\ Len(s) \in Nat
        BY LenProperties
      <4> QED
        BY <4>1, SeqDef
    <3> QED
      BY <3>1, CommandAssumption
  <2>2. Fresh \in Registers
    BY DEF Fresh, Registers
  <2>3. XBeeInit \in XBees
    BY <1>1, TextLemma DEF XBeeInit, XBees, Registers, Target
  <2>4. PICK name \in Names :
          \/ xbee = [XBeeInit EXCEPT !.apn = name]
          \/ xbee = [XBeeInit EXCEPT !.apn = name, !.now = Fresh, !.set = Fresh, !.saved = Fresh]
    BY DEF Init
  <2> HIDE DEF XBeeInit, Fresh
  <2> QED
    BY <2>1, <2>2, <2>3, <2>4 DEF XBees
<1> QED
  <2>1. Len(task.buff) < BuffSize /\ stack = << >>
    BY <1>1, <1>3 DEF Init, FrameInit
  <2> QED
    BY <1>2, <1>3, <1>4, <2>1 DEF TypeInv, TaskTypes

LEMMA TypeNext == TypeInv /\ [Next]_vars => TypeInv'
<1> SUFFICES ASSUME TypeInv, [Next]_vars PROVE TypeInv'
  OBVIOUS
<1>1. CASE UNCHANGED vars
  BY <1>1 DEF vars, frameVars, loadVars, TypeInv, LineTypes, DevTypes, OtherTypes, StackOK, TaskTypes
<1>2. ASSUME Next PROVE LoadTypes' /\ TaskTypes'
  <2>1. CASE SendRequest
    <3>1. PICK c : Asked(c)
      BY <2>1 DEF SendRequest
    <3> QED
      BY <2>1, <3>1, AskedStep DEF SendRequest
  <2>2. CASE ExitRequest
    <3>1. PICK c : Asked(c)
      BY <2>2 DEF ExitRequest
    <3> QED
      BY <2>2, <3>1, AskedStep DEF ExitRequest
  <2> QED
    BY <1>2, <2>1, <2>2, BreakStep, ListenStep, ReadMoreStep, EnterReadStep, EnterTimeoutStep,
       ReplyStep, ReplyTimeoutStep, ExitStep, ModemStep, UratReadStep, UratTimeoutStep,
       QueryEndsStep, LoadersStep, XBeeStep
    DEF Next, Configure
<1> QED
  BY <1>1, <1>2 DEF TypeInv, LoadTypes

\* The types, and that the loader runs at most once, not while xbee_dev_tick's
\* flag is down, and with its frame in the buffer while handlers run.
THEOREM Invariance == Spec => []TypeInv
BY TypeInit, TypeNext, PTL DEF Spec

\* The buffers stay within their bounds: RESPONSE_BUFF_SIZE, the frame and its
\* checksum, the driver's buffer.
THEOREM TypeCorrect == Spec => []TypeOK
<1>1. TypeInv => TypeOK
  <2> SUFFICES ASSUME TypeInv PROVE TypeOK
    OBVIOUS
  <2>1. /\ rx \in Seq([byte : Byte, frame : Frames \cup {None}]) /\ Len(rx) <= MaxRx
        /\ dev.state \in {"WAITSTART", "LENGTH_MSB", "LENGTH_LSB", "RXFRAME"}
        /\ dev.state = "RXFRAME" => dev.length \in 2 .. MaxLength /\ Len(dev.data) <= dev.length
        /\ dev.data \in Seq(Byte) /\ Len(dev.data) <= MaxLength + 1
        /\ faults \in 0 .. MaxFaults /\ expect \in Frames \cup {None}
    BY DEF TypeInv, LineTypes, Cell, DevTypes, Devs, OtherTypes
  <2>2. inTick = (stack # << >>) /\ Len(stack) <= 1
    <3>1. CASE stack = << >> /\ inTick = FALSE
      <4>1. Len(stack) = 0
        BY <3>1
      <4>2. inTick = (stack # << >>)
        BY <3>1
      <4> QED
        BY <4>1, <4>2
    <3>2. CASE stack # << >>
      <4>1. inTick = TRUE /\ Len(stack) = 1
        BY <3>2, StackLemma DEF TypeInv
      <4>2. inTick = (stack # << >>)
        BY <3>2, <4>1
      <4> QED
        BY <4>1, <4>2
    <3>3. stack = << >> => inTick = FALSE
      BY DEF TypeInv, StackOK
    <3> QED
      BY <3>1, <3>2, <3>3
  <2>3. /\ task.job \in {"BYPASS", "API", "APN"} /\ task.clock \in 0 .. 2
        /\ Len(task.buff) < BuffSize
        /\ port.break = (task.pc \in {"break", "enter"})
        /\ stack # << >> => task.pc \in {"init", "run"}
    BY DEF TypeInv, TaskTypes, Tasks
  <2> QED
    BY <2>1, <2>2, <2>3 DEF TypeOK, FrameTypeOK
<1> QED
  BY <1>1, Invariance, PTL

\* The frame that _xbee_frame_dispatch gave to its handlers stays in frame_data
\* while they run.
THEOREM HandlersFrame == Spec => []HandlersSeeFrame
<1>1. TypeInv => HandlersSeeFrame
  <2> SUFFICES ASSUME TypeInv, NEW i \in DOMAIN stack, stack[i].at = "dispatch"
               PROVE  SubSeq(dev.data, 1, dev.length) = stack[i].frame
    BY DEF HandlersSeeFrame
  <2>1. PICK a : stack = <<a>> /\ (a.at = "dispatch" => SubSeq(dev.data, 1, dev.length) = a.frame)
    BY DEF TypeInv, StackOK
  <2>2. stack[i] = a
    BY <2>1
  <2> QED
    BY <2>1, <2>2
<1> QED
  BY <1>1, Invariance, PTL

-----------------------------------------------------------------------------
(* A frame that was seen to begin arrives                                    *)

\* The XBee and the driver agree on the rate.
Matched == port.baud = XBeeBaud

\* The byte that will be read as the k-th is b.
Has(k, b) ==
  \/ k \in 1 .. Len(rx) /\ rx[k].byte = b
  \/ Matched /\ k - Len(rx) \in 1 .. Len(line) /\ line[k - Len(rx)].byte = b

\* The j-th byte of f, for all j > t, will be read as the (k + j)-th.
Ahead(k, t, f) == \A j \in t + 1 .. Len(Encode(f)) : Has(k + j, Encode(f)[j])

Marked(f) ==
  /\ f \in Frames /\ Len(Encode(f)) <= Len(line)
  /\ \A j \in 1 .. Len(Encode(f)) : line[j].byte = Encode(f)[j]

\* Only the first byte on the line may carry a frame, which is then all there.
LineOK ==
  \A i \in 1 .. Len(line) : line[i].frame # None => i = 1 /\ Marked(line[i].frame)

\* The frame that a received byte carries was received or is on the line.
RxOK ==
  \A i \in 1 .. Len(rx) : rx[i].frame # None => Ahead(i - 1, 0, rx[i].frame)

\* How much of a frame the loader has taken.
Taken == CASE dev.state = "LENGTH_MSB" -> 1
           [] dev.state = "LENGTH_LSB" -> 2
           [] dev.state = "RXFRAME" -> 3 + Len(dev.data)
           [] OTHER -> 0

\* What the loader knows of the frame that it expects.
Known(f) ==
  /\ dev.state # "WAITSTART"
  /\ dev.state = "LENGTH_LSB" => dev.length = 256 * (Len(f) \div 256)
  /\ dev.state = "RXFRAME" =>
       dev.length = Len(f) /\ \A j \in 1 .. Len(dev.data) : dev.data[j] = Encode(f)[3 + j]

ExpectOK == expect # None => Known(expect) /\ Ahead(0 - Taken, Taken, expect)

\* The task does not read what belongs to a frame.
ReaderOK == expect # None => task.pc \in {"init", "run", "start", "break", "stop"}

FrameInv == LineOK /\ RxOK /\ ExpectOK /\ ReaderOK

-----------------------------------------------------------------------------

LEMMA LineKeep ==
  ASSUME LineOK, line' = line
  PROVE  LineOK'
BY DEF LineOK, Marked

LEMMA LinePlain ==
  ASSUME NEW t \in Seq(Byte), line' = Plain(t)
  PROVE  LineOK'
BY PlainLemma DEF LineOK

LEMMA LineWhole ==
  ASSUME NEW f \in Frames, line' = Whole(f)
  PROVE  LineOK'
<1>1. /\ Len(line') = Len(Encode(f))
      /\ \A i \in 1 .. Len(Encode(f)) :
           /\ line'[i].byte = Encode(f)[i]
           /\ line'[i].frame = IF i = 1 THEN f ELSE None
  BY WholeLemma
<1>2. Len(Encode(f)) \in Nat
  BY EncodeLemma, LenProperties
<1>3. Marked(f)'
  BY <1>1, <1>2 DEF Marked
<1> QED
  BY <1>1, <1>3 DEF LineOK

LEMMA MoreLemma ==
  ASSUME line \in Seq(Cell), NEW t \in Seq(Byte)
  PROVE  /\ line \o Plain(t) \in Seq(Cell) /\ Len(line) \in Nat /\ Len(t) \in Nat
         /\ Len(line \o Plain(t)) = Len(line) + Len(t)
         /\ \A i \in 1 .. Len(line) : (line \o Plain(t))[i] = line[i]
         /\ \A i \in Len(line) + 1 .. Len(line) + Len(t) : (line \o Plain(t))[i].frame = None
<1>1. Plain(t) \in Seq(Cell) /\ Len(Plain(t)) = Len(t) /\ Len(t) \in Nat /\ Len(line) \in Nat
      /\ \A i \in 1 .. Len(t) : Plain(t)[i].frame = None
  BY PlainLemma, LenProperties
<1>2. /\ line \o Plain(t) \in Seq(Cell)
      /\ Len(line \o Plain(t)) = Len(line) + Len(Plain(t))
      /\ \A i \in 1 .. Len(line) + Len(Plain(t)) :
           (line \o Plain(t))[i] = IF i <= Len(line) THEN line[i] ELSE Plain(t)[i - Len(line)]
  BY ZenonT(60), <1>1, ConcatProperties
<1> DEFINE m == line \o Plain(t)
           p == Plain(t)
<1> HIDE DEF m, p
<1>3. /\ Len(m) = Len(line) + Len(t)
      /\ \A i \in 1 .. Len(line) + Len(t) : m[i] = IF i <= Len(line) THEN line[i] ELSE p[i - Len(line)]
  BY <1>1, <1>2 DEF m, p
<1>4. \A i \in 1 .. Len(line) : m[i] = line[i]
  BY <1>1, <1>3
<1>5. \A i \in Len(line) + 1 .. Len(line) + Len(t) : m[i].frame = None
  <2> TAKE i \in Len(line) + 1 .. Len(line) + Len(t)
  <2>1. i - Len(line) \in 1 .. Len(t) /\ ~(i <= Len(line)) /\ i \in 1 .. Len(line) + Len(t)
    BY <1>1
  <2> QED
    BY <1>1, <1>3, <2>1 DEF p
<1> QED
  BY <1>1, <1>2, <1>3, <1>4, <1>5 DEF m

LEMMA LineMore ==
  ASSUME line \in Seq(Cell), LineOK, NEW t \in Seq(Byte), line' = line \o Plain(t)
  PROVE  LineOK'
<1>1. /\ Len(line) \in Nat /\ Len(t) \in Nat /\ Len(line') = Len(line) + Len(t)
      /\ \A i \in 1 .. Len(line) : line'[i] = line[i]
      /\ \A i \in Len(line) + 1 .. Len(line) + Len(t) : line'[i].frame = None
  BY MoreLemma
<1> SUFFICES ASSUME NEW i \in 1 .. Len(line'), line'[i].frame # None
             PROVE  i = 1 /\ \E f : f = line'[i].frame /\ Marked(f)'
  BY DEF LineOK, Marked
<1>2. i \in 1 .. Len(line) /\ line'[i] = line[i]
  BY <1>1
<1>3. i = 1 /\ Marked(line[i].frame)
  BY <1>2 DEF LineOK
<1>4. PICK f : f = line[i].frame
  OBVIOUS
<1>5. f \in Frames /\ Len(Encode(f)) <= Len(line) /\ Len(Encode(f)) \in Nat
      /\ \A j \in 1 .. Len(Encode(f)) : line[j].byte = Encode(f)[j]
  BY <1>3, <1>4, EncodeLemma, LenProperties DEF Marked
<1>6. Marked(f)'
  BY <1>1, <1>5 DEF Marked
<1> QED
  BY <1>2, <1>3, <1>4, <1>6

-----------------------------------------------------------------------------

LEMMA HasRx ==
  ASSUME rx \in Seq(Cell), NEW k \in Nat, NEW b, Has(k, b), k <= Len(rx)
  PROVE  rx[k].byte = b
<1>1. Len(rx) \in Nat
  BY LenProperties
<1> QED
  BY <1>1 DEF Has

\* The driver's buffer stays, and the line is empty or gets longer.
LEMMA HasMore ==
  ASSUME line \in Seq(Cell), rx \in Seq(Cell), UNCHANGED rx, Matched' = Matched,
         NEW t \in Seq(Byte), line' = line \o Plain(t) \/ line' = line,
         NEW k \in Int, NEW b, Has(k, b)
  PROVE  Has(k, b)'
<1>1. Len(line) \in Nat /\ Len(rx) \in Nat
  BY LenProperties
<1>2. \A i \in 1 .. Len(line) : i \in 1 .. Len(line') /\ line'[i] = line[i]
  <2>1. CASE line' = line
    BY <2>1
  <2>2. CASE line' = line \o Plain(t)
    <3>1. /\ Len(t) \in Nat /\ Len(line') = Len(line) + Len(t)
          /\ \A i \in 1 .. Len(line) : line'[i] = line[i]
      BY <2>2, MoreLemma
    <3> QED
      BY <1>1, <3>1
  <2> QED
    BY <2>1, <2>2
<1> QED
  BY <1>1, <1>2 DEF Has

LEMMA HasEmpty ==
  ASSUME rx \in Seq(Cell), UNCHANGED rx, line = << >>, NEW k \in Int, NEW b, Has(k, b)
  PROVE  Has(k, b)'
<1>1. Len(line) = 0
  OBVIOUS
<1>2. Len(rx) \in Nat
  BY LenProperties
<1>3. k \in 1 .. Len(rx) /\ rx[k].byte = b
  BY <1>1, <1>2 DEF Has
<1> QED
  BY <1>3 DEF Has

LEMMA HasArrive ==
  ASSUME line \in Seq(Cell), rx \in Seq(Cell), Arrive, NEW k \in Int, NEW b, Has(k, b)
  PROVE  Has(k, b)'
<1>1. line # << >> /\ UNCHANGED <<port, xbee>> /\ Matched' = Matched
      /\ Len(line) \in Nat /\ Len(rx) \in Nat
  BY LenProperties DEF Arrive, Matched, XBeeBaud
<1>2. PICK c : /\ rx' = Append(rx, c) /\ line' = Tail(line) /\ (Matched => c = Head(line))
               /\ c \in Cell
  <2>1. [byte |-> 255, frame |-> None] \in Cell
    BY DEF Cell, Byte
  <2>2. Head(line) \in Cell
    BY <1>1, HeadTailProperties
  <2> QED
    BY <2>1, <2>2 DEF Arrive, Receive, Matched
<1>3. /\ Len(rx') = Len(rx) + 1 /\ rx'[Len(rx) + 1] = c
      /\ \A i \in 1 .. Len(rx) : rx'[i] = rx[i]
  BY <1>2, AppendProperties
<1>4. /\ Len(line') = Len(line) - 1 /\ Len(line) >= 1 /\ Head(line) = line[1]
      /\ \A i \in 1 .. Len(line') : line'[i] = line[i + 1]
  BY <1>1, <1>2, HeadTailProperties
<1>5. CASE k \in 1 .. Len(rx) /\ rx[k].byte = b
  BY <1>1, <1>3, <1>5 DEF Has
<1>6. CASE Matched /\ k - Len(rx) \in 1 .. Len(line) /\ line[k - Len(rx)].byte = b
  <2>1. CASE k = Len(rx) + 1
    <3>1. k - Len(rx) = 1 /\ k \in 1 .. Len(rx')
      BY <1>1, <1>3, <2>1
    <3> QED
      BY <1>2, <1>3, <1>4, <1>6, <2>1, <3>1 DEF Has
  <2>2. CASE k # Len(rx) + 1
    <3>1. /\ k - Len(rx') \in 1 .. Len(line') /\ (k - Len(rx')) + 1 = k - Len(rx)
      BY <1>1, <1>3, <1>4, <1>6, <2>2
    <3>2. line'[k - Len(rx')] = line[k - Len(rx)]
      BY <1>4, <3>1
    <3> QED
      BY <1>1, <1>6, <3>1, <3>2 DEF Has
  <2> QED
    BY <2>1, <2>2
<1> QED
  BY <1>5, <1>6 DEF Has

\* The first n bytes are read.
Drop(n) ==
  /\ n <= Len(rx) /\ rx' = SubSeq(rx, n + 1, Len(rx))
  /\ line' = line /\ Matched' = Matched

LEMMA HasDrop ==
  ASSUME line \in Seq(Cell), rx \in Seq(Cell), NEW n \in Nat, Drop(n),
         NEW k \in Int, NEW b, Has(k, b), k > n
  PROVE  Has(k - n, b)'
<1>1. /\ Len(rx) \in Nat /\ Len(line) \in Nat /\ n <= Len(rx)
  BY LenProperties DEF Drop
<1>2. /\ Len(rx') = Len(rx) - n
      /\ \A i \in 1 .. Len(rx) - n : rx'[i] = rx[n + i]
  <2>1. /\ Len(SubSeq(rx, n + 1, Len(rx))) = IF n <= Len(rx) THEN Len(rx) - n ELSE 0
        /\ \A i \in 1 .. Len(rx) - n : SubSeq(rx, n + 1, Len(rx))[i] = rx[n + i]
    BY DropLemma
  <2> QED
    BY <1>1, <2>1 DEF Drop
<1>3. CASE k \in 1 .. Len(rx) /\ rx[k].byte = b
  <2>1. k - n \in 1 .. Len(rx) - n /\ n + (k - n) = k
    BY <1>1, <1>3
  <2>2. rx'[k - n] = rx[k]
    BY <1>2, <2>1
  <2> QED
    BY <1>2, <1>3, <2>1, <2>2 DEF Has
<1>4. CASE Matched /\ k - Len(rx) \in 1 .. Len(line) /\ line[k - Len(rx)].byte = b
  <2>1. (k - n) - Len(rx') = k - Len(rx)
    BY <1>1, <1>2
  <2> QED
    BY <1>4, <2>1 DEF Has, Drop
<1> QED
  BY <1>3, <1>4 DEF Has

LEMMA AheadDrop ==
  ASSUME line \in Seq(Cell), rx \in Seq(Cell), NEW n \in Nat, Drop(n), NEW f \in Frames,
         NEW k \in Int, NEW t \in Nat, NEW u \in Nat, Ahead(k, t, f), t <= u,
         NEW m \in Int, m = k - n, m + u >= 0
  PROVE  Ahead(m, u, f)'
<1> DEFINE e == Encode(f)
<1>0. Len(e) \in Nat
  BY EncodeLemma, LenProperties
<1> SUFFICES ASSUME NEW j \in u + 1 .. Len(e)
             PROVE  Has(m + j, e[j])'
  BY DEF Ahead
<1> HIDE DEF e
<1>1. j \in Nat /\ j \in t + 1 .. Len(e) /\ k + j \in Int /\ k + j > n /\ (k + j) - n = m + j
  BY <1>0
<1>2. Has(k + j, e[j])
  BY <1>1 DEF Ahead, e
<1>3. PICK p \in Int : p = k + j
  BY <1>1
<1>4. Has(p - n, e[j])'
  BY <1>1, <1>2, <1>3, HasDrop
<1> QED
  BY <1>1, <1>3, <1>4 DEF Has

-----------------------------------------------------------------------------
(* The kinds of steps                                                        *)

SeqTypes == line \in Seq(Cell) /\ rx \in Seq(Cell) /\ expect \in Frames \cup {None}

LEMMA AheadKeep ==
  ASSUME NEW k \in Int, NEW t \in Nat, NEW f \in Frames, Ahead(k, t, f),
         \A i \in Int : \A b : Has(i, b) => Has(i, b)'
  PROVE  Ahead(k, t, f)'
<1>1. Len(Encode(f)) \in Nat
  BY EncodeLemma, LenProperties
<1>2. \A j \in t + 1 .. Len(Encode(f)) : k + j \in Int
  BY <1>1
<1> QED
  BY <1>2 DEF Ahead

\* Nothing that is to be read changes.
LEMMA TakenNat == DevTypes => Taken \in Nat
<1> SUFFICES ASSUME DevTypes PROVE Taken \in Nat
  OBVIOUS
<1>1. Len(dev.data) \in Nat
  BY LenProperties DEF DevTypes, Devs
<1> QED
  BY <1>1 DEF Taken

LEMMA CellFrame ==
  ASSUME rx \in Seq(Cell), NEW i \in 1 .. Len(rx), rx[i].frame # None
  PROVE  rx[i].frame \in Frames /\ i - 1 \in Nat /\ i \in Nat
<1>1. Len(rx) \in Nat /\ rx[i] \in Cell
  BY LenProperties
<1> QED
  BY <1>1 DEF Cell

LEMMA RxKeep ==
  ASSUME rx \in Seq(Cell), RxOK, UNCHANGED rx,
         \A k \in Int : \A b : Has(k, b) => Has(k, b)'
  PROVE  RxOK'
<1> SUFFICES ASSUME NEW i \in 1 .. Len(rx), rx[i].frame # None
             PROVE  \E f : f = rx[i].frame /\ Ahead(i - 1, 0, f)'
  BY DEF RxOK, Ahead
<1>1. PICK f : f = rx[i].frame
  OBVIOUS
<1>2. f \in Frames /\ i - 1 \in Int /\ Ahead(i - 1, 0, f)
  BY <1>1, CellFrame DEF RxOK
<1> QED
  BY <1>1, <1>2, AheadKeep

LEMMA ExpectKeep ==
  ASSUME DevTypes, expect \in Frames \cup {None}, ExpectOK, UNCHANGED <<dev, expect>>,
         \A k \in Int : \A b : Has(k, b) => Has(k, b)'
  PROVE  ExpectOK'
<1>1. CASE expect = None
  BY <1>1 DEF ExpectOK
<1>2. CASE expect # None
  <2>1. PICK f : f = expect
    OBVIOUS
  <2>2. PICK t : t = Taken
    OBVIOUS
  <2>3. f \in Frames /\ t \in Nat /\ 0 - t \in Int /\ Ahead(0 - t, t, f) /\ Known(f)
    BY <1>2, <2>1, <2>2, TakenNat DEF ExpectOK
  <2>4. Ahead(0 - t, t, f)'
    BY <2>3, AheadKeep
  <2>5. Taken' = t /\ expect' = f
    BY <2>1, <2>2 DEF Taken
  <2>6. Known(f)'
    BY <2>3 DEF Known
  <2>7. (Known(expect) /\ Ahead(0 - Taken, Taken, expect))'
    BY <2>4, <2>5, <2>6 DEF Known, Ahead
  <2> QED
    BY <2>7 DEF ExpectOK
<1> QED
  BY <1>1, <1>2

LEMMA FlushFrames ==
  ASSUME Flushed, LineOK'
  PROVE  LineOK' /\ RxOK' /\ ExpectOK' /\ ReaderOK'
<1>1. Len(rx') = 0 /\ expect' = None
  BY DEF Flushed
<1> QED
  BY <1>1 DEF RxOK, ExpectOK, ReaderOK

LEMMA RxDrop ==
  ASSUME line \in Seq(Cell), rx \in Seq(Cell), RxOK, NEW n \in Nat, Drop(n)
  PROVE  RxOK'
<1>1. /\ Len(rx) \in Nat /\ n <= Len(rx) /\ Len(rx') = Len(rx) - n
      /\ \A i \in 1 .. Len(rx) - n : rx'[i] = rx[n + i]
  <2>1. /\ Len(SubSeq(rx, n + 1, Len(rx))) = IF n <= Len(rx) THEN Len(rx) - n ELSE 0
        /\ \A i \in 1 .. Len(rx) - n : SubSeq(rx, n + 1, Len(rx))[i] = rx[n + i]
        /\ Len(rx) \in Nat
    BY DropLemma
  <2> QED
    BY <2>1 DEF Drop
<1> SUFFICES ASSUME NEW i \in 1 .. Len(rx'), rx'[i].frame # None
             PROVE  \E f : f = rx'[i].frame /\ Ahead(i - 1, 0, f)'
  BY DEF RxOK, Ahead
<1>2. PICK m \in 1 .. Len(rx) : m = n + i
  BY <1>1
<1>3. PICK f : f = rx[m].frame
  OBVIOUS
<1>4. f = rx'[i].frame /\ f # None
  BY <1>1, <1>2, <1>3
<1>5. f \in Frames /\ Ahead(m - 1, 0, f)
  BY <1>3, <1>4, CellFrame DEF RxOK
<1>6. m - 1 \in Int /\ i - 1 \in Int /\ i - 1 = (m - 1) - n /\ i - 1 + 0 >= 0
  BY <1>1, <1>2
<1>7. Ahead(i - 1, 0, f)'
  BY <1>5, <1>6, AheadDrop
<1> QED
  BY <1>4, <1>7

\* The task reads.
LEMMA DropFrames ==
  ASSUME SeqTypes, LineOK, RxOK, NEW n \in Nat, Drop(n), expect = None, UNCHANGED <<dev, expect>>
  PROVE  LineOK' /\ RxOK' /\ ExpectOK' /\ ReaderOK'
<1>1. RxOK'
  BY RxDrop DEF SeqTypes
<1>2. LineOK'
  BY LineKeep DEF Drop
<1> QED
  BY <1>1, <1>2 DEF ExpectOK, ReaderOK

\* Something is added to the line, or not.
LEMMA MoreFrames ==
  ASSUME SeqTypes, DevTypes, LineOK, RxOK, ExpectOK, UNCHANGED <<rx, dev, expect>>,
         line = << >> \/ Matched' = Matched,
         \/ line' = line
         \/ \E t \in Seq(Byte) : line' = line \o Plain(t)
  PROVE  LineOK' /\ RxOK' /\ ExpectOK'
<1>1. LineOK'
  BY LineKeep, LineMore DEF SeqTypes
<1>2. \A k \in Int : \A b : Has(k, b) => Has(k, b)'
  <2> SUFFICES ASSUME NEW k \in Int, NEW b, Has(k, b) PROVE Has(k, b)'
    OBVIOUS
  <2>1. << >> \in Seq(Byte)
    BY ShortBuff
  <2>2. CASE line = << >>
    BY <2>2, HasEmpty DEF SeqTypes
  <2>3. CASE Matched' = Matched
    <3>1. PICK t \in Seq(Byte) : line' = line \o Plain(t) \/ line' = line
      BY <2>1
    <3> QED
      BY <2>3, <3>1, HasMore DEF SeqTypes
  <2> QED
    BY <2>2, <2>3
<1> QED
  BY <1>1, <1>2, RxKeep, ExpectKeep DEF SeqTypes

\* Something else is put on an empty line.
LEMMA NewFrames ==
  ASSUME SeqTypes, DevTypes, LineOK, RxOK, ExpectOK, UNCHANGED <<rx, dev, expect>>,
         line = << >>, LineOK'
  PROVE  RxOK' /\ ExpectOK'
<1>1. \A k \in Int : \A b : Has(k, b) => Has(k, b)'
  BY HasEmpty DEF SeqTypes
<1> QED
  BY <1>1, RxKeep, ExpectKeep DEF SeqTypes

\* A byte arrives.
LEMMA ArriveFrames ==
  ASSUME SeqTypes, DevTypes, LineOK, RxOK, ExpectOK, Arrive
  PROVE  LineOK' /\ RxOK' /\ ExpectOK'
<1>0. /\ line # << >> /\ UNCHANGED <<port, xbee, dev, expect>> /\ Matched' = Matched
      /\ Len(line) \in Nat /\ Len(rx) \in Nat
  BY LenProperties DEF Arrive, Receive, Matched, XBeeBaud, SeqTypes
<1>1. \A k \in Int : \A b : Has(k, b) => Has(k, b)'
  BY HasArrive DEF SeqTypes
<1>2. PICK c \in Cell : /\ rx' = Append(rx, c) /\ line' = Tail(line)
                        /\ \/ Matched /\ c = Head(line)
                           \/ c.frame = None
  <2>1. [byte |-> 255, frame |-> None] \in Cell
    BY DEF Cell, Byte
  <2>2. Head(line) \in Cell
    BY <1>0, HeadTailProperties DEF SeqTypes
  <2> QED
    BY <2>1, <2>2 DEF Arrive, Receive, Matched
<1>3. /\ Len(line') = Len(line) - 1 /\ Len(line) >= 1 /\ Head(line) = line[1]
      /\ \A i \in 1 .. Len(line') : line'[i] = line[i + 1]
  BY <1>0, <1>2, HeadTailProperties DEF SeqTypes
<1>4. /\ Len(rx') = Len(rx) + 1 /\ rx'[Len(rx) + 1] = c
      /\ \A i \in 1 .. Len(rx) : rx'[i] = rx[i]
  BY <1>2, AppendProperties DEF SeqTypes
<1>5. LineOK'
  <2>1. ASSUME NEW i \in 1 .. Len(line'), line'[i].frame # None PROVE FALSE
    <3>1. i + 1 \in 1 .. Len(line) /\ i + 1 # 1
      BY <1>0, <1>3
    <3>2. line[i + 1].frame # None
      BY <1>3, <2>1
    <3> QED
      BY <3>1, <3>2 DEF LineOK
  <2> QED
    BY <2>1 DEF LineOK
<1>6. RxOK'
  <2> SUFFICES ASSUME NEW i \in 1 .. Len(rx'), rx'[i].frame # None
               PROVE  \E f : f = rx'[i].frame /\ Ahead(i - 1, 0, f)'
    BY DEF RxOK, Ahead
  <2>1. PICK f : f = rx'[i].frame
    OBVIOUS
  <2>2. CASE i <= Len(rx)
    <3>1. i \in 1 .. Len(rx) /\ rx'[i] = rx[i]
      BY <1>0, <1>4, <2>2
    <3>2. f \in Frames /\ i - 1 \in Int /\ Ahead(i - 1, 0, f)
      BY <2>1, <3>1, CellFrame DEF RxOK, SeqTypes
    <3> QED
      BY <1>1, <2>1, <3>2, AheadKeep
  <2>3. CASE i = Len(rx) + 1
    <3>1. Matched /\ f = line[1].frame /\ f # None /\ rx'[i] = line[1]
      BY <1>2, <1>3, <1>4, <2>1, <2>3
    <3>2. Marked(f)
      BY <1>0, <1>3, <3>1 DEF LineOK
    <3> DEFINE e == Encode(f)
    <3>3. e \in Seq(Byte) /\ Len(e) \in Nat /\ Len(e) <= Len(line)
          /\ \A j \in 1 .. Len(e) : line[j].byte = e[j]
      BY <3>2, EncodeLemma, LenProperties DEF Marked
    <3> HIDE DEF e
    <3>4. ASSUME NEW j \in 1 .. Len(e)
          PROVE  Has(i - 1 + j, e[j])'
      <4>1. CASE j = 1
        <5>1. i - 1 + j = i /\ i \in 1 .. Len(rx')
          BY <1>0, <4>1
        <5> QED
          BY <3>1, <3>3, <4>1, <5>1 DEF Has
      <4>2. CASE j # 1
        <5>1. (i - 1 + j) - Len(rx') = j - 1 /\ j - 1 \in 1 .. Len(line') /\ (j - 1) + 1 = j
          BY <1>0, <1>3, <1>4, <2>3, <3>3, <4>2
        <5>2. line'[j - 1] = line[j]
          BY <1>3, <5>1
        <5> QED
          BY <1>0, <3>1, <3>3, <5>1, <5>2 DEF Has
      <4> QED
        BY <4>1, <4>2
    <3>5. Ahead(i - 1, 0, f)'
      BY <3>4 DEF Ahead, e
    <3> QED
      BY <2>1, <3>5
  <2> QED
    BY <1>0, <1>4, <2>2, <2>3
<1> QED
  BY <1>0, <1>1, <1>5, <1>6, ExpectKeep DEF SeqTypes

-----------------------------------------------------------------------------
(* The loader and the frame that it expects                                  *)

Coming(t, f) == Ahead(0 - t, t, f)

LEMMA ComingNext ==
  ASSUME line \in Seq(Cell), rx \in Seq(Cell), NEW f \in Frames, NEW t \in Nat, Coming(t, f),
         NEW j \in t + 1 .. Len(Encode(f)), j - t <= Len(rx)
  PROVE  rx[j - t].byte = Encode(f)[j]
<1>1. Len(Encode(f)) \in Nat
  BY EncodeLemma, LenProperties
<1>2. Has((0 - t) + j, Encode(f)[j])
  BY DEF Coming, Ahead
<1>3. PICK k \in Nat : k = j - t /\ k = (0 - t) + j
  BY <1>1
<1> QED
  BY <1>2, <1>3, HasRx

LEMMA ComingDrop ==
  ASSUME line \in Seq(Cell), rx \in Seq(Cell), NEW f \in Frames, NEW t \in Nat, Coming(t, f),
         NEW n \in Nat, Drop(n), NEW u \in Nat, u = t + n
  PROVE  Coming(u, f)'
<1>1. 0 - t \in Int /\ 0 - u \in Int /\ 0 - u = (0 - t) - n /\ (0 - u) + u >= 0 /\ t <= u
  OBVIOUS
<1>2. Ahead(0 - u, u, f)'
  BY <1>1, AheadDrop DEF Coming
<1> QED
  BY <1>2 DEF Coming

LEMMA ExpectNew ==
  ASSUME NEW f, NEW t, expect' = f, Taken' = t, Known(f)', Coming(t, f)'
  PROVE  ExpectOK'
<1>1. (Known(expect) /\ Ahead(0 - Taken, Taken, expect))'
  BY DEF Known, Ahead, Coming
<1> QED
  BY <1>1 DEF ExpectOK

LEMMA ExpectNone ==
  ASSUME expect' = None
  PROVE  ExpectOK'
BY DEF ExpectOK

\* One byte is taken.
LEMMA TakeFrames ==
  ASSUME SeqTypes, LineOK, RxOK, rx # << >>, rx' = Tail(rx), UNCHANGED <<line, port, xbee>>
  PROVE  /\ Drop(1) /\ LineOK' /\ RxOK'
         /\ \A f \in Frames : \A t \in Nat :
              Coming(t, f) =>
                /\ Coming(t + 1, f)'
                /\ t + 1 <= Len(Encode(f)) => Byte1 = Encode(f)[t + 1]
         /\ Head(rx).frame # None => Head(rx).frame \in Frames /\ Coming(0, Head(rx).frame)
<1>1. rx \in Seq(Cell) /\ line \in Seq(Cell) /\ Len(rx) \in Nat /\ Len(rx) >= 1 /\ Head(rx) = rx[1]
      /\ 1 \in Nat
  BY LenProperties DEF SeqTypes
<1>2. Drop(1)
  <2>1. rx' = SubSeq(rx, 2, Len(rx)) /\ 1 + 1 = 2
    BY <1>1, TailIsSubSeq
  <2>2. Matched' = Matched
    BY DEF Matched, XBeeBaud
  <2> QED
    BY <1>1, <2>1, <2>2 DEF Drop
<1>3. RxOK' /\ LineOK'
  BY <1>1, <1>2, RxDrop, LineKeep
<1>4. ASSUME NEW f \in Frames, NEW t \in Nat, Coming(t, f)
      PROVE  /\ Coming(t + 1, f)'
             /\ t + 1 <= Len(Encode(f)) => Byte1 = Encode(f)[t + 1]
  <2>1. PICK u \in Nat : u = t + 1
    OBVIOUS
  <2>2. Coming(u, f)'
    BY <1>1, <1>2, <1>4, <2>1, ComingDrop
  <2>3. ASSUME t + 1 <= Len(Encode(f)) PROVE Byte1 = Encode(f)[t + 1]
    <3>1. Len(Encode(f)) \in Nat
      BY EncodeLemma, LenProperties
    <3>2. u \in t + 1 .. Len(Encode(f)) /\ u - t = 1
      BY <2>1, <2>3, <3>1
    <3>3. rx[u - t].byte = Encode(f)[u] /\ u - t <= Len(rx)
      BY <1>1, <1>4, <3>2, ComingNext
    <3> QED
      BY <1>1, <2>1, <3>2, <3>3 DEF Byte1
  <2> QED
    BY <2>1, <2>2, <2>3
<1>5. ASSUME Head(rx).frame # None
      PROVE  Head(rx).frame \in Frames /\ Coming(0, Head(rx).frame)
  <2>1. 1 \in 1 .. Len(rx) /\ 1 - 1 = 0 /\ 0 - 0 = 0
    BY <1>1
  <2>2. rx[1].frame \in Frames /\ Ahead(1 - 1, 0, rx[1].frame)
    BY <1>1, <1>5, <2>1, CellFrame DEF RxOK
  <2> QED
    BY <1>1, <2>1, <2>2 DEF Coming
<1> QED
  BY <1>2, <1>3, <1>4, <1>5

\* A frame that is expected is given to its handlers when it is not expected any
\* more.
Seen == expect # None /\ expect' # expect => stack' # << >> /\ Last(stack').frame = expect

LEMMA BeginsFrames ==
  ASSUME SeqTypes, LineOK, RxOK, rx # << >>, rx' = Tail(rx), UNCHANGED <<line, port, xbee>>, Begins
  PROVE  ExpectOK'
<1>1. CASE Head(rx).frame = None
  BY <1>1, ExpectNone DEF Begins
<1>2. CASE Head(rx).frame # None
  <2>1. PICK f : f = Head(rx).frame
    OBVIOUS
  <2>2. f \in Frames /\ Coming(0, f)
    BY <1>2, <2>1, TakeFrames
  <2>3. Coming(1, f)'
    <3>1. 0 \in Nat /\ 0 + 1 = 1
      OBVIOUS
    <3>2. Coming(0 + 1, f)'
      BY <2>2, <3>1, TakeFrames
    <3> QED
      BY <3>1, <3>2
  <2>4. dev'.state = "LENGTH_MSB" /\ expect' = f
    BY <2>1 DEF Begins
  <2>5. Taken' = 1 /\ Known(f)'
    BY <2>4 DEF Taken, Known
  <2> QED
    BY <2>3, <2>4, <2>5, ExpectNew
<1> QED
  BY <1>1, <1>2

\* What the loader's steps are proved from, and what they keep.
LoaderPre ==
  SeqTypes /\ LineTypes /\ DevTypes /\ StackOK /\ LineOK /\ RxOK /\ ExpectOK /\ UNCHANGED <<port, xbee>>

LoaderPost == LineOK' /\ RxOK' /\ ExpectOK' /\ Seen

LEMMA SameFrames ==
  ASSUME LoaderPre, UNCHANGED <<rx, dev, expect, line>>
  PROVE  LoaderPost
<1>1. Matched' = Matched
  BY DEF LoaderPre, Matched, XBeeBaud
<1> QED
  BY <1>1, MoreFrames DEF LoaderPre, LoaderPost, Seen

LEMMA WaitStartFrames ==
  ASSUME LoaderPre, WaitStart
  PROVE  LoaderPost
<1>1. dev.state = "WAITSTART" /\ UNCHANGED line
  BY DEF WaitStart, Loading
<1>2. expect = None
  BY <1>1 DEF LoaderPre, ExpectOK, Known
<1>3. CASE Nothing
  BY <1>1, <1>3, SameFrames DEF Nothing
<1>4. CASE rx # << >> /\ rx' = Tail(rx) /\ IF Byte1 = Start THEN Begins ELSE UNCHANGED <<dev, expect>>
  <2>1. LineOK' /\ RxOK'
    BY <1>1, <1>4, TakeFrames DEF LoaderPre
  <2>2. ExpectOK'
    BY <1>1, <1>2, <1>4, BeginsFrames, ExpectNone DEF LoaderPre
  <2> QED
    BY <1>2, <2>1, <2>2 DEF LoaderPost, Seen
<1> QED
  BY <1>3, <1>4 DEF WaitStart

LEMMA LengthMsbFrames ==
  ASSUME LoaderPre, LengthMsb
  PROVE  LoaderPost
<1>1. dev.state = "LENGTH_MSB" /\ UNCHANGED line
  BY DEF LengthMsb, Loading
<1>2. CASE Nothing
  BY <1>1, <1>2, SameFrames DEF Nothing
<1>3. CASE /\ rx # << >> /\ rx' = Tail(rx)
           /\ \/ Byte1 = Start /\ Begins
              \/ /\ Byte1 # Start
                 /\ dev' = [dev EXCEPT !.state = "LENGTH_LSB", !.length = 256 * Byte1]
                 /\ UNCHANGED expect
  <2>1. LineOK' /\ RxOK'
    BY <1>1, <1>3, TakeFrames DEF LoaderPre
  <2>2. CASE expect = None
    <3>1. Begins \/ expect' = None
      BY <1>3, <2>2
    <3>2. ExpectOK'
      BY <1>1, <1>3, <3>1, BeginsFrames, ExpectNone DEF LoaderPre
    <3> QED
      BY <2>1, <2>2, <3>2 DEF LoaderPost, Seen
  <2>3. CASE expect # None
    <3>1. PICK f \in Frames : f = expect
      BY <2>3 DEF LoaderPre, SeqTypes
    <3>2. Coming(1, f)
      BY <1>1, <2>3, <3>1 DEF LoaderPre, ExpectOK, Taken, Coming
    <3>3. Coming(1 + 1, f)' /\ (1 + 1 <= Len(Encode(f)) => Byte1 = Encode(f)[1 + 1])
      <4>1. 1 \in Nat
        OBVIOUS
      <4> QED
        BY <1>1, <1>3, <3>2, <4>1, TakeFrames DEF LoaderPre
    <3>4. 1 + 1 = 2 /\ 2 <= Len(Encode(f)) /\ Encode(f)[2] = Len(f) \div 256
          /\ Len(f) \div 256 \in 0 .. Start - 1
      BY EncodeLemma
    <3>5. Byte1 = Len(f) \div 256 /\ Byte1 # Start /\ Coming(2, f)'
      <4>1. Coming(2, f)'
        BY <3>3, <3>4
      <4>2. 2 <= Len(Encode(f)) => Byte1 = Encode(f)[2]
        BY <3>3, <3>4
      <4>3. Byte1 = Len(f) \div 256
        BY <3>4, <4>2
      <4>4. \A b \in 0 .. Start - 1 : b # Start
        BY DEF Start
      <4> QED
        BY <3>4, <4>1, <4>3, <4>4
    <3>6. dev' = [dev EXCEPT !.state = "LENGTH_LSB", !.length = 256 * Byte1] /\ expect' = f
          /\ dev \in Devs
      BY <1>3, <3>1, <3>5 DEF LoaderPre, DevTypes
    <3>7. dev'.state = "LENGTH_LSB" /\ dev'.length = 256 * (Len(f) \div 256)
      BY <3>5, <3>6 DEF Devs
    <3>8. Taken' = 2 /\ Known(f)'
      BY <3>7 DEF Taken, Known
    <3>9. ExpectOK'
      BY <3>5, <3>6, <3>8, ExpectNew
    <3> QED
      BY <2>1, <3>1, <3>6, <3>9 DEF LoaderPost, Seen
  <2> QED
    BY <2>2, <2>3
<1> QED
  BY <1>2, <1>3 DEF LengthMsb

LEMMA LengthLsbFrames ==
  ASSUME LoaderPre, LengthLsb
  PROVE  LoaderPost
<1> DEFINE length == dev.length + Byte1
<1>1. dev.state = "LENGTH_LSB" /\ UNCHANGED line
  BY DEF LengthLsb, Loading
<1>2. CASE Nothing
  BY <1>1, <1>2, SameFrames DEF Nothing
<1>3. CASE /\ rx # << >> /\ rx' = Tail(rx)
           /\ \/ BadLength(length) /\ (Begins \/ expect' = None)
              \/ /\ ~BadLength(length) /\ UNCHANGED expect
                 /\ dev' = [state |-> "RXFRAME", length |-> length, data |-> << >>]
  <2>1. LineOK' /\ RxOK'
    BY <1>1, <1>3, TakeFrames DEF LoaderPre
  <2>2. CASE expect = None
    <3>1. ExpectOK'
      <4> HIDE DEF length
      <4> QED
        BY <1>1, <1>3, <2>2, BeginsFrames, ExpectNone DEF LoaderPre
    <3> QED
      BY <2>1, <2>2, <3>1 DEF LoaderPost, Seen
  <2>3. CASE expect # None
    <3>1. PICK f \in Frames : f = expect
      BY <2>3 DEF LoaderPre, SeqTypes
    <3>2. Coming(2, f) /\ dev.length = 256 * (Len(f) \div 256)
      BY <1>1, <2>3, <3>1 DEF LoaderPre, ExpectOK, Taken, Coming, Known
    <3>3. Coming(2 + 1, f)' /\ (2 + 1 <= Len(Encode(f)) => Byte1 = Encode(f)[2 + 1])
      <4>1. 2 \in Nat
        OBVIOUS
      <4> QED
        BY <1>1, <1>3, <3>2, <4>1, TakeFrames DEF LoaderPre
    <3>4. /\ 2 + 1 = 3 /\ 3 <= Len(Encode(f)) /\ Encode(f)[3] = Len(f) % 256
          /\ 256 * (Len(f) \div 256) + (Len(f) % 256) = Len(f)
          /\ Len(f) \in 2 .. MaxLength /\ Len(f) \in Nat
      BY EncodeLemma
    <3>5. length = Len(f) /\ Coming(3, f)'
      BY <3>2, <3>3, <3>4
    <3> HIDE DEF length
    <3>6. ~BadLength(length)
      BY <3>4, <3>5, FrameAssumption DEF BadLength
    <3>7. dev' = [state |-> "RXFRAME", length |-> length, data |-> << >>] /\ expect' = f
      BY <1>3, <3>1, <3>6
    <3>8. dev'.state = "RXFRAME" /\ dev'.length = Len(f) /\ Len(dev'.data) = 0
      BY <3>5, <3>7
    <3>9. Taken' = 3 /\ Known(f)'
      BY <3>8 DEF Taken, Known
    <3>10. ExpectOK'
      BY <3>5, <3>7, <3>9, ExpectNew
    <3> QED
      BY <2>1, <3>1, <3>7, <3>10 DEF LoaderPost, Seen
  <2> QED
    BY <2>2, <2>3
<1> QED
  BY <1>2, <1>3 DEF LengthLsb

LEMMA RxFrameFrames ==
  ASSUME LoaderPre, RxFrame
  PROVE  LoaderPost
<1>0. SeqTypes /\ LineTypes /\ DevTypes /\ StackOK /\ rx \in Seq(Cell) /\ line \in Seq(Cell)
      /\ dev \in Devs
  BY DEF LoaderPre, SeqTypes, DevTypes
<1>1. PICK n, d : n = Read1 /\ d = Data1
  OBVIOUS
<1>2. /\ stack # << >> /\ Last(stack).at = "load" /\ dev.state = "RXFRAME"
      /\ UNCHANGED <<line, astray, faults>>
      /\ dev.length \in 2 .. MaxLength /\ n \in 0 .. Len(rx) /\ Len(rx) \in Nat
      /\ Len(dev.data) \in Nat /\ d \in Seq(Byte) /\ Len(d) = Len(dev.data) + n
      /\ \A i \in 1 .. Len(dev.data) : d[i] = dev.data[i]
      /\ \A i \in 1 .. n : d[Len(dev.data) + i] = rx[i].byte
      /\ rx' = SubSeq(rx, n + 1, Len(rx))
      /\ \/ /\ Len(d) <= dev.length
            /\ dev' = [dev EXCEPT !.data = d] /\ UNCHANGED expect
         \/ /\ Len(d) = dev.length + 1
            /\ dev' = [dev EXCEPT !.state = "WAITSTART", !.data = d]
            /\ expect' = None
            /\ stack' = IF Checksum(d, 255) # 0 THEN stack
                        ELSE [stack EXCEPT ![Len(stack)].at = "dispatch",
                                ![Len(stack)].dispatched = @ + 1,
                                ![Len(stack)].frame = SubSeq(d, 1, dev.length)]
  BY <1>0, <1>1, RxFrameLemma
<1>3. n \in Nat /\ Drop(n)
  <2>1. Matched' = Matched
    BY DEF LoaderPre, Matched, XBeeBaud
  <2> QED
    BY <1>2, <2>1 DEF Drop
<1>4. LineOK' /\ RxOK'
  BY <1>0, <1>2, <1>3, RxDrop, LineKeep DEF LoaderPre
<1>5. CASE expect = None
  <2>1. expect' = None
    BY <1>2, <1>5
  <2> QED
    BY <1>4, <1>5, <2>1, ExpectNone DEF LoaderPost, Seen
<1>6. CASE expect # None
  <2>1. PICK f \in Frames : f = expect
    BY <1>0, <1>6 DEF SeqTypes
  <2> DEFINE e == Encode(f)
  <2>2. PICK m, t \in Nat : m = Len(dev.data) /\ t = 3 + m
    <3>1. \A l \in Nat : 3 + l \in Nat
      OBVIOUS
    <3>2. Len(dev.data) \in Nat
      BY <1>2
    <3> QED
      BY <3>1, <3>2
  <2>3. Coming(t, f) /\ Known(f)
    <3>1. Taken = t
      BY <1>2, <2>2 DEF Taken
    <3>2. PICK u : u = Taken
      OBVIOUS
    <3>3. Known(f) /\ Coming(u, f)
      BY <1>6, <2>1, <3>2 DEF LoaderPre, ExpectOK, Coming
    <3>4. u = t
      BY <3>1, <3>2
    <3> QED
      BY <3>3, <3>4
  <2>4. dev.length = Len(f) /\ \A j \in 1 .. m : dev.data[j] = e[3 + j]
    BY <1>2, <2>2, <2>3 DEF Known
  <2>5. /\ Len(f) \in Nat /\ Len(e) = Len(f) + 4 /\ f \in Seq(Byte)
        /\ \A i \in 1 .. Len(f) : e[3 + i] = f[i]
        /\ e[Len(f) + 4] = Checksum(f, 255)
    BY EncodeLemma, FrameAssumption
  <2> HIDE DEF e
  <2>6. m + n <= Len(f) + 1
    BY SMTT(30), <1>2, <2>2, <2>4
  <2>7. \A j \in 1 .. m + n : d[j] = e[3 + j]
    <3> TAKE j \in 1 .. m + n
    <3>1. CASE j <= m
      BY <1>2, <1>3, <2>2, <2>4, <3>1
    <3>2. CASE j > m
      <4>1. PICK i \in 1 .. n : i = j - m /\ m + i = j
        <5>1. j - m \in 1 .. n /\ m + (j - m) = j
          BY <1>3, <2>2, <3>2
        <5> QED
          BY <5>1
      <4>2. PICK k \in t + 1 .. Len(e) : k = 3 + j /\ k - t = i
        BY <1>3, <2>2, <2>5, <2>6, <4>1
      <4>3. k - t <= Len(rx)
        BY SMTT(30), <1>2, <1>3, <4>1, <4>2
      <4>4. rx[k - t].byte = e[k]
        BY <1>0, <2>2, <2>3, <4>2, <4>3, ComingNext DEF e
      <4> QED
        BY <1>2, <2>2, <4>1, <4>2, <4>4
    <3> QED
      BY <1>3, <2>2, <3>1, <3>2
  <2>8. CASE Len(d) <= dev.length /\ dev' = [dev EXCEPT !.data = d] /\ UNCHANGED expect
    <3>1. PICK u \in Nat : u = t + n
      BY <1>3, <2>2
    <3>2. Coming(u, f)'
      BY <1>0, <1>3, <2>2, <2>3, <3>1, ComingDrop
    <3>3. dev'.state = "RXFRAME" /\ dev'.length = Len(f) /\ dev'.data = d
      BY <1>0, <1>2, <2>4, <2>8 DEF Devs
    <3>4. Taken' = u
      <4>1. u = 3 + Len(d)
        BY <1>2, <1>3, <2>2, <3>1
      <4> QED
        BY <3>3, <4>1 DEF Taken
    <3>5. Known(f)'
      BY <1>2, <2>2, <2>7, <3>3 DEF Known, e
    <3>6. ExpectOK'
      BY <2>1, <2>8, <3>2, <3>4, <3>5, ExpectNew
    <3> QED
      BY <1>4, <2>8, <3>6 DEF LoaderPost, Seen
  <2>9. CASE /\ Len(d) = dev.length + 1 /\ expect' = None
             /\ stack' = IF Checksum(d, 255) # 0 THEN stack
                         ELSE [stack EXCEPT ![Len(stack)].at = "dispatch",
                                 ![Len(stack)].dispatched = @ + 1,
                                 ![Len(stack)].frame = SubSeq(d, 1, dev.length)]
    <3>1. Len(d) = Len(f) + 1 /\ m + n = Len(f) + 1
      BY <1>2, <2>2, <2>4, <2>9
    <3>2. \A i \in 1 .. Len(f) : d[i] = f[i]
      BY <2>5, <2>7, <3>1
    <3>3. d[Len(f) + 1] = Checksum(f, 255)
      <4>1. Len(f) + 1 \in 1 .. m + n /\ 3 + (Len(f) + 1) = Len(f) + 4
        BY <2>5, <3>1
      <4>2. d[Len(f) + 1] = e[3 + (Len(f) + 1)]
        BY <2>7, <4>1
      <4> QED
        BY <2>5, <4>1, <4>2
    <3>4. Checksum(d, 255) = 0
      <4>1. d \in Seq(Byte) /\ f \in Seq(Byte)
        BY <1>2, <2>5
      <4>2. Len(d) = Len(f) + 1
        BY <3>1
      <4> QED
        BY <4>1, <4>2, <3>2, <3>3, ChecksumWhole
    <3>5. SubSeq(d, 1, dev.length) = f
      <4>1. /\ SubSeq(d, 1, Len(f)) \in Seq(Byte) /\ Len(SubSeq(d, 1, Len(f))) = Len(f)
            /\ \A i \in 1 .. Len(f) : SubSeq(d, 1, Len(f))[i] = d[i]
        <5>1. Len(f) <= Len(d)
          BY <2>5, <3>1
        <5> QED
          BY <1>2, <2>5, <5>1, SubSeqType
      <4>2. SubSeq(d, 1, Len(f)) = f
        BY <2>5, <3>2, <4>1, SeqEqual
      <4> QED
        BY <2>4, <4>2
    <3>6. PICK a \in Activations : stack = <<a>>
      BY <1>0, <1>2, StackLemma
    <3>7. stack' = [stack EXCEPT ![Len(stack)].at = "dispatch",
                      ![Len(stack)].dispatched = @ + 1,
                      ![Len(stack)].frame = f]
      BY <2>9, <3>4, <3>5
    <3> DEFINE k == a.dispatched + 1
               b == [a EXCEPT !.at = "dispatch", !.dispatched = k, !.frame = f]
    <3>8. stack' = <<b>>
      BY <3>6, <3>7
    <3> HIDE DEF k
    <3>9. b.frame = f
      BY <3>6 DEF Activations
    <3> HIDE DEF b
    <3>10. stack' # << >> /\ Last(stack').frame = f
      BY <3>8, <3>9, OneLemma
    <3> QED
      BY <1>4, <2>1, <2>9, <3>10, ExpectNone DEF LoaderPost, Seen
  <2> QED
    BY <1>2, <2>8, <2>9
<1> QED
  BY <1>5, <1>6

-----------------------------------------------------------------------------
(* All the steps                                                             *)

FramePre == TypeInv /\ FrameInv

LEMMA FramePreTypes ==
  ASSUME FramePre
  PROVE  SeqTypes /\ LineTypes /\ DevTypes /\ StackOK /\ LineOK /\ RxOK /\ ExpectOK
BY DEF FramePre, TypeInv, FrameInv, SeqTypes, LineTypes, OtherTypes

LEMMA LoaderFrames ==
  ASSUME FramePre, Tick \/ Loader
  PROVE  FrameInv' /\ Seen
<1>1. LoaderPre /\ task' = task
  BY FramePreTypes DEF LoaderPre, Tick, Loader
<1>2. LoaderPost
  <2>1. CASE UNCHANGED <<rx, dev, expect, line>>
    BY <1>1, <2>1, SameFrames
  <2>2. CASE WaitStart \/ LengthMsb \/ LengthLsb \/ RxFrame
    BY <1>1, <2>2, WaitStartFrames, LengthMsbFrames, LengthLsbFrames, RxFrameFrames
  <2> QED
    BY <2>1, <2>2 DEF Tick, Loader, Load, HandlerTicks, xbee_dev_tick, Dispatched
<1>3. task.pc \in {"init", "run"}
  <2>1. Loader => stack # << >>
    BY LoaderStep DEF FramePre, TypeInv, LoadTypes, Loader
  <2> QED
    BY <2>1 DEF FramePre, TypeInv, TaskTypes, Tick
<1> QED
  BY <1>1, <1>2, <1>3 DEF LoaderPost, FrameInv, ReaderOK

\* The loader does not run, and the task may read.
LEMMA ReaderLemma ==
  ASSUME FramePre, task.pc \notin {"init", "run"}
  PROVE  stack = << >> /\ (expect # None => task.pc \in {"start", "break", "stop"})
BY DEF FramePre, TypeInv, TaskTypes, FrameInv, ReaderOK

LEMMA TextsLemma ==
  ASSUME FramePre
  PROVE  /\ \A c : Said(c) \in Seq(Byte)
         /\ xbee.late \in Seq(Byte) /\ task.job \in {"BYPASS", "API", "APN"}
<1>1. xbee.apn \in Seq(Byte) /\ xbee.late \in Seq(Byte) /\ task.job \in {"BYPASS", "API", "APN"}
  BY DEF FramePre, TypeInv, TaskTypes, XBees, Tasks
<1>2. ASSUME NEW c PROVE Said(c) \in Seq(Byte)
  <2>1. (IF c = "AN" THEN xbee.apn ELSE OK) \in Seq(Byte)
    BY <1>1, TextLemma
  <2> QED
    BY <2>1, TextLemma, ConcatSeq DEF Said
<1> QED
  BY <1>1, <1>2

\* What the XBee puts on the line comes after what is there.
Longer == line' = line \/ \E t \in Seq(Byte) : line' = line \o Plain(t)

LEMMA AnswerLine ==
  ASSUME NEW x \in XBees, NEW text \in Seq(Byte), Answer(x, text)
  PROVE  Longer /\ xbee'.mode = x.mode /\ xbee'.now = x.now
<1>1. CASE line' = line \o Plain(text) /\ xbee' = x
  BY <1>1 DEF Longer
<1>2. CASE xbee' = [x EXCEPT !.late = @ \o text] /\ UNCHANGED line
  <2>1. xbee'.mode = x.mode /\ xbee'.now = x.now
    BY <1>2 DEF XBees
  <2> QED
    BY <1>2, <2>1 DEF Longer
<1> QED
  BY <1>1, <1>2 DEF Answer

LEMMA AskedFrames ==
  ASSUME FramePre, NEW c, Asked(c), UNCHANGED port
  PROVE  Longer /\ Matched' = Matched
<1>1. CASE xbee.mode = "command" /\ Answer(Effect(c), Said(c))
  <2>1. Effect(c).mode \in {"command", "leaving"}
    BY <1>1 DEF Effect, FramePre, TypeInv, TaskTypes, XBees
  <2>2. PICK x : x = Effect(c) /\ x \in XBees
    BY EffectTypes DEF FramePre, TypeInv, TaskTypes
  <2>3. Answer(x, Said(c)) /\ Said(c) \in Seq(Byte)
    BY <1>1, <2>2, TextsLemma
  <2>4. xbee'.mode = x.mode /\ Longer
    BY <2>2, <2>3, AnswerLine
  <2>5. XBeeBaud' = XBeeBaud
    BY <1>1, <2>1, <2>2, <2>4 DEF XBeeBaud
  <2> QED
    BY <2>4, <2>5 DEF Matched
<1>2. CASE line' = line \o Plain(ERROR \o <<CR>>) /\ UNCHANGED xbee
  <2>1. Longer
    BY <1>2, TextLemma DEF Longer
  <2> QED
    BY <1>2, <2>1 DEF Matched, XBeeBaud
<1>3. CASE UNCHANGED <<line, xbee, faults>>
  <2>1. Longer
    BY <1>3 DEF Longer
  <2> QED
    BY <1>3, <2>1 DEF Matched, XBeeBaud
<1> QED
  BY <1>1, <1>2, <1>3 DEF Asked

LEMMA ModemFrames ==
  ASSUME FramePre, ModemAsked
  PROVE  Longer /\ (UNCHANGED port => Matched' = Matched)
<1>1. CASE Answer(xbee, ModemOK)
  <2>1. xbee \in XBees
    BY DEF FramePre, TypeInv, TaskTypes
  <2>2. Longer /\ xbee'.mode = xbee.mode /\ xbee'.now = xbee.now
    BY <1>1, <2>1, TextLemma, AnswerLine
  <2> QED
    BY <2>2 DEF Matched, XBeeBaud
<1>2. CASE /\ line' = line \o Plain(<<CR, LF>> \o ERROR \o <<CR, LF>>)
           /\ UNCHANGED xbee
  <2>1. Longer
    BY <1>2, TextLemma DEF Longer
  <2> QED
    BY <1>2, <2>1 DEF Matched, XBeeBaud
<1>3. CASE UNCHANGED <<line, xbee, faults>>
  <2>1. Longer
    BY <1>3 DEF Longer
  <2> QED
    BY <1>3, <2>1 DEF Matched, XBeeBaud
<1> QED
  BY <1>1, <1>2, <1>3 DEF ModemAsked

LEMMA ReadsFrames ==
  ASSUME FramePre, Reads, task.pc \in {"enter", "reply", "left"}, port'.baud = port.baud,
         xbee'.mode = xbee.mode, xbee'.now = xbee.now
  PROVE  FrameInv'
<1>1. expect = None /\ SeqTypes /\ LineOK /\ RxOK
  BY FramePreTypes, ReaderLemma
<1>2. ReadResponse.read \in 0 .. Len(rx) /\ Len(rx) \in Nat
  BY ReadTypes, LenProperties DEF FramePre, TypeInv, TaskTypes, LineTypes
<1>3. PICK n : n = ReadResponse.read
  OBVIOUS
<1>4. n \in Nat /\ n <= Len(rx)
  BY <1>2, <1>3
<1>5. Drop(n) /\ UNCHANGED <<dev, expect>>
  BY <1>3, <1>4 DEF Drop, Reads, Matched, XBeeBaud
<1> QED
  BY <1>1, <1>4, <1>5, DropFrames DEF FrameInv

LEMMA SilentFrames ==
  ASSUME FramePre, UNCHANGED <<rx, line, dev, expect>>, Matched' = Matched,
         expect # None => task'.pc \in {"init", "run", "start", "break", "stop"}
  PROVE  FrameInv'
BY FramePreTypes, MoreFrames DEF FrameInv, ReaderOK

LEMMA ReadStepFrames ==
  ASSUME FramePre, ReadMore \/ EnterRead \/ Reply \/ ExitReply
  PROVE  FrameInv'
<1>1. Reads /\ task.pc \in {"enter", "reply", "left"}
  BY DEF ReadMore, EnterRead, Reply, ExitReply, Responds
<1>2. /\ \/ port' = port
         \/ port' = [port EXCEPT !.break = FALSE]
      /\ \/ xbee' = xbee
         \/ xbee' = [xbee EXCEPT !.noticed = FALSE]
  BY DEF ReadMore, EnterRead, Reply, ExitReply, Turn, Entered, Replied, Left
<1>3. port'.baud = port.baud /\ xbee'.mode = xbee.mode /\ xbee'.now = xbee.now
  BY <1>2 DEF FramePre, TypeInv, TaskTypes, XBees
<1> QED
  BY <1>1, <1>3, ReadsFrames

LEMMA QuietStepFrames ==
  ASSUME FramePre,
         Break \/ EnterTimeout \/ ReplyTimeout \/ ExitTimeout \/ ExitWait \/ UratTimeout \/ QueryEnds
  PROVE  FrameInv'
<1>1. UNCHANGED <<rx, line, dev, expect>>
  BY DEF Break, EnterTimeout, ReplyTimeout, ExitTimeout, ExitWait, UratTimeout, QueryEnds,
         frameVars, loadVars
<1>2. /\ \/ port' = port
         \/ port' = [port EXCEPT !.break = FALSE]
         \/ port' = [port EXCEPT !.break = TRUE]
      /\ \/ xbee' = xbee
         \/ xbee' = [xbee EXCEPT !.noticed = FALSE]
  BY DEF Break, EnterTimeout, ReplyTimeout, ExitTimeout, ExitWait, UratTimeout, QueryEnds,
         Turn, Entered, Left
<1>3. port'.baud = port.baud /\ xbee'.mode = xbee.mode /\ xbee'.now = xbee.now
  BY <1>2 DEF FramePre, TypeInv, TaskTypes, XBees
<1>4. Matched' = Matched
  BY <1>3 DEF Matched, XBeeBaud
<1>5. expect # None => task'.pc \in {"init", "run", "start", "break", "stop"}
  <2>0. task \in Tasks
    BY DEF FramePre, TypeInv, TaskTypes
  <2>1. CASE Break
    BY <2>0, <2>1 DEF Break, Tasks
  <2>2. CASE QueryEnds
    BY <2>0, <2>2 DEF QueryEnds, Tasks
  <2>3. CASE EnterTimeout \/ ReplyTimeout \/ ExitTimeout \/ ExitWait \/ UratTimeout
    BY <2>3, ReaderLemma DEF EnterTimeout, ReplyTimeout, ExitTimeout, ExitWait, UratTimeout
  <2> QED
    BY <2>1, <2>2, <2>3
<1> QED
  BY <1>1, <1>4, <1>5, SilentFrames

LEMMA AskStepFrames ==
  ASSUME FramePre, SendRequest \/ ExitRequest \/ Echo
  PROVE  FrameInv'
<1>1. /\ UNCHANGED <<rx, dev, expect, port>> /\ expect = None
      /\ ModemAsked \/ \E c : Asked(c)
  BY ReaderLemma DEF SendRequest, ExitRequest, Echo, loadVars
<1>2. Longer /\ Matched' = Matched
  BY <1>1, AskedFrames, ModemFrames
<1> QED
  BY <1>1, <1>2, FramePreTypes, MoreFrames DEF FrameInv, ReaderOK, Longer

LEMMA FlushStepFrames ==
  ASSUME FramePre, Listen \/ ExitFlush \/ Urat
  PROVE  FrameInv'
<1>1. Flushed
  BY DEF Listen, ExitFlush, Urat
<1>0. line' = line \/ Urat
  BY DEF Listen, ExitFlush
<1>2. LineOK'
  <2>1. CASE line' = line
    BY <2>1, FramePreTypes, LineKeep
  <2>2. CASE \E t \in Seq(Byte) : line' = line \o Plain(t)
    BY <2>2, FramePreTypes, LineMore DEF SeqTypes
  <2>3. Urat => ModemAsked
    BY DEF Urat
  <2> QED
    BY <1>0, <2>1, <2>2, <2>3, ModemFrames DEF Longer
<1> QED
  BY <1>1, <1>2, FlushFrames DEF FrameInv

LEMMA UratReadFrames ==
  ASSUME FramePre, UratRead
  PROVE  FrameInv'
<1>1. PICK n : /\ rx' = SubSeq(rx, n + 1, Len(rx)) /\ n \in Nat /\ n <= Len(rx)
               /\ UNCHANGED <<line, dev, inTick, stack, expect, astray, faults, port, xbee>>
  <2> DEFINE left == Len(ModemOK) - Len(task.buff)
             n == IF Len(rx) < left THEN Len(rx) ELSE left
  <2>1. rx' = SubSeq(rx, n + 1, Len(rx)) /\ UNCHANGED <<line, dev, inTick, stack, expect, astray, faults, port, xbee>>
    BY DEF UratRead
  <2>2. Len(rx) \in Nat /\ Len(task.buff) \in Nat
    BY LenProperties DEF FramePre, TypeInv, LineTypes, TaskTypes, Tasks
  <2>3. Len(task.buff) < Len(ModemOK)
    BY DEF FramePre, TypeInv, TaskTypes, UratRead
  <2>4. left \in Nat
    BY <2>2, <2>3, ModemOKLemma
  <2>5. \A a, b \in Nat : (IF a < b THEN a ELSE b) \in Nat /\ (IF a < b THEN a ELSE b) <= a
    OBVIOUS
  <2> HIDE DEF left
  <2>6. n \in Nat /\ n <= Len(rx)
    BY <2>2, <2>4, <2>5
  <2> HIDE DEF n
  <2> QED
    BY <2>1, <2>6
<1>2. expect = None
  BY ReaderLemma DEF UratRead
<1>3. Drop(n) /\ UNCHANGED <<dev, expect>>
  BY <1>1 DEF Drop, Matched, XBeeBaud
<1> QED
  BY <1>1, <1>2, <1>3, FramePreTypes, DropFrames DEF FrameInv

LEMMA XBeeFrames ==
  ASSUME FramePre, XBee \/ Arrive
  PROVE  FrameInv' /\ expect' = expect
<1>1. UNCHANGED <<task, dev, expect>>
  BY DEF XBee, Arrive, XBeeBreak, XBeeLate, XBeeLeaves, XBeeSends, SendFrame, SendDamaged,
         Receive, loadVars, frameVars
<1>2. LineOK' /\ RxOK' /\ ExpectOK'
  <2>1. CASE XBeeBreak
    <3>1. line = << >> /\ UNCHANGED <<rx, dev, expect>>
      BY <2>1 DEF XBeeBreak, loadVars
    <3> DEFINE x == [xbee EXCEPT !.mode = "command", !.noticed = TRUE]
    <3>2. x \in XBees
      BY DEF FramePre, TypeInv, TaskTypes, XBees
    <3>3. Answer(x, OK \o <<CR>>)
      BY <2>1 DEF XBeeBreak
    <3> HIDE DEF x
    <3>4. Longer
      BY <3>2, <3>3, TextLemma, AnswerLine
    <3> QED
      BY <3>1, <3>4, FramePreTypes, MoreFrames DEF Longer
  <2>2. CASE XBeeLate
    <3>1. LineOK'
      BY <2>2, TextsLemma, LinePlain DEF XBeeLate
    <3> QED
      BY <2>2, <3>1, FramePreTypes, NewFrames DEF XBeeLate, loadVars
  <2>3. CASE XBeeLeaves
    <3>1. line' = line /\ line = << >> /\ UNCHANGED <<rx, dev, expect>>
      BY <2>3 DEF XBeeLeaves, frameVars, loadVars
    <3> QED
      BY <3>1, FramePreTypes, MoreFrames
  <2>4. CASE XBeeSends
    <3>1. PICK f \in Frames : SendFrame(f) \/ SendDamaged(f)
      BY <2>4 DEF XBeeSends
    <3>2. line = << >> /\ UNCHANGED <<rx, dev, expect>>
      BY <3>1 DEF SendFrame, SendDamaged, loadVars
    <3>3. LineOK'
      <4>1. CASE SendFrame(f)
        BY <4>1, LineWhole DEF SendFrame
      <4>2. CASE SendDamaged(f)
        <5>1. PICK t \in Seq(Byte) : line' = Plain(t)
          BY <4>2, DamagedText
        <5> QED
          BY <5>1, LinePlain
      <4> QED
        BY <3>1, <4>1, <4>2
    <3> QED
      BY <3>2, <3>3, FramePreTypes, NewFrames
  <2>5. CASE Arrive
    BY <2>5, FramePreTypes, ArriveFrames
  <2> QED
    BY <2>1, <2>2, <2>3, <2>4, <2>5 DEF XBee
<1> QED
  BY <1>1, <1>2 DEF FramePre, FrameInv, ReaderOK

LEMMA FrameNext ==
  ASSUME FramePre, [Next]_vars
  PROVE  FrameInv' /\ (stack # << >> => Seen)
<1>1. CASE UNCHANGED vars
  <2>1. UNCHANGED <<rx, line, dev, expect, task>> /\ Matched' = Matched
    BY <1>1 DEF vars, frameVars, loadVars, Matched, XBeeBaud
  <2> QED
    BY <2>1, SilentFrames DEF Seen, FramePre, FrameInv, ReaderOK
<1>2. CASE Tick \/ Loader
  BY <1>2, LoaderFrames
<1>3. CASE XBee \/ Arrive
  BY <1>3, XBeeFrames DEF Seen
<1>4. CASE Configure
  <2>1. FrameInv'
    BY <1>4, ReadStepFrames, QuietStepFrames, AskStepFrames, FlushStepFrames, UratReadFrames
    DEF Configure
  <2>2. stack = << >>
    <3>1. CASE QueryEnds
      BY <3>1 DEF QueryEnds
    <3>2. CASE ~QueryEnds
      <4>1. task.pc \notin {"init", "run"}
        <5>1. Break \/ Listen \/ EnterTimeout \/ SendRequest \/ ReplyTimeout \/ ExitRequest
                => task.pc \in {"start", "break", "enter", "send", "reply", "exit"}
          BY DEF Break, Listen, EnterTimeout, SendRequest, ReplyTimeout, ExitRequest
        <5>2. ReadMore \/ EnterRead \/ Reply \/ ExitReply => task.pc \in {"enter", "reply", "left"}
          BY DEF ReadMore, EnterRead, Reply, ExitReply, Responds
        <5>3. ExitTimeout \/ ExitWait \/ ExitFlush \/ Echo \/ Urat \/ UratRead \/ UratTimeout
                => task.pc \in {"left", "wait", "flush", "echo", "echoed", "urat"}
          BY DEF ExitTimeout, ExitWait, ExitFlush, Echo, Urat, UratRead, UratTimeout
        <5> QED
          BY <1>4, <3>2, <5>1, <5>2, <5>3 DEF Configure
      <4> QED
        BY <4>1, ReaderLemma
    <3> QED
      BY <3>1, <3>2
  <2> QED
    BY <2>1, <2>2
<1> QED
  BY <1>1, <1>2, <1>3, <1>4 DEF Next

\* Behind the first byte of an undamaged frame the rest follows.
THEOREM FrameInvariance == Spec => []FramePre
<1>1. Init => FramePre
  <2> SUFFICES ASSUME Init PROVE FrameInv
    BY TypeInit DEF FramePre
  <2>1. Len(rx) = 0 /\ Len(line) = 0 /\ expect = None
    BY DEF Init, FrameInit
  <2> QED
    BY <2>1 DEF FrameInv, LineOK, RxOK, ExpectOK, ReaderOK
<1>2. FramePre /\ [Next]_vars => FramePre'
  BY FrameNext, TypeNext DEF FramePre
<1> QED
  BY <1>1, <1>2, PTL DEF Spec

\* Once _xbee_frame_load took the first byte of an undamaged frame for a start
\* the frame is dispatched as it was sent, whatever came before.
THEOREM StartSeen == Spec => StartSeenDelivered
<1>1. FramePre /\ [Next]_vars =>
        [stack # << >> /\ expect # None /\ expect' # expect
           => stack' # << >> /\ Last(stack').frame = expect]_frameVars
  BY FrameNext DEF Seen
<1> QED
  BY <1>1, FrameInvariance, PTL DEF Spec, StartSeenDelivered

-----------------------------------------------------------------------------
(* What was configured is saved                                              *)

Bytes(s) == [i \in 1 .. Len(s) |-> s[i].byte]

\* The answer that the task is reading.
Pending == (task.buff \o Bytes(rx)) \o (Bytes(line) \o xbee.late)

\* What the first k commands of the job have done.
Done(k) ==
  IF task.job = "APN"
  THEN k >= 2 => xbee.apn = Dash
  ELSE /\ k >= 2 => xbee.set.ap = task.job
       /\ k >= 4 => xbee.set.bd = Target
       /\ k >= 5 => xbee.saved.ap = task.job /\ xbee.saved.bd = Target

Result ==
  IF task.job = "APN" THEN xbee.apn = Dash
  ELSE xbee.saved.ap = task.job /\ xbee.saved.bd = Target

Cmd == Commands(task.job)[task.step]

\* The XBee is in command mode and the task hears it.
Listening ==
  /\ xbee.noticed => xbee.mode = "command" /\ task.pc \in {"break", "enter"}
  /\ task.pc \in {"enter", "send", "reply", "exit", "left", "wait", "flush"} => port.baud = 9600
  /\ task.pc \in {"send", "reply"} => task.step \in 1 .. Len(Commands(task.job))

\* Before a command is sent nothing is left of an earlier answer.
SendOK ==
  task.pc = "send" /\ task.inStep =>
    /\ xbee.mode = "command" /\ rx = << >> /\ line = << >> /\ xbee.late = << >>
    /\ Done(task.step - 1)

\* What is to be read is the answer to this command, or its refusal.
ReplyOK ==
  task.pc = "reply" /\ task.inStep =>
    /\ xbee.mode = "command"
    /\ \/ Pending = Said(Cmd) /\ Done(task.step)
       \/ Pending = ERROR \o <<CR>> /\ Done(task.step - 1)

ExitOK ==
  task.pc \in {"exit", "left", "wait", "flush"} /\ task.inStep /\ task.ret >= 0 => Result

NameOK == xbee.apn \in Seq(Byte \ {CR})

Dialogue == Listening /\ SendOK /\ ReplyOK /\ ExitOK /\ NameOK

-----------------------------------------------------------------------------
(* Texts                                                                     *)

LEMMA BytesType ==
  ASSUME NEW s \in Seq(Cell)
  PROVE  /\ Bytes(s) \in Seq(Byte) /\ Len(Bytes(s)) = Len(s) /\ Len(s) \in Nat
         /\ \A i \in 1 .. Len(s) : Bytes(s)[i] = s[i].byte /\ s[i].byte \in Byte
<1>1. Len(s) \in Nat /\ \A i \in 1 .. Len(s) : s[i].byte \in Byte
  <2>1. Len(s) \in Nat /\ \A i \in 1 .. Len(s) : s[i] \in Cell
    BY LenProperties
  <2> QED
    BY <2>1 DEF Cell
<1>2. Bytes(s) \in [1 .. Len(s) -> Byte]
  BY <1>1 DEF Bytes
<1>3. Bytes(s) \in Seq(Byte)
  BY <1>1, <1>2, SeqDef
<1>4. Len(Bytes(s)) = Len(s)
  BY <1>1, <1>2, <1>3, LenProperties
<1> QED
  BY <1>1, <1>3, <1>4 DEF Bytes

LEMMA BytesPlain ==
  ASSUME NEW t \in Seq(Byte)
  PROVE  Bytes(Plain(t)) = t
<1>1. /\ Plain(t) \in Seq(Cell) /\ Len(Plain(t)) = Len(t)
      /\ \A i \in 1 .. Len(t) : Plain(t)[i].byte = t[i]
  BY PlainLemma
<1>2. /\ Bytes(Plain(t)) \in Seq(Byte) /\ Len(Bytes(Plain(t))) = Len(t)
      /\ \A i \in 1 .. Len(t) : Bytes(Plain(t))[i] = t[i]
  BY <1>1, BytesType
<1> QED
  BY <1>2, SeqEqual

LEMMA EmptyTexts ==
  /\ Bytes(<< >>) = << >> /\ << >> \in Seq(Byte) /\ << >> \in Seq(Cell)
  /\ \A s \in Seq(Byte) : s \o << >> = s /\ << >> \o s = s
<1>1. << >> \in Seq(Byte) /\ << >> \in Seq(Cell) /\ Len(<< >>) = 0
  BY EmptySeq
<1>2. Bytes(<< >>) = << >>
  <2>1. Bytes(<< >>) \in Seq(Byte) /\ Len(Bytes(<< >>)) = 0
    BY <1>1, BytesType
  <2> QED
    BY <2>1, EmptySeq
<1> QED
  BY <1>1, <1>2, ConcatEmptySeq

LEMMA BytesAppend ==
  ASSUME NEW s \in Seq(Cell), NEW c \in Cell
  PROVE  Bytes(Append(s, c)) = Bytes(s) \o <<c.byte>>
<1> DEFINE a == Append(s, c)
           b == Bytes(s)
           k == c.byte
<1>1. a \in Seq(Cell) /\ Len(a) = Len(s) + 1 /\ a[Len(s) + 1] = c /\ \A i \in 1 .. Len(s) : a[i] = s[i]
  BY AppendProperties
<1>2. b \in Seq(Byte) /\ Len(b) = Len(s) /\ Len(s) \in Nat /\ \A i \in 1 .. Len(s) : b[i] = s[i].byte
  BY BytesType
<1>3. k \in Byte
  BY DEF Cell
<1> HIDE DEF a, b, k
<1>4. <<k>> \in Seq(Byte) /\ Len(<<k>>) = 1 /\ <<k>>[1] = k
  BY <1>3
<1>5. /\ b \o <<k>> \in Seq(Byte) /\ Len(b \o <<k>>) = Len(b) + Len(<<k>>)
      /\ \A i \in 1 .. Len(b) + Len(<<k>>) :
           (b \o <<k>>)[i] = IF i <= Len(b) THEN b[i] ELSE <<k>>[i - Len(b)]
  BY <1>2, <1>4, ConcatProperties
<1>6. /\ Bytes(a) \in Seq(Byte) /\ Len(Bytes(a)) = Len(s) + 1
      /\ \A i \in 1 .. Len(s) + 1 : Bytes(a)[i] = a[i].byte
  BY <1>1, BytesType
<1>7. \A i \in 1 .. Len(s) + 1 : Bytes(a)[i] = (b \o <<k>>)[i]
  <2> TAKE i \in 1 .. Len(s) + 1
  <2>1. CASE i \in 1 .. Len(s)
    BY <1>1, <1>2, <1>4, <1>5, <1>6, <2>1
  <2>2. CASE i = Len(s) + 1
    <3>1. i - Len(b) = 1 /\ ~(i <= Len(b)) /\ i \in 1 .. Len(b) + Len(<<k>>)
      BY <1>2, <1>4, <2>2
    <3> QED
      BY <1>1, <1>4, <1>5, <1>6, <2>2, <3>1 DEF k
  <2> QED
    BY <1>2, <2>1, <2>2
<1>8. Len(Bytes(a)) = Len(b \o <<k>>)
  BY <1>2, <1>4, <1>5, <1>6
<1>9. Bytes(a) = b \o <<k>>
  BY <1>5, <1>6, <1>7, <1>8, SeqEqual
<1> QED
  BY <1>9 DEF a, b, k

LEMMA BytesHead ==
  ASSUME NEW s \in Seq(Cell), s # << >>
  PROVE  Head(s) \in Cell /\ Tail(s) \in Seq(Cell) /\ Bytes(s) = <<Head(s).byte>> \o Bytes(Tail(s))
<1> DEFINE h == Head(s).byte
           t == Bytes(Tail(s))
<1>1. /\ Head(s) \in Cell /\ Tail(s) \in Seq(Cell) /\ Len(Tail(s)) = Len(s) - 1 /\ Len(s) \in Nat
      /\ Head(s) = s[1] /\ Len(s) >= 1 /\ \A i \in 1 .. Len(Tail(s)) : Tail(s)[i] = s[i + 1]
  BY HeadTailProperties, LenProperties
<1>2. h \in Byte
  BY <1>1 DEF Cell
<1>3. t \in Seq(Byte) /\ Len(t) = Len(s) - 1 /\ \A i \in 1 .. Len(s) - 1 : t[i] = s[i + 1].byte
  <2>1. PICK u \in Seq(Cell) : u = Tail(s)
    BY <1>1
  <2>2. Bytes(u) \in Seq(Byte) /\ Len(Bytes(u)) = Len(u) /\ \A i \in 1 .. Len(u) : Bytes(u)[i] = u[i].byte
    BY BytesType
  <2>3. t = Bytes(u) /\ Len(u) = Len(s) - 1 /\ \A i \in 1 .. Len(s) - 1 : u[i] = s[i + 1]
    BY <1>1, <2>1
  <2> HIDE DEF t
  <2> QED
    BY <2>2, <2>3
<1>4. Bytes(s) \in Seq(Byte) /\ Len(Bytes(s)) = Len(s) /\ \A i \in 1 .. Len(s) : Bytes(s)[i] = s[i].byte
  BY BytesType
<1>5. h = s[1].byte
  BY <1>1
<1> HIDE DEF h, t
<1>6. PICK g \in Seq(Byte) : g = <<h>> /\ Len(g) = 1 /\ g[1] = h
  <2>1. <<h>> \in Seq(Byte) /\ Len(<<h>>) = 1 /\ <<h>>[1] = h
    BY <1>2
  <2> QED
    BY <2>1
<1>7. /\ g \o t \in Seq(Byte) /\ Len(g \o t) = Len(g) + Len(t)
      /\ \A i \in 1 .. Len(g) + Len(t) :
           (g \o t)[i] = IF i <= Len(g) THEN g[i] ELSE t[i - Len(g)]
  BY <1>3, <1>6, ConcatProperties
<1>8. \A i \in 1 .. Len(s) : Bytes(s)[i] = (g \o t)[i]
  <2> TAKE i \in 1 .. Len(s)
  <2>0. i \in 1 .. Len(g) + Len(t)
    BY <1>1, <1>3, <1>6
  <2>1. CASE i = 1
    BY <1>4, <1>5, <1>6, <1>7, <2>0, <2>1
  <2>2. CASE i # 1
    <3>1. i - Len(g) = i - 1 /\ ~(i <= Len(g)) /\ i - 1 \in 1 .. Len(s) - 1 /\ (i - 1) + 1 = i
      BY <1>1, <1>6, <2>2
    <3> QED
      BY <1>3, <1>4, <1>7, <2>0, <3>1
  <2> QED
    BY <2>1, <2>2
<1>9. Len(Bytes(s)) = Len(g \o t)
  <2>1. Len(g \o t) = 1 + (Len(s) - 1)
    BY <1>3, <1>6, <1>7
  <2> QED
    BY <1>1, <1>4, <2>1
<1>10. Bytes(s) = g \o t
  BY <1>4, <1>7, <1>8, <1>9, SeqEqual
<1> QED
  BY <1>1, <1>6, <1>10 DEF h, t

LEMMA Assoc ==
  ASSUME NEW u \in Seq(Byte), NEW v \in Seq(Byte), NEW w \in Seq(Byte)
  PROVE  (u \o v) \o w = u \o (v \o w)
BY ConcatAssociative

\* Where a byte moves from the line to the driver.
Moving(b, r, g, l, t) ==
  /\ b \in Seq(Byte) /\ r \in Seq(Byte) /\ g \in Seq(Byte)
  /\ l \in Seq(Byte) /\ t \in Seq(Byte)

Moved(b, r, g, l, t) == (b \o (r \o g)) \o (l \o t) = (b \o r) \o ((g \o l) \o t)

LEMMA MoveLemma ==
  ASSUME NEW b, NEW r, NEW g, NEW l, NEW t, Moving(b, r, g, l, t)
  PROVE  Moved(b, r, g, l, t)
<1>0. b \in Seq(Byte) /\ r \in Seq(Byte) /\ g \in Seq(Byte) /\ l \in Seq(Byte) /\ t \in Seq(Byte)
  BY DEF Moving
<1>1. b \o (r \o g) = (b \o r) \o g
  BY ZenonT(60), <1>0, Assoc
<1>4. g \o (l \o t) = (g \o l) \o t
  BY ZenonT(60), <1>0, Assoc
<1>2. PICK x \in Seq(Byte), y \in Seq(Byte) : x = b \o r /\ y = l \o t
  <2>1. b \o r \in Seq(Byte) /\ l \o t \in Seq(Byte)
    BY <1>0, ConcatSeq
  <2> QED
    BY <2>1
<1>3. (x \o g) \o y = x \o (g \o y)
  BY ZenonT(60), <1>0, Assoc
<1> QED
  BY <1>1, <1>2, <1>3, <1>4 DEF Moved

\* What is pending, and the line that it should be.
Splits(p, b, r, l, t) == p = (b \o r) \o (l \o t)
IsLine(p, a) == p = a \o <<CR>>

\* The i-th byte of what is pending.
LEMMA PendingLemma ==
  ASSUME NEW b \in Seq(Byte), NEW r \in Seq(Byte), NEW l \in Seq(Byte), NEW t \in Seq(Byte),
         NEW p, Splits(p, b, r, l, t)
  PROVE  /\ p \in Seq(Byte) /\ Len(p) = Len(b) + Len(r) + Len(l) + Len(t)
         /\ Len(b) \in Nat /\ Len(r) \in Nat /\ Len(l) \in Nat /\ Len(t) \in Nat
         /\ \A i \in 1 .. Len(b) : p[i] = b[i]
         /\ \A i \in 1 .. Len(r) : p[Len(b) + i] = r[i]
<1>0. Len(b) \in Nat /\ Len(r) \in Nat /\ Len(l) \in Nat /\ Len(t) \in Nat
  BY LenProperties
<1>1. PICK x, y : x = b \o r /\ y = l \o t
  OBVIOUS
<1>2. x \in Seq(Byte) /\ y \in Seq(Byte) /\ Len(x) = Len(b) + Len(r) /\ Len(y) = Len(l) + Len(t)
      /\ \A i \in 1 .. Len(b) + Len(r) : x[i] = IF i <= Len(b) THEN b[i] ELSE r[i - Len(b)]
  BY <1>1, ConcatProperties
<1>3. p = x \o y
  BY <1>1 DEF Splits
<1>4. p \in Seq(Byte) /\ Len(p) = Len(x) + Len(y)
      /\ \A i \in 1 .. Len(x) + Len(y) : p[i] = IF i <= Len(x) THEN x[i] ELSE y[i - Len(x)]
  BY <1>2, <1>3, ConcatProperties
<1>5. Len(p) = Len(b) + Len(r) + Len(l) + Len(t)
  BY <1>0, <1>2, <1>4
<1>6. \A i \in 1 .. Len(b) : p[i] = b[i]
  BY <1>0, <1>2, <1>4
<1>7. \A i \in 1 .. Len(r) : p[Len(b) + i] = r[i]
  <2> TAKE i \in 1 .. Len(r)
  <2>1. PICK j \in 1 .. Len(b) + Len(r) : j = Len(b) + i /\ ~(j <= Len(b)) /\ j - Len(b) = i
    <3>1. Len(b) + i \in 1 .. Len(b) + Len(r) /\ ~(Len(b) + i <= Len(b)) /\ (Len(b) + i) - Len(b) = i
      BY <1>0
    <3> QED
      BY <3>1
  <2>2. j \in 1 .. Len(x) + Len(y) /\ j <= Len(x)
    BY <1>0, <1>2, <2>1
  <2> QED
    BY <1>2, <1>4, <2>1, <2>2
<1> QED
  BY <1>0, <1>4, <1>5, <1>6, <1>7

LEMMA LineEnd ==
  ASSUME NEW a \in Seq(Byte), NEW p, IsLine(p, a)
  PROVE  /\ Len(a) \in Nat /\ Len(p) = Len(a) + 1 /\ p[Len(a) + 1] = CR
         /\ \A i \in 1 .. Len(a) : p[i] = a[i]
<1>1. PICK g \in Seq(Byte) : g = <<CR>> /\ Len(g) = 1 /\ g[1] = CR
  <2>1. <<CR>> \in Seq(Byte) /\ Len(<<CR>>) = 1 /\ <<CR>>[1] = CR
    BY TextLemma
  <2> QED
    BY <2>1
<1>2. PICK q : q = a \o g
  OBVIOUS
<1>3. /\ Len(q) = Len(a) + Len(g)
      /\ \A i \in 1 .. Len(a) + Len(g) : q[i] = IF i <= Len(a) THEN a[i] ELSE g[i - Len(a)]
  BY <1>2, ConcatProperties
<1>4. Len(a) \in Nat
  BY LenProperties
<1>5. q[Len(a) + 1] = g[Len(a) + 1 - Len(a)] /\ Len(a) + 1 - Len(a) = 1
  BY <1>1, <1>3, <1>4
<1>6. q = p
  BY <1>1, <1>2 DEF IsLine
<1>7. Len(q) = Len(a) + 1 /\ q[Len(a) + 1] = CR /\ \A i \in 1 .. Len(a) : q[i] = a[i]
  BY <1>1, <1>3, <1>4, <1>5
<1> QED
  BY <1>4, <1>6, <1>7

\* When all that is pending is a line, the return that is read is its end.
Reading(p, b, r, l, t, a, m) ==
  /\ b \in Seq(Byte) /\ r \in Seq(Byte) /\ l \in Seq(Byte) /\ t \in Seq(Byte)
  /\ a \in Seq(Byte) /\ \A i \in 1 .. Len(a) : a[i] # CR
  /\ Splits(p, b, r, l, t) /\ IsLine(p, a)
  /\ m \in 1 .. Len(r) /\ r[m] = CR

LEMMA LineRead ==
  ASSUME NEW b, NEW r, NEW l, NEW t, NEW a, NEW p, NEW m, Reading(p, b, r, l, t, a, m)
  PROVE  /\ Len(r) = m /\ Len(l) = 0 /\ Len(t) = 0
         /\ Len(a) = Len(b) + (m - 1)
         /\ \A i \in 1 .. Len(b) : a[i] = b[i]
         /\ \A i \in 1 .. m - 1 : a[Len(b) + i] = r[i]
<1>0. /\ b \in Seq(Byte) /\ r \in Seq(Byte) /\ l \in Seq(Byte) /\ t \in Seq(Byte)
      /\ a \in Seq(Byte) /\ \A i \in 1 .. Len(a) : a[i] # CR
      /\ Splits(p, b, r, l, t) /\ IsLine(p, a)
      /\ m \in 1 .. Len(r) /\ r[m] = CR
  BY DEF Reading
<1>1. /\ p \in Seq(Byte) /\ Len(p) = Len(b) + Len(r) + Len(l) + Len(t)
      /\ Len(b) \in Nat /\ Len(r) \in Nat /\ Len(l) \in Nat /\ Len(t) \in Nat
      /\ \A i \in 1 .. Len(b) : p[i] = b[i]
      /\ \A i \in 1 .. Len(r) : p[Len(b) + i] = r[i]
  BY <1>0, PendingLemma
<1>2. /\ Len(a) \in Nat /\ Len(p) = Len(a) + 1 /\ p[Len(a) + 1] = CR
      /\ \A i \in 1 .. Len(a) : p[i] = a[i]
  BY <1>0, LineEnd
<1>4. PICK k \in 1 .. Len(p) : k = Len(b) + m
  <2>1. Len(b) + m \in 1 .. Len(p)
    BY <1>0, <1>1
  <2> QED
    BY <2>1
<1>5. p[k] = CR
  BY <1>0, <1>1, <1>4
<1>6. k = Len(a) + 1
  <2>1. k \notin 1 .. Len(a)
    BY <1>0, <1>2, <1>5
  <2> QED
    BY <1>2, <1>4, <2>1
<1>7. Len(r) = m /\ Len(l) = 0 /\ Len(t) = 0 /\ Len(a) = Len(b) + (m - 1)
  BY <1>0, <1>1, <1>2, <1>4, <1>6
<1>8. \A i \in 1 .. Len(b) : a[i] = b[i]
  BY <1>0, <1>1, <1>2, <1>7
<1>9. \A i \in 1 .. m - 1 : a[Len(b) + i] = r[i]
  <2> TAKE i \in 1 .. m - 1
  <2>1. i \in 1 .. Len(r) /\ Len(b) + i \in 1 .. Len(a)
    BY <1>0, <1>1, <1>7
  <2> QED
    BY <1>1, <1>2, <2>1
<1> QED
  BY <1>7, <1>8, <1>9

-----------------------------------------------------------------------------
(* The dialogue                                                              *)

SameXBee == /\ xbee'.mode = xbee.mode /\ xbee'.noticed = xbee.noticed /\ xbee'.apn = xbee.apn
            /\ xbee'.set = xbee.set /\ xbee'.saved = xbee.saved

SameTask == /\ task'.pc = task.pc /\ task'.job = task.job /\ task'.step = task.step
            /\ task'.inStep = task.inStep /\ task'.ret = task.ret

\* Nothing but the place of the bytes changes.
LEMMA DialogueKeep ==
  ASSUME Dialogue, SameTask, SameXBee, port' = port,
         rx = << >> /\ line = << >> /\ xbee.late = << >> =>
           rx' = << >> /\ line' = << >> /\ xbee'.late = << >>,
         task.pc = "reply" /\ task.inStep => Pending' = Pending
  PROVE  Dialogue'
<1>1. Listening'
  BY DEF Dialogue, Listening, SameTask, SameXBee
<1>2. SendOK'
  BY DEF Dialogue, SendOK, Done, SameTask, SameXBee
<1>3. ReplyOK'
  <2>1. Done(task.step)' = Done(task.step) /\ Done(task.step - 1)' = Done(task.step - 1)
    BY DEF Done, SameTask, SameXBee
  <2>2. Said(Cmd)' = Said(Cmd)
    BY DEF Said, Cmd, SameTask, SameXBee
  <2> QED
    BY <2>1, <2>2 DEF Dialogue, ReplyOK, SameTask, SameXBee
<1>4. ExitOK'
  BY DEF Dialogue, ExitOK, Result, SameTask, SameXBee
<1>5. NameOK'
  BY DEF Dialogue, NameOK, SameXBee
<1> QED
  BY <1>1, <1>2, <1>3, <1>4, <1>5 DEF Dialogue

\* Outside of a command there is only the way out to look at.
LEMMA DialogueRest ==
  ASSUME NameOK', task'.pc \notin {"send", "reply"},
         xbee'.noticed => xbee'.mode = "command" /\ task'.pc \in {"break", "enter"},
         task'.pc \in {"enter", "exit", "left", "wait", "flush"} => port'.baud = 9600,
         task'.pc \in {"exit", "left", "wait", "flush"} /\ task'.inStep /\ task'.ret >= 0 => Result'
  PROVE  Dialogue'
BY DEF Dialogue, Listening, SendOK, ReplyOK, ExitOK

LEMMA SilentXBee ==
  ASSUME Dialogue, task.pc \notin {"break", "enter"}, xbee \in XBees
  PROVE  xbee.noticed = FALSE
BY DEF Dialogue, Listening, XBees

\* An answer leaves the XBee as it is, but for its late answers.
LEMMA AnswerXBee ==
  ASSUME NEW x \in XBees, NEW text \in Seq(Byte), Answer(x, text)
  PROVE  /\ xbee'.mode = x.mode /\ xbee'.noticed = x.noticed /\ xbee'.apn = x.apn
         /\ xbee'.set = x.set /\ xbee'.saved = x.saved
         /\ \/ line' = line \o Plain(text) /\ xbee'.late = x.late
            \/ line' = line /\ xbee'.late = x.late \o text
BY DEF Answer, XBees

LEMMA EffectXBee ==
  ASSUME xbee \in XBees, NEW c
  PROVE  /\ Effect(c).noticed = xbee.noticed /\ Effect(c).late = xbee.late
         /\ Effect(c).mode = IF c = "CN" THEN "leaving" ELSE xbee.mode
         /\ Effect(c).apn = IF c = "AN-" THEN Dash ELSE xbee.apn
         /\ Effect(c).saved = IF c = "WR" THEN xbee.set ELSE xbee.saved
         /\ Effect(c).set.ap = CASE c = "RE" -> "transparent"
                                 [] c = "AP" -> task.job
                                 [] OTHER -> xbee.set.ap
         /\ Effect(c).set.bd = CASE c = "RE" -> 9600
                                 [] c = "BD" -> Target
                                 [] OTHER -> xbee.set.bd
BY DEF Effect, Fresh, XBees, Registers

LEMMA CommandsLemma ==
  /\ Len(Commands("APN")) = 3
  /\ Commands("APN")[1] = "AN" /\ Commands("APN")[2] = "AN-" /\ Commands("APN")[3] = "WR"
  /\ \A job \in {"BYPASS", "API"} :
       /\ Len(Commands(job)) = 5
       /\ Commands(job)[1] = "RE" /\ Commands(job)[2] = "AP" /\ Commands(job)[3] = "CP"
       /\ Commands(job)[4] = "BD" /\ Commands(job)[5] = "WR"
BY DEF Commands

LEMMA StepCases ==
  ASSUME task \in Tasks, task.step \in 1 .. Len(Commands(task.job))
  PROVE  \/ /\ task.job = "APN" /\ Len(Commands(task.job)) = 3
            /\ \/ task.step = 1 /\ Cmd = "AN"
               \/ task.step = 2 /\ Cmd = "AN-"
               \/ task.step = 3 /\ Cmd = "WR"
         \/ /\ task.job \in {"BYPASS", "API"} /\ task.job # "APN" /\ Len(Commands(task.job)) = 5
            /\ \/ task.step = 1 /\ Cmd = "RE"
               \/ task.step = 2 /\ Cmd = "AP"
               \/ task.step = 3 /\ Cmd = "CP"
               \/ task.step = 4 /\ Cmd = "BD"
               \/ task.step = 5 /\ Cmd = "WR"
<1>1. task.job \in {"BYPASS", "API", "APN"}
  BY DEF Tasks
<1>2. CASE task.job = "APN"
  <2>1. task.step \in 1 .. 3
    BY <1>2, CommandsLemma
  <2> QED
    BY <1>2, <2>1, CommandsLemma DEF Cmd
<1>3. CASE task.job # "APN"
  <2>1. task.job \in {"BYPASS", "API"}
    BY <1>1, <1>3
  <2>2. task.step \in 1 .. 5
    BY <2>1, CommandsLemma
  <2> QED
    BY <1>3, <2>1, <2>2, CommandsLemma DEF Cmd
<1> QED
  BY <1>2, <1>3

LEMMA LastCommand ==
  ASSUME task \in Tasks, task.step = Len(Commands(task.job))
  PROVE  Cmd = "WR"
<1>1. CASE task.job = "APN"
  BY <1>1, CommandsLemma DEF Cmd
<1>2. CASE task.job # "APN"
  <2>1. task.job \in {"BYPASS", "API"}
    BY <1>2 DEF Tasks
  <2> QED
    BY <2>1, CommandsLemma DEF Cmd
<1> QED
  BY <1>1, <1>2

\* A command that is obeyed is done.
LEMMA DoneStep ==
  ASSUME task \in Tasks, xbee \in XBees, task.step \in 1 .. Len(Commands(task.job)),
         Done(task.step - 1), task'.job = task.job, task'.step = task.step,
         xbee'.apn = Effect(Cmd).apn, xbee'.set = Effect(Cmd).set,
         xbee'.saved = Effect(Cmd).saved
  PROVE  Done(task.step)'
<1>1. CASE task.job = "APN"
  <2>1. xbee'.apn = IF Cmd = "AN-" THEN Dash ELSE xbee.apn
    BY EffectXBee
  <2>2. \/ task.step = 1
        \/ task.step = 2 /\ Cmd = "AN-"
        \/ task.step = 3 /\ xbee.apn = Dash
    <3>1. task.step = 3 => xbee.apn = Dash
      BY <1>1 DEF Done
    <3> QED
      BY <1>1, <3>1, StepCases
  <2>3. task.step >= 2 => xbee'.apn = Dash
    BY <2>1, <2>2
  <2> QED
    BY <1>1, <2>3 DEF Done
<1>2. CASE task.job # "APN"
  <2> DEFINE s == xbee.set
             v == xbee.saved
  <2>1. /\ xbee'.saved = IF Cmd = "WR" THEN s ELSE v
        /\ xbee'.set.ap = CASE Cmd = "RE" -> "transparent" [] Cmd = "AP" -> task.job [] OTHER -> s.ap
        /\ xbee'.set.bd = CASE Cmd = "RE" -> 9600 [] Cmd = "BD" -> Target [] OTHER -> s.bd
    BY EffectXBee
  <2>2. /\ task.step - 1 >= 2 => s.ap = task.job
        /\ task.step - 1 >= 4 => s.bd = Target
    BY <1>2 DEF Done
  <2> HIDE DEF s, v
  <2>3. \/ task.step = 1 /\ Cmd = "RE"
        \/ task.step = 2 /\ Cmd = "AP"
        \/ task.step = 3 /\ Cmd = "CP"
        \/ task.step = 4 /\ Cmd = "BD"
        \/ task.step = 5 /\ Cmd = "WR"
    BY SMTT(30), <1>2, StepCases
  <2>4. /\ task.step >= 2 => xbee'.set.ap = task.job
        /\ task.step >= 4 => xbee'.set.bd = Target
        /\ task.step >= 5 => xbee'.saved.ap = task.job /\ xbee'.saved.bd = Target
    BY <2>1, <2>2, <2>3
  <2> QED
    BY <1>2, <2>4 DEF Done
<1> QED
  BY <1>1, <1>2

\* When the last command is done the job is.
LEMMA DoneLast ==
  ASSUME task \in Tasks, task.step = Len(Commands(task.job)), Done(task.step)
  PROVE  Result
<1>1. task.step = IF task.job = "APN" THEN 3 ELSE 5
  <2>1. task.job \in {"BYPASS", "API", "APN"}
    BY DEF Tasks
  <2>2. Len(Commands(task.job)) = IF task.job = "APN" THEN 3 ELSE 5
    BY <2>1, CommandsLemma
  <2> QED
    BY <2>2
<1>2. CASE task.job = "APN"
  <2>1. task.step >= 2
    BY <1>1, <1>2
  <2> QED
    BY <1>2, <2>1 DEF Done, Result
<1>3. CASE task.job # "APN"
  <2>1. task.step >= 5
    BY <1>1, <1>3
  <2> QED
    BY <1>3, <2>1 DEF Done, Result
<1> QED
  BY <1>2, <1>3

LEMMA DashName == Dash \in Seq(Byte \ {CR})
<1>1. 45 \in Byte \ {CR}
  BY DEF Byte, CR
<1> DEFINE k == 45
<1> HIDE DEF k
<1>2. <<k>> \in Seq(Byte \ {CR})
  BY <1>1 DEF k
<1> QED
  BY <1>2 DEF k, Dash

\* What a command leaves in the XBee.
AskedPost(c) ==
  /\ NameOK' /\ xbee'.noticed = xbee.noticed
  /\ \/ /\ xbee.mode = "command" /\ xbee'.mode = Effect(c).mode
        /\ xbee'.apn = Effect(c).apn /\ xbee'.set = Effect(c).set
        /\ xbee'.saved = Effect(c).saved
        /\ \/ line' = line \o Plain(Said(c)) /\ xbee'.late = xbee.late
           \/ line' = line /\ xbee'.late = xbee.late \o Said(c)
     \/ /\ xbee.mode = "command" /\ xbee' = xbee
        /\ line' = line \o Plain(ERROR \o <<CR>>)
     \/ xbee' = xbee /\ (xbee.mode # "command" \/ port.baud # 9600)

LEMMA AskedXBee ==
  ASSUME TypeInv, NameOK, NEW c, Asked(c)
  PROVE  AskedPost(c)
<1>0. xbee \in XBees /\ task \in Tasks
  BY DEF TypeInv, TaskTypes
<1>1. CASE xbee.mode = "command" /\ Answer(Effect(c), Said(c))
  <2>1. Effect(c) \in XBees
    BY <1>0, EffectTypes
  <2>2. Said(c) \in Seq(Byte)
    <3>1. xbee.apn \in Seq(Byte)
      BY <1>0 DEF XBees
    <3>2. xbee.apn \o <<CR>> \in Seq(Byte)
      BY <3>1, TextLemma, ConcatSeq
    <3> QED
      BY <3>2, TextLemma DEF Said
  <2>3. /\ Effect(c).noticed = xbee.noticed /\ Effect(c).late = xbee.late
        /\ Effect(c).apn = IF c = "AN-" THEN Dash ELSE xbee.apn
    BY <1>0, EffectXBee
  <2>4. /\ xbee'.mode = Effect(c).mode /\ xbee'.noticed = Effect(c).noticed
        /\ xbee'.apn = Effect(c).apn /\ xbee'.set = Effect(c).set /\ xbee'.saved = Effect(c).saved
        /\ \/ line' = line \o Plain(Said(c)) /\ xbee'.late = Effect(c).late
           \/ line' = line /\ xbee'.late = Effect(c).late \o Said(c)
    BY <1>1, <2>1, <2>2, AnswerXBee
  <2>5. xbee'.apn \in Seq(Byte \ {CR})
    BY <2>3, <2>4, DashName DEF NameOK
  <2> QED
    BY <1>1, <2>3, <2>4, <2>5 DEF NameOK, AskedPost
<1>2. CASE xbee.mode = "command" /\ xbee' = xbee /\ line' = line \o Plain(ERROR \o <<CR>>)
  BY <1>2 DEF NameOK, AskedPost
<1>3. CASE xbee' = xbee /\ (xbee.mode # "command" \/ port.baud # 9600)
  BY <1>3 DEF NameOK, AskedPost
<1>4. \/ xbee.mode = "command" /\ Answer(Effect(c), Said(c))
      \/ xbee.mode = "command" /\ xbee' = xbee /\ line' = line \o Plain(ERROR \o <<CR>>)
      \/ xbee' = xbee /\ (xbee.mode # "command" \/ port.baud # 9600)
  BY DEF Asked
<1>5. xbee.mode = "command" /\ Answer(Effect(c), Said(c)) => AskedPost(c)
  BY <1>1
<1>6. xbee.mode = "command" /\ xbee' = xbee /\ line' = line \o Plain(ERROR \o <<CR>>) => AskedPost(c)
  BY <1>2
<1>7. xbee' = xbee /\ (xbee.mode # "command" \/ port.baud # 9600) => AskedPost(c)
  BY <1>3
<1> QED
  BY SMTT(30), <1>4, <1>5, <1>6, <1>7

LEMMA PendingNow ==
  ASSUME NEW text \in Seq(Byte), task'.buff = << >>, rx' = << >>,
         \/ line' = Plain(text) /\ xbee'.late = << >>
         \/ line' = << >> /\ xbee'.late = text
  PROVE  Pending' = text
<1>1. Bytes(rx') = << >> /\ << >> \o << >> = << >>
  BY EmptyTexts
<1>2. Bytes(line') \o xbee'.late = text
  BY BytesPlain, EmptyTexts
<1>3. (task'.buff \o Bytes(rx')) \o (Bytes(line') \o xbee'.late) = text
  BY <1>1, <1>2, EmptyTexts
<1> QED
  BY <1>3 DEF Pending, Bytes

LEMMA CleanText ==
  ASSUME NEW a \in Seq(Byte \ {CR})
  PROVE  a \in Seq(Byte) /\ \A i \in 1 .. Len(a) : a[i] # CR
<1>1. Len(a) \in Nat /\ a \in [1 .. Len(a) -> Byte \ {CR}]
  BY LenProperties
<1>2. \A i \in 1 .. Len(a) : a[i] \in Byte /\ a[i] # CR
  BY <1>1
<1>3. a \in [1 .. Len(a) -> Byte]
  BY <1>1, <1>2
<1> QED
  BY <1>1, <1>2, <1>3, SeqDef

\* The line that is read is the line that was pending, and is all there was.
LEMMA LineText ==
  ASSUME TypeInv, Reads, ReadResponse.ret = 0, NEW a \in Seq(Byte \ {CR}), Pending = a \o <<CR>>
  PROVE  rx' = << >> /\ line = << >> /\ xbee.late = << >> /\ ReadResponse.text = a
<1> DEFINE b == task.buff
           r == Bytes(rx)
           l == Bytes(line)
           t == xbee.late
           m == Min(Returns)
<1>0. /\ rx \in Seq(Cell) /\ line \in Seq(Cell) /\ b \in Seq(Byte) /\ t \in Seq(Byte)
      /\ task \in Tasks /\ Len(task.buff) < BuffSize
  BY DEF TypeInv, LineTypes, TaskTypes, Tasks, XBees
<1>1. /\ m \in Returns /\ ReadResponse.read = m /\ ReadResponse.text = Text(m - 1)
  BY <1>0, ReadLemma DEF ENOSPC, EAGAIN
<1>2. /\ Len(rx) \in Nat /\ DOMAIN rx = 1 .. Len(rx)
  BY <1>0, LenProperties
<1>3. m \in 1 .. Len(rx) /\ rx[m].byte = CR
  BY <1>1, <1>2 DEF Returns
<1> HIDE DEF m
<1>4. r \in Seq(Byte) /\ Len(r) = Len(rx) /\ \A i \in 1 .. Len(rx) : r[i] = rx[i].byte
  BY <1>0, BytesType
<1>5. l \in Seq(Byte) /\ Len(l) = Len(line)
  BY <1>0, BytesType
<1>6. a \in Seq(Byte) /\ \A i \in 1 .. Len(a) : a[i] # CR
  BY CleanText
<1>7. PICK p : p = Pending
  OBVIOUS
<1>8. Splits(p, b, r, l, t) /\ IsLine(p, a)
  BY <1>7 DEF Pending, Splits, IsLine
<1>9. Len(b) \in Nat /\ Len(a) \in Nat
  BY <1>0, <1>6, LenProperties
<1> HIDE DEF b, r, l, t
<1>10. m \in 1 .. Len(r) /\ r[m] = CR
  BY <1>3, <1>4
<1>11. /\ Len(r) = m /\ Len(l) = 0 /\ Len(t) = 0
       /\ Len(a) = Len(b) + (m - 1)
       /\ \A i \in 1 .. Len(b) : a[i] = b[i]
       /\ \A i \in 1 .. m - 1 : a[Len(b) + i] = r[i]
  <2>1. Reading(p, b, r, l, t, a, m)
    BY <1>0, <1>4, <1>5, <1>6, <1>8, <1>10 DEF Reading
  <2> QED
    BY <2>1, LineRead
<1>12. rx' = << >>
  <2>1. rx' = SubSeq(rx, m + 1, Len(rx)) /\ m \in Nat /\ Len(rx) = m
    BY <1>1, <1>2, <1>3, <1>4, <1>11 DEF Reads
  <2>2. rx' \in Seq(Cell) /\ Len(rx') = 0
    BY <1>0, <2>1, DropLemma
  <2> QED
    BY <2>2, EmptySeq
<1>13. line = << >> /\ t = << >>
  BY <1>0, <1>5, <1>11, EmptySeq
<1>14. ReadResponse.text = a
  <2>1. PICK n \in 0 .. Len(rx) : n = m - 1
    BY <1>2, <1>3
  <2>2. /\ Text(n) \in Seq(Byte) /\ Len(Text(n)) = Len(b) + n
        /\ \A i \in 1 .. Len(b) : Text(n)[i] = b[i]
        /\ \A i \in 1 .. n : Text(n)[Len(b) + i] = rx[i].byte
    BY <1>0, BytesLemma DEF Text, b
  <2>3. \A i \in 1 .. n : a[Len(b) + i] = rx[i].byte
    <3> TAKE i \in 1 .. n
    <3>1. i \in 1 .. m - 1 /\ i \in 1 .. Len(rx)
      BY <1>2, <1>3, <2>1
    <3> QED
      BY <1>4, <1>11, <3>1
  <2>4. Len(Text(n)) = Len(a)
    BY <1>11, <2>1, <2>2
  <2>5. \A i \in 1 .. Len(a) : Text(n)[i] = a[i]
    <3> TAKE i \in 1 .. Len(a)
    <3>1. CASE i <= Len(b)
      <4>1. i \in 1 .. Len(b)
        BY <1>9, <3>1
      <4> QED
        BY <1>11, <2>2, <4>1
    <3>2. CASE ~(i <= Len(b))
      <4>1. PICK k \in 1 .. n : i = Len(b) + k
        <5>1. i - Len(b) \in 1 .. n /\ i = Len(b) + (i - Len(b))
          BY <1>2, <1>3, <1>9, <1>11, <2>1, <3>2
        <5> QED
          BY <5>1
      <4> QED
        BY <2>2, <2>3, <4>1
    <3> QED
      BY <3>1, <3>2
  <2>6. Text(n) = a
    BY <1>6, <2>2, <2>4, <2>5, SeqEqual
  <2> QED
    BY <1>1, <2>1, <2>6
<1> QED
  BY <1>12, <1>13, <1>14 DEF t

-----------------------------------------------------------------------------
(* Its steps                                                                 *)

LEMMA SaidText ==
  ASSUME NameOK, NEW c
  PROVE  /\ Said(c) \in Seq(Byte)
         /\ \E a \in Seq(Byte \ {CR}) :
              Said(c) = a \o <<CR>> /\ a = (IF c = "AN" THEN xbee.apn ELSE OK)
<1>1. OK \in Seq(Byte \ {CR})
  <2>1. 79 \in Byte \ {CR} /\ 75 \in Byte \ {CR}
    BY DEF Byte, CR
  <2> DEFINE x == 79
             y == 75
  <2> HIDE DEF x, y
  <2>2. x \in Byte \ {CR} /\ y \in Byte \ {CR}
    BY <2>1 DEF x, y
  <2>3. <<x, y>> \in Seq(Byte \ {CR})
    BY <2>2
  <2> QED
    BY <2>3 DEF x, y, OK
<1>2. PICK a \in Seq(Byte \ {CR}) : a = IF c = "AN" THEN xbee.apn ELSE OK
  BY <1>1 DEF NameOK
<1>3. Said(c) = a \o <<CR>>
  BY <1>2 DEF Said
<1>4. a \in Seq(Byte) /\ <<CR>> \in Seq(Byte)
  BY CleanText, TextLemma
<1>5. a \o <<CR>> \in Seq(Byte)
  BY <1>4, ConcatSeq
<1> QED
  BY <1>2, <1>3, <1>5

LEMMA ErrorText == ERROR \in Seq(Byte \ {CR}) /\ ERROR \o <<CR>> \in Seq(Byte) /\ ERROR # OK /\ ERROR # Dash
<1>1. 69 \in Byte \ {CR} /\ 82 \in Byte \ {CR} /\ 79 \in Byte \ {CR}
  BY DEF Byte, CR
<1> DEFINE x == 69
           y == 82
           z == 79
<1>2. x \in Byte \ {CR} /\ y \in Byte \ {CR} /\ z \in Byte \ {CR}
  BY <1>1
<1> HIDE DEF x, y, z
<1>3. <<x, y, y, z, y>> \in Seq(Byte \ {CR})
  BY <1>2
<1>4. ERROR \in Seq(Byte \ {CR})
  BY <1>3 DEF x, y, z, ERROR
<1>5. ERROR # OK /\ ERROR # Dash
  BY DEF ERROR, OK, Dash
<1> QED
  BY <1>4, <1>5, TextLemma

LEMMA SendDialogue ==
  ASSUME TypeInv, Dialogue, SendRequest
  PROVE  Dialogue'
<1>0. /\ task \in Tasks /\ xbee \in XBees /\ line \in Seq(Cell)
      /\ task.pc = "send" /\ task.step \in 1 .. Len(Commands(task.job)) /\ port.baud = 9600
      /\ xbee.noticed = FALSE /\ UNCHANGED <<rx, port>>
  BY SilentXBee DEF TypeInv, TaskTypes, LineTypes, SendRequest, Dialogue, Listening, loadVars
<1>1. /\ task'.pc = "reply" /\ task'.job = task.job /\ task'.step = task.step
      /\ task'.inStep = task.inStep /\ task'.buff = << >>
  BY <1>0 DEF SendRequest, Tasks
<1>2. AskedPost(Cmd)
  BY AskedXBee DEF SendRequest, Cmd, Dialogue
<1>3. NameOK' /\ xbee'.noticed = FALSE
  BY <1>0, <1>2 DEF AskedPost
<1>4. Listening'
  BY <1>0, <1>1, <1>3 DEF Listening
<1>5. ASSUME task.inStep
      PROVE  /\ xbee'.mode = "command"
             /\ \/ Pending' = Said(Cmd)' /\ Done(task.step)'
                \/ Pending' = ERROR \o <<CR>> /\ Done(task.step - 1)'
  <2>1. /\ xbee.mode = "command" /\ rx = << >> /\ line = << >> /\ xbee.late = << >>
        /\ Done(task.step - 1)
    BY <1>0, <1>5 DEF Dialogue, SendOK
  <2>2. rx' = << >>
    BY <1>0, <2>1
  <2>3. \A t \in Seq(Byte) : line \o Plain(t) = Plain(t) /\ xbee.late \o t = t
    BY <2>1, PlainLemma, EmptyTexts, ConcatEmptySeq
  <2>4. CASE /\ xbee.mode = "command" /\ xbee'.mode = Effect(Cmd).mode
             /\ xbee'.apn = Effect(Cmd).apn /\ xbee'.set = Effect(Cmd).set
             /\ xbee'.saved = Effect(Cmd).saved
             /\ \/ line' = line \o Plain(Said(Cmd)) /\ xbee'.late = xbee.late
                \/ line' = line /\ xbee'.late = xbee.late \o Said(Cmd)
    <3>1. PICK s \in Seq(Byte) : s = Said(Cmd)
      BY SaidText DEF Dialogue
    <3>2. \/ line' = Plain(s) /\ xbee'.late = << >>
          \/ line' = << >> /\ xbee'.late = s
      BY <2>1, <2>3, <2>4, <3>1
    <3>3. Pending' = s
      BY <1>1, <2>2, <3>2, PendingNow
    <3>4. Cmd' = Cmd
      BY <1>1 DEF Cmd
    <3>5. Said(Cmd)' = Said(Cmd)
      <4>1. Cmd = "AN" => xbee'.apn = xbee.apn
        BY <1>0, <2>4, EffectXBee
      <4> QED
        BY <3>4, <4>1 DEF Said
    <3>6. Done(task.step)'
      BY <1>0, <1>1, <2>1, <2>4, DoneStep
    <3>7. xbee'.mode = "command"
      <4>1. Cmd # "CN"
        BY <1>0, StepCases
      <4> QED
        BY <1>0, <2>4, <4>1, EffectXBee
    <3> QED
      BY <3>1, <3>3, <3>5, <3>6, <3>7
  <2>5. CASE xbee' = xbee /\ line' = line \o Plain(ERROR \o <<CR>>)
    <3>1. PICK s \in Seq(Byte) : s = ERROR \o <<CR>>
      BY ErrorText
    <3>2. line' = Plain(s) /\ xbee'.late = << >>
      BY <2>1, <2>3, <2>5, <3>1
    <3>3. Pending' = s
      BY <1>1, <2>2, <3>2, PendingNow
    <3>4. Done(task.step - 1)'
      BY <1>1, <2>1, <2>5 DEF Done
    <3> QED
      BY <2>1, <2>5, <3>1, <3>3, <3>4
  <2> QED
    BY <1>0, <1>2, <2>1, <2>4, <2>5 DEF AskedPost
<1>6. ReplyOK'
  BY <1>1, <1>5 DEF ReplyOK
<1>7. SendOK' /\ ExitOK'
  BY <1>1 DEF SendOK, ExitOK
<1> QED
  BY <1>3, <1>4, <1>6, <1>7 DEF Dialogue

\* What is read as a reply is the whole of it.
LEMMA ReplyText ==
  ASSUME TypeInv, Dialogue, task.pc = "reply", task.inStep, Reads, ReadResponse.ret = 0
  PROVE  /\ rx' = << >> /\ line = << >> /\ xbee.late = << >> /\ xbee.mode = "command"
         /\ \/ ReadResponse.text = ERROR /\ Done(task.step - 1)
            \/ /\ ReadResponse.text = (IF Cmd = "AN" THEN xbee.apn ELSE OK)
               /\ Done(task.step)
<1>1. /\ xbee.mode = "command"
      /\ \/ Pending = Said(Cmd) /\ Done(task.step)
         \/ Pending = ERROR \o <<CR>> /\ Done(task.step - 1)
  BY DEF Dialogue, ReplyOK
<1>2. CASE Pending = ERROR \o <<CR>> /\ Done(task.step - 1)
  <2>1. ERROR \in Seq(Byte \ {CR})
    BY ErrorText
  <2>2. rx' = << >> /\ line = << >> /\ xbee.late = << >> /\ ReadResponse.text = ERROR
    BY <1>2, <2>1, LineText
  <2> QED
    BY <1>1, <1>2, <2>2
<1>3. CASE Pending = Said(Cmd) /\ Done(task.step)
  <2>1. PICK a \in Seq(Byte \ {CR}) :
          Said(Cmd) = a \o <<CR>> /\ a = (IF Cmd = "AN" THEN xbee.apn ELSE OK)
    BY SaidText DEF Dialogue
  <2>2. Pending = a \o <<CR>>
    BY <1>3, <2>1
  <2>3. rx' = << >> /\ line = << >> /\ xbee.late = << >> /\ ReadResponse.text = a
    BY <2>2, LineText
  <2> QED
    BY <1>1, <1>3, <2>1, <2>3
<1> QED
  BY <1>1, <1>2, <1>3

LEMMA ReplyDialogue ==
  ASSUME TypeInv, Dialogue, Reply
  PROVE  Dialogue'
<1> DEFINE text == ReadResponse.text
           ret == ReadResponse.ret
           last == task.step = Len(Commands(task.job))
           reads == Cmd = "AN"
           r == IF reads THEN ret ELSE getOKResponse(ret, text)
<1>0. /\ task \in Tasks /\ xbee \in XBees
      /\ task.pc = "reply" /\ task.step \in 1 .. Len(Commands(task.job)) /\ port.baud = 9600
      /\ xbee.noticed = FALSE /\ UNCHANGED <<line, port, xbee>> /\ Reads
      /\ Replied(ret, text) /\ NameOK
  BY SilentXBee DEF TypeInv, TaskTypes, Reply, Responds, Reads, Replied, Dialogue, Listening
<1>1. ret = 0 /\ task.inStep =>
        /\ rx' = << >> /\ line = << >> /\ xbee.late = << >> /\ xbee.mode = "command"
        /\ \/ text = ERROR /\ Done(task.step - 1)
           \/ text = (IF Cmd = "AN" THEN xbee.apn ELSE OK) /\ Done(task.step)
  BY <1>0, ReplyText
<1>2. r = 0 => ret = 0 /\ (reads \/ text = OK)
  BY DEF getOKResponse, EIO
<1>3. \/ \E e \in Int : e < 0 /\ ErrExit(e)
      \/ r = 0 /\ reads /\ text = Dash /\ ErrExit(1)
      \/ r = 0 /\ last /\ ErrExit(0)
      \/ /\ r = 0 /\ ~last /\ ~(reads /\ text = Dash)
         /\ task' = [task EXCEPT !.pc = "send", !.step = @ + 1]
  <2>1. ret \in Int
    BY ReadTypes DEF TypeInv, TaskTypes, ENOSPC, EAGAIN
  <2>2. r \in Int
    BY <2>1 DEF getOKResponse, EIO
  <2> HIDE DEF r
  <2>3. \/ r < 0 /\ ErrExit(r)
        \/ r = 0 /\ reads /\ text = Dash /\ ErrExit(1)
        \/ r = 0 /\ last /\ ErrExit(0)
        \/ /\ r = 0 /\ ~last /\ ~(reads /\ text = Dash)
           /\ task' = [task EXCEPT !.pc = "send", !.step = @ + 1]
    BY <1>0 DEF Replied, r, Cmd
  <2> QED
    BY <2>2, <2>3
<1> HIDE DEF r, text, ret
<1>4. ASSUME NEW e \in Int, ErrExit(e), e >= 0 /\ task.inStep => Result
      PROVE  Dialogue'
  <2>1. /\ task'.pc = "exit" /\ task'.job = task.job /\ task'.inStep = task.inStep /\ task'.ret = e
    BY <1>0, <1>4 DEF ErrExit, Tasks
  <2>2. task'.pc \notin {"send", "reply"} /\ NameOK' /\ xbee'.noticed = FALSE /\ port'.baud = 9600
    BY <1>0, <2>1 DEF NameOK
  <2>3. task'.inStep /\ task'.ret >= 0 => Result'
    BY <1>0, <1>4, <2>1 DEF Result
  <2> QED
    BY <2>2, <2>3, DialogueRest
<1>5. CASE \E e \in Int : e < 0 /\ ErrExit(e)
  <2>1. PICK e \in Int : e < 0 /\ ErrExit(e)
    BY <1>5
  <2>2. ~(e >= 0)
    BY <2>1
  <2> QED
    BY <1>4, <2>1, <2>2
<1>6. CASE r = 0 /\ reads /\ text = Dash /\ ErrExit(1)
  <2>1. task.inStep => Result
    <3> SUFFICES ASSUME task.inStep PROVE Result
      OBVIOUS
    <3>1. xbee.apn = Dash
      BY <1>1, <1>2, <1>6, ErrorText
    <3>2. task.job = "APN"
      BY <1>0, <1>6, StepCases
    <3> QED
      BY <3>1, <3>2 DEF Result
  <2> QED
    BY <1>4, <1>6, <2>1
<1>7. CASE r = 0 /\ last /\ ErrExit(0)
  <2>1. task.inStep => Result
    <3> SUFFICES ASSUME task.inStep PROVE Result
      OBVIOUS
    <3>1. ~reads
      <4>1. task.step = Len(Commands(task.job)) => Cmd = "WR"
        BY <1>0, LastCommand
      <4> QED
        BY <1>7, <4>1
    <3>2. Done(task.step)
      BY <1>1, <1>2, <1>7, <3>1, ErrorText
    <3> QED
      BY <1>0, <1>7, <3>2, DoneLast
  <2> QED
    BY <1>4, <1>7, <2>1
<1>8. CASE /\ r = 0 /\ ~last /\ ~(reads /\ text = Dash)
           /\ task' = [task EXCEPT !.pc = "send", !.step = @ + 1]
  <2> DEFINE k == task.step + 1
  <2>1. k \in Nat /\ k \in 1 .. Len(Commands(task.job)) /\ k - 1 = task.step
    <3>1. task.step \in Nat
      BY <1>0 DEF Tasks
    <3>2. Len(Commands(task.job)) \in Nat
      BY CommandsLemma, <1>0 DEF Tasks
    <3> QED
      BY <1>0, <1>8, <3>1, <3>2
  <2>2. task' = [task EXCEPT !.pc = "send", !.step = k]
    BY <1>8
  <2> HIDE DEF k
  <2>3. /\ task'.pc = "send" /\ task'.job = task.job /\ task'.step = k
        /\ task'.inStep = task.inStep
    BY <1>0, <2>2 DEF Tasks
  <2>4. Listening'
    BY <1>0, <2>1, <2>3 DEF Listening
  <2>5. ASSUME task.inStep
        PROVE  /\ xbee'.mode = "command" /\ rx' = << >> /\ line' = << >> /\ xbee'.late = << >>
               /\ Done(task.step - 1)'
    <3>1. /\ rx' = << >> /\ line = << >> /\ xbee.late = << >> /\ xbee.mode = "command"
          /\ \/ text = ERROR /\ Done(task.step - 1)
             \/ text = (IF Cmd = "AN" THEN xbee.apn ELSE OK) /\ Done(task.step)
      BY <1>1, <1>2, <1>8, <2>5
    <3>2. Done(task.step)
      <4>1. CASE reads
        <5>1. task.job = "APN" /\ task.step = 1
          BY <1>0, <4>1, StepCases
        <5> QED
          BY <5>1 DEF Done
      <4>2. CASE ~reads
        BY <1>2, <1>8, <3>1, <4>2, ErrorText
      <4> QED
        BY <4>1, <4>2
    <3>3. Done(task.step - 1)'
      BY <1>0, <2>1, <2>3, <3>2 DEF Done
    <3> QED
      BY <1>0, <3>1, <3>3
  <2>6. SendOK'
    BY <2>3, <2>5 DEF SendOK
  <2>7. ReplyOK' /\ ExitOK' /\ NameOK'
    BY <1>0, <2>3 DEF ReplyOK, ExitOK, NameOK
  <2> QED
    BY <2>4, <2>6, <2>7 DEF Dialogue
<1> QED
  BY <1>3, <1>5, <1>6, <1>7, <1>8

\* enterCommandMode comes to its end.
LEMMA EnteredDialogue ==
  ASSUME TypeInv, Dialogue, task.pc = "enter", NEW ret \in Int, NEW inStep \in BOOLEAN,
         Entered(ret, inStep), ret >= 0 \/ ~inStep,
         inStep => /\ xbee.mode = "command" /\ rx' = << >> /\ line' = << >>
                   /\ xbee.late = << >>
  PROVE  Dialogue'
<1>0. /\ task \in Tasks /\ xbee \in XBees /\ port \in [baud : Nat, break : BOOLEAN]
      /\ port.baud = 9600 /\ NameOK
  BY DEF TypeInv, TaskTypes, Dialogue, Listening
<1>1. /\ task'.pc = (IF ret < 0 THEN "exit" ELSE "send") /\ task'.job = task.job
      /\ task'.step = 1 /\ task'.inStep = inStep /\ task'.ret = ret
  BY <1>0 DEF Entered, Tasks
<1>2. port'.baud = 9600
  BY <1>0 DEF Entered
<1>3. /\ xbee'.noticed = FALSE /\ xbee'.mode = xbee.mode /\ xbee'.late = xbee.late
      /\ xbee'.apn = xbee.apn
  BY <1>0 DEF Entered, XBees
<1>4. 1 \in 1 .. Len(Commands(task.job))
  BY <1>0, CommandsLemma DEF Tasks
<1>5. Listening'
  BY <1>1, <1>2, <1>3, <1>4 DEF Listening
<1>6. SendOK'
  <2>1. Done(task.step - 1)'
    BY <1>1 DEF Done
  <2> QED
    BY <1>1, <1>3, <2>1 DEF SendOK
<1>7. ReplyOK'
  BY <1>1 DEF ReplyOK
<1>8. ExitOK'
  <2>1. task'.pc \in {"exit", "left", "wait", "flush"} => ret < 0
    BY <1>1
  <2>2. ret < 0 => ~(ret >= 0)
    OBVIOUS
  <2> QED
    BY <1>1, <2>1, <2>2 DEF ExitOK
<1>9. NameOK'
  BY <1>0, <1>3 DEF NameOK
<1> QED
  BY <1>5, <1>6, <1>7, <1>8, <1>9 DEF Dialogue

LEMMA TurnDialogue ==
  ASSUME TypeInv, Dialogue, task.pc = "enter", NEW ret \in Int, NEW seconds \in 0 .. 2,
         Turn(ret, seconds)
  PROVE  Dialogue'
<1>1. CASE Entered(ret, FALSE)
  BY <1>1, EnteredDialogue
<1>2. CASE /\ task' = [task EXCEPT !.clock = @ + seconds, !.buff = << >>]
           /\ UNCHANGED <<port, xbee>>
  <2>1. task'.pc = "enter"
    BY <1>2 DEF TypeInv, TaskTypes, Tasks
  <2>2. NameOK' /\ port'.baud = 9600
    BY <1>2 DEF Dialogue, NameOK, Listening
  <2>3. xbee'.noticed => xbee'.mode = "command"
    BY <1>2 DEF Dialogue, Listening
  <2> QED
    BY <2>1, <2>2, <2>3, DialogueRest
<1> QED
  BY <1>1, <1>2 DEF Turn

LEMMA EnterDialogue ==
  ASSUME TypeInv, Dialogue, EnterRead \/ EnterTimeout
  PROVE  Dialogue'
<1>1. CASE EnterTimeout
  <2>1. ETIMEDOUT \in Int /\ 2 \in 0 .. 2
    BY DEF ETIMEDOUT
  <2> QED
    BY <1>1, <2>1, TurnDialogue DEF EnterTimeout
<1>2. CASE EnterRead
  <2> DEFINE text == ReadResponse.text
             good == rx' = << >> /\ line = << >> /\ xbee.late = << >> /\ xbee.noticed
  <2>0. task.pc = "enter" /\ UNCHANGED line
    BY <1>2 DEF EnterRead, Responds, Reads
  <2>1. CASE Entered(0, good)
    <3>1. good \in BOOLEAN
      BY DEF TypeInv, TaskTypes, XBees
    <3>2. good => /\ xbee.mode = "command" /\ rx' = << >> /\ line' = << >> /\ xbee.late = << >>
      BY <2>0 DEF Dialogue, Listening
    <3> HIDE DEF good
    <3>3. 0 \in Int /\ 0 >= 0
      OBVIOUS
    <3> QED
      BY <2>0, <2>1, <3>1, <3>2, <3>3, EnteredDialogue
  <2>2. CASE \E seconds \in 0 .. 2 :
               Turn(IF Len(text) < 2 THEN ETIMEDOUT ELSE Len(text), seconds)
    <3>1. (IF Len(text) < 2 THEN ETIMEDOUT ELSE Len(text)) \in Int
      <4>1. text \in Seq(Byte)
        BY ReadTypes DEF TypeInv, TaskTypes
      <4>2. Len(text) \in Nat
        BY <4>1, LenProperties
      <4> QED
        BY <4>2 DEF ETIMEDOUT
    <3>2. PICK n \in Int : n = IF Len(text) < 2 THEN ETIMEDOUT ELSE Len(text)
      BY <3>1
    <3>3. PICK seconds \in 0 .. 2 : Turn(n, seconds)
      BY <2>2, <3>2
    <3> QED
      BY <2>0, <3>3, TurnDialogue
  <2> QED
    BY <1>2, <2>1, <2>2 DEF EnterRead
<1> QED
  BY <1>1, <1>2

\* On the way out the XBee keeps what it has.
LEMMA OutDialogue ==
  ASSUME TypeInv, Dialogue,
         ReplyTimeout \/ ExitRequest \/ ExitReply \/ ExitTimeout \/ ExitWait
  PROVE  Dialogue'
<1>0. /\ task \in Tasks /\ xbee \in XBees /\ NameOK
      /\ task.pc \in {"reply", "exit", "left", "wait"}
      /\ port.baud = 9600 /\ UNCHANGED port /\ xbee.noticed = FALSE
  <2>1. task.pc \in {"reply", "exit", "left", "wait"}
    BY DEF ReplyTimeout, ExitRequest, ExitReply, ExitTimeout, ExitWait, Responds
  <2>2. UNCHANGED port
    BY DEF ReplyTimeout, ExitRequest, ExitReply, ExitTimeout, ExitWait, Left
  <2> QED
    BY <2>1, <2>2, SilentXBee DEF TypeInv, TaskTypes, Dialogue, Listening
<1>1. CASE ReplyTimeout
  <2>1. task'.pc = "exit" /\ ~(task'.ret >= 0)
    BY <1>0, <1>1 DEF ReplyTimeout, ErrExit, ETIMEDOUT, Tasks
  <2>2. NameOK' /\ xbee'.noticed = FALSE
    BY <1>0, <1>1 DEF ReplyTimeout, NameOK
  <2> QED
    BY <1>0, <2>1, <2>2, DialogueRest
<1>2. CASE ~ReplyTimeout
  <2>1. /\ task.pc \in {"exit", "left", "wait"} /\ task'.pc \in {"left", "wait", "flush"}
        /\ task'.job = task.job /\ task'.inStep = task.inStep /\ task'.ret = task.ret
    <3>1. CASE ExitRequest
      BY <1>0, <3>1 DEF ExitRequest, Tasks
    <3>2. CASE ExitReply \/ ExitTimeout
      <4>1. \E pc \in {"wait", "flush"} : task' = [task EXCEPT !.buff = << >>, !.pc = pc]
        <5>1. \A ret : \A text : Left(ret, text) =>
                \E pc \in {"wait", "flush"} : task' = [task EXCEPT !.buff = << >>, !.pc = pc]
          BY DEF Left
        <5> QED
          BY <3>2, <5>1 DEF ExitReply, ExitTimeout
      <4>2. task.pc = "left"
        BY <3>2 DEF ExitReply, ExitTimeout, Responds
      <4> QED
        BY <1>0, <4>1, <4>2 DEF Tasks
    <3>3. CASE ExitWait
      BY <1>0, <3>3 DEF ExitWait, Tasks
    <3> QED
      BY <1>2, <3>1, <3>2, <3>3
  <2>2. /\ NameOK' /\ xbee'.noticed = FALSE
        /\ xbee'.apn = xbee.apn /\ xbee'.saved = xbee.saved
    <3>1. CASE ExitRequest
      <4>1. AskedPost("CN")
        BY <1>0, <3>1, AskedXBee DEF ExitRequest
      <4>2. Effect("CN").apn = xbee.apn /\ Effect("CN").saved = xbee.saved
        BY <1>0, EffectXBee
      <4> QED
        BY <1>0, <4>1, <4>2 DEF AskedPost
    <3>2. CASE ~ExitRequest
      <4>1. UNCHANGED xbee
        BY <1>2, <3>2 DEF ExitReply, ExitTimeout, ExitWait, Left
      <4> QED
        BY <1>0, <4>1 DEF NameOK
    <3> QED
      BY <3>1, <3>2
  <2>3. task'.inStep /\ task'.ret >= 0 => Result'
    <3>1. task.inStep /\ task.ret >= 0 => Result
      BY <2>1 DEF Dialogue, ExitOK
    <3> QED
      BY <2>1, <2>2, <3>1 DEF Result
  <2> QED
    BY <1>0, <2>1, <2>2, <2>3, DialogueRest
<1> QED
  BY <1>1, <1>2

\* Reading part of an answer moves it to the buffer.
LEMMA ReadMoreDialogue ==
  ASSUME TypeInv, Dialogue, ReadMore
  PROVE  Dialogue'
<1>0. /\ rx \in Seq(Cell) /\ task \in Tasks /\ xbee \in XBees /\ rx # << >>
      /\ Len(task.buff) < BuffSize /\ task.buff \in Seq(Byte)
      /\ UNCHANGED <<line, port, xbee>>
  BY DEF TypeInv, LineTypes, TaskTypes, ReadMore, Reads, Tasks
<1>1. ReadResponse.read = Len(rx) /\ ReadResponse.text = Text(Len(rx))
  BY <1>0, ReadLemma DEF ReadMore, EAGAIN, ENOSPC
<1>2. /\ task'.pc = task.pc /\ task'.job = task.job /\ task'.step = task.step
      /\ task'.inStep = task.inStep /\ task'.ret = task.ret
      /\ task'.buff = Text(Len(rx))
  BY <1>0, <1>1 DEF ReadMore, Tasks
<1>3. rx' = << >>
  <2>1. Len(rx) \in Nat /\ rx' = SubSeq(rx, Len(rx) + 1, Len(rx))
    BY <1>0, <1>1, LenProperties DEF ReadMore, Reads
  <2>2. PICK n \in Nat : n = Len(rx)
    BY <2>1
  <2>3. SubSeq(rx, n + 1, Len(rx)) \in Seq(Cell)
        /\ Len(SubSeq(rx, n + 1, Len(rx))) = IF n <= Len(rx) THEN Len(rx) - n ELSE 0
    BY <1>0, DropLemma
  <2>4. rx' \in Seq(Cell) /\ Len(rx') = 0
    BY <2>1, <2>2, <2>3
  <2> QED
    BY <2>4, EmptySeq
<1>4. Text(Len(rx)) = task.buff \o Bytes(rx)
  BY DEF Text, Bytes
<1>5. Pending' = Pending
  <2>1. PICK x \in Seq(Byte) : x = task.buff \o Bytes(rx)
    <3>1. Bytes(rx) \in Seq(Byte)
      BY <1>0, BytesType
    <3>2. task.buff \o Bytes(rx) \in Seq(Byte)
      BY <1>0, <3>1, ConcatSeq
    <3> QED
      BY <3>2
  <2>2. task'.buff = x
    BY <1>2, <1>4, <2>1
  <2>3. task'.buff \o Bytes(rx') = x
    BY <1>3, <2>2, EmptyTexts
  <2>4. (task'.buff \o Bytes(rx')) \o (Bytes(line') \o xbee'.late) = x \o (Bytes(line) \o xbee.late)
    BY <1>0, <2>3
  <2> QED
    BY <2>1, <2>4 DEF Pending, Bytes
<1> QED
  BY <1>0, <1>2, <1>5, DialogueKeep DEF SameTask, SameXBee

LEMMA LateDialogue ==
  ASSUME TypeInv, Dialogue, XBeeLate
  PROVE  Dialogue'
<1>0. /\ xbee \in XBees /\ xbee.late \in Seq(Byte) /\ line = << >> /\ xbee.late # << >>
      /\ line' = Plain(xbee.late) /\ UNCHANGED <<rx, task, port>>
  BY DEF TypeInv, TaskTypes, XBeeLate, XBees, loadVars
<1>1. SameXBee /\ xbee'.late = << >>
  BY <1>0 DEF XBeeLate, XBees, SameXBee
<1>2. Pending' = Pending
  <2>1. PICK t \in Seq(Byte) : t = xbee.late
    BY <1>0
  <2>2. Bytes(line') \o xbee'.late = t
    <3>1. line' = Plain(t)
      BY <1>0, <2>1
    <3>2. Bytes(line') = t
      BY <3>1, BytesPlain
    <3> QED
      BY <1>1, <3>2, EmptyTexts
  <2>3. Bytes(line) \o xbee.late = t
    BY <1>0, <2>1, EmptyTexts
  <2>4. (task'.buff \o Bytes(rx')) \o (Bytes(line') \o xbee'.late)
          = (task.buff \o Bytes(rx)) \o (Bytes(line) \o xbee.late)
    BY <1>0, <2>2, <2>3
  <2> QED
    BY <2>4 DEF Pending, Bytes
<1> QED
  BY <1>0, <1>1, <1>2, DialogueKeep DEF SameTask

LEMMA ArriveDialogue ==
  ASSUME TypeInv, Dialogue, Arrive
  PROVE  Dialogue'
<1>0. /\ rx \in Seq(Cell) /\ line \in Seq(Cell) /\ line # << >> /\ xbee \in XBees
      /\ task.buff \in Seq(Byte) /\ xbee.late \in Seq(Byte) /\ UNCHANGED <<task, port, xbee>>
  BY DEF TypeInv, LineTypes, TaskTypes, Tasks, XBees, Arrive
<1>1. ASSUME task.pc = "reply", task.inStep
      PROVE  Pending' = Pending
  <2>1. port.baud = XBeeBaud
    BY <1>1 DEF Dialogue, Listening, ReplyOK, XBeeBaud
  <2>2. rx' = Append(rx, Head(line)) /\ line' = Tail(line)
    BY <2>1 DEF Arrive, Receive
  <2>3. PICK h \in Cell, u \in Seq(Cell) :
          h = Head(line) /\ u = Tail(line) /\ Bytes(line) = <<h.byte>> \o Bytes(u)
    <3>1. Head(line) \in Cell /\ Tail(line) \in Seq(Cell)
          /\ Bytes(line) = <<Head(line).byte>> \o Bytes(Tail(line))
      BY <1>0, BytesHead
    <3> QED
      BY <3>1
  <2>4. Bytes(Append(rx, h)) = Bytes(rx) \o <<h.byte>>
    BY <1>0, BytesAppend
  <2>5. PICK b \in Seq(Byte), r \in Seq(Byte), c \in Byte, l \in Seq(Byte), t \in Seq(Byte) :
          b = task.buff /\ r = Bytes(rx) /\ c = h.byte /\ l = Bytes(u) /\ t = xbee.late
    <3>1. h.byte \in Byte
      BY DEF Cell
    <3>2. Bytes(rx) \in Seq(Byte) /\ Bytes(u) \in Seq(Byte)
      BY <1>0, BytesType
    <3> QED
      BY <1>0, <3>1, <3>2
  <2>6. (b \o (r \o <<c>>)) \o (l \o t) = (b \o r) \o ((<<c>> \o l) \o t)
    <3>1. PICK g \in Seq(Byte) : g = <<c>>
      <4>1. <<c>> \in Seq(Byte)
        OBVIOUS
      <4> QED
        BY <4>1
    <3>2. Moving(b, r, g, l, t)
      BY DEF Moving
    <3>3. Moved(b, r, g, l, t)
      BY <3>2, MoveLemma
    <3> QED
      BY <3>1, <3>3 DEF Moved
  <2>7. Bytes(rx') = r \o <<c>> /\ Bytes(line') = l /\ Bytes(line) = <<c>> \o l
    BY <2>2, <2>3, <2>4, <2>5
  <2>8. (task'.buff \o Bytes(rx')) \o (Bytes(line') \o xbee'.late)
          = (task.buff \o Bytes(rx)) \o (Bytes(line) \o xbee.late)
    BY <1>0, <2>5, <2>6, <2>7
  <2> QED
    BY <2>8 DEF Pending, Bytes
<1> QED
  BY <1>0, <1>1, DialogueKeep DEF SameTask, SameXBee

LEMMA XBeeDialogue ==
  ASSUME TypeInv, Dialogue, XBeeBreak \/ XBeeLeaves \/ XBeeSends
  PROVE  Dialogue'
<1>0. /\ task \in Tasks /\ xbee \in XBees /\ (port.break => task.pc \in {"break", "enter"})
      /\ NameOK /\ UNCHANGED <<task, port>> /\ (task.pc = "enter" => port.baud = 9600)
  BY DEF TypeInv, TaskTypes, Dialogue, Listening, XBeeBreak, XBeeLeaves, XBeeSends
<1>1. CASE XBeeBreak
  <2> DEFINE x == [xbee EXCEPT !.mode = "command", !.noticed = TRUE]
  <2>1. task.pc \in {"break", "enter"} /\ Answer(x, OK \o <<CR>>)
    BY <1>0, <1>1 DEF XBeeBreak
  <2>2. x \in XBees /\ x.mode = "command" /\ x.apn = xbee.apn
    <3>0. xbee \in XBees
      BY <1>0
    <3>1. x \in XBees
      BY <3>0 DEF XBees
    <3>2. x.mode = "command" /\ x.apn = xbee.apn
      BY <1>0 DEF XBees
    <3> QED
      BY <3>1, <3>2
  <2> HIDE DEF x
  <2>3. xbee'.mode = "command" /\ xbee'.apn = xbee.apn
    BY <2>1, <2>2, AnswerXBee, TextLemma
  <2>4. NameOK' /\ task'.pc \in {"break", "enter"}
    BY <1>0, <2>1, <2>3 DEF NameOK
  <2> QED
    BY <1>0, <2>3, <2>4, DialogueRest
<1>2. CASE XBeeLeaves
  <2>1. /\ xbee'.mode = "data" /\ xbee'.apn = xbee.apn /\ xbee'.saved = xbee.saved
        /\ xbee'.noticed = xbee.noticed
    BY <1>0, <1>2 DEF XBeeLeaves, XBees
  <2>2. xbee.noticed = FALSE
    <3>1. CASE xbee.mode = "leaving"
      BY <1>0, <3>1 DEF Dialogue, Listening, XBees
    <3>2. CASE task.pc \in {"init", "run"}
      <4>1. task.pc \notin {"break", "enter"}
        BY <3>2
      <4> QED
        <5>1. Dialogue /\ xbee \in XBees
          BY <1>0
        <5> QED
          BY <4>1, <5>1, SilentXBee
    <3> QED
      BY <1>2, <3>1, <3>2 DEF XBeeLeaves
  <2>3. ~(task.pc \in {"send", "reply"} /\ task.inStep)
    BY <1>2 DEF XBeeLeaves, Dialogue, SendOK, ReplyOK
  <2>4. Listening' /\ NameOK' /\ SendOK' /\ ReplyOK'
    BY <1>0, <2>1, <2>2, <2>3 DEF Dialogue, Listening, NameOK, SendOK, ReplyOK
  <2>5. ExitOK'
    BY <1>0, <2>1 DEF Dialogue, ExitOK, Result
  <2> QED
    BY <2>4, <2>5 DEF Dialogue
<1>3. CASE XBeeSends
  <2>1. xbee' = xbee /\ xbee.mode = "data"
    BY <1>3 DEF XBeeSends
  <2>2. ~(task.pc \in {"send", "reply"} /\ task.inStep)
    BY <2>1 DEF Dialogue, SendOK, ReplyOK
  <2>3. Listening' /\ NameOK' /\ SendOK' /\ ReplyOK'
    BY <1>0, <2>1, <2>2 DEF Dialogue, Listening, NameOK, SendOK, ReplyOK
  <2>4. ExitOK'
    BY <1>0, <2>1 DEF Dialogue, ExitOK, Result
  <2> QED
    BY <2>3, <2>4 DEF Dialogue
<1> QED
  BY <1>1, <1>2, <1>3

\* Everywhere else there is no dialogue.
LEMMA ElsewhereDialogue ==
  ASSUME TypeInv, Dialogue,
         Break \/ Listen \/ ExitFlush \/ Echo \/ Urat \/ UratRead \/ UratTimeout \/ QueryEnds
  PROVE  Dialogue'
<1>0. task \in Tasks /\ xbee \in XBees /\ NameOK /\ port \in [baud : Nat, break : BOOLEAN]
  BY DEF TypeInv, TaskTypes, Dialogue
<1>1. CASE Listen
  <2>1. task'.pc = "enter" /\ port'.baud = 9600 /\ UNCHANGED xbee /\ task.pc = "break"
    BY <1>0, <1>1 DEF Listen, Tasks
  <2>2. NameOK' /\ (xbee'.noticed => xbee'.mode = "command")
    BY <1>0, <2>1 DEF NameOK, Dialogue, Listening
  <2> QED
    BY <2>1, <2>2, DialogueRest
<1>2. CASE ~Listen
  <2>1. /\ task.pc \notin {"break", "enter"}
        /\ task'.pc \notin {"enter", "send", "reply", "exit", "left", "wait", "flush"}
    <3>1. CASE Break
      BY <1>0, <3>1 DEF Break, Tasks
    <3>2. CASE ExitFlush
      <4>1. After(task.job, task.ret) \in {"run", "stop", "init", "echo"}
        BY <1>0 DEF After, Tasks
      <4>2. PICK pc \in {"run", "stop", "init", "echo"} : pc = After(task.job, task.ret)
        BY <4>1
      <4>3. task.pc = "flush" /\ task'.pc = pc
        BY <1>0, <3>2, <4>2 DEF ExitFlush, Tasks
      <4> QED
        BY <4>3
    <3>3. CASE Echo \/ Urat
      BY <1>0, <3>3 DEF Echo, Urat, Tasks
    <3>4. CASE UratRead \/ UratTimeout
      <4>1. task.pc = "urat"
        BY <3>4 DEF UratRead, UratTimeout
      <4>2. \A ok : Chosen(ok) => task'.pc \in {"start", "stop"}
        BY <1>0 DEF Chosen, Tasks
      <4>3. \A text : task' = [task EXCEPT !.buff = text] => task'.pc = task.pc
        BY <1>0 DEF Tasks
      <4>4. task'.pc \in {"start", "stop", "urat"}
        BY <3>4, <4>1, <4>2, <4>3 DEF UratRead, UratTimeout
      <4> QED
        BY <4>1, <4>4
    <3>5. CASE QueryEnds
      <4>1. PICK known \in BOOLEAN :
              task' = [task EXCEPT !.pc = IF known THEN "start" ELSE "stop", !.job = "APN"]
        BY <3>5 DEF QueryEnds
      <4>2. task'.pc = IF known THEN "start" ELSE "stop"
        BY <1>0, <4>1 DEF Tasks
      <4> QED
        BY <3>5, <4>2 DEF QueryEnds
    <3> QED
      BY <1>2, <3>1, <3>2, <3>3, <3>4, <3>5
  <2>2. xbee.noticed = FALSE
    BY <1>0, <2>1, SilentXBee
  <2>3. xbee'.noticed = xbee.noticed /\ xbee'.apn = xbee.apn
    <3>1. CASE ModemAsked
      <4>1. \/ Answer(xbee, ModemOK)
            \/ UNCHANGED xbee
        BY <3>1 DEF ModemAsked
      <4>2. ModemOK \in Seq(Byte)
        BY TextLemma
      <4> QED
        BY <1>0, <4>1, <4>2, AnswerXBee
    <3>2. CASE ~ModemAsked
      <4>1. UNCHANGED xbee
        BY <1>2, <3>2 DEF Break, ExitFlush, Echo, Urat, UratRead, UratTimeout, QueryEnds
      <4> QED
        BY <4>1
    <3> QED
      BY <3>1, <3>2
  <2>4. NameOK' /\ xbee'.noticed = FALSE
    BY <1>0, <2>2, <2>3 DEF NameOK
  <2> QED
    BY <2>1, <2>4, DialogueRest
<1> QED
  BY <1>1, <1>2

LEMMA DialogueInit == Init => Dialogue
<1> SUFFICES ASSUME Init PROVE Dialogue
  OBVIOUS
<1>1. task.pc = "start" /\ xbee.noticed = FALSE
  BY DEF Init, XBeeInit
<1>2. \E name \in Names : xbee.apn = name
  BY DEF Init, XBeeInit
<1>3. NameOK
  BY <1>2, CommandAssumption DEF NameOK
<1> QED
  BY <1>1, <1>3 DEF Dialogue, Listening, SendOK, ReplyOK, ExitOK

LEMMA DialogueNext ==
  ASSUME TypeInv, Dialogue, [Next]_vars
  PROVE  Dialogue'
<1>1. CASE UNCHANGED <<task, port, xbee, rx, line>>
  <2>1. Pending' = Pending
    BY <1>1 DEF Pending, Bytes
  <2> QED
    BY <1>1, <2>1, DialogueKeep DEF SameTask, SameXBee
<1>2. CASE Tick
  <2>1. UNCHANGED <<task, port, xbee, rx, line>>
    BY <1>2 DEF Tick, xbee_dev_tick
  <2> QED
    BY <1>1, <2>1
<1>3. CASE Loader
  <2>1. stack # << >> /\ UNCHANGED <<task, port, xbee>>
    BY <1>3, LoaderStep DEF Loader, TypeInv, LoadTypes
  <2>2. task.pc \in {"init", "run"} /\ xbee \in XBees
    BY <2>1 DEF TypeInv, TaskTypes
  <2>3. task.pc \notin {"break", "enter"}
    BY <2>2
  <2>4. xbee.noticed = FALSE
    BY <2>2, <2>3, SilentXBee
  <2>5. NameOK' /\ xbee'.noticed = FALSE /\ task'.pc \in {"init", "run"}
    BY <2>1, <2>2, <2>4 DEF NameOK, Dialogue
  <2> QED
    BY <2>5, DialogueRest
<1>4. CASE XBee
  BY <1>4, XBeeDialogue, LateDialogue DEF XBee
<1>5. CASE Arrive
  BY <1>5, ArriveDialogue
<1>6. CASE Configure
  BY <1>6, ElsewhereDialogue, OutDialogue, EnterDialogue, ReadMoreDialogue, SendDialogue, ReplyDialogue
  DEF Configure
<1>7. CASE UNCHANGED vars
  <2>1. UNCHANGED <<task, port, xbee, rx, line>>
    BY <1>7 DEF vars, frameVars, loadVars
  <2> QED
    BY <1>1, <2>1
<1> QED
  BY <1>2, <1>3, <1>4, <1>5, <1>6, <1>7 DEF Next

\* The dialogue with the XBee: what is left to read is the answer to what was
\* asked, from the break on that was answered.
THEOREM DialogueInvariance == Spec => []Dialogue
<1>1. TypeInv /\ Dialogue /\ [Next]_vars => Dialogue'
  BY DialogueNext
<1> QED
  BY <1>1, DialogueInit, Invariance, PTL DEF Spec

\* When configureXBee returned 0 the XBee holds and has saved what it was asked
\* for, and when configureAPN returned no error the APN is the one it sets.
THEOREM ConfiguredSaved == Spec => []ConfiguredMeansSaved
<1>1. Dialogue => ConfiguredMeansSaved
  BY DEF Dialogue, ExitOK, Result, ConfiguredMeansSaved
<1> QED
  BY <1>1, DialogueInvariance, PTL
=============================================================================
