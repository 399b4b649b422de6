-------------------------------- MODULE Gnss --------------------------------
(***************************************************************************)
(* The GNSS receiver of src/src/gnss.c.  The RX interrupt parses the UBX   *)
(* stream byte by byte into the back half of a double buffer and flips the *)
(* halves when a NAV-PVT packet ends with the right checksum; gnssSln      *)
(* locks the front half, copies a solution out of it and unlocks.  The     *)
(* interrupt may fall between any two bytes gnssSln copies, except in the  *)
(* two sections that run with RXDATAV disabled.                            *)
(***************************************************************************)
EXTENDS Integers, Sequences

CONSTANTS
  Base,      (* number of byte values: 256                                  *)
  Sync,      (* <<0xB5, 0x62>>                                              *)
  NavPvt,    (* <<0x01, 0x07>>, class and id of NAV-PVT                     *)
  PayLen,    (* NAV_PVT_PAY_LEN                                             *)
  Solutions, (* the byte a payload of the module is filled with: one value  *)
             (*   a solution, so that mixed solutions show                  *)
  Foreign,   (* other messages the module sends: sets of byte strings       *)
  Noise      (* byte values a transmission error may leave behind           *)

NoSolution == -1
NoHalf == -1

Byte == 0 .. Base - 1

ASSUME ConstantsAssumption ==
  /\ Base \in Nat \ {0}
  /\ Sync \in Byte \X Byte
  /\ NavPvt \in Byte \X Byte
  /\ PayLen \in Byte \ {0}
  /\ Solutions \subseteq Byte /\ Solutions # {}
  /\ Noise \subseteq Byte
  /\ Foreign \subseteq Seq(Byte)

VARIABLES
  \* the static variables of gnssRxHandler
  state,   (* SYNC, CLSID, LENGTH, PAYLOAD or CKSUM                         *)
  i,       (* bytes taken in this state                                     *)
  len,     (* the payload length read                                       *)
  cksum,   (* the running checksum, <<lo, hi>>                              *)
  valid,   (* validNavPvt                                                   *)
  \* shared with gnssSln
  navPvts, (* the two halves                                                *)
  front,   (* gnssNavPvtFront, -1 until the first packet                    *)
  locks,   (* gnssNavPvtLocks                                               *)
  \* gnssSln
  pc,      (* "idle" or "copy"                                              *)
  src,     (* the half nav_pvt points into, while copying                   *)
  sln,     (* the bytes copied so far                                       *)
  \* the line
  rest,    (* what is still to arrive of the packet being sent              *)
  good,    (* the solution of this packet when it is a NAV-PVT sent without *)
           (*   an error, else NoSolution                                   *)
  aligned, (* the parser was waiting for a packet when this one began       *)
  \* what came over the line, recorded for SolutionWhole alone
  heard,   (* the bytes since any place a NAV-PVT packet may have begun     *)
  fixes    (* the payloads of the NAV-PVT packets that came whole           *)

parser == <<state, i, len, cksum, valid>>
shared == <<navPvts, front, locks>>
reader == <<pc, src, sln>>
line == <<rest, good, aligned>>
history == <<heard, fixes>>
vars == <<parser, shared, reader, line, history>>

States == {"SYNC", "CLSID", "LENGTH", "PAYLOAD", "CKSUM"}

\* !gnssNavPvtFront
Back == IF front = 0 THEN 1 ELSE 0

-----------------------------------------------------------------------------
(* Packets                                                                   *)

\* Fault: the sums are kept in more than 8 bits.
SumWide(ck, ch) == <<ck[1] + ch, ck[2] + ck[1] + ch>>

\* gnssCksum over one byte
Sum(ck, ch) ==
  LET lo == (ck[1] + ch) % Base IN <<lo, (ck[2] + lo) % Base>>

\* gnssCksum over a header of 4 bytes and a payload filled with v, in closed
\* form: the low byte is the sum, the high byte the sum of the sums.
BodyCksum(v) ==
  LET h == NavPvt[1] + NavPvt[2] + PayLen
      hh == 4 * NavPvt[1] + 3 * NavPvt[2] + 2 * PayLen
  IN <<(h + PayLen * v) % Base,
       (hh + PayLen * h + v * ((PayLen * (PayLen + 1)) \div 2)) % Base>>

Payload(v) == [k \in 0 .. PayLen - 1 |-> v]

\* The checksum of a NAV-PVT packet with the payload p, by its definition: the
\* sum of the bytes from the class on, and the sum of these sums.
Fletcher(p) ==
  LET h == NavPvt[1] + NavPvt[2] + PayLen
      hh == 4 * NavPvt[1] + 3 * NavPvt[2] + 2 * PayLen
      sums[n \in 0 .. PayLen] ==
        IF n = 0 THEN <<h, hh>>
        ELSE <<sums[n - 1][1] + p[n - 1],
               sums[n - 1][2] + sums[n - 1][1] + p[n - 1]>>
  IN <<sums[PayLen][1] % Base, sums[PayLen][2] % Base>>

\* A NAV-PVT packet as the module puts it on the line.
Header == Sync \o NavPvt \o <<PayLen, 0>>
Packet(v) ==
  Header \o [k \in 1 .. PayLen |-> v] \o BodyCksum(v)

-----------------------------------------------------------------------------
(* gnssRxHandler                                                             *)

\* Fault: a packet found foreign taints all that follow.
ResetKeepsValid ==
  /\ state' = "SYNC" /\ i' = 0 /\ len' = 0 /\ cksum' = <<0, 0>> /\ valid' = valid

\* Fault: the next packet starts from the checksum of this one.
ResetKeepsCksum ==
  /\ state' = "SYNC" /\ i' = 0 /\ len' = 0 /\ cksum' = cksum /\ valid' = TRUE

\* Label reset
Reset ==
  /\ state' = "SYNC" /\ i' = 0 /\ len' = 0 /\ cksum' = <<0, 0>> /\ valid' = TRUE

Following ==
  [SYNC |-> "CLSID", CLSID |-> "LENGTH", LENGTH |-> "PAYLOAD", PAYLOAD |-> "CKSUM"]

\* The byte is what a NAV-PVT packet has here; a payload byte is, unless the
\* back half is locked.
Accepted(ch) ==
  CASE state = "SYNC"    -> ch = Sync[i + 1]
    [] state = "CLSID"   -> ch = NavPvt[i + 1]
    [] state = "LENGTH"  -> ch = IF i = 0 THEN PayLen ELSE 0
    [] state = "PAYLOAD" -> ~locks[Back]
    [] state = "CKSUM"   -> ch = cksum[i + 1]

\* The length as of this byte.  A packet known to be foreign is not measured:
\* its length stays what was read before.
NewLen(ch) ==
  IF valid /\ state = "LENGTH" THEN len + ch * (IF i = 0 THEN 1 ELSE Base) ELSE len

\* Label next: count the byte, go on to the next state, flip at the end.
Advance(ch, ok) ==
  LET last == i + 1 >= IF state = "PAYLOAD" THEN len ELSE 2
  IN IF state = "CKSUM" /\ last
     THEN /\ front' = IF ok THEN Back ELSE front
          /\ Reset
     ELSE /\ state' = IF last THEN Following[state] ELSE state
          /\ i' = IF last THEN 0 ELSE i + 1
          /\ len' = NewLen(ch)
          /\ valid' = ok
          /\ cksum' = IF valid /\ state \notin {"SYNC", "CKSUM"}
                      THEN Sum(cksum, ch) ELSE cksum
          /\ UNCHANGED front

RxHandler(ch) ==
  IF valid /\ state = "SYNC" /\ ~Accepted(ch)
  THEN Reset /\ UNCHANGED <<navPvts, front>>
  ELSE /\ navPvts' = IF valid /\ state = "PAYLOAD" /\ ~locks[Back]
                     THEN [navPvts EXCEPT ![Back][i] = ch] ELSE navPvts
       /\ Advance(ch, valid /\ Accepted(ch))

\* b is a beginning of a NAV-PVT packet, as far as its header is concerned.
BeginsPacket(b) ==
  \A k \in DOMAIN b : k <= 6 => b[k] = Header[k]

\* The bytes b are a NAV-PVT packet with the right checksum; PayloadOf(b) is
\* what it brings.
PayloadOf(b) == [k \in 0 .. PayLen - 1 |-> b[k + 7]]
IsPacket(b) ==
  /\ Len(b) = PayLen + 8
  /\ BeginsPacket(b)
  /\ <<b[PayLen + 7], b[PayLen + 8]>> = Fletcher(PayloadOf(b))

\* History: the byte goes on with every packet that may have begun, and may
\* begin one itself.
Hears(ch) ==
  LET longer == {Append(b, ch) : b \in heard \cup {<<>>}}
  IN /\ heard' = {b \in longer : Len(b) < PayLen + 8 /\ BeginsPacket(b)}
     /\ fixes' = fixes \cup {PayloadOf(b) : b \in {c \in longer : IsPacket(c)}}

\* GNSS_USART_RX_IRQ: the next byte of the line.
RxIRQ ==
  /\ rest # <<>>
  /\ rest' = Tail(rest)
  /\ RxHandler(Head(rest))
  /\ Hears(Head(rest))
  /\ UNCHANGED <<locks, reader, good, aligned>>

-----------------------------------------------------------------------------
(* The GNSS module and the line                                              *)

SendGood ==
  /\ rest = <<>>
  /\ \E v \in Solutions : rest' = Packet(v) /\ good' = v
  /\ aligned' = (state = "SYNC" /\ i = 0)
  /\ UNCHANGED <<parser, shared, reader, history>>

\* Another message, or a NAV-PVT packet with one byte damaged.
SendOther ==
  /\ rest = <<>>
  /\ \/ rest' \in Foreign
     \/ \E v \in Solutions, n \in Noise : \E k \in DOMAIN Packet(v) :
          /\ n # Packet(v)[k]
          /\ rest' = [Packet(v) EXCEPT ![k] = n]
  /\ good' = NoSolution
  /\ aligned' = FALSE
  /\ UNCHANGED <<parser, shared, reader, history>>

-----------------------------------------------------------------------------
(* gnssSln                                                                   *)

\* Fault: the front half is read without being locked.
SlnBeginUnlocked ==
  /\ pc = "idle"
  /\ front # -1
  /\ pc' = "copy" /\ src' = front /\ sln' = <<>>
  /\ UNCHANGED <<parser, shared, line, history>>

\* With RXDATAV disabled: lock the front half.  Without a packet yet, -EAGAIN.
SlnBegin ==
  /\ pc = "idle"
  /\ front # -1
  /\ pc' = "copy" /\ src' = front /\ sln' = <<>>
  /\ locks' = [locks EXCEPT ![front] = TRUE]
  /\ UNCHANGED <<parser, navPvts, front, line, history>>

SlnCopy ==
  /\ pc = "copy"
  /\ Len(sln) < PayLen
  /\ sln' = Append(sln, navPvts[src][Len(sln)])
  /\ UNCHANGED <<parser, shared, pc, src, line, history>>

\* With RXDATAV disabled again: unlock what is the front half now, and return.
SlnEnd ==
  /\ pc = "copy"
  /\ Len(sln) = PayLen
  /\ pc' = "idle" /\ src' = NoHalf /\ sln' = <<>>
  /\ locks' = [locks EXCEPT ![front] = FALSE]
  /\ UNCHANGED <<parser, navPvts, front, line, history>>

-----------------------------------------------------------------------------
Init ==
  /\ state = "SYNC" /\ i = 0 /\ len = 0 /\ cksum = <<0, 0>> /\ valid = TRUE
  /\ navPvts = [b \in 0 .. 1 |-> Payload(0)]
  /\ front = -1
  /\ locks = [b \in 0 .. 1 |-> FALSE]
  /\ pc = "idle" /\ src = NoHalf /\ sln = <<>>
  /\ rest = <<>> /\ good = NoSolution /\ aligned = FALSE
  /\ heard = {} /\ fixes = {}

Next == RxIRQ \/ SendGood \/ SendOther \/ SlnBegin \/ SlnCopy \/ SlnEnd

Spec == Init /\ [][Next]_vars

\* The line delivers what is sent, and the module, configured for NAV-PVT, goes
\* on sending.
Fairness ==
  /\ WF_vars(RxIRQ)
  /\ WF_vars(SendGood)

FairSpec == Spec /\ Fairness

-----------------------------------------------------------------------------
(* Properties                                                                *)

HistoryOK ==
  /\ heard \subseteq Seq(Byte) /\ \A b \in heard : Len(b) < PayLen + 8
  /\ fixes \subseteq [0 .. PayLen - 1 -> Byte]

TypeOK ==
  /\ state \in States
  /\ i \in Nat
  /\ len \in 0 .. Base * Base - 1
  /\ cksum \in Byte \X Byte
  /\ valid \in BOOLEAN
  /\ navPvts \in [0 .. 1 -> [0 .. PayLen - 1 -> Byte]]
  /\ front \in -1 .. 1
  /\ locks \in [0 .. 1 -> BOOLEAN]
  /\ pc \in {"idle", "copy"}
  /\ src \in {NoHalf, 0, 1}
  /\ sln \in Seq(Byte) /\ Len(sln) <= PayLen
  /\ rest \in Seq(Byte)
  /\ good \in Solutions \cup {NoSolution}
  /\ aligned \in BOOLEAN
  /\ HistoryOK

\* Whatever comes over the line (damaged packets, other messages, a stray sync
\* byte) and whatever interrupts the copy, the bytes gnssSln has copied are those
\* of one NAV-PVT packet that came whole and with the right checksum: no payload
\* half overwritten, mixed of two packets, or let through on a checksum that
\* belongs to other bytes.
SolutionWhole ==
  pc = "copy" => \E p \in fixes : \A k \in DOMAIN sln : sln[k] = p[k - 1]

\* A good packet that finds the parser waiting becomes the front half with its
\* last byte, unless the half it needs is locked.
GoodPacketDelivered ==
  [][ (good # NoSolution /\ aligned /\ Len(rest) = 1 /\ rest' = <<>>)
      => \/ locks[Back]
         \/ front' = Back /\ navPvts'[front'] = Payload(good)
    ]_vars

\* The parser finds its way back from foreign messages, damaged packets and a
\* start in the middle of one: once the line is clean, a solution arrives.
FixOnceClean == <>[](good # NoSolution) => <>(front # -1)

\* "Unlock the buffer" (gnss.c:302): a half is locked only while gnssSln copies
\* from it.
UnlockedWhenIdle == pc = "idle" => \A b \in 0 .. 1 : ~locks[b]
=============================================================================
