------------------------------ MODULE SerialRx ------------------------------
(***************************************************************************)
(* The receiving half of src/XBee/xbee_serial_efm32.c: the RX interrupt    *)
(* stores bytes in rx_buffer and deasserts RTS when it runs full, the task *)
(* reads with xbee_ser_read and asserts RTS when it has run low.  The      *)
(* interrupt may fall between any two accesses of the task, the modem      *)
(* notices RTS a few bytes late.                                           *)
(***************************************************************************)
EXTENDS CBuf

CONSTANTS
  UpperBound, (* BUFFER_UPPER_BOUND: free space at which RTS is deasserted  *)
  MaxRead,    (* bound: bytes asked for in one xbee_ser_read                *)
  Overshoot,  (* bytes the modem sends after RTS was deasserted             *)
  Numbers     (* bytes are numbered modulo this, see ByteQueue              *)

LowerBound == (Size - 1) \div 3  \* BUFFER_LOWER_BOUND

\* checkRxBufferLower reads the buffer and sets RTS in two steps: by the time it
\* asserts RTS the interrupt may have found the buffer full and the modem have
\* used up its overshoot, so the space held back must take that twice.
ASSUME MarginAssumption ==
  /\ UpperBound \in Nat /\ Overshoot \in Nat /\ MaxRead \in Nat \ {0}
  /\ LowerBound < Size - 1 - UpperBound
  /\ 2 * Overshoot + 1 < UpperBound
  /\ Numbers \in Nat /\ Numbers > Size

VARIABLES
  rx,      (* rx_buffer                                                     *)
  rts,     (* RTS is asserted                                               *)
  late,    (* bytes the modem sent with RTS deasserted                      *)
  next,    (* the number of the next byte the modem sends                   *)
  last,    (* the number of the last byte xbee_ser_read delivered           *)
  mode,    (* "api": frames are read; "at": command mode                    *)
  pc,      (* where the task is in xbee_ser_read                            *)
  length   (* the local `length' of xbee_cbuf_get                           *)

vars == <<rx, rts, late, next, last, mode, pc, length>>

Init ==
  /\ rx = CbufInit(0) /\ rts = TRUE /\ late = 0
  /\ next = 0 /\ last = Numbers - 1
  /\ mode = "api" /\ pc = "idle" /\ length = 0

-----------------------------------------------------------------------------
(* The modem and the RX interrupt                                            *)

\* A byte arrives: store it, then checkRxBufferUpper.
RxIRQ ==
  /\ rts \/ late < Overshoot
  /\ late' = IF rts THEN 0 ELSE late + 1
  /\ rx' = Putch(rx, next)
  /\ next' = (next + 1) % Numbers
  /\ rts' = (rts /\ Free(rx') > UpperBound)
  /\ UNCHANGED <<last, mode, pc, length>>

-----------------------------------------------------------------------------
(* xbee_ser_read                                                             *)

Goto(l) == pc' = l

\* Fault: as in xbee_ser_getchar, an empty buffer ends the call.
ReadBeginEndsEmpty ==
  /\ pc = "idle" /\ mode = "api"
  /\ \E n \in 1 .. MaxRead : length' = IF n > Used(rx) THEN Used(rx) ELSE n
  /\ Goto(IF Used(rx) = 0 THEN "idle" ELSE "first")
  /\ UNCHANGED <<rx, rts, late, next, last, mode>>

\* The call, and the part of xbee_cbuf_get that looks at the tail.
ReadBegin ==
  /\ pc = "idle" /\ mode = "api"
  /\ \E n \in 1 .. MaxRead : length' = IF n > Used(rx) THEN Used(rx) ELSE n
  /\ Goto("first")
  /\ UNCHANGED <<rx, rts, late, next, last, mode>>

Delivered(n) == last' = IF n = 0 THEN last ELSE rx.data[rx.head + n - 1]

\* The bytes up to the end of the buffer, if that is not enough.
ReadFirst ==
  /\ pc = "first"
  /\ IF GetWraps(rx, length)
     THEN /\ Delivered(Size - rx.head)
          /\ rx' = GetFirst(rx)
          /\ length' = length - (Size - rx.head)
     ELSE UNCHANGED <<rx, length, last>>
  /\ Goto("rest")
  /\ UNCHANGED <<rts, late, next, mode>>

\* Fault: the head moves on before the bytes are copied.
ReadRestEarly ==
  /\ pc = "rest"
  /\ rx' = GetRest(rx, length)
  /\ last' = IF length = 0 THEN last ELSE rx.data[(rx.head + length) % Size]
  /\ length' = 0
  /\ Goto("check")
  /\ UNCHANGED <<rts, late, next, mode>>

ReadRest ==
  /\ pc = "rest"
  /\ Delivered(length)
  /\ rx' = GetRest(rx, length)
  /\ length' = 0
  /\ Goto("check")
  /\ UNCHANGED <<rts, late, next, mode>>

\* checkRxBufferLower: the comparison ...
ReadCheck ==
  /\ pc = "check"
  /\ Goto(IF Used(rx) <= LowerBound THEN "assert" ELSE "idle")
  /\ UNCHANGED <<rx, rts, late, next, last, mode, length>>

\* ... and the pin.
ReadAssert ==
  /\ pc = "assert"
  /\ rts' = TRUE
  /\ Goto("idle")
  /\ UNCHANGED <<rx, late, next, last, mode, length>>

Read == ReadBegin \/ ReadFirst \/ ReadRest \/ ReadCheck \/ ReadAssert

-----------------------------------------------------------------------------
(* Command mode: enterCommandMode and exitCommandMode flush the receiver;    *)
(* in between, xbee_atmode_read_response gets one byte at a time.            *)

\* xbee_ser_rx_flush drops what is there and leaves RTS alone.
RxFlush ==
  /\ rx' = Flush(rx)
  /\ last' = (next - 1) % Numbers
  /\ UNCHANGED <<rts, late, next, pc, length>>

EnterCommandMode == pc = "idle" /\ mode = "api" /\ RxFlush /\ mode' = "at"

ExitCommandMode == pc = "idle" /\ mode = "at" /\ RxFlush /\ mode' = "api"

\* xbee_ser_getchar: only a byte got leads on to checkRxBufferLower.
Getchar ==
  /\ pc = "idle" /\ mode = "at"
  /\ CanGetch(rx)
  /\ last' = GetchByte(rx)
  /\ rx' = Getch(rx)
  /\ Goto("check")
  /\ UNCHANGED <<rts, late, next, mode, length>>

Next == RxIRQ \/ Read \/ EnterCommandMode \/ ExitCommandMode \/ Getchar

Spec == Init /\ [][Next]_vars

\* The driver polls: xbee_dev_tick calls xbee_ser_read again and again,
\* getResponse calls xbee_ser_getchar.
FairSpec == Spec /\ WF_vars(Read \/ Getchar)

-----------------------------------------------------------------------------
(* Properties                                                                *)

TypeOK ==
  /\ rx \in Cbuf(0 .. Numbers - 1)
  /\ rts \in BOOLEAN
  /\ late \in 0 .. Overshoot
  /\ next \in 0 .. Numbers - 1
  /\ last \in 0 .. Numbers - 1
  /\ mode \in {"api", "at"}
  /\ pc \in {"idle", "first", "rest", "check", "assert"}
  /\ length \in 0 .. Size - 1

\* The bytes in the buffer, oldest first.
Contents == [j \in 1 .. Used(rx) |-> rx.data[(rx.head + j - 1) % Size]]

\* The receiver implements the queue: xbee_ser_read and xbee_ser_getchar return
\* every byte the modem sent, once and in order but for what a flush drops,
\* wherever the interrupt cuts into xbee_cbuf_get and checkRxBufferLower; flow
\* control keeps xbee_cbuf_putch from ever dropping one.
Queue == INSTANCE ByteQueue WITH queue <- Contents, due <- (last + 1) % Numbers
RxIsQueue == Queue!Spec

\* A modem that was stopped is let go on while frames are read: xbee_ser_read
\* checks the lower bound even when it returns nothing.
Resumes == ~rts ~> (rts \/ mode = "at")

\* "The buffer is empty enough, assert RTS" (xbee_serial_efm32.c:130): when the
\* driver is done with a call, RTS is not deasserted over an empty buffer.
AssertedWhenEmpty == (pc = "idle" /\ Used(rx) = 0) => rts
=============================================================================
