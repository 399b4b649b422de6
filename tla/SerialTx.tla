------------------------------ MODULE SerialTx ------------------------------
(***************************************************************************)
(* The sending half of src/XBee/xbee_serial_efm32.c under xbee_frame_write *)
(* of src/XBee/xbee_device.c: the task checks the free space, puts a frame *)
(* piece by piece into tx_buffer and enables the TX interrupt, which sends *)
(* a byte at a time and disables itself when there is none.  A break, as   *)
(* enterCommandMode gives it, stops the interrupt and drops the buffer.    *)
(***************************************************************************)
EXTENDS CBuf

CONSTANTS
  Frames,   (* the frames sent: the lengths of their header and their data  *)
  Numbers   (* bytes are numbered modulo this                               *)

ASSUME FramesAssumption ==
  /\ Frames \subseteq [headerlen : Nat, datalen : Nat]
  /\ \A f \in Frames : f.headerlen + f.datalen > 0
  /\ Numbers \in Nat /\ Numbers > Size

VARIABLES
  tx,       (* tx_buffer                                                    *)
  txbl,     (* the TX interrupt is enabled                                  *)
  brk,      (* tx_break                                                     *)
  next,     (* the number of the next byte put                              *)
  last,     (* the number of the last byte sent                             *)
  pc,       (* where the task is                                            *)
  pieces,   (* the lengths of the pieces of the frame still to be written   *)
  size,     (* framesize                                                    *)
  free,     (* the free space xbee_frame_write found                        *)
  length,   (* what xbee_cbuf_put has still to copy                         *)
  result,   (* what xbee_frame_write returned last                          *)
  \* history
  short,    (* a piece was cut short                                        *)
  garbled,  (* a byte was sent out of its turn                              *)
  astray    (* the interrupt read where nothing had been put                *)

buffer == <<tx, txbl, next, last>>
frame == <<pieces, size, free, length, result, short>>
vars == <<buffer, brk, pc, frame, garbled, astray>>

Init ==
  /\ tx = CbufInit(0) /\ txbl = TRUE /\ brk = FALSE
  /\ next = 0 /\ last = Numbers - 1
  /\ pc = "idle" /\ pieces = <<>> /\ size = 0 /\ free = 0 /\ length = 0
  /\ result = 0
  /\ short = FALSE /\ garbled = FALSE /\ astray = FALSE

EBUSY == -16
EMSGSIZE == -90

-----------------------------------------------------------------------------
(* The TX interrupt, whenever the USART takes a byte                         *)

\* There is a byte to get, but none that was put: the tail is Size and the head
\* has gone round to 0, or a flush has left the head at Size.
Astray == tx.head # tx.tail /\ (Used(tx) = 0 \/ tx.head = Size)

TxIRQ ==
  /\ txbl
  /\ IF brk \/ ~CanGetch(tx)
     THEN txbl' = FALSE /\ UNCHANGED <<tx, last, garbled, astray>>
     ELSE /\ last' = GetchByte(tx)
          /\ tx' = Getch(tx)
          /\ garbled' = (garbled \/ last' # (last + 1) % Numbers)
          /\ astray' = (astray \/ Astray)
          /\ UNCHANGED txbl
  /\ UNCHANGED <<brk, next, pc, frame>>

-----------------------------------------------------------------------------
(* xbee_frame_write                                                          *)

Goto(l) == pc' = l

\* What one xbee_ser_write each puts: the start with the length, the header and
\* the data as far as there are any, the checksum.
Pieces(f) ==
  IF f.datalen = 0 THEN <<3, f.headerlen, 1>>
  ELSE IF f.headerlen = 0 THEN <<3, f.datalen, 1>>
  ELSE <<3, f.headerlen, f.datalen, 1>>

\* The call, up to xbee_ser_tx_free.
FrameBegin ==
  /\ pc = "idle"
  /\ \E f \in Frames :
       pieces' = Pieces(f) /\ size' = f.headerlen + f.datalen + 3 + 1
  /\ free' = Free(tx)
  /\ Goto("check")
  /\ UNCHANGED <<buffer, brk, length, result, short, garbled, astray>>

\* Fault: CTS is looked at, the free space is not.
FrameCheckCtsOnly ==
  /\ pc = "check"
  /\ \E cts \in BOOLEAN :
       IF ~cts
       THEN /\ result' = IF size - free > Used(tx) THEN EMSGSIZE ELSE EBUSY
            /\ Goto("idle")
       ELSE UNCHANGED result /\ Goto("write")
  /\ UNCHANGED <<buffer, brk, pieces, size, free, length, short, garbled, astray>>

\* xbee_ser_tx_used, and the decision; CTS was read before.
FrameCheck ==
  /\ pc = "check"
  /\ \E cts \in BOOLEAN :
       IF ~cts \/ free < size
       THEN /\ result' = IF size - free > Used(tx) THEN EMSGSIZE ELSE EBUSY
            /\ Goto("idle")
       ELSE UNCHANGED result /\ Goto("write")
  /\ UNCHANGED <<buffer, brk, pieces, size, free, length, short, garbled, astray>>

-----------------------------------------------------------------------------
(* xbee_ser_write of the first of the pieces                                 *)

\* xbee_cbuf_put cuts the length to the free space.
WriteBegin ==
  /\ pc = "write"
  /\ length' = IF Head(pieces) > Free(tx) THEN Free(tx) ELSE Head(pieces)
  /\ short' = (short \/ length' < Head(pieces))
  /\ Goto("first")
  /\ UNCHANGED <<buffer, brk, pieces, size, free, result, garbled, astray>>

Bytes(n) == [j \in 1 .. n |-> (next + j - 1) % Numbers]

\* Fault: the second half starts from the first byte again.
WriteFirstKeepsBuffer ==
  /\ pc = "first"
  /\ IF PutWraps(tx, Bytes(length))
     THEN /\ tx' = PutFirst(tx, Bytes(length))
          /\ length' = length - (Size - tx.tail)
          /\ UNCHANGED next
     ELSE UNCHANGED <<tx, next, length>>
  /\ Goto("rest")
  /\ UNCHANGED <<txbl, last, brk, pieces, size, free, result, short, garbled, astray>>

\* What makes the tail wrap, if the bytes reach beyond the end of the buffer.
WriteFirst ==
  /\ pc = "first"
  /\ IF PutWraps(tx, Bytes(length))
     THEN /\ tx' = PutFirst(tx, Bytes(length))
          /\ next' = (next + Size - tx.tail) % Numbers
          /\ length' = length - (Size - tx.tail)
     ELSE UNCHANGED <<tx, next, length>>
  /\ Goto("rest")
  /\ UNCHANGED <<txbl, last, brk, pieces, size, free, result, short, garbled, astray>>

WriteRest ==
  /\ pc = "rest"
  /\ tx' = PutRest(tx, Bytes(length))
  /\ next' = (next + length) % Numbers
  /\ length' = 0
  /\ Goto("enable")
  /\ UNCHANGED <<txbl, last, brk, pieces, size, free, result, short, garbled, astray>>

\* Fault: the interrupt is enabled with the first piece of a frame only.
WriteEnableOnce ==
  /\ pc = "enable"
  /\ txbl' = (txbl \/ Len(pieces) > 1)
  /\ pieces' = Tail(pieces)
  /\ IF Tail(pieces) = <<>> THEN result' = 0 /\ Goto("idle")
                            ELSE UNCHANGED result /\ Goto("write")
  /\ UNCHANGED <<tx, next, last, brk, size, free, length, short, garbled, astray>>

\* USART_IntEnable, and on to the next piece.
WriteEnable ==
  /\ pc = "enable"
  /\ txbl' = TRUE
  /\ pieces' = Tail(pieces)
  /\ IF Tail(pieces) = <<>> THEN result' = 0 /\ Goto("idle")
                            ELSE UNCHANGED result /\ Goto("write")
  /\ UNCHANGED <<tx, next, last, brk, size, free, length, short, garbled, astray>>

-----------------------------------------------------------------------------
(* enterCommandMode                                                          *)

BreakOn ==
  /\ pc = "idle"
  /\ brk' = TRUE /\ txbl' = FALSE
  /\ Goto("break")
  /\ UNCHANGED <<tx, next, last, frame, garbled, astray>>

TxFlush ==
  /\ pc = "break"
  /\ tx' = Flush(tx)
  /\ last' = (next - 1) % Numbers
  /\ Goto("flushed")
  /\ UNCHANGED <<txbl, next, brk, frame, garbled, astray>>

BreakOff ==
  /\ pc = "flushed"
  /\ brk' = FALSE /\ txbl' = TRUE
  /\ Goto("idle")
  /\ UNCHANGED <<tx, next, last, frame, garbled, astray>>

Next == \/ TxIRQ
        \/ FrameBegin \/ FrameCheck
        \/ WriteBegin \/ WriteFirst \/ WriteRest \/ WriteEnable
        \/ BreakOn \/ TxFlush \/ BreakOff

Spec == Init /\ [][Next]_vars

-----------------------------------------------------------------------------
(* Properties                                                                *)

TypeOK ==
  /\ tx \in Cbuf(0 .. Numbers - 1)
  /\ txbl \in BOOLEAN /\ brk \in BOOLEAN
  /\ next \in 0 .. Numbers - 1 /\ last \in 0 .. Numbers - 1
  /\ pc \in {"idle", "check", "write", "first", "rest", "enable", "break", "flushed"}
  /\ pieces \in Seq(Nat) /\ size \in Nat
  /\ free \in 0 .. Size - 1 /\ length \in 0 .. Size - 1
  /\ result \in {0, EBUSY, EMSGSIZE}
  /\ short \in BOOLEAN /\ garbled \in BOOLEAN /\ astray \in BOOLEAN

\* The bytes of the frames leave in the order they were written, each once,
\* wherever the interrupt cuts into xbee_cbuf_put, until it goes astray.
InOrderUntilAstray == garbled => astray

\* A frame xbee_frame_write has begun is written whole: the space it found free
\* is still free when the last piece is put, since only the interrupt moves the
\* head; so no partial frame is left for the modem to resynchronise on.
WholeFrames == short => astray

\* What is in the buffer is being sent: TXBL is never left disabled over bytes
\* to send, although the interrupt may disable it at any point of a write.
NoneStuck == (pc \in {"idle", "check", "write"} /\ CanGetch(tx)) => txbl

\* "Write to tail, read from head" (xbee_cbuf.c:34): the interrupt sends the
\* bytes in the order they were written.
SendsInOrder == ~garbled

\* "Serial buffer can't ever send a frame this large" (xbee_device.c:496): a
\* frame the empty buffer has room for is not refused with -EMSGSIZE.
EmsgsizeMeansNever == result = EMSGSIZE => size > Size - 1
=============================================================================
