----------------------------- MODULE FrameLoad -----------------------------
(***************************************************************************)
(* The frame loader, xbee_dev_tick and _xbee_frame_load of                 *)
(* src/XBee/xbee_device.c: it takes the bytes that the serial driver has   *)
(* received, finds the frames among them and gives each one whose checksum *)
(* is right to the handlers of its type.  It keeps its place from one call *)
(* to the next, and a handler may call it again.                           *)
(*                                                                         *)
(* The driver is the queue of bytes that SerialRx implements.  Bytes have  *)
(* their values.  The first byte of a frame that the XBee sent undamaged   *)
(* carries the frame along, which only the properties look at.             *)
(***************************************************************************)
EXTENDS Integers, Sequences, SequencesExt

CONSTANTS
  Frames,       (* what the XBee sends, without start, length and checksum  *)
  Handled,      (* the frame types of xbee_frame_handlers                   *)
  MaxLength,    (* XBEE_MAX_RX_FRAME_LEN                                    *)
  MaxDispatch,  (* XBEE_DEV_MAX_DISPATCH_PER_TICK                           *)
  MaxRx,        (* the bytes that the driver holds                          *)
  MaxFaults     (* bound: damaged frames, and what the XBee does wrong      *)

Byte == 0..255
Start == 126

ASSUME FrameAssumption ==
  /\ Frames \subseteq Seq(Byte)
  /\ \A f \in Frames : Len(f) \in 2..MaxLength
  /\ MaxLength \in Nat /\ MaxLength < Start * 256
  /\ {MaxDispatch, MaxRx} \subseteq Nat \ {0} /\ MaxFaults \in Nat

VARIABLES
  line,     (* bytes on their way from the XBee                             *)
  rx,       (* bytes received and not read                                  *)
  dev,      (* xbee->rx: state, bytes_in_frame, and of frame_data the part  *)
            (*   that was read for the frame, bytes_read bytes              *)
  inTick,   (* XBEE_DEV_FLAG_IN_TICK                                        *)
  stack,    (* the calls of _xbee_frame_load that have not returned         *)
  expect,   (* the undamaged frame whose first byte the loader took for one *)
  astray,   (* whether a frame was damaged, or cut by a flush               *)
  faults    (* what went wrong so far                                       *)

loadVars == <<rx, dev, inTick, stack, expect>>
frameVars == <<loadVars, line, astray, faults>>

None == <<>>

\* The checksum subtracts from initial, in a byte.
Checksum(bytes, initial) ==
  LET sum[n \in 0 .. Len(bytes)] ==
        IF n = 0 THEN initial ELSE (sum[n - 1] - bytes[n]) % 256
  IN sum[Len(bytes)]

Encode(f) ==
  <<Start, Len(f) \div 256, Len(f) % 256>> \o f \o <<Checksum(f, 255)>>

Plain(bytes) == [i \in DOMAIN bytes |-> [byte |-> bytes[i], frame |-> None]]
Whole(f) == [Plain(Encode(f)) EXCEPT ![1].frame = f]

FrameInit ==
  /\ line = <<>> /\ rx = <<>>
  /\ dev = [state |-> "WAITSTART", length |-> 0, data |-> <<>>]
  /\ inTick = FALSE /\ stack = <<>>
  /\ expect = None /\ astray = FALSE /\ faults = 0

-----------------------------------------------------------------------------
(* The line                                                                  *)

\* The XBee sends a frame.
SendFrame(f) ==
  /\ line = <<>>
  /\ line' = Whole(f)
  /\ UNCHANGED <<loadVars, astray, faults>>

\* A byte of the frame is lost, or one too many comes with it.
SendDamaged(f) ==
  /\ line = <<>> /\ faults < MaxFaults
  /\ faults' = faults + 1 /\ astray' = TRUE
  /\ \E i \in DOMAIN Encode(f) :
       \/ line' = Plain(RemoveAt(Encode(f), i))
       \/ line' = Plain(InsertAt(Encode(f), i, Start))
  /\ UNCHANGED loadVars

\* The receive interrupt puts a byte into the driver's buffer.  RTS holds the
\* XBee while there is no room.
Receive(b) ==
  /\ line # <<>> /\ Len(rx) < MaxRx
  /\ rx' = Append(rx, b)
  /\ line' = Tail(line)
  /\ UNCHANGED <<dev, inTick, stack, expect, astray, faults>>

-----------------------------------------------------------------------------
(* xbee_dev_tick                                                             *)

Activation == [at |-> "load", dispatched |-> 0, frame |-> None]

\* Fault: no flag against recursion.
xbee_dev_tick_Again ==
  /\ stack' = Append(stack, Activation)
  /\ inTick' = TRUE
  /\ UNCHANGED <<rx, dev, expect, line, astray, faults>>

\* A call from within is refused, -EBUSY.
xbee_dev_tick ==
  /\ IF inTick
     THEN UNCHANGED <<stack, inTick>>
     ELSE /\ stack' = Append(stack, Activation)
          /\ inTick' = TRUE
  /\ UNCHANGED <<rx, dev, expect, line, astray, faults>>

\* Fault: the flag stays when the loop ends.
ReturnBusy ==
  /\ stack' = Front(stack)
  /\ UNCHANGED inTick

\* _xbee_frame_load returns, and xbee_dev_tick clears the flag.
Return ==
  /\ stack' = Front(stack)
  /\ inTick' = FALSE

Loading(state) ==
  /\ stack # <<>> /\ Last(stack).at = "load"
  /\ dev.state = state
  /\ UNCHANGED <<line, astray, faults>>

\* The read finds nothing, and the loop ends.
Nothing == rx = <<>> /\ Return /\ UNCHANGED <<rx, dev, expect>>

Byte1 == Head(rx).byte

\* A byte is taken for the start of a frame.
Begins ==
  /\ dev' = [dev EXCEPT !.state = "LENGTH_MSB"]
  /\ expect' = Head(rx).frame

\* case XBEE_RX_STATE_WAITSTART
WaitStart ==
  /\ Loading("WAITSTART")
  /\ \/ Nothing
     \/ /\ rx # <<>> /\ rx' = Tail(rx)
        /\ IF Byte1 = Start THEN Begins ELSE UNCHANGED <<dev, expect>>
        /\ UNCHANGED <<stack, inTick>>

\* Fault: a second start byte is taken for a length.
LengthMsbAny ==
  /\ Loading("LENGTH_MSB")
  /\ \/ Nothing
     \/ /\ rx # <<>> /\ rx' = Tail(rx)
        /\ dev' = [dev EXCEPT !.state = "LENGTH_LSB", !.length = 256 * Byte1]
        /\ expect' = IF Byte1 = Start THEN Head(rx).frame ELSE expect
        /\ UNCHANGED <<stack, inTick>>

\* case XBEE_RX_STATE_LENGTH_MSB
LengthMsb ==
  /\ Loading("LENGTH_MSB")
  /\ \/ Nothing
     \/ /\ rx # <<>> /\ rx' = Tail(rx)
        /\ \/ Byte1 = Start /\ Begins
           \/ /\ Byte1 # Start
              /\ dev' = [dev EXCEPT !.state = "LENGTH_LSB",
                                    !.length = 256 * Byte1]
              /\ UNCHANGED expect
        /\ UNCHANGED <<stack, inTick>>

\* Fault: any length is accepted.
BadLengthShort(length) == length < 2

BadLength(length) == length > MaxLength \/ length < 2

\* case XBEE_RX_STATE_LENGTH_LSB
LengthLsb ==
  /\ Loading("LENGTH_LSB")
  /\ \/ Nothing
     \/ /\ rx # <<>> /\ rx' = Tail(rx)
        /\ LET length == dev.length + Byte1 IN
           \/ BadLength(length) /\ Byte1 = Start /\ Begins
           \/ /\ BadLength(length) /\ Byte1 # Start
              /\ dev' = [dev EXCEPT !.state = "WAITSTART"]
              /\ expect' = None
           \/ /\ ~BadLength(length)
              /\ dev' = [state |-> "RXFRAME", length |-> length,
                         data |-> <<>>]
              /\ UNCHANGED expect
        /\ UNCHANGED <<stack, inTick>>

\* case XBEE_RX_STATE_RXFRAME
RxFrame ==
  /\ Loading("RXFRAME")
  /\ LET left == dev.length - Len(dev.data) + 1
         read == IF Len(rx) < left THEN Len(rx) ELSE left
         data == dev.data \o [i \in 1..read |-> rx[i].byte]
         frame == SubSeq(data, 1, dev.length)
         top == Len(stack)
     IN
     /\ rx' = SubSeq(rx, read + 1, Len(rx))
     /\ \/ /\ read # left
           /\ dev' = [dev EXCEPT !.data = data]
           /\ Return /\ UNCHANGED expect
        \/ /\ read = left
           /\ dev' = [dev EXCEPT !.state = "WAITSTART", !.data = data]
           /\ expect' = None
           /\ stack' = IF Checksum(data, 255) # 0 THEN stack
                       ELSE [stack EXCEPT ![top].at = "dispatch",
                               ![top].dispatched = @ + 1,
                               ![top].frame = frame]
           /\ UNCHANGED inTick

\* A handler that matches the frame calls xbee_dev_tick.
HandlerTicks ==
  /\ stack # <<>> /\ Last(stack).at = "dispatch"
  /\ Last(stack).frame[1] \in Handled
  /\ xbee_dev_tick

\* _xbee_frame_dispatch returns: the loop goes on, or has dispatched enough.
Dispatched ==
  /\ stack # <<>> /\ Last(stack).at = "dispatch"
  /\ IF Last(stack).dispatched = MaxDispatch
     THEN Return
     ELSE /\ stack' = [stack EXCEPT ![Len(stack)].at = "load",
                                    ![Len(stack)].frame = None]
          /\ UNCHANGED inTick
  /\ UNCHANGED <<rx, dev, expect, line, astray, faults>>

Load == \/ WaitStart \/ LengthMsb \/ LengthLsb \/ RxFrame
        \/ Dispatched

\* xbee_ser_rx_flush, while the loader does not run.
Flushed ==
  /\ rx' = <<>>
  /\ expect' = None
  /\ astray' = (astray \/ dev.state # "WAITSTART" \/ line # <<>>)
  /\ UNCHANGED <<dev, inTick, stack>>

-----------------------------------------------------------------------------
(* Properties                                                                *)

FrameTypeOK ==
  /\ rx \in Seq([byte : Byte, frame : Frames \cup {None}])
  /\ Len(rx) <= MaxRx
  /\ dev.state \in {"WAITSTART", "LENGTH_MSB", "LENGTH_LSB", "RXFRAME"}
  /\ dev.state = "RXFRAME" =>
       dev.length \in 2..MaxLength /\ Len(dev.data) <= dev.length
  /\ dev.data \in Seq(Byte) /\ Len(dev.data) <= MaxLength + 1
  /\ inTick = (stack # <<>>) /\ Len(stack) <= 1
  /\ faults \in 0..MaxFaults /\ expect \in Frames \cup {None}

\* While _xbee_frame_dispatch runs its handlers the frame they were given stays
\* in xbee->rx.frame_data: a handler that calls xbee_dev_tick must not get
\* later bytes loaded over it (xbee_device.c:333, "If a frame handler tries to
\* call xbee_dev_tick, don't recurse").
HandlersSeeFrame ==
  \A i \in DOMAIN stack :
    stack[i].at = "dispatch" =>
      SubSeq(dev.data, 1, dev.length) = stack[i].frame

\* Whatever came before it, noise, damaged frames or half of one, a frame whose
\* first byte the loader takes for a start byte is given to the handlers, as it
\* was sent and next: also when that byte is the second of two (line 705) or
\* comes in the place of a length (line 736), and however the bytes are spread
\* over calls.  Only a flush takes it away.
StartSeenDelivered ==
  [][stack # <<>> /\ expect # None /\ expect' # expect
       => stack' # <<>> /\ Last(stack').frame = expect]_frameVars
=============================================================================
