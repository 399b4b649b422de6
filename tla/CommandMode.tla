---------------------------- MODULE CommandMode ----------------------------
(***************************************************************************)
(* The start-up of initXBee, src/src/main.c: the XBee is configured in its *)
(* command mode (src/XBee/xbee_config.c, src/XBee/xbee_atmode.c) first for *)
(* bypass, then the modem behind it is told its radio, then the XBee is    *)
(* configured for API frames, asked what it is, and its APN is set, in     *)
(* command mode again.  In between and afterwards the frame loader reads   *)
(* the same serial port.                                                   *)
(*                                                                         *)
(* Command mode is a dialogue of lines over bytes that may be left from    *)
(* before, with answers that may come after they were given up.  The time  *)
(* of a byte is nothing against the timeouts; an answer comes before them  *)
(* or is late, which is a fault.  The transmit buffer always has room for  *)
(* a command, it is flushed first; the query of the device is in module    *)
(* AtCommand, here it ends at some point.                                  *)
(***************************************************************************)
EXTENDS FrameLoad

CONSTANTS
  BuffSize,     (* RESPONSE_BUFF_SIZE                                       *)
  Names         (* the APNs that the XBee may have, as texts                *)

CR == 13
LF == 10

ASSUME CommandAssumption ==
  /\ BuffSize \in Nat /\ BuffSize > 8
  /\ Names \subseteq Seq(Byte \ {CR})
  /\ MaxRx >= 6   \* room for an answer of the modem

VARIABLES
  task,     (* where mainStartTask is:                                      *)
            (*   pc, job (the call it is in), step (the command), clock,    *)
            (*   ret, buff, and inStep, see Entered                         *)
  port,     (* the serial port: baud and break                              *)
  xbee      (* the XBee, see XBeeInit                                       *)

vars == <<frameVars, task, port, xbee>>

OK == <<79, 75>>
ERROR == <<69, 82, 82, 79, 82>>
Dash == <<45>>
ModemOK == <<CR, LF>> \o OK \o <<CR, LF>>

\* Errors, negative as in the code.
ETIMEDOUT == -116
EAGAIN == -11
ENOSPC == -28
EIO == -5

Target == 115200   \* XBEE_TARGET_BAUD

\* What the calls of configureXBee and configureAPN send, one after the other.
Commands(job) ==
  IF job = "APN" THEN <<"AN", "AN-", "WR">>
                 ELSE <<"RE", "AP", "CP", "BD", "WR">>

\* The registers of an XBee as it is delivered, and after RE.
Fresh == [ap |-> "transparent", bd |-> 9600]

XBeeInit ==
  [mode |-> "data",          \* or "command", "leaving"
   noticed |-> FALSE,        \* the break was answered
   late |-> <<>>,            \* answers that will come late
   set |-> [ap |-> "API", bd |-> Target],     \* the registers,
   saved |-> [ap |-> "API", bd |-> Target],   \*   those in flash,
   now |-> [ap |-> "API", bd |-> Target],     \*   those in effect
   apn |-> Dash]

Init ==
  /\ FrameInit
  /\ task = [pc |-> "start", job |-> "BYPASS", step |-> 1, clock |-> 0,
             ret |-> 0, buff |-> <<>>, inStep |-> FALSE]
  /\ port = [baud |-> Target, break |-> FALSE]
  /\ \E name \in Names :
       \/ xbee = [XBeeInit EXCEPT !.apn = name]
       \/ xbee = [XBeeInit EXCEPT !.apn = name, !.now = Fresh,
                    !.set = Fresh, !.saved = Fresh]

-----------------------------------------------------------------------------
(* The XBee                                                                  *)

XBeeBaud == IF xbee.mode = "data" THEN xbee.now.bd ELSE 9600

\* It answers in time, or late.
Answer(x, text) ==
  \/ /\ line' = line \o Plain(text)
     /\ xbee' = x
     /\ UNCHANGED faults
  \/ /\ faults < MaxFaults
     /\ faults' = faults + 1
     /\ xbee' = [x EXCEPT !.late = @ \o text]
     /\ UNCHANGED line

\* What a command does to the XBee.
Effect(c) ==
  CASE c = "RE" -> [xbee EXCEPT !.set = Fresh]
    [] c = "AP" -> [xbee EXCEPT !.set.ap = task.job]
    [] c = "BD" -> [xbee EXCEPT !.set.bd = Target]
    [] c = "AN-" -> [xbee EXCEPT !.apn = Dash]
    [] c = "WR" -> [xbee EXCEPT !.saved = xbee.set]
    [] c = "CN" -> [xbee EXCEPT !.mode = "leaving"]
    [] OTHER -> xbee

\* What it answers.
Said(c) == (IF c = "AN" THEN xbee.apn ELSE OK) \o <<CR>>

\* The XBee gets a command line: it does it, or refuses it, or, outside of
\* command mode or at another rate, takes it for something else.
Asked(c) ==
  \/ /\ xbee.mode = "command" /\ port.baud = 9600
     /\ Answer(Effect(c), Said(c))
  \/ /\ xbee.mode = "command" /\ port.baud = 9600
     /\ faults < MaxFaults /\ faults' = faults + 1
     /\ line' = line \o Plain(ERROR \o <<CR>>)
     /\ UNCHANGED xbee
  \/ /\ xbee.mode # "command" \/ port.baud # 9600
     /\ UNCHANGED <<line, xbee, faults>>

\* The XBee notices the break and enters command mode.
XBeeBreak ==
  /\ port.break /\ ~xbee.noticed /\ line = <<>>
  /\ Answer([xbee EXCEPT !.mode = "command", !.noticed = TRUE],
            OK \o <<CR>>)
  /\ UNCHANGED <<loadVars, astray, task, port>>

XBeeLate ==
  /\ line = <<>> /\ xbee.late # <<>>
  /\ line' = Plain(xbee.late)
  /\ xbee' = [xbee EXCEPT !.late = <<>>]
  /\ UNCHANGED <<loadVars, astray, faults, task, port>>

\* ATCN was answered, or CT has run out while nobody asks anything.
XBeeLeaves ==
  /\ \/ xbee.mode = "leaving"
     \/ xbee.mode = "command" /\ task.pc \in {"init", "run"}
  /\ line = <<>> /\ xbee.late = <<>>
  /\ xbee' = [xbee EXCEPT !.mode = "data",
                          !.now = xbee.set]
  /\ UNCHANGED <<frameVars, task, port>>

\* The XBee sends what it has to say, when it speaks frames.
XBeeSends ==
  /\ xbee.mode = "data" /\ xbee.now.ap = "API" /\ task.pc # "stop"
  /\ \E f \in Frames : SendFrame(f) \/ (task.pc = "run" /\ SendDamaged(f))
  /\ UNCHANGED <<task, port, xbee>>

\* At another rate a byte is received as some other.
Arrive ==
  /\ line # <<>>
  /\ IF port.baud = XBeeBaud
     THEN Receive(Head(line))
     ELSE Receive([byte |-> 255, frame |-> None])
  /\ UNCHANGED <<task, port, xbee>>

-----------------------------------------------------------------------------
(* enterCommandMode                                                          *)

\* xbee_ser_break(TRUE)
Break ==
  /\ task.pc = "start"
  /\ task' = [task EXCEPT !.pc = "break"]
  /\ port' = [port EXCEPT !.break = TRUE]
  /\ UNCHANGED <<frameVars, xbee>>

\* After TX_BREAK_FLUSH_TIME the port is flushed and set to 9600.
Listen ==
  /\ task.pc = "break"
  /\ task' = [task EXCEPT !.pc = "enter", !.buff = <<>>]
  /\ port' = [port EXCEPT !.baud = 9600]
  /\ Flushed
  /\ UNCHANGED <<line, faults, xbee>>

\* xbee_atmode_read_response: it reads up to a return, or until the buffer is
\* full, or all there is.  The record is what it returns, the text, and how many
\* bytes it takes.
ReadResponse ==
  LET room == BuffSize - 1 - Len(task.buff)
      returns == {i \in DOMAIN rx : rx[i].byte = CR}
      text(n) == task.buff \o [i \in 1..n |-> rx[i].byte]
  IN
  CASE \E i \in returns : i <= room ->
         [ret |-> 0, text |-> text(Min(returns) - 1), read |-> Min(returns)]
    [] Len(rx) >= room /\ \A i \in returns : i > room ->
         [ret |-> ENOSPC, text |-> None, read |-> room]
    [] OTHER ->
         [ret |-> EAGAIN, text |-> text(Len(rx)), read |-> Len(rx)]

Reads ==
  /\ rx # <<>>
  /\ rx' = SubSeq(rx, ReadResponse.read + 1, Len(rx))
  /\ UNCHANGED <<line, dev, inTick, stack, expect, astray, faults>>

\* getResponse calls again.
ReadMore ==
  /\ task.pc \in {"enter", "reply", "left"}
  /\ Reads /\ ReadResponse.ret = EAGAIN
  /\ task' = [task EXCEPT !.buff = ReadResponse.text]
  /\ UNCHANGED <<port, xbee>>

\* getResponse returns.
Responds(pc) == task.pc = pc /\ Reads /\ ReadResponse.ret # EAGAIN

\* Two seconds without an answer, -ETIMEDOUT.
NoAnswer == rx = <<>> /\ line = <<>>

\* enterCommandMode returns: the break ends, and the first command is sent or
\* the caller goes to ERR_EXIT.  inStep is whether it was the answer to the
\* break that ended it, with nothing behind it.
Entered(ret, inStep) ==
  /\ task' = [task EXCEPT !.pc = IF ret < 0 THEN "exit" ELSE "send",
                          !.ret = ret, !.inStep = inStep, !.buff = <<>>,
                          !.clock = 0, !.step = 1]
  /\ port' = [port EXCEPT !.break = FALSE]
  /\ xbee' = [xbee EXCEPT !.noticed = FALSE]

\* A turn of the loop was no success.  Three seconds after it began the loop
\* ends, with what the last turn gave: for a text, its length.
Turn(ret, seconds) ==
  \/ /\ task.clock + seconds < 3
     /\ task' = [task EXCEPT !.clock = @ + seconds, !.buff = <<>>]
     /\ UNCHANGED <<port, xbee>>
  \/ /\ task.clock + seconds >= 3
     /\ Entered(ret, FALSE)

EnterRead ==
  /\ Responds("enter")
  /\ LET text == ReadResponse.text IN
     IF ReadResponse.ret = 0 /\ IsSuffix(OK, text)
     THEN Entered(0, rx' = <<>> /\ line = <<>> /\ xbee.late = <<>>
                       /\ xbee.noticed)
     ELSE \E seconds \in 0..2 :
            Turn(IF Len(text) < 2 THEN ETIMEDOUT ELSE Len(text), seconds)

EnterTimeout ==
  /\ task.pc = "enter" /\ NoAnswer
  /\ Turn(ETIMEDOUT, 2)
  /\ UNCHANGED frameVars

-----------------------------------------------------------------------------
(* configureXBee and configureAPN                                            *)

\* xbee_atmode_send_request
SendRequest ==
  /\ task.pc = "send"
  /\ Asked(Commands(task.job)[task.step])
  /\ task' = [task EXCEPT !.pc = "reply", !.buff = <<>>]
  /\ UNCHANGED <<loadVars, astray, port>>

\* To ERR_EXIT.
ErrExit(ret) ==
  task' = [task EXCEPT !.pc = "exit", !.ret = ret, !.buff = <<>>]

\* Fault: any answer will do.
getOKResponseAny(ret, text) == ret

\* An answer other than OK is -EIO.
getOKResponse(ret, text) == IF ret = 0 /\ text # OK THEN EIO ELSE ret

Replied(ret, text) ==
  LET last == task.step = Len(Commands(task.job))
      reads == Commands(task.job)[task.step] = "AN"
      r == IF reads THEN ret ELSE getOKResponse(ret, text)
  IN
  /\ \/ r < 0 /\ ErrExit(r)
     \/ r = 0 /\ reads /\ text = Dash /\ ErrExit(1)
     \/ r = 0 /\ last /\ ErrExit(0)
     \/ /\ r = 0 /\ ~last /\ ~(reads /\ text = Dash)
        /\ task' = [task EXCEPT !.pc = "send", !.step = @ + 1]
  /\ UNCHANGED <<port, xbee>>

Reply == Responds("reply") /\ Replied(ReadResponse.ret, ReadResponse.text)

ReplyTimeout ==
  /\ task.pc = "reply" /\ NoAnswer
  /\ ErrExit(ETIMEDOUT)
  /\ UNCHANGED <<frameVars, port, xbee>>

-----------------------------------------------------------------------------
(* exitCommandMode                                                           *)

ExitRequest ==
  /\ task.pc = "exit"
  /\ Asked("CN")
  /\ task' = [task EXCEPT !.pc = "left", !.buff = <<>>]
  /\ UNCHANGED <<loadVars, astray, port>>

Left(ret, text) ==
  /\ task' = [task EXCEPT !.buff = <<>>,
              !.pc = IF getOKResponse(ret, text) < 0 THEN "flush" ELSE "wait"]
  /\ UNCHANGED <<port, xbee>>

ExitReply == Responds("left") /\ Left(ReadResponse.ret, ReadResponse.text)

ExitTimeout ==
  /\ task.pc = "left" /\ NoAnswer
  /\ Left(ETIMEDOUT, None)
  /\ UNCHANGED frameVars

\* Time enough for an XBee that is not slow to do what it was told.
Settled == xbee.mode = "leaving" => xbee.late # <<>>

\* The second after ATCN was answered.
ExitWait ==
  /\ task.pc = "wait" /\ Settled
  /\ task' = [task EXCEPT !.pc = "flush"]
  /\ UNCHANGED <<frameVars, port, xbee>>

\* Where the callers go on: initXBee gives up when configureXBee returns
\* anything but 0, and takes no notice of configureAPN.
After(job, ret) ==
  CASE job = "APN" -> "run"
    [] job = "API" -> IF ret # 0 THEN "stop" ELSE "init"
    [] job = "BYPASS" -> IF ret # 0 THEN "stop" ELSE "echo"

\* The port is flushed and gets its baud rate back.  That exitCommandMode may
\* have failed is not looked at.
ExitFlush ==
  /\ task.pc = "flush"
  /\ Flushed
  /\ port' = [port EXCEPT !.baud = Target]
  /\ task' = [task EXCEPT !.pc = After(task.job, task.ret),
                          !.ret = 0, !.step = 1, !.inStep = FALSE]
  /\ UNCHANGED <<line, faults, xbee>>

-----------------------------------------------------------------------------
(* configureXbeeForHologramSim and initXBee                                  *)

\* The modem behind the XBee, in bypass mode.
ModemAsked ==
  \/ /\ xbee.mode = "data" /\ xbee.now = [ap |-> "BYPASS", bd |-> port.baud]
     /\ \/ Answer(xbee, ModemOK)
        \/ /\ faults < MaxFaults /\ faults' = faults + 1
           /\ line' = line \o Plain(<<CR, LF>> \o ERROR \o <<CR, LF>>)
           /\ UNCHANGED xbee
  \/ /\ ~(xbee.mode = "data" /\ xbee.now = [ap |-> "BYPASS",
                                            bd |-> port.baud])
     /\ UNCHANGED <<line, xbee, faults>>

\* After eight seconds the echo is turned off.
Echo ==
  /\ task.pc = "echo" /\ Settled
  /\ ModemAsked
  /\ task' = [task EXCEPT !.pc = "echoed"]
  /\ UNCHANGED <<loadVars, astray, port>>

\* A second later the answer is flushed and the radio chosen.
Urat ==
  /\ task.pc = "echoed" /\ line = <<>>
  /\ Flushed
  /\ ModemAsked
  /\ task' = [task EXCEPT !.pc = "urat", !.buff = <<>>]
  /\ UNCHANGED port

Chosen(ok) ==
  task' = [task EXCEPT !.pc = IF ok THEN "start" ELSE "stop",
                       !.job = "API", !.buff = <<>>]

\* Six characters are read, and have to be the answer.
UratRead ==
  /\ task.pc = "urat" /\ rx # <<>>
  /\ LET left == Len(ModemOK) - Len(task.buff)
         n == IF Len(rx) < left THEN Len(rx) ELSE left
         text == task.buff \o [i \in 1..n |-> rx[i].byte]
     IN
     /\ rx' = SubSeq(rx, n + 1, Len(rx))
     /\ IF n = left THEN Chosen(text = ModemOK)
                    ELSE task' = [task EXCEPT !.buff = text]
  /\ UNCHANGED <<line, dev, inTick, stack, expect, astray, faults, port, xbee>>

\* When fewer have come the rest of the buffer is compared as it is, not
\* initialized.
UratTimeout ==
  /\ task.pc = "urat" /\ NoAnswer
  /\ \E ok \in BOOLEAN :
       (ok => IsPrefix(task.buff, ModemOK)) /\ Chosen(ok)
  /\ UNCHANGED <<frameVars, port, xbee>>

\* xbee_dev_tick of initCommandLayer and of those who wait for frames later.
Tick ==
  /\ task.pc \in {"init", "run"} /\ stack = <<>>
  /\ xbee_dev_tick
  /\ UNCHANGED <<task, port, xbee>>

Loader ==
  /\ Load \/ HandlerTicks
  /\ UNCHANGED <<task, port, xbee>>

\* The query of the device is over: initXBee gives up when it does not know
\* the hardware, or goes on to configureAPN.
QueryEnds ==
  /\ task.pc = "init" /\ stack = <<>>
  /\ \E known \in BOOLEAN :
       task' = [task EXCEPT !.pc = IF known THEN "start" ELSE "stop",
                            !.job = "APN"]
  /\ UNCHANGED <<frameVars, port, xbee>>

Configure ==
  \/ Break \/ Listen \/ ReadMore \/ EnterRead \/ EnterTimeout
  \/ SendRequest \/ Reply \/ ReplyTimeout
  \/ ExitRequest \/ ExitReply \/ ExitTimeout \/ ExitWait \/ ExitFlush
  \/ Echo \/ Urat \/ UratRead \/ UratTimeout \/ QueryEnds

XBee == XBeeBreak \/ XBeeLate \/ XBeeLeaves \/ XBeeSends

Next == Configure \/ Tick \/ Loader \/ XBee \/ Arrive

\* The interrupt is served, and frames are waited for in loops that call
\* xbee_dev_tick: initCommandLayer, httpClientSend, httpClientRecv.
Spec ==
  /\ Init /\ [][Next]_vars
  /\ WF_vars(Arrive) /\ WF_vars(Tick)
  /\ WF_vars(Load /\ UNCHANGED <<task, port, xbee>>)

-----------------------------------------------------------------------------
(* Properties                                                                *)

TypeOK ==
  /\ FrameTypeOK
  /\ task.job \in {"BYPASS", "API", "APN"} /\ task.clock \in 0..2
  /\ Len(task.buff) < BuffSize
  /\ port.break = (task.pc \in {"break", "enter"})
  /\ stack # <<>> => task.pc \in {"init", "run"}

\* When configureXBee returned 0 the XBee holds, and has saved, what it was
\* asked for, and when configureAPN returned no error the APN is the one it
\* sets: although answers come late, are refusals, or follow what was left in
\* the line.  It takes that enterCommandMode was ended by the XBee's answer: the
\* loop also returns the length of any line that it reads when the three seconds
\* are over (xbee_config.c:116), which its callers take for success.
ConfiguredMeansSaved ==
  task.pc = "flush" /\ task.inStep /\ task.ret >= 0 =>
    CASE task.job = "APN" -> xbee.apn = Dash
      [] OTHER -> xbee.saved.ap = task.job /\ xbee.saved.bd = Target

\* "Successfully set the correct APN" (xbee_config.c:169, of the value 0): when
\* configureAPN returns 0, the XBee has that name, whatever answers came late.
\* It does not hold: see the README.
ZeroMeansSet ==
  task.pc = "flush" /\ task.job = "APN" /\ task.ret = 0 => xbee.apn = Dash

\* A frame that the XBee sends once it is configured is given to its handlers,
\* in whatever pieces its bytes come, unless a frame was damaged or a flush of
\* command mode took bytes of one away.
FramesArrive ==
  \A f \in Frames :
    (task.pc = "run" /\ line # <<>> /\ Head(line).frame = f)
      ~> (astray \/ (stack # <<>> /\ Last(stack).frame = f))
=============================================================================
