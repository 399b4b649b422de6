------------------------------ MODULE Pipeline ------------------------------
(***************************************************************************)
(* The application of src/src/main.c: localInTask samples the sensor into  *)
(* local_in_buff, cellTXTask copies the buffer out and posts it to the     *)
(* cloud.  They share the buffer and its count under CellTXBuffMutex and   *)
(* are paced by CellTXBuffSem and by two OSTimeDly periods.  The kernel    *)
(* services the two tasks call (os_sem.c, os_mutex.c, os_time.c) appear    *)
(* with the effect they have on these objects; one CPU runs the ready task *)
(* of the highest priority, and the tick interrupt may fall between any    *)
(* two steps of a task.                                                    *)
(***************************************************************************)
EXTENDS Integers

CONSTANTS
  TxDly,      (* MIN_CONN_IVL, the delay of cellTXTask, in ticks           *)
  InDly,      (* the delay at the end of localInTask's loop, in ticks      *)
  MaxWork,    (* bound: ticks localInTask may be running in one loop pass  *)
  DataLimit   (* DEV_DATA_LIMIT, the number of updates sent before halting *)

\* What the code's figures (1000 against 10) provide: while cellTXTask sleeps,
\* localInTask completes the pass it is in, sleeps, and refills the buffer.
ASSUME TimingAssumption ==
  /\ TxDly \in Nat /\ InDly \in Nat \ {0} /\ MaxWork \in Nat \ {0}
  /\ DataLimit \in Nat \ {0}
  /\ TxDly >= InDly + 2 * MaxWork

Tasks == {"mainStart", "cellTX", "localIn"}
NoTask == "none"

VARIABLES
  pc,          (* where each task is                                       *)
  dly,         (* ticks left of the OSTimeDly each task sleeps in          *)
  work,        (* ticks spent running in this pass of localInTask          *)
  sem,         (* CellTXBuffSem.Ctr                                        *)
  owner,       (* CellTXBuffMutex.OwnerTCBPtr                              *)
  buf,         (* local_in_buff: the two fields snprintf writes in turn    *)
  count,       (* local_in_buff_count, 1 for the length of a reading       *)
  reading,     (* the sensor reading localInTask formatted last            *)
  copy,        (* local_in_cpy                                             *)
  iterations,  (* updates sent                                             *)
  led,         (* what setLed1 shows                                       *)
  result       (* what sendDataToCloud returned last                       *)

vars == <<pc, dly, work, sem, owner, buf, count, reading, copy, iterations,
          led, result>>

-----------------------------------------------------------------------------
(* Readings alternate between 1 and 2, so two in a row are told apart; 0 in  *)
(* the first field is the NUL that empties the string.                       *)

Readings == 1 .. 2
Text == [temp : {0} \cup Readings, hum : {0} \cup Readings]
Empty == [temp |-> 0, hum |-> 0]
AsString(b) == IF b.temp = 0 THEN Empty ELSE b

TxLabels == {"new", "connect", "dly", "sleeping", "semPend", "semWait", "lock",
             "lockWait", "copy", "unlock", "send", "semSet", "limitLock",
             "limitWait", "halt"}
InLabels == {"new", "clearLock", "clearWait", "clear", "clearUnlock", "read",
             "lock", "lockWait", "temp", "hum", "count", "unlock", "post",
             "dly", "sleeping"}
MainLabels == {"create", "return", "deleted"}

\* The label a task goes on from once the kernel readies it.
Resumed(l) ==
  CASE l = "semWait"   -> "lock"
    [] l = "clearWait" -> "clear"
    [] l = "limitWait" -> "halt"

AfterLock(t) ==
  IF pc[t] = "lockWait" THEN IF t = "cellTX" THEN "copy" ELSE "temp"
  ELSE Resumed(pc[t])

AfterDly(t) == IF t = "cellTX" THEN "semPend" ELSE "read"

-----------------------------------------------------------------------------
(* Scheduling                                                                *)

BasePrio(t) == CASE t = "cellTX" -> 20 [] t = "mainStart" -> 21 [] t = "localIn" -> 26

MutexWaits == {"lockWait", "clearWait", "limitWait"}
MutexWaiters == {t \in Tasks : pc[t] \in MutexWaits}

\* OSMutexPend lends the waiter's priority to the owner, OSMutexPost returns it.
Prio(t) == IF t = owner /\ \E w \in MutexWaiters : BasePrio(w) < BasePrio(t)
           THEN 20 ELSE BasePrio(t)

Ready(t) == pc[t] \notin {"new", "deleted", "sleeping", "semWait"} \cup MutexWaits

Runs(t) == Ready(t) /\ \A u \in Tasks \ {t} : Ready(u) => Prio(t) < Prio(u)

Goto(t, l) == pc' = [pc EXCEPT ![t] = l]

-----------------------------------------------------------------------------
(* Kernel services                                                           *)

OSSemPend(t, next, wait) ==
  IF sem > 0 THEN sem' = sem - 1 /\ Goto(t, next)
             ELSE UNCHANGED sem /\ Goto(t, wait)

SemWaiters == {t \in Tasks : pc[t] = "semWait"}

OSSemPost(t, next) ==
  \/ /\ SemWaiters = {}
     /\ sem' = sem + 1
     /\ Goto(t, next)
  \/ \E w \in SemWaiters :
       /\ pc' = [pc EXCEPT ![t] = next, ![w] = Resumed("semWait")]
       /\ UNCHANGED sem

OSSemSet(n) == sem' = IF sem > 0 \/ SemWaiters = {} THEN n ELSE sem

OSMutexPend(t, next, wait) ==
  IF owner = NoTask THEN owner' = t /\ Goto(t, next)
                    ELSE UNCHANGED owner /\ Goto(t, wait)

OSMutexPost(t, next) ==
  IF owner # t THEN UNCHANGED owner /\ Goto(t, next)
  ELSE \/ /\ MutexWaiters = {}
          /\ owner' = NoTask
          /\ Goto(t, next)
       \/ \E w \in MutexWaiters :
            /\ owner' = w
            /\ pc' = [pc EXCEPT ![t] = next, ![w] = AfterLock(w)]

OSTimeDly(t, n) ==
  IF n = 0 THEN UNCHANGED dly /\ Goto(t, AfterDly(t))
  ELSE dly' = [dly EXCEPT ![t] = n] /\ Goto(t, "sleeping")

\* The tick: it counts down the delay list and readies what has expired.  It
\* falls anywhere, but localInTask needs at most MaxWork ticks of CPU a pass.
OSTimeTick ==
  /\ IF Runs("localIn") THEN work < MaxWork /\ work' = work + 1
                        ELSE UNCHANGED work
  /\ dly' = [t \in Tasks |-> IF pc[t] = "sleeping" THEN dly[t] - 1 ELSE dly[t]]
  /\ pc' = [t \in Tasks |-> IF pc[t] = "sleeping" /\ dly[t] = 1
                            THEN AfterDly(t) ELSE pc[t]]
  /\ UNCHANGED <<sem, owner, buf, count, reading, copy, iterations, led, result>>

-----------------------------------------------------------------------------
(* mainStartTask, once the board and the XBee are up                         *)

MainCreatesCellTX ==
  /\ Runs("mainStart") /\ pc["mainStart"] = "create"
  /\ pc' = [pc EXCEPT !["mainStart"] = "return", !["cellTX"] = "connect"]
  /\ UNCHANGED <<dly, work, sem, owner, buf, count, reading, copy, iterations,
                 led, result>>

\* The task function returns: OS_TaskReturn deletes the task.
MainReturns ==
  /\ Runs("mainStart") /\ pc["mainStart"] = "return"
  /\ Goto("mainStart", "deleted")
  /\ UNCHANGED <<dly, work, sem, owner, buf, count, reading, copy, iterations,
                 led, result>>

-----------------------------------------------------------------------------
(* cellTXTask                                                                *)

Tx(l) == Runs("cellTX") /\ pc["cellTX"] = l

\* httpClientInitConnection blocks until the name resolves; its result is not
\* looked at, and localInTask is created next.
TxConnect ==
  /\ Tx("connect")
  /\ pc' = [pc EXCEPT !["cellTX"] = "dly", !["localIn"] = "clearLock"]
  /\ UNCHANGED <<dly, work, sem, owner, buf, count, reading, copy, iterations,
                 led, result>>

TxDelay ==
  /\ Tx("dly")
  /\ OSTimeDly("cellTX", TxDly)
  /\ UNCHANGED <<work, sem, owner, buf, count, reading, copy, iterations, led,
                 result>>

\* Fault: pends with OS_OPT_PEND_NON_BLOCKING, and the error is not looked at.
TxSemPendNonBlocking ==
  /\ Tx("semPend")
  /\ led' = "yellow"
  /\ OSSemPend("cellTX", "lock", "lock")
  /\ UNCHANGED <<dly, work, owner, buf, count, reading, copy, iterations, result>>

TxSemPend ==
  /\ Tx("semPend")
  /\ led' = "yellow"
  /\ OSSemPend("cellTX", "lock", "semWait")
  /\ UNCHANGED <<dly, work, owner, buf, count, reading, copy, iterations, result>>

\* Fault: the buffer is read without the mutex.
TxLockSkipped ==
  /\ Tx("lock")
  /\ Goto("cellTX", "copy")
  /\ UNCHANGED <<dly, work, sem, owner, buf, count, reading, copy, iterations,
                 led, result>>

TxLock ==
  /\ Tx("lock")
  /\ OSMutexPend("cellTX", "copy", "lockWait")
  /\ UNCHANGED <<dly, work, sem, buf, count, reading, copy, iterations, led,
                 result>>

\* Fault: the count is left as it was.
TxCopyKeepsCount ==
  /\ Tx("copy")
  /\ copy' = AsString(buf)
  /\ buf' = [buf EXCEPT !.temp = 0]
  /\ Goto("cellTX", "unlock")
  /\ UNCHANGED <<dly, work, sem, owner, count, reading, iterations, led, result>>

TxCopy ==
  /\ Tx("copy")
  /\ copy' = AsString(buf)
  /\ buf' = [buf EXCEPT !.temp = 0]
  /\ count' = 0
  /\ Goto("cellTX", "unlock")
  /\ UNCHANGED <<dly, work, sem, owner, reading, iterations, led, result>>

TxUnlock ==
  /\ Tx("unlock")
  /\ OSMutexPost("cellTX", "send")
  /\ led' = "red"
  /\ UNCHANGED <<dly, work, sem, buf, count, reading, copy, iterations, result>>

\* sendDataToCloud waits without a timeout and without yielding; whatever it
\* returns, the LED turns green.
TxSend ==
  /\ Tx("send")
  /\ result' \in {"sent", "failed"}
  /\ led' = "green"
  /\ copy' = Empty
  /\ Goto("cellTX", "semSet")
  /\ UNCHANGED <<dly, work, sem, owner, buf, count, reading, iterations>>

\* Fault: the limit is compared one too late.
TxSemSetLate ==
  /\ Tx("semSet")
  /\ OSSemSet(0)
  /\ iterations' = iterations + 1
  /\ Goto("cellTX", IF iterations' > DataLimit THEN "limitLock" ELSE "dly")
  /\ UNCHANGED <<dly, work, owner, buf, count, reading, copy, led, result>>

TxSemSet ==
  /\ Tx("semSet")
  /\ OSSemSet(0)
  /\ iterations' = iterations + 1
  /\ Goto("cellTX", IF iterations' >= DataLimit THEN "limitLock" ELSE "dly")
  /\ UNCHANGED <<dly, work, owner, buf, count, reading, copy, led, result>>

\* DEV_DATA_LIMIT reached: the task keeps the mutex and spins.
TxLimit ==
  /\ Tx("limitLock")
  /\ OSMutexPend("cellTX", "halt", "limitWait")
  /\ UNCHANGED <<dly, work, sem, buf, count, reading, copy, iterations, led,
                 result>>

-----------------------------------------------------------------------------
(* localInTask                                                               *)

In(l) == Runs("localIn") /\ pc["localIn"] = l

InClearLock ==
  /\ In("clearLock")
  /\ OSMutexPend("localIn", "clear", "clearWait")
  /\ UNCHANGED <<dly, work, sem, buf, count, reading, copy, iterations, led,
                 result>>

InClear ==
  /\ In("clear")
  /\ count' = 0
  /\ Goto("localIn", "clearUnlock")
  /\ UNCHANGED <<dly, work, sem, owner, buf, reading, copy, iterations, led,
                 result>>

InClearUnlock ==
  /\ In("clearUnlock")
  /\ OSMutexPost("localIn", "read")
  /\ UNCHANGED <<dly, work, sem, buf, count, reading, copy, iterations, led,
                 result>>

\* tempSensorReadHumTemp and the two strFixedPt calls; an error text counts as
\* a reading.
InRead ==
  /\ In("read")
  /\ reading' = 3 - reading
  /\ Goto("localIn", "lock")
  /\ UNCHANGED <<dly, work, sem, owner, buf, count, copy, iterations, led, result>>

InLock ==
  /\ In("lock")
  /\ OSMutexPend("localIn", "temp", "lockWait")
  /\ UNCHANGED <<dly, work, sem, buf, count, reading, copy, iterations, led,
                 result>>

\* snprintf fills the buffer from the left: a switch between the two fields
\* leaves the new temperature before the old humidity.
InWriteTemp ==
  /\ In("temp")
  /\ buf' = [buf EXCEPT !.temp = reading]
  /\ Goto("localIn", "hum")
  /\ UNCHANGED <<dly, work, sem, owner, count, reading, copy, iterations, led,
                 result>>

InWriteHum ==
  /\ In("hum")
  /\ buf' = [buf EXCEPT !.hum = reading]
  /\ Goto("localIn", "count")
  /\ UNCHANGED <<dly, work, sem, owner, count, reading, copy, iterations, led,
                 result>>

InCount ==
  /\ In("count")
  /\ count' = 1
  /\ Goto("localIn", "unlock")
  /\ UNCHANGED <<dly, work, sem, owner, buf, reading, copy, iterations, led,
                 result>>

InUnlock ==
  /\ In("unlock")
  /\ OSMutexPost("localIn", "post")
  /\ UNCHANGED <<dly, work, sem, buf, count, reading, copy, iterations, led,
                 result>>

\* Fault: the reading is stored but never signalled.
InPostSkipped ==
  /\ In("post")
  /\ Goto("localIn", "dly")
  /\ UNCHANGED <<dly, work, sem, owner, buf, count, reading, copy, iterations,
                 led, result>>

InPost ==
  /\ In("post")
  /\ OSSemPost("localIn", "dly")
  /\ UNCHANGED <<dly, work, owner, buf, count, reading, copy, iterations, led,
                 result>>

InDelay ==
  /\ In("dly")
  /\ OSTimeDly("localIn", InDly)
  /\ work' = 0
  /\ UNCHANGED <<sem, owner, buf, count, reading, copy, iterations, led, result>>

-----------------------------------------------------------------------------
Init ==
  /\ pc = [t \in Tasks |-> IF t = "mainStart" THEN "create" ELSE "new"]
  /\ dly = [t \in Tasks |-> 0]
  /\ work = 0
  /\ sem = 0
  /\ owner = NoTask
  /\ buf = Empty
  /\ count = 0
  /\ reading = 2
  /\ copy = Empty
  /\ iterations = 0
  /\ led = "off"
  /\ result = "none"

MainNext == MainCreatesCellTX \/ MainReturns

TxNext == \/ TxConnect \/ TxDelay \/ TxSemPend \/ TxLock \/ TxCopy \/ TxUnlock
          \/ TxSend \/ TxSemSet \/ TxLimit

InNext == \/ InClearLock \/ InClear \/ InClearUnlock \/ InRead \/ InLock
          \/ InWriteTemp \/ InWriteHum \/ InCount \/ InUnlock \/ InPost \/ InDelay

Next == OSTimeTick \/ MainNext \/ TxNext \/ InNext

Spec == Init /\ [][Next]_vars

\* The tick keeps coming and the CPU keeps executing the running task.  Nothing
\* is assumed of the network: TxConnect and TxSend may never return.
Fairness ==
  /\ WF_vars(OSTimeTick)
  /\ WF_vars(MainNext)
  /\ WF_vars(InNext)
  /\ WF_vars(TxDelay \/ TxSemPend \/ TxLock \/ TxCopy \/ TxUnlock \/ TxSemSet
             \/ TxLimit)

FairSpec == Spec /\ Fairness

-----------------------------------------------------------------------------
(* Properties                                                                *)

\* The values each variable takes; the bounds on the delays are those OSTimeDly
\* sets and OSTimeTick counts down from.
TypeOK ==
  /\ pc \in [Tasks -> TxLabels \cup InLabels \cup MainLabels]
  /\ pc["cellTX"] \in TxLabels
  /\ pc["localIn"] \in InLabels
  /\ pc["mainStart"] \in MainLabels
  /\ dly \in [Tasks -> Nat]
  /\ work \in 0 .. MaxWork
  /\ sem \in Nat
  /\ owner \in {NoTask, "cellTX", "localIn"}
  /\ buf \in Text
  /\ count \in 0 .. 1
  /\ reading \in Readings
  /\ copy \in Text
  /\ iterations \in 0 .. DataLimit
  /\ led \in {"off", "yellow", "red", "green"}
  /\ result \in {"none", "sent", "failed"}

\* "Mutex to prevent concurrent access to the buffer AND count" (main.c:123):
\* what cellTXTask sends is one reading, never the temperature of one and the
\* humidity of another, although it preempts localInTask in mid-write.
NoTornSend == pc["cellTX"] \in {"unlock", "send"} => copy.temp = copy.hum

\* Whenever nobody holds the mutex the count says whether the buffer holds a
\* reading ("Must be updated w/ every snprintf or strcpy", main.c:126).
CountMatchesBuffer == owner = NoTask => (count = 0 <=> buf.temp = 0)

\* A permit taken from the semaphore stands for a reading not sent before:
\* cellTXTask never sends the buffer it emptied itself ("Reset the SEM to
\* ensure we have a new reading on the next send", main.c:641), even when
\* localInTask was preempted between OSMutexPost and OSSemPost.
FreshSend == pc["cellTX"] = "send" => copy.temp # 0

\* cellTXTask keeps sending until the limit, unless the network holds it: it
\* never waits forever for a permit or for the mutex.
KeepsSending == []<>(pc["cellTX"] \in {"connect", "send", "halt"})

\* "Set green for sent" (main.c:638): the green LED tells that the last
\* sendDataToCloud succeeded.
GreenMeansSent == led = "green" => result = "sent"
=============================================================================
