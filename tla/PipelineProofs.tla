--------------------------- MODULE PipelineProofs ---------------------------
(***************************************************************************)
(* What TLC checks of Pipeline for three updates, proved for every limit   *)
(* and every length of the delays that the timing assumption allows:       *)
(* types, that the mutex keeps buffer and count whole, and that every      *)
(* reading sent is a new one, which rests on the priorities and on the     *)
(* ticks that localInTask needs to overwrite what has been sent.           *)
(***************************************************************************)
EXTENDS Pipeline, TLAPS

(* The inductive invariant.                                                  *)

\* A task that has not been created has not run: its creator is still before
\* OSTaskCreate.
Startup ==
  /\ pc["mainStart"] = "create" => pc["cellTX"] = "new"
  /\ pc["cellTX"] \in {"new", "connect"} => pc["localIn"] = "new"

\* A sleeping task has ticks left, so that the tick counts down within Nat.
Sleepers == \A t \in Tasks : pc[t] = "sleeping" => dly[t] > 0

\* Only the last update leads to the end of cellTXTask.
BelowLimit ==
  pc["cellTX"] \notin {"limitLock", "limitWait", "halt"} => iterations < DataLimit

TxHolds == {"copy", "unlock", "halt"}
InHolds == {"clear", "clearUnlock", "temp", "hum", "count", "unlock"}

\* A task owns the mutex exactly between its OSMutexPend and its OSMutexPost.
MutexHeld ==
  /\ pc["cellTX"] \in TxHolds <=> owner = "cellTX"
  /\ pc["localIn"] \in InHolds <=> owner = "localIn"

\* The buffer holds one reading, or none, and the count says which, except
\* between the writes of localInTask.
BufferWhole ==
  /\ pc["localIn"] \in {"hum", "count"} => buf.temp = reading
  /\ pc["localIn"] # "hum" => buf.temp = 0 \/ buf.temp = buf.hum
  /\ pc["localIn"] \notin {"hum", "count"} => (count = 0 <=> buf.temp = 0)

\* Until localInTask has cleared the count there is nothing in the buffer.
StartsEmpty ==
  pc["localIn"] \in {"new", "clearLock", "clearWait", "clear"} => buf.temp = 0

\* What has been copied is whole until it is sent.
CopyWhole == pc["cellTX"] \in {"unlock", "send"} => copy.temp = copy.hum

TypeInv == TypeOK /\ Startup /\ Sleepers /\ BelowLimit

IInv == TypeInv /\ MutexHeld /\ BufferWhole /\ StartsEmpty /\ CopyWhole

-----------------------------------------------------------------------------
(* What the kernel services do to the labels of the tasks they wake.         *)

\* OSSemPost wakes cellTXTask only, and leads it to the mutex.
LEMMA WokenBySem ==
  ASSUME TypeOK, NEW w \in SemWaiters
  PROVE  w = "cellTX" /\ pc[w] = "semWait" /\ Resumed("semWait") = "lock"
  BY DEF TypeOK, SemWaiters, Resumed, Tasks, InLabels, MainLabels

\* OSMutexPost makes a waiter the owner, just behind its OSMutexPend.
LEMMA WokenByMutex ==
  ASSUME TypeOK, NEW w \in MutexWaiters
  PROVE  \/ w = "cellTX"  /\ pc[w] = "lockWait"  /\ AfterLock(w) = "copy"
         \/ w = "cellTX"  /\ pc[w] = "limitWait" /\ AfterLock(w) = "halt"
         \/ w = "localIn" /\ AfterLock(w) \in {"temp", "clear"}
<1>1. w \in {"cellTX", "localIn"}
  BY DEF TypeOK, MutexWaiters, MutexWaits, Tasks, MainLabels
<1>2. CASE w = "cellTX"
  <2>1. pc[w] \in {"lockWait", "limitWait"}
    BY <1>2 DEF TypeOK, MutexWaiters, MutexWaits, TxLabels
  <2> QED
    BY <1>2, <2>1 DEF AfterLock, Resumed
<1>3. CASE w = "localIn"
  <2>1. pc[w] \in {"lockWait", "clearWait"}
    BY <1>3 DEF TypeOK, MutexWaiters, MutexWaits, InLabels
  <2> QED
    BY <1>3, <2>1 DEF AfterLock, Resumed
<1> QED
  BY <1>1, <1>2, <1>3

\* Only localInTask can be woken inside it by cellTXTask, before its clear only
\* while the buffer is still empty.
LEMMA WokenToClear ==
  ASSUME TypeOK, NEW w \in MutexWaiters, AfterLock(w) = "clear"
  PROVE  pc[w] = "clearWait"
  BY DEF TypeOK, MutexWaiters, MutexWaits, AfterLock, Resumed, Tasks

-----------------------------------------------------------------------------
(* Each part of the invariant is kept by every step.                         *)

\* Types, the order of creation, the ticks left and the limit.
LEMMA TypeStep ==
  ASSUME TypeInv, [Next]_vars
  PROVE  TypeInv'
<1> USE DEF TypeInv, TypeOK, Startup, Sleepers, BelowLimit, Tasks, NoTask, TxLabels, InLabels,
         MainLabels, Readings, Text, Empty, Goto
<1>1. CASE OSTimeTick
  BY <1>1, TimingAssumption DEF OSTimeTick, AfterDly
<1>2. CASE MainNext
  BY <1>2 DEF MainNext, MainCreatesCellTX, MainReturns
<1>3. CASE TxNext
  <2>1. CASE TxConnect
    BY <2>1 DEF TxConnect, Tx
  <2>2. CASE TxDelay
    BY <2>2, TimingAssumption DEF TxDelay, Tx, OSTimeDly, AfterDly
  <2>3. CASE TxSemPend
    BY <2>3 DEF TxSemPend, Tx, OSSemPend
  <2>4. CASE TxLock
    BY <2>4 DEF TxLock, Tx, OSMutexPend
  <2>5. CASE TxCopy
    BY <2>5 DEF TxCopy, Tx, AsString
  <2>6. CASE TxUnlock
    BY <2>6, WokenByMutex DEF TxUnlock, Tx, OSMutexPost
  <2>7. CASE TxSend
    BY <2>7 DEF TxSend, Tx
  <2>8. CASE TxSemSet
    BY <2>8, TimingAssumption DEF TxSemSet, Tx, OSSemSet
  <2>9. CASE TxLimit
    BY <2>9 DEF TxLimit, Tx, OSMutexPend
  <2> QED
    BY <1>3, <2>1, <2>2, <2>3, <2>4, <2>5, <2>6, <2>7, <2>8, <2>9 DEF TxNext
<1>4. CASE InNext
  <2>1. CASE InClearLock
    BY <2>1 DEF InClearLock, In, OSMutexPend
  <2>2. CASE InClear
    BY <2>2 DEF InClear, In
  <2>3. CASE InClearUnlock
    BY <2>3, WokenByMutex DEF InClearUnlock, In, OSMutexPost
  <2>4. CASE InRead
    BY <2>4 DEF InRead, In
  <2>5. CASE InLock
    BY <2>5 DEF InLock, In, OSMutexPend
  <2>6. CASE InWriteTemp
    BY <2>6 DEF InWriteTemp, In
  <2>7. CASE InWriteHum
    BY <2>7 DEF InWriteHum, In
  <2>8. CASE InCount
    BY <2>8 DEF InCount, In
  <2>9. CASE InUnlock
    BY <2>9, WokenByMutex DEF InUnlock, In, OSMutexPost
  <2>10. CASE InPost
    BY <2>10, WokenBySem DEF InPost, In, OSSemPost
  <2>11. CASE InDelay
    BY <2>11, TimingAssumption DEF InDelay, In, OSTimeDly, AfterDly
  <2> QED
    BY <1>4, <2>1, <2>2, <2>3, <2>4, <2>5, <2>6, <2>7, <2>8, <2>9, <2>10, <2>11 DEF InNext
<1>5. CASE UNCHANGED vars
  BY <1>5 DEF vars
<1> QED
  BY <1>1, <1>2, <1>3, <1>4, <1>5 DEF Next

\* Mutual exclusion.
LEMMA MutexStep ==
  ASSUME TypeInv, MutexHeld, [Next]_vars
  PROVE  MutexHeld'
<1> USE DEF TypeInv, TypeOK, Startup, MutexHeld, TxHolds, InHolds, Tasks, NoTask, Goto
<1>1. CASE OSTimeTick
  BY <1>1 DEF OSTimeTick, AfterDly
<1>2. CASE MainNext
  BY <1>2 DEF MainNext, MainCreatesCellTX, MainReturns
<1>3. CASE TxNext
  <2>1. CASE TxConnect
    BY <2>1 DEF TxConnect, Tx
  <2>2. CASE TxDelay
    BY <2>2 DEF TxDelay, Tx, OSTimeDly, AfterDly
  <2>3. CASE TxSemPend
    BY <2>3 DEF TxSemPend, Tx, OSSemPend
  <2>4. CASE TxLock
    BY <2>4 DEF TxLock, Tx, OSMutexPend
  <2>5. CASE TxCopy
    BY <2>5 DEF TxCopy, Tx
  <2>6. CASE TxUnlock
    BY <2>6, WokenByMutex DEF TxUnlock, Tx, OSMutexPost
  <2>7. CASE TxSend
    BY <2>7 DEF TxSend, Tx
  <2>8. CASE TxSemSet
    BY <2>8 DEF TxSemSet, Tx, OSSemSet
  <2>9. CASE TxLimit
    BY <2>9 DEF TxLimit, Tx, OSMutexPend
  <2> QED
    BY <1>3, <2>1, <2>2, <2>3, <2>4, <2>5, <2>6, <2>7, <2>8, <2>9 DEF TxNext
<1>4. CASE InNext
  <2>1. CASE InClearLock
    BY <2>1 DEF InClearLock, In, OSMutexPend
  <2>2. CASE InClear
    BY <2>2 DEF InClear, In
  <2>3. CASE InClearUnlock
    BY <2>3, WokenByMutex DEF InClearUnlock, In, OSMutexPost
  <2>4. CASE InRead
    BY <2>4 DEF InRead, In
  <2>5. CASE InLock
    BY <2>5 DEF InLock, In, OSMutexPend
  <2>6. CASE InWriteTemp
    BY <2>6 DEF InWriteTemp, In
  <2>7. CASE InWriteHum
    BY <2>7 DEF InWriteHum, In
  <2>8. CASE InCount
    BY <2>8 DEF InCount, In
  <2>9. CASE InUnlock
    BY <2>9, WokenByMutex DEF InUnlock, In, OSMutexPost
  <2>10. CASE InPost
    BY <2>10, WokenBySem DEF InPost, In, OSSemPost
  <2>11. CASE InDelay
    BY <2>11 DEF InDelay, In, OSTimeDly, AfterDly
  <2> QED
    BY <1>4, <2>1, <2>2, <2>3, <2>4, <2>5, <2>6, <2>7, <2>8, <2>9, <2>10, <2>11 DEF InNext
<1>5. CASE UNCHANGED vars
  BY <1>5 DEF vars
<1> QED
  BY <1>1, <1>2, <1>3, <1>4, <1>5 DEF Next

\* The buffer and its count.
LEMMA BufferStep ==
  ASSUME TypeInv, MutexHeld, BufferWhole, StartsEmpty, [Next]_vars
  PROVE  BufferWhole' /\ StartsEmpty'
<1> USE DEF TypeInv, TypeOK, Startup, MutexHeld, BufferWhole, StartsEmpty, TxHolds, InHolds,
         Tasks, NoTask, Readings, Text, Goto
<1>1. CASE OSTimeTick
  BY <1>1 DEF OSTimeTick, AfterDly
<1>2. CASE MainNext
  BY <1>2 DEF MainNext, MainCreatesCellTX, MainReturns
<1>3. CASE TxNext
  <2>1. CASE TxConnect
    BY <2>1 DEF TxConnect, Tx
  <2>2. CASE TxDelay
    BY <2>2 DEF TxDelay, Tx, OSTimeDly, AfterDly
  <2>3. CASE TxSemPend
    BY <2>3 DEF TxSemPend, Tx, OSSemPend
  <2>4. CASE TxLock
    BY <2>4 DEF TxLock, Tx, OSMutexPend
  <2>5. CASE TxCopy
    BY <2>5 DEF TxCopy, Tx
  <2>6. CASE TxUnlock
    BY <2>6, WokenByMutex, WokenToClear DEF TxUnlock, Tx, OSMutexPost
  <2>7. CASE TxSend
    BY <2>7 DEF TxSend, Tx
  <2>8. CASE TxSemSet
    BY <2>8 DEF TxSemSet, Tx, OSSemSet
  <2>9. CASE TxLimit
    BY <2>9 DEF TxLimit, Tx, OSMutexPend
  <2> QED
    BY <1>3, <2>1, <2>2, <2>3, <2>4, <2>5, <2>6, <2>7, <2>8, <2>9 DEF TxNext
<1>4. CASE InNext
  <2>1. CASE InClearLock
    BY <2>1 DEF InClearLock, In, OSMutexPend
  <2>2. CASE InClear
    BY <2>2 DEF InClear, In
  <2>3. CASE InClearUnlock
    BY <2>3, WokenByMutex, WokenToClear DEF InClearUnlock, In, OSMutexPost
  <2>4. CASE InRead
    BY <2>4 DEF InRead, In
  <2>5. CASE InLock
    BY <2>5 DEF InLock, In, OSMutexPend
  <2>6. CASE InWriteTemp
    BY <2>6 DEF InWriteTemp, In
  <2>7. CASE InWriteHum
    BY <2>7 DEF InWriteHum, In
  <2>8. CASE InCount
    BY <2>8 DEF InCount, In
  <2>9. CASE InUnlock
    BY <2>9, WokenByMutex, WokenToClear DEF InUnlock, In, OSMutexPost
  <2>10. CASE InPost
    BY <2>10, WokenBySem DEF InPost, In, OSSemPost
  <2>11. CASE InDelay
    BY <2>11 DEF InDelay, In, OSTimeDly, AfterDly
  <2> QED
    BY <1>4, <2>1, <2>2, <2>3, <2>4, <2>5, <2>6, <2>7, <2>8, <2>9, <2>10, <2>11 DEF InNext
<1>5. CASE UNCHANGED vars
  BY <1>5 DEF vars
<1> QED
  BY <1>1, <1>2, <1>3, <1>4, <1>5 DEF Next

\* The copy.
LEMMA CopyStep ==
  ASSUME TypeInv, MutexHeld, BufferWhole, CopyWhole, [Next]_vars
  PROVE  CopyWhole'
<1> USE DEF TypeInv, TypeOK, Startup, MutexHeld, BufferWhole, CopyWhole, TxHolds, InHolds,
         Tasks, NoTask, Text, Empty, Goto
<1>1. CASE OSTimeTick
  BY <1>1 DEF OSTimeTick, AfterDly
<1>2. CASE MainNext
  BY <1>2 DEF MainNext, MainCreatesCellTX, MainReturns
<1>3. CASE TxNext
  <2>1. CASE TxConnect
    BY <2>1 DEF TxConnect, Tx
  <2>2. CASE TxDelay
    BY <2>2 DEF TxDelay, Tx, OSTimeDly, AfterDly
  <2>3. CASE TxSemPend
    BY <2>3 DEF TxSemPend, Tx, OSSemPend
  <2>4. CASE TxLock
    BY <2>4 DEF TxLock, Tx, OSMutexPend
  <2>5. CASE TxCopy
    BY <2>5 DEF TxCopy, Tx, AsString
  <2>6. CASE TxUnlock
    BY <2>6, WokenByMutex DEF TxUnlock, Tx, OSMutexPost
  <2>7. CASE TxSend
    BY <2>7 DEF TxSend, Tx
  <2>8. CASE TxSemSet
    BY <2>8 DEF TxSemSet, Tx, OSSemSet
  <2>9. CASE TxLimit
    BY <2>9 DEF TxLimit, Tx, OSMutexPend
  <2> QED
    BY <1>3, <2>1, <2>2, <2>3, <2>4, <2>5, <2>6, <2>7, <2>8, <2>9 DEF TxNext
<1>4. CASE InNext
  <2>1. CASE InClearLock
    BY <2>1 DEF InClearLock, In, OSMutexPend
  <2>2. CASE InClear
    BY <2>2 DEF InClear, In
  <2>3. CASE InClearUnlock
    BY <2>3, WokenByMutex DEF InClearUnlock, In, OSMutexPost
  <2>4. CASE InRead
    BY <2>4 DEF InRead, In
  <2>5. CASE InLock
    BY <2>5 DEF InLock, In, OSMutexPend
  <2>6. CASE InWriteTemp
    BY <2>6 DEF InWriteTemp, In
  <2>7. CASE InWriteHum
    BY <2>7 DEF InWriteHum, In
  <2>8. CASE InCount
    BY <2>8 DEF InCount, In
  <2>9. CASE InUnlock
    BY <2>9, WokenByMutex DEF InUnlock, In, OSMutexPost
  <2>10. CASE InPost
    BY <2>10, WokenBySem DEF InPost, In, OSSemPost
  <2>11. CASE InDelay
    BY <2>11 DEF InDelay, In, OSTimeDly, AfterDly
  <2> QED
    BY <1>4, <2>1, <2>2, <2>3, <2>4, <2>5, <2>6, <2>7, <2>8, <2>9, <2>10, <2>11 DEF InNext
<1>5. CASE UNCHANGED vars
  BY <1>5 DEF vars
<1> QED
  BY <1>1, <1>2, <1>3, <1>4, <1>5 DEF Next


-----------------------------------------------------------------------------
(* What cellTXTask sends is new.                                             *)

\* Who waits for the mutex waits for the other task.
WaitsForOther ==
  /\ pc["cellTX"] \in {"lockWait", "limitWait"} => owner = "localIn"
  /\ pc["localIn"] \in {"lockWait", "clearWait"} => owner = "cellTX"

\* localInTask, of the lowest priority, runs when mainStartTask is gone.
MainGone == pc["localIn"] \notin {"new", "clearLock"} => pc["mainStart"] = "deleted"

\* There is no permit before the first reading, nor when the delay begins.
NoPermit ==
  /\ pc["localIn"] \in {"new", "clearLock", "clearWait", "clear", "clearUnlock"} => sem = 0
  /\ pc["cellTX"] = "dly" => sem = 0

Written == pc["localIn"] = "unlock" => buf.temp # 0

\* cellTXTask comes in between the write and its signal by a tick, which
\* localInTask was running for.
Interrupted ==
  /\ pc["cellTX"] \in {"semPend", "lock", "lockWait", "copy"}
     /\ pc["localIn"] \in {"temp", "hum", "count", "unlock"} => work > 0
  /\ pc["cellTX"] \in {"semPend", "lock", "lockWait", "copy", "unlock", "send", "semSet", "dly"}
     /\ pc["localIn"] = "post" => work > 0

\* A permit, or one that is about to be given, for a buffer that was sent.
Stale == buf.temp = 0 /\ (sem > 0 \/ pc["localIn"] = "post")

\* The ticks until localInTask has written the next reading.
TicksToWrite ==
  CASE pc["localIn"] \in {"post", "dly"} -> (MaxWork - work) + (InDly + MaxWork)
    [] pc["localIn"] = "sleeping" -> dly["localIn"] + (MaxWork - work)
    [] OTHER -> MaxWork - work

\* It comes before cellTXTask looks for a permit.
WrittenInTime ==
  /\ pc["cellTX"] = "sleeping" /\ Stale => TicksToWrite < dly["cellTX"]
  /\ pc["cellTX"] = "semPend" => ~Stale
  /\ pc["cellTX"] = "semWait" /\ pc["localIn"] = "post" => buf.temp # 0

PermitIsFresh ==
  /\ pc["cellTX"] \in {"lock", "lockWait", "copy"} => buf.temp # 0
  /\ pc["cellTX"] \in {"unlock", "send"} => copy.temp # 0

FreshInv == /\ WaitsForOther /\ MainGone /\ NoPermit /\ Written /\ Interrupted
            /\ WrittenInTime /\ PermitIsFresh

-----------------------------------------------------------------------------
(* Scheduling.                                                               *)

\* localInTask waits for cellTXTask, of whatever priority it has been lent.
LEMMA TxFirst ==
  ASSUME TypeOK, Ready("cellTX")
  PROVE  ~ Runs("localIn")
<1>1. Prio("cellTX") = 20
  BY DEF Prio, BasePrio, MutexWaiters, Tasks
<1>2. Prio("localIn") \in {20, 26}
  BY DEF Prio, BasePrio
<1> QED
  BY <1>1, <1>2 DEF Runs, Tasks

\* localInTask overtakes mainStartTask with a priority it was lent only.
LEMMA MainSecond ==
  ASSUME TypeOK, Runs("localIn"), pc["mainStart"] # "deleted"
  PROVE  owner = "localIn"
<1>1. Ready("mainStart")
  BY DEF Ready, TypeOK, MainLabels, MutexWaits
<1>2. Prio("mainStart") = 21
  BY DEF Prio, BasePrio, TypeOK, NoTask
<1>3. Prio("localIn") < 21
  BY <1>1, <1>2 DEF Runs, Tasks
<1> QED
  BY <1>3 DEF Prio, BasePrio

\* With cellTXTask asleep and mainStartTask gone, localInTask has the CPU.
LEMMA InAlone ==
  ASSUME TypeOK, pc["cellTX"] = "sleeping", pc["mainStart"] = "deleted",
         pc["localIn"] \notin {"new", "sleeping", "lockWait", "clearWait"}
  PROVE  Runs("localIn")
  BY DEF Runs, Ready, TypeOK, Tasks, InLabels, MutexWaits

\* The waits, and the first reading.
LEMMA WaitsStep ==
  ASSUME IInv, FreshInv, [Next]_vars
  PROVE  WaitsForOther' /\ NoPermit' /\ Written'
<1> USE DEF IInv, TypeInv, TypeOK, Startup, MutexHeld, TxHolds, InHolds, Tasks, NoTask, Goto, BufferWhole, Readings, Text, FreshInv, WaitsForOther, NoPermit, Written
<1>1. CASE OSTimeTick
  BY <1>1 DEF OSTimeTick, AfterDly
<1>2. CASE MainNext
  BY <1>2 DEF MainNext, MainCreatesCellTX, MainReturns
<1>3. CASE TxNext
  <2>1. CASE TxConnect
    BY <2>1 DEF TxConnect, Tx
  <2>2. CASE TxDelay
    BY <2>2, TimingAssumption DEF TxDelay, Tx, OSTimeDly, AfterDly
  <2>3. CASE TxSemPend
    BY <2>3 DEF TxSemPend, Tx, OSSemPend
  <2>4. CASE TxLock
    BY <2>4 DEF TxLock, Tx, OSMutexPend
  <2>5. CASE TxCopy
    BY <2>5 DEF TxCopy, Tx, AsString
  <2>6. CASE TxUnlock
    BY <2>6, WokenByMutex, WokenToClear DEF TxUnlock, Tx, OSMutexPost, MutexWaiters, MutexWaits
  <2>7. CASE TxSend
    BY <2>7 DEF TxSend, Tx
  <2>8. CASE TxSemSet
    BY <2>8 DEF TxSemSet, Tx, OSSemSet
  <2>9. CASE TxLimit
    BY <2>9 DEF TxLimit, Tx, OSMutexPend
  <2> QED
    BY <1>3, <2>1, <2>2, <2>3, <2>4, <2>5, <2>6, <2>7, <2>8, <2>9 DEF TxNext
<1>4. CASE InNext
  <2>1. CASE InClearLock
    BY <2>1 DEF InClearLock, In, OSMutexPend
  <2>2. CASE InClear
    BY <2>2 DEF InClear, In
  <2>3. CASE InClearUnlock
    BY <2>3, WokenByMutex DEF InClearUnlock, In, OSMutexPost, MutexWaiters, MutexWaits
  <2>4. CASE InRead
    BY <2>4 DEF InRead, In
  <2>5. CASE InLock
    BY <2>5 DEF InLock, In, OSMutexPend
  <2>6. CASE InWriteTemp
    BY <2>6 DEF InWriteTemp, In
  <2>7. CASE InWriteHum
    BY <2>7 DEF InWriteHum, In
  <2>8. CASE InCount
    BY <2>8 DEF InCount, In
  <2>9. CASE InUnlock
    BY <2>9, WokenByMutex DEF InUnlock, In, OSMutexPost, MutexWaiters, MutexWaits
  <2>10. CASE InPost
    BY <2>10, WokenBySem, TxFirst DEF InPost, In, OSSemPost, Ready, MutexWaits
  <2>11. CASE InDelay
    BY <2>11, TimingAssumption DEF InDelay, In, OSTimeDly, AfterDly
  <2> QED
    BY <1>4, <2>1, <2>2, <2>3, <2>4, <2>5, <2>6, <2>7, <2>8, <2>9, <2>10, <2>11 DEF InNext
<1>5. CASE UNCHANGED vars
  BY <1>5 DEF vars
<1> QED
  BY <1>1, <1>2, <1>3, <1>4, <1>5 DEF Next

\* mainStartTask returns before localInTask has the CPU.
LEMMA MainGoneStep ==
  ASSUME IInv, FreshInv, [Next]_vars
  PROVE  MainGone'
<1> USE DEF IInv, TypeInv, TypeOK, Startup, MutexHeld, TxHolds, InHolds, Tasks, NoTask, Goto, FreshInv, MainGone
<1>1. CASE OSTimeTick
  BY <1>1 DEF OSTimeTick, AfterDly
<1>2. CASE MainNext
  BY <1>2 DEF MainNext, MainCreatesCellTX, MainReturns
<1>3. CASE TxNext
  <2>1. CASE TxConnect
    BY <2>1 DEF TxConnect, Tx
  <2>2. CASE TxDelay
    BY <2>2, TimingAssumption DEF TxDelay, Tx, OSTimeDly, AfterDly
  <2>3. CASE TxSemPend
    BY <2>3 DEF TxSemPend, Tx, OSSemPend
  <2>4. CASE TxLock
    BY <2>4 DEF TxLock, Tx, OSMutexPend
  <2>5. CASE TxCopy
    BY <2>5 DEF TxCopy, Tx, AsString
  <2>6. CASE TxUnlock
    BY <2>6, WokenByMutex, WokenToClear DEF TxUnlock, Tx, OSMutexPost, MutexWaiters, MutexWaits
  <2>7. CASE TxSend
    BY <2>7 DEF TxSend, Tx
  <2>8. CASE TxSemSet
    BY <2>8 DEF TxSemSet, Tx, OSSemSet
  <2>9. CASE TxLimit
    BY <2>9 DEF TxLimit, Tx, OSMutexPend
  <2> QED
    BY <1>3, <2>1, <2>2, <2>3, <2>4, <2>5, <2>6, <2>7, <2>8, <2>9 DEF TxNext
<1>4. CASE InNext
  <2>1. CASE InClearLock
    BY <2>1, MainSecond DEF InClearLock, In, OSMutexPend
  <2>2. CASE InClear
    BY <2>2 DEF InClear, In
  <2>3. CASE InClearUnlock
    BY <2>3, WokenByMutex DEF InClearUnlock, In, OSMutexPost
  <2>4. CASE InRead
    BY <2>4 DEF InRead, In
  <2>5. CASE InLock
    BY <2>5 DEF InLock, In, OSMutexPend
  <2>6. CASE InWriteTemp
    BY <2>6 DEF InWriteTemp, In
  <2>7. CASE InWriteHum
    BY <2>7 DEF InWriteHum, In
  <2>8. CASE InCount
    BY <2>8 DEF InCount, In
  <2>9. CASE InUnlock
    BY <2>9, WokenByMutex DEF InUnlock, In, OSMutexPost
  <2>10. CASE InPost
    BY <2>10, WokenBySem DEF InPost, In, OSSemPost
  <2>11. CASE InDelay
    BY <2>11, TimingAssumption DEF InDelay, In, OSTimeDly, AfterDly
  <2> QED
    BY <1>4, <2>1, <2>2, <2>3, <2>4, <2>5, <2>6, <2>7, <2>8, <2>9, <2>10, <2>11 DEF InNext
<1>5. CASE UNCHANGED vars
  BY <1>5 DEF vars
<1> QED
  BY <1>1, <1>2, <1>3, <1>4, <1>5 DEF Next

\* The tick that wakes cellTXTask in time to interrupt localInTask.
LEMMA InterruptedStep ==
  ASSUME IInv, FreshInv, [Next]_vars
  PROVE  Interrupted'
<1> USE DEF IInv, TypeInv, TypeOK, Startup, MutexHeld, TxHolds, InHolds, Tasks, NoTask, Goto, Sleepers, FreshInv, WaitsForOther, MainGone, Interrupted, NoPermit
<1>1. CASE OSTimeTick
  BY <1>1, InAlone DEF OSTimeTick, AfterDly
<1>2. CASE MainNext
  BY <1>2 DEF MainNext, MainCreatesCellTX, MainReturns
<1>3. CASE TxNext
  <2>1. CASE TxConnect
    BY <2>1 DEF TxConnect, Tx
  <2>2. CASE TxDelay
    BY <2>2, TimingAssumption DEF TxDelay, Tx, OSTimeDly, AfterDly
  <2>3. CASE TxSemPend
    BY <2>3 DEF TxSemPend, Tx, OSSemPend
  <2>4. CASE TxLock
    BY <2>4 DEF TxLock, Tx, OSMutexPend
  <2>5. CASE TxCopy
    BY <2>5 DEF TxCopy, Tx, AsString
  <2>6. CASE TxUnlock
    BY <2>6, WokenByMutex DEF TxUnlock, Tx, OSMutexPost
  <2>7. CASE TxSend
    BY <2>7 DEF TxSend, Tx
  <2>8. CASE TxSemSet
    BY <2>8 DEF TxSemSet, Tx, OSSemSet
  <2>9. CASE TxLimit
    BY <2>9 DEF TxLimit, Tx, OSMutexPend
  <2> QED
    BY <1>3, <2>1, <2>2, <2>3, <2>4, <2>5, <2>6, <2>7, <2>8, <2>9 DEF TxNext
<1>4. CASE InNext
  <2>1. CASE InClearLock
    BY <2>1 DEF InClearLock, In, OSMutexPend
  <2>2. CASE InClear
    BY <2>2 DEF InClear, In
  <2>3. CASE InClearUnlock
    BY <2>3, WokenByMutex DEF InClearUnlock, In, OSMutexPost
  <2>4. CASE InRead
    BY <2>4 DEF InRead, In
  <2>5. CASE InLock
    BY <2>5, TxFirst DEF InLock, In, OSMutexPend, Ready, MutexWaits
  <2>6. CASE InWriteTemp
    BY <2>6 DEF InWriteTemp, In
  <2>7. CASE InWriteHum
    BY <2>7 DEF InWriteHum, In
  <2>8. CASE InCount
    BY <2>8 DEF InCount, In
  <2>9. CASE InUnlock
    BY <2>9, TxFirst, WokenByMutex DEF InUnlock, In, OSMutexPost, Ready, MutexWaits
  <2>10. CASE InPost
    BY <2>10, WokenBySem DEF InPost, In, OSSemPost
  <2>11. CASE InDelay
    BY <2>11, TimingAssumption DEF InDelay, In, OSTimeDly, AfterDly
  <2> QED
    BY <1>4, <2>1, <2>2, <2>3, <2>4, <2>5, <2>6, <2>7, <2>8, <2>9, <2>10, <2>11 DEF InNext
<1>5. CASE UNCHANGED vars
  BY <1>5 DEF vars
<1> QED
  BY <1>1, <1>2, <1>3, <1>4, <1>5 DEF Next

\* What is stale is overwritten before cellTXTask looks for a permit.
LEMMA WrittenInTimeStep ==
  ASSUME IInv, FreshInv, [Next]_vars
  PROVE  WrittenInTime'
<1> USE DEF IInv, TypeInv, TypeOK, Startup, MutexHeld, TxHolds, InHolds, Tasks, NoTask, Goto, Sleepers, Readings, Text, FreshInv, WaitsForOther, MainGone, NoPermit, Written, Interrupted,
         Stale, TicksToWrite, WrittenInTime
<1>1. CASE OSTimeTick
  BY <1>1, InAlone, TimingAssumption DEF OSTimeTick, AfterDly
<1>2. CASE MainNext
  BY <1>2 DEF MainNext, MainCreatesCellTX, MainReturns
<1>3. CASE TxNext
  <2>1. CASE TxConnect
    BY <2>1 DEF TxConnect, Tx
  <2>2. CASE TxDelay
    BY <2>2, TimingAssumption DEF TxDelay, Tx, OSTimeDly, AfterDly
  <2>3. CASE TxSemPend
    BY <2>3 DEF TxSemPend, Tx, OSSemPend
  <2>4. CASE TxLock
    BY <2>4 DEF TxLock, Tx, OSMutexPend
  <2>5. CASE TxCopy
    BY <2>5 DEF TxCopy, Tx, AsString
  <2>6. CASE TxUnlock
    BY <2>6, WokenByMutex, WokenToClear DEF TxUnlock, Tx, OSMutexPost, MutexWaiters, MutexWaits
  <2>7. CASE TxSend
    BY <2>7 DEF TxSend, Tx
  <2>8. CASE TxSemSet
    BY <2>8 DEF TxSemSet, Tx, OSSemSet
  <2>9. CASE TxLimit
    BY <2>9 DEF TxLimit, Tx, OSMutexPend
  <2> QED
    BY <1>3, <2>1, <2>2, <2>3, <2>4, <2>5, <2>6, <2>7, <2>8, <2>9 DEF TxNext
<1>4. CASE InNext
  <2>1. CASE InClearLock
    BY <2>1, TxFirst DEF InClearLock, In, OSMutexPend, Ready, MutexWaits
  <2>2. CASE InClear
    BY <2>2, TxFirst DEF InClear, In, Ready, MutexWaits
  <2>3. CASE InClearUnlock
    BY <2>3, TxFirst, WokenByMutex DEF InClearUnlock, In, OSMutexPost, Ready, MutexWaiters, MutexWaits
  <2>4. CASE InRead
    BY <2>4, TxFirst DEF InRead, In, Ready, MutexWaits
  <2>5. CASE InLock
    BY <2>5, TxFirst DEF InLock, In, OSMutexPend, Ready, MutexWaits
  <2>6. CASE InWriteTemp
    BY <2>6, TxFirst DEF InWriteTemp, In, Ready, MutexWaits
  <2>7. CASE InWriteHum
    BY <2>7, TxFirst DEF InWriteHum, In, Ready, MutexWaits
  <2>8. CASE InCount
    BY <2>8, TxFirst DEF InCount, In, Ready, MutexWaits
  <2>9. CASE InUnlock
    BY <2>9, TxFirst, WokenByMutex DEF InUnlock, In, OSMutexPost, Ready, MutexWaiters, MutexWaits
  <2>10. CASE InPost
    BY <2>10, TxFirst, WokenBySem DEF InPost, In, OSSemPost, Ready, MutexWaits
  <2>11. CASE InDelay
    BY <2>11, TxFirst, TimingAssumption DEF InDelay, In, OSTimeDly, AfterDly, Ready, MutexWaits
  <2> QED
    BY <1>4, <2>1, <2>2, <2>3, <2>4, <2>5, <2>6, <2>7, <2>8, <2>9, <2>10, <2>11 DEF InNext
<1>5. CASE UNCHANGED vars
  BY <1>5 DEF vars
<1> QED
  BY <1>1, <1>2, <1>3, <1>4, <1>5 DEF Next

\* What cellTXTask takes a permit for and copies.
LEMMA PermitStep ==
  ASSUME IInv, FreshInv, [Next]_vars
  PROVE  PermitIsFresh'
<1> USE DEF IInv, TypeInv, TypeOK, Startup, MutexHeld, TxHolds, InHolds, Tasks, NoTask, Goto, Readings, Text, FreshInv, Stale, WrittenInTime, PermitIsFresh
<1>1. CASE OSTimeTick
  BY <1>1 DEF OSTimeTick, AfterDly
<1>2. CASE MainNext
  BY <1>2 DEF MainNext, MainCreatesCellTX, MainReturns
<1>3. CASE TxNext
  <2>1. CASE TxConnect
    BY <2>1 DEF TxConnect, Tx
  <2>2. CASE TxDelay
    BY <2>2, TimingAssumption DEF TxDelay, Tx, OSTimeDly, AfterDly
  <2>3. CASE TxSemPend
    BY <2>3 DEF TxSemPend, Tx, OSSemPend
  <2>4. CASE TxLock
    BY <2>4 DEF TxLock, Tx, OSMutexPend
  <2>5. CASE TxCopy
    BY <2>5 DEF TxCopy, Tx, AsString
  <2>6. CASE TxUnlock
    BY <2>6, WokenByMutex, WokenToClear DEF TxUnlock, Tx, OSMutexPost, MutexWaiters, MutexWaits
  <2>7. CASE TxSend
    BY <2>7 DEF TxSend, Tx
  <2>8. CASE TxSemSet
    BY <2>8 DEF TxSemSet, Tx, OSSemSet
  <2>9. CASE TxLimit
    BY <2>9 DEF TxLimit, Tx, OSMutexPend
  <2> QED
    BY <1>3, <2>1, <2>2, <2>3, <2>4, <2>5, <2>6, <2>7, <2>8, <2>9 DEF TxNext
<1>4. CASE InNext
  <2>1. CASE InClearLock
    BY <2>1 DEF InClearLock, In, OSMutexPend
  <2>2. CASE InClear
    BY <2>2 DEF InClear, In
  <2>3. CASE InClearUnlock
    BY <2>3, WokenByMutex DEF InClearUnlock, In, OSMutexPost, MutexWaiters, MutexWaits
  <2>4. CASE InRead
    BY <2>4 DEF InRead, In
  <2>5. CASE InLock
    BY <2>5 DEF InLock, In, OSMutexPend
  <2>6. CASE InWriteTemp
    BY <2>6 DEF InWriteTemp, In
  <2>7. CASE InWriteHum
    BY <2>7 DEF InWriteHum, In
  <2>8. CASE InCount
    BY <2>8 DEF InCount, In
  <2>9. CASE InUnlock
    BY <2>9, WokenByMutex DEF InUnlock, In, OSMutexPost, MutexWaiters, MutexWaits
  <2>10. CASE InPost
    BY <2>10, WokenBySem DEF InPost, In, OSSemPost
  <2>11. CASE InDelay
    BY <2>11, TimingAssumption DEF InDelay, In, OSTimeDly, AfterDly
  <2> QED
    BY <1>4, <2>1, <2>2, <2>3, <2>4, <2>5, <2>6, <2>7, <2>8, <2>9, <2>10, <2>11 DEF InNext
<1>5. CASE UNCHANGED vars
  BY <1>5 DEF vars
<1> QED
  BY <1>1, <1>2, <1>3, <1>4, <1>5 DEF Next

-----------------------------------------------------------------------------
(* Theorems                                                                  *)

\* The invariant holds when main() has created mainStartTask and nothing else.
LEMMA InitIInv == Init => IInv
<1> SUFFICES ASSUME Init PROVE IInv
  OBVIOUS
<1>1. TypeInv
  BY TimingAssumption DEF Init, TypeInv, TypeOK, Startup, Sleepers, BelowLimit, Tasks,
     NoTask, TxLabels, InLabels, MainLabels, Readings, Text, Empty
<1>2. MutexHeld /\ CopyWhole
  BY DEF Init, MutexHeld, CopyWhole, TxHolds, InHolds, Tasks, NoTask
<1>3. BufferWhole /\ StartsEmpty
  BY DEF Init, BufferWhole, StartsEmpty, Tasks, Empty
<1> QED
  BY <1>1, <1>2, <1>3 DEF IInv

\* The invariant holds in every reachable state.
THEOREM Invariance == Spec => []IInv
<1>1. IInv /\ [Next]_vars => IInv'
  BY TypeStep, MutexStep, BufferStep, CopyStep DEF IInv
<1> QED
  BY InitIInv, <1>1, PTL DEF Spec

\* The variables keep their types: delays never run below zero, and no update
\* is made beyond DEV_DATA_LIMIT.
THEOREM TypeCorrect == Spec => []TypeOK
<1>1. IInv => TypeOK
  BY DEF IInv, TypeInv
<1> QED
  BY Invariance, <1>1, PTL

\* cellTXTask never sends the temperature of one reading with the humidity of
\* another.
THEOREM NeverTorn == Spec => []NoTornSend
<1>1. IInv => NoTornSend
  BY DEF IInv, CopyWhole, NoTornSend
<1> QED
  BY Invariance, <1>1, PTL

\* While the mutex is free the count says whether there is a reading.
THEOREM CountCorrect == Spec => []CountMatchesBuffer
<1>1. IInv => CountMatchesBuffer
  BY DEF IInv, MutexHeld, BufferWhole, CountMatchesBuffer, InHolds, NoTask
<1> QED
  BY Invariance, <1>1, PTL

\* FreshInv holds before anything has run, and in every reachable state.
THEOREM FreshInvariance == Spec => [](IInv /\ FreshInv)
<1>1. Init => FreshInv
  BY DEF Init, FreshInv, WaitsForOther, MainGone, NoPermit, Written, Interrupted, Stale,
     TicksToWrite, WrittenInTime, PermitIsFresh, Tasks, Empty
<1>2. IInv /\ FreshInv /\ [Next]_vars => (IInv /\ FreshInv)'
  BY TypeStep, MutexStep, BufferStep, CopyStep, WaitsStep, MainGoneStep, InterruptedStep,
     WrittenInTimeStep, PermitStep DEF IInv, FreshInv
<1> QED
  BY InitIInv, <1>1, <1>2, PTL DEF Spec

\* cellTXTask never sends the buffer it emptied itself: a permit stands for a
\* reading not sent before, even when localInTask was interrupted between its
\* OSMutexPost and its OSSemPost.
THEOREM SendsFresh == Spec => []FreshSend
<1>1. FreshInv => FreshSend
  BY DEF FreshInv, PermitIsFresh, FreshSend
<1> QED
  BY FreshInvariance, <1>1, PTL
=============================================================================
