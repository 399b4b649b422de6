------------------------------- MODULE Kernel -------------------------------
(***************************************************************************)
(* The services of the Micrium OS kernel that block and ready tasks: the    *)
(* ready lists and the scheduler (os_core.c, os_prio.c), delays and         *)
(* timeouts (os_tick.c, os_time.c), mutexes with priority inheritance       *)
(* (os_mutex.c), semaphores (os_sem.c), and creating, deleting, suspending  *)
(* and re-prioritising tasks (os_task.c), as src/cfg/os_cfg.h configures    *)
(* them: no dynamic tick, every object kind and OSTaskDel enabled.          *)
(*                                                                          *)
(* A service is one critical section followed by OSSched, so it is one      *)
(* step here; the task that runs may call any service with any argument.    *)
(* An interrupt may post a semaphore, and the tick interrupt wakes the tick *)
(* task, which has a higher priority than every task of the model.          *)
(***************************************************************************)
EXTENDS Integers, Sequences, FiniteSets, SequencesExt, FiniteSetsExt

CONSTANTS
  Tasks,     \* the tasks of the application
  Mutexes,   \* the OS_MUTEX objects
  Sems,      \* the OS_SEM objects
  Nothing,   \* the null pointer; as the current task, the tick task
  Idle,      \* the idle task
  Lowest,    \* tasks have the priorities 0 (the highest) to Lowest
  First,     \* [Tasks -> priority]: the priorities the tasks are created with
  Times,     \* the timeouts and delays asked for, in ticks; 0 waits for ever
  MaxRare,   \* bound: calls of services other than to pend and to post,
             \* and of OSMutexPend by the owner
  MaxCtr     \* the largest count of a semaphore, (OS_SEM_CTR)-1 in the code

ASSUME KernelAssumption ==
  /\ Lowest \in Nat /\ MaxRare \in Nat /\ MaxCtr \in Nat \ {0}
  /\ First \in [Tasks -> 0..Lowest]
  /\ Times \subseteq Nat /\ IsFiniteSet(Tasks)
  /\ Nothing \notin Tasks \cup Mutexes \cup Sems /\ Idle \notin Tasks
  /\ Mutexes \cap Sems = {}

VARIABLE k   \* the kernel's data structures, a record of the fields below

Objects == Mutexes \cup Sems
Prios == 0..Lowest
IdlePrio == Lowest + 1   \* OS_CFG_PRIO_MAX - 1
TickPrio == -1           \* the tick task, above every task of the model

-----------------------------------------------------------------------------
(* The kernel's state.  TaskState is wait together with suspends > 0: the   *)
(* code's state values are those of wait with a SUSPENDED bit.               *)

Waits == {"RDY", "DLY", "PEND", "PEND_TIMEOUT", "DEL"}
Statuses == {"OK", "ABORT", "TIMEOUT", "DEL"}

Kernel ==
  [cur: Tasks \cup {Idle},             \* OSTCBCurPtr
   prioCur: -1..IdlePrio,              \* OSPrioCur
   rdy: [Prios -> Seq(Tasks)],         \* OSRdyList
   wait: [Tasks -> Waits], suspends: [Tasks -> 0..MaxRare],
   prio: [Tasks -> Prios], base: [Tasks -> Prios],
   pendOn: [Tasks -> Objects \cup {Nothing}],
   status: [Tasks -> Statuses],
   pend: [Objects -> Seq(Tasks)],
   dlys: Seq(Tasks \X Nat),            \* OSTickListDly: <<task, TickRemain>>
   timeouts: Seq(Tasks \X Nat),        \* OSTickListTimeout
   owner: [Mutexes -> Tasks \cup {Nothing}], nest: [Mutexes -> 0..MaxRare + 1],
   grp: [Tasks -> Seq(Mutexes)], ctr: [Sems -> 0..MaxCtr],
   failed: BOOLEAN,                    \* a critical failure, or a search or a
                                       \* chain that never ends
   rare: 0..MaxRare,                   \* how many rare calls were made
   astray: BOOLEAN,                    \* history: an owner was deleted, or
                                       \* was given a priority it had not
   held: [Tasks -> SUBSET Mutexes],    \* history: what OSMutexPend gave
   due: [Tasks -> Nat]]                \* history: ticks left of each wait

Suspended(s, t) == s.suspends[t] > 0
Ready(s, t) == s.wait[t] = "RDY" /\ ~Suspended(s, t)

-----------------------------------------------------------------------------
(* Ready lists and the scheduler.                                            *)

\* A list without the entry e, whose own links are used to take it out.
Without(list, e) ==
  IF e \in ToSet(list)
  THEN RemoveAt(list, CHOOSE i \in DOMAIN list : list[i] = e) ELSE list

RdyListInsertTail(s, t) == [s EXCEPT !.rdy[s.prio[t]] = Append(@, t)]
RdyListInsertHead(s, t) == [s EXCEPT !.rdy[s.prio[t]] = <<t>> \o @]
RdyListInsert(s, t) ==
  IF s.prio[t] = s.prioCur THEN RdyListInsertTail(s, t)
                           ELSE RdyListInsertHead(s, t)
RdyListRemove(s, t) == [s EXCEPT !.rdy[s.prio[t]] = Without(@, t)]

\* OS_PrioGetHighest: the bitmap of the priorities with a ready task.
PrioGetHighest(s) ==
  Min({p \in Prios : s.rdy[p] # <<>>} \cup {IdlePrio})

\* OSSched and OSIntExit.  OSPrioCur is only set by a context switch.
Sched(s) ==
  LET high == PrioGetHighest(s)
      next == IF high = IdlePrio THEN Idle ELSE Head(s.rdy[high])
  IN  IF next = s.cur THEN s ELSE [s EXCEPT !.cur = next, !.prioCur = high]

-----------------------------------------------------------------------------
(* Tick lists: each entry holds the ticks that remain after the entry before *)
(* it has expired.                                                           *)

Total(list, i) ==
  LET sum[n \in 0..Len(list)] == IF n = 0 THEN 0 ELSE sum[n - 1] + list[n][2]
  IN  sum[i]
IndexOf(list, t) == CHOOSE i \in DOMAIN list : list[i][1] = t

TickListInsert(list, t, time) ==
  LET later == {i \in DOMAIN list : time <= Total(list, i)}
      at    == Min(later \cup {Len(list) + 1})
      delta == time - Total(list, at - 1)
      less  == IF at > Len(list) THEN list
               ELSE [list EXCEPT ![at][2] = @ - delta]
  IN  InsertAt(less, at, <<t, delta>>)

\* Fault: the ticks of the removed entry are lost to those behind it.
TickListRemoveShort(list, t) == RemoveAt(list, IndexOf(list, t))

TickListRemove(list, t) ==
  LET i == IndexOf(list, t)
      back == IF i = Len(list) THEN list
              ELSE [list EXCEPT ![i + 1][2] = @ + list[i][2]]
  IN  RemoveAt(back, i)

\* What one tick takes off a list, and the tasks it has then expired.
Ticked(list) == IF list = <<>> THEN list ELSE [list EXCEPT ![1][2] = @ - 1]
Expired(list) ==
  LET n == Cardinality({i \in DOMAIN list : Total(list, i) = 0})
  IN  [i \in 1..n |-> list[i][1]]

-----------------------------------------------------------------------------
(* Pend lists: by priority, first come first served within one.              *)

PendListInsertPrio(s, o, t) ==
  LET behind == {i \in DOMAIN s.pend[o] : s.prio[t] < s.prio[s.pend[o][i]]}
      at     == Min(behind \cup {Len(s.pend[o]) + 1})
  IN  [s EXCEPT !.pend[o] = InsertAt(@, at, t), !.pendOn[t] = o]

PendListRemove(s, t) ==
  [s EXCEPT !.pend[s.pendOn[t]] = Without(@, t), !.pendOn[t] = Nothing]

\* Fault: the task stays where its old priority has put it.
PendListChangePrioNot(s, t) == s

\* OS_PendListChangePrio: a task alone in its list stays where it is.
PendListChangePrio(s, t) ==
  PendListInsertPrio(PendListRemove(s, t), s.pendOn[t], t)

\* OS_Pend and OS_TaskBlock: the running task waits on o.
Pend(s, o, time) ==
  LET t == s.cur
      timed == [s EXCEPT !.wait[t] = "PEND_TIMEOUT", !.due[t] = time,
                         !.timeouts = TickListInsert(@, t, time)]
      blocked == IF time > 0 THEN timed ELSE [s EXCEPT !.wait[t] = "PEND"]
  IN  PendListInsertPrio(RdyListRemove([blocked EXCEPT !.status[t] = "OK"], t),
                         o, t)

\* A task that waits no more is ready, unless it is suspended.
Wake(s, t) ==
  LET awake == [s EXCEPT !.wait[t] = "RDY", !.due[t] = 0]
  IN  IF Suspended(s, t) THEN awake ELSE RdyListInsert(awake, t)

\* OS_Post and OS_PendAbort: the wait of t ends with a status.
EndPend(s, t, status) ==
  LET off  == PendListRemove(s, t)
      quit == IF s.wait[t] = "PEND_TIMEOUT"
              THEN [off EXCEPT !.timeouts = TickListRemove(@, t)] ELSE off
      got  == IF status = "OK" THEN {s.pendOn[t]} \cap Mutexes ELSE {}
  IN  Wake([quit EXCEPT !.status[t] = status, !.held[t] = @ \cup got], t)

\* The waits of all the tasks in q end so.
EndPends(s, q, status) ==
  LET after[n \in 0..Len(q)] ==
        IF n = 0 THEN s ELSE EndPend(after[n - 1], q[n], status)
  IN  after[Len(q)]

-----------------------------------------------------------------------------
(* Priorities.                                                               *)

\* OS_MutexGrpPrioFindHighest: the best priority waiting for a mutex of t.
MutexGrpPrioFindHighest(s, t) ==
  Min({IdlePrio} \cup {s.prio[Head(s.pend[m])] :
         m \in {n \in ToSet(s.grp[t]) : s.pend[n] # <<>>}})

\* Its own priority, or the one it inherits from a task that waits for it.
Disinherited(s, t) == Min({s.base[t], MutexGrpPrioFindHighest(s, t)})

\* Fault: the chain goes on though the owner has the right priority.
ChangeOneOn(c) ==
  LET listed == PendListChangePrio([c.s EXCEPT !.prio[c.task] = c.to], c.task)
      o      == c.s.owner[c.s.pendOn[c.task]]
  IN  IF c.s.pendOn[c.task] \in Mutexes
      THEN [s |-> listed, task |-> o, to |-> Disinherited(listed, o)]
      ELSE [s |-> c.s, task |-> Nothing, to |-> c.to]

\* One round of the loop in OS_TaskChangePrio: the task and the priority to
\* give it, then the owner of the mutex it waits for, or Nothing.
ChangeOne(c) ==
  LET s == c.s
      t == c.task
      p == c.to
      set   == [s EXCEPT !.prio[t] = p]
      moved == RdyListRemove(s, t)
      queued == [moved EXCEPT !.prio[t] = p]
      listed == PendListChangePrio(set, t)
      o     == s.owner[s.pendOn[t]]
      lower == Disinherited(listed, o)
      done(x) == [s |-> x, task |-> Nothing, to |-> p]
      next(prio) == IF prio = listed.prio[o] THEN done(listed)
                    ELSE [s |-> listed, task |-> o, to |-> prio]
      pends == s.wait[t] \in {"PEND", "PEND_TIMEOUT"}
  IN  CASE s.wait[t] = "DEL" -> done(s)
        [] Ready(s, t) -> done(IF t = s.cur THEN RdyListInsertHead(queued, t)
                                            ELSE RdyListInsertTail(queued, t))
        [] s.wait[t] \in {"RDY", "DLY"} /\ ~Ready(s, t) -> done(set)
        [] pends /\ s.pendOn[t] = Nothing ->        \* RTOS_CRITICAL_FAIL_EXEC
             done([set EXCEPT !.failed = TRUE])
        [] pends /\ s.pendOn[t] \in Sems -> done(listed)
        [] pends /\ s.pendOn[t] \in Mutexes ->
             IF s.prio[t] > p                             \* a higher one
             THEN IF listed.prio[o] <= p THEN done(listed) ELSE next(p)
             ELSE IF listed.prio[o] = s.prio[t] THEN next(lower)
                  ELSE [s |-> [listed EXCEPT !.astray = TRUE],
                        task |-> o, to |-> p]

\* OS_TaskChangePrio: along the chain of owners.  A chain that has not ended
\* after every task was met three times never ends.
TaskChangePrio(s, t, p) ==
  LET one(c) == IF c.task = Nothing THEN c ELSE ChangeOne(c)
      last   == 3 * Cardinality(Tasks)
      round[i \in 0..last] ==
        IF i = 0 THEN [s |-> s, task |-> t, to |-> p] ELSE one(round[i - 1])
      end    == round[last]
  IN  [end.s EXCEPT !.failed = @ \/ end.task # Nothing]

\* The owner o of a mutex that t no longer waits for loses the priority it
\* has from t.
Disinherit(s, o, t) ==
  IF s.prio[o] # s.base[o] /\ s.prio[o] = s.prio[t]
     /\ Disinherited(s, o) # s.prio[o]
  THEN TaskChangePrio(s, o, Disinherited(s, o)) ELSE s

-----------------------------------------------------------------------------
(* Mutexes.                                                                  *)

MutexGrpAdd(s, t, m) ==
  [s EXCEPT !.grp[t] = <<m>> \o @, !.owner[m] = t, !.nest[m] = 1]
\* A mutex that is not in the list: the search runs off its end.
MutexGrpRemove(s, t, m) ==
  [s EXCEPT !.grp[t] = Without(@, m), !.held[t] = @ \ {m},
            !.failed = @ \/ m \notin ToSet(s.grp[t])]

\* The mutex m goes from t to the first task that waits for it, or is free.
Release(s, t, m) ==
  LET gone == MutexGrpRemove(s, t, m)
      heir == Head(s.pend[m])
  IN  IF s.pend[m] = <<>>
      THEN [gone EXCEPT !.owner[m] = Nothing, !.nest[m] = 0]
      ELSE EndPend(MutexGrpAdd(gone, heir, m), heir, "OK")

\* OSMutexPost lowers the poster to the priority its other mutexes give it,
\* and OSPrioCur with it, before it hands this one on.
PostLowers(s, t, m) ==
  LET rest == MutexGrpRemove(s, t, m)
      p    == Disinherited(rest, t)
  IN  IF s.pend[m] # <<>> /\ s.prio[t] # s.base[t] /\ p > s.prio[t]
      THEN RdyListInsertTail([RdyListRemove(s, t) EXCEPT !.prio[t] = p,
                                                         !.prioCur = p], t)
      ELSE s

\* Fault: the owner that a waiter overtakes keeps its own priority.
MutexPendNoInherit(s, m, time) ==
  LET t == s.cur
  IN  IF s.nest[m] = 0 THEN [MutexGrpAdd(s, t, m) EXCEPT !.held[t] = @ \cup {m}]
      ELSE IF s.owner[m] = t THEN [s EXCEPT !.nest[m] = @ + 1]
      ELSE Pend(s, m, time)

MutexPend(s, m, time) ==
  LET t == s.cur
      o == s.owner[m]
      inherits == IF s.prio[o] > s.prio[t]
                  THEN TaskChangePrio(s, o, s.prio[t]) ELSE s
  IN  IF s.nest[m] = 0 THEN [MutexGrpAdd(s, t, m) EXCEPT !.held[t] = @ \cup {m}]
      ELSE IF o = t THEN [s EXCEPT !.nest[m] = @ + 1]
      ELSE Pend(inherits, m, time)

MutexPost(s, m) ==
  IF s.nest[m] > 1 THEN [s EXCEPT !.nest[m] = @ - 1]
  ELSE Release(PostLowers(s, s.cur, m), s.cur, m)

\* Fault: the aborted task is told that it has the mutex.
MutexPendAbortOK(s, m, n) ==
  LET abort(x, t) == Disinherit(EndPend(x, t, "OK"), x.owner[m], t)
      after[i \in 0..n] ==
        IF i = 0 THEN s ELSE abort(after[i - 1], s.pend[m][i])
  IN  after[n]

\* OSMutexPendAbort, for the first task that waits or for all of them.
MutexPendAbort(s, m, n) ==
  LET abort(x, t) == Disinherit(EndPend(x, t, "ABORT"), x.owner[m], t)
      after[i \in 0..n] ==
        IF i = 0 THEN s ELSE abort(after[i - 1], s.pend[m][i])
  IN  after[n]

\* OSMutexDel with OS_OPT_DEL_ALWAYS, and the OSMutexCreate that lets the
\* program use the object again.
MutexDel(s, m) ==
  LET o     == s.owner[m]
      ended == EndPends(s, s.pend[m], "DEL")
      gone  == [MutexGrpRemove(ended, o, m) EXCEPT
                  !.held = [t \in Tasks |-> @[t] \ {m}]]
      back  == IF gone.prio[o] # gone.base[o]
               THEN TaskChangePrio(gone, o, Disinherited(gone, o)) ELSE gone
  IN  [(IF o = Nothing THEN ended ELSE back) EXCEPT !.owner[m] = Nothing,
                                                    !.nest[m] = 0]

-----------------------------------------------------------------------------
(* Semaphores.                                                               *)

SemPend(s, o, time) ==
  IF s.ctr[o] > 0 THEN [s EXCEPT !.ctr[o] = @ - 1] ELSE Pend(s, o, time)

\* OSSemPost to the first task that waits or to all of them.
SemPost(s, o, n) ==
  IF s.pend[o] = <<>> THEN [s EXCEPT !.ctr[o] = @ + 1]
  ELSE EndPends(s, SubSeq(s.pend[o], 1, n), "OK")

\* Fault: the count is set though tasks wait.
SemSetWaiting(s, o, n) == [s EXCEPT !.ctr[o] = n]

SemSet(s, o, n) ==
  IF s.ctr[o] > 0 \/ s.pend[o] = <<>> THEN [s EXCEPT !.ctr[o] = n] ELSE s

\* OSSemPendAbort and OSSemDel with OS_OPT_DEL_ALWAYS.
SemPendAbort(s, o, n) == EndPends(s, SubSeq(s.pend[o], 1, n), "ABORT")
SemDel(s, o) == [EndPends(s, s.pend[o], "DEL") EXCEPT !.ctr[o] = 0]

-----------------------------------------------------------------------------
(* Tasks and time.                                                           *)

TaskCreate(s, t) ==
  RdyListInsertTail(
    [s EXCEPT !.wait[t] = "RDY", !.suspends[t] = 0, !.status[t] = "OK",
              !.prio[t] = First[t], !.base[t] = First[t],
              !.pendOn[t] = Nothing, !.grp[t] = <<>>], t)

\* The lists a task is deleted from.
Unlisted(s, t) ==
  LET off == IF s.pendOn[t] = Nothing THEN s
             ELSE IF s.pendOn[t] \in Sems THEN PendListRemove(s, t)
             ELSE Disinherit(PendListRemove(s, t), s.owner[s.pendOn[t]], t)
  IN  CASE Ready(s, t) -> RdyListRemove(s, t)
        [] s.wait[t] = "DLY" -> [s EXCEPT !.dlys = TickListRemove(@, t)]
        [] s.wait[t] = "PEND_TIMEOUT" ->
             [off EXCEPT !.timeouts = TickListRemove(@, t)]
        [] OTHER -> off

\* OS_MutexGrpPostAll writes the deleted task into OwnerTCBPtr where it means
\* the task that gets the mutex.
MutexGrpPostAll(s, t) ==
  LET post(x, m) == LET y == Release(x, t, m)
                    IN  IF y.owner[m] = Nothing THEN y
                        ELSE [y EXCEPT !.owner[m] = t]
      after[n \in 0..Len(s.grp[t])] ==
        IF n = 0 THEN s ELSE post(after[n - 1], s.grp[t][n])
  IN  after[Len(s.grp[t])]

\* OSTaskDel.
TaskDel(s, t) ==
  LET posted == MutexGrpPostAll(Unlisted(s, t), t)
  IN  [posted EXCEPT !.wait[t] = "DEL", !.due[t] = 0, !.held[t] = {},
                     !.astray = \/ @
                                \/ \E m \in ToSet(s.grp[t]) : s.pend[m] # <<>>]

TaskSuspend(s, t) ==
  LET off == IF Ready(s, t) THEN RdyListRemove(s, t) ELSE s
  IN  [off EXCEPT !.suspends[t] = @ + 1]

\* Fault: the last resume readies a task that still waits.
TaskResumeEarly(s, t) ==
  LET less == [s EXCEPT !.suspends[t] = @ - 1]
  IN  IF ~Suspended(less, t) THEN RdyListInsert(less, t) ELSE less

TaskResume(s, t) ==
  LET less == [s EXCEPT !.suspends[t] = @ - 1]
  IN  IF Ready(less, t) THEN RdyListInsert(less, t) ELSE less

\* OSTaskChangePrio: an owner does not go below what it has inherited.
ChangePrio(s, t, p) ==
  LET high == MutexGrpPrioFindHighest(s, t)
      to   == IF s.grp[t] # <<>> /\ p > s.prio[t] THEN Min({p, high}) ELSE p
  IN  TaskChangePrio([s EXCEPT !.base[t] = p], t, to)

TimeDly(s, time) ==
  LET t == s.cur
  IN  RdyListRemove([s EXCEPT !.wait[t] = "DLY", !.due[t] = time,
                              !.dlys = TickListInsert(@, t, time)], t)
TimeDlyResume(s, t) == Wake([s EXCEPT !.dlys = TickListRemove(@, t)], t)

\* OS_TickListUpdateDly and OS_TickListUpdateTimeout, in the tick task.
TickListUpdateDly(s) ==
  LET ready == Expired(Ticked(s.dlys))
      after[n \in 0..Len(ready)] ==
        IF n = 0 THEN s ELSE Wake(after[n - 1], ready[n])
  IN  [after[Len(ready)] EXCEPT
         !.dlys = SubSeq(Ticked(@), Len(ready) + 1, Len(@))]

TimeOut(s, t) ==
  LET o    == s.pendOn[t]
      woke == Wake([PendListRemove(s, t) EXCEPT !.status[t] = "TIMEOUT"], t)
  IN  IF o \in Mutexes THEN Disinherit(woke, s.owner[o], t) ELSE woke

TickListUpdateTimeout(s) ==
  LET late == Expired(Ticked(s.timeouts))
      after[n \in 0..Len(late)] ==
        IF n = 0 THEN s ELSE TimeOut(after[n - 1], late[n])
  IN  [after[Len(late)] EXCEPT
         !.timeouts = SubSeq(Ticked(@), Len(late) + 1, Len(@))]

\* The tick task runs: the current task and priority are its own meanwhile.
TickTask(s) ==
  LET left == [s EXCEPT !.cur = Nothing, !.prioCur = TickPrio,
                        !.due = [t \in Tasks |-> Max({@[t] - 1, 0})]]
  IN  Sched(TickListUpdateTimeout(TickListUpdateDly(left)))

-----------------------------------------------------------------------------
(* The calls.                                                                *)

\* The tasks in q are created one after the other.
TaskCreates(s, q) ==
  LET after[n \in 0..Len(q)] ==
        IF n = 0 THEN s ELSE TaskCreate(after[n - 1], q[n])
  IN  after[Len(q)]

Init ==
  LET none == [cur |-> Nothing, prioCur |-> IdlePrio,
               rdy |-> [p \in Prios |-> <<>>],
               wait |-> [t \in Tasks |-> "DEL"],
               suspends |-> [t \in Tasks |-> 0],
               prio |-> First, base |-> First,
               pendOn |-> [t \in Tasks |-> Nothing],
               status |-> [t \in Tasks |-> "OK"],
               pend |-> [o \in Objects |-> <<>>],
               dlys |-> <<>>, timeouts |-> <<>>,
               owner |-> [m \in Mutexes |-> Nothing],
               nest |-> [m \in Mutexes |-> 0],
               grp |-> [t \in Tasks |-> <<>>],
               ctr |-> [o \in Sems |-> 0], rare |-> 0,
               failed |-> FALSE, astray |-> FALSE,
               held |-> [t \in Tasks |-> {}], due |-> [t \in Tasks |-> 0]]
  IN  k = Sched(TaskCreates(none, SetToSeq(Tasks)))

Running == k.cur \in Tasks /\ ~k.failed
Rare == Running /\ k.rare < MaxRare
Counted(s) == [s EXCEPT !.rare = @ + 1]
Returns(s) == k' = IF s.failed THEN s ELSE Sched(s)

OSMutexPend == \E m \in Mutexes, time \in Times :
  /\ Running /\ k.owner[m] # k.cur
  /\ Returns(MutexPend(k, m, time))

\* The owner takes its mutex again.
OSMutexPendOwner == \E m \in Mutexes :
  /\ Rare /\ k.owner[m] = k.cur
  /\ Returns(Counted(MutexPend(k, m, 0)))

OSMutexPost == \E m \in Mutexes :
  /\ Running /\ k.owner[m] = k.cur               \* or RTOS_ERR_OWNERSHIP
  /\ Returns(MutexPost(k, m))

OSMutexPendAbort == \E m \in Mutexes : \E n \in {1, Len(k.pend[m])} :
  /\ Rare /\ k.pend[m] # <<>>
  /\ Returns(Counted(MutexPendAbort(k, m, n)))

OSMutexDel == \E m \in Mutexes :
  /\ Rare
  /\ Returns(Counted(MutexDel(k, m)))

OSSemPend == \E o \in Sems, time \in Times :
  Running /\ Returns(SemPend(k, o, time))

\* Fault: the count is not checked before it is incremented.
OSSemPostOver == \E o \in Sems : \E n \in {1, Max({1, Len(k.pend[o])})} :
  ~k.failed /\ k.ctr[o] <= MaxCtr /\ Returns(SemPost(k, o, n))

\* A task or an interrupt handler posts.
OSSemPost == \E o \in Sems : \E n \in {1, Max({1, Len(k.pend[o])})} :
  /\ ~k.failed /\ k.ctr[o] < MaxCtr                \* or RTOS_ERR_WOULD_OVF
  /\ Returns(SemPost(k, o, n))

OSSemSet == \E o \in Sems, n \in 0..MaxCtr :
  /\ Rare
  /\ Returns(Counted(SemSet(k, o, n)))

OSSemPendAbort == \E o \in Sems : \E n \in {1, Len(k.pend[o])} :
  /\ Rare /\ k.pend[o] # <<>>
  /\ Returns(Counted(SemPendAbort(k, o, n)))

OSSemDel == \E o \in Sems :
  /\ Rare
  /\ Returns(Counted(SemDel(k, o)))

OSTaskDel == \E t \in Tasks :
  /\ Rare /\ k.wait[t] # "DEL"
  /\ Returns(Counted(TaskDel(k, t)))

OSTaskCreate == \E t \in Tasks :
  /\ Running /\ k.wait[t] = "DEL"
  /\ Returns(TaskCreate(k, t))

OSTaskSuspend == \E t \in Tasks :
  /\ Rare /\ k.wait[t] # "DEL"
  /\ Returns(Counted(TaskSuspend(k, t)))

OSTaskResume == \E t \in Tasks :
  /\ Running /\ k.wait[t] # "DEL" /\ Suspended(k, t)
  /\ Returns(TaskResume(k, t))

OSTaskChangePrio == \E t \in Tasks, p \in Prios :
  /\ Rare /\ k.wait[t] # "DEL"
  /\ Returns(Counted(ChangePrio(k, t, p)))

OSTimeDly == \E time \in Times \ {0} :
  /\ Rare
  /\ Returns(Counted(TimeDly(k, time)))

OSTimeDlyResume == \E t \in Tasks :
  /\ Running /\ k.wait[t] = "DLY"
  /\ Returns(TimeDlyResume(k, t))

OS_TickTask == ~k.failed /\ k' = TickTask(k)

Next ==
  \/ OSMutexPend \/ OSMutexPendOwner \/ OSMutexPost
  \/ OSMutexPendAbort \/ OSMutexDel
  \/ OSSemPend \/ OSSemPost \/ OSSemSet \/ OSSemPendAbort \/ OSSemDel
  \/ OSTaskDel \/ OSTaskCreate \/ OSTaskSuspend \/ OSTaskResume
  \/ OSTaskChangePrio \/ OSTimeDly \/ OSTimeDlyResume \/ OS_TickTask

Spec == Init /\ [][Next]_k

-----------------------------------------------------------------------------
(* Properties.                                                               *)

\* Every field has its type; in particular no count wraps.
TypeOK == k \in Kernel

Once(list, t) == Cardinality({i \in DOMAIN list : list[i] = t}) = 1
Names(list) == [i \in DOMAIN list |-> list[i][1]]

\* Every task is in exactly the lists its state says: the ready list of its
\* priority (OSSched), the pend list of its object, the tick list of its delay
\* or its timeout, once in each and in no other.  Services that interrupt one
\* another's waits (suspend and time out, delete and post, abort and delay)
\* must all keep this.
ListsAgree ==
  \A t \in Tasks :
    LET in(list, cond) == IF cond THEN Once(list, t) ELSE t \notin ToSet(list)
    IN  /\ \A p \in Prios : in(k.rdy[p], Ready(k, t) /\ p = k.prio[t])
        /\ \A o \in Objects :
             in(k.pend[o], k.wait[t] \in {"PEND", "PEND_TIMEOUT"}
                           /\ o = k.pendOn[t])
        /\ in(Names(k.dlys), k.wait[t] = "DLY")
        /\ in(Names(k.timeouts), k.wait[t] = "PEND_TIMEOUT")

\* Nobody waits for what is free: a mutex without an owner and a semaphore
\* with a count have empty pend lists, whatever mix of posts, OSSemSet,
\* timeouts, aborts and deletions has led there.
NoLostWakeup ==
  /\ \A m \in Mutexes : k.nest[m] = 0 => k.pend[m] = <<>>
  /\ \A o \in Sems : k.ctr[o] > 0 => k.pend[o] = <<>>

\* The deltas of a tick list add up to the ticks each task still has to wait,
\* though tasks in front of it leave the list early (os_tick.c:399, "Add back
\* the ticks to the delta").
DelaysExact ==
  \A list \in {k.dlys, k.timeouts} : \A i \in DOMAIN list :
    Total(list, i) = k.due[list[i][1]]

\* The pend lists stay in the order of the priorities, which change while
\* tasks wait: the head, who gets the mutex, has the highest
\* (OS_PendListChangePrio).
PendSorted ==
  \A o \in Objects : \A i, j \in DOMAIN k.pend[o] :
    i < j => k.prio[k.pend[o][i]] <= k.prio[k.pend[o][j]]

\* Priority inheritance is exact: a task has its own priority or the highest
\* of those who wait for a mutex it owns, and loses it when they are served,
\* time out, are aborted or deleted -- until OS_TaskChangePrio has passed a
\* lower priority to an owner who did not have it from this task
\* (os_task.c:2385), or a task was deleted while others waited for its mutex.
PrioExact ==
  \A t \in Tasks :
    k.astray \/ k.wait[t] = "DEL" \/ k.prio[t] = Disinherited(k, t)

\* Who was told that it has the mutex (RTOS_ERR_NONE) is its owner, until a
\* task is deleted while others wait for its mutex (os_mutex.c:879).
HolderOwns ==
  \A t \in Tasks, m \in Mutexes : m \in k.held[t] => k.astray \/ k.owner[m] = t

\* OS_TaskChangePrio comes to an end even when the chain of owners is a cycle,
\* as it is when tasks have deadlocked, OS_MutexGrpRemove finds the mutex it
\* looks for, and RTOS_CRITICAL_FAIL_EXEC is not reached.
NeverFails == k.failed => k.astray

\* What "Base priority (Not inherited)" (os.h:819) and "Priority inheritance
\* is updated if necessary" (os_task.c:2323) say: inheriting never leaves a
\* task with less than its base priority.  It does not hold: see the README.
NeverBelowBase == \A t \in Tasks : k.wait[t] # "DEL" => k.prio[t] <= k.base[t]

\* "Give mutex to new owner" (os_mutex.c:879): who waits for a mutex of a task
\* that is deleted, and is told that it has the mutex, owns it.  It does not
\* hold: the deleted task is written down as the owner.
NewOwnerOwns == \A t \in Tasks, m \in Mutexes : m \in k.held[t] => k.owner[m] = t
=============================================================================
