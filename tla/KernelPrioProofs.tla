--------------------------- MODULE KernelPrioProofs ---------------------------
(***************************************************************************)
(* Proofs about the priorities of Kernel.tla: they are inherited exactly,   *)
(* and the loop of OS_TaskChangePrio along the owners always ends.          *)
(*                                                                          *)
(* Fine joins the invariant of KernelProofs: each task has the best of the  *)
(* priorities it should have.  In the middle of a service one task at a     *)
(* time is the exception: the one that the chain of owners has reached.     *)
(***************************************************************************)
EXTENDS KernelProofs

-----------------------------------------------------------------------------
(* Exact priorities                                                          *)

\* u waits for a mutex of t, which inherits its priority.
Gives(s, u, t) == s.pendOn[u] \in Mutexes /\ s.owner[s.pendOn[u]] = t

\* v is the priority that t should have, if its own were b[t].
Best(s, b, t, v) ==
  /\ v <= b[t]
  /\ \A u \in Tasks : Gives(s, u, t) => v <= s.prio[u]
  /\ v = b[t] \/ \E u \in Tasks : Gives(s, u, t) /\ s.prio[u] = v

\* All tasks but those of D have it; and nobody waits for its own mutex.
Exactly(s, b, D) ==
  \A t \in Tasks : t \notin D /\ s.wait[t] # "DEL" => Best(s, b, t, s.prio[t])
Selfless(s) == \A u \in Tasks : ~Gives(s, u, u)

\* The mutexes of t that tasks wait for are in its list; and it was not deleted.
Grouped(s, t) ==
  \A u \in Tasks : s.pendOn[u] \in Mutexes =>
                   (s.pendOn[u] \in ToSet(s.grp[t]) <=> s.owner[s.pendOn[u]] = t)
Linked(s) ==
  s.astray \/ \A t \in Tasks : /\ Grouped(s, t)
                              /\ \A u \in Tasks : Gives(s, u, t) => s.wait[t] # "DEL"

\* What PrioExact and NeverFails need.
Fine(s) == s.astray \/ (~s.failed /\ Exactly(s, s.base, {}) /\ Selfless(s))

\* Who owns what, as the priorities need it.
LEMMA HoldLinked ==
  ASSUME NEW s, Hold(s)
  PROVE  Linked(s)
<1> SUFFICES ASSUME ~s.astray, NEW t \in Tasks
             PROVE  Grouped(s, t) /\ \A u \in Tasks : Gives(s, u, t) => s.wait[t] # "DEL"
  BY DEF Linked
<1>1. \A m \in Mutexes : m \in ToSet(s.grp[t]) <=> s.owner[m] = t
  BY DEF Hold
<1>2. Grouped(s, t)
  BY <1>1 DEF Grouped
<1>3. ASSUME NEW u \in Tasks, Gives(s, u, t) PROVE s.wait[t] # "DEL"
  <2>1. s.pendOn[u] \in ToSet(s.grp[t])
    BY <1>1, <1>3 DEF Gives
  <2>2. s.grp[t] # << >>
    BY <2>1 DEF ToSet
  <2> QED
    BY <2>2 DEF Hold
<1> QED
  BY <1>2, <1>3

\* There is one such priority.
LEMMA BestOne ==
  ASSUME NEW s, s.prio \in [Tasks -> Prios], NEW b \in [Tasks -> Prios], NEW t \in Tasks,
         NEW v \in Prios, NEW w \in Prios, Best(s, b, t, v), Best(s, b, t, w)
  PROVE  v = w
<1>0. v \in Int /\ w \in Int
  BY KernelAssumption DEF Prios
<1>1. v <= w
  BY DEF Best
<1>2. w <= v
  BY DEF Best
<1> QED
  BY <1>0, <1>1, <1>2

\* OS_MutexGrpPrioFindHighest finds the best of those who wait for a mutex of t.
LEMMA HighestLemma ==
  ASSUME NEW s, Types(s), Pended(s.pend, s.pendOn, s.prio), NEW t \in Tasks, Grouped(s, t)
  PROVE  LET high == MutexGrpPrioFindHighest(s, t)
         IN  /\ \A u \in Tasks : Gives(s, u, t) => high <= s.prio[u]
             /\ high = IdlePrio \/ \E u \in Tasks : Gives(s, u, t) /\ s.prio[u] = high
<1> DEFINE M == {IdlePrio} \cup {s.prio[Head(s.pend[m])] :
                   m \in {n \in ToSet(s.grp[t]) : s.pend[n] # <<>>}}
           high == MutexGrpPrioFindHighest(s, t)
<1>0. /\ IdlePrio \in Nat /\ Prios \subseteq Nat /\ Types(s)
      /\ s.prio \in [Tasks -> Prios] /\ s.grp[t] \in Seq(Mutexes)
  <2>1. IdlePrio \in Nat /\ Prios \subseteq Nat
    BY KernelAssumption DEF IdlePrio, Prios
  <2> QED
    BY <2>1 DEF Types
<1>1. \A m \in ToSet(s.grp[t]) : m \in Mutexes /\ m \in Objects /\ s.pend[m] \in Seq(Tasks)
  BY <1>0, SetFacts DEF Objects, Types
<1>2. ASSUME NEW m \in ToSet(s.grp[t]), s.pend[m] # << >>
      PROVE  /\ Head(s.pend[m]) \in Tasks /\ Gives(s, Head(s.pend[m]), t)
             /\ s.prio[Head(s.pend[m])] \in Prios
  <2>1. Head(s.pend[m]) \in ToSet(s.pend[m]) /\ Head(s.pend[m]) \in Tasks
    BY <1>1, <1>2, SetFacts
  <2>2. s.pendOn[Head(s.pend[m])] = m /\ s.owner[m] = t
    BY <1>1, <2>1 DEF Grouped, Pended
  <2> QED
    BY <1>0, <1>1, <2>1, <2>2 DEF Gives
<1>3. M \in SUBSET Nat /\ M # {}
  <2>1. \A x \in M : x = IdlePrio \/ x \in Prios
    BY <1>2
  <2>2. IdlePrio \in M
    OBVIOUS
  <2> HIDE DEF M
  <2> QED
    BY <1>0, <2>1, <2>2
<1>4. high = Min(M)
  BY DEF MutexGrpPrioFindHighest
<1>5. \A x \in M : x = IdlePrio \/ \E u \in Tasks : Gives(s, u, t) /\ s.prio[u] = x
  BY <1>2
<1>6. ASSUME NEW u \in Tasks, Gives(s, u, t)
      PROVE  \E x \in M : x <= s.prio[u]
  <2> DEFINE m == s.pendOn[u]
             q == s.pend[m]
  <2>1. m \in ToSet(s.grp[t]) /\ m \in Objects
    BY <1>6 DEF Gives, Objects, Grouped
  <2>2. q \in Seq(Tasks) /\ u \in ToSet(q)
    BY <1>1, <2>1 DEF Pended
  <2>3. PICK i \in 1..Len(q) : q[i] = u
    BY <2>2, SetFacts
  <2>4. q # << >> /\ Head(q) = q[1] /\ Head(q) \in Tasks /\ DOMAIN q = 1..Len(q) /\ Len(q) \in Nat
    BY <2>2, <2>3, SetFacts
  <2>5. 1 \in 1..Len(q)
    BY <2>3, <2>4
  <2>6. s.prio[q[1]] <= s.prio[q[i]]
    <3>1. \A a, b \in DOMAIN q : a < b => s.prio[q[a]] <= s.prio[q[b]]
      BY <2>1 DEF Pended
    <3>2. CASE i = 1
      <4>1. s.prio[Head(q)] \in Prios
        BY <1>0, <2>4
      <4>2. s.prio[q[1]] \in Nat
        BY <1>0, <2>4, <4>1
      <4> QED
        BY <3>2, <4>2
    <3>3. CASE i # 1
      <4>1. 1 < i
        BY <2>3, <2>4, <3>3
      <4> QED
        BY <2>4, <2>5, <3>1, <4>1
    <3> QED
      BY <3>2, <3>3
  <2>7. s.prio[Head(q)] \in M
    BY <2>1, <2>4
  <2> QED
    BY <2>3, <2>4, <2>6, <2>7
<1> HIDE DEF M, high
<1>7. high \in M /\ \A x \in M : high <= x
  BY <1>3, <1>4, MinLemma
<1>8. ASSUME NEW u \in Tasks, Gives(s, u, t) PROVE high <= s.prio[u]
  <2>1. PICK x \in M : x <= s.prio[u]
    BY <1>6, <1>8
  <2>2. x \in Nat /\ high \in Nat /\ s.prio[u] \in Nat /\ high <= x
    BY <1>0, <1>3, <1>7
  <2> QED
    BY <2>1, <2>2
<1> QED
  BY <1>5, <1>7, <1>8 DEF high

\* Disinherited is the priority t should have.
LEMMA DisinheritedBest ==
  ASSUME NEW s, Types(s), Pended(s.pend, s.pendOn, s.prio), NEW t \in Tasks, Grouped(s, t)
  PROVE  Disinherited(s, t) \in Prios /\ Best(s, s.base, t, Disinherited(s, t))
<1> DEFINE high == MutexGrpPrioFindHighest(s, t)
           v == Disinherited(s, t)
<1>0. /\ IdlePrio \in Nat /\ Prios \subseteq Nat /\ \A p \in Prios : p < IdlePrio
      /\ s.prio \in [Tasks -> Prios] /\ s.base[t] \in Prios /\ Types(s)
  <2>1. IdlePrio \in Nat /\ Prios \subseteq Nat /\ \A p \in Prios : p < IdlePrio
    BY KernelAssumption DEF IdlePrio, Prios
  <2> QED
    BY <2>1 DEF Types
<1>1. v \in Prios /\ high \in 0..IdlePrio
  BY <1>0, DisinheritedType
<1>2. /\ \A u \in Tasks : Gives(s, u, t) => high <= s.prio[u]
      /\ high = IdlePrio \/ \E u \in Tasks : Gives(s, u, t) /\ s.prio[u] = high
  BY HighestLemma
<1>3. v = Min({s.base[t], high})
  BY DEF Disinherited
<1> HIDE DEF v, high
<1>4. high \in Nat /\ s.base[t] \in Nat /\ v \in Nat
  <2>1. \A x \in 0..IdlePrio : x \in Nat
    BY <1>0
  <2> QED
    BY <1>0, <1>1, <2>1
<1>5. v \in {s.base[t], high} /\ v <= s.base[t] /\ v <= high
  BY <1>3, <1>4, MinTwo
<1>6. ASSUME NEW u \in Tasks, Gives(s, u, t) PROVE v <= s.prio[u]
  <2>1. high <= s.prio[u] /\ s.prio[u] \in Nat
    BY <1>0, <1>2, <1>6
  <2> QED
    BY <1>4, <1>5, <2>1
<1>7. v = s.base[t] \/ \E u \in Tasks : Gives(s, u, t) /\ s.prio[u] = v
  <2>1. CASE v = high
    <3>1. v < IdlePrio
      BY <1>0, <1>1
    <3>2. high # IdlePrio
      BY <1>0, <2>1, <3>1
    <3> QED
      BY <1>2, <2>1, <3>2
  <2> QED
    BY <1>5, <2>1
<1>8. Best(s, s.base, t, v)
  BY <1>5, <1>6, <1>7 DEF Best
<1> QED
  BY <1>1, <1>8 DEF v

-----------------------------------------------------------------------------
(* The chain of owners                                                       *)

\* OS_PendListChangePrio after the priority was set.
LEMMA ListedFields ==
  ASSUME NEW s, Shape(s), NEW t, NEW p
  PROVE  LET s2 == PendListChangePrio([s EXCEPT !.prio[t] = p], t)
         IN  Frame(s, s2, {"prio", "pend", "pendOn"}) /\ s2.prio = [s.prio EXCEPT ![t] = p]
<1> DEFINE set == [s EXCEPT !.prio[t] = p]
           off == PendListRemove(set, t)
           s2 == PendListInsertPrio(off, set.pendOn[t], t)
<1>1. Frame(s, set, {"prio"}) /\ set.prio = [s.prio EXCEPT ![t] = p]
  BY DEF Shape, Frame, Fields
<1>2. s2 = PendListChangePrio(set, t)
  BY DEF PendListChangePrio
<1> HIDE DEF set
<1>3. Frame(set, off, {"pend", "pendOn"})
  <2>1. Shape(set)
    BY <1>1 DEF Frame
  <2> QED
    BY <2>1, PendRemoveFields
<1> HIDE DEF off
<1>4. Frame(off, s2, {"pend", "pendOn"})
  <2>1. Shape(off)
    BY <1>3 DEF Frame
  <2> QED
    BY <2>1, PendInsertFields
<1> HIDE DEF s2
<1>5. Frame(set, s2, {"pend", "pendOn"})
  BY <1>3, <1>4, FrameTrans
<1>6. s2.prio = set.prio
  BY <1>5 DEF Frame, Fields
<1>7. Frame(s, s2, {"prio", "pend", "pendOn"})
  <2>1. Frame(s, set, {"prio", "pend", "pendOn"}) /\ Frame(set, s2, {"prio", "pend", "pendOn"})
    BY <1>1, <1>5, FrameWiden
  <2> QED
    BY <2>1, FrameTrans
<1> QED
  BY <1>1, <1>2, <1>6, <1>7 DEF set

\* What a round of OS_TaskChangePrio does with priorities, and where it goes
\* on: to an owner whose priority is too low, or was that of the task; unless
\* it passes a priority on that the owner did not have from the task.
Round(c, d) ==
  \/ d.s.astray
  \/ /\ ~d.s.failed
     /\ d.s.prio = [c.s.prio EXCEPT ![c.task] = c.to]
     /\ \/ d.task = Nothing /\ \A o \in Tasks : ~Gives(c.s, c.task, o)
        \/ \E o \in Tasks :
             /\ Gives(c.s, c.task, o)
             /\ \/ c.to < c.s.prio[c.task] /\ d.s.prio[o] <= c.to /\ d.task = Nothing
                \/ c.to < c.s.prio[c.task] /\ c.to < d.s.prio[o] /\ d.task = o /\ d.to = c.to
                \/ /\ c.s.prio[c.task] <= c.to /\ d.s.prio[o] = c.s.prio[c.task]
                   /\ Disinherited(d.s, o) = d.s.prio[o] /\ d.task = Nothing
                \/ /\ c.s.prio[c.task] <= c.to /\ d.s.prio[o] = c.s.prio[c.task]
                   /\ Disinherited(d.s, o) # d.s.prio[o]
                   /\ d.task = o /\ d.to = Disinherited(d.s, o)

\* One round goes so.
LEMMA ChangeOneRound ==
  ASSUME NEW c \in Chains, Core(c.s, {}), c.task \in Tasks, ~c.s.failed,
         c.s.wait[c.task] # "DEL", c.s.wait[c.task] \in Pending => c.s.pendOn[c.task] # Nothing
  PROVE  Round(c, ChangeOne(c))
<1> DEFINE s == c.s
           t == c.task
           p == c.to
           set   == [s EXCEPT !.prio[t] = p]
           moved == RdyListRemove(s, t)
           queued == [moved EXCEPT !.prio[t] = p]
           listed == PendListChangePrio(set, t)
           o     == s.owner[s.pendOn[t]]
           lower == Disinherited(listed, o)
           done(x) == [s |-> x, task |-> Nothing, to |-> p]
           next(prio) == IF prio = listed.prio[o] THEN done(listed)
                         ELSE [s |-> listed, task |-> o, to |-> prio]
           pends == s.wait[t] \in {"PEND", "PEND_TIMEOUT"}
           d == ChangeOne(c)
           new == [s.prio EXCEPT ![t] = p]
<1>0. /\ Core(s, {}) /\ t \in Tasks /\ p \in Prios /\ Types(s) /\ Shape(s)
      /\ s.wait[t] \in Waits /\ s.pendOn[t] \in Objects \cup {Nothing}
      /\ Nothing \notin Objects /\ s.wait[t] # "DEL" /\ ~s.failed
      /\ pends => s.pendOn[t] # Nothing
  BY KernelAssumption DEF Core, Types, Chains, Objects, Pending
<1>1. d = CASE s.wait[t] = "DEL" -> done(s)
            [] Ready(s, t) -> done(IF t = s.cur THEN RdyListInsertHead(queued, t)
                                                ELSE RdyListInsertTail(queued, t))
            [] s.wait[t] \in {"RDY", "DLY"} /\ ~Ready(s, t) -> done(set)
            [] pends /\ s.pendOn[t] = Nothing -> done([set EXCEPT !.failed = TRUE])
            [] pends /\ s.pendOn[t] \in Sems -> done(listed)
            [] pends /\ s.pendOn[t] \in Mutexes ->
                 IF s.prio[t] > p
                 THEN IF listed.prio[o] <= p THEN done(listed) ELSE next(p)
                 ELSE IF listed.prio[o] = s.prio[t] THEN next(lower)
                      ELSE [s |-> [listed EXCEPT !.astray = TRUE], task |-> o, to |-> p]
  BY DEF ChangeOne
<1>2. /\ Frame(s, set, {"prio"}) /\ set.prio = new
      /\ Frame(s, listed, {"prio", "pend", "pendOn"}) /\ listed.prio = new
  <2>1. Frame(s, set, {"prio"}) /\ set.prio = new
    BY <1>0 DEF Shape, Frame, Fields
  <2> QED
    BY <1>0, <2>1, ListedFields
<1>3. set.failed = s.failed /\ listed.failed = s.failed
  BY <1>2 DEF Frame, Fields
<1>4. s.pendOn[t] \notin Mutexes => \A v \in Tasks : ~Gives(s, t, v)
  BY DEF Gives
<1>5. ASSUME NEW x, d = done(x), x.prio = new, ~x.failed, s.pendOn[t] \notin Mutexes
      PROVE  Round(c, d)
  <2>1. d.s = x /\ d.task = Nothing
    BY <1>5
  <2> HIDE DEF d
  <2> QED
    BY <1>4, <1>5, <2>1 DEF Round
<1>6. CASE Ready(s, t)
  <2> DEFINE x == IF t = s.cur THEN RdyListInsertHead(queued, t) ELSE RdyListInsertTail(queued, t)
  <2>1. d = done(x)
    BY <1>0, <1>1, <1>6 DEF Ready
  <2>2. s.pendOn[t] \notin Mutexes
    <3>1. s.pendOn[t] = Nothing
      BY <1>0, <1>6 DEF Core, Waiters, Pending, Ready
    <3> QED
      BY <1>0, <3>1 DEF Objects
  <2>3. x.prio = new /\ x.failed = s.failed
    <3>1. Frame(s, moved, {"rdy"})
      BY <1>0, RemoveFields
    <3>2. Shape(moved) /\ moved.prio = s.prio /\ moved.failed = s.failed
      BY <3>1 DEF Frame, Fields
    <3> HIDE DEF moved
    <3>3. Frame(moved, queued, {"prio"}) /\ queued.prio = [moved.prio EXCEPT ![t] = p]
      BY <3>2 DEF Shape, Frame, Fields
    <3>4. Shape(queued) /\ queued.prio = new /\ queued.failed = s.failed
      BY <3>2, <3>3 DEF Frame, Fields
    <3> HIDE DEF queued
    <3>5. Frame(queued, x, {"rdy"})
      BY <3>4, InsertHeadFields, InsertTailFields
    <3> HIDE DEF x, new
    <3> QED
      BY <3>4, <3>5 DEF Frame, Fields
  <2> HIDE DEF x, d
  <2> QED
    BY <1>0, <1>5, <2>1, <2>2, <2>3 DEF d
<1>7. CASE s.wait[t] \in {"RDY", "DLY"} /\ ~Ready(s, t)
  <2>1. d = done(set)
    BY <1>0, <1>1, <1>7 DEF Ready
  <2>2. s.pendOn[t] \notin Mutexes
    <3>1. s.pendOn[t] = Nothing
      BY <1>0, <1>7 DEF Core, Waiters, Pending
    <3> QED
      BY <1>0, <3>1 DEF Objects
  <2> HIDE DEF set, d
  <2> QED
    BY <1>0, <1>2, <1>3, <1>5, <2>1, <2>2 DEF d
<1>8. CASE pends
  <2>1. CASE s.pendOn[t] \in Sems
    <3>1. d = done(listed)
      BY <1>0, <1>1, <1>8, <2>1, KernelAssumption DEF Ready, Objects
    <3>2. s.pendOn[t] \notin Mutexes
      BY <2>1, KernelAssumption
    <3> HIDE DEF listed, d
    <3> QED
      BY <1>0, <1>2, <1>3, <1>5, <3>1, <3>2 DEF d
  <2>2. CASE s.pendOn[t] \in Mutexes
    <3>1. o \in Tasks /\ Gives(s, t, o)
      BY <1>0, <2>2, OwnerExists DEF Gives
    <3>2. d = IF s.prio[t] > p
              THEN IF listed.prio[o] <= p THEN done(listed) ELSE next(p)
              ELSE IF listed.prio[o] = s.prio[t] THEN next(lower)
                   ELSE [s |-> [listed EXCEPT !.astray = TRUE], task |-> o, to |-> p]
      BY <1>0, <1>1, <1>8, <2>2, KernelAssumption DEF Ready, Objects
    <3> DEFINE lost == [listed EXCEPT !.astray = TRUE]
    <3>3. lost.astray = TRUE
      BY <1>2 DEF Shape, Frame, Fields
    <3>4. s.prio[t] \in Nat /\ p \in Nat /\ listed.prio[o] \in Nat
      <4>1. s.prio \in [Tasks -> Prios]
        BY <1>0 DEF Types
      <4>2. new \in [Tasks -> Prios]
        BY <1>0, <4>1
      <4>3. Prios \subseteq Nat
        BY KernelAssumption DEF Prios
      <4> HIDE DEF new, listed, o
      <4> QED
        BY <1>0, <1>2, <3>1, <4>1, <4>2, <4>3
    <3> HIDE DEF listed, lost, lower, o, d, new
    <3>5. \/ s.prio[t] > p /\ listed.prio[o] <= p /\ d = done(listed)
          \/ s.prio[t] > p /\ p < listed.prio[o] /\ d = [s |-> listed, task |-> o, to |-> p]
          \/ s.prio[t] <= p /\ listed.prio[o] = s.prio[t] /\ lower = listed.prio[o] /\ d = done(listed)
          \/ s.prio[t] <= p /\ listed.prio[o] = s.prio[t] /\ lower # listed.prio[o]
             /\ d = [s |-> listed, task |-> o, to |-> lower]
          \/ d = [s |-> lost, task |-> o, to |-> p]
      <4>1. CASE s.prio[t] > p /\ listed.prio[o] <= p
        BY <3>2, <4>1
      <4>2. CASE s.prio[t] > p /\ ~(listed.prio[o] <= p)
        <5>1. p < listed.prio[o] /\ p # listed.prio[o]
          BY <3>4, <4>2
        <5> QED
          BY <3>2, <4>2, <5>1
      <4>3. CASE ~(s.prio[t] > p)
        <5>1. s.prio[t] <= p
          BY <3>4, <4>3
        <5> QED
          BY <3>2, <4>3, <5>1 DEF lost
      <4> QED
        BY <4>1, <4>2, <4>3
    <3>6. s.prio[t] > p <=> p < s.prio[t]
      BY <3>4
    <3>7. CASE s.prio[t] > p /\ listed.prio[o] <= p /\ d = done(listed)
      <4>1. d.s = listed /\ d.task = Nothing
        BY <3>7
      <4> QED
        BY <1>0, <1>2, <1>3, <3>1, <3>6, <3>7, <4>1 DEF Round, new, d
    <3>8. CASE s.prio[t] > p /\ p < listed.prio[o] /\ d = [s |-> listed, task |-> o, to |-> p]
      <4>1. d.s = listed /\ d.task = o /\ d.to = p
        BY <3>8
      <4> QED
        BY <1>0, <1>2, <1>3, <3>1, <3>6, <3>8, <4>1 DEF Round, new, d
    <3>9. CASE s.prio[t] <= p /\ listed.prio[o] = s.prio[t] /\ lower = listed.prio[o] /\ d = done(listed)
      <4>1. d.s = listed /\ d.task = Nothing
        BY <3>9
      <4> QED
        BY <1>0, <1>2, <1>3, <3>1, <3>9, <4>1 DEF Round, new, lower, d
    <3>10. CASE s.prio[t] <= p /\ listed.prio[o] = s.prio[t] /\ lower # listed.prio[o]
                /\ d = [s |-> listed, task |-> o, to |-> lower]
      <4>1. d.s = listed /\ d.task = o /\ d.to = lower
        BY <3>10
      <4> QED
        BY <1>0, <1>2, <1>3, <3>1, <3>10, <4>1 DEF Round, new, lower, d
    <3>11. CASE d = [s |-> lost, task |-> o, to |-> p]
      <4>1. d.s = lost
        BY <3>11
      <4> QED
        BY <3>3, <4>1 DEF Round, d
    <3> QED
      BY <3>5, <3>7, <3>8, <3>9, <3>10, <3>11
  <2> QED
    BY <1>0, <1>8, <2>1, <2>2 DEF Objects
<1>9. Ready(s, t) \/ (s.wait[t] \in {"RDY", "DLY"} /\ ~Ready(s, t)) \/ pends
  BY <1>0 DEF Waits
<1> QED
  BY <1>6, <1>7, <1>8, <1>9

\* The priority of t matters to the owner of what it waits for, and to nobody else.
LEMMA BestOthers ==
  ASSUME NEW s, s.prio \in [Tasks -> Prios], NEW s2, NEW t \in Tasks, NEW p,
         s2.prio = [s.prio EXCEPT ![t] = p], s2.pendOn = s.pendOn, s2.owner = s.owner,
         NEW b, NEW x \in Tasks, ~Gives(s, t, x), NEW v
  PROVE  Best(s2, b, x, v) <=> Best(s, b, x, v)
<1>1. \A u \in Tasks : Gives(s2, u, x) <=> Gives(s, u, x)
  BY DEF Gives
<1>2. \A u \in Tasks : Gives(s, u, x) => s2.prio[u] = s.prio[u]
  OBVIOUS
<1> QED
  BY <1>1, <1>2 DEF Best

\* It rises, and with it the owner, unless that is above it.
LEMMA BestRaised ==
  ASSUME NEW s, s.prio \in [Tasks -> Prios], NEW s2, NEW t \in Tasks, NEW p \in Prios,
         s2.prio = [s.prio EXCEPT ![t] = p], s2.pendOn = s.pendOn, s2.owner = s.owner,
         NEW b \in [Tasks -> Prios], NEW o \in Tasks, Gives(s, t, o),
         p < s.prio[t], Best(s, b, o, s.prio[o])
  PROVE  /\ s.prio[o] <= p => Best(s2, b, o, s.prio[o])
         /\ p < s.prio[o] => Best(s2, b, o, p)
<1>0. \A q \in Prios : q \in Int
  BY KernelAssumption DEF Prios
<1>1. \A u \in Tasks : Gives(s2, u, o) <=> Gives(s, u, o)
  BY DEF Gives
<1>2. s2.prio[t] = p /\ \A u \in Tasks : u # t => s2.prio[u] = s.prio[u]
  OBVIOUS
<1>3. p \in Int /\ b[o] \in Int /\ \A u \in Tasks : s.prio[u] \in Int
  BY <1>0
<1>4. /\ s.prio[o] <= b[o] /\ \A u \in Tasks : Gives(s, u, o) => s.prio[o] <= s.prio[u]
      /\ s.prio[o] = b[o] \/ \E u \in Tasks : Gives(s, u, o) /\ s.prio[u] = s.prio[o]
  BY DEF Best
<1>5. CASE s.prio[o] <= p
  <2>1. \A u \in Tasks : Gives(s, u, o) => s.prio[o] <= s2.prio[u]
    BY <1>2, <1>4, <1>5
  <2>2. s.prio[o] = b[o] \/ \E u \in Tasks : Gives(s, u, o) /\ s2.prio[u] = s.prio[o]
    <3>1. s.prio[t] # s.prio[o]
      BY <1>3, <1>5
    <3> QED
      BY <1>2, <1>4, <3>1
  <2>3. Best(s2, b, o, s.prio[o])
    BY <1>1, <1>4, <2>1, <2>2 DEF Best
  <2>4. ~(p < s.prio[o])
    BY <1>3, <1>5
  <2> QED
    BY <2>3, <2>4
<1>6. CASE p < s.prio[o]
  <2>1. p <= b[o]
    BY <1>3, <1>4, <1>6
  <2>2. \A u \in Tasks : Gives(s, u, o) => p <= s2.prio[u]
    BY <1>2, <1>3, <1>4, <1>6
  <2>3. Best(s2, b, o, p)
    BY <1>1, <1>2, <2>1, <2>2 DEF Best
  <2>4. ~(s.prio[o] <= p)
    BY <1>3, <1>6
  <2> QED
    BY <2>3, <2>4
<1> QED
  BY <1>3, <1>5, <1>6

\* The task t gets the priority p.
Gets(s, s2, t, p) ==
  s2.prio = [s.prio EXCEPT ![t] = p] /\ s2.pendOn = s.pendOn /\ s2.owner = s.owner

\* It sinks, and the owner that had its priority does not rise.
LEMMA BestLowered ==
  ASSUME NEW s, s.prio \in [Tasks -> Prios], NEW s2, NEW t \in Tasks, NEW p \in Prios,
         Gets(s, s2, t, p),
         NEW b \in [Tasks -> Prios], NEW o \in Tasks, s.prio[t] <= p,
         Best(s, b, o, s.prio[o]), NEW v \in Prios, Best(s2, b, o, v)
  PROVE  /\ s.prio[o] <= v
         /\ p = s.prio[t] => v = s.prio[o]
<1>0. \A q \in Prios : q \in Int
  BY KernelAssumption DEF Prios
<1>1. \A u \in Tasks : Gives(s2, u, o) <=> Gives(s, u, o)
  BY DEF Gives, Gets
<1>2. s2.prio[t] = p /\ \A u \in Tasks : u # t => s2.prio[u] = s.prio[u]
  BY DEF Gets
<1>3. p \in Int /\ v \in Int /\ b[o] \in Int /\ \A u \in Tasks : s.prio[u] \in Int
  BY <1>0
<1>4. \A u \in Tasks : s.prio[u] <= s2.prio[u] /\ s2.prio[u] \in Int
  BY <1>2, <1>3
<1>5. /\ s.prio[o] <= b[o] /\ \A u \in Tasks : Gives(s, u, o) => s.prio[o] <= s.prio[u]
  BY DEF Best
<1>6. v = b[o] \/ \E u \in Tasks : Gives(s, u, o) /\ s2.prio[u] = v
  BY <1>1 DEF Best
<1>7. s.prio[o] <= v
  <2>1. CASE v = b[o]
    BY <1>5, <2>1
  <2>2. CASE \E u \in Tasks : Gives(s, u, o) /\ s2.prio[u] = v
    <3>1. PICK u \in Tasks : Gives(s, u, o) /\ s2.prio[u] = v
      BY <2>2
    <3>2. s.prio[o] <= s.prio[u] /\ s.prio[u] <= v
      BY <1>4, <1>5, <3>1
    <3> QED
      BY <1>3, <3>2
  <2> QED
    BY <1>6, <2>1, <2>2
<1>8. ASSUME p = s.prio[t] PROVE v = s.prio[o]
  <2>1. \A u \in Tasks : s2.prio[u] = s.prio[u]
    BY <1>2, <1>8
  <2>2. Best(s2, b, o, s.prio[o])
    BY <1>1, <2>1 DEF Best
  <2>3. s2.prio \in [Tasks -> Prios] /\ s.prio[o] \in Prios
    BY DEF Gets
  <2> QED
    BY <2>2, <2>3, BestOne
<1> QED
  BY <1>7, <1>8

\* What the chain rests on does not change with the priorities.
LEMMA ReprioGives ==
  ASSUME NEW s, NEW s2, Reprio(s, s2)
  PROVE  /\ \A u, t : Gives(s2, u, t) <=> Gives(s, u, t)
         /\ Selfless(s) => Selfless(s2)
         /\ s2.base = s.base /\ s2.wait = s.wait
         /\ Linked(s) => Linked(s2)
<1>1. /\ s2.pendOn = s.pendOn /\ s2.owner = s.owner /\ s2.base = s.base /\ s2.wait = s.wait
      /\ s2.grp = s.grp /\ (s.astray => s2.astray)
  BY DEF Reprio, Frame, Fields
<1>2. \A u, t : Gives(s2, u, t) <=> Gives(s, u, t)
  BY <1>1 DEF Gives
<1>3. Linked(s) => Linked(s2)
  BY <1>1, <1>2 DEF Linked, Grouped
<1> QED
  BY <1>1, <1>2, <1>3 DEF Selfless

\* What the rounds keep: all tasks but the one at hand have the priorities they
\* should have, and that one gets it; the chain raises them to r, or lowers them
\* from r.
Chained(s, b, up, r, c) ==
  \/ c.s.astray
  \/ /\ ~c.s.failed
     /\ up => \A u \in Tasks : s.prio[u] <= r => c.s.prio[u] = s.prio[u]
     /\ IF c.task = Nothing THEN Exactly(c.s, b, {})
        ELSE /\ Exactly(c.s, b, {c.task}) /\ Best(c.s, b, c.task, c.to)
             /\ c.s.wait[c.task] # "DEL"
             /\ IF up THEN c.to = r /\ r < c.s.prio[c.task]
                ELSE c.s.prio[c.task] = r /\ r <= c.to

\* The tasks the chain can still come to.
Left(up, r, s) == {u \in Tasks : IF up THEN r < s.prio[u] ELSE s.prio[u] = r}

\* An owner that has not gone astray was not deleted.
LEMMA OwnerLives ==
  ASSUME NEW s, Linked(s), ~s.astray, NEW u \in Tasks, NEW o \in Tasks, Gives(s, u, o)
  PROVE  s.wait[o] # "DEL"
BY DEF Linked

\* The priorities of such a chain after one round.
LEMMA ChainStep ==
  ASSUME NEW s, NEW b \in [Tasks -> Prios], NEW up \in BOOLEAN, NEW r \in Prios, NEW c \in Chains,
         NEW D, Core(c.s, {}), Blocked(c.s, D), Linked(c.s), Selfless(c.s), ~c.s.astray,
         up \/ b = c.s.base, c.task \in Tasks, c.task \notin D,
         \A u \in Tasks, w \in Tasks : w \in D => ~Gives(c.s, u, w),
         Chained(s, b, up, r, c)
  PROVE  LET d == ChangeOne(c)
         IN  /\ Chained(s, b, up, r, d)
             /\ \/ d.s.astray
                \/ d.task = Nothing
                \/ /\ d.task \in Tasks /\ d.task \notin D /\ c.task \in Left(up, r, c.s)
                   /\ Left(up, r, d.s) \subseteq Left(up, r, c.s) \ {c.task}
<1> DEFINE d == ChangeOne(c)
           x == c.s
           y == d.s
           t == c.task
           p == c.to
<1>0. /\ t \in Tasks /\ p \in Prios /\ Types(x) /\ x.prio \in [Tasks -> Prios]
      /\ ~x.failed /\ Exactly(x, b, {t}) /\ Best(x, b, t, p) /\ x.wait[t] # "DEL"
  <2>1. t # Nothing
    BY KernelAssumption
  <2>2. Types(x)
    BY DEF Core
  <2>3. x.prio \in [Tasks -> Prios]
    BY <2>2 DEF Types
  <2> QED
    BY <2>1, <2>2, <2>3 DEF Chained, Chains
<1>01. up => \A u \in Tasks : s.prio[u] <= r => x.prio[u] = s.prio[u]
  BY DEF Chained
<1>02. IF up THEN p = r /\ r < x.prio[t] ELSE x.prio[t] = r /\ r <= p
  <2>1. t # Nothing
    BY KernelAssumption
  <2> QED
    BY <2>1 DEF Chained
<1>1. Reprio(x, y) /\ d \in Chains
  BY ChangeOneReprio
<1>2. Round(c, d)
  <2>1. x.wait[t] \in Pending => x.pendOn[t] # Nothing
    BY <1>0 DEF Blocked
  <2>2. ~c.s.failed /\ c.s.wait[c.task] # "DEL" /\ c.task \in Tasks
    BY <1>0
  <2> QED
    BY <2>1, <2>2, ChangeOneRound
<1>3. /\ y.pendOn = x.pendOn /\ y.owner = x.owner /\ y.wait = x.wait /\ y.base = x.base
      /\ Core(y, {}) /\ Types(y)
  BY <1>1 DEF Reprio, Frame, Fields, Core
<1>4. Linked(y)
  BY <1>1, ReprioGives
<1> HIDE DEF d
<1>5. CASE y.astray
  BY <1>5 DEF Chained, d
<1>6. CASE ~y.astray
  <2> DEFINE q == x.prio[t]
  <2>1. ~y.failed /\ y.prio = [x.prio EXCEPT ![t] = p]
    BY <1>2, <1>6 DEF Round
  <2>2. y.prio[t] = p /\ \A u \in Tasks : u # t => y.prio[u] = x.prio[u]
    BY <1>0, <2>1
  <2>3. \A z \in Prios : z \in Int
    BY KernelAssumption DEF Prios
  <2>4. p \in Int /\ r \in Int /\ (\A u \in Tasks : x.prio[u] \in Prios /\ x.prio[u] \in Int)
        /\ \A u \in Tasks : y.prio[u] \in Prios /\ y.prio[u] \in Int
    BY <1>0, <2>2, <2>3
  <2>5. up => \A u \in Tasks : s.prio[u] <= r => y.prio[u] = s.prio[u]
    <3> SUFFICES ASSUME up, NEW u \in Tasks, s.prio[u] <= r PROVE y.prio[u] = s.prio[u]
      OBVIOUS
    <3>0. \A w \in Tasks : s.prio[w] <= r => x.prio[w] = s.prio[w]
      BY <1>01
    <3>1. x.prio[u] = s.prio[u] /\ x.prio[u] <= r
      BY <3>0
    <3>2. u # t
      BY <1>02, <2>4, <3>1
    <3> QED
      BY <2>2, <3>1, <3>2
  <2>6. \A u \in Tasks : ~Gives(x, u, u)
    BY DEF Selfless
  <2>7. ASSUME NEW u \in Tasks, ~Gives(x, t, u), x.wait[u] # "DEL"
        PROVE  Best(y, b, u, y.prio[u])
    <3>1. CASE u = t
      <4>1. Best(y, b, t, p)
        <5>1. ~Gives(x, t, t) /\ Best(x, b, t, p) /\ x.prio \in [Tasks -> Prios]
          BY <1>0, <2>6
        <5> HIDE DEF x, y, t, p
        <5> QED
          BY <1>0, <1>3, <2>1, <5>1, BestOthers
      <4> QED
        BY <2>2, <3>1, <4>1
    <3>2. CASE u # t
      <4>1. Best(x, b, u, x.prio[u])
        BY <1>0, <2>7, <3>2 DEF Exactly
      <4> DEFINE v == x.prio[u]
      <4>2. Best(y, b, u, v)
        <5>1. x.prio \in [Tasks -> Prios] /\ t \in Tasks
          BY <1>0
        <5> HIDE DEF x, y, t, p, v
        <5>2. Best(x, b, u, v)
          BY <4>1 DEF v
        <5> QED
          BY <1>3, <2>1, <2>7, <5>1, <5>2, BestOthers
      <4> QED
        BY <2>2, <3>2, <4>2
    <3> QED
      BY <3>1, <3>2
  <2>8. CASE d.task = Nothing /\ \A o \in Tasks : ~Gives(x, t, o)
    <3>1. Exactly(y, b, {})
      BY <1>3, <2>7, <2>8 DEF Exactly
    <3>2. Chained(s, b, up, r, d)
      BY <2>1, <2>5, <2>8, <3>1 DEF Chained
    <3> QED
      BY <2>8, <3>2 DEF d
  <2>9. ASSUME NEW o \in Tasks, Gives(x, t, o),
               \/ p < q /\ y.prio[o] <= p /\ d.task = Nothing
               \/ p < q /\ p < y.prio[o] /\ d.task = o /\ d.to = p
               \/ /\ q <= p /\ y.prio[o] = q
                  /\ Disinherited(y, o) = y.prio[o] /\ d.task = Nothing
               \/ /\ q <= p /\ y.prio[o] = q
                  /\ Disinherited(y, o) # y.prio[o]
                  /\ d.task = o /\ d.to = Disinherited(y, o)
        PROVE  /\ Chained(s, b, up, r, d)
               /\ \/ d.task = Nothing
                  \/ /\ d.task \in Tasks /\ d.task \notin D /\ t \in Left(up, r, x)
                     /\ Left(up, r, y) \subseteq Left(up, r, x) \ {t}
    <3>1. o # t /\ x.wait[o] # "DEL" /\ o \notin D
      <4>1. x.wait[o] # "DEL"
        BY <1>0, <2>9, OwnerLives
      <4>2. o # t
        BY <2>6, <2>9
      <4> QED
        BY <1>0, <2>9, <4>1, <4>2
    <3>2. Exactly(y, b, {o})
      <4> SUFFICES ASSUME NEW u \in Tasks, u # o, y.wait[u] # "DEL" PROVE Best(y, b, u, y.prio[u])
        BY DEF Exactly
      <4>1. ~Gives(x, t, u)
        BY <2>9 DEF Gives
      <4> QED
        BY <1>3, <2>7, <4>1
    <3>3. Best(x, b, o, x.prio[o]) /\ y.prio[o] = x.prio[o] /\ o # Nothing
      BY <1>0, <2>2, <3>1, KernelAssumption DEF Exactly
    <3>4. ASSUME Best(y, b, o, y.prio[o]) PROVE Exactly(y, b, {})
      BY <3>2, <3>4 DEF Exactly
    <3>5. CASE up
      <4>1. p = r /\ p < q
        BY <1>02, <3>5
      <4>2. ~(q <= p)
        BY <1>0, <2>4, <4>1
      <4>3. /\ x.prio[o] <= p => Best(y, b, o, x.prio[o])
            /\ p < x.prio[o] => Best(y, b, o, p)
        BY <1>0, <1>3, <2>1, <2>9, <3>3, <4>1, BestRaised
      <4>4. CASE y.prio[o] <= p /\ d.task = Nothing
        <5>1. Exactly(y, b, {})
          BY <3>3, <3>4, <4>3, <4>4
        <5> QED
          BY <2>1, <2>5, <4>4, <5>1 DEF Chained
      <4>5. CASE p < y.prio[o] /\ d.task = o /\ d.to = p
        <5>1. Best(y, b, o, p)
          BY <3>3, <4>3, <4>5
        <5>2. Chained(s, b, up, r, d)
          BY <1>3, <2>1, <2>5, <3>1, <3>2, <3>3, <3>5, <4>1, <4>5, <5>1 DEF Chained
        <5>3. t \in Left(up, r, x)
          BY <1>02, <3>5, <4>1 DEF Left
        <5>4. Left(up, r, y) \subseteq Left(up, r, x) \ {t}
          <6>1. ~(r < y.prio[t])
            BY <2>2, <2>4, <4>1
          <6> QED
            BY <2>2, <3>5, <6>1 DEF Left
        <5> QED
          BY <3>1, <4>5, <5>2, <5>3, <5>4
      <4> QED
        BY <2>9, <4>2, <4>4, <4>5
    <3>6. CASE ~up
      <4>1. q = r /\ q <= p /\ b = y.base
        BY <1>02, <1>3, <3>6
      <4>2. ~(p < q)
        BY <1>0, <2>4, <4>1
      <4>3. Disinherited(y, o) \in Prios /\ Best(y, b, o, Disinherited(y, o))
        <5>1. Grouped(y, o) /\ Pended(y.pend, y.pendOn, y.prio)
          BY <1>3, <1>4, <1>6 DEF Linked, Core
        <5> QED
          BY <1>3, <4>1, <5>1, DisinheritedBest
      <4>4. CASE Disinherited(y, o) = y.prio[o] /\ d.task = Nothing
        <5>1. Exactly(y, b, {})
          BY <3>4, <4>3, <4>4
        <5> QED
          BY <2>1, <2>5, <4>4, <5>1 DEF Chained
      <4>5. CASE y.prio[o] = q /\ Disinherited(y, o) # y.prio[o] /\ d.task = o /\ d.to = Disinherited(y, o)
        <5>1. x.prio[o] <= d.to /\ (p = q => d.to = x.prio[o])
          <6>1. /\ x.prio \in [Tasks -> Prios] /\ p \in Prios /\ x.prio[t] <= p
                /\ Best(x, b, o, x.prio[o]) /\ d.to \in Prios /\ Best(y, b, o, d.to)
            BY <1>0, <3>3, <4>1, <4>3, <4>5
          <6> HIDE DEF x, y, t, p
          <6> DEFINE v == d.to
          <6>2. v \in Prios /\ Best(y, b, o, v)
            BY <6>1
          <6> HIDE DEF v
          <6>3. t \in Tasks /\ Gets(x, y, t, p)
            BY <1>0, <1>3, <2>1 DEF Gets
          <6>4. x.prio[o] <= v /\ (p = x.prio[t] => v = x.prio[o])
            BY <6>1, <6>2, <6>3, BestLowered
          <6> QED
            BY <6>4 DEF v, q
        <5>2. p # q
          BY <3>3, <4>5, <5>1
        <5>3. Chained(s, b, up, r, d)
          <6>1. y.prio[o] = r /\ r <= d.to
            BY <3>3, <4>1, <4>5, <5>1
          <6> QED
            BY <1>3, <2>1, <3>1, <3>2, <3>3, <3>6, <4>3, <4>5, <6>1 DEF Chained
        <5>4. t \in Left(up, r, x)
          BY <1>0, <3>6, <4>1 DEF Left
        <5>5. Left(up, r, y) \subseteq Left(up, r, x) \ {t}
          <6>1. y.prio[t] # r
            BY <2>2, <4>1, <5>2
          <6> QED
            BY <2>2, <3>6, <6>1 DEF Left
        <5> QED
          BY <3>1, <4>5, <5>3, <5>4, <5>5
      <4> QED
        BY <2>9, <4>2, <4>4, <4>5
    <3> QED
      BY <3>5, <3>6
  <2>10. \/ d.task = Nothing /\ \A o \in Tasks : ~Gives(x, t, o)
         \/ \E o \in Tasks :
              /\ Gives(x, t, o)
              /\ \/ p < q /\ y.prio[o] <= p /\ d.task = Nothing
                 \/ p < q /\ p < y.prio[o] /\ d.task = o /\ d.to = p
                 \/ /\ q <= p /\ y.prio[o] = q
                    /\ Disinherited(y, o) = y.prio[o] /\ d.task = Nothing
                 \/ /\ q <= p /\ y.prio[o] = q
                    /\ Disinherited(y, o) # y.prio[o]
                    /\ d.task = o /\ d.to = Disinherited(y, o)
    BY <1>2, <1>6 DEF Round
  <2> HIDE DEF q, x, y, t, p
  <2>11. CASE \E o \in Tasks :
              /\ Gives(x, t, o)
              /\ \/ p < q /\ y.prio[o] <= p /\ d.task = Nothing
                 \/ p < q /\ p < y.prio[o] /\ d.task = o /\ d.to = p
                 \/ /\ q <= p /\ y.prio[o] = q
                    /\ Disinherited(y, o) = y.prio[o] /\ d.task = Nothing
                 \/ /\ q <= p /\ y.prio[o] = q
                    /\ Disinherited(y, o) # y.prio[o]
                    /\ d.task = o /\ d.to = Disinherited(y, o)
    <3>1. /\ Chained(s, b, up, r, d)
          /\ \/ d.task = Nothing
             \/ /\ d.task \in Tasks /\ d.task \notin D /\ t \in Left(up, r, x)
                /\ Left(up, r, y) \subseteq Left(up, r, x) \ {t}
      BY <2>9, <2>11
    <3> QED
      BY <3>1 DEF x, y, t, d
  <2> QED
    BY <2>8, <2>10, <2>11 DEF d, y
<1> QED
  BY <1>5, <1>6 DEF d

\* While the chain goes on there are fewer and fewer tasks it can come to.
Going(D, up, r, i, c) ==
  \/ c.s.astray
  \/ c.task = Nothing
  \/ c.task \notin D /\ Cardinality(Left(up, r, c.s)) <= Cardinality(Tasks) - i

\* A set loses an element.
LEMMA LeftLess ==
  ASSUME NEW S \in SUBSET Tasks, NEW t \in S, NEW T, T \subseteq S \ {t}
  PROVE  /\ Cardinality(S) \in Nat /\ Cardinality(T) \in Nat
         /\ Cardinality(T) <= Cardinality(S) - 1
         /\ Cardinality(S) <= Cardinality(Tasks)
         /\ Cardinality(Tasks) \in Nat
<1>1. IsFiniteSet(Tasks) /\ IsFiniteSet(S) /\ Cardinality(S) <= Cardinality(Tasks)
  BY KernelAssumption, FS_Subset
<1>2. IsFiniteSet(S \ {t}) /\ Cardinality(S \ {t}) = Cardinality(S) - 1
  BY <1>1, FS_RemoveElement
<1>3. IsFiniteSet(T) /\ Cardinality(T) <= Cardinality(S \ {t})
  BY <1>2, FS_Subset
<1>4. Cardinality(S) \in Nat /\ Cardinality(T) \in Nat /\ Cardinality(Tasks) \in Nat
  BY <1>1, <1>3, FS_CardinalityType
<1> QED
  BY <1>1, <1>2, <1>3, <1>4

\* The task at hand is one of them.
LEMMA LeftHas ==
  ASSUME NEW s, NEW b, NEW up, NEW r, NEW c, Chained(s, b, up, r, c), ~c.s.astray, c.task \in Tasks
  PROVE  c.task \in Left(up, r, c.s)
<1>1. c.task # Nothing
  BY KernelAssumption
<1>2. IF up THEN r < c.s.prio[c.task] ELSE c.s.prio[c.task] = r
  BY <1>1 DEF Chained
<1> QED
  BY <1>2 DEF Left

\* One round keeps what the loop needs to go on.
LEMMA GoingStep ==
  ASSUME NEW s, NEW b \in [Tasks -> Prios], NEW up \in BOOLEAN, NEW r \in Prios, NEW c \in Chains,
         NEW D, Core(s, {}), Blocked(s, D), Linked(s), Selfless(s), up \/ b = s.base,
         \A u \in Tasks, w \in Tasks : w \in D => ~Gives(s, u, w),
         Reprio(s, c.s), c.task # Nothing, NEW n \in Nat,
         Chained(s, b, up, r, c), Going(D, up, r, n - 1, c)
  PROVE  /\ Chained(s, b, up, r, ChangeOne(c)) /\ Going(D, up, r, n, ChangeOne(c))
         /\ Reprio(s, ChangeOne(c).s) /\ ChangeOne(c) \in Chains
<1> DEFINE d == ChangeOne(c)
<1>0. c.task \in Tasks /\ Core(c.s, {}) /\ Blocked(c.s, D) /\ Linked(c.s)
  BY ReprioKeeps, ReprioGives DEF Reprio, Chains
<1>1. Reprio(c.s, d.s) /\ d \in Chains
  BY <1>0, ChangeOneReprio
<1>2. Reprio(s, d.s)
  BY <1>1, ReprioTrans
<1>3. CASE c.s.astray
  <2>1. d.s.astray
    BY <1>1, <1>3 DEF Reprio
  <2> HIDE DEF d
  <2> QED
    BY <1>1, <1>2, <2>1 DEF Chained, Going, d
<1>4. CASE ~c.s.astray
  <2>1. c.task \notin D /\ Cardinality(Left(up, r, c.s)) <= Cardinality(Tasks) - (n - 1)
    BY <1>4 DEF Going
  <2>2. Selfless(c.s) /\ (up \/ b = c.s.base)
    BY ReprioGives
  <2>3. \A u \in Tasks, w \in Tasks : w \in D => ~Gives(c.s, u, w)
    BY ReprioGives
  <2>4. /\ Chained(s, b, up, r, d)
        /\ \/ d.s.astray
           \/ d.task = Nothing
           \/ /\ d.task \in Tasks /\ d.task \notin D /\ c.task \in Left(up, r, c.s)
              /\ Left(up, r, d.s) \subseteq Left(up, r, c.s) \ {c.task}
    BY <1>0, <1>4, <2>1, <2>2, <2>3, ChainStep
  <2> HIDE DEF d
  <2>5. Going(D, up, r, n, d)
    <3>1. CASE d.s.astray \/ d.task = Nothing
      BY <3>1 DEF Going
    <3>2. CASE /\ d.task \in Tasks /\ d.task \notin D /\ c.task \in Left(up, r, c.s)
               /\ Left(up, r, d.s) \subseteq Left(up, r, c.s) \ {c.task}
      <4> DEFINE S == Left(up, r, c.s)
                 T == Left(up, r, d.s)
      <4>1. S \in SUBSET Tasks
        BY DEF Left
      <4> HIDE DEF S, T
      <4>2. /\ Cardinality(S) \in Nat /\ Cardinality(T) \in Nat /\ Cardinality(T) <= Cardinality(S) - 1
            /\ Cardinality(Tasks) \in Nat
        BY <3>2, <4>1, LeftLess DEF S, T
      <4>3. Cardinality(T) <= Cardinality(Tasks) - n
        BY <2>1, <4>2 DEF S
      <4> QED
        BY <3>2, <4>3 DEF Going, T
    <3> QED
      BY <2>4, <3>1, <3>2
  <2> QED
    BY <1>1, <1>2, <2>4, <2>5 DEF d
<1> QED
  BY <1>3, <1>4

\* The chain comes to an end, and then all tasks have the priorities they should.
LEMMA TaskChangePrioExact ==
  ASSUME NEW s, NEW b \in [Tasks -> Prios], NEW up \in BOOLEAN, NEW t \in Tasks, NEW p \in Prios,
         NEW D, Core(s, {}), Blocked(s, D), Linked(s), Selfless(s), up \/ b = s.base,
         \A u \in Tasks, w \in Tasks : w \in D => ~Gives(s, u, w),
         t \notin D, ~s.failed, s.wait[t] # "DEL",
         Exactly(s, b, {t}), Best(s, b, t, p),
         IF up THEN p < s.prio[t] ELSE s.prio[t] <= p
  PROVE  LET s2 == TaskChangePrio(s, t, p)
         IN  s2.astray \/ /\ ~s2.failed /\ Exactly(s2, b, {})
                          /\ up => \A u \in Tasks : s.prio[u] <= p => s2.prio[u] = s.prio[u]
<1> DEFINE one(c) == IF c.task = Nothing THEN c ELSE ChangeOne(c)
           last == 3 * Cardinality(Tasks)
           first == [s |-> s, task |-> t, to |-> p]
           r == IF up THEN p ELSE s.prio[t]
           good(n, c) == /\ Reprio(s, c.s) /\ Chained(s, b, up, r, c) /\ Going(D, up, r, n, c)
           F == [x \in (1..last) \X Chains |-> one(x[2])]
           G == [i \in 0..last |-> {c \in Chains : good(i, c)}]
           H(f) == [i \in 0..last |-> IF i = 0 THEN first ELSE one(f[i - 1])]
           round == CHOOSE f : f = H(f)
           end == round[last]
           s2 == TaskChangePrio(s, t, p)
<1>0. last \in Nat /\ Cardinality(Tasks) \in Nat
  BY FS_CardinalityType, KernelAssumption
<1>1. s2 = [end.s EXCEPT !.failed = @ \/ end.task # Nothing]
  BY DEF TaskChangePrio
<1> DEFINE N == last
<1>01. N \in Nat /\ Cardinality(Tasks) - N <= 0
  BY <1>0
<1> HIDE DEF last
<1>2. \A n \in 1..last : \A c \in Chains : F[<<n, c>>] = one(c)
  OBVIOUS
<1> HIDE DEF good
<1>3. \A n \in 0..last : \A c : c \in G[n] <=> c \in Chains /\ good(n, c)
  OBVIOUS
<1>r. r \in Prios
  BY DEF Core, Types
<1>4. first \in Chains /\ first.s = s /\ first.task = t /\ first.to = p
  BY TypesState DEF Core, Chains
<1> HIDE DEF F, G, first
<1>41. Chained(s, b, up, r, first)
  <2>1. t # Nothing
    BY KernelAssumption
  <2>2. CASE up
    <3>1. r = p /\ p < s.prio[t]
      BY <2>2
    <3> QED
      BY <1>4, <2>1, <2>2, <3>1 DEF Chained
  <2>3. CASE ~up
    <3>1. r = s.prio[t] /\ s.prio[t] <= p
      BY <2>3
    <3> QED
      BY <1>4, <2>1, <2>3, <3>1 DEF Chained
  <2> QED
    BY <2>2, <2>3
<1> HIDE DEF r
<1>42. Going(D, up, r, 0, first)
  <2>1. CASE s.astray
    BY <1>4, <2>1 DEF Going
  <2>2. CASE ~s.astray
    <3>1. t \in Left(up, r, s)
      BY <1>4, <1>41, <2>2, LeftHas
    <3>2. Left(up, r, s) \in SUBSET Tasks
      BY DEF Left
    <3>3. Cardinality(Left(up, r, s)) <= Cardinality(Tasks)
      BY <3>1, <3>2, LeftLess
    <3>4. Cardinality(Left(up, r, first.s)) <= Cardinality(Tasks) - 0
      BY <1>0, <1>4, <3>3
    <3> QED
      BY <1>4, <3>4 DEF Going
  <2> QED
    BY <2>1, <2>2
<1>5. first \in G[0]
  <2>1. good(0, first)
    BY <1>4, <1>41, <1>42, ReprioRefl DEF good
  <2> QED
    BY <1>0, <1>3, <1>4, <2>1
<1>6. \A n \in 1..last : \A c \in G[n - 1] : F[<<n, c>>] \in G[n]
  <2> SUFFICES ASSUME NEW n \in 1..last, NEW c \in G[n - 1] PROVE F[<<n, c>>] \in G[n]
    OBVIOUS
  <2>1. n - 1 \in 0..last /\ n \in 0..last /\ n \in Nat
    BY <1>0
  <2>2. c \in Chains /\ good(n - 1, c)
    BY <1>3, <2>1
  <2>3. one(c) \in Chains /\ good(n, one(c))
    <3>1. CASE c.task = Nothing
      BY <2>2, <3>1 DEF good, Going
    <3>2. CASE c.task # Nothing
      <4>1. Reprio(s, c.s) /\ Chained(s, b, up, r, c) /\ Going(D, up, r, n - 1, c)
        BY <2>2 DEF good
      <4>2. /\ Chained(s, b, up, r, ChangeOne(c)) /\ Going(D, up, r, n, ChangeOne(c))
            /\ Reprio(s, ChangeOne(c).s) /\ ChangeOne(c) \in Chains
        BY <1>r, <2>1, <2>2, <3>2, <4>1, GoingStep
      <4> QED
        BY <3>2, <4>2 DEF good
    <3> QED
      BY <3>1, <3>2
  <2> HIDE DEF one
  <2> QED
    BY <1>2, <1>3, <2>1, <2>2, <2>3
<1>7. PICK g : Fold(g, last, first, F, G)
  BY <1>0, <1>5, <1>6, FoldExists
<1> HIDE DEF one
<1>8. /\ g = [i \in 0..last |-> g[i]] /\ g[0] = first
      /\ \A i \in 1..last : g[i] = one(g[i - 1])
      /\ g[last] \in G[last]
  <2>1. \A i \in 1..last : g[i - 1] \in Chains
    <3>1. \A i \in 1..last : i - 1 \in 0..last
      BY <1>0
    <3> QED
      BY <1>3, <1>7, <3>1 DEF Fold
  <2>2. last \in 0..last
    BY <1>0
  <2> QED
    BY <1>2, <1>7, <2>1, <2>2 DEF Fold
<1>9. g = H(g)
  <2>1. \A i \in 0..last : g[i] = IF i = 0 THEN first ELSE one(g[i - 1])
    <3>1. \A i \in 0..last : i # 0 => i \in 1..last
      BY <1>0
    <3> QED
      BY <1>8, <3>1
  <2> QED
    BY <1>8, <2>1
<1>10. round = H(round)
  <2> HIDE DEF H
  <2> QED
    BY <1>9
<1> HIDE DEF round
<1>11. round[0] = first /\ \A n \in 1..last : round[n] = one(round[n - 1])
  BY <1>0, <1>10
<1>12. round[last] = g[last]
  <2>1. \A n \in 1..last : round[n - 1] = g[n - 1] => round[n] = g[n]
    BY <1>8, <1>11
  <2>2. round[0] = g[0]
    BY <1>8, <1>11
  <2> QED
    BY <1>0, <2>1, <2>2, FoldAgree
<1>13. end \in Chains /\ good(last, end)
  <2>1. last \in 0..last
    BY <1>0
  <2> QED
    BY <1>3, <1>8, <1>12, <2>1
<1> HIDE DEF end, s2
<1>14. Types(end.s) /\ Shape(end.s) /\ Reprio(s, end.s) /\ Chained(s, b, up, r, end) /\ Going(D, up, r, last, end)
  BY <1>13 DEF Reprio, Core, Types, good
<1>15. /\ Frame(end.s, s2, {"failed", "astray"})
       /\ s2.failed = (end.s.failed \/ end.task # Nothing) /\ s2.astray = end.s.astray
  BY <1>1, <1>14 DEF Shape, Frame, Fields
<1>16. s2.prio = end.s.prio /\ s2.pendOn = end.s.pendOn /\ s2.owner = end.s.owner /\ s2.wait = end.s.wait
  BY <1>15 DEF Frame, Fields
<1>17. CASE end.s.astray
  BY <1>15, <1>17 DEF s2
<1>18. CASE ~end.s.astray
  <2>1. end.task = Nothing
    <3> SUFFICES ASSUME end.task # Nothing PROVE FALSE
      OBVIOUS
    <3>1. end.task \in Tasks
      BY <1>13 DEF Chains
    <3>2. end.task \in Left(up, r, end.s)
      BY <1>14, <1>18, <3>1, LeftHas
    <3> DEFINE S == Left(up, r, end.s)
    <3>3. S \in SUBSET Tasks
      BY DEF Left
    <3>4. Cardinality(S) <= Cardinality(Tasks) - last
      BY <1>14, <1>18 DEF Going
    <3> HIDE DEF S
    <3>5. Cardinality(S) \in Nat /\ Cardinality({}) \in Nat /\ Cardinality({}) <= Cardinality(S) - 1
      BY <3>2, <3>3, LeftLess DEF S
    <3>6. Cardinality(Tasks) - last <= 0
      BY <1>01 DEF N
    <3> QED
      BY <1>0, <3>4, <3>5, <3>6
  <2>2. ~end.s.failed /\ Exactly(end.s, b, {})
        /\ (up => \A u \in Tasks : s.prio[u] <= r => end.s.prio[u] = s.prio[u])
    BY <1>14, <1>18, <2>1 DEF Chained
  <2>3. Exactly(s2, b, {})
    BY <1>16, <2>2 DEF Exactly, Best, Gives
  <2>4. ~s2.failed
    BY <1>15, <2>1, <2>2
  <2>5. up => \A u \in Tasks : s.prio[u] <= p => s2.prio[u] = s.prio[u]
    BY <1>16, <2>2 DEF r
  <2> QED
    BY <2>3, <2>4, <2>5 DEF s2
<1> QED
  BY <1>17, <1>18

\* What Fine does not depend on: everything but priorities, owners, who waits
\* for a mutex, and who is deleted.
LEMMA FineSame ==
  ASSUME NEW s, Fine(s), NEW s2, s2.astray = s.astray, s2.failed = s.failed,
         s2.prio = s.prio, s2.base = s.base,
         \A u \in Tasks, t \in Tasks : Gives(s2, u, t) <=> Gives(s, u, t),
         \A t \in Tasks : s2.wait[t] # "DEL" => s.wait[t] # "DEL"
  PROVE  Fine(s2)
<1>1. CASE s.astray
  BY <1>1 DEF Fine
<1>2. CASE ~s.astray
  <2>1. ~s2.failed /\ Exactly(s, s.base, {}) /\ Selfless(s)
    BY <1>2 DEF Fine
  <2>2. Selfless(s2)
    BY <2>1 DEF Selfless
  <2>3. ASSUME NEW t \in Tasks, s2.wait[t] # "DEL" PROVE Best(s2, s2.base, t, s2.prio[t])
    <3>1. Best(s, s.base, t, s.prio[t])
      BY <2>1, <2>3 DEF Exactly
    <3> QED
      BY <3>1 DEF Best
  <2>4. Exactly(s2, s2.base, {})
    BY <2>3 DEF Exactly
  <2> QED
    BY <2>1, <2>2, <2>4 DEF Fine
<1> QED
  BY <1>1, <1>2

\* Nobody comes to wait for a mutex, nobody leaves one, and nobody is created.
Calm(s, s2) ==
  \A t \in Tasks : /\ s.pendOn[t] \in Mutexes \/ s2.pendOn[t] \in Mutexes => s2.pendOn[t] = s.pendOn[t]
                   /\ s2.wait[t] # "DEL" => s.wait[t] # "DEL"

\* Operations that write no priority and no owner keep the priorities exact.
LEMMA FineFrame ==
  ASSUME NEW s, Fine(s), NEW s2, NEW F, Frame(s, s2, F),
         F \cap {"astray", "failed", "prio", "base", "owner"} = {}, Calm(s, s2)
  PROVE  Fine(s2)
<1>1. /\ s2.astray = s.astray /\ s2.failed = s.failed /\ s2.prio = s.prio /\ s2.base = s.base
      /\ s2.owner = s.owner
  BY DEF Frame, Fields
<1>2. \A u \in Tasks, t \in Tasks : Gives(s2, u, t) <=> Gives(s, u, t)
  BY <1>1 DEF Calm, Gives
<1>3. \A t \in Tasks : s2.wait[t] # "DEL" => s.wait[t] # "DEL"
  BY DEF Calm
<1> QED
  BY <1>1, <1>2, <1>3, FineSame

\* Services that touch neither.
LEMMA CalmFrame ==
  ASSUME NEW s, NEW s2, NEW F, Frame(s, s2, F), F \cap {"pendOn", "wait"} = {}
  PROVE  Calm(s, s2)
<1>1. s2.pendOn = s.pendOn /\ s2.wait = s.wait
  BY DEF Frame, Fields
<1> QED
  BY <1>1 DEF Calm

\* Calm operations compose.
LEMMA CalmTrans ==
  ASSUME NEW s, NEW s1, NEW s2, Calm(s, s1), Calm(s1, s2)
  PROVE  Calm(s, s2)
BY DEF Calm

\* A task that owns a mutex others wait for was not deleted.
LEMMA LiveOwner ==
  ASSUME NEW s, Hold(s), ~s.astray, NEW m \in Mutexes, s.owner[m] \in Tasks
  PROVE  s.wait[s.owner[m]] # "DEL"
<1>1. m \in ToSet(s.grp[s.owner[m]])
  BY DEF Hold
<1>2. s.grp[s.owner[m]] # << >>
  BY <1>1 DEF ToSet
<1> QED
  BY <1>2 DEF Hold

\* The task t has left the list of a mutex; its owner loses the priority it had
\* from t.  Nobody waits for a mutex of the tasks of D.
LEMMA AbandonFine ==
  ASSUME NEW s, Fine(s), NEW t \in Tasks, s.pendOn \in [Tasks -> Objects \cup {Nothing}],
         s.pendOn[t] \in Mutexes, s.owner[s.pendOn[t]] \in Tasks,
         NEW D, NEW x, Core(x, {}), Hold(x), Blocked(x, D),
         x.prio = s.prio, x.base = s.base, x.owner = s.owner, x.astray = s.astray,
         x.failed = s.failed, \A u \in Tasks : x.pendOn[u] = IF u = t THEN Nothing ELSE s.pendOn[u],
         \A u \in Tasks : x.wait[u] # "DEL" => s.wait[u] # "DEL",
         \A u \in Tasks, w \in Tasks : w \in D => ~Gives(x, u, w),
         s.owner[s.pendOn[t]] \notin D
  PROVE  Fine(Disinherit(x, s.owner[s.pendOn[t]], t))
<1> DEFINE m == s.pendOn[t]
           o == s.owner[m]
           b == s.base
           q == s.prio[o]
           y == Disinherit(x, o, t)
           v == Disinherited(x, o)
<1>0. /\ m \in Mutexes /\ o \in Tasks /\ o \notin D /\ Nothing \notin Mutexes /\ x.owner[m] = o
      /\ Types(x)
  BY KernelAssumption DEF Core
<1>1. Reprio(x, y)
  BY <1>0, DisinheritReprio
<1> HIDE DEF m, o, y
<1>2. CASE x.astray
  <2>1. y.astray
    BY <1>1, <1>2 DEF Reprio
  <2> QED
    BY <2>1 DEF Fine, y, o, m
<1>3. CASE ~x.astray
  <2>1. ~x.failed /\ Exactly(s, b, {}) /\ Selfless(s)
    BY <1>3 DEF Fine
  <2>2. \A u \in Tasks : \A w : Gives(x, u, w) <=> Gives(s, u, w) /\ u # t
    BY <1>0 DEF Gives
  <2>3. Selfless(x)
    BY <2>1, <2>2 DEF Selfless
  <2>4. x.wait[o] # "DEL"
    BY <1>0, <1>3, LiveOwner
  <2>5. Gives(s, t, o) /\ \A w : Gives(s, t, w) => w = o
    BY <1>0 DEF Gives, o, m
  <2>6. ASSUME NEW u \in Tasks, u # o, x.wait[u] # "DEL" PROVE Best(x, b, u, x.prio[u])
    <3>1. Best(s, b, u, s.prio[u])
      BY <2>1, <2>6 DEF Exactly
    <3>2. \A w \in Tasks : Gives(x, w, u) <=> Gives(s, w, u)
      BY <2>2, <2>5, <2>6
    <3> QED
      BY <3>1, <3>2 DEF Best
  <2>7. Exactly(x, b, {o})
    BY <2>6 DEF Exactly
  <2>8. Best(s, b, o, q)
    BY <1>0, <2>1, <2>4 DEF Exactly
  <2>9. v \in Prios /\ Best(x, b, o, v)
    <3>1. Grouped(x, o) /\ Pended(x.pend, x.pendOn, x.prio)
      BY <1>0, <1>3, HoldLinked DEF Linked, Core
    <3> QED
      BY <1>0, <3>1, DisinheritedBest
  <2> HIDE DEF v, b, q
  <2>10. /\ q <= b[o] /\ (\A u \in Tasks : Gives(x, u, o) => q <= x.prio[u]) /\ q <= x.prio[t]
         /\ q = b[o] \/ q = x.prio[t] \/ \E u \in Tasks : Gives(x, u, o) /\ x.prio[u] = q
    BY <2>2, <2>5, <2>8 DEF Best
  <2>11. CASE q = b[o] \/ q # x.prio[t] \/ v = q
    <3>1. y = x
      BY <2>11 DEF Disinherit, y, v, b, q
    <3>2. Best(x, b, o, q)
      <4>1. CASE v = q
        BY <2>9, <4>1
      <4>2. CASE q = b[o] \/ q # x.prio[t]
        <5>1. q = b[o] \/ \E u \in Tasks : Gives(x, u, o) /\ x.prio[u] = q
          BY <2>10, <4>2
        <5> QED
          BY <2>10, <5>1 DEF Best
      <4> QED
        BY <2>11, <4>1, <4>2
    <3>3. Exactly(x, b, {})
      BY <2>6, <3>2 DEF Exactly, q
    <3>4. x.base = b
      BY DEF b
    <3>5. Fine(y)
      BY <2>1, <2>3, <3>1, <3>3, <3>4 DEF Fine
    <3> QED
      BY <3>5 DEF y, o, m
  <2>12. CASE q # b[o] /\ q = x.prio[t] /\ v # q
    <3>1. y = TaskChangePrio(x, o, v)
      BY <2>12 DEF Disinherit, y, v, b, q
    <3>2. q <= v
      <4>1. q \in Int /\ v \in Int
        <5>1. x.prio[o] \in Prios
          BY <1>0 DEF Types
        <5> QED
          BY <2>9, <5>1, KernelAssumption DEF Prios, q
      <4>2. v = b[o] \/ \E u \in Tasks : Gives(x, u, o) /\ x.prio[u] = v
        BY <2>9 DEF Best
      <4> QED
        BY <2>10, <4>2
    <3>3. b = x.base /\ b \in [Tasks -> Prios] /\ x.prio[o] = q
      BY <1>0 DEF b, q, Types
    <3> DEFINE up == FALSE
    <3>4. up \in BOOLEAN /\ (up \/ b = x.base) /\ IF up THEN v < x.prio[o] ELSE x.prio[o] <= v
      BY <3>2, <3>3
    <3> HIDE DEF up
    <3>50. Linked(x)
      BY HoldLinked
    <3>5. y.astray \/ (~y.failed /\ Exactly(y, b, {}))
      BY <1>0, <3>50, <2>1, <2>3, <2>4, <2>7, <2>9, <3>1, <3>3, <3>4, TaskChangePrioExact
    <3>6. Selfless(y) /\ y.base = b
      BY <1>1, <2>3, <3>3, ReprioGives
    <3>7. Fine(y)
      BY <3>5, <3>6 DEF Fine
    <3> QED
      BY <3>7 DEF y, o, m
  <2> QED
    BY <2>11, <2>12
<1> QED
  BY <1>2, <1>3

\* The waits that end are for a semaphore.
LEMMA EndsFine ==
  ASSUME NEW s, Kept(s, {}), Fine(s), NEW o \in Sems, NEW q, NEW status, Ending(s, q, status),
         \A t \in ToSet(q) : s.pendOn[t] = o
  PROVE  Fine(EndPends(s, q, status))
<1> DEFINE s2 == EndPends(s, q, status)
<1>1. /\ Frame(s, s2, EndFields)
      /\ \A t \in Tasks : s2.pendOn[t] = IF t \in ToSet(q) THEN Nothing ELSE s.pendOn[t]
      /\ \A t \in Tasks : s.wait[t] = "DEL" => s2.wait[t] = "DEL"
  BY EndPendsKept
<1> HIDE DEF s2
<1>2. o \notin Mutexes /\ Nothing \notin Mutexes
  BY KernelAssumption
<1>3. Calm(s, s2)
  BY <1>1, <1>2 DEF Calm
<1>4. EndFields \cap {"astray", "failed", "prio", "base", "owner"} = {}
  BY DEF EndFields
<1>5. Fine(s2)
  BY <1>1, <1>3, <1>4, FineFrame
<1> QED
  BY <1>5 DEF s2

\* The count of a semaphore has no part in it.
LEMMA CountFine ==
  ASSUME NEW s, Shape(s), Fine(s), NEW o \in Sems, NEW n
  PROVE  Fine([s EXCEPT !.ctr[o] = n])
<1> DEFINE s2 == [s EXCEPT !.ctr[o] = n]
<1>1. Frame(s, s2, {"ctr"})
  BY DEF Shape, Frame, Fields
<1> HIDE DEF s2
<1>2. Calm(s, s2)
  BY <1>1, CalmFrame
<1>3. Fine(s2)
  BY <1>1, <1>2, FineFrame
<1> QED
  BY <1>3 DEF s2

\* OSSemPend.
LEMMA SemPendFine ==
  ASSUME NEW s, Kept(s, {}), Fine(s), s.cur \in Tasks, Ready(s, s.cur), NEW o \in Sems,
         NEW time \in Nat
  PROVE  Fine(SemPend(s, o, time))
<1>0. Types(s) /\ Shape(s) /\ s.ctr[o] \in 0..MaxCtr /\ MaxCtr \in Nat /\ Waiters(s)
  BY KernelAssumption DEF Kept, Core, Types
<1>1. CASE s.ctr[o] > 0
  <2>1. SemPend(s, o, time) = [s EXCEPT !.ctr[o] = s.ctr[o] - 1]
    BY <1>1 DEF SemPend
  <2> QED
    BY <1>0, <2>1, CountFine
<1>2. CASE ~(s.ctr[o] > 0)
  <2> DEFINE s2 == Pend(s, o, time)
  <2>1. SemPend(s, o, time) = s2
    BY <1>2 DEF SemPend
  <2>2. o \in Objects /\ o \notin Mutexes /\ s.ctr[o] = 0 /\ Nothing \notin Mutexes
    BY <1>0, <1>2, KernelAssumption DEF Objects
  <2>3. /\ Frame(s, s2, PendFields)
        /\ \A u \in Tasks : /\ s2.pendOn[u] = IF u = s.cur THEN o ELSE s.pendOn[u]
                            /\ s.wait[u] = "DEL" => s2.wait[u] = "DEL"
    BY <2>2, PendKept
  <2> HIDE DEF s2
  <2>4. s.pendOn[s.cur] = Nothing
    BY <1>0 DEF Waiters, Ready, Pending
  <2>5. Calm(s, s2)
    BY <2>2, <2>3, <2>4 DEF Calm
  <2>6. PendFields \cap {"astray", "failed", "prio", "base", "owner"} = {}
    BY DEF PendFields
  <2> QED
    BY <2>1, <2>3, <2>5, <2>6, FineFrame
<1> QED
  BY <1>1, <1>2

\* The first n tasks that wait for a semaphore wait no more.
LEMMA FirstFine ==
  ASSUME NEW s, Kept(s, {}), Fine(s), NEW o \in Sems, NEW n \in 0..Len(s.pend[o]),
         NEW status \in Statuses
  PROVE  /\ Fine(EndPends(s, SubSeq(s.pend[o], 1, n), status))
         /\ Fine(EndPends(s, s.pend[o], status))
<1> DEFINE q == s.pend[o]
           h == SubSeq(s.pend[o], 1, n)
<1>0. Core(s, {}) /\ o \in Objects /\ o \notin Mutexes /\ q \in Seq(Tasks)
  BY KernelAssumption DEF Kept, Core, Types, Objects
<1>1. /\ Ending(s, h, status) /\ Ending(s, q, status)
      /\ \A t \in Tasks : t \in ToSet(q) <=> s.pendOn[t] = o
      /\ \A t \in ToSet(h) : s.pendOn[t] = o
  BY <1>0, FirstEnding
<1>2. \A t \in ToSet(q) : s.pendOn[t] = o
  BY <1>0, <1>1, SetFacts
<1> HIDE DEF q, h
<1>3. Fine(EndPends(s, h, status)) /\ Fine(EndPends(s, q, status))
  BY <1>1, <1>2, EndsFine
<1> QED
  BY <1>3 DEF q, h

\* OSSemPost.
LEMMA SemPostFine ==
  ASSUME NEW s, Kept(s, {}), Fine(s), NEW o \in Sems, NEW n \in {1, Max({1, Len(s.pend[o])})}
  PROVE  Fine(SemPost(s, o, n))
<1>0. Shape(s) /\ s.pend[o] \in Seq(Tasks) /\ "OK" \in Statuses
  BY DEF Kept, Core, Types, Objects, Statuses
<1>1. CASE s.pend[o] = << >>
  <2>1. SemPost(s, o, n) = [s EXCEPT !.ctr[o] = s.ctr[o] + 1]
    BY <1>1 DEF SemPost
  <2>2. Fine([s EXCEPT !.ctr[o] = s.ctr[o] + 1])
    BY <1>0, CountFine
  <2> QED
    BY <2>1, <2>2
<1>2. CASE s.pend[o] # << >>
  <2>1. SemPost(s, o, n) = EndPends(s, SubSeq(s.pend[o], 1, n), "OK")
    BY <1>2 DEF SemPost
  <2>2. n \in 0..Len(s.pend[o])
    <3>1. Len(s.pend[o]) \in Nat /\ Len(s.pend[o]) # 0
      BY <1>0, <1>2, SetFacts
    <3>2. Max({1, Len(s.pend[o])}) \in {1, Len(s.pend[o])}
      <4>1. 1 \in Int /\ Len(s.pend[o]) \in Int
        BY <3>1
      <4> QED
        BY <4>1, MaxTwo
    <3>3. n \in {1, Len(s.pend[o])}
      BY <3>2
    <3> QED
      BY <3>1, <3>3
  <2> QED
    BY <1>0, <2>1, <2>2, FirstFine
<1> QED
  BY <1>1, <1>2

\* OSSemSet.
LEMMA SemSetFine ==
  ASSUME NEW s, Kept(s, {}), Fine(s), NEW o \in Sems, NEW n
  PROVE  Fine(SemSet(s, o, n))
<1>1. Shape(s)
  BY DEF Kept, Core, Types
<1>2. SemSet(s, o, n) \in {s, [s EXCEPT !.ctr[o] = n]}
  BY DEF SemSet
<1> QED
  BY <1>1, <1>2, CountFine

\* OSSemPendAbort.
LEMMA SemPendAbortFine ==
  ASSUME NEW s, Kept(s, {}), Fine(s), NEW o \in Sems, s.pend[o] # << >>, NEW n \in {1, Len(s.pend[o])}
  PROVE  Fine(SemPendAbort(s, o, n))
<1>1. s.pend[o] \in Seq(Tasks) /\ "ABORT" \in Statuses
  BY DEF Kept, Core, Types, Objects, Statuses
<1>2. n \in 0..Len(s.pend[o])
  <2>1. Len(s.pend[o]) \in Nat /\ Len(s.pend[o]) # 0
    BY <1>1, SetFacts
  <2> QED
    BY <2>1
<1> QED
  BY <1>1, <1>2, FirstFine DEF SemPendAbort

\* OSSemDel.
LEMMA SemDelFine ==
  ASSUME NEW s, Kept(s, {}), Fine(s), NEW o \in Sems
  PROVE  Fine(SemDel(s, o))
<1> DEFINE x == EndPends(s, s.pend[o], "DEL")
<1>1. o \in Objects /\ s.pend[o] \in Seq(Tasks) /\ "DEL" \in Statuses
  BY DEF Kept, Core, Types, Objects, Statuses
<1>2. Fine(x)
  <2>1. 0 \in 0..Len(s.pend[o])
    BY <1>1, SetFacts
  <2> QED
    BY <1>1, <2>1, FirstFine
<1>3. Shape(x)
  <2>1. Kept(x, {})
    BY <1>1, AllEnded
  <2> HIDE DEF x
  <2> QED
    BY <2>1 DEF Kept, Core, Types
<1>4. SemDel(s, o) = [x EXCEPT !.ctr[o] = 0]
  BY DEF SemDel
<1> HIDE DEF x
<1> QED
  BY <1>2, <1>3, <1>4, CountFine

\* The scheduler, and the count of rare calls.
LEMMA SchedFine ==
  ASSUME NEW s, Shape(s), Fine(s)
  PROVE  Fine(Sched(s))
<1> DEFINE s2 == Sched(s)
<1>1. Frame(s, s2, {"cur", "prioCur"})
  BY DEF Sched, Shape, Frame, Fields
<1> HIDE DEF s2
<1>2. Calm(s, s2)
  BY <1>1, CalmFrame
<1>3. Fine(s2)
  BY <1>1, <1>2, FineFrame
<1> QED
  BY <1>3 DEF s2

\* Nor has the count of rare calls.
LEMMA CountedFine ==
  ASSUME NEW s, Shape(s), Fine(s)
  PROVE  Fine(Counted(s)) /\ Shape(Counted(s))
<1> DEFINE s2 == Counted(s)
<1>1. Frame(s, s2, {"rare"})
  BY DEF Counted, Shape, Frame, Fields
<1> HIDE DEF s2
<1>2. Calm(s, s2)
  BY <1>1, CalmFrame
<1>3. Fine(s2) /\ Shape(s2)
  BY <1>1, <1>2, FineFrame DEF Frame
<1> QED
  BY <1>3 DEF s2

\* OSTaskSuspend.
LEMMA TaskSuspendFine ==
  ASSUME NEW s, Kept(s, {}), Fine(s), NEW t \in Tasks
  PROVE  Fine(TaskSuspend(s, t))
<1>1. Frame(s, TaskSuspend(s, t), {"rdy", "suspends"})
  BY TaskSuspendKept
<1>2. Calm(s, TaskSuspend(s, t))
  BY <1>1, CalmFrame
<1> QED
  BY <1>1, <1>2, FineFrame

\* OSTaskResume.
LEMMA TaskResumeFine ==
  ASSUME NEW s, Kept(s, {}), Fine(s), NEW t \in Tasks, Suspended(s, t)
  PROVE  Fine(TaskResume(s, t))
<1>1. Frame(s, TaskResume(s, t), {"rdy", "suspends"})
  BY TaskResumeKept
<1>2. Calm(s, TaskResume(s, t))
  BY <1>1, CalmFrame
<1> QED
  BY <1>1, <1>2, FineFrame

\* OSTimeDly.
LEMMA TimeDlyFine ==
  ASSUME NEW s, Kept(s, {}), Fine(s), s.cur \in Tasks, Ready(s, s.cur), NEW time \in Nat \ {0}
  PROVE  Fine(TimeDly(s, time))
<1> DEFINE s2 == TimeDly(s, time)
<1>1. /\ Frame(s, s2, {"wait", "due", "dlys", "rdy"})
      /\ \A u \in Tasks : s.wait[u] = "DEL" => s2.wait[u] = "DEL"
  BY TimeDlyKept
<1> HIDE DEF s2
<1>2. s2.pendOn = s.pendOn
  BY <1>1 DEF Frame, Fields
<1>3. Calm(s, s2)
  BY <1>1, <1>2 DEF Calm
<1>4. Fine(s2)
  BY <1>1, <1>3, FineFrame
<1> QED
  BY <1>4 DEF s2

\* OSTimeDlyResume.
LEMMA TimeDlyResumeFine ==
  ASSUME NEW s, Kept(s, {}), Fine(s), NEW t \in Tasks, s.wait[t] = "DLY"
  PROVE  Fine(TimeDlyResume(s, t))
<1> DEFINE s2 == TimeDlyResume(s, t)
<1>1. /\ Frame(s, s2, {"dlys", "rdy", "wait", "due"})
      /\ \A u \in Tasks : s.wait[u] = "DEL" => s2.wait[u] = "DEL"
  BY TimeDlyResumeKept
<1> HIDE DEF s2
<1>2. s2.pendOn = s.pendOn
  BY <1>1 DEF Frame, Fields
<1>3. Calm(s, s2)
  BY <1>1, <1>2 DEF Calm
<1>4. Fine(s2)
  BY <1>1, <1>3, FineFrame
<1> QED
  BY <1>4 DEF s2

\* Only the nesting changes.
LEMMA NestFine ==
  ASSUME NEW s, Shape(s), Fine(s), NEW m, NEW n
  PROVE  Fine([s EXCEPT !.nest[m] = n])
<1> DEFINE s2 == [s EXCEPT !.nest[m] = n]
<1>1. Frame(s, s2, {"nest"})
  BY DEF Shape, Frame, Fields
<1> HIDE DEF s2
<1>2. Calm(s, s2)
  BY <1>1, CalmFrame
<1>3. Fine(s2)
  BY <1>1, <1>2, FineFrame
<1> QED
  BY <1>3 DEF s2

\* OSMutexPend, called by the owner.
LEMMA MutexPendOwnerFine ==
  ASSUME NEW s, Kept(s, {}), Fine(s), s.cur \in Tasks, NEW m \in Mutexes, s.owner[m] = s.cur
  PROVE  Fine(MutexPend(s, m, 0))
<1>1. Shape(s) /\ s.nest[m] # 0
  BY KernelAssumption DEF Kept, Core, Types, Owned
<1>2. MutexPend(s, m, 0) = [s EXCEPT !.nest[m] = s.nest[m] + 1]
  BY <1>1 DEF MutexPend
<1>3. Fine([s EXCEPT !.nest[m] = s.nest[m] + 1])
  BY <1>1, NestFine
<1> QED
  BY <1>2, <1>3

\* A task is created with its own priority, and owns nothing.
LEMMA TaskCreateFine ==
  ASSUME NEW s, Kept(s, {}), Fine(s), NEW t \in Tasks, s.wait[t] = "DEL"
  PROVE  Fine(TaskCreate(s, t))
<1> DEFINE s2 == TaskCreate(s, t)
<1>1. /\ Frame(s, s2, CreateFields) /\ s2.pendOn = s.pendOn
      /\ s2.wait = [s.wait EXCEPT ![t] = "RDY"]
      /\ \A u \in Tasks : /\ s2.prio[u] = IF u = t THEN First[t] ELSE s.prio[u]
                          /\ s2.base[u] = IF u = t THEN First[t] ELSE s.base[u]
  BY TaskCreateKept
<1> HIDE DEF s2
<1>2. /\ s.wait \in [Tasks -> Waits] /\ s.pendOn[t] = Nothing /\ Nothing \notin Mutexes
      /\ First[t] \in Int
  <2>1. First[t] \in 0..Lowest /\ Nothing \notin Mutexes
    BY KernelAssumption
  <2>2. First[t] \in Int
    BY <2>1
  <2> QED
    BY <2>1, <2>2 DEF Kept, Core, Types, Waiters, Pending
<1>3. s2.owner = s.owner /\ s2.failed = s.failed /\ s2.astray = s.astray
  BY <1>1 DEF Frame, Fields, CreateFields
<1>4. \A u \in Tasks : s2.wait[u] = IF u = t THEN "RDY" ELSE s.wait[u]
  BY <1>1, <1>2
<1>5. \A u \in Tasks : \A v : Gives(s2, u, v) <=> Gives(s, u, v) /\ u # t
  BY <1>1, <1>2, <1>3 DEF Gives
<1>6. CASE s.astray
  BY <1>3, <1>6 DEF Fine, s2
<1>7. CASE ~s.astray
  <2>1. ~s.failed /\ Exactly(s, s.base, {}) /\ Selfless(s)
    BY <1>7 DEF Fine
  <2>2. Selfless(s2)
    BY <1>5, <2>1 DEF Selfless
  <2>3. \A m \in Mutexes : s.owner[m] # t
    <3>1. s.grp[t] = << >> /\ \A m \in Mutexes : m \in ToSet(s.grp[t]) <=> s.owner[m] = t
      BY <1>7 DEF Kept, Hold
    <3>2. ToSet(s.grp[t]) = {}
      BY <3>1 DEF ToSet
    <3> QED
      BY <3>1, <3>2
  <2>4. \A u \in Tasks : ~Gives(s2, u, t)
    BY <1>5, <2>3 DEF Gives
  <2>5. ASSUME NEW u \in Tasks, s2.wait[u] # "DEL" PROVE Best(s2, s2.base, u, s2.prio[u])
    <3>1. CASE u = t
      <4>1. s2.prio[t] = First[t] /\ s2.base[t] = First[t] /\ First[t] <= First[t]
        BY <1>1, <1>2
      <4> QED
        BY <2>4, <3>1, <4>1 DEF Best
    <3>2. CASE u # t
      <4>1. s.wait[u] # "DEL" /\ s2.prio[u] = s.prio[u] /\ s2.base[u] = s.base[u]
        BY <1>1, <1>4, <2>5, <3>2
      <4>2. Best(s, s.base, u, s.prio[u])
        BY <2>1, <4>1 DEF Exactly
      <4>3. \A w \in Tasks : Gives(s, w, u) => w # t
        BY <1>2 DEF Gives
      <4>4. \A w \in Tasks : /\ Gives(s2, w, u) <=> Gives(s, w, u)
                             /\ Gives(s, w, u) => s2.prio[w] = s.prio[w]
        BY <1>1, <1>5, <4>3
      <4> QED
        BY <4>1, <4>2, <4>4 DEF Best
    <3> QED
      BY <3>1, <3>2
  <2>6. Exactly(s2, s2.base, {})
    BY <2>5 DEF Exactly
  <2> QED
    BY <1>3, <2>1, <2>2, <2>6 DEF Fine, s2
<1> QED
  BY <1>6, <1>7

\* v is the priority that t should have when m is no more its own.
BestBut(s, b, t, m, v) ==
  /\ v <= b[t]
  /\ \A u \in Tasks : Gives(s, u, t) /\ s.pendOn[u] # m => v <= s.prio[u]
  /\ v = b[t] \/ \E u \in Tasks : Gives(s, u, t) /\ s.pendOn[u] # m /\ s.prio[u] = v

\* OSMutexPost and OSMutexDel find it once m is out of the list of t.
LEMMA BestWithout ==
  ASSUME NEW s, Core(s, {}), Hold(s), ~s.astray, NEW t \in Tasks, NEW m \in Mutexes
  PROVE  LET p == Disinherited(MutexGrpRemove(s, t, m), t)
         IN  p \in Prios /\ (s.owner[m] = t => BestBut(s, s.base, t, m, p))
<1> DEFINE gone == MutexGrpRemove(s, t, m)
           free == [gone EXCEPT !.owner[m] = Nothing, !.nest[m] = 0]
           p == Disinherited(gone, t)
           v == Disinherited(free, t)
<1>0. /\ Types(s) /\ Uniq(s.grp[t]) /\ s.grp[t] \in Seq(Mutexes) /\ t # Nothing
      /\ \A n \in Mutexes : n \in ToSet(s.grp[t]) <=> s.owner[n] = t
  <2>1. t # Nothing
    BY KernelAssumption
  <2>2. Types(s)
    BY DEF Core
  <2>3. Uniq(s.grp[t]) /\ \A n \in Mutexes : n \in ToSet(s.grp[t]) <=> s.owner[n] = t
    BY DEF Hold
  <2> QED
    BY <2>1, <2>2, <2>3 DEF Types
<1>1. Types(gone) /\ Frame(s, gone, {"grp", "held", "failed"}) /\ gone.grp[t] = Without(s.grp[t], m)
  <2>1. /\ Types(gone) /\ Frame(s, gone, {"grp", "held", "failed"})
        /\ GrpLoss(s, gone, t, m)
    BY <1>0, GrpRemoveFields
  <2> HIDE DEF gone
  <2> QED
    BY <2>1 DEF GrpLoss
<1> HIDE DEF gone
<1>2. /\ Types(free) /\ Frame(gone, free, {"owner", "nest"})
      /\ \A n \in Mutexes : free.owner[n] = IF n = m THEN Nothing ELSE gone.owner[n]
  BY <1>1, FreeFields
<1> HIDE DEF free
<1>3. /\ gone.prio = s.prio /\ gone.base = s.base /\ gone.pend = s.pend /\ gone.pendOn = s.pendOn
      /\ gone.owner = s.owner
  BY <1>1 DEF Frame, Fields
<1>4. /\ free.prio = gone.prio /\ free.base = gone.base /\ free.pend = gone.pend
      /\ free.pendOn = gone.pendOn /\ free.grp = gone.grp
  BY <1>2 DEF Frame, Fields
<1>5. v = p
  BY <1>4 DEF Disinherited, MutexGrpPrioFindHighest
<1>6. \A n : n \in ToSet(free.grp[t]) <=> n \in ToSet(s.grp[t]) /\ n # m
  BY <1>0, <1>1, <1>4, GrpLess
<1>7. Grouped(free, t)
  BY <1>0, <1>2, <1>3, <1>6 DEF Grouped
<1>8. Pended(free.pend, free.pendOn, free.prio)
  BY <1>3, <1>4 DEF Core
<1>9. v \in Prios /\ Best(free, free.base, t, v)
  BY <1>2, <1>7, <1>8, DisinheritedBest
<1>10. \A u \in Tasks : Gives(free, u, t) <=> Gives(s, u, t) /\ s.pendOn[u] # m
  BY <1>0, <1>2, <1>3, <1>4 DEF Gives
<1> HIDE DEF v
<1>11. BestBut(s, s.base, t, m, v)
  BY <1>3, <1>4, <1>9, <1>10 DEF Best, BestBut
<1> QED
  BY <1>5, <1>9, <1>11 DEF gone

\* The first who waits for an object has the best priority of those who do.
LEMMA HeadBest ==
  ASSUME NEW s, Core(s, {}), NEW m \in Mutexes, s.pend[m] # << >>
  PROVE  /\ Head(s.pend[m]) \in Tasks /\ s.pendOn[Head(s.pend[m])] = m
         /\ \A u \in Tasks : s.pendOn[u] = m => s.prio[Head(s.pend[m])] <= s.prio[u]
<1> DEFINE q == s.pend[m]
           h == Head(s.pend[m])
<1>1. /\ q \in Seq(Tasks) /\ q # << >> /\ s.prio \in [Tasks -> Prios]
      /\ \A u \in Tasks : u \in ToSet(q) <=> s.pendOn[u] = m
      /\ \A i, j \in DOMAIN q : i < j => s.prio[q[i]] <= s.prio[q[j]]
  BY DEF Core, Types, Pended, Objects
<1> HIDE DEF q
<1>2. /\ Len(q) \in Nat /\ DOMAIN q = 1..Len(q) /\ ToSet(q) \subseteq Tasks
      /\ \A u : u \in ToSet(q) <=> \E i \in 1..Len(q) : q[i] = u
      /\ Head(q) = q[1] /\ Head(q) \in ToSet(q)
  BY <1>1, SetFacts
<1>3. Head(q) \in Tasks /\ s.pendOn[Head(q)] = m
  BY <1>1, <1>2
<1>4. ASSUME NEW u \in Tasks, s.pendOn[u] = m PROVE s.prio[Head(q)] <= s.prio[u]
  <2>1. PICK i \in 1..Len(q) : q[i] = u
    BY <1>1, <1>2, <1>4
  <2>2. s.prio[u] \in Int
    <3>1. s.prio[u] \in Prios
      BY <1>1
    <3> QED
      BY <3>1, KernelAssumption DEF Prios
  <2>3. CASE i = 1
    BY <1>2, <2>1, <2>2, <2>3
  <2>4. CASE i # 1
    <3>1. 1 \in 1..Len(q) /\ 1 < i
      BY <1>2, <2>1, <2>4
    <3> QED
      BY <1>1, <1>2, <2>1, <3>1
  <2> QED
    BY <2>3, <2>4
<1> QED
  BY <1>3, <1>4 DEF q

\* The task t hands m to the heir h: t keeps what its other mutexes give it, and
\* h gets nothing from those who wait behind it.
LEMMA HandExact ==
  ASSUME NEW x, NEW z, NEW t \in Tasks, NEW h \in Tasks, NEW m \in Mutexes, h # t,
         Core(x, {}), x.owner[m] = t, x.pendOn[h] = m,
         \A u \in Tasks : x.pendOn[u] = m => x.prio[h] <= x.prio[u],
         Exactly(x, x.base, {t}), Selfless(x), BestBut(x, x.base, t, m, x.prio[t]),
         z.prio = x.prio, z.base = x.base, Unwaits(x, z, h),
         \A n \in Mutexes : z.owner[n] = IF n = m THEN h ELSE x.owner[n]
  PROVE  Exactly(z, z.base, {}) /\ Selfless(z)
<1>0. Nothing \notin Mutexes /\ x.wait[h] # "DEL" /\ m # Nothing
  BY KernelAssumption DEF Core, Waiters, Pending
<1>1. \A u \in Tasks : z.pendOn[u] = IF u = h THEN Nothing ELSE x.pendOn[u]
  BY DEF Unwaits
<1>2. \A u \in Tasks : z.wait[u] # "DEL" => x.wait[u] # "DEL"
  BY <1>0 DEF Unwaits
<1>3. ASSUME NEW u \in Tasks, NEW w \in Tasks
      PROVE  Gives(z, u, w) <=> u # h /\ IF x.pendOn[u] = m THEN w = h ELSE Gives(x, u, w)
  BY <1>0, <1>1 DEF Gives
<1>4. Selfless(z)
  BY <1>3 DEF Selfless
<1>5. \A w \in Tasks : Gives(x, h, w) => w = t
  BY DEF Gives
<1>6. \A u \in Tasks, w \in Tasks : x.pendOn[u] = m /\ Gives(x, u, w) => w = t
  BY DEF Gives
<1>7. ASSUME NEW w \in Tasks, z.wait[w] # "DEL" PROVE Best(z, z.base, w, z.prio[w])
  <2>1. CASE w = t
    <3>1. \A u \in Tasks : Gives(z, u, t) <=> Gives(x, u, t) /\ x.pendOn[u] # m
      BY <1>3
    <3> QED
      BY <2>1, <3>1 DEF Best, BestBut
  <2>2. CASE w = h
    <3>1. Best(x, x.base, h, x.prio[h])
      BY <1>0 DEF Exactly
    <3>2. \A u \in Tasks : /\ Gives(z, u, h) => Gives(x, u, h) \/ x.pendOn[u] = m
                           /\ Gives(x, u, h) => Gives(z, u, h)
      BY <1>3, <1>5, <1>6
    <3> QED
      BY <2>2, <3>1, <3>2 DEF Best
  <2>3. CASE w # t /\ w # h
    <3>1. Best(x, x.base, w, x.prio[w])
      BY <1>2, <1>7, <2>3 DEF Exactly
    <3>2. \A u \in Tasks : Gives(z, u, w) <=> Gives(x, u, w)
      BY <1>3, <1>5, <1>6, <2>3
    <3> QED
      BY <3>1, <3>2 DEF Best
  <2> QED
    BY <2>1, <2>2, <2>3
<1>8. Exactly(z, z.base, {})
  BY <1>7 DEF Exactly
<1> QED
  BY <1>4, <1>8

\* A task that is ready waits for nothing.
LEMMA ReadyFree ==
  ASSUME NEW s, Core(s, {}), NEW t \in Tasks, Ready(s, t)
  PROVE  s.pendOn[t] = Nothing /\ s.wait[t] = "RDY" /\ \A w : ~Gives(s, t, w)
<1>1. s.pendOn[t] = Nothing /\ s.wait[t] = "RDY"
  BY DEF Core, Waiters, Ready, Pending
<1>2. Nothing \notin Mutexes
  BY KernelAssumption
<1> QED
  BY <1>1, <1>2 DEF Gives

\* The mutex goes to nobody: nobody waits for it.
LEMMA FreeFine ==
  ASSUME NEW s, Core(s, {}), Fine(s), NEW m \in Mutexes, s.pend[m] = << >>, NEW s2,
         s2.astray = s.astray, s2.failed = s.failed, s2.prio = s.prio, s2.base = s.base,
         \A n \in Mutexes : n # m => s2.owner[n] = s.owner[n],
         \A u \in Tasks : s2.pendOn[u] = s.pendOn[u],
         \A u \in Tasks : s2.wait[u] # "DEL" => s.wait[u] # "DEL"
  PROVE  Fine(s2)
<1>1. \A u \in Tasks : s.pendOn[u] # m
  BY EmptyIff DEF Core, Objects
<1>2. \A u \in Tasks, t \in Tasks : Gives(s2, u, t) <=> Gives(s, u, t)
  BY <1>1 DEF Gives
<1> QED
  BY <1>2, FineSame

\* The poster, lowered or not, has what its other mutexes give it.
LEMMA LowersBest ==
  ASSUME NEW s, Core(s, {}), NEW t \in Tasks, Ready(s, t), NEW m \in Mutexes, s.owner[m] = t,
         s.pend[m] # << >>, Exactly(s, s.base, {}), NEW p \in Prios, BestBut(s, s.base, t, m, p),
         NEW x, Reprio(s, x), Lowers(s, x, t, m, p)
  PROVE  Exactly(x, x.base, {t}) /\ BestBut(x, x.base, t, m, x.prio[t])
<1>0. /\ s.prio \in [Tasks -> Prios] /\ s.wait[t] = "RDY" /\ \A w : ~Gives(s, t, w)
      /\ Types(s)
  BY ReadyFree DEF Core, Types
<1>1. /\ x.base = s.base /\ x.wait = s.wait /\ x.pendOn = s.pendOn
      /\ \A u, w : Gives(x, u, w) <=> Gives(s, u, w)
  BY ReprioGives DEF Reprio
<1>2. \A u \in Tasks : u # t => x.prio[u] = s.prio[u]
  BY <1>0 DEF Lowers
<1>3. \A u \in Tasks, w \in Tasks : Gives(s, u, w) => x.prio[u] = s.prio[u]
  BY <1>0, <1>2
<1>4. Exactly(x, x.base, {t})
  <2> SUFFICES ASSUME NEW u \in Tasks, u # t, x.wait[u] # "DEL" PROVE Best(x, x.base, u, x.prio[u])
    BY DEF Exactly
  <2>1. Best(s, s.base, u, s.prio[u])
    BY <1>1 DEF Exactly
  <2> QED
    BY <1>1, <1>2, <1>3, <2>1 DEF Best
<1>5. \A v : BestBut(x, x.base, t, m, v) <=> BestBut(s, s.base, t, m, v)
  BY <1>1, <1>3 DEF BestBut
<1>6. BestBut(s, s.base, t, m, x.prio[t])
  <2>1. Best(s, s.base, t, s.prio[t])
    BY <1>0 DEF Exactly
  <2>2. CASE s.prio[t] # s.base[t] /\ p > s.prio[t]
    <3>1. x.prio[t] = p
      BY <1>0, <2>2 DEF Lowers
    <3> QED
      BY <3>1
  <2>3. CASE s.prio[t] = s.base[t]
    <3>1. x.prio[t] = s.prio[t]
      BY <1>0, <2>3 DEF Lowers
    <3> QED
      BY <2>1, <2>3, <3>1 DEF Best, BestBut
  <2>4. CASE ~(p > s.prio[t])
    <3>1. x.prio[t] = s.prio[t]
      BY <1>0, <2>4 DEF Lowers
    <3>2. s.prio[t] <= p
      BY <2>1 DEF Best, BestBut
    <3>3. p \in Int /\ s.prio[t] \in Int
      BY <1>0, KernelAssumption DEF Prios
    <3>4. p = s.prio[t]
      BY <2>4, <3>2, <3>3
    <3> QED
      BY <3>1, <3>4
  <2> QED
    BY <2>2, <2>3, <2>4
<1> QED
  BY <1>4, <1>5, <1>6

\* OSMutexPost: the owner loses what it inherited through this mutex.
LEMMA MutexPostFine ==
  ASSUME NEW s, Kept(s, {}), Fine(s), s.cur \in Tasks, Ready(s, s.cur), NEW m \in Mutexes,
         s.owner[m] = s.cur
  PROVE  Fine(MutexPost(s, m))
<1> DEFINE t == s.cur
           p == Disinherited(MutexGrpRemove(s, t, m), t)
           x == PostLowers(s, t, m)
           s2 == MutexPost(s, m)
<1>0. Types(s) /\ Shape(s) /\ Core(s, {}) /\ Hold(s) /\ t \in Tasks
  BY DEF Kept, Core, Types
<1>1. CASE s.nest[m] > 1
  <2>1. s2 = [s EXCEPT !.nest[m] = s.nest[m] - 1]
    BY <1>1 DEF MutexPost
  <2>2. Fine([s EXCEPT !.nest[m] = s.nest[m] - 1])
    BY <1>0, NestFine
  <2> QED
    BY <2>1, <2>2
<1>2. CASE ~(s.nest[m] > 1)
  <2>1. s2 = Release(x, t, m)
    BY <1>2 DEF MutexPost
  <2>2. Reprio(s, x) /\ Lowers(s, x, t, m, p)
    BY <1>0, PostLowersReprio
  <2> HIDE DEF t, p, x, s2
  <2>3. Kept(x, {})
    BY <2>2, ReprioKept
  <2>4. /\ x.owner = s.owner /\ x.wait = s.wait /\ x.base = s.base /\ x.pendOn = s.pendOn
        /\ x.grp = s.grp /\ x.failed = s.failed /\ x.astray = s.astray
    BY <2>2 DEF Reprio, Frame, Fields, Lowers
  <2>5. Listed(x, {})
    BY <2>3 DEF Kept, Listed
  <2>6. m \in Objects
    BY DEF Objects
  <2>7. x.pend[m] = << >> <=> s.pend[m] = << >>
    <3>1. Pended(s.pend, s.pendOn, s.prio) /\ Pended(x.pend, x.pendOn, x.prio)
      BY <1>0, <2>3 DEF Kept, Core
    <3> QED
      BY <2>4, <2>6, <3>1, EmptyIff
  <2>8. CASE s.astray
    <3>1. s2.astray
      <4>1. CASE x.pend[m] = << >>
        <5>1. Frees(x, s2, {}, t, m)
          BY <1>0, <2>1, <2>5, <4>1, ReleaseFree
        <5> QED
          BY <2>4, <2>8, <5>1 DEF Frees, Frame, Fields
      <4>2. CASE x.pend[m] # << >>
        <5>1. Hands(x, s2, {}, t, m)
          BY <1>0, <2>1, <2>5, <4>2, ReleaseHeir
        <5> QED
          BY <2>4, <2>8, <5>1 DEF Hands, Frame, Fields, ReleaseFields
      <4> QED
        BY <4>1, <4>2
    <3> QED
      BY <3>1 DEF Fine, s2
  <2>9. CASE ~s.astray
    <3>1. ~s.failed /\ Exactly(s, s.base, {}) /\ Selfless(s)
      BY <2>9 DEF Fine
    <3>2. m \in ToSet(x.grp[t]) /\ s.owner[m] = t
      BY <1>0, <2>4, <2>9 DEF Hold, t
    <3>3. CASE s.pend[m] = << >>
      <4>1. /\ Frame(x, s2, {"grp", "held", "failed", "owner", "nest"}) /\ s2.failed = x.failed
            /\ \A n \in Mutexes : s2.owner[n] = IF n = m THEN Nothing ELSE x.owner[n]
        <5>1. Frees(x, s2, {}, t, m)
          BY <1>0, <2>1, <2>5, <2>7, <3>3, ReleaseFree
        <5>2. s2.failed = (x.failed \/ m \notin ToSet(x.grp[t]))
          BY <5>1 DEF Frees
        <5>3. x.failed \in BOOLEAN
          BY <2>3 DEF Kept, Core, Types
        <5> QED
          BY <3>2, <5>1, <5>2, <5>3 DEF Frees
      <4>2. x.prio = s.prio
        BY <2>2, <3>3 DEF Lowers
      <4>3. s2.prio = x.prio /\ s2.base = x.base /\ s2.pendOn = x.pendOn /\ s2.wait = x.wait
            /\ s2.astray = x.astray
        BY <4>1 DEF Frame, Fields
      <4>4. Fine(s2)
        BY <1>0, <2>4, <3>3, <4>1, <4>2, <4>3, FreeFine
      <4> QED
        BY <4>4 DEF s2
    <3>4. CASE s.pend[m] # << >>
      <4>1. p \in Prios /\ BestBut(s, s.base, t, m, p)
        BY <1>0, <2>9, <3>2, BestWithout DEF p
      <4>2. Exactly(x, x.base, {t}) /\ BestBut(x, x.base, t, m, x.prio[t])
        <5>1. Ready(s, t)
          BY DEF t
        <5> QED
          BY <1>0, <2>2, <3>1, <3>2, <3>4, <4>1, <5>1, LowersBest
      <4>3. Hands(x, s2, {}, t, m)
        BY <1>0, <2>1, <2>5, <2>7, <3>4, ReleaseHeir
      <4> DEFINE h == Head(x.pend[m])
      <4>4. /\ h \in Tasks /\ x.pendOn[h] = m
            /\ \A u \in Tasks : x.pendOn[u] = m => x.prio[h] <= x.prio[u]
        BY <2>3, <2>7, <3>4, HeadBest DEF Kept
      <4> HIDE DEF h
      <4>5. /\ Unwaits(x, s2, h) /\ \A n \in Mutexes : s2.owner[n] = IF n = m THEN h ELSE x.owner[n]
        BY <4>3 DEF Hands, h
      <4>6. s2.failed = x.failed
        <5>1. x.failed \in BOOLEAN
          BY <2>3 DEF Kept, Core, Types
        <5>2. s2.failed = (x.failed \/ m \notin ToSet(x.grp[t]))
          BY <4>3 DEF Hands
        <5> QED
          BY <3>2, <5>1, <5>2
      <4>7. s2.prio = x.prio /\ s2.base = x.base /\ s2.astray = x.astray
        BY <4>3 DEF Hands, Frame, Fields, ReleaseFields
      <4>8. h # t
        <5>1. s.pendOn[t] = Nothing
          BY <1>0, ReadyFree DEF t
        <5> QED
          BY <2>4, <4>4, <5>1, KernelAssumption
      <4>9. Exactly(s2, s2.base, {}) /\ Selfless(s2)
        <5>1. Core(x, {}) /\ x.owner[m] = t /\ Selfless(x)
          BY <2>2, <2>3, <2>4, <3>1, <3>2, ReprioGives DEF Kept
        <5> QED
          BY <1>0, <4>2, <4>4, <4>5, <4>7, <4>8, <5>1, HandExact
      <4>10. Fine(s2)
        BY <2>4, <3>1, <4>6, <4>9 DEF Fine
      <4> QED
        BY <4>10 DEF s2
    <3> QED
      BY <3>3, <3>4
  <2> QED
    BY <2>8, <2>9
<1> QED
  BY <1>1, <1>2

\* A free mutex, that nobody waits for, is taken.
LEMMA TakeFine ==
  ASSUME NEW s, Core(s, {}), Fine(s), NEW t \in Tasks, NEW m \in Mutexes, s.nest[m] = 0
  PROVE  Fine([MutexGrpAdd(s, t, m) EXCEPT !.held[t] = @ \cup {m}])
<1> DEFINE x == MutexGrpAdd(s, t, m)
           s2 == [x EXCEPT !.held[t] = @ \cup {m}]
<1>0. Types(s) /\ s.pend[m] = << >>
  BY DEF Core, Owned
<1>11. /\ Types(x) /\ Frame(s, x, {"grp", "owner", "nest"})
       /\ \A u \in Tasks : x.grp[u] = IF u = t THEN <<m>> \o s.grp[t] ELSE s.grp[u]
       /\ \A n \in Mutexes : /\ x.owner[n] = IF n = m THEN t ELSE s.owner[n]
                             /\ x.nest[n] = IF n = m THEN 1 ELSE s.nest[n]
  BY <1>0, GrpAddFields
<1> HIDE DEF x
<1>1. /\ Types(x) /\ Frame(s, x, {"grp", "owner", "nest"})
      /\ \A n \in Mutexes : x.owner[n] = IF n = m THEN t ELSE s.owner[n]
  BY <1>11
<1>2. Frame(x, s2, {"held"})
  BY <1>1 DEF Types, Shape, Frame, Fields
<1> HIDE DEF s2
<1>3. /\ s2.astray = x.astray /\ s2.failed = x.failed /\ s2.prio = x.prio /\ s2.base = x.base
      /\ s2.owner = x.owner /\ s2.pendOn = x.pendOn /\ s2.wait = x.wait
  BY <1>2 DEF Frame, Fields
<1>4. /\ x.astray = s.astray /\ x.failed = s.failed /\ x.prio = s.prio /\ x.base = s.base
      /\ x.pendOn = s.pendOn /\ x.wait = s.wait
  BY <1>1 DEF Frame, Fields
<1>5. Fine(s2)
  BY <1>0, <1>1, <1>3, <1>4, FreeFine
<1> QED
  BY <1>5 DEF s2, x

\* The owner o inherits the priority p, if that is higher: then it is exact
\* as if its own were not below p.
LEMMA InheritExact ==
  ASSUME NEW s, Kept(s, {}), ~s.astray, ~s.failed, Exactly(s, s.base, {}), Selfless(s),
         NEW o \in Tasks, s.wait[o] # "DEL", NEW p \in Prios,
         NEW b, b = [s.base EXCEPT ![o] = IF p < s.base[o] THEN p ELSE s.base[o]],
         NEW x, x = IF s.prio[o] > p THEN TaskChangePrio(s, o, p) ELSE s
  PROVE  /\ b \in [Tasks -> Prios]
         /\ \/ x.astray
            \/ /\ ~x.failed /\ Exactly(x, b, {})
               /\ \A u \in Tasks : s.prio[u] <= p => x.prio[u] = s.prio[u]
<1>0. /\ s.prio \in [Tasks -> Prios] /\ s.base \in [Tasks -> Prios] /\ Core(s, {})
      /\ Blocked(s, {}) /\ Linked(s)
  BY HoldLinked DEF Kept, Core, Types
<1>1. \A q \in Prios : q \in Int
  BY KernelAssumption DEF Prios
<1>2. /\ b \in [Tasks -> Prios] /\ \A u \in Tasks : u # o => b[u] = s.base[u]
      /\ b[o] = IF p < s.base[o] THEN p ELSE s.base[o]
  BY <1>0
<1>3. p \in Int /\ s.base[o] \in Int /\ s.prio[o] \in Int /\ \A u \in Tasks : s.prio[u] \in Int
  BY <1>0, <1>1
<1>4. Best(s, s.base, o, s.prio[o])
  BY DEF Exactly
<1>5. Exactly(s, b, {o})
  <2> SUFFICES ASSUME NEW u \in Tasks, u # o, s.wait[u] # "DEL" PROVE Best(s, b, u, s.prio[u])
    BY DEF Exactly
  <2>1. Best(s, s.base, u, s.prio[u])
    BY DEF Exactly
  <2> QED
    BY <1>2, <2>1 DEF Best
<1>6. CASE p < s.prio[o]
  <2>1. s.prio[o] <= s.base[o] /\ \A u \in Tasks : Gives(s, u, o) => s.prio[o] <= s.prio[u]
    BY <1>4 DEF Best
  <2>2. p < s.base[o] /\ \A u \in Tasks : Gives(s, u, o) => p <= s.prio[u]
    BY <1>3, <1>6, <2>1
  <2>3. b[o] = p
    BY <1>2, <2>2
  <2>4. Best(s, b, o, p)
    BY <1>3, <2>2, <2>3 DEF Best
  <2>5. x = TaskChangePrio(s, o, p)
    BY <1>6
  <2> DEFINE up == TRUE
  <2>6. up \in BOOLEAN /\ (up \/ b = s.base) /\ IF up THEN p < s.prio[o] ELSE s.prio[o] <= p
    BY <1>6
  <2>7. \A u \in Tasks, w \in Tasks : w \in {} => ~Gives(s, u, w)
    OBVIOUS
  <2>8. o \notin {}
    OBVIOUS
  <2> HIDE DEF up
  <2>9. x.astray \/ /\ ~x.failed /\ Exactly(x, b, {})
                    /\ up => \A u \in Tasks : s.prio[u] <= p => x.prio[u] = s.prio[u]
    BY <1>0, <1>2, <1>5, <2>4, <2>5, <2>6, <2>7, <2>8, TaskChangePrioExact
  <2> QED
    BY <1>2, <2>9 DEF up
<1>7. CASE ~(p < s.prio[o])
  <2>1. x = s
    BY <1>7
  <2>2. /\ s.prio[o] <= s.base[o] /\ s.prio[o] <= p
        /\ \A u \in Tasks : Gives(s, u, o) => s.prio[o] <= s.prio[u]
        /\ s.prio[o] = s.base[o] \/ \E u \in Tasks : Gives(s, u, o) /\ s.prio[u] = s.prio[o]
    BY <1>3, <1>4, <1>7 DEF Best
  <2>3. s.prio[o] <= b[o]
    BY <1>2, <1>3, <2>2
  <2>4. s.prio[o] = s.base[o] => s.prio[o] = b[o]
    BY <1>2, <1>3, <2>2
  <2>5. Best(s, b, o, s.prio[o])
    BY <2>2, <2>3, <2>4 DEF Best
  <2>6. Exactly(s, b, {})
    BY <1>5, <2>5 DEF Exactly
  <2> QED
    BY <1>2, <2>1, <2>6
<1> QED
  BY <1>6, <1>7

\* A task joins those who wait for m: its owner is exact without that bound.
LEMMA JoinExact ==
  ASSUME NEW x, NEW t \in Tasks, NEW o \in Tasks, o # t, NEW m \in Mutexes, NEW b,
         x.prio \in [Tasks -> Prios], x.base \in [Tasks -> Prios], x.owner[m] = o,
         x.pendOn[t] = Nothing, Selfless(x), Exactly(x, b, {}),
         b = [x.base EXCEPT ![o] = IF x.prio[t] < x.base[o] THEN x.prio[t] ELSE x.base[o]],
         NEW z, z.prio = x.prio, z.owner = x.owner, z.base = x.base,
         \A u \in Tasks : z.pendOn[u] = IF u = t THEN m ELSE x.pendOn[u],
         \A u \in Tasks : z.wait[u] # "DEL" => x.wait[u] # "DEL"
  PROVE  Exactly(z, z.base, {}) /\ Selfless(z)
<1> DEFINE p == x.prio[t]
<1>00. p \in Prios
  OBVIOUS
<1>0. Nothing \notin Mutexes /\ \A q \in Prios : q \in Int
  BY KernelAssumption DEF Prios
<1>1. p \in Int /\ x.base[o] \in Int /\ x.prio[o] \in Int
  BY <1>0, <1>00
<1> HIDE DEF p
<1>2. /\ \A u \in Tasks : u # o => b[u] = x.base[u]
      /\ b[o] = IF p < x.base[o] THEN p ELSE x.base[o]
  BY DEF p
<1>3. \A u \in Tasks, w \in Tasks : Gives(z, u, w) <=> Gives(x, u, w) \/ (u = t /\ w = o)
  BY <1>0 DEF Gives
<1>4. Selfless(z)
  BY <1>3 DEF Selfless
<1>5. ASSUME NEW u \in Tasks, z.wait[u] # "DEL" PROVE Best(z, z.base, u, z.prio[u])
  <2>1. Best(x, b, u, x.prio[u])
    BY <1>5 DEF Exactly
  <2>2. CASE u # o
    BY <1>2, <1>3, <2>1, <2>2 DEF Best
  <2>3. CASE u = o
    <3>1. /\ x.prio[o] <= b[o] /\ \A w \in Tasks : Gives(x, w, o) => x.prio[o] <= x.prio[w]
          /\ x.prio[o] = b[o] \/ \E w \in Tasks : Gives(x, w, o) /\ x.prio[w] = x.prio[o]
      BY <2>1, <2>3 DEF Best
    <3>2. x.prio[o] <= x.base[o] /\ x.prio[o] <= p
      BY <1>1, <1>2, <3>1
    <3>3. x.prio[o] = b[o] => x.prio[o] = x.base[o] \/ x.prio[o] = p
      BY <1>2
    <3> QED
      BY <1>3, <2>3, <3>1, <3>2, <3>3 DEF Best, p
  <2> QED
    BY <2>2, <2>3
<1>6. Exactly(z, z.base, {})
  BY <1>5 DEF Exactly
<1> QED
  BY <1>4, <1>6

\* OSMutexPend: the chain of owners inherits.
LEMMA MutexPendFine ==
  ASSUME NEW s, Kept(s, {}), Fine(s), s.cur \in Tasks, Ready(s, s.cur), NEW m \in Mutexes,
         NEW time \in Nat, s.owner[m] # s.cur
  PROVE  Fine(MutexPend(s, m, time))
<1> DEFINE t == s.cur
           o == s.owner[m]
           p == s.prio[t]
           x == IF s.prio[o] > p THEN TaskChangePrio(s, o, p) ELSE s
           s2 == MutexPend(s, m, time)
           b == [s.base EXCEPT ![o] = IF p < s.base[o] THEN p ELSE s.base[o]]
<1>0. /\ Types(s) /\ Core(s, {}) /\ Hold(s) /\ t \in Tasks /\ s.prio \in [Tasks -> Prios]
      /\ s.owner \in [Mutexes -> Tasks \cup {Nothing}] /\ s.base \in [Tasks -> Prios]
  BY DEF Kept, Core, Types
<1>1. CASE s.nest[m] = 0
  <2>1. s2 = [MutexGrpAdd(s, t, m) EXCEPT !.held[t] = @ \cup {m}]
    BY <1>1 DEF MutexPend
  <2> HIDE DEF s2, t
  <2>2. Fine(s2)
    BY <1>0, <1>1, <2>1, TakeFine
  <2> QED
    BY <2>2 DEF s2
<1>2. CASE s.nest[m] # 0
  <2>1. s2 = Pend(x, m, time)
    BY <1>2 DEF MutexPend
  <2>2. o \in Tasks /\ p \in Prios /\ o # t /\ s.owner[m] = o
    <3>1. o # Nothing
      BY <1>2 DEF Kept, Core, Owned
    <3> QED
      BY <1>0, <3>1
  <2>3. s.pendOn[t] = Nothing
    BY <1>0, ReadyFree
  <2> HIDE DEF o, s2, p
  <2>4. Reprio(s, x)
    <3>1. CASE s.prio[o] > p
      <4>1. x = TaskChangePrio(s, o, p)
        BY <3>1
      <4> HIDE DEF t, x
      <4> QED
        BY <1>0, <2>2, <4>1, TaskChangePrioReprio
    <3>2. CASE ~(s.prio[o] > p)
      <4>1. x = s
        BY <3>2
      <4> HIDE DEF t, x
      <4> QED
        BY <1>0, <4>1, ReprioRefl
    <3> QED
      BY <3>1, <3>2
  <2>50. x = IF s.prio[o] > p THEN TaskChangePrio(s, o, p) ELSE s
    OBVIOUS
  <2> HIDE DEF x
  <2>5. Kept(x, {})
    BY <2>4, ReprioKept
  <2>6. /\ x.cur = s.cur /\ x.suspends = s.suspends /\ x.nest = s.nest /\ x.wait = s.wait
        /\ x.owner = s.owner /\ x.pendOn = s.pendOn /\ x.base = s.base /\ (s.astray => x.astray)
        /\ x.prio \in [Tasks -> Prios]
    BY <2>4 DEF Reprio, Frame, Fields, Core, Types
  <2>7. x.cur \in Tasks /\ Ready(x, x.cur)
    BY <2>6 DEF Ready, Suspended
  <2>8. m \in Objects /\ (m \in Mutexes => x.nest[m] # 0) /\ (m \in Sems => x.ctr[m] = 0)
    BY <1>2, <2>6, KernelAssumption DEF Objects
  <2>9. /\ Frame(x, s2, PendFields)
        /\ \A u \in Tasks : /\ s2.pendOn[u] = IF u = t THEN m ELSE x.pendOn[u]
                            /\ x.wait[u] = "DEL" => s2.wait[u] = "DEL"
    <3>1. /\ Frame(x, Pend(x, m, time), PendFields)
          /\ \A u \in Tasks : /\ Pend(x, m, time).pendOn[u] = IF u = x.cur THEN m ELSE x.pendOn[u]
                              /\ x.wait[u] = "DEL" => Pend(x, m, time).wait[u] = "DEL"
      BY <2>5, <2>7, <2>8, PendKept
    <3> QED
      BY <2>1, <2>6, <3>1
  <2>10. /\ s2.prio = x.prio /\ s2.base = x.base /\ s2.owner = x.owner /\ s2.astray = x.astray
         /\ s2.failed = x.failed
    BY <2>9 DEF Frame, Fields, PendFields
  <2>11. CASE x.astray
    BY <2>10, <2>11 DEF Fine, s2
  <2>12. CASE ~x.astray
    <3>1. ~s.astray /\ ~s.failed /\ Exactly(s, s.base, {}) /\ Selfless(s)
      BY <2>6, <2>12 DEF Fine
    <3>2. s.wait[o] # "DEL"
      BY <1>0, <2>2, <3>1, LiveOwner
    <3>3. b = [s.base EXCEPT ![o] = IF p < s.base[o] THEN p ELSE s.base[o]]
      OBVIOUS
    <3> HIDE DEF b, t
    <3>4. /\ ~x.failed /\ Exactly(x, b, {})
          /\ \A u \in Tasks : s.prio[u] <= p => x.prio[u] = s.prio[u]
      BY <2>2, <2>12, <2>50, <3>1, <3>2, <3>3, InheritExact
    <3>5. x.prio[t] = p /\ s.prio[t] = p
      <4>1. s.prio[t] = p /\ p <= p
        BY <2>2, KernelAssumption DEF p, t, Prios
      <4> QED
        BY <1>0, <3>4, <4>1
    <3>6. Selfless(x)
      BY <2>4, <3>1, ReprioGives
    <3>7. \A u \in Tasks : s2.pendOn[u] = IF u = t THEN m ELSE x.pendOn[u]
      BY <2>9 DEF t
    <3>8. \A u \in Tasks : s2.wait[u] # "DEL" => x.wait[u] # "DEL"
      BY <2>9
    <3>9. t \in Tasks /\ x.pendOn[t] = Nothing /\ o # t
      BY <1>0, <2>2, <2>3, <2>6
    <3>10. /\ x.prio \in [Tasks -> Prios] /\ x.base \in [Tasks -> Prios]
           /\ x.owner[m] = o /\ o \in Tasks
           /\ b = [x.base EXCEPT ![o] = IF x.prio[t] < x.base[o] THEN x.prio[t] ELSE x.base[o]]
      BY <1>0, <2>2, <2>6, <3>3, <3>5
    <3>11. s2.prio = x.prio /\ s2.owner = x.owner /\ s2.base = x.base
      BY <2>6, <2>10
    <3>12. Exactly(s2, s2.base, {}) /\ Selfless(s2)
      BY <3>4, <3>6, <3>7, <3>8, <3>9, <3>10, <3>11, JoinExact
    <3>13. Fine(s2)
      BY <2>10, <3>4, <3>12 DEF Fine
    <3> QED
      BY <3>13 DEF s2
  <2> QED
    BY <2>11, <2>12
<1> QED
  BY <1>1, <1>2

\* One aborted wait.
LEMMA AbortedFine ==
  ASSUME NEW x, Kept(x, {}), Fine(x), NEW m \in Mutexes, NEW t \in Tasks, x.pendOn[t] = m
  PROVE  Fine(Aborted(x, m, t))
<1> DEFINE e == EndPend(x, t, "ABORT")
           o == x.owner[m]
<1>0. x.pendOn[t] # Nothing /\ "ABORT" \in Statuses /\ t \notin {} /\ Core(x, {})
  BY KernelAssumption DEF Statuses, Kept
<1>1. Kept(e, {}) /\ Frame(x, e, EndFields) /\ Unwaits(x, e, t)
  BY <1>0, EndPendKept
<1>2. o \in Tasks
  BY <1>0, OwnerExists
<1>3. Aborted(x, m, t) = Disinherit(e, o, t)
  BY DEF Aborted
<1> HIDE DEF e, o
<1>4. /\ e.prio = x.prio /\ e.base = x.base /\ e.owner = x.owner /\ e.astray = x.astray
      /\ e.failed = x.failed
  BY <1>1 DEF Frame, Fields, EndFields
<1>5. /\ x.wait[t] # "DEL"
      /\ \A u \in Tasks : e.pendOn[u] = IF u = t THEN Nothing ELSE x.pendOn[u]
  BY <1>0, <1>1 DEF Unwaits, Core, Waiters, Pending
<1>6. \A u \in Tasks : e.wait[u] # "DEL" => x.wait[u] # "DEL"
  BY <1>1, <1>5 DEF Unwaits
<1>7. /\ x.pendOn \in [Tasks -> Objects \cup {Nothing}] /\ x.pendOn[t] \in Mutexes
      /\ x.owner[x.pendOn[t]] = o
  BY <1>0 DEF Core, Types, o
<1>8. Core(e, {}) /\ Hold(e) /\ Blocked(e, {})
  BY <1>1 DEF Kept
<1>9. (\A u \in Tasks, w \in Tasks : w \in {} => ~Gives(e, u, w)) /\ o \notin {}
  OBVIOUS
<1>10. Fine(Disinherit(e, x.owner[x.pendOn[t]], t))
  BY <1>2, <1>4, <1>5, <1>6, <1>7, <1>8, <1>9, AbandonFine
<1> QED
  BY <1>3, <1>7, <1>10

\* OSMutexPendAbort.
LEMMA MutexPendAbortFine ==
  ASSUME NEW s, Kept(s, {}), Fine(s), NEW m \in Mutexes, NEW N \in 0..Len(s.pend[m])
  PROVE  Fine(MutexPendAbort(s, m, N))
<1> DEFINE q == s.pend[m]
           Good(n, x) == /\ Kept(x, {}) /\ Fine(x)
                         /\ \A i \in 1..N : i > n => x.pendOn[q[i]] = m
           F == [p \in (1..N) \X States |-> Aborted(p[2], m, q[p[1]])]
           G == [n \in 0..N |-> {x \in States : Good(n, x)}]
           H(f) == [n \in 0..N |-> IF n = 0 THEN s ELSE Aborted(f[n - 1], m, q[n])]
           after == CHOOSE f : f = H(f)
           s2 == MutexPendAbort(s, m, N)
<1>0. /\ N \in Nat /\ Uniq(q) /\ DOMAIN q = 1..Len(q) /\ \A i \in 1..N : i \in 1..Len(q)
      /\ \A i \in 1..N : q[i] \in Tasks /\ s.pendOn[q[i]] = m
  <2>1. /\ q \in Seq(Tasks) /\ Uniq(q) /\ \A t \in Tasks : t \in ToSet(q) <=> s.pendOn[t] = m
    BY DEF Kept, Core, Pended, Objects
  <2>2. N \in 0..Len(q)
    OBVIOUS
  <2> HIDE DEF q
  <2>3. /\ Len(q) \in Nat /\ DOMAIN q = 1..Len(q) /\ ToSet(q) \subseteq Tasks
        /\ \A i \in 1..Len(q) : q[i] \in ToSet(q)
    BY <2>1, SetFacts
  <2>4. N \in Nat /\ \A i \in 1..N : i \in 1..Len(q)
    BY <2>2, <2>3
  <2> QED
    BY <2>1, <2>3, <2>4
<1>1. s2 = after[N]
  BY DEF MutexPendAbort, Aborted
<1> HIDE DEF q, s2
<1>2. \A n \in 1..N : \A x \in States : F[<<n, x>>] = Aborted(x, m, q[n])
  OBVIOUS
<1>3. \A n \in 0..N : \A x : x \in G[n] <=> x \in States /\ Good(n, x)
  OBVIOUS
<1>4. Good(0, s) /\ s \in States
  <2>1. Types(s)
    BY DEF Kept, Core
  <2> QED
    BY <1>0, <2>1, TypesState
<1>5. s \in G[0]
  BY <1>0, <1>3, <1>4
<1>6. ASSUME NEW n \in 1..N, NEW x, Good(n - 1, x)
      PROVE  Good(n, Aborted(x, m, q[n]))
  <2> DEFINE t == q[n]
             y == Aborted(x, m, t)
  <2>1. t \in Tasks /\ x.pendOn[t] = m /\ Kept(x, {}) /\ Fine(x)
    <3>1. n > n - 1
      BY <1>0
    <3> QED
      BY <1>0, <1>6, <3>1
  <2>2. \A i \in 1..N : i > n => q[i] \in Tasks /\ q[i] # t /\ x.pendOn[q[i]] = m
    <3> SUFFICES ASSUME NEW i \in 1..N, i > n PROVE q[i] \in Tasks /\ q[i] # t /\ x.pendOn[q[i]] = m
      OBVIOUS
    <3>1. i > n - 1 /\ i # n /\ i \in DOMAIN q /\ n \in DOMAIN q
      BY <1>0
    <3> QED
      BY <1>0, <1>6, <3>1 DEF Uniq
  <2> HIDE DEF t
  <2>3. /\ Kept(y, {}) /\ Fine(y)
        /\ \A u \in Tasks : u # t => y.pendOn[u] = x.pendOn[u]
    BY <2>1, AbortedKept, AbortedFine
  <2> HIDE DEF y
  <2>5. \A i \in 1..N : i > n => y.pendOn[q[i]] = m
    BY <2>2, <2>3
  <2>6. Good(n, y)
    BY <2>3, <2>5
  <2> QED
    BY <2>6 DEF y, t
<1>7. \A n \in 1..N : \A x \in G[n - 1] : F[<<n, x>>] \in G[n]
  <2> SUFFICES ASSUME NEW n \in 1..N, NEW x \in G[n - 1] PROVE F[<<n, x>>] \in G[n]
    OBVIOUS
  <2> HIDE DEF F, G
  <2>1. n - 1 \in 0..N /\ n \in 0..N
    BY <1>0
  <2>2. x \in States /\ Good(n - 1, x)
    BY <1>3, <2>1
  <2>3. Good(n, Aborted(x, m, q[n]))
    BY <1>6, <2>2
  <2>4. Aborted(x, m, q[n]) \in States
    BY <2>3, TypesState DEF Kept, Core
  <2> QED
    BY <1>2, <1>3, <2>1, <2>2, <2>3, <2>4
<1> HIDE DEF F, G, Good
<1>8. PICK g : Fold(g, N, s, F, G)
  BY <1>0, <1>5, <1>7, FoldExists
<1>9. /\ g = [i \in 0..N |-> g[i]] /\ g[0] = s
      /\ \A i \in 1..N : g[i] = Aborted(g[i - 1], m, q[i])
      /\ g[N] \in G[N]
  <2>1. \A i \in 1..N : g[i - 1] \in States
    <3>1. \A i \in 1..N : i - 1 \in 0..N
      BY <1>0
    <3> QED
      BY <1>3, <1>8, <3>1 DEF Fold
  <2>2. N \in 0..N
    BY <1>0
  <2> QED
    BY <1>2, <1>8, <2>1, <2>2 DEF Fold
<1>10. g = H(g)
  <2>1. \A i \in 0..N : g[i] = IF i = 0 THEN s ELSE Aborted(g[i - 1], m, q[i])
    <3>1. \A i \in 0..N : i # 0 => i \in 1..N
      BY <1>0
    <3> QED
      BY <1>9, <3>1
  <2> QED
    BY <1>9, <2>1
<1>11. after = H(after)
  <2> HIDE DEF H
  <2> QED
    BY <1>10
<1> HIDE DEF after
<1>12. after[0] = s /\ \A n \in 1..N : after[n] = Aborted(after[n - 1], m, q[n])
  BY <1>0, <1>11
<1>13. after[N] = g[N]
  <2>1. \A n \in 1..N : after[n - 1] = g[n - 1] => after[n] = g[n]
    BY <1>9, <1>12
  <2>2. after[0] = g[0]
    BY <1>9, <1>12
  <2> QED
    BY <1>0, <2>1, <2>2, FoldAgree
<1>14. Good(N, s2)
  <2>1. N \in 0..N
    BY <1>0
  <2> QED
    BY <1>1, <1>3, <1>9, <1>13, <2>1
<1> QED
  BY <1>14 DEF Good, s2

\* What OSMutexDel gives the owner, if that has inherited a priority.
Restored(x, o) ==
  IF x.prio[o] # x.base[o] THEN TaskChangePrio(x, o, Disinherited(x, o)) ELSE x

\* The priority of t is not below that of those who wait for its mutexes.
Enough(s, t) ==
  s.prio[t] <= s.base[t] /\ \A u \in Tasks : Gives(s, u, t) => s.prio[t] <= s.prio[u]

\* Nobody waits for m, and it leaves the list of its owner o: the priority that
\* OSMutexDel gives o is the one it should have.
LEMMA OrphanExact ==
  ASSUME NEW s, NEW o \in Tasks, NEW m \in Mutexes, Listed(s, {}), Hold(s), ~s.astray, ~s.failed,
         s.owner[m] = o, s.pend[m] = << >>, Selfless(s), Exactly(s, s.base, {o}),
         Enough(s, o)
  PROVE  Fine(Restored(Orphan(s, o, m), o))
<1> DEFINE x == Orphan(s, o, m)
           v == Disinherited(x, o)
           y == Restored(x, o)
<1>0. /\ Listed(x, {}) /\ Frame(s, x, {"grp", "held", "failed"})
      /\ x.failed = (s.failed \/ m \notin ToSet(s.grp[o]))
      /\ \A t \in Tasks : /\ x.grp[t] = IF t = o THEN Without(s.grp[o], m) ELSE s.grp[t]
                          /\ x.held[t] = s.held[t] \ {m}
  BY OrphanListed
<1> HIDE DEF x
<1>1. /\ x.prio = s.prio /\ x.base = s.base /\ x.owner = s.owner /\ x.pendOn = s.pendOn
      /\ x.wait = s.wait /\ x.astray = s.astray /\ x.pend = s.pend
  BY <1>0 DEF Frame, Fields
<1>2. /\ Core(x, {}) /\ Core(s, {}) /\ Blocked(x, {}) /\ Types(s) /\ Types(x)
      /\ Pended(s.pend, s.pendOn, s.prio) /\ m \in Objects /\ Pended(x.pend, x.pendOn, x.prio)
  BY <1>0 DEF Listed, Core, Objects
<1>3. \A u \in Tasks : s.pendOn[u] # m
  BY <1>2, EmptyIff
<1>4. ~x.failed
  <2>1. m \in ToSet(s.grp[o])
    BY DEF Hold
  <2> QED
    BY <1>0, <2>1
<1>5. \A u, w : Gives(x, u, w) <=> Gives(s, u, w)
  BY <1>1 DEF Gives
<1>6. Exactly(x, x.base, {o}) /\ Selfless(x)
  <2>1. Selfless(x)
    BY <1>5 DEF Selfless
  <2>2. ASSUME NEW u \in Tasks, u # o, x.wait[u] # "DEL" PROVE Best(x, x.base, u, x.prio[u])
    <3>1. Best(s, s.base, u, s.prio[u])
      BY <1>1, <2>2 DEF Exactly
    <3> QED
      BY <1>1, <1>5, <3>1 DEF Best
  <2> QED
    BY <2>1, <2>2 DEF Exactly
<1>7. Linked(x)
  <2> SUFFICES ASSUME NEW t \in Tasks
               PROVE  Grouped(x, t) /\ \A u \in Tasks : Gives(x, u, t) => x.wait[t] # "DEL"
    BY DEF Linked
  <2>1. Grouped(s, t) /\ \A u \in Tasks : Gives(s, u, t) => s.wait[t] # "DEL"
    BY HoldLinked DEF Linked
  <2>2. s.grp[t] \in Seq(Mutexes) /\ Uniq(s.grp[t])
    BY <1>2 DEF Types, Hold
  <2>3. \A n \in Mutexes : n # m => (n \in ToSet(x.grp[t]) <=> n \in ToSet(s.grp[t]))
    BY <1>0, <2>2, GrpLess
  <2>4. Grouped(x, t)
    BY <1>1, <1>3, <2>1, <2>3 DEF Grouped
  <2> QED
    BY <1>1, <1>5, <2>1, <2>4
<1>8. x.wait[o] # "DEL"
  BY <1>1, LiveOwner
<1>9. v \in Prios /\ Best(x, x.base, o, v)
  <2>1. Grouped(x, o)
    BY <1>1, <1>7 DEF Linked
  <2> QED
    BY <1>2, <2>1, DisinheritedBest
<1> DEFINE b == s.base
<1>10. b \in [Tasks -> Prios] /\ x.prio[o] \in Prios /\ x.base = b
  BY <1>1, <1>2 DEF Types
<1>100. y = IF x.prio[o] # x.base[o] THEN TaskChangePrio(x, o, v) ELSE x
  BY DEF Restored
<1>11. /\ x.prio[o] <= b[o]
       /\ \A u \in Tasks : Gives(x, u, o) => x.prio[o] <= x.prio[u]
  BY <1>1, <1>5 DEF Enough
<1> HIDE DEF v, b, y
<1>12. CASE x.prio[o] = b[o]
  <2>1. y = x
    BY <1>10, <1>12, <1>100
  <2>2. Best(x, b, o, x.prio[o])
    BY <1>11, <1>12 DEF Best
  <2>3. Exactly(x, x.base, {})
    BY <1>6, <1>10, <2>2 DEF Exactly
  <2>4. Fine(y)
    BY <1>4, <1>6, <2>1, <2>3 DEF Fine
  <2> QED
    BY <2>4 DEF x, y
<1>13. CASE x.prio[o] # b[o]
  <2>1. y = TaskChangePrio(x, o, v)
    BY <1>10, <1>13, <1>100
  <2>2. x.prio[o] <= v
    <3>1. v = b[o] \/ \E u \in Tasks : Gives(x, u, o) /\ x.prio[u] = v
      BY <1>9, <1>10 DEF Best
    <3> QED
      BY <1>11, <3>1
  <2> DEFINE up == FALSE
  <2>3. up \in BOOLEAN /\ (up \/ b = x.base) /\ IF up THEN v < x.prio[o] ELSE x.prio[o] <= v
    BY <1>10, <2>2
  <2>4. \A u \in Tasks, w \in Tasks : w \in {} => ~Gives(x, u, w)
    OBVIOUS
  <2>5. o \notin {}
    OBVIOUS
  <2> HIDE DEF up
  <2>6. Exactly(x, b, {o}) /\ Best(x, b, o, v)
    BY <1>6, <1>9, <1>10
  <2>7. y.astray \/ (~y.failed /\ Exactly(y, b, {}))
    BY <1>2, <1>4, <1>6, <1>7, <1>8, <1>9, <1>10, <2>1, <2>3, <2>4, <2>5, <2>6,
       TaskChangePrioExact
  <2>8. Selfless(y) /\ y.base = b
    <3>1. Reprio(x, y)
      BY <1>2, <1>9, <2>1, TaskChangePrioReprio
    <3> QED
      BY <1>6, <1>10, <3>1, ReprioGives
  <2>9. Fine(y)
    BY <2>7, <2>8 DEF Fine
  <2> QED
    BY <2>9 DEF x, y
<1> QED
  BY <1>12, <1>13

\* OSMutexDel.
LEMMA MutexDelFine ==
  ASSUME NEW s, Kept(s, {}), Fine(s), NEW m \in Mutexes
  PROVE  Fine(MutexDel(s, m))
<1> DEFINE o     == s.owner[m]
           ended == EndPends(s, s.pend[m], "DEL")
           gone  == Orphan(ended, o, m)
           back  == Restored(gone, o)
           left  == IF o = Nothing THEN ended ELSE back
           s2    == MutexDel(s, m)
<1>0. /\ Types(s) /\ Core(s, {}) /\ Hold(s) /\ m \in Objects /\ Nothing \notin Tasks
      /\ Nothing \notin Mutexes
      /\ s.owner \in [Mutexes -> Tasks \cup {Nothing}] /\ Pended(s.pend, s.pendOn, s.prio)
  BY KernelAssumption DEF Kept, Core, Types, Objects
<1>1. Kept(ended, {}) /\ Frame(s, ended, EndFields) /\ ended.pend[m] = << >>
  BY <1>0, AllEnded
<1>2. /\ \A t \in Tasks : ended.pendOn[t] = IF s.pendOn[t] = m THEN Nothing ELSE s.pendOn[t]
      /\ \A t \in Tasks : s.wait[t] = "DEL" => ended.wait[t] = "DEL"
  <2> DEFINE q == s.pend[m]
  <2>1. /\ \A t \in Tasks : ended.pendOn[t] = IF t \in ToSet(q) THEN Nothing ELSE s.pendOn[t]
        /\ \A t \in Tasks : s.wait[t] = "DEL" => ended.wait[t] = "DEL"
    <3>1. "DEL" \in Statuses /\ Ending(s, q, "DEL")
      <4>1. "DEL" \in Statuses /\ 0 \in 0..Len(s.pend[m])
        <5>1. s.pend[m] \in Seq(Tasks)
          BY <1>0 DEF Types
        <5> QED
          BY <5>1, SetFacts DEF Statuses
      <4> QED
        BY <1>0, <4>1, FirstEnding
    <3> QED
      BY <3>1, EndPendsKept
  <2> HIDE DEF ended
  <2>2. \A t \in Tasks : t \in ToSet(q) <=> s.pendOn[t] = m
    BY <1>0 DEF Pended
  <2> QED
    BY <2>1, <2>2
<1>3. s2 = [left EXCEPT !.owner[m] = Nothing, !.nest[m] = 0]
  BY DEF MutexDel, Orphan, Restored
<1> HIDE DEF ended, s2
<1>4. /\ Types(ended) /\ Listed(ended, {}) /\ Hold(ended) /\ ended.owner[m] = o
      /\ ended.owner = s.owner /\ ended.prio = s.prio /\ ended.base = s.base
      /\ ended.astray = s.astray /\ ended.failed = s.failed
  BY <1>1 DEF Kept, Core, Listed, Frame, Fields, EndFields
<1>5. Fine(left) /\ Core(left, {}) /\ left.pendOn = ended.pendOn
  <2>1. CASE o = Nothing
    <3>1. left = ended
      BY <2>1
    <3> HIDE DEF left, o
    <3>2. s.pend[m] = << >>
      BY <2>1 DEF Kept, Core, Owned, o
    <3>3. \A t \in Tasks : s.pendOn[t] # m
      BY <1>0, <3>2, EmptyIff
    <3>4. Calm(s, ended)
      BY <1>2, <3>3 DEF Calm
    <3>5. EndFields \cap {"astray", "failed", "prio", "base", "owner"} = {}
      BY DEF EndFields
    <3>6. Fine(ended)
      BY <1>1, <3>4, <3>5, FineFrame
    <3> QED
      BY <1>4, <3>1, <3>6 DEF Listed
  <2>2. CASE o # Nothing
    <3>1. o \in Tasks /\ left = back
      BY <1>0, <2>2
    <3>2. back = IF gone.prio[o] # gone.base[o]
                 THEN TaskChangePrio(gone, o, Disinherited(gone, o)) ELSE gone
      BY DEF Restored
    <3> HIDE DEF left, o
    <3>3. Listed(gone, {}) /\ Frame(ended, gone, {"grp", "held", "failed"})
      <4>1. /\ Listed(Orphan(ended, o, m), {})
            /\ Frame(ended, Orphan(ended, o, m), {"grp", "held", "failed"})
        BY <1>4, <3>1, OrphanListed
      <4> QED
        BY <4>1
    <3> HIDE DEF back, gone
    <3>5. Reprio(gone, back)
      <4>1. Core(gone, {}) /\ Types(gone)
        BY <3>3 DEF Listed, Core
      <4>2. CASE gone.prio[o] # gone.base[o]
        <5>1. Disinherited(gone, o) \in Prios
          BY <3>1, <4>1, DisinheritedType
        <5>2. Reprio(gone, TaskChangePrio(gone, o, Disinherited(gone, o)))
          BY <3>1, <4>1, <5>1, TaskChangePrioReprio
        <5> QED
          BY <3>2, <4>2, <5>2
      <4>3. CASE ~(gone.prio[o] # gone.base[o])
        <5>1. Reprio(gone, gone)
          BY <4>1, ReprioRefl
        <5> QED
          BY <3>2, <4>3, <5>1
      <4> QED
        BY <4>2, <4>3
    <3>6. /\ Core(back, {}) /\ back.pendOn = gone.pendOn /\ gone.pendOn = ended.pendOn
          /\ (gone.astray => back.astray) /\ gone.astray = ended.astray
      <4>1. Core(back, {})
        BY <3>3, <3>5 DEF Reprio, Listed
      <4> QED
        BY <3>3, <3>5, <4>1 DEF Reprio, Frame, Fields
    <3>7. CASE s.astray
      <4>1. Fine(back)
        BY <1>4, <3>6, <3>7 DEF Fine
      <4> QED
        BY <3>1, <3>6, <4>1
    <3>8. CASE ~s.astray
      <4>1. ~s.failed /\ Exactly(s, s.base, {}) /\ Selfless(s)
        BY <3>8 DEF Fine
      <4>2. \A u \in Tasks, w \in Tasks : Gives(ended, u, w) => Gives(s, u, w)
        BY <1>0, <1>2, <1>4 DEF Gives
      <4>3. \A u \in Tasks, w \in Tasks : w # o => (Gives(ended, u, w) <=> Gives(s, u, w))
        BY <1>0, <1>2, <1>4 DEF Gives
      <4>4. Selfless(ended)
        BY <4>1, <4>2 DEF Selfless
      <4>5. ASSUME NEW u \in Tasks, u # o, ended.wait[u] # "DEL"
            PROVE  Best(ended, ended.base, u, ended.prio[u])
        <5>1. Best(s, s.base, u, s.prio[u])
          BY <1>2, <4>1, <4>5 DEF Exactly
        <5> QED
          BY <1>4, <4>3, <4>5, <5>1 DEF Best
      <4>6. Exactly(ended, ended.base, {o})
        BY <4>5 DEF Exactly
      <4>7. s.wait[o] # "DEL"
        BY <1>0, <1>4, <3>1, <3>8, LiveOwner
      <4>8. Best(s, s.base, o, s.prio[o])
        BY <3>1, <4>1, <4>7 DEF Exactly
      <4>9. Enough(ended, o)
        BY <1>4, <3>1, <4>2, <4>8 DEF Best, Enough
      <4>10. ~ended.astray /\ ~ended.failed /\ ended.owner[m] = o
        BY <1>4, <3>8, <4>1
      <4>11. Fine(Restored(Orphan(ended, o, m), o))
        BY <1>1, <1>4, <3>1, <4>4, <4>6, <4>9, <4>10, OrphanExact
      <4> QED
        BY <3>1, <3>6, <4>11 DEF back, gone
    <3> QED
      BY <3>7, <3>8
  <2> QED
    BY <2>1, <2>2
<1> HIDE DEF left, o
<1>6. Types(left) /\ left.pend[m] = << >>
  <2>1. Pended(left.pend, left.pendOn, left.prio) /\ Pended(ended.pend, ended.pendOn, ended.prio)
    BY <1>4, <1>5 DEF Listed, Core
  <2>2. \A t \in Tasks : ended.pendOn[t] # m
    BY <1>0, <1>1, <2>1, EmptyIff
  <2> QED
    BY <1>0, <1>5, <2>1, <2>2, EmptyIff DEF Core
<1>7. /\ Frame(left, s2, {"owner", "nest"})
      /\ \A n \in Mutexes : s2.owner[n] = IF n = m THEN Nothing ELSE left.owner[n]
  <2> DEFINE z == [left EXCEPT !.owner[m] = Nothing, !.nest[m] = 0]
  <2>1. /\ Frame(left, z, {"owner", "nest"})
        /\ \A n \in Mutexes : /\ z.owner[n] = IF n = m THEN Nothing ELSE left.owner[n]
                              /\ z.nest[n] = IF n = m THEN 0 ELSE left.nest[n]
    BY <1>6, FreeFields
  <2> HIDE DEF z
  <2>2. s2 = z
    BY <1>3 DEF z
  <2> QED
    BY <2>1, <2>2
<1>8. /\ s2.astray = left.astray /\ s2.failed = left.failed /\ s2.prio = left.prio
      /\ s2.base = left.base /\ s2.pendOn = left.pendOn /\ s2.wait = left.wait
  BY <1>7 DEF Frame, Fields
<1>9. Fine(s2)
  BY <1>5, <1>6, <1>7, <1>8, FreeFine
<1> QED
  BY <1>9 DEF s2

\* OSTaskChangePrio.
LEMMA ChangePrioFine ==
  ASSUME NEW s, Kept(s, {}), Fine(s), NEW t \in Tasks, NEW p \in Prios, s.wait[t] # "DEL"
  PROVE  Fine(ChangePrio(s, t, p))
<1> DEFINE high == MutexGrpPrioFindHighest(s, t)
           to == IF s.grp[t] # <<>> /\ p > s.prio[t] THEN Min({p, high}) ELSE p
           x == [s EXCEPT !.base[t] = p]
           s2 == ChangePrio(s, t, p)
<1>0. Types(s) /\ Shape(s) /\ s.base \in [Tasks -> Prios]
  BY DEF Kept, Core, Types
<1>1. s2 = TaskChangePrio(x, t, to)
  BY DEF ChangePrio
<1>2. Frame(s, x, {"base"}) /\ x.base = [s.base EXCEPT ![t] = p]
  BY <1>0 DEF Shape, Frame, Fields
<1>3. MutexGrpPrioFindHighest(x, t) = high
  <2>1. x.grp = s.grp /\ x.prio = s.prio /\ x.pend = s.pend
    BY <1>2 DEF Frame, Fields
  <2> HIDE DEF x
  <2> QED
    BY <2>1 DEF MutexGrpPrioFindHighest
<1>4. s.grp[t] # <<>> /\ p > s.prio[t] => to = Min({p, high})
  OBVIOUS
<1>5. ~(s.grp[t] # <<>> /\ p > s.prio[t]) => to = p
  OBVIOUS
<1> HIDE DEF to, s2, x, high
<1>6. /\ x.base \in [Tasks -> Prios] /\ x.base[t] = p
      /\ \A u \in Tasks : u # t => x.base[u] = s.base[u]
  BY <1>0, <1>2
<1>7. Types(x)
  BY <1>0, <1>2, <1>6 DEF Types, Frame, Fields
<1>8. Kept(x, {})
  <2>1. Frame(s, x, {"cur", "prioCur", "base", "status", "failed", "rare"})
    BY <1>2, FrameWiden
  <2> QED
    BY <1>7, <2>1, KeptSame
<1>9. /\ x.prio = s.prio /\ x.owner = s.owner /\ x.pendOn = s.pendOn /\ x.wait = s.wait
      /\ x.astray = s.astray /\ x.failed = s.failed /\ x.grp = s.grp
  BY <1>2 DEF Frame, Fields
<1>10. /\ Core(x, {}) /\ Blocked(x, {}) /\ Linked(x) /\ Pended(x.pend, x.pendOn, x.prio)
  BY <1>8, HoldLinked DEF Kept, Core
<1>11. CASE s.astray
  <2>1. to \in Prios
    <3>1. high \in 0..IdlePrio
      BY <1>0, DisinheritedType DEF high
    <3>2. p \in Nat /\ high \in Nat /\ p \in 0..Lowest /\ Lowest \in Nat
      BY <3>1, KernelAssumption DEF Prios, IdlePrio
    <3>3. Min({p, high}) \in {p, high} /\ Min({p, high}) <= p
      BY <3>2, MinTwo
    <3>4. Min({p, high}) \in 0..Lowest
      BY <3>2, <3>3
    <3> QED
      BY <1>4, <1>5, <3>4 DEF Prios
  <2>2. Reprio(x, s2)
    BY <1>1, <1>10, <2>1, TaskChangePrioReprio
  <2> QED
    BY <1>9, <1>11, <2>2 DEF Reprio, Fine, s2
<1>12. CASE ~s.astray
  <2>1. ~s.failed /\ Exactly(s, s.base, {}) /\ Selfless(s)
    BY <1>12 DEF Fine
  <2>2. \A u, w : Gives(x, u, w) <=> Gives(s, u, w)
    BY <1>9 DEF Gives
  <2>3. Selfless(x)
    BY <2>1, <2>2 DEF Selfless
  <2>4. ASSUME NEW u \in Tasks, u # t, x.wait[u] # "DEL" PROVE Best(x, x.base, u, x.prio[u])
    <3>1. Best(s, s.base, u, s.prio[u])
      BY <1>9, <2>1, <2>4 DEF Exactly
    <3> QED
      BY <1>6, <1>9, <2>2, <2>4, <3>1 DEF Best
  <2>5. Exactly(x, x.base, {t})
    BY <2>4 DEF Exactly
  <2>6. Grouped(x, t)
    BY <1>9, <1>10, <1>12 DEF Linked
  <2>7. /\ s.prio[t] \in Int /\ p \in Int /\ p <= p
        /\ \A u \in Tasks : Gives(x, u, t) => s.prio[t] <= x.prio[u] /\ x.prio[u] \in Int
    <3>1. Best(s, s.base, t, s.prio[t])
      BY <2>1 DEF Exactly
    <3>2. \A u \in Tasks : s.prio[u] \in Prios
      BY <1>0 DEF Types
    <3>3. \A q \in Prios : q \in Int /\ q <= q
      BY KernelAssumption DEF Prios
    <3> QED
      BY <1>9, <2>2, <3>1, <3>2, <3>3 DEF Best
  <2>8. to \in Prios /\ Best(x, x.base, t, to)
    <3>1. CASE s.grp[t] # <<>> /\ p > s.prio[t]
      <4>1. to = Disinherited(x, t)
        BY <1>3, <1>4, <1>6, <3>1 DEF Disinherited
      <4> QED
        BY <1>7, <1>10, <2>6, <4>1, DisinheritedBest
    <3>2. CASE s.grp[t] = <<>>
      <4>1. to = p
        BY <1>5, <3>2
      <4>2. \A u \in Tasks : ~Gives(x, u, t)
        <5>1. ToSet(x.grp[t]) = {}
          BY <1>9, <3>2 DEF ToSet
        <5> QED
          BY <2>6, <5>1 DEF Grouped, Gives
      <4> QED
        BY <1>6, <2>7, <4>1, <4>2 DEF Best
    <3>3. CASE ~(p > s.prio[t])
      <4>1. to = p
        BY <1>5, <3>3
      <4>2. \A u \in Tasks : Gives(x, u, t) => p <= x.prio[u]
        BY <2>7, <3>3
      <4> QED
        BY <1>6, <2>7, <4>1, <4>2 DEF Best
    <3> QED
      BY <3>1, <3>2, <3>3
  <2>9. to \in Int
    BY <2>8, KernelAssumption DEF Prios
  <2> DEFINE up == to < x.prio[t]
             b == x.base
  <2>10. /\ up \in BOOLEAN /\ (up \/ b = x.base) /\ b \in [Tasks -> Prios]
         /\ IF up THEN to < x.prio[t] ELSE x.prio[t] <= to
    BY <1>6, <1>9, <2>7, <2>9
  <2>11. (\A u \in Tasks, w \in Tasks : w \in {} => ~Gives(x, u, w)) /\ t \notin {}
    OBVIOUS
  <2>12. Exactly(x, b, {t}) /\ Best(x, b, t, to) /\ b = x.base
    BY <2>5, <2>8
  <2>13. ~x.failed /\ x.wait[t] # "DEL"
    BY <1>9, <2>1
  <2> HIDE DEF up, b
  <2>14. s2.astray \/ (~s2.failed /\ Exactly(s2, b, {}))
    BY <1>1, <1>10, <2>3, <2>8, <2>10, <2>11, <2>12, <2>13, TaskChangePrioExact
  <2>15. Selfless(s2) /\ s2.base = b
    <3>1. Reprio(x, s2)
      BY <1>1, <1>10, <2>8, TaskChangePrioReprio
    <3> QED
      BY <2>3, <2>12, <3>1, ReprioGives
  <2>16. Fine(s2)
    BY <2>14, <2>15 DEF Fine
  <2> QED
    BY <2>16 DEF s2
<1> QED
  BY <1>11, <1>12

\* Nobody waits for a mutex of t, whose own wait is over.
LEMMA OffFine ==
  ASSUME NEW s, Kept(s, {}), Fine(s), NEW t \in Tasks, \A u \in Tasks : ~Gives(s, u, t)
  PROVE  Fine(Off(s, t))
<1> DEFINE x == PendListRemove(s, t)
           y == Off(s, t)
           D == {t}
<1>0. /\ Core(s, {}) /\ Hold(s) /\ Blocked(s, {}) /\ Types(s) /\ Waiters(s)
      /\ s.pendOn \in [Tasks -> Objects \cup {Nothing}]
      /\ Nothing \notin Mutexes /\ Mutexes \cap Sems = {}
  BY KernelAssumption DEF Kept, Core, Types
<1>1. CASE s.pendOn[t] = Nothing
  <2>1. y = s
    BY <1>1 DEF Off
  <2> QED
    BY <2>1
<1>2. CASE s.pendOn[t] # Nothing
  <2>1. /\ Core(x, {}) /\ Frame(s, x, {"pend", "pendOn"})
        /\ x.pendOn = [s.pendOn EXCEPT ![t] = Nothing]
    BY <1>0, <1>2, LeaveCore
  <2> HIDE DEF x
  <2>2. /\ x.wait = s.wait /\ x.held = s.held /\ x.owner = s.owner /\ x.grp = s.grp
        /\ x.astray = s.astray /\ x.failed = s.failed /\ x.prio = s.prio /\ x.base = s.base
    BY <2>1 DEF Frame, Fields
  <2>3. \A v \in Tasks : x.pendOn[v] = IF v = t THEN Nothing ELSE s.pendOn[v]
    BY <1>0, <2>1
  <2>4. CASE s.pendOn[t] \in Sems
    <3>1. y = x
      BY <1>2, <2>4 DEF Off, x
    <3>2. Calm(s, x)
      BY <1>0, <2>2, <2>3, <2>4 DEF Calm
    <3>3. Fine(x)
      BY <2>1, <3>2, FineFrame
    <3> QED
      BY <3>1, <3>3
  <2>5. CASE s.pendOn[t] \in Mutexes
    <3> DEFINE o == s.owner[s.pendOn[t]]
    <3>1. y = Disinherit(x, o, t)
      BY <1>0, <1>2, <2>5 DEF Off, x
    <3>2. o \in Tasks
      BY <1>0, <2>5, OwnerExists
    <3>3. o # t
      BY <2>5 DEF Gives
    <3> HIDE DEF y
    <3>4. Hold(x) /\ Blocked(x, D)
      BY <1>0, <2>2, <2>3 DEF Hold, Blocked
    <3>5. (\A u \in Tasks, w \in Tasks : w \in D => ~Gives(x, u, w)) /\ o \notin D
      BY <1>0, <2>2, <2>3, <3>3 DEF Gives
    <3>6. \A u \in Tasks : x.wait[u] # "DEL" => s.wait[u] # "DEL"
      BY <2>2
    <3> HIDE DEF D
    <3>7. Fine(Disinherit(x, s.owner[s.pendOn[t]], t))
      BY <1>0, <2>1, <2>2, <2>3, <2>5, <3>2, <3>4, <3>5, <3>6, AbandonFine
    <3> QED
      BY <3>1, <3>7 DEF y
  <2>6. s.pendOn[t] \in Sems \/ s.pendOn[t] \in Mutexes
    BY <1>0, <1>2 DEF Objects
  <2> QED
    BY <2>4, <2>5, <2>6
<1> QED
  BY <1>1, <1>2

\* The task leaves its lists, and its owner loses what it gave.
LEMMA UnlistedFine ==
  ASSUME NEW s, Kept(s, {}), Fine(s), NEW t \in Tasks, \A u \in Tasks : ~Gives(s, u, t)
  PROVE  Fine(Unlisted(s, t))
<1> DEFINE off == Off(s, t)
           u == Unlisted(s, t)
           No == {"astray", "failed", "prio", "base", "owner"}
<1>0. Types(s) /\ Shape(s)
  BY DEF Kept, Core, Types
<1>1. u = CASE Ready(s, t) -> RdyListRemove(s, t)
            [] s.wait[t] = "DLY" -> [s EXCEPT !.dlys = TickListRemove(@, t)]
            [] s.wait[t] = "PEND_TIMEOUT" -> [off EXCEPT !.timeouts = TickListRemove(@, t)]
            [] OTHER -> off
  BY DEF Unlisted, Off
<1>2. Fine(off) /\ Shape(off)
  <2>1. Fine(off) /\ Core(off, {})
    BY OffFine, OffKept
  <2> HIDE DEF off
  <2> QED
    BY <2>1 DEF Core, Types
<1> HIDE DEF u, off
<1>3. Ready(s, t) => s.wait[t] # "DLY" /\ s.wait[t] # "PEND_TIMEOUT"
  BY DEF Ready
<1>4. CASE Ready(s, t)
  <2>1. u = RdyListRemove(s, t)
    BY <1>1, <1>3, <1>4
  <2>2. Frame(s, u, {"rdy"})
    BY <1>0, <2>1, RemoveFields
  <2>3. Calm(s, u)
    BY <2>2, CalmFrame
  <2>4. Fine(u)
    BY <2>2, <2>3, FineFrame
  <2> QED
    BY <2>4 DEF u
<1>5. CASE s.wait[t] = "DLY"
  <2>1. u = [s EXCEPT !.dlys = TickListRemove(@, t)]
    BY <1>1, <1>3, <1>5
  <2>2. Frame(s, u, {"dlys"})
    BY <1>0, <2>1 DEF Shape, Frame, Fields
  <2>3. Calm(s, u)
    BY <2>2, CalmFrame
  <2>4. Fine(u)
    BY <2>2, <2>3, FineFrame
  <2> QED
    BY <2>4 DEF u
<1>6. CASE s.wait[t] = "PEND_TIMEOUT"
  <2>1. u = [off EXCEPT !.timeouts = TickListRemove(@, t)]
    BY <1>1, <1>3, <1>6
  <2>2. Frame(off, u, {"timeouts"})
    BY <1>2, <2>1 DEF Shape, Frame, Fields
  <2>3. Calm(off, u)
    BY <2>2, CalmFrame
  <2>4. Fine(u)
    BY <1>2, <2>2, <2>3, FineFrame
  <2> QED
    BY <2>4 DEF u
<1>7. CASE ~Ready(s, t) /\ s.wait[t] # "DLY" /\ s.wait[t] # "PEND_TIMEOUT"
  <2>1. u = off
    BY <1>1, <1>7
  <2>2. Fine(u)
    BY <1>2, <2>1
  <2> QED
    BY <2>2 DEF u
<1> QED
  BY <1>4, <1>5, <1>6, <1>7

\* OSTaskDel, unless others wait for a mutex of the task.
LEMMA TaskDelFine ==
  ASSUME NEW s, Kept(s, {}), Fine(s), NEW t \in Tasks
  PROVE  Fine(TaskDel(s, t))
<1> DEFINE u  == Unlisted(s, t)
           p  == MutexGrpPostAll(u, t)
           waited == \E m \in ToSet(s.grp[t]) : s.pend[m] # <<>>
           s2 == TaskDel(s, t)
<1>0. /\ Types(s) /\ s.grp[t] \in Seq(Mutexes) /\ Pended(s.pend, s.pendOn, s.prio) /\ Hold(s)
  BY DEF Kept, Core, Types
<1>1. s2 = [p EXCEPT !.wait[t] = "DEL", !.due[t] = 0, !.held[t] = {}, !.astray = \/ @ \/ waited]
  BY DEF TaskDel
<1>2. Gone(s, u, t)
  BY UnlistedGone
<1>20. u = Unlisted(s, t)
  OBVIOUS
<1> HIDE DEF u
<1>3. /\ Listed(u, {t}) /\ Hold(u) /\ Frame(s, u, UnlistFields)
      /\ \A v \in Tasks : u.pendOn[v] = IF v = t THEN Nothing ELSE s.pendOn[v]
      /\ u.pendOn[t] = Nothing
  BY <1>2 DEF Gone
<1>4. Posted(u, p, t)
  BY <1>3, PostAllPosted
<1> HIDE DEF p, s2, waited
<1>5. Shape(p) /\ p.wait \in [Tasks -> Waits] /\ Frame(u, p, ReleaseFields)
  BY <1>4 DEF Posted, Listed, Core, Types
<1>6. /\ Frame(p, s2, {"wait", "due", "held", "astray"}) /\ s2.wait = [p.wait EXCEPT ![t] = "DEL"]
      /\ s2.astray = (p.astray \/ waited)
  BY <1>1, <1>5 DEF Shape, Frame, Fields
<1>7. /\ p.astray = u.astray /\ u.grp = s.grp /\ (s.astray => u.astray) /\ u.owner = s.owner
      /\ u.wait = s.wait
  BY <1>2, <1>3, <1>5 DEF Gone, Frame, Fields, ReleaseFields, UnlistFields
<1>8. CASE s2.astray
  BY <1>8 DEF Fine, s2
<1>9. CASE ~s2.astray
  <2>1. ~s.astray /\ ~u.astray /\ ~p.astray /\ ~waited
    BY <1>6, <1>7, <1>9
  <2>2. \A m \in Mutexes : s.owner[m] = t => \A v \in Tasks : s.pendOn[v] # m
    <3> SUFFICES ASSUME NEW m \in Mutexes, s.owner[m] = t PROVE \A v \in Tasks : s.pendOn[v] # m
      OBVIOUS
    <3>1. m \in ToSet(s.grp[t])
      BY <1>0, <2>1 DEF Hold
    <3>2. m \in Objects /\ s.pend[m] = << >>
      BY <2>1, <3>1 DEF waited, Objects
    <3> QED
      BY <1>0, <3>2, EmptyIff
  <2>3. \A v \in Tasks : ~Gives(s, v, t)
    BY <2>2 DEF Gives
  <2>4. Fine(u)
    BY <1>20, <2>3, UnlistedFine
  <2>5. \A m \in ToSet(u.grp[t]) : u.pend[m] = << >>
    <3> SUFFICES ASSUME NEW m \in ToSet(s.grp[t]) PROVE u.pend[m] = << >>
      BY <1>7
    <3>1. m \in Objects /\ m # Nothing /\ s.pend[m] = << >>
      <4>1. m \in Mutexes
        BY <1>0, SetFacts
      <4> QED
        BY <2>1, <4>1, KernelAssumption DEF waited, Objects
    <3>2. Pended(u.pend, u.pendOn, u.prio)
      BY <1>3 DEF Listed, Core
    <3>3. \A v \in Tasks : s.pendOn[v] # m
      BY <1>0, <3>1, EmptyIff
    <3>4. \A v \in Tasks : u.pendOn[v] # m
      BY <1>3, <3>1, <3>3
    <3> QED
      BY <3>1, <3>2, <3>4, EmptyIff
  <2>6. /\ p.pendOn = u.pendOn /\ Frame(u, p, {"grp", "held", "owner", "nest"})
        /\ \A n \in Mutexes : p.owner[n] = u.owner[n] \/ u.pend[n] = << >>
    BY <1>4, <2>1, <2>5 DEF Posted
  <2>7. /\ s2.astray = u.astray /\ s2.failed = u.failed /\ s2.prio = u.prio /\ s2.base = u.base
        /\ s2.pendOn = u.pendOn /\ s2.owner = p.owner /\ p.wait = u.wait
    <3>1. /\ p.astray = u.astray /\ p.failed = u.failed /\ p.prio = u.prio /\ p.base = u.base
          /\ p.pendOn = u.pendOn /\ p.wait = u.wait
      BY <2>6 DEF Frame, Fields
    <3>2. /\ s2.failed = p.failed /\ s2.prio = p.prio /\ s2.base = p.base /\ s2.pendOn = p.pendOn
          /\ s2.owner = p.owner
      BY <1>6 DEF Frame, Fields
    <3>3. s2.astray = u.astray
      <4>1. u.astray \in BOOLEAN /\ s2.astray \in BOOLEAN
        <5>1. u.astray \in BOOLEAN
          BY <1>3 DEF Listed, Core, Types
        <5> QED
          BY <1>6, <5>1, <1>7
      <4> QED
        BY <1>9, <2>1, <4>1
    <3> QED
      BY <3>1, <3>2, <3>3
  <2>8. \A v \in Tasks, w \in Tasks : Gives(s2, v, w) <=> Gives(u, v, w)
    <3> SUFFICES ASSUME NEW v \in Tasks, NEW w \in Tasks, u.pendOn[v] \in Mutexes
                 PROVE  s2.owner[u.pendOn[v]] = u.owner[u.pendOn[v]]
      BY <2>7 DEF Gives
    <3>1. u.pend[u.pendOn[v]] # << >>
      <4>1. Pended(u.pend, u.pendOn, u.prio) /\ u.pendOn[v] \in Objects
        BY <1>3 DEF Listed, Core, Objects
      <4> QED
        BY <4>1, EmptyIff
    <3> QED
      BY <2>6, <2>7, <3>1
  <2>9. \A v \in Tasks : s2.wait[v] # "DEL" => u.wait[v] # "DEL"
    BY <1>5, <1>6, <2>7
  <2>10. Fine(s2)
    BY <2>4, <2>7, <2>8, <2>9, FineSame
  <2> QED
    BY <2>10 DEF s2
<1> QED
  BY <1>8, <1>9

\* A wait that times out: the owner of the mutex loses what it inherited.
LEMMA TimeOutFine ==
  ASSUME NEW s, Turn(s), Fine(s), NEW t \in Tasks, s.wait[t] = "PEND_TIMEOUT"
  PROVE  Fine(TimeOut(s, t))
<1> DEFINE o == s.pendOn[t]
           woke == Untimed(s, t)
<1>0. /\ Core(s, {}) /\ o # Nothing /\ s.pendOn \in [Tasks -> Objects \cup {Nothing}]
      /\ Nothing \notin Mutexes
  BY KernelAssumption DEF Turn, Core, Types, Blocked, Pending
<1>1. TimeOut(s, t) = IF o \in Mutexes THEN Disinherit(woke, s.owner[o], t) ELSE woke
  BY DEF TimeOut, Untimed
<1>2. Turn(woke) /\ Frame(s, woke, LateFields)
  BY TimeOutWoke
<1>3. /\ woke.astray = s.astray /\ woke.failed = s.failed /\ woke.prio = s.prio
      /\ woke.base = s.base /\ woke.owner = s.owner
      /\ \A v \in Tasks : /\ woke.wait[v] = IF v = t THEN "RDY" ELSE s.wait[v]
                          /\ woke.pendOn[v] = IF v = t THEN Nothing ELSE s.pendOn[v]
  BY TimeOutWoke
<1> HIDE DEF woke
<1>4. \A v \in Tasks : woke.wait[v] # "DEL" => s.wait[v] # "DEL"
  BY <1>3
<1>5. Core(woke, {}) /\ Hold(woke) /\ Blocked(woke, {})
  BY <1>2 DEF Turn
<1>6. CASE o \in Mutexes
  <2>1. s.owner[o] \in Tasks
    BY <1>0, <1>6, OwnerExists
  <2>2. s.owner[o] \notin {} /\ \A u \in Tasks, w \in Tasks : w \in {} => ~Gives(woke, u, w)
    OBVIOUS
  <2>3. \A u \in Tasks : woke.pendOn[u] = IF u = t THEN Nothing ELSE s.pendOn[u]
    BY <1>3
  <2>4. Fine(Disinherit(woke, s.owner[s.pendOn[t]], t))
    BY <1>0, <1>3, <1>4, <1>5, <1>6, <2>1, <2>2, <2>3, AbandonFine
  <2> QED
    BY <1>1, <1>6, <2>4
<1>7. CASE o \notin Mutexes
  <2>1. \A u \in Tasks, v \in Tasks : Gives(woke, u, v) <=> Gives(s, u, v)
    BY <1>0, <1>3, <1>7 DEF Gives
  <2>2. Fine(woke)
    BY <1>3, <1>4, <2>1, FineSame
  <2> QED
    BY <1>1, <1>7, <2>2
<1> QED
  BY <1>6, <1>7

\* The delays that are over change nothing that Fine speaks of.
LEMMA HalfwayFine ==
  ASSUME NEW s, Kept(s, {}), Fine(s), NEW left, NEW b, Halfway(s, left, b)
  PROVE  Fine(b)
<1>1. Frame(s, left, {"cur", "prioCur", "due"}) /\ Frame(left, b, DlyFields)
  BY DEF Halfway
<1>2. Calm(s, left)
  BY <1>1, CalmFrame
<1>3. Fine(left)
  BY <1>1, <1>2, FineFrame
<1>4. left.wait = s.wait /\ b.pendOn = left.pendOn
  BY <1>1 DEF Frame, Fields, DlyFields
<1>5. \A t \in Tasks : b.wait[t] # "DEL" => left.wait[t] # "DEL"
  <2>1. \A t \in Tasks : t \in ToSet(Expired(Ticked(s.dlys))) => s.wait[t] = "DLY"
    BY DEF Halfway, Delayed
  <2> QED
    BY <1>4, <2>1 DEF Halfway, Awoken
<1>6. Calm(left, b)
  BY <1>4, <1>5 DEF Calm
<1>7. DlyFields \cap {"astray", "failed", "prio", "base", "owner"} = {}
  BY DEF DlyFields
<1> QED
  BY <1>1, <1>3, <1>6, <1>7, FineFrame

\* The tick task.
LEMMA TickTaskFine ==
  ASSUME NEW s, IInv(s), Fine(s)
  PROVE  Fine(TickTask(s))
<1>1. PICK left, b : Halfway(s, left, b) /\ TickTask(s) = Sched(TickListUpdateTimeout(b))
  BY TickHalfway
<1>2. Turn(b) /\ b.timeouts = s.timeouts /\ Timed(b) = Timed(s)
      /\ Elapsed(Expired(Ticked(s.timeouts)), Rest(s.timeouts), b.due, Timed(s))
  BY <1>1 DEF Halfway
<1>3. Fine(b)
  BY <1>1, HalfwayFine DEF IInv
<1> DEFINE c == TickListUpdateTimeout(b)
           X == {y \in States : Fine(y)}
<1>4. X \in SUBSET States /\ b \in X
  BY <1>2, <1>3, TypesState DEF Turn, Core
<1>5. \A y \in X, t \in Tasks : Turn(y) /\ y.wait[t] = "PEND_TIMEOUT" => TimeOut(y, t) \in X
  <2> SUFFICES ASSUME NEW y \in X, NEW t \in Tasks, Turn(y), y.wait[t] = "PEND_TIMEOUT"
               PROVE  TimeOut(y, t) \in X
    OBVIOUS
  <2>1. Fine(TimeOut(y, t))
    BY TimeOutFine
  <2>2. Turn(TimeOut(y, t))
    BY TimeOutTurn
  <2>3. TimeOut(y, t) \in States
    BY <2>2, TypesState DEF Turn, Core
  <2> QED
    BY <2>1, <2>3
<1>6. \A y \in X : Fine(y)
  OBVIOUS
<1> HIDE DEF X
<1>7. Turn(c) /\ \E a \in X : Frame(a, c, {"timeouts"})
  <2>1. Elapsed(Expired(Ticked(b.timeouts)), Rest(b.timeouts), b.due, Timed(b))
    BY <1>2
  <2>2. /\ Turn(c) /\ Frame(b, c, TimeFields) /\ c.timeouts = Rest(b.timeouts)
        /\ Awoken(b, c, Expired(Ticked(b.timeouts)))
        /\ \E a \in X : Frame(a, c, {"timeouts"})
    BY <1>2, <1>4, <1>5, <2>1, TimeoutsTurn
  <2> QED
    BY <2>2
<1> HIDE DEF c
<1>8. PICK a \in X : Frame(a, c, {"timeouts"})
  BY <1>7
<1>9. Calm(a, c)
  BY <1>8, CalmFrame
<1>10. Fine(c)
  BY <1>6, <1>8, <1>9, FineFrame
<1>11. Shape(c)
  BY <1>7 DEF Turn, Core, Types
<1>12. Fine(Sched(c))
  BY <1>10, <1>11, SchedFine
<1> QED
  BY <1>1, <1>12 DEF c

\* Before the first task is created nobody waits.
LEMMA NoneFine == Fine(None)
<1> DEFINE s == None
<1>1. /\ s.pendOn = [t \in Tasks |-> Nothing] /\ s.wait = [t \in Tasks |-> "DEL"]
      /\ s.failed = FALSE /\ Nothing \notin Mutexes
  BY KernelAssumption DEF None
<1> HIDE DEF s
<1>2. Exactly(s, s.base, {})
  BY <1>1 DEF Exactly
<1>3. Selfless(s)
  BY <1>1 DEF Selfless, Gives
<1>4. Fine(s)
  BY <1>1, <1>2, <1>3 DEF Fine
<1> QED
  BY <1>4 DEF s

\* The priorities at the start.
LEMMA InitFine == Init => Fine(k)
<1> DEFINE X == {y \in States : Fine(y)}
<1>1. None \in X /\ X \in SUBSET States
  BY NoneFine, NoneKept, TypesState DEF Kept, Core
<1>2. \A y \in X, t \in Tasks : Kept(y, {}) /\ y.wait[t] = "DEL" => TaskCreate(y, t) \in X
  <2> SUFFICES ASSUME NEW y \in X, NEW t \in Tasks, Kept(y, {}), y.wait[t] = "DEL"
               PROVE  TaskCreate(y, t) \in X
    OBVIOUS
  <2>1. Fine(TaskCreate(y, t))
    BY TaskCreateFine
  <2>2. Kept(TaskCreate(y, t), {})
    BY TaskCreateKept
  <2>3. TaskCreate(y, t) \in States
    BY <2>2, TypesState DEF Kept, Core
  <2> QED
    BY <2>1, <2>3
<1>3. \A y \in X : Fine(y)
  OBVIOUS
<1> HIDE DEF X
<1>4. Init => \E s2 \in X : Kept(s2, {}) /\ Fresh(s2) /\ k = Sched(s2)
  BY <1>1, <1>2, AllCreated
<1> SUFFICES ASSUME Init PROVE Fine(k)
  OBVIOUS
<1>5. PICK s2 \in X : Kept(s2, {}) /\ Fresh(s2) /\ k = Sched(s2)
  BY <1>4
<1>6. Shape(s2) /\ Fine(s2)
  BY <1>3, <1>5 DEF Kept, Core, Types
<1> QED
  BY <1>5, <1>6, SchedFine

-----------------------------------------------------------------------------
(* Every call keeps the priorities exact                                     *)

\* What OSSched does at the end of a service changes no priority.
LEMMA PlainFine ==
  ASSUME NEW x, Kept(x, {}), Fine(x), k' = IF x.failed THEN x ELSE Sched(x)
  PROVE  Fine(k')
<1>1. Shape(x)
  BY DEF Kept, Core, Types
<1>2. Fine(Sched(x))
  BY <1>1, SchedFine
<1> QED
  BY <1>2

\* The same when the call is counted.
LEMMA RareFine ==
  ASSUME NEW x, Kept(x, {}), Fine(x), k' = IF Counted(x).failed THEN Counted(x) ELSE Sched(Counted(x))
  PROVE  Fine(k')
<1>1. Shape(x)
  BY DEF Kept, Core, Types
<1>2. Fine(Counted(x)) /\ Shape(Counted(x))
  BY <1>1, CountedFine
<1>3. Fine(Sched(Counted(x)))
  BY <1>2, SchedFine
<1> QED
  BY <1>2, <1>3

\* One lemma for each action, as above.
LEMMA OSMutexPendFine == ASSUME IInv(k), Fine(k), OSMutexPend PROVE Fine(k')
<1>1. PICK m \in Mutexes, time \in Times :
        Running /\ k.owner[m] # k.cur /\ Returns(MutexPend(k, m, time))
  BY DEF OSMutexPend
<1>3. Running /\ Kept(k, {})
  BY <1>1, RunningReady
<1>4. time \in Nat
  BY KernelAssumption
<1> DEFINE x == MutexPend(k, m, time)
<1>5. Kept(x, {})
  BY <1>1, <1>3, <1>4, RunningReady, MutexPendKept
<1>6. Fine(x)
  BY <1>1, <1>3, <1>4, RunningReady, MutexPendFine
<1>7. k' = IF x.failed THEN x ELSE Sched(x)
  BY <1>1 DEF Returns
<1> HIDE DEF x
<1> QED
  BY <1>5, <1>6, <1>7, PlainFine

LEMMA OSMutexPendOwnerFine == ASSUME IInv(k), Fine(k), OSMutexPendOwner PROVE Fine(k')
<1>1. PICK m \in Mutexes :
        Rare /\ k.owner[m] = k.cur /\ Returns(Counted(MutexPend(k, m, 0)))
  BY DEF OSMutexPendOwner
<1>3. Running /\ k.rare < MaxRare /\ Kept(k, {})
  BY <1>1, RunningReady DEF Rare
<1> DEFINE x == MutexPend(k, m, 0)
<1>5. Kept(x, {})
  BY <1>1, <1>3, RunningReady, MutexPendOwnerKept
<1>6. Fine(x)
  BY <1>1, <1>3, RunningReady, MutexPendOwnerFine
<1>7. k' = IF Counted(x).failed THEN Counted(x) ELSE Sched(Counted(x))
  BY <1>1 DEF Returns
<1> HIDE DEF x
<1> QED
  BY <1>5, <1>6, <1>7, RareFine

LEMMA OSMutexPostFine == ASSUME IInv(k), Fine(k), OSMutexPost PROVE Fine(k')
<1>1. PICK m \in Mutexes :
        Running /\ k.owner[m] = k.cur /\ Returns(MutexPost(k, m))
  BY DEF OSMutexPost
<1>3. Running /\ Kept(k, {})
  BY <1>1, RunningReady
<1> DEFINE x == MutexPost(k, m)
<1>5. Kept(x, {})
  BY <1>1, <1>3, RunningReady, MutexPostKept
<1>6. Fine(x)
  BY <1>1, <1>3, RunningReady, MutexPostFine
<1>7. k' = IF x.failed THEN x ELSE Sched(x)
  BY <1>1 DEF Returns
<1> HIDE DEF x
<1> QED
  BY <1>5, <1>6, <1>7, PlainFine

LEMMA OSMutexPendAbortFine == ASSUME IInv(k), Fine(k), OSMutexPendAbort PROVE Fine(k')
<1>1. PICK m \in Mutexes : \E n \in {1, Len(k.pend[m])} :
        Rare /\ k.pend[m] # << >> /\ Returns(Counted(MutexPendAbort(k, m, n)))
  BY DEF OSMutexPendAbort
<1>2. PICK n \in {1, Len(k.pend[m])} : Rare /\ k.pend[m] # << >> /\ Returns(Counted(MutexPendAbort(k, m, n)))
  BY <1>1
<1>3. Running /\ k.rare < MaxRare /\ Kept(k, {})
  BY <1>2, RunningReady DEF Rare
<1>4. n \in 0..Len(k.pend[m])
  <2>1. k.pend[m] \in Seq(Tasks)
    BY <1>3 DEF Kept, Core, Types, Objects
  <2>2. Len(k.pend[m]) \in Nat /\ Len(k.pend[m]) # 0
    BY <1>2, <2>1, SetFacts
  <2> QED
    BY <2>2
<1> DEFINE x == MutexPendAbort(k, m, n)
<1>5. Kept(x, {})
  BY <1>2, <1>3, <1>4, RunningReady, MutexPendAbortKept
<1>6. Fine(x)
  BY <1>2, <1>3, <1>4, RunningReady, MutexPendAbortFine
<1>7. k' = IF Counted(x).failed THEN Counted(x) ELSE Sched(Counted(x))
  BY <1>2 DEF Returns
<1> HIDE DEF x
<1> QED
  BY <1>5, <1>6, <1>7, RareFine

LEMMA OSMutexDelFine == ASSUME IInv(k), Fine(k), OSMutexDel PROVE Fine(k')
<1>1. PICK m \in Mutexes :
        Rare /\ Returns(Counted(MutexDel(k, m)))
  BY DEF OSMutexDel
<1>3. Running /\ k.rare < MaxRare /\ Kept(k, {})
  BY <1>1, RunningReady DEF Rare
<1> DEFINE x == MutexDel(k, m)
<1>5. Kept(x, {})
  BY <1>1, <1>3, RunningReady, MutexDelKept
<1>6. Fine(x)
  BY <1>1, <1>3, RunningReady, MutexDelFine
<1>7. k' = IF Counted(x).failed THEN Counted(x) ELSE Sched(Counted(x))
  BY <1>1 DEF Returns
<1> HIDE DEF x
<1> QED
  BY <1>5, <1>6, <1>7, RareFine

LEMMA OSSemPendFine == ASSUME IInv(k), Fine(k), OSSemPend PROVE Fine(k')
<1>1. PICK o \in Sems, time \in Times :
        Running /\ Returns(SemPend(k, o, time))
  BY DEF OSSemPend
<1>3. Running /\ Kept(k, {})
  BY <1>1, RunningReady
<1>4. time \in Nat
  BY KernelAssumption
<1> DEFINE x == SemPend(k, o, time)
<1>5. Kept(x, {})
  BY <1>1, <1>3, <1>4, RunningReady, SemPendKept
<1>6. Fine(x)
  BY <1>1, <1>3, <1>4, RunningReady, SemPendFine
<1>7. k' = IF x.failed THEN x ELSE Sched(x)
  BY <1>1 DEF Returns
<1> HIDE DEF x
<1> QED
  BY <1>5, <1>6, <1>7, PlainFine

LEMMA OSSemPostFine == ASSUME IInv(k), Fine(k), OSSemPost PROVE Fine(k')
<1>1. PICK o \in Sems : \E n \in {1, Max({1, Len(k.pend[o])})} :
        k.ctr[o] < MaxCtr /\ Returns(SemPost(k, o, n))
  BY DEF OSSemPost
<1>2. PICK n \in {1, Max({1, Len(k.pend[o])})} : k.ctr[o] < MaxCtr /\ Returns(SemPost(k, o, n))
  BY <1>1
<1>3. Kept(k, {})
  BY DEF IInv
<1> DEFINE x == SemPost(k, o, n)
<1>5. Kept(x, {})
  BY <1>2, <1>3, SemPostKept
<1>6. Fine(x)
  BY <1>2, <1>3, SemPostFine
<1>7. k' = IF x.failed THEN x ELSE Sched(x)
  BY <1>2 DEF Returns
<1> HIDE DEF x
<1> QED
  BY <1>5, <1>6, <1>7, PlainFine

LEMMA OSSemSetFine == ASSUME IInv(k), Fine(k), OSSemSet PROVE Fine(k')
<1>1. PICK o \in Sems, n \in 0..MaxCtr :
        Rare /\ Returns(Counted(SemSet(k, o, n)))
  BY DEF OSSemSet
<1>3. Running /\ k.rare < MaxRare /\ Kept(k, {})
  BY <1>1, RunningReady DEF Rare
<1> DEFINE x == SemSet(k, o, n)
<1>5. Kept(x, {})
  BY <1>1, <1>3, RunningReady, SemSetKept
<1>6. Fine(x)
  BY <1>1, <1>3, RunningReady, SemSetFine
<1>7. k' = IF Counted(x).failed THEN Counted(x) ELSE Sched(Counted(x))
  BY <1>1 DEF Returns
<1> HIDE DEF x
<1> QED
  BY <1>5, <1>6, <1>7, RareFine

LEMMA OSSemPendAbortFine == ASSUME IInv(k), Fine(k), OSSemPendAbort PROVE Fine(k')
<1>1. PICK o \in Sems : \E n \in {1, Len(k.pend[o])} :
        Rare /\ k.pend[o] # << >> /\ Returns(Counted(SemPendAbort(k, o, n)))
  BY DEF OSSemPendAbort
<1>2. PICK n \in {1, Len(k.pend[o])} : Rare /\ k.pend[o] # << >> /\ Returns(Counted(SemPendAbort(k, o, n)))
  BY <1>1
<1>3. Running /\ k.rare < MaxRare /\ Kept(k, {})
  BY <1>2, RunningReady DEF Rare
<1> DEFINE x == SemPendAbort(k, o, n)
<1>5. Kept(x, {})
  BY <1>2, <1>3, RunningReady, SemPendAbortKept
<1>6. Fine(x)
  BY <1>2, <1>3, RunningReady, SemPendAbortFine
<1>7. k' = IF Counted(x).failed THEN Counted(x) ELSE Sched(Counted(x))
  BY <1>2 DEF Returns
<1> HIDE DEF x
<1> QED
  BY <1>5, <1>6, <1>7, RareFine

LEMMA OSSemDelFine == ASSUME IInv(k), Fine(k), OSSemDel PROVE Fine(k')
<1>1. PICK o \in Sems :
        Rare /\ Returns(Counted(SemDel(k, o)))
  BY DEF OSSemDel
<1>3. Running /\ k.rare < MaxRare /\ Kept(k, {})
  BY <1>1, RunningReady DEF Rare
<1> DEFINE x == SemDel(k, o)
<1>5. Kept(x, {})
  BY <1>1, <1>3, RunningReady, SemDelKept
<1>6. Fine(x)
  BY <1>1, <1>3, RunningReady, SemDelFine
<1>7. k' = IF Counted(x).failed THEN Counted(x) ELSE Sched(Counted(x))
  BY <1>1 DEF Returns
<1> HIDE DEF x
<1> QED
  BY <1>5, <1>6, <1>7, RareFine

LEMMA OSTaskDelFine == ASSUME IInv(k), Fine(k), OSTaskDel PROVE Fine(k')
<1>1. PICK t \in Tasks :
        Rare /\ Returns(Counted(TaskDel(k, t)))
  BY DEF OSTaskDel
<1>3. Running /\ k.rare < MaxRare /\ Kept(k, {})
  BY <1>1, RunningReady DEF Rare
<1> DEFINE x == TaskDel(k, t)
<1>5. Kept(x, {})
  BY <1>1, <1>3, RunningReady, TaskDelKept
<1>6. Fine(x)
  BY <1>1, <1>3, RunningReady, TaskDelFine
<1>7. k' = IF Counted(x).failed THEN Counted(x) ELSE Sched(Counted(x))
  BY <1>1 DEF Returns
<1> HIDE DEF x
<1> QED
  BY <1>5, <1>6, <1>7, RareFine

LEMMA OSTaskCreateFine == ASSUME IInv(k), Fine(k), OSTaskCreate PROVE Fine(k')
<1>1. PICK t \in Tasks :
        Running /\ k.wait[t] = "DEL" /\ Returns(TaskCreate(k, t))
  BY DEF OSTaskCreate
<1>3. Running /\ Kept(k, {})
  BY <1>1, RunningReady
<1> DEFINE x == TaskCreate(k, t)
<1>5. Kept(x, {})
  BY <1>1, <1>3, RunningReady, TaskCreateKept
<1>6. Fine(x)
  BY <1>1, <1>3, RunningReady, TaskCreateFine
<1>7. k' = IF x.failed THEN x ELSE Sched(x)
  BY <1>1 DEF Returns
<1> HIDE DEF x
<1> QED
  BY <1>5, <1>6, <1>7, PlainFine

LEMMA OSTaskSuspendFine == ASSUME IInv(k), Fine(k), OSTaskSuspend PROVE Fine(k')
<1>1. PICK t \in Tasks :
        Rare /\ Returns(Counted(TaskSuspend(k, t)))
  BY DEF OSTaskSuspend
<1>3. Running /\ k.rare < MaxRare /\ Kept(k, {})
  BY <1>1, RunningReady DEF Rare
<1> DEFINE x == TaskSuspend(k, t)
<1>5. Kept(x, {})
  BY <1>1, <1>3, RunningReady, TaskSuspendKept
<1>6. Fine(x)
  BY <1>1, <1>3, RunningReady, TaskSuspendFine
<1>7. k' = IF Counted(x).failed THEN Counted(x) ELSE Sched(Counted(x))
  BY <1>1 DEF Returns
<1> HIDE DEF x
<1> QED
  BY <1>5, <1>6, <1>7, RareFine

LEMMA OSTaskResumeFine == ASSUME IInv(k), Fine(k), OSTaskResume PROVE Fine(k')
<1>1. PICK t \in Tasks :
        Running /\ Suspended(k, t) /\ Returns(TaskResume(k, t))
  BY DEF OSTaskResume
<1>3. Running /\ Kept(k, {})
  BY <1>1, RunningReady
<1> DEFINE x == TaskResume(k, t)
<1>5. Kept(x, {})
  BY <1>1, <1>3, RunningReady, TaskResumeKept
<1>6. Fine(x)
  BY <1>1, <1>3, RunningReady, TaskResumeFine
<1>7. k' = IF x.failed THEN x ELSE Sched(x)
  BY <1>1 DEF Returns
<1> HIDE DEF x
<1> QED
  BY <1>5, <1>6, <1>7, PlainFine

LEMMA OSTaskChangePrioFine == ASSUME IInv(k), Fine(k), OSTaskChangePrio PROVE Fine(k')
<1>1. PICK t \in Tasks, p \in Prios :
        Rare /\ k.wait[t] # "DEL" /\ Returns(Counted(ChangePrio(k, t, p)))
  BY DEF OSTaskChangePrio
<1>3. Running /\ k.rare < MaxRare /\ Kept(k, {})
  BY <1>1, RunningReady DEF Rare
<1> DEFINE x == ChangePrio(k, t, p)
<1>5. Kept(x, {})
  BY <1>1, <1>3, RunningReady, ChangePrioKept
<1>6. Fine(x)
  BY <1>1, <1>3, RunningReady, ChangePrioFine
<1>7. k' = IF Counted(x).failed THEN Counted(x) ELSE Sched(Counted(x))
  BY <1>1 DEF Returns
<1> HIDE DEF x
<1> QED
  BY <1>5, <1>6, <1>7, RareFine

LEMMA OSTimeDlyFine == ASSUME IInv(k), Fine(k), OSTimeDly PROVE Fine(k')
<1>1. PICK time \in Times \ {0} :
        Rare /\ Returns(Counted(TimeDly(k, time)))
  BY DEF OSTimeDly
<1>3. Running /\ k.rare < MaxRare /\ Kept(k, {})
  BY <1>1, RunningReady DEF Rare
<1>4. time \in Nat \ {0}
  BY KernelAssumption
<1> DEFINE x == TimeDly(k, time)
<1>5. Kept(x, {})
  BY <1>1, <1>3, <1>4, RunningReady, TimeDlyKept
<1>6. Fine(x)
  BY <1>1, <1>3, <1>4, RunningReady, TimeDlyFine
<1>7. k' = IF Counted(x).failed THEN Counted(x) ELSE Sched(Counted(x))
  BY <1>1 DEF Returns
<1> HIDE DEF x
<1> QED
  BY <1>5, <1>6, <1>7, RareFine

LEMMA OSTimeDlyResumeFine == ASSUME IInv(k), Fine(k), OSTimeDlyResume PROVE Fine(k')
<1>1. PICK t \in Tasks :
        Running /\ k.wait[t] = "DLY" /\ Returns(TimeDlyResume(k, t))
  BY DEF OSTimeDlyResume
<1>3. Running /\ Kept(k, {})
  BY <1>1, RunningReady
<1> DEFINE x == TimeDlyResume(k, t)
<1>5. Kept(x, {})
  BY <1>1, <1>3, RunningReady, TimeDlyResumeKept
<1>6. Fine(x)
  BY <1>1, <1>3, RunningReady, TimeDlyResumeFine
<1>7. k' = IF x.failed THEN x ELSE Sched(x)
  BY <1>1 DEF Returns
<1> HIDE DEF x
<1> QED
  BY <1>5, <1>6, <1>7, PlainFine

LEMMA OS_TickTaskFine == ASSUME IInv(k), Fine(k), OS_TickTask PROVE Fine(k')
<1>1. k' = TickTask(k)
  BY DEF OS_TickTask
<1>2. Fine(TickTask(k))
  BY TickTaskFine
<1> QED
  BY <1>1, <1>2

\* Every step keeps the priorities exact.
LEMMA NextFine == IInv(k) /\ Fine(k) /\ [Next]_k => Fine(k')
<1> SUFFICES ASSUME IInv(k), Fine(k), [Next]_k PROVE Fine(k')
  OBVIOUS
<1>1. CASE OSMutexPend
  BY <1>1, OSMutexPendFine
<1>2. CASE OSMutexPendOwner
  BY <1>2, OSMutexPendOwnerFine
<1>3. CASE OSMutexPost
  BY <1>3, OSMutexPostFine
<1>4. CASE OSMutexPendAbort
  BY <1>4, OSMutexPendAbortFine
<1>5. CASE OSMutexDel
  BY <1>5, OSMutexDelFine
<1>6. CASE OSSemPend
  BY <1>6, OSSemPendFine
<1>7. CASE OSSemPost
  BY <1>7, OSSemPostFine
<1>8. CASE OSSemSet
  BY <1>8, OSSemSetFine
<1>9. CASE OSSemPendAbort
  BY <1>9, OSSemPendAbortFine
<1>10. CASE OSSemDel
  BY <1>10, OSSemDelFine
<1>11. CASE OSTaskDel
  BY <1>11, OSTaskDelFine
<1>12. CASE OSTaskCreate
  BY <1>12, OSTaskCreateFine
<1>13. CASE OSTaskSuspend
  BY <1>13, OSTaskSuspendFine
<1>14. CASE OSTaskResume
  BY <1>14, OSTaskResumeFine
<1>15. CASE OSTaskChangePrio
  BY <1>15, OSTaskChangePrioFine
<1>16. CASE OSTimeDly
  BY <1>16, OSTimeDlyFine
<1>17. CASE OSTimeDlyResume
  BY <1>17, OSTimeDlyResumeFine
<1>18. CASE OS_TickTask
  BY <1>18, OS_TickTaskFine
<1>19. CASE k' = k
  BY <1>19
<1> QED
  BY <1>1, <1>2, <1>3, <1>4, <1>5, <1>6, <1>7, <1>8, <1>9, <1>10, <1>11, <1>12,
     <1>13, <1>14, <1>15, <1>16, <1>17, <1>18, <1>19 DEF Next

\* The strengthened invariant: the priorities are exact too.
Exactness == Invariant /\ Fine(k)

\* It is an invariant.
LEMMA ExactnessKept == Spec => []Exactness
<1>1. Init => Exactness
  BY InitInv, InitFine DEF Exactness, Invariant
<1>2. Exactness /\ [Next]_k => Exactness'
  BY NextInv, NextFine DEF Exactness, Invariant
<1> QED
  BY <1>1, <1>2, PTL DEF Spec

\* OS_TaskChangePrio ends whatever the chain of owners, OS_MutexGrpRemove
\* finds what it looks for, and RTOS_CRITICAL_FAIL_EXEC is not reached.
THEOREM NeverFail == Spec => []NeverFails
<1>1. Exactness => NeverFails
  BY DEF Exactness, Fine, NeverFails
<1> QED
  BY <1>1, ExactnessKept, PTL

\* Priority inheritance is exact: a task has its own priority or the best of
\* those who wait for a mutex it owns (os_mutex.c, OS_TaskChangePrio).
THEOREM PrioritiesExact == Spec => []PrioExact
<1>1. Exactness => PrioExact
  <2> SUFFICES ASSUME Exactness, NEW t \in Tasks, ~k.astray, k.wait[t] # "DEL"
               PROVE  k.prio[t] = Disinherited(k, t)
    BY DEF PrioExact
  <2>1. Types(k) /\ Pended(k.pend, k.pendOn, k.prio) /\ Hold(k) /\ Fine(k)
    BY DEF Exactness, Invariant, IInv, Kept, Core
  <2>2. Grouped(k, t)
    BY <2>1, HoldLinked DEF Linked
  <2>3. Best(k, k.base, t, Disinherited(k, t)) /\ Disinherited(k, t) \in Prios
    BY <2>1, <2>2, DisinheritedBest
  <2>4. Best(k, k.base, t, k.prio[t])
    BY <2>1 DEF Fine, Exactly
  <2>5. k.prio \in [Tasks -> Prios] /\ k.base \in [Tasks -> Prios] /\ k.prio[t] \in Prios
    BY <2>1 DEF Types
  <2> QED
    BY <2>3, <2>4, <2>5, BestOne
<1> QED
  BY <1>1, ExactnessKept, PTL
=============================================================================
