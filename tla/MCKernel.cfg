SPECIFICATION Spec
CONSTANTS
  t1 = t1
  t2 = t2
  t3 = t3
  Tasks = {t1, t2, t3}
  Mutexes = {m1, m2}
  Sems = {s1}
  Nothing = Nothing
  Idle = Idle
  Lowest = 2
  First <- MCFirst
  Times = {0, 2}
  MaxRare = 1
  MaxCtr = 1
SYMMETRY MutexSymmetry
INVARIANTS TypeOK ListsAgree NoLostWakeup DelaysExact PendSorted PrioExact HolderOwns NeverFails
CHECK_DEADLOCK FALSE
