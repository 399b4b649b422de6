------------------------------ MODULE MCKernel ------------------------------
(* Instance for TLC: three tasks of different priorities, so that a task    *)
(* can come between an owner and the one that waits for it; two mutexes,    *)
(* for chains of owners and for deadlocks; one semaphore.  The mutexes are  *)
(* alike, which makes them a symmetry; the tasks are not.                   *)
EXTENDS Kernel, TLC

CONSTANTS t1, t2, t3

MCFirst == (t1 :> 0) @@ (t2 :> 1) @@ (t3 :> 2)
MutexSymmetry == Permutations(Mutexes)
=============================================================================
