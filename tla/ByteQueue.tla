------------------------------ MODULE ByteQueue ------------------------------
(***************************************************************************)
(* What a direction of the serial line promises: the bytes come out in the *)
(* order they went in, none lost, none repeated, none invented.  Bytes are *)
(* numbered modulo Numbers, more than can be under way.                    *)
(***************************************************************************)
EXTENDS Integers, Sequences

CONSTANT Numbers

VARIABLES
  queue,  (* the bytes under way             *)
  next,   (* the number of the next byte in  *)
  due     (* the number of the next byte out *)

Init == queue = <<>> /\ next = 0 /\ due = 0

\* Some bytes go in, numbered on from the last.
Put ==
  /\ \E n \in 1 .. Numbers :
       /\ queue' = queue \o [j \in 1 .. n |-> (next + j - 1) % Numbers]
       /\ next' = (next + n) % Numbers
  /\ UNCHANGED due

\* The first bytes come out.
Get ==
  /\ \E n \in 1 .. Len(queue) :
       /\ queue' = SubSeq(queue, n + 1, Len(queue))
       /\ due' = (queue[n] + 1) % Numbers
  /\ UNCHANGED next

Next == Put \/ Get

Spec == Init /\ [][Next]_<<queue, next, due>>
=============================================================================
