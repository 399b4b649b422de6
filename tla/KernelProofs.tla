----------------------------- MODULE KernelProofs -----------------------------
(***************************************************************************)
(* Proofs about the Micrium OS kernel of Kernel.tla, for any number of      *)
(* tasks, mutexes and semaphores: after every service, whoever calls it     *)
(* with whatever arguments, the ready, pend and tick lists agree with the   *)
(* tasks' states, the pend lists are sorted, the delays are exact, nobody   *)
(* waits for what is free, and holders of mutexes own them.                 *)
(*                                                                          *)
(* The inductive invariant is IInv.  A service breaks it in the middle: a   *)
(* task leaves one list before it enters the next.  Core, Ticks, Hold and   *)
(* Blocked are the parts that hold between two operations on the lists, for *)
(* all tasks but those of a set D that are just leaving; Kept joins them.   *)
(* A priority that is changed along a chain of owners keeps all of them:    *)
(* Reprio is the relation that every round of OS_TaskChangePrio, and so the *)
(* whole chain, is a step of.                                               *)
(***************************************************************************)
EXTENDS Kernel, FiniteSetTheorems, SequenceTheorems, NaturalsInduction,
        WellFoundedInduction, TLAPS

-----------------------------------------------------------------------------
(* Folds                                                                     *)

\* Induction, by the least number for which something would be wrong.
LEMMA Least ==
  ASSUME NEW T \in SUBSET Nat, T # {}
  PROVE  \E x \in T : \A y \in T : x <= y
<1>1. PICK x \in T : \A y \in T : <<y, x>> \notin OpToRel(<, Nat)
  BY NatLessThanWellFounded, WFMin
<1>2. \A y \in T : ~(y < x)
  BY <1>1 DEF OpToRel
<1>3. \A y \in T : y \in Nat /\ x \in Nat
  OBVIOUS
<1> QED
  BY <1>2, <1>3

\* g holds the values of a fold of n steps of F from base, each in its set.
Fold(g, n, base, F, G) ==
  /\ g = [i \in 0..n |-> g[i]]
  /\ g[0] = base
  /\ \A i \in 1..n : g[i] = F[<<i, g[i - 1]>>]
  /\ \A i \in 0..n : g[i] \in G[i]

\* Steps that lead from set to set can be folded.
LEMMA FoldExists ==
  ASSUME NEW N \in Nat, NEW base, NEW F, NEW G, base \in G[0],
         \A n \in 1..N : \A x \in G[n - 1] : F[<<n, x>>] \in G[n]
  PROVE  \E g : Fold(g, N, base, F, G)
<1> DEFINE T == {n \in 0..N : ~\E g : Fold(g, n, base, F, G)}
<1>1. T = {}
  <2> SUFFICES ASSUME T # {} PROVE FALSE
    OBVIOUS
  <2>1. T \in SUBSET Nat
    OBVIOUS
  <2>2. PICK n \in T : \A y \in T : n <= y
    <3> HIDE DEF T
    <3> QED
      BY <2>1, Least
  <2>3. CASE n = 0
    <3> DEFINE g == [i \in 0..0 |-> base]
    <3>1. g = [i \in 0..0 |-> g[i]] /\ g[0] = base
      OBVIOUS
    <3> HIDE DEF g
    <3>2. Fold(g, 0, base, F, G)
      BY <3>1 DEF Fold
    <3> QED
      BY <2>2, <2>3, <3>2
  <2>4. CASE n # 0
    <3>1. n \in 1..N /\ n - 1 \in 0..N /\ n \in Nat
      BY <2>4
    <3>2. n - 1 \notin T
      BY <2>2, <3>1
    <3>3. PICK h : Fold(h, n - 1, base, F, G)
      BY <3>1, <3>2
    <3> DEFINE v == F[<<n, h[n - 1]>>]
               g == [i \in 0..n |-> IF i = n THEN v ELSE h[i]]
    <3>4. v \in G[n]
      BY <3>1, <3>3 DEF Fold
    <3>5. /\ g = [i \in 0..n |-> g[i]] /\ g[n] = v
          /\ \A i \in 0..n - 1 : g[i] = h[i]
      BY <3>1
    <3> HIDE DEF g
    <3>6. g[0] = base
      <4>1. 0 \in 0..n - 1
        BY <3>1
      <4>2. h[0] = base
        BY <3>3 DEF Fold
      <4> QED
        BY <3>5, <4>1, <4>2
    <3>7. ASSUME NEW i \in 1..n PROVE g[i] = F[<<i, g[i - 1]>>]
      <4>1. i - 1 \in 0..n - 1
        BY <3>1
      <4>2. CASE i = n
        BY <3>5, <4>1, <4>2
      <4>3. CASE i # n
        <5>1. i \in 1..n - 1 /\ i \in 0..n - 1
          BY <3>1, <4>3
        <5> QED
          BY <3>3, <3>5, <4>1, <5>1 DEF Fold
      <4> QED
        BY <4>2, <4>3
    <3>8. ASSUME NEW i \in 0..n PROVE g[i] \in G[i]
      <4>1. i = n \/ i \in 0..n - 1
        BY <3>1
      <4> QED
        BY <3>3, <3>4, <3>5, <4>1 DEF Fold
    <3>9. Fold(g, n, base, F, G)
      <4> HIDE DEF v
      <4> QED
        BY <3>5, <3>6, <3>7, <3>8 DEF Fold
    <3> QED
      BY <2>2, <3>9
  <2> QED
    BY <2>3, <2>4
<1> QED
  BY <1>1

\* Two functions that take the same steps agree.
LEMMA FoldAgree ==
  ASSUME NEW N \in Nat, NEW f, NEW g, f[0] = g[0],
         \A n \in 1..N : f[n - 1] = g[n - 1] => f[n] = g[n]
  PROVE  f[N] = g[N]
<1> DEFINE T == {n \in 0..N : f[n] # g[n]}
<1>1. T = {}
  <2> SUFFICES ASSUME T # {} PROVE FALSE
    OBVIOUS
  <2>1. T \in SUBSET Nat
    OBVIOUS
  <2>2. PICK n \in T : \A y \in T : n <= y
    <3> HIDE DEF T
    <3> QED
      BY <2>1, Least
  <2>3. n \in 1..N /\ n - 1 \in 0..N
    BY <2>2
  <2>4. n - 1 \notin T
    BY <2>2, <2>3
  <2>5. f[n - 1] = g[n - 1]
    BY <2>3, <2>4
  <2> QED
    BY <2>2, <2>3, <2>5
<1> QED
  BY <1>1

-----------------------------------------------------------------------------
(* Sequences without repetition                                              *)

Uniq(q) == \A i, j \in DOMAIN q : q[i] = q[j] => i = j

\* What a sequence and the set of its entries have in common.
LEMMA SetFacts ==
  ASSUME NEW S, NEW q \in Seq(S)
  PROVE  /\ Len(q) \in Nat /\ DOMAIN q = 1..Len(q)
         /\ ToSet(q) \subseteq S
         /\ q = << >> <=> Len(q) = 0
         /\ \A x : x \in ToSet(q) <=> \E i \in 1..Len(q) : q[i] = x
         /\ q # << >> => Head(q) = q[1] /\ Head(q) \in ToSet(q)
<1>1. Len(q) \in Nat /\ DOMAIN q = 1..Len(q) /\ q \in [1..Len(q) -> S]
  BY LenProperties
<1>2. q = << >> <=> Len(q) = 0
  BY EmptySeq
<1>3. q # << >> => Head(q) = q[1]
  BY HeadTailProperties
<1> QED
  BY <1>1, <1>2, <1>3 DEF ToSet

\* A set of numbers has a least one.
LEMMA MinLemma ==
  ASSUME NEW M \in SUBSET Nat, M # {}
  PROVE  Min(M) \in M /\ \A x \in M : Min(M) <= x
BY Least DEF Min

\* Priorities may be compared with IdlePrio, numbers from 0 on.
LEMMA InsertAtLemma ==
  ASSUME NEW S, NEW q \in Seq(S), NEW e \in S, NEW i \in 1..Len(q) + 1
  PROVE  /\ InsertAt(q, i, e) \in Seq(S)
         /\ Len(InsertAt(q, i, e)) = Len(q) + 1
         /\ InsertAt(q, i, e)[i] = e
         /\ \A j \in 1..Len(q) + 1 :
              InsertAt(q, i, e)[j] =
                IF j < i THEN q[j] ELSE IF j = i THEN e ELSE q[j - 1]
<1> DEFINE a == SubSeq(q, 1, i - 1)
           b == SubSeq(q, i, Len(q))
<1>0. Len(q) \in Nat /\ i \in Nat
  BY LenProperties
<1>1. a \in Seq(S) /\ Len(a) = i - 1 /\ \A j \in 1..i - 1 : a[j] = q[j]
  BY <1>0, SubSeqProperties
<1>2. b \in Seq(S) /\ Len(b) = Len(q) - i + 1 /\ \A j \in 1..Len(q) - i + 1 : b[j] = q[i + j - 1]
  BY <1>0, SubSeqProperties
<1> HIDE DEF a, b
<1>3. <<e>> \in Seq(S) /\ Len(<<e>>) = 1 /\ <<e>>[1] = e
  OBVIOUS
<1> DEFINE c == a \o <<e>>
<1>4. c \in Seq(S) /\ Len(c) = i /\ c[i] = e /\ \A j \in 1..i - 1 : c[j] = q[j]
  BY <1>0, <1>1, <1>3, ConcatProperties
<1> HIDE DEF c
<1>5. /\ c \o b \in Seq(S) /\ Len(c \o b) = Len(c) + Len(b)
      /\ \A j \in 1..Len(c) + Len(b) : (c \o b)[j] = IF j <= Len(c) THEN c[j] ELSE b[j - Len(c)]
  BY <1>2, <1>4, ConcatProperties
<1>6. InsertAt(q, i, e) = c \o b
  BY DEF InsertAt, a, b, c
<1>7. Len(c) + Len(b) = Len(q) + 1
  BY <1>0, <1>2, <1>4
<1>8. ASSUME NEW j \in 1..Len(q) + 1
      PROVE  (c \o b)[j] = IF j < i THEN q[j] ELSE IF j = i THEN e ELSE q[j - 1]
  <2>1. CASE j <= i
    BY <1>0, <1>4, <1>5, <1>7, <2>1
  <2>2. CASE j > i
    <3>1. (c \o b)[j] = b[j - i] /\ j - i \in 1..Len(q) - i + 1
      BY <1>0, <1>4, <1>5, <1>7, <2>2
    <3>2. b[j - i] = q[i + (j - i) - 1] /\ i + (j - i) - 1 = j - 1
      BY <1>0, <1>2, <3>1
    <3> QED
      BY <1>0, <2>2, <3>1, <3>2
  <2>3. j <= i \/ j > i
    BY <1>0
  <2> QED
    BY <2>1, <2>2, <2>3
<1>9. i \in 1..Len(q) + 1 /\ (c \o b)[i] = e
  <2>1. ~(i < i)
    BY <1>0
  <2> QED
    BY <1>8, <2>1
<1> QED
  BY <1>5, <1>6, <1>7, <1>8, <1>9

\* An entry taken out by its index.
LEMMA RemoveAtLemma ==
  ASSUME NEW S, NEW q \in Seq(S), NEW i \in 1..Len(q)
  PROVE  /\ RemoveAt(q, i) \in Seq(S)
         /\ Len(RemoveAt(q, i)) = Len(q) - 1
         /\ \A j \in 1..Len(q) - 1 : RemoveAt(q, i)[j] = IF j < i THEN q[j] ELSE q[j + 1]
<1> DEFINE a == SubSeq(q, 1, i - 1)
           b == SubSeq(q, i + 1, Len(q))
<1>0. Len(q) \in Nat /\ i \in Nat
  BY LenProperties
<1>1. a \in Seq(S) /\ Len(a) = i - 1 /\ \A j \in 1..i - 1 : a[j] = q[j]
  BY <1>0, SubSeqProperties
<1>2. b \in Seq(S) /\ Len(b) = Len(q) - i /\ \A j \in 1..Len(q) - i : b[j] = q[i + j]
  <2>1. /\ b \in Seq(S)
        /\ Len(b) = IF i + 1 <= Len(q) THEN Len(q) - (i + 1) + 1 ELSE 0
        /\ \A j \in 1..Len(q) - (i + 1) + 1 : b[j] = q[(i + 1) + j - 1]
    BY <1>0, SubSeqProperties
  <2> QED
    BY <1>0, <2>1
<1> HIDE DEF a, b
<1>3. /\ a \o b \in Seq(S) /\ Len(a \o b) = Len(a) + Len(b)
      /\ \A j \in 1..Len(a) + Len(b) : (a \o b)[j] = IF j <= Len(a) THEN a[j] ELSE b[j - Len(a)]
  BY <1>1, <1>2, ConcatProperties
<1>4. RemoveAt(q, i) = a \o b
  BY DEF RemoveAt, a, b
<1>5. Len(a) + Len(b) = Len(q) - 1
  BY <1>0, <1>1, <1>2
<1>6. ASSUME NEW j \in 1..Len(q) - 1
      PROVE  (a \o b)[j] = IF j < i THEN q[j] ELSE q[j + 1]
  <2>1. CASE j < i
    BY <1>0, <1>1, <1>3, <1>5, <2>1
  <2>2. CASE j >= i
    <3>1. (a \o b)[j] = b[j - (i - 1)] /\ j - (i - 1) \in 1..Len(q) - i
      BY <1>0, <1>1, <1>3, <1>5, <2>2
    <3>2. b[j - (i - 1)] = q[i + (j - (i - 1))] /\ i + (j - (i - 1)) = j + 1
      BY <1>0, <1>2, <3>1
    <3> QED
      BY <1>0, <2>2, <3>1, <3>2
  <2>3. j < i \/ j >= i
    BY <1>0
  <2> QED
    BY <2>1, <2>2, <2>3
<1> QED
  BY <1>3, <1>4, <1>5, <1>6

\* The list w is q without e, the others in their order.
Dropped(w, q, S, e) ==
  /\ w \in Seq(S) /\ Uniq(w) /\ ToSet(w) = ToSet(q) \ {e}
  /\ \A i, j \in DOMAIN w : i < j =>
       \E a, b \in DOMAIN q : a < b /\ w[i] = q[a] /\ w[j] = q[b]

\* What is taken out of a list without repetition is in it no more.
LEMMA DropAt ==
  ASSUME NEW S, NEW q \in Seq(S), Uniq(q), NEW i \in 1..Len(q)
  PROVE  Dropped(RemoveAt(q, i), q, S, q[i])
<1> DEFINE w == RemoveAt(q, i)
<1>0. Len(q) \in Nat /\ DOMAIN q = 1..Len(q) /\ i \in Nat
  BY LenProperties
<1>1. /\ w \in Seq(S) /\ Len(w) = Len(q) - 1
      /\ \A j \in 1..Len(q) - 1 : w[j] = IF j < i THEN q[j] ELSE q[j + 1]
  BY RemoveAtLemma
<1>2. DOMAIN w = 1..Len(q) - 1
  BY <1>1, LenProperties
<1> HIDE DEF w
<1> DEFINE from(j) == IF j < i THEN j ELSE j + 1
<1>3. \A j \in DOMAIN w : from(j) \in 1..Len(q) /\ from(j) # i /\ w[j] = q[from(j)]
  BY <1>0, <1>1, <1>2
<1>4. \A a, b \in DOMAIN w : a < b => from(a) < from(b)
  BY <1>0, <1>2
<1>5. \A a, b \in DOMAIN w : from(a) = from(b) => a = b
  BY <1>0, <1>2
<1>6. \A x \in 1..Len(q) : x # i => \E j \in DOMAIN w : from(j) = x
  <2> SUFFICES ASSUME NEW x \in 1..Len(q), x # i PROVE \E j \in DOMAIN w : from(j) = x
    OBVIOUS
  <2>1. CASE x < i
    <3>1. x \in DOMAIN w /\ from(x) = x
      BY <1>0, <1>2, <2>1
    <3> QED
      BY <3>1
  <2>2. CASE x > i
    <3>1. x - 1 \in DOMAIN w /\ from(x - 1) = x
      BY <1>0, <1>2, <2>2
    <3> QED
      BY <3>1
  <2> QED
    BY <1>0, <2>1, <2>2
<1> HIDE DEF from
<1>7. Uniq(w)
  BY <1>0, <1>3, <1>5 DEF Uniq
<1>8. ToSet(w) = ToSet(q) \ {q[i]}
  <2>1. ASSUME NEW x \in ToSet(w) PROVE x \in ToSet(q) \ {q[i]}
    BY <1>0, <1>3 DEF ToSet, Uniq
  <2>2. ASSUME NEW x \in ToSet(q), x # q[i] PROVE x \in ToSet(w)
    <3>1. PICK a \in 1..Len(q) : x = q[a]
      BY <1>0 DEF ToSet
    <3>2. PICK j \in DOMAIN w : from(j) = a
      BY <1>6, <2>2, <3>1
    <3> QED
      BY <1>3, <3>1, <3>2 DEF ToSet
  <2> QED
    BY <2>1, <2>2
<1>9. \A a, b \in DOMAIN w : a < b =>
        \E c, d \in DOMAIN q : c < d /\ w[a] = q[c] /\ w[b] = q[d]
  BY <1>0, <1>3, <1>4
<1>10. Dropped(w, q, S, q[i])
  BY <1>1, <1>7, <1>8, <1>9 DEF Dropped
<1> QED
  BY <1>10 DEF w

\* Without takes out the entry and no other.
LEMMA WithoutLemma ==
  ASSUME NEW S, NEW q \in Seq(S), Uniq(q), NEW e
  PROVE  Dropped(Without(q, e), q, S, e)
<1>0. DOMAIN q = 1..Len(q) /\ Len(q) \in Nat
  BY LenProperties
<1>1. CASE e \in ToSet(q)
  <2> DEFINE i == CHOOSE i \in DOMAIN q : q[i] = e
  <2>1. i \in 1..Len(q) /\ q[i] = e
    BY <1>0, <1>1 DEF ToSet
  <2>2. Without(q, e) = RemoveAt(q, i)
    BY <1>1 DEF Without
  <2> HIDE DEF i
  <2> QED
    BY <2>1, <2>2, DropAt
<1>2. CASE e \notin ToSet(q)
  <2>1. Without(q, e) = q
    BY <1>2 DEF Without
  <2>2. ToSet(q) = ToSet(q) \ {e}
    BY <1>2
  <2> QED
    BY <1>0, <2>1, <2>2 DEF Dropped
<1> QED
  BY <1>1, <1>2

\* The list of any type without e has that type.
LEMMA WithoutType ==
  ASSUME NEW S, NEW q \in Seq(S), NEW e
  PROVE  Without(q, e) \in Seq(S)
<1>0. DOMAIN q = 1..Len(q) /\ Len(q) \in Nat
  BY LenProperties
<1>1. CASE e \in ToSet(q)
  <2> DEFINE i == CHOOSE i \in DOMAIN q : q[i] = e
  <2>1. i \in 1..Len(q) /\ q[i] = e
    BY <1>0, <1>1 DEF ToSet
  <2>2. Without(q, e) = RemoveAt(q, i)
    BY <1>1 DEF Without
  <2> HIDE DEF i
  <2> QED
    BY <2>1, <2>2, RemoveAtLemma
<1>2. CASE e \notin ToSet(q)
  BY <1>2 DEF Without
<1> QED
  BY <1>1, <1>2

\* The list w is q with e added somewhere.
Added(w, q, S, e) ==
  w \in Seq(S) /\ Uniq(w) /\ ToSet(w) = ToSet(q) \cup {e}

\* Inserting, appending and prefixing add the entry and no other.
LEMMA InsertUniq ==
  ASSUME NEW S, NEW q \in Seq(S), Uniq(q), NEW e \in S, e \notin ToSet(q),
         NEW i \in 1..Len(q) + 1
  PROVE  Added(InsertAt(q, i, e), q, S, e)
<1> DEFINE w == InsertAt(q, i, e)
<1>0. Len(q) \in Nat /\ DOMAIN q = 1..Len(q) /\ i \in Nat
  BY LenProperties
<1>1. /\ w \in Seq(S) /\ Len(w) = Len(q) + 1
      /\ \A j \in 1..Len(q) + 1 :
              w[j] = IF j < i THEN q[j] ELSE IF j = i THEN e ELSE q[j - 1]
  BY InsertAtLemma
<1>2. DOMAIN w = 1..Len(q) + 1
  BY <1>1, LenProperties
<1> HIDE DEF w
<1> DEFINE from(j) == IF j < i THEN j ELSE j - 1
<1>3. w[i] = e /\ \A j \in DOMAIN w : j # i => from(j) \in 1..Len(q) /\ w[j] = q[from(j)]
  BY <1>0, <1>1, <1>2
<1>4. \A a, b \in DOMAIN w : a # i /\ b # i /\ from(a) = from(b) => a = b
  BY <1>0, <1>2
<1>5. \A x \in 1..Len(q) : \E j \in DOMAIN w : j # i /\ from(j) = x
  <2> SUFFICES ASSUME NEW x \in 1..Len(q) PROVE \E j \in DOMAIN w : j # i /\ from(j) = x
    OBVIOUS
  <2>1. CASE x < i
    BY <1>0, <1>2, <2>1
  <2>2. CASE x >= i
    <3>1. x + 1 \in DOMAIN w /\ x + 1 # i /\ from(x + 1) = x
      BY <1>0, <1>2, <2>2
    <3> QED
      BY <3>1
  <2> QED
    BY <1>0, <2>1, <2>2
<1>6. i \in DOMAIN w
  BY <1>2
<1> HIDE DEF from
<1>7. \A x \in 1..Len(q) : q[x] # e
  BY <1>0 DEF ToSet
<1>8. Uniq(w)
  <2> SUFFICES ASSUME NEW a \in DOMAIN w, NEW b \in DOMAIN w, w[a] = w[b] PROVE a = b
    BY DEF Uniq
  <2>1. CASE a = i \/ b = i
    BY <1>3, <1>7, <2>1
  <2>2. CASE a # i /\ b # i
    BY <1>0, <1>3, <1>4, <2>2 DEF Uniq
  <2> QED
    BY <2>1, <2>2
<1>9. ToSet(w) = ToSet(q) \cup {e}
  <2>1. ASSUME NEW x \in ToSet(w) PROVE x \in ToSet(q) \cup {e}
    <3>1. PICK j \in DOMAIN w : x = w[j]
      BY DEF ToSet
    <3> QED
      BY <1>0, <1>3, <3>1 DEF ToSet
  <2>2. ASSUME NEW x \in ToSet(q) PROVE x \in ToSet(w)
    <3>1. PICK a \in 1..Len(q) : x = q[a]
      BY <1>0 DEF ToSet
    <3>2. PICK j \in DOMAIN w : j # i /\ from(j) = a
      BY <1>5
    <3> QED
      BY <1>3, <3>1, <3>2 DEF ToSet
  <2>3. e \in ToSet(w)
    BY <1>3, <1>6 DEF ToSet
  <2> QED
    BY <2>1, <2>2, <2>3
<1>10. Added(w, q, S, e)
  BY <1>1, <1>8, <1>9 DEF Added
<1> QED
  BY <1>10 DEF w

LEMMA AppendUniq ==
  ASSUME NEW S, NEW q \in Seq(S), Uniq(q), NEW e \in S, e \notin ToSet(q)
  PROVE  Added(Append(q, e), q, S, e)
<1>0. Len(q) \in Nat /\ DOMAIN q = 1..Len(q)
  BY LenProperties
<1> DEFINE w == Append(q, e)
<1>1. /\ w \in Seq(S) /\ Len(w) = Len(q) + 1 /\ w[Len(q) + 1] = e
      /\ \A j \in 1..Len(q) : w[j] = q[j]
  BY AppendProperties
<1>2. DOMAIN w = 1..Len(q) + 1
  BY <1>1, LenProperties
<1> HIDE DEF w
<1>3. \A x \in 1..Len(q) : q[x] # e
  BY <1>0 DEF ToSet
<1>4. Uniq(w)
  <2> SUFFICES ASSUME NEW a \in DOMAIN w, NEW b \in DOMAIN w, w[a] = w[b] PROVE a = b
    BY DEF Uniq
  <2>1. a \in 1..Len(q) \/ a = Len(q) + 1
    BY <1>0, <1>2
  <2>2. b \in 1..Len(q) \/ b = Len(q) + 1
    BY <1>0, <1>2
  <2> QED
    BY <1>0, <1>1, <1>3, <2>1, <2>2 DEF Uniq
<1>5. DOMAIN w = (1..Len(q)) \cup {Len(q) + 1}
  BY <1>0, <1>2
<1>6. ToSet(w) = ToSet(q) \cup {e}
  BY <1>0, <1>1, <1>5 DEF ToSet
<1>7. Added(w, q, S, e)
  BY <1>1, <1>4, <1>6 DEF Added
<1> QED
  BY <1>7 DEF w

LEMMA ConsUniq ==
  ASSUME NEW S, NEW q \in Seq(S), Uniq(q), NEW e \in S, e \notin ToSet(q)
  PROVE  Added(<<e>> \o q, q, S, e)
<1>0. Len(q) \in Nat /\ 1 \in 1..Len(q) + 1
  BY LenProperties
<1>1. SubSeq(q, 1, 1 - 1) = << >> /\ SubSeq(q, 1, Len(q)) = q
  BY <1>0, SubSeqEmpty, SubSeqFull
<1>2. InsertAt(q, 1, e) = (<< >> \o <<e>>) \o q
  BY <1>1 DEF InsertAt
<1>3. << >> \o <<e>> = <<e>>
  BY ConcatEmptySeq
<1> QED
  BY <1>0, <1>2, <1>3, InsertUniq

-----------------------------------------------------------------------------
(* Tick lists                                                                *)

\* The list holds the tasks W, each once; the deltas up to a task add up to the
\* ticks it has to wait.
Summing(list, due, W) ==
  /\ list \in Seq(Tasks \X Nat)
  /\ \A i, j \in 1..Len(list) : list[i][1] = list[j][1] => i = j
  /\ W = {list[i][1] : i \in 1..Len(list)}
  /\ \A i \in 1..Len(list) :
       due[list[i][1]] = list[i][2] + IF i = 1 THEN 0 ELSE due[list[i - 1][1]]
  /\ \A i, j \in 1..Len(list) : i < j => due[list[i][1]] <= due[list[j][1]]
  /\ \A i \in 1..Len(list) : due[list[i][1]] \in Nat

\* There is one tick at least.
Ticking(list, due, W) == Summing(list, due, W) /\ \A t \in W : due[t] > 0

\* The deltas up to an entry add up to the ticks its task has to wait.
LEMMA TotalLemma ==
  ASSUME NEW list, NEW due, NEW W, Summing(list, due, W), NEW i \in 0..Len(list)
  PROVE  Total(list, i) = IF i = 0 THEN 0 ELSE due[list[i][1]]
<1> DEFINE F(f) == [n \in 0..Len(list) |-> IF n = 0 THEN 0 ELSE f[n - 1] + list[n][2]]
           sum == CHOOSE f : f = F(f)
           g == [n \in 0..Len(list) |-> IF n = 0 THEN 0 ELSE due[list[n][1]]]
<1>0. Len(list) \in Nat
  BY LenProperties DEF Summing
<1>1. \A n \in 1..Len(list) : g[n] = g[n - 1] + list[n][2]
  <2> SUFFICES ASSUME NEW n \in 1..Len(list) PROVE g[n] = g[n - 1] + list[n][2]
    OBVIOUS
  <2>1. /\ list[n] \in Tasks \X Nat
        /\ due[list[n][1]] = list[n][2] + IF n = 1 THEN 0 ELSE due[list[n - 1][1]]
        /\ n # 1 => due[list[n - 1][1]] \in Nat
    <3>1. list[n] \in Tasks \X Nat
      BY <1>0, ElementOfSeq DEF Summing
    <3>2. n # 1 => n - 1 \in 1..Len(list)
      BY <1>0
    <3> QED
      BY <3>1, <3>2 DEF Summing
  <2>2. g[n] = due[list[n][1]] /\ g[n - 1] = IF n = 1 THEN 0 ELSE due[list[n - 1][1]]
    BY <1>0
  <2>3. list[n][2] \in Nat
    BY <2>1
  <2> HIDE DEF g
  <2>4. CASE n = 1
    BY <2>1, <2>2, <2>3, <2>4
  <2>5. CASE n # 1
    BY <2>1, <2>2, <2>3, <2>5
  <2> QED
    BY <2>4, <2>5
<1>2. g = [n \in 0..Len(list) |-> g[n]] /\ g[0] = 0
  BY <1>0
<1>3. g[i] = IF i = 0 THEN 0 ELSE due[list[i][1]]
  OBVIOUS
<1> HIDE DEF g
<1>4. g = F(g)
  BY <1>0, <1>1, <1>2
<1>5. sum = F(sum)
  <2> HIDE DEF F
  <2> QED
    BY <1>4
<1>6. Total(list, i) = sum[i]
  BY DEF Total
<1> HIDE DEF sum
<1>7. sum[0] = 0 /\ \A n \in 1..Len(list) : sum[n] = sum[n - 1] + list[n][2]
  BY <1>0, <1>5
<1>8. i \in Nat /\ \A n \in 1..i : n \in 1..Len(list)
  BY <1>0
<1>9. \A n \in 1..i : sum[n - 1] = g[n - 1] => sum[n] = g[n]
  BY <1>1, <1>7, <1>8
<1>10. sum[i] = g[i]
  <2>1. i \in Nat /\ sum[0] = g[0]
    BY <1>2, <1>7, <1>8
  <2> QED
    BY <1>9, <2>1, FoldAgree
<1> QED
  BY <1>3, <1>6, <1>10

\* What a list says of its own tasks is all that counts.
LEMMA TickingSame ==
  ASSUME NEW list, NEW due, NEW W, Ticking(list, due, W),
         NEW other, \A t \in W : other[t] = due[t]
  PROVE  Ticking(list, other, W)
<1>0. Len(list) \in Nat
  BY LenProperties DEF Ticking, Summing
<1>1. \A i \in 1..Len(list) : list[i][1] \in W /\ other[list[i][1]] = due[list[i][1]]
  BY DEF Ticking, Summing
<1>2. \A i \in 1..Len(list) : i # 1 => i - 1 \in 1..Len(list)
  BY <1>0
<1>3. \A i \in 1..Len(list) :
        other[list[i][1]] = list[i][2] + IF i = 1 THEN 0 ELSE other[list[i - 1][1]]
  <2> SUFFICES ASSUME NEW i \in 1..Len(list)
               PROVE  other[list[i][1]] = list[i][2] + IF i = 1 THEN 0 ELSE other[list[i - 1][1]]
    OBVIOUS
  <2>1. CASE i = 1
    BY <1>1, <2>1 DEF Ticking, Summing
  <2>2. CASE i # 1
    BY <1>1, <1>2, <2>2 DEF Ticking, Summing
  <2> QED
    BY <2>1, <2>2
<1> QED
  BY <1>1, <1>3 DEF Ticking, Summing

\* The types of a tick list.
LEMMA TickingTasks ==
  ASSUME NEW list, NEW due, NEW W, Ticking(list, due, W)
  PROVE  /\ W \subseteq Tasks /\ Len(list) \in Nat /\ DOMAIN list = 1..Len(list)
         /\ \A i \in 1..Len(list) : /\ list[i] \in Tasks \X Nat
                                    /\ list[i][1] \in W /\ list[i][1] \in Tasks
                                    /\ list[i][2] \in Nat
                                    /\ list[i] = <<list[i][1], list[i][2]>>
<1>1. list \in Seq(Tasks \X Nat)
  BY DEF Ticking, Summing
<1>2. Len(list) \in Nat /\ DOMAIN list = 1..Len(list)
  BY <1>1, LenProperties
<1>3. \A i \in 1..Len(list) : list[i] \in Tasks \X Nat
  BY <1>1, ElementOfSeq
<1> QED
  BY <1>2, <1>3 DEF Ticking, Summing

\* OS_TickListInsert puts the task where its delay belongs.
LEMMA TickInsert ==
  ASSUME NEW list, NEW due \in [Tasks -> Nat], NEW W, Ticking(list, due, W),
         NEW t \in Tasks, t \notin W, NEW time \in Nat \ {0}
  PROVE  Ticking(TickListInsert(list, t, time), [due EXCEPT ![t] = time], W \cup {t})
<1> DEFINE later == {i \in DOMAIN list : time <= Total(list, i)}
           at    == Min(later \cup {Len(list) + 1})
           delta == time - Total(list, at - 1)
           less  == IF at > Len(list) THEN list
                    ELSE [list EXCEPT ![at][2] = @ - delta]
           w     == InsertAt(less, at, <<t, delta>>)
           d     == [due EXCEPT ![t] = time]
           D(i)  == due[list[i][1]]
<1>0. /\ W \subseteq Tasks /\ Len(list) \in Nat /\ DOMAIN list = 1..Len(list)
      /\ \A i \in 1..Len(list) : /\ list[i] \in Tasks \X Nat
                                 /\ list[i][1] \in W /\ list[i][1] \in Tasks
                                 /\ list[i][2] \in Nat
                                 /\ list[i] = <<list[i][1], list[i][2]>>
  BY TickingTasks
<1>1. TickListInsert(list, t, time) = w
  BY DEF TickListInsert
<1>2. \A i \in 1..Len(list) : Total(list, i) = D(i) /\ D(i) \in Nat
  <2> SUFFICES ASSUME NEW i \in 1..Len(list) PROVE Total(list, i) = D(i) /\ D(i) \in Nat
    OBVIOUS
  <2>1. i \in 0..Len(list) /\ i # 0 /\ Summing(list, due, W)
    BY <1>0 DEF Ticking
  <2> QED
    BY <1>0, <2>1, TotalLemma DEF Ticking
<1>3. Total(list, 0) = 0
  BY <1>0, TotalLemma DEF Ticking
<1>4. /\ at \in 1..Len(list) + 1
      /\ at <= Len(list) => time <= D(at)
      /\ \A i \in 1..Len(list) : i < at => D(i) < time
  <2> DEFINE M == later \cup {Len(list) + 1}
  <2>1. M \in SUBSET Nat /\ M # {} /\ \A i \in M : i \in 1..Len(list) + 1
    BY <1>0
  <2>2. at \in M /\ \A x \in M : at <= x
    <3> HIDE DEF M
    <3>1. Min(M) \in M /\ \A x \in M : Min(M) <= x
      BY <2>1, MinLemma
    <3> QED
      BY <3>1 DEF M
  <2> HIDE DEF at
  <2>3. at \in 1..Len(list) + 1
    BY <2>1, <2>2
  <2>4. at <= Len(list) => time <= D(at)
    BY <1>0, <1>2, <2>2, <2>3
  <2>5. ASSUME NEW i \in 1..Len(list), i < at PROVE D(i) < time
    <3>1. i \notin later
      <4>1. i \notin M
        <5>1. i \in M => at <= i
          BY <2>2
        <5>2. at \in Nat /\ i \in Nat
          BY <1>0, <2>3
        <5> QED
          BY <2>5, <5>1, <5>2
      <4> QED
        BY <4>1
    <3>2. ~(time <= D(i))
      BY <1>0, <1>2, <3>1
    <3> QED
      BY <1>2, <3>2
  <2> QED
    BY <2>3, <2>4, <2>5
<1> HIDE DEF at, later
<1>5. /\ delta \in Nat
      /\ delta = time - IF at = 1 THEN 0 ELSE D(at - 1)
      /\ at # 1 => at - 1 \in 1..Len(list) /\ D(at - 1) < time
  <2>1. CASE at = 1
    BY <1>3, <2>1
  <2>2. CASE at # 1
    <3>1. at - 1 \in 1..Len(list) /\ at - 1 < at
      BY <1>0, <1>4, <2>2
    <3>2. Total(list, at - 1) = D(at - 1) /\ D(at - 1) \in Nat /\ D(at - 1) < time
      BY <1>2, <1>4, <3>1
    <3> QED
      BY <2>2, <3>1, <3>2
  <2> QED
    BY <2>1, <2>2
<1> HIDE DEF delta
<1>6. /\ less \in Seq(Tasks \X Nat) /\ Len(less) = Len(list)
      /\ \A i \in 1..Len(list) : less[i] = IF i = at THEN <<list[i][1], list[i][2] - delta>> ELSE list[i]
  <2>1. CASE at > Len(list)
    <3>1. \A i \in 1..Len(list) : i # at
      BY <1>0, <1>4, <2>1
    <3> QED
      BY <2>1, <3>1 DEF Ticking, Summing
  <2>2. CASE at <= Len(list)
    <3>1. at \in 1..Len(list) /\ ~(at > Len(list))
      BY <1>0, <1>4, <2>2
    <3>2. list[at][2] - delta \in Nat
      <4>1. D(at) = list[at][2] + IF at = 1 THEN 0 ELSE D(at - 1)
        BY <3>1 DEF Ticking, Summing
      <4>2. time <= D(at) /\ list[at][2] \in Nat /\ D(at) \in Nat
        BY <1>0, <1>2, <1>4, <2>2, <3>1
      <4>3. CASE at = 1
        BY <1>5, <4>1, <4>2, <4>3
      <4>4. CASE at # 1
        <5>1. D(at - 1) \in Nat
          BY <1>2, <1>5, <4>4
        <5> HIDE DEF D
        <5> QED
          BY <1>5, <4>1, <4>2, <4>4, <5>1
      <4> QED
        BY <4>3, <4>4
    <3> DEFINE v == <<list[at][1], list[at][2] - delta>>
    <3>3. v \in Tasks \X Nat
      BY <1>0, <3>1, <3>2
    <3>4. [list[at] EXCEPT ![2] = @ - delta] = v
      BY <1>0, <3>1
    <3>5. less = [list EXCEPT ![at] = v]
      BY <3>1, <3>4
    <3> HIDE DEF v, less
    <3>6. list \in Seq(Tasks \X Nat)
      BY DEF Ticking, Summing
    <3>7. less \in Seq(Tasks \X Nat) /\ Len(less) = Len(list)
      BY <3>1, <3>3, <3>5, <3>6, ExceptSeq
    <3>8. \A i \in 1..Len(list) : less[i] = IF i = at THEN v ELSE list[i]
      BY <1>0, <3>5
    <3>9. \A i \in 1..Len(list) : i = at => v = <<list[i][1], list[i][2] - delta>>
      BY DEF v
    <3> QED
      BY <3>7, <3>8, <3>9
  <2>3. at > Len(list) \/ at <= Len(list)
    BY <1>0, <1>4
  <2> QED
    BY <2>1, <2>2, <2>3
<1> HIDE DEF less
<1>7. /\ w \in Seq(Tasks \X Nat) /\ Len(w) = Len(list) + 1
      /\ \A j \in 1..Len(list) + 1 :
           w[j] = IF j < at THEN less[j] ELSE IF j = at THEN <<t, delta>> ELSE less[j - 1]
  <2>1. <<t, delta>> \in Tasks \X Nat
    BY <1>5
  <2>2. less \in Seq(Tasks \X Nat) /\ at \in 1..Len(less) + 1 /\ Len(less) = Len(list)
    BY <1>4, <1>6
  <2> DEFINE e == <<t, delta>>
  <2>3. e \in Tasks \X Nat
    BY <2>1
  <2> DEFINE P == Tasks \X Nat
  <2>4. less \in Seq(P) /\ e \in P
    BY <2>2, <2>3
  <2>100. at \in 1..Len(less) + 1
    BY <2>2
  <2> HIDE DEF e, P
  <2>5. /\ InsertAt(less, at, e) \in Seq(P) /\ Len(InsertAt(less, at, e)) = Len(less) + 1
        /\ \A j \in 1..Len(less) + 1 :
             InsertAt(less, at, e)[j] = IF j < at THEN less[j] ELSE IF j = at THEN e ELSE less[j - 1]
    BY <2>4, <2>100, InsertAtLemma
  <2> QED
    BY <2>2, <2>5 DEF e, P
<1> HIDE DEF w
<1>8. /\ \A j \in 1..Len(list) : j < at => w[j] = list[j]
      /\ w[at] = <<t, delta>>
      /\ at <= Len(list) => w[at + 1] = <<list[at][1], list[at][2] - delta>>
      /\ \A j \in 1..Len(list) : j > at => w[j + 1] = list[j]
  <2>1. ASSUME NEW j \in 1..Len(list), j < at PROVE w[j] = list[j]
    <3>1. j \in 1..Len(list) + 1 /\ j # at
      BY <1>0, <1>4, <2>1
    <3> QED
      BY <1>6, <1>7, <2>1, <3>1
  <2>2. w[at] = <<t, delta>>
    <3>1. ~(at < at)
      BY <1>4
    <3> QED
      BY <1>4, <1>7, <3>1
  <2>3. ASSUME NEW j \in 1..Len(list), j >= at PROVE w[j + 1] = less[j]
    <3>1. j + 1 \in 1..Len(list) + 1 /\ ~(j + 1 < at) /\ j + 1 # at /\ (j + 1) - 1 = j
      BY <1>0, <1>4, <2>3
    <3>2. w[j + 1] = less[(j + 1) - 1]
      BY <1>7, <3>1
    <3> QED
      BY <3>1, <3>2
  <2>4. at <= Len(list) => at \in 1..Len(list) /\ at >= at
    BY <1>0, <1>4
  <2>5. \A j \in 1..Len(list) : j > at => j >= at /\ j # at
    BY <1>0, <1>4
  <2> QED
    BY <1>6, <2>1, <2>2, <2>3, <2>4, <2>5
<1>9. \A j \in 1..Len(list) + 1 :
        \/ j \in 1..Len(list) /\ j < at /\ w[j] = list[j] /\ w[j][1] = list[j][1]
        \/ j = at /\ w[j] = <<t, delta>> /\ w[j][1] = t
        \/ j > at /\ j - 1 \in 1..Len(list) /\ w[j][1] = list[j - 1][1]
  <2> SUFFICES ASSUME NEW j \in 1..Len(list) + 1
               PROVE \/ j \in 1..Len(list) /\ j < at /\ w[j] = list[j] /\ w[j][1] = list[j][1]
                     \/ j = at /\ w[j] = <<t, delta>> /\ w[j][1] = t
                     \/ j > at /\ j - 1 \in 1..Len(list) /\ w[j][1] = list[j - 1][1]
    OBVIOUS
  <2>1. CASE j < at
    <3>1. j \in 1..Len(list)
      BY <1>0, <1>4, <2>1
    <3> QED
      BY <1>8, <2>1, <3>1
  <2>2. CASE j = at
    BY <1>8, <2>2
  <2>3. CASE j = at + 1
    <3>1. at <= Len(list) /\ j - 1 = at /\ at \in 1..Len(list) /\ j > at
      BY <1>0, <1>4, <2>3
    <3> QED
      BY <1>8, <2>3, <3>1
  <2>4. CASE j > at + 1
    <3>1. j - 1 \in 1..Len(list) /\ j - 1 > at /\ (j - 1) + 1 = j /\ j > at
      BY <1>0, <1>4, <2>4
    <3>2. w[(j - 1) + 1] = list[j - 1]
      BY <1>8, <3>1
    <3> QED
      BY <3>1, <3>2
  <2>5. j < at \/ j = at \/ j = at + 1 \/ j > at + 1
    BY <1>0, <1>4
  <2> QED
    BY <2>1, <2>2, <2>3, <2>4, <2>5
<1>10. \A j \in 1..Len(list) : list[j][1] # t
  BY <1>0
<1>11. \A i, j \in 1..Len(w) : w[i][1] = w[j][1] => i = j
  <2> SUFFICES ASSUME NEW i \in 1..Len(list) + 1, NEW j \in 1..Len(list) + 1, w[i][1] = w[j][1]
               PROVE i = j
    BY <1>7
  <2>1. \A a, b \in 1..Len(list) : list[a][1] = list[b][1] => a = b
    BY DEF Ticking, Summing
  <2>2. CASE w[i][1] = t
    BY <1>9, <1>10, <2>2
  <2>3. CASE w[i][1] # t
    <3>0. w[j][1] # t
      BY <2>3
    <3>1. \/ i < at /\ i \in 1..Len(list) /\ w[i][1] = list[i][1]
          \/ i > at /\ i - 1 \in 1..Len(list) /\ w[i][1] = list[i - 1][1]
      BY <1>9, <2>3
    <3>2. \/ j < at /\ j \in 1..Len(list) /\ w[j][1] = list[j][1]
          \/ j > at /\ j - 1 \in 1..Len(list) /\ w[j][1] = list[j - 1][1]
      BY <1>9, <3>0
    <3>3. CASE i < at /\ j < at
      BY <1>0, <1>4, <2>1, <3>1, <3>2, <3>3
    <3>4. CASE i > at /\ j > at
      <4>1. i - 1 = j - 1
        BY <1>0, <1>4, <2>1, <3>1, <3>2, <3>4
      <4> QED
        BY <4>1, <1>0
    <3>5. CASE i < at /\ j > at
      <4>1. i = j - 1
        BY <1>0, <1>4, <2>1, <3>1, <3>2, <3>5
      <4> QED
        BY <4>1, <1>0, <1>4, <3>5
    <3>6. CASE i > at /\ j < at
      <4>1. i - 1 = j
        BY <1>0, <1>4, <2>1, <3>1, <3>2, <3>6
      <4> QED
        BY <4>1, <1>0, <1>4, <3>6
    <3> QED
      BY <3>1, <3>2, <3>3, <3>4, <3>5, <3>6
  <2> QED
    BY <2>2, <2>3
<1>12. W \cup {t} = {w[i][1] : i \in 1..Len(w)}
  <2>1. ASSUME NEW i \in 1..Len(w) PROVE w[i][1] \in W \cup {t}
    BY <1>0, <1>7, <1>9, <2>1
  <2>2. ASSUME NEW x \in W PROVE \E i \in 1..Len(w) : w[i][1] = x
    <3>1. PICK j \in 1..Len(list) : x = list[j][1]
      BY DEF Ticking, Summing
    <3>2. CASE j < at
      <4>1. j \in 1..Len(w) /\ w[j] = list[j]
        BY <1>0, <1>7, <1>8, <3>2
      <4> QED
        BY <3>1, <4>1
    <3>3. CASE j = at
      <4>1. j + 1 \in 1..Len(w) /\ at <= Len(list)
        BY <1>0, <1>7, <3>3
      <4>2. w[j + 1] = <<list[at][1], list[at][2] - delta>>
        BY <1>8, <3>3, <4>1
      <4> QED
        BY <3>1, <3>3, <4>1, <4>2
    <3>4. CASE j > at
      <4>1. j + 1 \in 1..Len(w) /\ w[j + 1] = list[j]
        BY <1>0, <1>7, <1>8, <3>4
      <4> QED
        BY <3>1, <4>1
    <3>5. j < at \/ j = at \/ j > at
      BY <1>0, <1>4
    <3> QED
      BY <3>2, <3>3, <3>4, <3>5
  <2>3. at \in 1..Len(w) /\ w[at][1] = t
    BY <1>4, <1>7, <1>8
  <2> QED
    BY <2>1, <2>2, <2>3
\* The ticks of the tasks before, at and behind the new entry.
<1> DEFINE E(j) == d[w[j][1]]
<1>13. /\ d[t] = time /\ \A j \in 1..Len(list) : d[list[j][1]] = D(j)
  BY <1>0, <1>10
<1>14. /\ \A j \in 1..Len(list) : j < at => E(j) = D(j)
       /\ E(at) = time
       /\ \A j \in 1..Len(list) + 1 : j > at => j - 1 \in 1..Len(list) /\ E(j) = D(j - 1)
  <2>1. ASSUME NEW j \in 1..Len(list), j < at PROVE E(j) = D(j)
    BY <1>8, <1>13, <2>1
  <2>2. E(at) = time
    BY <1>8, <1>13
  <2>3. ASSUME NEW j \in 1..Len(list) + 1, j > at PROVE j - 1 \in 1..Len(list) /\ E(j) = D(j - 1)
    <3>1. ~(j < at) /\ j # at
      BY <1>0, <1>4, <2>3
    <3>2. j - 1 \in 1..Len(list) /\ w[j][1] = list[j - 1][1]
      BY <1>9, <3>1
    <3> QED
      BY <1>13, <3>2
  <2> QED
    BY <2>1, <2>2, <2>3
<1>15. \A j \in 1..Len(list) : D(j) = list[j][2] + IF j = 1 THEN 0 ELSE D(j - 1)
  BY DEF Ticking, Summing
<1>16. \A i, j \in 1..Len(list) : i < j => D(i) <= D(j)
  BY DEF Ticking, Summing
<1>17. \A i \in 1..Len(list) : D(i) \in Nat \ {0}
  <2>1. \A i \in 1..Len(list) : D(i) \in Nat
    BY DEF Ticking, Summing
  <2>2. \A i \in 1..Len(list) : D(i) > 0
    BY <1>0 DEF Ticking
  <2> QED
    BY <2>1, <2>2
<1> HIDE DEF d, D, E
<1>18. ASSUME NEW j \in 1..Len(w)
       PROVE  E(j) = w[j][2] + IF j = 1 THEN 0 ELSE E(j - 1)
  <2>0. j \in 1..Len(list) + 1
    BY <1>7
  <2>1. CASE j < at
    <3>1. j \in 1..Len(list) /\ w[j][2] = list[j][2] /\ (j # 1 => j - 1 \in 1..Len(list) /\ j - 1 < at)
      BY <1>0, <1>4, <1>8, <2>0, <2>1
    <3>2. E(j) = D(j) /\ (j # 1 => E(j - 1) = D(j - 1))
      BY <1>14, <2>1, <3>1
    <3> QED
      BY <1>15, <3>1, <3>2
  <2>2. CASE j = at
    <3>1. w[j][2] = delta /\ E(j) = time
      BY <1>8, <1>14, <2>2
    <3>2. at # 1 => E(at - 1) = D(at - 1) /\ D(at - 1) \in Nat
      <4>1. at - 1 < at
        BY <1>4
      <4> QED
        BY <1>5, <1>14, <1>17, <4>1
    <3>3. CASE at = 1
      BY <1>5, <2>2, <3>1, <3>3
    <3>4. CASE at # 1
      BY <1>5, <2>2, <3>1, <3>2, <3>4
    <3> QED
      BY <3>3, <3>4
  <2>3. CASE j = at + 1
    <3>1. at <= Len(list) /\ at \in 1..Len(list) /\ j - 1 = at /\ j > at /\ j # 1
      BY <1>0, <1>4, <2>0, <2>3
    <3>2. w[j][2] = list[at][2] - delta /\ E(at) = time /\ E(j) = D(at)
      BY <1>8, <1>14, <2>0, <2>3, <3>1
    <3>3. list[at][2] \in Nat /\ D(at) = list[at][2] + IF at = 1 THEN 0 ELSE D(at - 1)
      BY <1>0, <1>15, <3>1
    <3>4. CASE at = 1
      BY <1>5, <3>1, <3>2, <3>3, <3>4
    <3>5. CASE at # 1
      <4>1. D(at - 1) \in Nat
        BY <1>5, <1>17, <3>5
      <4> QED
        BY <1>5, <3>1, <3>2, <3>3, <3>5, <4>1
    <3> QED
      BY <3>4, <3>5
  <2>4. CASE j > at + 1
    <3>1. /\ j > at /\ j - 1 > at /\ j - 1 \in 1..Len(list) + 1 /\ j - 1 \in 1..Len(list)
          /\ j # 1 /\ j - 1 # 1 /\ (j - 1) + 1 = j
      BY <1>0, <1>4, <2>0, <2>4
    <3>2. E(j) = D(j - 1) /\ E(j - 1) = D((j - 1) - 1)
      BY <1>14, <2>0, <3>1
    <3>3. w[j] = list[j - 1]
      BY <1>8, <3>1
    <3>4. D(j - 1) = list[j - 1][2] + D((j - 1) - 1)
      BY <1>15, <3>1
    <3> QED
      BY <3>1, <3>2, <3>3, <3>4
  <2>5. j < at \/ j = at \/ j = at + 1 \/ j > at + 1
    BY <1>0, <1>4, <2>0
  <2> QED
    BY <2>1, <2>2, <2>3, <2>4, <2>5
<1>19. ASSUME NEW i \in 1..Len(w), NEW j \in 1..Len(w), i < j PROVE E(i) <= E(j)
  <2>0. i \in 1..Len(list) + 1 /\ j \in 1..Len(list) + 1
    BY <1>7
  <2>1. CASE j < at
    <3>1. i \in 1..Len(list) /\ j \in 1..Len(list) /\ i < at
      BY <1>0, <1>4, <1>19, <2>0, <2>1
    <3> QED
      BY <1>14, <1>16, <1>19, <2>1, <3>1
  <2>2. CASE j = at
    <3>1. i \in 1..Len(list) /\ i < at
      BY <1>0, <1>4, <1>19, <2>0, <2>2
    <3>2. D(i) < time /\ D(i) \in Nat
      BY <1>4, <1>17, <3>1 DEF D
    <3> QED
      BY <1>14, <2>2, <3>1, <3>2
  <2>3. CASE j > at /\ i < at
    <3>1. i \in 1..Len(list) /\ j - 1 \in 1..Len(list) /\ (i < j - 1 \/ i = j - 1)
      BY <1>0, <1>4, <1>14, <1>19, <2>0, <2>3
    <3>2. E(i) = D(i) /\ E(j) = D(j - 1) /\ D(i) \in Nat
      BY <1>14, <1>17, <2>0, <2>3, <3>1
    <3> QED
      BY <1>16, <3>1, <3>2
  <2>4. CASE j > at /\ i = at
    <3>1. at <= Len(list) /\ at \in 1..Len(list) /\ j - 1 \in 1..Len(list) /\ (at < j - 1 \/ at = j - 1)
      BY <1>0, <1>4, <1>14, <2>0, <2>4
    <3>2. E(i) = time /\ E(j) = D(j - 1) /\ D(at) \in Nat /\ D(j - 1) \in Nat
      BY <1>14, <1>17, <2>0, <2>4, <3>1
    <3>3. time <= D(at)
      BY <1>4, <3>1 DEF D
    <3>4. D(at) <= D(j - 1)
      BY <1>16, <3>1, <3>2
    <3> QED
      BY <3>2, <3>3, <3>4
  <2>5. CASE j > at /\ i > at
    <3>1. i - 1 \in 1..Len(list) /\ j - 1 \in 1..Len(list) /\ i - 1 < j - 1
      BY <1>0, <1>4, <1>14, <1>19, <2>0, <2>5
    <3> QED
      BY <1>14, <1>16, <2>0, <2>5, <3>1
  <2>6. (j < at \/ j = at \/ j > at) /\ (i < at \/ i = at \/ i > at)
    BY <1>0, <1>4, <2>0
  <2> QED
    BY <2>1, <2>2, <2>3, <2>4, <2>5, <2>6
<1>20. ASSUME NEW j \in 1..Len(w) PROVE E(j) \in Nat \ {0}
  <2>0. j \in 1..Len(list) + 1
    BY <1>7
  <2>1. CASE j < at
    <3>1. j \in 1..Len(list)
      BY <1>0, <1>4, <2>0, <2>1
    <3> QED
      BY <1>14, <1>17, <2>1, <3>1
  <2>2. CASE j = at
    BY <1>14, <2>2
  <2>3. CASE j > at
    BY <1>14, <1>17, <2>0, <2>3
  <2> QED
    BY <1>4, <2>0, <2>1, <2>2, <2>3
<1>21. Ticking(w, d, W \cup {t})
  <2>1. \A j \in 1..Len(w) : E(j) \in Nat
    BY <1>20
  <2>2. Summing(w, d, W \cup {t})
    BY <1>7, <1>11, <1>12, <1>18, <1>19, <2>1 DEF Summing, E
  <2>3. \A x \in W \cup {t} : d[x] > 0
    <3>1. \A x \in W \cup {t} : \E j \in 1..Len(w) : w[j][1] = x
      BY <1>12
    <3> QED
      BY <1>20, <3>1 DEF E
  <2> QED
    BY <2>2, <2>3 DEF Ticking
<1> QED
  BY <1>1, <1>21 DEF d

\* OS_TickListRemove gives the ticks it takes out to the next entry.
LEMMA TickRemove ==
  ASSUME NEW list, NEW due, NEW W, Ticking(list, due, W), NEW t \in W
  PROVE  Ticking(TickListRemove(list, t), due, W \ {t})
<1> DEFINE i    == IndexOf(list, t)
           back == IF i = Len(list) THEN list
                   ELSE [list EXCEPT ![i + 1][2] = @ + list[i][2]]
           w    == RemoveAt(back, i)
           P    == Tasks \X Nat
           D(j) == due[list[j][1]]
<1>0. /\ W \subseteq Tasks /\ Len(list) \in Nat /\ DOMAIN list = 1..Len(list)
      /\ \A j \in 1..Len(list) : /\ list[j] \in Tasks \X Nat
                                 /\ list[j][1] \in W /\ list[j][1] \in Tasks
                                 /\ list[j][2] \in Nat
                                 /\ list[j] = <<list[j][1], list[j][2]>>
  BY TickingTasks
<1>1. TickListRemove(list, t) = w
  BY DEF TickListRemove
<1>2. i \in 1..Len(list) /\ list[i][1] = t
  <2>1. \E j \in DOMAIN list : list[j][1] = t
    <3>1. \E j \in 1..Len(list) : t = list[j][1]
      BY DEF Ticking, Summing
    <3> QED
      BY <1>0, <3>1
  <2>2. i \in DOMAIN list /\ list[i][1] = t
    BY <2>1 DEF IndexOf
  <2> QED
    BY <1>0, <2>2
<1> HIDE DEF i
<1>3. /\ back \in Seq(P) /\ Len(back) = Len(list)
      /\ \A j \in 1..Len(list) :
           back[j] = IF j = i + 1 THEN <<list[j][1], list[j][2] + list[i][2]>> ELSE list[j]
  <2>0. list \in Seq(P)
    BY DEF Ticking, Summing
  <2>1. CASE i = Len(list)
    <3>1. \A j \in 1..Len(list) : j # i + 1
      BY <1>0, <2>1
    <3> QED
      BY <2>0, <2>1, <3>1
  <2>2. CASE i # Len(list)
    <3>1. i + 1 \in 1..Len(list)
      <4>1. Len(list) \in Nat
        BY <1>0
      <4>2. i \in 1..Len(list)
        BY <1>2
      <4> QED
        BY <2>2, <4>1, <4>2
    <3> DEFINE v == <<list[i + 1][1], list[i + 1][2] + list[i][2]>>
    <3>2. list[i + 1][2] + list[i][2] \in Nat
      BY <1>0, <1>2, <3>1
    <3>3. v \in P
      BY <1>0, <3>1, <3>2
    <3>4. [list[i + 1] EXCEPT ![2] = @ + list[i][2]] = v
      BY <1>0, <3>1
    <3>5. back = [list EXCEPT ![i + 1] = v]
      BY <2>2, <3>4
    <3> HIDE DEF v, back, P
    <3>6. back \in Seq(P) /\ Len(back) = Len(list)
      BY <2>0, <3>1, <3>3, <3>5, ExceptSeq
    <3>7. \A j \in 1..Len(list) : back[j] = IF j = i + 1 THEN v ELSE list[j]
      BY <1>0, <3>5
    <3>8. \A j \in 1..Len(list) : j = i + 1 => v = <<list[j][1], list[j][2] + list[i][2]>>
      BY DEF v
    <3> QED
      BY <3>6, <3>7, <3>8
  <2> QED
    BY <2>1, <2>2
<1> HIDE DEF back, P
<1>4. /\ w \in Seq(P) /\ Len(w) = Len(list) - 1
      /\ \A j \in 1..Len(list) - 1 : w[j] = IF j < i THEN back[j] ELSE back[j + 1]
  <2>1. i \in 1..Len(back)
    BY <1>2, <1>3
  <2>2. /\ w \in Seq(P) /\ Len(w) = Len(back) - 1
        /\ \A j \in 1..Len(back) - 1 : w[j] = IF j < i THEN back[j] ELSE back[j + 1]
    BY <1>3, <2>1, RemoveAtLemma
  <2> QED
    BY <1>3, <2>2
<1> HIDE DEF w
<1>5. \A j \in 1..Len(w) :
        \/ j < i /\ j \in 1..Len(list) /\ w[j] = list[j] /\ w[j][1] = list[j][1]
        \/ /\ j = i /\ j + 1 \in 1..Len(list)
           /\ w[j] = <<list[j + 1][1], list[j + 1][2] + list[i][2]>> /\ w[j][1] = list[j + 1][1]
        \/ j > i /\ j + 1 \in 1..Len(list) /\ w[j] = list[j + 1] /\ w[j][1] = list[j + 1][1]
  <2> SUFFICES ASSUME NEW j \in 1..Len(w)
        PROVE \/ j < i /\ j \in 1..Len(list) /\ w[j] = list[j] /\ w[j][1] = list[j][1]
              \/ /\ j = i /\ j + 1 \in 1..Len(list)
                 /\ w[j] = <<list[j + 1][1], list[j + 1][2] + list[i][2]>> /\ w[j][1] = list[j + 1][1]
              \/ j > i /\ j + 1 \in 1..Len(list) /\ w[j] = list[j + 1] /\ w[j][1] = list[j + 1][1]
    OBVIOUS
  <2>1. CASE j < i
    <3>1. j \in 1..Len(list) - 1 /\ j \in 1..Len(list) /\ j # i + 1
      BY <1>0, <1>2, <1>4, <2>1
    <3> QED
      BY <1>3, <1>4, <2>1, <3>1
  <2>2. CASE j = i
    <3>1. j \in 1..Len(list) - 1 /\ j + 1 \in 1..Len(list) /\ ~(j < i)
      BY <1>0, <1>2, <1>4, <2>2
    <3>2. w[j] = back[j + 1]
      BY <1>4, <3>1
    <3>3. back[j + 1] = <<list[j + 1][1], list[j + 1][2] + list[i][2]>>
      BY <1>3, <2>2, <3>1
    <3> QED
      BY <2>2, <3>1, <3>2, <3>3
  <2>3. CASE j > i
    <3>1. j \in 1..Len(list) - 1 /\ j + 1 \in 1..Len(list) /\ ~(j < i) /\ j + 1 # i + 1
      BY <1>0, <1>2, <1>4, <2>3
    <3>2. w[j] = back[j + 1] /\ back[j + 1] = list[j + 1]
      BY <1>3, <1>4, <3>1
    <3> QED
      BY <2>3, <3>1, <3>2
  <2>4. j < i \/ j = i \/ j > i
    BY <1>0, <1>2, <1>4
  <2> QED
    BY <2>1, <2>2, <2>3, <2>4
<1> DEFINE from(j) == IF j < i THEN j ELSE j + 1
<1>6. \A j \in 1..Len(w) : from(j) \in 1..Len(list) /\ from(j) # i /\ w[j][1] = list[from(j)][1]
  <2> SUFFICES ASSUME NEW j \in 1..Len(w)
               PROVE from(j) \in 1..Len(list) /\ from(j) # i /\ w[j][1] = list[from(j)][1]
    OBVIOUS
  <2>1. j \in Nat /\ i \in Nat
    BY <1>0, <1>2, <1>4
  <2>2. CASE j < i
    <3>1. from(j) = j
      BY <2>2
    <3> QED
      BY <1>5, <2>1, <2>2, <3>1
  <2>3. CASE ~(j < i)
    <3>1. from(j) = j + 1 /\ j + 1 # i
      BY <2>1, <2>3
    <3> QED
      BY <1>5, <2>1, <2>3, <3>1
  <2> QED
    BY <2>2, <2>3
<1>7. \A a, b \in 1..Len(w) : /\ a < b => from(a) < from(b)
                              /\ from(a) = from(b) => a = b
  BY <1>0, <1>2, <1>4
<1>8. \A x \in 1..Len(list) : x # i => \E j \in 1..Len(w) : from(j) = x
  <2> SUFFICES ASSUME NEW x \in 1..Len(list), x # i PROVE \E j \in 1..Len(w) : from(j) = x
    OBVIOUS
  <2>1. CASE x < i
    <3>1. x \in 1..Len(w) /\ from(x) = x
      BY <1>0, <1>2, <1>4, <2>1
    <3> QED
      BY <3>1
  <2>2. CASE x > i
    <3>1. x - 1 \in 1..Len(w) /\ from(x - 1) = x
      BY <1>0, <1>2, <1>4, <2>2
    <3> QED
      BY <3>1
  <2> QED
    BY <1>0, <1>2, <2>1, <2>2
<1> HIDE DEF from
<1>9. /\ \A a, b \in 1..Len(list) : list[a][1] = list[b][1] => a = b
      /\ \A j \in 1..Len(list) : D(j) = list[j][2] + IF j = 1 THEN 0 ELSE D(j - 1)
      /\ \A a, b \in 1..Len(list) : a < b => D(a) <= D(b)
      /\ \A j \in 1..Len(list) : D(j) \in Nat
  BY DEF Ticking, Summing
<1>10. \A a, b \in 1..Len(w) : w[a][1] = w[b][1] => a = b
  <2> SUFFICES ASSUME NEW a \in 1..Len(w), NEW b \in 1..Len(w), w[a][1] = w[b][1] PROVE a = b
    OBVIOUS
  <2>1. /\ from(a) \in 1..Len(list) /\ w[a][1] = list[from(a)][1]
        /\ from(b) \in 1..Len(list) /\ w[b][1] = list[from(b)][1]
    BY <1>6
  <2>2. from(a) = from(b)
    BY <1>9, <2>1
  <2> QED
    BY <1>7, <2>2
<1>11. W \ {t} = {w[j][1] : j \in 1..Len(w)}
  <2>1. ASSUME NEW j \in 1..Len(w) PROVE w[j][1] \in W \ {t}
    BY <1>0, <1>2, <1>6, <1>9
  <2>2. ASSUME NEW x \in W, x # t PROVE \E j \in 1..Len(w) : w[j][1] = x
    <3>1. PICK a \in 1..Len(list) : x = list[a][1]
      BY DEF Ticking, Summing
    <3>2. PICK j \in 1..Len(w) : from(j) = a
      BY <1>2, <1>8, <2>2, <3>1
    <3> QED
      BY <1>6, <3>1, <3>2
  <2> QED
    BY <2>1, <2>2
<1>12. \A a, b \in 1..Len(w) : a < b => due[w[a][1]] <= due[w[b][1]]
  <2> SUFFICES ASSUME NEW a \in 1..Len(w), NEW b \in 1..Len(w), a < b
               PROVE due[w[a][1]] <= due[w[b][1]]
    OBVIOUS
  <2>1. /\ from(a) \in 1..Len(list) /\ w[a][1] = list[from(a)][1]
        /\ from(b) \in 1..Len(list) /\ w[b][1] = list[from(b)][1]
    BY <1>6
  <2>2. D(from(a)) <= D(from(b))
    BY <1>7, <1>9, <2>1
  <2> QED
    BY <2>1, <2>2
<1>13. \A j \in 1..Len(w) : due[w[j][1]] \in Nat
  BY <1>6, <1>9
<1> HIDE DEF D
<1>14. ASSUME NEW j \in 1..Len(w)
       PROVE  due[w[j][1]] = w[j][2] + IF j = 1 THEN 0 ELSE due[w[j - 1][1]]
  <2>0. j \in Nat /\ i \in Nat /\ j >= 1 /\ i >= 1
    BY <1>0, <1>2, <1>4
  <2>1. CASE j < i
    <3>1. j \in 1..Len(list) /\ w[j] = list[j]
      BY <1>5, <2>0, <2>1
    <3>2. j # 1 => j - 1 \in 1..Len(w) /\ j - 1 < i
      BY <1>4, <2>0, <2>1
    <3>3. j # 1 => w[j - 1][1] = list[j - 1][1]
      BY <1>5, <2>0, <3>2
    <3> QED
      BY <1>9, <3>1, <3>3 DEF D
  <2>2. CASE j = i
    <3>1. /\ j + 1 \in 1..Len(list) /\ w[j][2] = list[j + 1][2] + list[i][2]
          /\ due[w[j][1]] = D(j + 1)
      BY <1>5, <2>0, <2>2 DEF D
    <3>2. j # 1 => j - 1 \in 1..Len(w) /\ j - 1 < i /\ j - 1 \in 1..Len(list)
      BY <1>4, <2>0, <2>2
    <3>3. j # 1 => due[w[j - 1][1]] = D(j - 1)
      BY <1>5, <2>0, <3>2 DEF D
    <3>4. D(j + 1) = list[j + 1][2] + D(j)
      <4>1. j + 1 # 1 /\ (j + 1) - 1 = j
        BY <2>0
      <4> QED
        BY <1>9, <3>1, <4>1
    <3>5. D(j) = list[i][2] + IF j = 1 THEN 0 ELSE D(j - 1)
      BY <1>2, <1>9, <2>2
    <3>6. list[i][2] \in Nat /\ list[j + 1][2] \in Nat
      BY <1>0, <1>2, <3>1
    <3>7. CASE j = 1
      BY <3>1, <3>4, <3>5, <3>6, <3>7
    <3>8. CASE j # 1
      <4>1. D(j - 1) \in Nat
        BY <1>9, <3>2, <3>8
      <4> QED
        BY <3>1, <3>3, <3>4, <3>5, <3>6, <3>8, <4>1
    <3> QED
      BY <3>7, <3>8
  <2>3. CASE j > i
    <3>1. j + 1 \in 1..Len(list) /\ w[j] = list[j + 1]
      BY <1>5, <2>0, <2>3
    <3>2. j # 1 /\ j - 1 \in 1..Len(w) /\ ~(j - 1 < i) /\ (j - 1) + 1 = j /\ (j + 1) - 1 = j /\ j + 1 # 1
      BY <1>4, <2>0, <2>3
    <3>3. w[j - 1][1] = list[j][1]
      BY <1>5, <2>0, <3>2
    <3>4. D(j + 1) = list[j + 1][2] + D(j)
      BY <1>9, <3>1, <3>2
    <3> QED
      BY <3>1, <3>2, <3>3, <3>4 DEF D
  <2> QED
    BY <2>0, <2>1, <2>2, <2>3
<1>15. Summing(w, due, W \ {t})
  BY <1>4, <1>10, <1>11, <1>12, <1>13, <1>14 DEF Summing, P
<1>16. Ticking(w, due, W \ {t})
  BY <1>15 DEF Ticking
<1> QED
  BY <1>1, <1>16

-----------------------------------------------------------------------------

\* A set of the first numbers.
LEMMA Prefix ==
  ASSUME NEW L \in Nat, NEW Z \in SUBSET (1..L),
         \A x \in Z, y \in 1..L : y < x => y \in Z
  PROVE  Cardinality(Z) \in 0..L /\ Z = 1..Cardinality(Z)
<1> DEFINE T == {x \in 1..L + 1 : x \notin Z}
<1>1. T \in SUBSET Nat /\ L + 1 \in T
  OBVIOUS
<1>2. PICK p \in T : \A y \in T : p <= y
  <2> HIDE DEF T
  <2> QED
    BY <1>1, Least
<1>3. p - 1 \in 0..L /\ p \in 1..L + 1 /\ p \notin Z
  BY <1>2
<1>4. Z = 1..p - 1
  <2>1. ASSUME NEW x \in Z PROVE x \in 1..p - 1
    <3>1. x # p
      BY <1>3
    <3>2. ~(p < x)
      <4>1. p < x => p \in 1..L
        BY <1>3
      <4> QED
        BY <1>3, <4>1
    <3> QED
      BY <1>3, <3>1, <3>2
  <2>2. ASSUME NEW x \in 1..p - 1 PROVE x \in Z
    <3>1. x \in 1..L + 1 /\ x < p
      BY <1>3
    <3> QED
      BY <1>2, <1>3, <3>1
  <2> QED
    BY <2>1, <2>2
<1>5. Cardinality(1..p - 1) = p - 1
  <2>1. 1 \in Int /\ p - 1 \in Int
    BY <1>3
  <2>2. Cardinality(1..p - 1) = IF 1 > p - 1 THEN 0 ELSE p - 1 - 1 + 1
    BY <2>1, FS_Interval
  <2> QED
    BY <1>3, <2>2
<1> QED
  BY <1>3, <1>4, <1>5

\* One tick less to wait: late are the tasks that have none left, rest is the list
\* of the others.
Elapsed(late, rest, due, W) ==
  /\ late \in Seq(Tasks) /\ Uniq(late) /\ ToSet(late) \subseteq W
  /\ Ticking(rest, due, W \ ToSet(late))

\* After a tick every task of the list has one tick less to wait.
LEMMA TickedLemma ==
  ASSUME NEW list, NEW due, NEW W, Ticking(list, due, W), NEW less,
         \A t \in W : less[t] = due[t] - 1
  PROVE  /\ Summing(Ticked(list), less, W) /\ Len(Ticked(list)) = Len(list)
         /\ \A i \in 1..Len(list) : Ticked(list)[i][1] = list[i][1]
<1> DEFINE w == Ticked(list)
           P == Tasks \X Nat
<1>0. /\ W \subseteq Tasks /\ Len(list) \in Nat /\ DOMAIN list = 1..Len(list)
      /\ \A j \in 1..Len(list) : /\ list[j] \in Tasks \X Nat
                                 /\ list[j][1] \in W /\ list[j][1] \in Tasks
                                 /\ list[j][2] \in Nat
                                 /\ list[j] = <<list[j][1], list[j][2]>>
  BY TickingTasks
<1>1. list \in Seq(P)
  BY DEF Ticking, Summing
<1>2. \A i \in 1..Len(list) : due[list[i][1]] \in Nat /\ due[list[i][1]] > 0
  BY <1>0 DEF Ticking, Summing
<1>3. CASE list = << >>
  <2>1. w = list
    BY <1>3 DEF Ticked
  <2>2. Len(list) = 0
    BY <1>3
  <2>3. \A i \in 1..Len(list) : FALSE
    BY <2>2
  <2> QED
    BY <2>1, <2>3 DEF Ticking, Summing
<1>4. CASE list # << >>
  <2>1. 1 \in 1..Len(list)
    BY <1>0, <1>1, <1>4, EmptySeq
  <2> DEFINE v == <<list[1][1], list[1][2] - 1>>
  <2>2. due[list[1][1]] = list[1][2]
    <3>1. due[list[1][1]] = list[1][2] + 0
      BY <2>1 DEF Ticking, Summing
    <3> QED
      BY <1>0, <2>1, <3>1
  <2>3. v \in P
    BY <1>0, <1>2, <2>1, <2>2
  <2>4. [list[1] EXCEPT ![2] = @ - 1] = v
    BY <1>0, <2>1
  <2>5. w = [list EXCEPT ![1] = v]
    BY <1>4, <2>4 DEF Ticked
  <2> HIDE DEF v, w, P
  <2>6. w \in Seq(P) /\ Len(w) = Len(list)
    BY <1>1, <2>1, <2>3, <2>5, ExceptSeq
  <2>7. \A j \in 1..Len(list) : w[j] = IF j = 1 THEN v ELSE list[j]
    BY <1>0, <2>5
  <2>8. \A j \in 1..Len(list) : w[j][1] = list[j][1] /\ w[j][2] = IF j = 1 THEN list[1][2] - 1 ELSE list[j][2]
    BY <2>7 DEF v
  <2>9. \A j \in 1..Len(list) : less[w[j][1]] = due[list[j][1]] - 1
    BY <1>0, <2>8
  <2>10. \A j \in 1..Len(w) : less[w[j][1]] = w[j][2] + IF j = 1 THEN 0 ELSE less[w[j - 1][1]]
    <3> SUFFICES ASSUME NEW j \in 1..Len(list)
                 PROVE less[w[j][1]] = w[j][2] + IF j = 1 THEN 0 ELSE less[w[j - 1][1]]
      BY <2>6
    <3>1. due[list[j][1]] = list[j][2] + IF j = 1 THEN 0 ELSE due[list[j - 1][1]]
      BY DEF Ticking, Summing
    <3>2. j # 1 => j - 1 \in 1..Len(list)
      BY <1>0
    <3>3. CASE j = 1
      BY <1>0, <1>2, <2>1, <2>2, <2>8, <2>9, <3>3
    <3>4. CASE j # 1
      <4>1. due[list[j - 1][1]] \in Nat /\ list[j][2] \in Nat
        BY <1>0, <1>2, <3>2, <3>4
      <4>2. less[w[j - 1][1]] = due[list[j - 1][1]] - 1 /\ less[w[j][1]] = due[list[j][1]] - 1
        BY <2>9, <3>2, <3>4
      <4>3. w[j][2] = list[j][2]
        BY <2>8, <3>4
      <4> QED
        BY <3>1, <3>4, <4>1, <4>2, <4>3
    <3> QED
      BY <3>3, <3>4
  <2>100. /\ \A a, b \in 1..Len(list) : list[a][1] = list[b][1] => a = b
          /\ W = {list[j][1] : j \in 1..Len(list)}
    BY DEF Ticking, Summing
  <2>11. \A a, b \in 1..Len(w) : w[a][1] = w[b][1] => a = b
    BY <2>6, <2>8, <2>100
  <2>12. W = {w[j][1] : j \in 1..Len(w)}
    <3>1. \A j \in 1..Len(list) : w[j][1] = list[j][1]
      BY <2>8
    <3>2. {list[j][1] : j \in 1..Len(list)} = {w[j][1] : j \in 1..Len(list)}
      BY <3>1
    <3> QED
      BY <2>6, <2>100, <3>2
  <2>13. \A a, b \in 1..Len(w) : a < b => less[w[a][1]] <= less[w[b][1]]
    <3> SUFFICES ASSUME NEW a \in 1..Len(list), NEW b \in 1..Len(list), a < b
                 PROVE less[w[a][1]] <= less[w[b][1]]
      BY <2>6
    <3>1. due[list[a][1]] <= due[list[b][1]]
      BY DEF Ticking, Summing
    <3> QED
      BY <1>2, <2>9, <3>1
  <2>14. \A j \in 1..Len(w) : less[w[j][1]] \in Nat
    BY <1>2, <2>6, <2>9
  <2>15. Summing(w, less, W)
    BY <2>6, <2>10, <2>11, <2>12, <2>13, <2>14 DEF Summing, P
  <2> QED
    BY <2>6, <2>8, <2>15 DEF w
<1> QED
  BY <1>3, <1>4

\* The expired tasks are those with nothing left to wait for.
LEMMA TickDown ==
  ASSUME NEW list, NEW due, NEW W, Ticking(list, due, W), NEW less,
         \A t \in W : less[t] = due[t] - 1
  PROVE  Elapsed(Expired(Ticked(list)),
                 SubSeq(Ticked(list), Len(Expired(Ticked(list))) + 1, Len(list)), less, W)
<1> DEFINE w == Ticked(list)
           Z == {i \in DOMAIN w : Total(w, i) = 0}
           n == Cardinality(Z)
           late == Expired(w)
           rest == SubSeq(w, n + 1, Len(list))
           P == Tasks \X Nat
<1>0. /\ W \subseteq Tasks /\ Len(list) \in Nat /\ DOMAIN list = 1..Len(list)
      /\ \A j \in 1..Len(list) : /\ list[j] \in Tasks \X Nat
                                 /\ list[j][1] \in W /\ list[j][1] \in Tasks
                                 /\ list[j][2] \in Nat
                                 /\ list[j] = <<list[j][1], list[j][2]>>
  BY TickingTasks
<1>1. /\ Summing(w, less, W) /\ Len(w) = Len(list)
      /\ \A i \in 1..Len(list) : w[i][1] = list[i][1]
  BY TickedLemma
<1> HIDE DEF w
<1>2. w \in Seq(P) /\ DOMAIN w = 1..Len(list)
  BY <1>1, LenProperties DEF Summing
<1>3. \A i \in 1..Len(list) : Total(w, i) = less[w[i][1]] /\ less[w[i][1]] \in Nat
  <2> SUFFICES ASSUME NEW i \in 1..Len(list)
               PROVE Total(w, i) = less[w[i][1]] /\ less[w[i][1]] \in Nat
    OBVIOUS
  <2>1. i \in 0..Len(w) /\ i # 0 /\ i \in 1..Len(w)
    BY <1>0, <1>1
  <2>2. Total(w, i) = less[w[i][1]]
    BY <1>1, <2>1, TotalLemma
  <2>3. less[w[i][1]] \in Nat
    BY <1>1, <2>1 DEF Summing
  <2> QED
    BY <2>2, <2>3
<1>4. Z \in SUBSET (1..Len(list)) /\ \A x \in Z, y \in 1..Len(list) : y < x => y \in Z
  <2>1. Z \in SUBSET (1..Len(list))
    BY <1>2
  <2>2. ASSUME NEW x \in Z, NEW y \in 1..Len(list), y < x PROVE y \in Z
    <3>1. x \in 1..Len(list) /\ less[w[x][1]] = 0
      BY <1>2, <1>3
    <3>2. less[w[y][1]] <= less[w[x][1]]
      BY <1>1, <2>2, <3>1 DEF Summing
    <3>3. less[w[y][1]] = 0
      BY <1>3, <3>1, <3>2
    <3> QED
      BY <1>2, <1>3, <3>3
  <2> QED
    BY <2>1, <2>2
<1>5. n \in 0..Len(list) /\ Z = 1..n
  <2> HIDE DEF Z
  <2> QED
    BY <1>0, <1>4, Prefix
<1>6. \A i \in 1..Len(list) : i <= n <=> less[w[i][1]] = 0
  <2>1. \A i \in 1..Len(list) : i \in Z <=> less[w[i][1]] = 0
    BY <1>2, <1>3
  <2> QED
    BY <1>5, <2>1
<1>7. late = [i \in 1..n |-> w[i][1]]
  BY DEF Expired
<1> HIDE DEF n, Z, late
<1>8. /\ \A i \in 1..n : i \in 1..Len(list) /\ late[i] = list[i][1] /\ late[i] \in W /\ late[i] \in Tasks
      /\ DOMAIN late = 1..n
  <2>1. \A i \in 1..n : i \in 1..Len(list)
    BY <1>0, <1>5
  <2> QED
    BY <1>0, <1>1, <1>7, <2>1
<1>9. late \in Seq(Tasks) /\ Len(late) = n
  <2>1. late \in [1..n -> Tasks] /\ n \in Nat
    BY <1>5, <1>7, <1>8
  <2>2. late \in Seq(Tasks)
    BY <2>1, IsASeq, <1>7, <1>8
  <2>3. Len(late) \in Nat /\ DOMAIN late = 1..Len(late)
    BY <2>2, LenProperties
  <2> QED
    BY <1>8, <2>1, <2>2, <2>3
<1>10. Uniq(late)
  BY <1>8 DEF Uniq, Ticking, Summing
<1>11. ToSet(late) \subseteq W
  BY <1>8 DEF ToSet
<1>12. /\ rest \in Seq(P) /\ Len(rest) = Len(list) - n
       /\ \A j \in 1..Len(list) - n : rest[j] = w[n + j]
  <2>0. Len(w) = Len(list) /\ n + 1 \in 1..Len(w) + 1 /\ Len(list) \in 0..Len(w)
    BY <1>0, <1>1, <1>5
  <2>1. /\ rest \in Seq(P)
        /\ Len(rest) = IF n + 1 <= Len(list) THEN Len(list) - (n + 1) + 1 ELSE 0
        /\ \A j \in 1..Len(list) - (n + 1) + 1 : rest[j] = w[(n + 1) + j - 1]
    <3> HIDE DEF P
    <3> QED
      BY <1>2, <2>0, SubSeqProperties
  <2>2. Len(list) \in Nat /\ n \in 0..Len(list)
    BY <1>0, <1>5
  <2> HIDE DEF rest, P
  <2>3. /\ Len(list) - (n + 1) + 1 = Len(list) - n
        /\ n + 1 <= Len(list) \/ Len(list) - n = 0
        /\ \A j \in 1..Len(list) - n : (n + 1) + j - 1 = n + j
    BY <2>2
  <2> QED
    BY <2>1, <2>2, <2>3
<1> HIDE DEF rest
<1> DEFINE m == Len(list) - n
<1>13. m \in Nat /\ \A j \in 1..m : n + j \in 1..Len(list) /\ n + j > n
  BY <1>0, <1>5
<1>14. \A a, b \in 1..m : rest[a][1] = rest[b][1] => a = b
  <2> SUFFICES ASSUME NEW a \in 1..m, NEW b \in 1..m, rest[a][1] = rest[b][1] PROVE a = b
    OBVIOUS
  <2>1. w[n + a][1] = w[n + b][1]
    BY <1>12
  <2>2. n + a = n + b
    BY <1>1, <1>13, <2>1 DEF Summing
  <2> QED
    BY <1>5, <2>2
<1>15. W \ ToSet(late) = {rest[j][1] : j \in 1..m}
  <2>1. ASSUME NEW j \in 1..m PROVE rest[j][1] \in W \ ToSet(late)
    <3>1. rest[j][1] = list[n + j][1] /\ n + j \in 1..Len(list)
      <4>1. n + j \in 1..Len(list)
        BY <1>13
      <4>2. rest[j] = w[n + j]
        BY <1>12
      <4>3. w[n + j][1] = list[n + j][1]
        BY <1>1, <4>1
      <4> QED
        BY <4>1, <4>2, <4>3
    <3>2. ASSUME NEW i \in 1..n PROVE late[i] # rest[j][1]
      <4>1. i \in 1..Len(list) /\ late[i] = list[i][1] /\ i # n + j
        BY <1>5, <1>8, <1>13
      <4> QED
        BY <3>1, <4>1 DEF Ticking, Summing
    <3> QED
      BY <1>0, <1>8, <3>1, <3>2 DEF ToSet
  <2>2. ASSUME NEW x \in W, x \notin ToSet(late) PROVE \E j \in 1..m : rest[j][1] = x
    <3>1. PICK i \in 1..Len(list) : x = list[i][1]
      BY DEF Ticking, Summing
    <3>2. i > n
      <4>1. i <= n => i \in 1..n
        BY <1>5
      <4> QED
        BY <1>5, <1>8, <2>2, <3>1, <4>1 DEF ToSet
    <3>3. i - n \in 1..m /\ n + (i - n) = i
      BY <1>0, <1>5, <3>2
    <3> QED
      BY <1>1, <1>12, <3>1, <3>3
  <2> QED
    BY <2>1, <2>2
<1>16. \A j \in 1..m : less[rest[j][1]] \in Nat /\ less[rest[j][1]] > 0
  <2> SUFFICES ASSUME NEW j \in 1..m PROVE less[rest[j][1]] \in Nat /\ less[rest[j][1]] > 0
    OBVIOUS
  <2>1. rest[j] = w[n + j] /\ n + j \in 1..Len(list) /\ ~(n + j <= n)
    BY <1>5, <1>12, <1>13
  <2> QED
    BY <1>3, <1>6, <2>1
<1>17. ASSUME NEW j \in 1..m
       PROVE  less[rest[j][1]] = rest[j][2] + IF j = 1 THEN 0 ELSE less[rest[j - 1][1]]
  <2>1. rest[j] = w[n + j] /\ n + j \in 1..Len(w)
    BY <1>1, <1>12, <1>13
  <2>2. less[w[n + j][1]] = w[n + j][2] + IF n + j = 1 THEN 0 ELSE less[w[(n + j) - 1][1]]
    BY <1>1, <2>1 DEF Summing
  <2>3. CASE j = 1
    <3>1. CASE n = 0
      BY <2>1, <2>2, <2>3, <3>1
    <3>2. CASE n # 0
      <4>1. n + j # 1 /\ (n + j) - 1 = n /\ n \in 1..Len(list) /\ n <= n
        BY <1>0, <1>5, <2>3, <3>2
      <4>2. less[w[n][1]] = 0
        BY <1>6, <4>1
      <4> QED
        BY <2>1, <2>2, <2>3, <4>1, <4>2
    <3> QED
      BY <3>1, <3>2
  <2>4. CASE j # 1
    <3>1. n + j # 1 /\ (n + j) - 1 = n + (j - 1) /\ j - 1 \in 1..m
      BY <1>5, <1>13, <2>4
    <3>2. rest[j - 1] = w[n + (j - 1)]
      BY <1>12, <3>1
    <3> QED
      BY <2>1, <2>2, <2>4, <3>1, <3>2
  <2> QED
    BY <2>3, <2>4
<1>18. \A a, b \in 1..m : a < b => less[rest[a][1]] <= less[rest[b][1]]
  <2> SUFFICES ASSUME NEW a \in 1..m, NEW b \in 1..m, a < b
               PROVE less[rest[a][1]] <= less[rest[b][1]]
    OBVIOUS
  <2>1. rest[a] = w[n + a] /\ rest[b] = w[n + b]
    BY <1>12
  <2>2. n + a < n + b /\ n + a \in 1..Len(w) /\ n + b \in 1..Len(w)
    <3>1. n \in Nat /\ m \in Nat
      BY <1>5, <1>13
    <3>2. n + a \in 1..Len(list) /\ n + b \in 1..Len(list)
      BY <1>13
    <3> HIDE DEF m
    <3>3. n + a < n + b
      BY <3>1
    <3> QED
      BY <1>1, <3>2, <3>3
  <2> QED
    BY <1>1, <2>1, <2>2 DEF Summing
<1>19. Len(rest) = m
  BY <1>12
<1>20. Summing(rest, less, W \ ToSet(late))
  <2> HIDE DEF m
  <2> QED
    BY <1>12, <1>14, <1>15, <1>16, <1>17, <1>18, <1>19 DEF Summing, P
<1>21. \A t \in W \ ToSet(late) : less[t] > 0
  BY <1>15, <1>16
<1>22. Elapsed(late, rest, less, W)
  BY <1>9, <1>10, <1>11, <1>20, <1>21 DEF Elapsed, Ticking
<1> QED
  BY <1>9, <1>22 DEF rest, late, w

-----------------------------------------------------------------------------
(* Ready lists and pend lists                                                *)

\* The ready lists hold the tasks of S, each once, in the list of its priority.
Readied(rdy, S, prio) ==
  \A p \in Prios :
    /\ rdy[p] \in Seq(Tasks) /\ Uniq(rdy[p])
    /\ \A t \in Tasks : t \in ToSet(rdy[p]) <=> t \in S /\ p = prio[t]

\* A task is put into, or taken out of, the ready list of its priority.
LEMMA ReadyGain ==
  ASSUME NEW rdy \in [Prios -> Seq(Tasks)], NEW S, NEW prio \in [Tasks -> Prios],
         Readied(rdy, S, prio), NEW t \in Tasks, t \notin S, NEW w,
         Added(w, rdy[prio[t]], Tasks, t)
  PROVE  /\ Readied([rdy EXCEPT ![prio[t]] = w], S \cup {t}, prio)
         /\ [rdy EXCEPT ![prio[t]] = w] \in [Prios -> Seq(Tasks)]
<1> DEFINE p0 == prio[t]
           r  == [rdy EXCEPT ![p0] = w]
<1>1. p0 \in Prios /\ w \in Seq(Tasks) /\ Uniq(w) /\ ToSet(w) = ToSet(rdy[p0]) \cup {t}
  BY DEF Added
<1>2. r \in [Prios -> Seq(Tasks)] /\ \A p \in Prios : r[p] = IF p = p0 THEN w ELSE rdy[p]
  BY <1>1
<1> HIDE DEF r
<1>3. ASSUME NEW p \in Prios
      PROVE  /\ r[p] \in Seq(Tasks) /\ Uniq(r[p])
             /\ \A u \in Tasks : u \in ToSet(r[p]) <=> u \in S \cup {t} /\ p = prio[u]
  <2>1. /\ Uniq(rdy[p]) /\ rdy[p] \in Seq(Tasks)
        /\ \A u \in Tasks : u \in ToSet(rdy[p]) <=> u \in S /\ p = prio[u]
    BY DEF Readied
  <2>2. CASE p = p0
    <3>1. r[p] = w /\ ToSet(w) = ToSet(rdy[p]) \cup {t}
      BY <1>1, <1>2, <2>2
    <3> QED
      BY <1>1, <2>1, <2>2, <3>1
  <2>3. CASE p # p0
    <3>1. r[p] = rdy[p]
      BY <1>2, <2>3
    <3> QED
      BY <2>1, <2>3, <3>1
  <2> QED
    BY <2>2, <2>3
<1>4. Readied(r, S \cup {t}, prio)
  BY <1>3 DEF Readied
<1> QED
  BY <1>2, <1>4 DEF r

LEMMA ReadyLose ==
  ASSUME NEW rdy \in [Prios -> Seq(Tasks)], NEW S, NEW prio \in [Tasks -> Prios],
         Readied(rdy, S, prio), NEW t \in Tasks
  PROVE  /\ Readied([rdy EXCEPT ![prio[t]] = Without(rdy[prio[t]], t)], S \ {t}, prio)
         /\ [rdy EXCEPT ![prio[t]] = Without(rdy[prio[t]], t)] \in [Prios -> Seq(Tasks)]
<1> DEFINE p0 == prio[t]
           w  == Without(rdy[p0], t)
           r  == [rdy EXCEPT ![p0] = w]
<1>1. p0 \in Prios /\ w \in Seq(Tasks) /\ Uniq(w) /\ ToSet(w) = ToSet(rdy[p0]) \ {t}
  <2>1. rdy[p0] \in Seq(Tasks) /\ Uniq(rdy[p0])
    BY DEF Readied
  <2> QED
    BY <2>1, WithoutLemma DEF Dropped
<1> HIDE DEF w
<1>2. r \in [Prios -> Seq(Tasks)] /\ \A p \in Prios : r[p] = IF p = p0 THEN w ELSE rdy[p]
  BY <1>1
<1> HIDE DEF r
<1>3. ASSUME NEW p \in Prios
      PROVE  /\ r[p] \in Seq(Tasks) /\ Uniq(r[p])
             /\ \A u \in Tasks : u \in ToSet(r[p]) <=> u \in S \ {t} /\ p = prio[u]
  <2>1. CASE p = p0
    BY <1>1, <1>2, <2>1 DEF Readied
  <2>2. CASE p # p0
    <3>1. t \notin ToSet(rdy[p])
      BY <2>2 DEF Readied
    <3> QED
      BY <1>2, <2>2, <3>1 DEF Readied
  <2> QED
    BY <2>1, <2>2
<1>4. Readied(r, S \ {t}, prio)
  BY <1>3 DEF Readied
<1> QED
  BY <1>2, <1>4 DEF r, w

\* Only the priorities of the ready tasks matter.
LEMMA ReadySame ==
  ASSUME NEW rdy, NEW S, NEW prio, Readied(rdy, S, prio),
         NEW other, \A t \in S : other[t] = prio[t]
  PROVE  Readied(rdy, S, other)
BY DEF Readied

\* The pend lists hold the tasks that wait, each once, in the list of the
\* object it waits for, and in the order of their priorities.
Pended(pend, pendOn, prio) ==
  \A o \in Objects :
    /\ pend[o] \in Seq(Tasks) /\ Uniq(pend[o])
    /\ \A t \in Tasks : t \in ToSet(pend[o]) <=> pendOn[t] = o
    /\ \A i, j \in DOMAIN pend[o] : i < j => prio[pend[o][i]] <= prio[pend[o][j]]

\* Priorities of tasks that wait for no object do not matter here.
LEMMA PendSame ==
  ASSUME NEW pend, NEW pendOn, NEW prio, Pended(pend, pendOn, prio),
         NEW other, \A t \in Tasks : pendOn[t] \in Objects => other[t] = prio[t]
  PROVE  Pended(pend, pendOn, other)
<1> SUFFICES ASSUME NEW o \in Objects, NEW i \in DOMAIN pend[o], NEW j \in DOMAIN pend[o], i < j
             PROVE other[pend[o][i]] <= other[pend[o][j]]
  BY DEF Pended
<1>1. pend[o] \in Seq(Tasks)
  BY DEF Pended
<1>2. \A a \in DOMAIN pend[o] : pend[o][a] \in Tasks /\ pendOn[pend[o][a]] = o
  <2>1. \A a \in DOMAIN pend[o] : pend[o][a] \in ToSet(pend[o])
    BY DEF ToSet
  <2>2. ToSet(pend[o]) \subseteq Tasks
    BY <1>1, SetFacts
  <2> QED
    BY <2>1, <2>2 DEF Pended
<1> QED
  BY <1>2 DEF Pended

\* A task leaves the list it waits in.
Leave(pend, o, t) == [pend EXCEPT ![o] = Without(pend[o], t)]

\* A task leaves the list of its object, which stays sorted.
LEMMA PendLose ==
  ASSUME NEW pend \in [Objects -> Seq(Tasks)], NEW pendOn \in [Tasks -> Objects \cup {Nothing}],
         NEW prio, Pended(pend, pendOn, prio), NEW t \in Tasks, pendOn[t] \in Objects
  PROVE  /\ Pended(Leave(pend, pendOn[t], t), [pendOn EXCEPT ![t] = Nothing], prio)
         /\ Leave(pend, pendOn[t], t) \in [Objects -> Seq(Tasks)]
         /\ \A o \in Objects : pend[o] = << >> => Leave(pend, pendOn[t], t)[o] = << >>
<1> DEFINE o0 == pendOn[t]
           w == Without(pend[o0], t)
           q == [pend EXCEPT ![o0] = w]
           on == [pendOn EXCEPT ![t] = Nothing]
<1>0. Nothing \notin Objects
  BY KernelAssumption DEF Objects
<1>1. pend[o0] \in Seq(Tasks) /\ Uniq(pend[o0])
  BY DEF Pended
<1>2. Dropped(w, pend[o0], Tasks, t)
  BY <1>1, WithoutLemma
<1> HIDE DEF w
<1>3. w \in Seq(Tasks) /\ Uniq(w) /\ ToSet(w) = ToSet(pend[o0]) \ {t}
  BY <1>2 DEF Dropped
<1>4. q \in [Objects -> Seq(Tasks)] /\ \A o \in Objects : q[o] = IF o = o0 THEN w ELSE pend[o]
  BY <1>3
<1>5. \A u \in Tasks : on[u] = IF u = t THEN Nothing ELSE pendOn[u]
  OBVIOUS
<1> HIDE DEF q, on
<1>6. ASSUME NEW o \in Objects
      PROVE  /\ q[o] \in Seq(Tasks) /\ Uniq(q[o])
             /\ \A u \in Tasks : u \in ToSet(q[o]) <=> on[u] = o
             /\ \A i, j \in DOMAIN q[o] : i < j => prio[q[o][i]] <= prio[q[o][j]]
  <2>1. CASE o = o0
    <3>1. q[o] = w
      BY <1>4, <2>1
    <3>2. \A u \in Tasks : u \in ToSet(w) <=> on[u] = o
      BY <1>0, <1>3, <1>5, <2>1 DEF Pended
    <3>3. \A i, j \in DOMAIN w : i < j => prio[w[i]] <= prio[w[j]]
      BY <1>2, <2>1 DEF Dropped, Pended
    <3> QED
      BY <1>3, <3>1, <3>2, <3>3
  <2>2. CASE o # o0
    BY <1>0, <1>4, <1>5, <2>2 DEF Pended
  <2> QED
    BY <2>1, <2>2
<1>7. Pended(q, on, prio)
  BY <1>6 DEF Pended
<1>8. \A o \in Objects : pend[o] = << >> => q[o] = << >>
  <2> SUFFICES ASSUME NEW o \in Objects, pend[o] = << >> PROVE q[o] = << >>
    OBVIOUS
  <2>1. pend[o] \in Seq(Tasks) /\ Len(pend[o]) = 0
    BY SetFacts DEF Pended
  <2>2. t \notin ToSet(pend[o])
    BY <2>1, SetFacts
  <2>3. o # o0
    BY <2>2 DEF Pended
  <2> QED
    BY <1>4, <2>3
<1> QED
  BY <1>4, <1>7, <1>8 DEF q, on, w, Leave

\* A task that waits for nothing joins a list, behind those of its priority.
Place(pend, prio, o, t) ==
  Min({i \in DOMAIN pend[o] : prio[t] < prio[pend[o][i]]} \cup {Len(pend[o]) + 1})
Join(pend, prio, o, t) ==
  [pend EXCEPT ![o] = InsertAt(pend[o], Place(pend, prio, o, t), t)]

\* Where a task belongs: behind all of its priority.
LEMMA PlaceLemma ==
  ASSUME NEW pend, NEW prio \in [Tasks -> Prios], NEW o \in Objects, NEW t \in Tasks,
         pend[o] \in Seq(Tasks)
  PROVE  LET at == Place(pend, prio, o, t)
         IN  /\ at \in 1..Len(pend[o]) + 1
             /\ at <= Len(pend[o]) => prio[t] < prio[pend[o][at]]
             /\ \A i \in 1..Len(pend[o]) : i < at => prio[pend[o][i]] <= prio[t]
<1> DEFINE q == pend[o]
           M == {i \in DOMAIN q : prio[t] < prio[q[i]]} \cup {Len(q) + 1}
           at == Min(M)
<1>1. Len(q) \in Nat /\ DOMAIN q = 1..Len(q) /\ \A i \in 1..Len(q) : q[i] \in Tasks
  BY SetFacts, ElementOfSeq
<1>2. M \in SUBSET Nat /\ M # {}
  BY <1>1
<1>3. at \in M /\ \A x \in M : at <= x
  BY <1>2, MinLemma
<1>4. at = Place(pend, prio, o, t)
  BY DEF Place
<1>5. at \in 1..Len(q) + 1
  BY <1>1, <1>3
<1>6. at <= Len(q) => prio[t] < prio[q[at]]
  <2>1. at = Len(q) + 1 \/ prio[t] < prio[q[at]]
    BY <1>3
  <2> QED
    BY <1>1, <1>5, <2>1
<1>7. ASSUME NEW i \in 1..Len(q), i < at PROVE prio[q[i]] <= prio[t]
  <2>1. ~(at <= i)
    BY <1>1, <1>5, <1>7
  <2>2. i \notin M
    BY <1>3, <2>1
  <2>3. ~(prio[t] < prio[q[i]])
    BY <1>1, <2>2
  <2>4. prio[t] \in Int /\ prio[q[i]] \in Int
    BY <1>1, KernelAssumption DEF Prios
  <2> QED
    BY <2>3, <2>4
<1> QED
  BY <1>4, <1>5, <1>6, <1>7

\* A task joins the list of an object, which stays sorted.
LEMMA PendGain ==
  ASSUME NEW pend \in [Objects -> Seq(Tasks)], NEW pendOn \in [Tasks -> Objects \cup {Nothing}],
         NEW prio \in [Tasks -> Prios], Pended(pend, pendOn, prio),
         NEW t \in Tasks, pendOn[t] = Nothing, NEW o \in Objects
  PROVE  /\ Pended(Join(pend, prio, o, t), [pendOn EXCEPT ![t] = o], prio)
         /\ Join(pend, prio, o, t) \in [Objects -> Seq(Tasks)]
         /\ \A x \in Objects : x # o => Join(pend, prio, o, t)[x] = pend[x]
<1> DEFINE q == pend[o]
           at == Place(pend, prio, o, t)
           w == InsertAt(q, at, t)
           r == [pend EXCEPT ![o] = w]
           on == [pendOn EXCEPT ![t] = o]
<1>0. Nothing \notin Objects
  BY KernelAssumption DEF Objects
<1>1. q \in Seq(Tasks) /\ Uniq(q) /\ t \notin ToSet(q)
  BY <1>0 DEF Pended
<1>2. Len(q) \in Nat /\ DOMAIN q = 1..Len(q) /\ \A i \in 1..Len(q) : q[i] \in Tasks
  BY <1>1, SetFacts, ElementOfSeq
<1>3. /\ at \in 1..Len(q) + 1
      /\ at <= Len(q) => prio[t] < prio[q[at]]
      /\ \A i \in 1..Len(q) : i < at => prio[q[i]] <= prio[t]
  BY <1>1, PlaceLemma
<1> HIDE DEF at
<1>4. w \in Seq(Tasks) /\ Uniq(w) /\ ToSet(w) = ToSet(q) \cup {t}
  BY <1>1, <1>3, InsertUniq DEF Added
<1>5. /\ Len(w) = Len(q) + 1
      /\ \A j \in 1..Len(q) + 1 : w[j] = IF j < at THEN q[j] ELSE IF j = at THEN t ELSE q[j - 1]
  BY <1>1, <1>3, InsertAtLemma
<1> HIDE DEF w
<1>6. DOMAIN w = 1..Len(q) + 1
  BY <1>4, <1>5, SetFacts
<1>7. \A x \in Tasks : prio[x] \in Int
  BY KernelAssumption DEF Prios
<1>8. \A a, b \in 1..Len(q) : a <= b => prio[q[a]] <= prio[q[b]]
  <2> SUFFICES ASSUME NEW a \in 1..Len(q), NEW b \in 1..Len(q), a <= b
               PROVE prio[q[a]] <= prio[q[b]]
    OBVIOUS
  <2>1. CASE a = b
    BY <1>2, <1>7, <2>1
  <2>2. CASE a < b
    BY <1>2, <2>2 DEF Pended
  <2> QED
    BY <1>2, <2>1, <2>2
<1>9. \A a \in 1..Len(q) : at <= a => prio[t] <= prio[q[a]]
  <2> SUFFICES ASSUME NEW a \in 1..Len(q), at <= a PROVE prio[t] <= prio[q[a]]
    OBVIOUS
  <2>1. at \in 1..Len(q) /\ at <= Len(q)
    BY <1>2, <1>3
  <2>2. prio[q[at]] <= prio[q[a]]
    BY <1>8, <2>1
  <2> QED
    BY <1>2, <1>3, <1>7, <2>1, <2>2
<1>10. ASSUME NEW i \in DOMAIN w, NEW j \in DOMAIN w, i < j PROVE prio[w[i]] <= prio[w[j]]
  <2>0. i \in 1..Len(q) + 1 /\ j \in 1..Len(q) + 1 /\ at \in Nat /\ Len(q) \in Nat
    BY <1>2, <1>3, <1>6
  <2>1. CASE j < at
    <3>1. w[i] = q[i] /\ w[j] = q[j] /\ i \in 1..Len(q) /\ j \in 1..Len(q) /\ i <= j
      BY <1>3, <1>5, <1>10, <2>0, <2>1
    <3> QED
      BY <1>8, <3>1
  <2>2. CASE j = at
    <3>1. w[i] = q[i] /\ w[j] = t /\ i \in 1..Len(q) /\ i < at
      BY <1>3, <1>5, <1>10, <2>0, <2>2
    <3> QED
      BY <1>3, <3>1
  <2>3. CASE j > at /\ i < at
    <3>1. w[i] = q[i] /\ w[j] = q[j - 1] /\ i \in 1..Len(q) /\ j - 1 \in 1..Len(q) /\ i <= j - 1
      BY <1>3, <1>5, <1>10, <2>0, <2>3
    <3> QED
      BY <1>8, <3>1
  <2>4. CASE j > at /\ i = at
    <3>1. w[i] = t /\ w[j] = q[j - 1] /\ j - 1 \in 1..Len(q) /\ at <= j - 1
      BY <1>3, <1>5, <1>10, <2>0, <2>4
    <3> QED
      BY <1>9, <3>1
  <2>5. CASE j > at /\ i > at
    <3>1. w[i] = q[i - 1] /\ w[j] = q[j - 1] /\ i - 1 \in 1..Len(q) /\ j - 1 \in 1..Len(q) /\ i - 1 <= j - 1
      BY <1>3, <1>5, <1>10, <2>0, <2>5
    <3> QED
      BY <1>8, <3>1
  <2>6. j < at \/ j = at \/ (j > at /\ i < at) \/ (j > at /\ i = at) \/ (j > at /\ i > at)
    BY <2>0
  <2> QED
    BY <2>1, <2>2, <2>3, <2>4, <2>5, <2>6
<1>11. r \in [Objects -> Seq(Tasks)] /\ \A x \in Objects : r[x] = IF x = o THEN w ELSE pend[x]
  BY <1>4
<1>12. \A u \in Tasks : on[u] = IF u = t THEN o ELSE pendOn[u]
  OBVIOUS
<1> HIDE DEF r, on
<1>13. ASSUME NEW x \in Objects
      PROVE  /\ r[x] \in Seq(Tasks) /\ Uniq(r[x])
             /\ \A u \in Tasks : u \in ToSet(r[x]) <=> on[u] = x
             /\ \A i, j \in DOMAIN r[x] : i < j => prio[r[x][i]] <= prio[r[x][j]]
  <2>1. CASE x = o
    <3>1. r[x] = w
      BY <1>11, <2>1
    <3>2. \A u \in Tasks : u \in ToSet(w) <=> on[u] = x
      BY <1>4, <1>12, <2>1 DEF Pended
    <3> QED
      BY <1>4, <1>10, <3>1, <3>2
  <2>2. CASE x # o
    BY <1>0, <1>11, <1>12, <2>2 DEF Pended
  <2> QED
    BY <2>1, <2>2
<1>14. Pended(r, on, prio)
  BY <1>13 DEF Pended
<1> QED
  BY <1>11, <1>14 DEF r, on, w, at, Join

-----------------------------------------------------------------------------
(* States of the kernel                                                      *)

\* The fields of a state, to say which of them an operation changes.
Fields ==
  {"cur", "prioCur", "rdy", "wait", "suspends", "prio", "base", "pendOn", "status",
   "pend", "dlys", "timeouts", "owner", "nest", "grp", "ctr", "failed", "rare",
   "astray", "held", "due"}
Shape(s) == DOMAIN s = Fields /\ s = [f \in Fields |-> s[f]]

\* From s to s2 at most the fields F change.
Frame(s, s2, F) == Shape(s2) /\ \A f \in Fields : f \notin F => s2[f] = s[f]

\* Two operations change what either changes.
LEMMA FrameTrans ==
  ASSUME NEW s, NEW s1, NEW s2, NEW F, Frame(s, s1, F), Frame(s1, s2, F)
  PROVE  Frame(s, s2, F)
BY DEF Frame

LEMMA FrameWiden ==
  ASSUME NEW s, NEW s1, NEW F, NEW G, Frame(s, s1, F), F \subseteq G
  PROVE  Frame(s, s1, G)
BY DEF Frame

\* The types of the fields while a service runs.
Types(s) ==
  /\ Shape(s)
  /\ s.cur \in Tasks \cup {Idle, Nothing} /\ s.prioCur \in -1..IdlePrio
  /\ s.rdy \in [Prios -> Seq(Tasks)]
  /\ s.wait \in [Tasks -> Waits] /\ s.suspends \in [Tasks -> Nat]
  /\ s.prio \in [Tasks -> Prios] /\ s.base \in [Tasks -> Prios]
  /\ s.pendOn \in [Tasks -> Objects \cup {Nothing}]
  /\ s.status \in [Tasks -> Statuses]
  /\ s.pend \in [Objects -> Seq(Tasks)]
  /\ s.dlys \in Seq(Tasks \X Nat) /\ s.timeouts \in Seq(Tasks \X Nat)
  /\ s.owner \in [Mutexes -> Tasks \cup {Nothing}] /\ s.nest \in [Mutexes -> Nat]
  /\ s.grp \in [Tasks -> Seq(Mutexes)] /\ s.ctr \in [Sems -> 0..MaxCtr]
  /\ s.failed \in BOOLEAN /\ s.rare \in Nat /\ s.astray \in BOOLEAN
  /\ s.held \in [Tasks -> SUBSET Mutexes] /\ s.due \in [Tasks -> Nat]

\* The states of a task that waits for an object.
Pending == {"PEND", "PEND_TIMEOUT"}
Awake(s) == {t \in Tasks : Ready(s, t)}
Delayed(s) == {t \in Tasks : s.wait[t] = "DLY"}
Timed(s) == {t \in Tasks : s.wait[t] = "PEND_TIMEOUT"}

\* Who waits for an object waits; a free mutex and a count have no waiters.
Waiters(s) == \A t \in Tasks : s.pendOn[t] # Nothing => s.wait[t] \in Pending
Owned(s) ==
  \A m \in Mutexes : /\ s.nest[m] = 0 <=> s.owner[m] = Nothing
                     /\ s.nest[m] = 0 => s.pend[m] = << >>
Counts(s) == \A o \in Sems : s.ctr[o] > 0 => s.pend[o] = << >>

\* What holds throughout a service; the tasks of D have left the lists.
Core(s, D) ==
  /\ Types(s) /\ Readied(s.rdy, Awake(s) \ D, s.prio)
  /\ Pended(s.pend, s.pendOn, s.prio)
  /\ Waiters(s) /\ Owned(s) /\ Counts(s)
Ticks(s, D) ==
  /\ Ticking(s.dlys, s.due, Delayed(s) \ D)
  /\ Ticking(s.timeouts, s.due, Timed(s) \ D)

\* Every task but those of D that waits for an object is in its list.
Blocked(s, D) == \A t \in Tasks \ D : s.wait[t] \in Pending => s.pendOn[t] # Nothing

\* Who holds a mutex owns it; the mutexes of a task are those it owns.
Hold(s) ==
  ~s.astray =>
    \A t \in Tasks :
      /\ \A m \in Mutexes : /\ m \in s.held[t] => s.owner[m] = t
                            /\ m \in ToSet(s.grp[t]) <=> s.owner[m] = t
      /\ Uniq(s.grp[t])
      /\ s.wait[t] = "DEL" => s.grp[t] = << >>

-----------------------------------------------------------------------------
(* The operations on the lists, field by field                               *)

\* What the list operations write, and that they write nothing else.
LEMMA InsertTailFields ==
  ASSUME NEW s, Shape(s), NEW t
  PROVE  /\ Frame(s, RdyListInsertTail(s, t), {"rdy"})
         /\ RdyListInsertTail(s, t).rdy = [s.rdy EXCEPT ![s.prio[t]] = Append(s.rdy[s.prio[t]], t)]
BY DEF Shape, Frame, RdyListInsertTail, Fields

LEMMA InsertHeadFields ==
  ASSUME NEW s, Shape(s), NEW t
  PROVE  /\ Frame(s, RdyListInsertHead(s, t), {"rdy"})
         /\ RdyListInsertHead(s, t).rdy = [s.rdy EXCEPT ![s.prio[t]] = <<t>> \o s.rdy[s.prio[t]]]
BY DEF Shape, Frame, RdyListInsertHead, Fields

LEMMA RemoveFields ==
  ASSUME NEW s, Shape(s), NEW t
  PROVE  /\ Frame(s, RdyListRemove(s, t), {"rdy"})
         /\ RdyListRemove(s, t).rdy = [s.rdy EXCEPT ![s.prio[t]] = Without(s.rdy[s.prio[t]], t)]
BY DEF Shape, Frame, RdyListRemove, Fields

LEMMA PendRemoveFields ==
  ASSUME NEW s, Shape(s), NEW t
  PROVE  /\ Frame(s, PendListRemove(s, t), {"pend", "pendOn"})
         /\ PendListRemove(s, t).pend = Leave(s.pend, s.pendOn[t], t)
         /\ PendListRemove(s, t).pendOn = [s.pendOn EXCEPT ![t] = Nothing]
BY DEF Shape, Frame, PendListRemove, Fields, Leave

LEMMA PendInsertFields ==
  ASSUME NEW s, Shape(s), NEW o, NEW t
  PROVE  /\ Frame(s, PendListInsertPrio(s, o, t), {"pend", "pendOn"})
         /\ PendListInsertPrio(s, o, t).pend = Join(s.pend, s.prio, o, t)
         /\ PendListInsertPrio(s, o, t).pendOn = [s.pendOn EXCEPT ![t] = o]
<1> DEFINE at == Min({i \in DOMAIN s.pend[o] : s.prio[t] < s.prio[s.pend[o][i]]} \cup {Len(s.pend[o]) + 1})
           p  == InsertAt(s.pend[o], at, t)
           s2 == [s EXCEPT !.pend[o] = p, !.pendOn[t] = o]
<1>1. PendListInsertPrio(s, o, t) = s2
  BY DEF PendListInsertPrio
<1>2. Join(s.pend, s.prio, o, t) = [s.pend EXCEPT ![o] = p]
  BY DEF Join, Place
<1> HIDE DEF at, p
<1>3. /\ Frame(s, s2, {"pend", "pendOn"})
      /\ s2.pend = [s.pend EXCEPT ![o] = p]
      /\ s2.pendOn = [s.pendOn EXCEPT ![t] = o]
  BY DEF Shape, Frame, Fields
<1> QED
  BY <1>1, <1>2, <1>3

\* A task of its priority joins the ready list at one of its ends.
LEMMA InsertReady ==
  ASSUME NEW s, Types(s), NEW S, Readied(s.rdy, S, s.prio), NEW t \in Tasks, t \notin S,
         NEW s2, s2 = RdyListInsertTail(s, t) \/ s2 = RdyListInsertHead(s, t)
  PROVE  /\ Frame(s, s2, {"rdy"}) /\ s2.rdy \in [Prios -> Seq(Tasks)]
         /\ Readied(s2.rdy, S \cup {t}, s.prio)
<1> DEFINE q == s.rdy[s.prio[t]]
<1>0. /\ Shape(s) /\ s.rdy \in [Prios -> Seq(Tasks)] /\ s.prio \in [Tasks -> Prios]
      /\ s.prio[t] \in Prios
  BY DEF Types
<1>1. q \in Seq(Tasks) /\ Uniq(q) /\ t \notin ToSet(q)
  BY <1>0 DEF Readied
<1> HIDE DEF q
<1>2. Added(Append(q, t), q, Tasks, t) /\ Added(<<t>> \o q, q, Tasks, t)
  BY <1>1, AppendUniq, ConsUniq
<1>3. PICK w : Frame(s, s2, {"rdy"}) /\ Added(w, q, Tasks, t) /\ s2.rdy = [s.rdy EXCEPT ![s.prio[t]] = w]
  <2>1. CASE s2 = RdyListInsertTail(s, t)
    BY <1>0, <1>2, <2>1, InsertTailFields DEF q
  <2>2. CASE s2 = RdyListInsertHead(s, t)
    BY <1>0, <1>2, <2>2, InsertHeadFields DEF q
  <2> QED
    BY <2>1, <2>2
<1>4. Added(w, s.rdy[s.prio[t]], Tasks, t)
  BY <1>3 DEF q
<1>5. /\ Readied([s.rdy EXCEPT ![s.prio[t]] = w], S \cup {t}, s.prio)
      /\ [s.rdy EXCEPT ![s.prio[t]] = w] \in [Prios -> Seq(Tasks)]
  BY <1>0, <1>4, ReadyGain
<1> QED
  BY <1>3, <1>5

\* Nothing but the fields of a frame counts.
LEMMA CoreSame ==
  ASSUME NEW s, NEW D, Core(s, D), NEW s2,
         Frame(s, s2, {"cur", "prioCur", "suspends", "base", "status", "dlys", "timeouts",
                       "grp", "failed", "rare", "astray", "held", "due"}),
         Types(s2), Awake(s2) = Awake(s)
  PROVE  Core(s2, D)
<1>1. /\ s2.rdy = s.rdy /\ s2.prio = s.prio /\ s2.pend = s.pend /\ s2.pendOn = s.pendOn
      /\ s2.wait = s.wait /\ s2.nest = s.nest /\ s2.owner = s.owner /\ s2.ctr = s.ctr
  BY DEF Frame, Fields
<1> QED
  BY <1>1 DEF Core, Waiters, Owned, Counts

-----------------------------------------------------------------------------
(* A wait ends                                                               *)

\* OS_RdyListInsert and the state that goes with it.
LEMMA WakeCore ==
  ASSUME NEW s, NEW D, Core(s, D), NEW t \in Tasks, t \notin D,
         s.wait[t] # "RDY", s.pendOn[t] = Nothing
  PROVE  /\ Core(Wake(s, t), D)
         /\ Frame(s, Wake(s, t), {"rdy", "wait", "due"})
         /\ Wake(s, t).wait = [s.wait EXCEPT ![t] = "RDY"]
         /\ Wake(s, t).due = [s.due EXCEPT ![t] = 0]
<1> DEFINE a == [s EXCEPT !.wait[t] = "RDY", !.due[t] = 0]
           s2 == Wake(s, t)
           W == {"rdy", "wait", "due"}
<1>0. /\ Types(s) /\ Shape(s) /\ s.wait \in [Tasks -> Waits] /\ s.due \in [Tasks -> Nat]
      /\ Readied(s.rdy, Awake(s) \ D, s.prio)
  BY DEF Core, Types
<1>1. /\ Frame(s, a, {"wait", "due"}) /\ a.wait = [s.wait EXCEPT ![t] = "RDY"]
      /\ a.due = [s.due EXCEPT ![t] = 0]
  BY <1>0 DEF Shape, Frame, Fields
<1>2. s2 = IF Suspended(s, t) THEN a ELSE RdyListInsert(a, t)
  BY DEF Wake
<1> HIDE DEF a, s2
<1>3. a.wait \in [Tasks -> Waits] /\ a.due \in [Tasks -> Nat]
  BY <1>0, <1>1 DEF Waits
<1>4. Types(a)
  BY <1>0, <1>1, <1>3 DEF Types, Frame, Fields
<1>5. t \notin Awake(s) \ D
  BY <1>0 DEF Awake, Ready
<1>6. a.rdy = s.rdy /\ a.prio = s.prio /\ a.suspends = s.suspends
  BY <1>1 DEF Frame, Fields
<1>7. /\ Frame(a, s2, {"rdy"}) /\ s2.rdy \in [Prios -> Seq(Tasks)]
      /\ Readied(s2.rdy, (Awake(s) \ D) \cup (IF Suspended(s, t) THEN {} ELSE {t}), s.prio)
  <2>1. CASE Suspended(s, t)
    <3>1. s2 = a
      BY <1>2, <2>1
    <3>2. Frame(a, a, {"rdy"})
      BY <1>1 DEF Frame
    <3>3. (Awake(s) \ D) \cup (IF Suspended(s, t) THEN {} ELSE {t}) = Awake(s) \ D
      BY <2>1
    <3> QED
      BY <1>0, <1>6, <3>1, <3>2, <3>3 DEF Types
  <2>2. CASE ~Suspended(s, t)
    <3>1. s2 = RdyListInsertTail(a, t) \/ s2 = RdyListInsertHead(a, t)
      BY <1>2, <2>2 DEF RdyListInsert
    <3>2. Readied(a.rdy, Awake(s) \ D, a.prio)
      BY <1>0, <1>6
    <3>3. /\ Frame(a, s2, {"rdy"}) /\ s2.rdy \in [Prios -> Seq(Tasks)]
          /\ Readied(s2.rdy, (Awake(s) \ D) \cup {t}, a.prio)
      BY <1>4, <1>5, <3>1, <3>2, InsertReady
    <3> QED
      BY <1>6, <2>2, <3>3
  <2> QED
    BY <2>1, <2>2
<1>8. s2.wait = a.wait /\ s2.due = a.due
  BY <1>7 DEF Frame, Fields
<1>9. Frame(s, s2, W)
  <2>1. Frame(s, a, W) /\ Frame(a, s2, W)
    BY <1>1, <1>7, FrameWiden
  <2> QED
    BY <2>1, FrameTrans
<1>10. Types(s2)
  BY <1>0, <1>3, <1>7, <1>8, <1>9 DEF Types, Frame, Fields
<1>11. /\ s2.prio = s.prio /\ s2.pend = s.pend /\ s2.pendOn = s.pendOn /\ s2.suspends = s.suspends
       /\ s2.nest = s.nest /\ s2.owner = s.owner /\ s2.ctr = s.ctr
  BY <1>9 DEF Frame, Fields
<1>12. \A u \in Tasks : s2.wait[u] = IF u = t THEN "RDY" ELSE s.wait[u]
  BY <1>0, <1>1, <1>8
<1>13. Awake(s2) \ D = (Awake(s) \ D) \cup (IF Suspended(s, t) THEN {} ELSE {t})
  BY <1>0, <1>11, <1>12 DEF Awake, Ready, Suspended
<1>14. Waiters(s2)
  BY <1>11, <1>12 DEF Core, Waiters
<1>15. Owned(s2) /\ Counts(s2) /\ Pended(s2.pend, s2.pendOn, s2.prio)
  BY <1>11 DEF Core, Owned, Counts
<1>16. Core(s2, D)
  BY <1>7, <1>10, <1>11, <1>13, <1>14, <1>15 DEF Core
<1> QED
  BY <1>1, <1>8, <1>9, <1>16 DEF s2

\* The task leaves the pend list.
LEMMA LeaveCore ==
  ASSUME NEW s, NEW D, Core(s, D), NEW t \in Tasks, s.pendOn[t] # Nothing
  PROVE  /\ Core(PendListRemove(s, t), D)
         /\ Frame(s, PendListRemove(s, t), {"pend", "pendOn"})
         /\ PendListRemove(s, t).pend = Leave(s.pend, s.pendOn[t], t)
         /\ PendListRemove(s, t).pendOn = [s.pendOn EXCEPT ![t] = Nothing]
         /\ \A o \in Objects : s.pend[o] = << >> => PendListRemove(s, t).pend[o] = << >>
<1> DEFINE s2 == PendListRemove(s, t)
<1>0. /\ Types(s) /\ Shape(s) /\ s.pendOn \in [Tasks -> Objects \cup {Nothing}]
      /\ s.pend \in [Objects -> Seq(Tasks)] /\ Pended(s.pend, s.pendOn, s.prio)
      /\ s.pendOn[t] \in Objects
  BY DEF Core, Types
<1>1. /\ Frame(s, s2, {"pend", "pendOn"})
      /\ s2.pend = Leave(s.pend, s.pendOn[t], t)
      /\ s2.pendOn = [s.pendOn EXCEPT ![t] = Nothing]
  BY <1>0, PendRemoveFields
<1> HIDE DEF s2
<1>2. /\ Pended(s2.pend, s2.pendOn, s.prio) /\ s2.pend \in [Objects -> Seq(Tasks)]
      /\ \A o \in Objects : s.pend[o] = << >> => s2.pend[o] = << >>
  <2>1. /\ Pended(Leave(s.pend, s.pendOn[t], t), [s.pendOn EXCEPT ![t] = Nothing], s.prio)
        /\ Leave(s.pend, s.pendOn[t], t) \in [Objects -> Seq(Tasks)]
        /\ \A o \in Objects : s.pend[o] = << >> => Leave(s.pend, s.pendOn[t], t)[o] = << >>
    BY <1>0, PendLose
  <2> QED
    BY <1>1, <2>1
<1>3. s2.pendOn \in [Tasks -> Objects \cup {Nothing}]
  BY <1>0, <1>1
<1>4. Types(s2)
  BY <1>0, <1>1, <1>2, <1>3 DEF Types, Frame, Fields
<1>5. /\ s2.rdy = s.rdy /\ s2.prio = s.prio /\ s2.suspends = s.suspends /\ s2.wait = s.wait
      /\ s2.nest = s.nest /\ s2.owner = s.owner /\ s2.ctr = s.ctr
  BY <1>1 DEF Frame, Fields
<1>6. \A u \in Tasks : s2.pendOn[u] = IF u = t THEN Nothing ELSE s.pendOn[u]
  BY <1>0, <1>1
<1>7. Awake(s2) = Awake(s)
  BY <1>5 DEF Awake, Ready, Suspended
<1>8. Waiters(s2)
  BY <1>5, <1>6 DEF Core, Waiters
<1>9. Owned(s2) /\ Counts(s2)
  BY <1>2, <1>5 DEF Core, Owned, Counts, Objects
<1>10. Core(s2, D)
  BY <1>2, <1>4, <1>5, <1>7, <1>8, <1>9 DEF Core
<1> QED
  BY <1>1, <1>2, <1>10 DEF s2

\* What EndPend does, whatever the status.
LEMMA EndPendCore ==
  ASSUME NEW s, NEW D, Core(s, D), Ticks(s, D), NEW t \in Tasks, t \notin D,
         s.pendOn[t] # Nothing, NEW status \in Statuses
  PROVE  LET s2 == EndPend(s, t, status)
             got == IF status = "OK" THEN {s.pendOn[t]} \cap Mutexes ELSE {}
         IN  /\ Core(s2, D) /\ Ticks(s2, D)
             /\ Frame(s, s2, {"pend", "pendOn", "timeouts", "status", "held", "wait", "due", "rdy"})
             /\ s2.wait = [s.wait EXCEPT ![t] = "RDY"]
             /\ s2.pendOn = [s.pendOn EXCEPT ![t] = Nothing]
             /\ s2.held = [s.held EXCEPT ![t] = s.held[t] \cup got]
             /\ \A o \in Objects : s.pend[o] = << >> => s2.pend[o] = << >>
<1> DEFINE off  == PendListRemove(s, t)
           quit == IF s.wait[t] = "PEND_TIMEOUT"
                   THEN [off EXCEPT !.timeouts = TickListRemove(@, t)] ELSE off
           got  == IF status = "OK" THEN {s.pendOn[t]} \cap Mutexes ELSE {}
           told == [quit EXCEPT !.status[t] = status, !.held[t] = @ \cup got]
           s2   == EndPend(s, t, status)
           V    == {"timeouts", "status", "held"}
           W    == {"pend", "pendOn", "timeouts", "status", "held", "wait", "due", "rdy"}
<1>0. /\ Types(s) /\ s.wait \in [Tasks -> Waits] /\ s.wait[t] \in Pending
      /\ s.held \in [Tasks -> SUBSET Mutexes] /\ s.status \in [Tasks -> Statuses]
      /\ s.due \in [Tasks -> Nat] /\ s.timeouts \in Seq(Tasks \X Nat)
  BY DEF Core, Types, Waiters
<1>1. /\ Core(off, D) /\ Frame(s, off, {"pend", "pendOn"})
      /\ off.pendOn = [s.pendOn EXCEPT ![t] = Nothing]
      /\ \A o \in Objects : s.pend[o] = << >> => off.pend[o] = << >>
  BY LeaveCore
<1>2. s2 = Wake(told, t)
  BY DEF EndPend
<1> HIDE DEF off, s2, got
<1>3. /\ off.wait = s.wait /\ off.timeouts = s.timeouts /\ off.held = s.held
      /\ off.status = s.status /\ Shape(off)
  BY <1>1 DEF Frame, Fields
<1> DEFINE left == IF s.wait[t] = "PEND_TIMEOUT" THEN TickListRemove(s.timeouts, t) ELSE s.timeouts
<1>4. Ticking(left, s.due, (Timed(s) \ D) \ {t})
  <2>1. CASE s.wait[t] = "PEND_TIMEOUT"
    <3>1. t \in Timed(s) \ D
      BY <2>1 DEF Timed
    <3> QED
      BY <2>1, <3>1, TickRemove DEF Ticks
  <2>2. CASE s.wait[t] # "PEND_TIMEOUT"
    <3>1. (Timed(s) \ D) \ {t} = Timed(s) \ D
      BY <2>2 DEF Timed
    <3> QED
      BY <2>2, <3>1 DEF Ticks
  <2> QED
    BY <2>1, <2>2
<1>5. left \in Seq(Tasks \X Nat)
  BY <1>4 DEF Ticking, Summing
<1>6. /\ Frame(off, quit, {"timeouts"}) /\ quit.timeouts = left
  <2>1. CASE s.wait[t] = "PEND_TIMEOUT"
    BY <1>3, <2>1 DEF Shape, Frame, Fields
  <2>2. CASE s.wait[t] # "PEND_TIMEOUT"
    BY <1>3, <2>2 DEF Frame
  <2> QED
    BY <2>1, <2>2
<1> HIDE DEF quit, left
<1>7. Shape(quit) /\ quit.status = s.status /\ quit.held = s.held
  BY <1>3, <1>6 DEF Frame, Fields
<1>8. /\ Frame(quit, told, {"status", "held"}) /\ told.status = [s.status EXCEPT ![t] = status]
      /\ told.held = [s.held EXCEPT ![t] = s.held[t] \cup got]
  BY <1>7 DEF Shape, Frame, Fields
<1> HIDE DEF told
<1>9. Frame(off, told, V)
  <2>1. Frame(off, quit, V) /\ Frame(quit, told, V)
    BY <1>6, <1>8, FrameWiden
  <2> QED
    BY <2>1, FrameTrans
<1>10. told.timeouts = left
  BY <1>6, <1>8 DEF Frame, Fields
<1>11. got \subseteq Mutexes
  BY DEF got
<1>12. told.held \in [Tasks -> SUBSET Mutexes] /\ told.status \in [Tasks -> Statuses]
  BY <1>0, <1>8, <1>11
<1>13. Types(told)
  <2>1. Types(off)
    BY <1>1 DEF Core
  <2> QED
    BY <1>5, <1>9, <1>10, <1>12, <2>1 DEF Types, Frame, Fields
<1>14. Core(told, D)
  <2>1. told.wait = off.wait /\ told.suspends = off.suspends
    BY <1>9 DEF Frame, Fields
  <2>2. Awake(told) = Awake(off)
    BY <2>1 DEF Awake, Ready, Suspended
  <2>3. Frame(off, told, {"cur", "prioCur", "suspends", "base", "status", "dlys", "timeouts",
                       "grp", "failed", "rare", "astray", "held", "due"})
    BY <1>9, FrameWiden
  <2> QED
    BY <1>1, <1>13, <2>2, <2>3, CoreSame
<1>15. told.wait[t] # "RDY" /\ told.pendOn[t] = Nothing
  <2>1. told.wait = s.wait /\ told.pendOn = off.pendOn
    BY <1>3, <1>9 DEF Frame, Fields
  <2>2. s.pendOn \in [Tasks -> Objects \cup {Nothing}]
    BY <1>0 DEF Types
  <2> QED
    BY <1>0, <1>1, <2>1, <2>2 DEF Pending
<1>16. /\ Core(s2, D) /\ Frame(told, s2, {"rdy", "wait", "due"})
       /\ s2.wait = [told.wait EXCEPT ![t] = "RDY"]
       /\ s2.due = [told.due EXCEPT ![t] = 0]
  BY <1>2, <1>14, <1>15, WakeCore
<1>17. Frame(s, s2, W)
  <2>1. Frame(s, off, W) /\ Frame(off, told, W) /\ Frame(told, s2, W)
    BY <1>1, <1>9, <1>16, FrameWiden
  <2> QED
    BY <2>1, FrameTrans
<1>18. told.wait = s.wait /\ told.due = s.due /\ s2.timeouts = left /\ s2.dlys = s.dlys
  BY <1>1, <1>9, <1>10, <1>16, <1>17 DEF Frame, Fields
<1>19. s2.pendOn = off.pendOn /\ s2.pend = off.pend /\ s2.held = told.held
  BY <1>9, <1>16 DEF Frame, Fields
<1>20. \A u \in Tasks : /\ s2.wait[u] = IF u = t THEN "RDY" ELSE s.wait[u]
                        /\ u # t => s2.due[u] = s.due[u]
  BY <1>0, <1>16, <1>18
<1>21. Delayed(s2) \ D = Delayed(s) \ D /\ Timed(s2) \ D = (Timed(s) \ D) \ {t}
  BY <1>0, <1>20 DEF Delayed, Timed, Pending
<1>22. Ticking(s2.timeouts, s2.due, Timed(s2) \ D)
  <2>1. \A u \in (Timed(s) \ D) \ {t} : s2.due[u] = s.due[u]
    BY <1>20 DEF Timed
  <2> QED
    BY <1>4, <1>18, <1>21, <2>1, TickingSame
<1>23. Ticking(s2.dlys, s2.due, Delayed(s2) \ D)
  <2>1. \A u \in Delayed(s) \ D : s2.due[u] = s.due[u]
    BY <1>0, <1>20 DEF Delayed, Pending
  <2>2. Ticking(s.dlys, s.due, Delayed(s) \ D)
    BY DEF Ticks
  <2> QED
    BY <1>18, <1>21, <2>1, <2>2, TickingSame
<1>24. Ticks(s2, D)
  BY <1>22, <1>23 DEF Ticks
<1> QED
  BY <1>1, <1>8, <1>16, <1>17, <1>18, <1>19, <1>24 DEF s2, got

-----------------------------------------------------------------------------
(* Priorities                                                                *)

\* A list is empty when nobody waits for its object.
LEMMA EmptyIff ==
  ASSUME NEW pend, NEW pendOn, NEW prio, Pended(pend, pendOn, prio), NEW o \in Objects
  PROVE  pend[o] = << >> <=> \A t \in Tasks : pendOn[t] # o
<1>1. pend[o] \in Seq(Tasks) /\ \A t \in Tasks : t \in ToSet(pend[o]) <=> pendOn[t] = o
  BY DEF Pended
<1>2. \A x \in ToSet(pend[o]) : x \in Tasks
  BY <1>1, SetFacts
<1>3. pend[o] = << >> <=> ToSet(pend[o]) = {}
  <2>1. pend[o] = << >> <=> Len(pend[o]) = 0
    BY <1>1, SetFacts
  <2>2. Len(pend[o]) = 0 => ToSet(pend[o]) = {}
    <3>1. \A x : x \in ToSet(pend[o]) <=> \E i \in 1..Len(pend[o]) : pend[o][i] = x
      BY <1>1, SetFacts
    <3> QED
      BY <3>1
  <2>3. pend[o] # << >> => Head(pend[o]) \in ToSet(pend[o])
    BY <1>1, SetFacts
  <2> QED
    BY <2>1, <2>2, <2>3
<1> QED
  BY <1>1, <1>2, <1>3

\* The set of all states, for the folds over them.
States ==
  [cur: Tasks \cup {Idle, Nothing}, prioCur: -1..IdlePrio,
   rdy: [Prios -> Seq(Tasks)], wait: [Tasks -> Waits], suspends: [Tasks -> Nat],
   prio: [Tasks -> Prios], base: [Tasks -> Prios],
   pendOn: [Tasks -> Objects \cup {Nothing}], status: [Tasks -> Statuses],
   pend: [Objects -> Seq(Tasks)], dlys: Seq(Tasks \X Nat), timeouts: Seq(Tasks \X Nat),
   owner: [Mutexes -> Tasks \cup {Nothing}], nest: [Mutexes -> Nat],
   grp: [Tasks -> Seq(Mutexes)], ctr: [Sems -> 0..MaxCtr], failed: BOOLEAN, rare: Nat,
   astray: BOOLEAN, held: [Tasks -> SUBSET Mutexes], due: [Tasks -> Nat]]

\* States with types are members of a set, as functions need.
LEMMA TypesState ==
  ASSUME NEW s, Types(s)
  PROVE  s \in States
BY DEF Types, States, Shape, Fields

\* The least of two numbers.
LEMMA MinTwo ==
  ASSUME NEW a \in Nat, NEW b \in Nat
  PROVE  Min({a, b}) \in {a, b} /\ Min({a, b}) <= a /\ Min({a, b}) <= b
<1>1. {a, b} \in SUBSET Nat /\ {a, b} # {}
  OBVIOUS
<1> QED
  BY <1>1, MinLemma

\* What an owner inherits is a priority, or it has its own.
LEMMA DisinheritedType ==
  ASSUME NEW s, Types(s), NEW t \in Tasks
  PROVE  /\ MutexGrpPrioFindHighest(s, t) \in 0..IdlePrio
         /\ Disinherited(s, t) \in Prios
<1> DEFINE M == {IdlePrio} \cup {s.prio[Head(s.pend[m])] :
                   m \in {n \in ToSet(s.grp[t]) : s.pend[n] # <<>>}}
           high == MutexGrpPrioFindHighest(s, t)
<1>0. IdlePrio \in Nat /\ Prios \subseteq 0..IdlePrio /\ Prios \subseteq Nat /\ Lowest \in Nat
  BY KernelAssumption DEF IdlePrio, Prios
<1>1. ASSUME NEW m \in ToSet(s.grp[t]), s.pend[m] # << >>
      PROVE  s.prio[Head(s.pend[m])] \in Prios
  <2>1. s.grp[t] \in Seq(Mutexes)
    BY DEF Types
  <2>2. m \in Objects
    BY <2>1, SetFacts DEF Objects
  <2>3. s.pend[m] \in Seq(Tasks)
    BY <2>2 DEF Types
  <2>4. Head(s.pend[m]) \in Tasks
    BY <1>1, <2>3, HeadTailProperties
  <2> QED
    BY <2>4 DEF Types
<1>2. M \in SUBSET Nat /\ M # {} /\ M \subseteq 0..IdlePrio
  <2>1. \A x \in M : x = IdlePrio \/ x \in Prios
    BY <1>1
  <2>2. IdlePrio \in M
    OBVIOUS
  <2> HIDE DEF M
  <2>3. \A x \in M : x \in 0..IdlePrio /\ x \in Nat
    <3>1. IdlePrio \in 0..IdlePrio
      BY <1>0
    <3> QED
      BY <1>0, <2>1, <3>1
  <2> QED
    BY <2>2, <2>3
<1>3. high = Min(M)
  BY DEF MutexGrpPrioFindHighest
<1> HIDE DEF M
<1>4. high \in 0..IdlePrio /\ high \in Nat
  BY <1>0, <1>2, <1>3, MinLemma
<1> HIDE DEF high
<1>5. s.base[t] \in Prios /\ s.base[t] \in Nat
  BY <1>0 DEF Types
<1>6. Min({s.base[t], high}) \in {s.base[t], high} /\ Min({s.base[t], high}) <= s.base[t]
  BY <1>4, <1>5, MinTwo
<1>7. Min({s.base[t], high}) \in Prios
  BY <1>0, <1>4, <1>5, <1>6 DEF Prios
<1> QED
  BY <1>4, <1>7 DEF Disinherited, high

\* Priorities change, and nothing else that a service could see.
Reprio(s, s2) ==
  /\ Core(s2, {}) /\ Frame(s, s2, {"prio", "prioCur", "rdy", "pend", "pendOn", "failed", "astray"})
  /\ s2.pendOn = s.pendOn
  /\ s.astray => s2.astray
  /\ s.failed => s2.failed

\* Changes of priorities compose.
LEMMA ReprioRefl ==
  ASSUME NEW s, Core(s, {})
  PROVE  Reprio(s, s)
BY DEF Reprio, Frame, Core, Types

LEMMA ReprioTrans ==
  ASSUME NEW s, NEW s1, NEW s2, Reprio(s, s1), Reprio(s1, s2)
  PROVE  Reprio(s, s2)
<1>1. Frame(s, s2, {"prio", "prioCur", "rdy", "pend", "pendOn", "failed", "astray"})
  BY FrameTrans DEF Reprio
<1> QED
  BY <1>1 DEF Reprio

\* The invariant survives the change of a priority.
LEMMA CoreReprio ==
  ASSUME NEW s, Core(s, {}), NEW s2, Types(s2),
         Frame(s, s2, {"prio", "prioCur", "rdy", "pend", "pendOn", "failed", "astray"}),
         s2.pendOn = s.pendOn, s.astray => s2.astray, s.failed => s2.failed,
         Readied(s2.rdy, Awake(s), s2.prio), Pended(s2.pend, s2.pendOn, s2.prio)
  PROVE  Reprio(s, s2)
<1>1. /\ s2.wait = s.wait /\ s2.suspends = s.suspends
      /\ s2.nest = s.nest /\ s2.owner = s.owner /\ s2.ctr = s.ctr
  BY DEF Frame, Fields
<1>2. Awake(s2) \ {} = Awake(s)
  BY <1>1 DEF Awake, Ready, Suspended
<1>3. \A o \in Objects : s.pend[o] = << >> => s2.pend[o] = << >>
  <2> SUFFICES ASSUME NEW o \in Objects, s.pend[o] = << >> PROVE s2.pend[o] = << >>
    OBVIOUS
  <2>1. \A t \in Tasks : s.pendOn[t] # o
    BY EmptyIff DEF Core
  <2> QED
    BY <2>1, EmptyIff
<1>4. Waiters(s2)
  BY <1>1 DEF Core, Waiters
<1>5. Owned(s2) /\ Counts(s2)
  BY <1>1, <1>3 DEF Core, Owned, Counts, Objects
<1>6. Core(s2, {})
  BY <1>2, <1>4, <1>5 DEF Core
<1> QED
  BY <1>6 DEF Reprio

\* A task gets a priority while it is in no list.
LEMMA SetReprio ==
  ASSUME NEW s, Core(s, {}), NEW t \in Tasks, NEW p \in Prios, NEW s2,
         ~Ready(s, t), s.pendOn[t] = Nothing, Frame(s, s2, {"prio", "failed"}),
         s2.prio = [s.prio EXCEPT ![t] = p], s2.failed \in BOOLEAN, s.failed => s2.failed
  PROVE  Reprio(s, s2)
<1>0. Types(s) /\ Shape(s) /\ s.prio \in [Tasks -> Prios] /\ s.pend \in [Objects -> Seq(Tasks)]
  BY DEF Core, Types
<1>1. /\ Frame(s, s2, {"prio", "failed"}) /\ s2.prio = [s.prio EXCEPT ![t] = p]
  OBVIOUS
<1>2. s2.prio \in [Tasks -> Prios] /\ \A u \in Tasks : u # t => s2.prio[u] = s.prio[u]
  BY <1>0, <1>1
<1>3. Types(s2)
  BY <1>0, <1>1, <1>2 DEF Types, Frame, Fields
<1>4. /\ s2.rdy = s.rdy /\ s2.pend = s.pend /\ s2.pendOn = s.pendOn /\ s2.astray = s.astray
  BY <1>1 DEF Frame, Fields
<1>5. Readied(s2.rdy, Awake(s), s2.prio)
  <2>1. Readied(s.rdy, Awake(s), s.prio)
    <3>1. Awake(s) \ {} = Awake(s)
      OBVIOUS
    <3> QED
      BY <3>1 DEF Core
  <2>2. \A u \in Awake(s) : s2.prio[u] = s.prio[u]
    BY <1>2 DEF Awake
  <2> QED
    BY <1>4, <2>1, <2>2, ReadySame
<1>6. Pended(s2.pend, s2.pendOn, s2.prio)
  <2>1. \A u \in Tasks : s.pendOn[u] \in Objects => s2.prio[u] = s.prio[u]
    BY <1>2, KernelAssumption DEF Objects
  <2>2. Pended(s.pend, s.pendOn, s.prio)
    BY DEF Core
  <2> QED
    BY <1>4, <2>1, <2>2, PendSame
<1>7. Frame(s, s2, {"prio", "prioCur", "rdy", "pend", "pendOn", "failed", "astray"})
  BY <1>1, FrameWiden
<1> QED
  BY <1>1, <1>3, <1>4, <1>5, <1>6, <1>7, CoreReprio

\* A ready task moves to the list of its new priority.
LEMMA ReadyReprio ==
  ASSUME NEW s, Core(s, {}), NEW t \in Tasks, NEW p \in Prios, Ready(s, t),
         NEW x, Frame(RdyListRemove(s, t), x, {"prio", "prioCur"}),
         x.prio = [s.prio EXCEPT ![t] = p], x.prioCur \in -1..IdlePrio,
         NEW s2, s2 = RdyListInsertTail(x, t) \/ s2 = RdyListInsertHead(x, t)
  PROVE  Reprio(s, s2)
<1>0. /\ Types(s) /\ Shape(s) /\ s.prio \in [Tasks -> Prios] /\ s.rdy \in [Prios -> Seq(Tasks)]
      /\ Readied(s.rdy, Awake(s), s.prio) /\ s.pendOn[t] = Nothing
  <2>1. Awake(s) \ {} = Awake(s)
    OBVIOUS
  <2> QED
    BY <2>1 DEF Core, Types, Waiters, Pending, Ready
<1> DEFINE r == RdyListRemove(s, t)
<1>1. /\ Frame(s, r, {"rdy"})
      /\ r.rdy = [s.rdy EXCEPT ![s.prio[t]] = Without(s.rdy[s.prio[t]], t)]
  BY <1>0, RemoveFields
<1> HIDE DEF r
<1>3. Frame(r, x, {"prio", "prioCur"}) /\ x.prio = [s.prio EXCEPT ![t] = p]
  BY DEF r
<1>4. x.prio \in [Tasks -> Prios] /\ \A u \in Tasks : u # t => x.prio[u] = s.prio[u]
  BY <1>0, <1>3
<1>5. Readied(r.rdy, Awake(s) \ {t}, s.prio) /\ r.rdy \in [Prios -> Seq(Tasks)]
  <2>1. /\ Readied([s.rdy EXCEPT ![s.prio[t]] = Without(s.rdy[s.prio[t]], t)], Awake(s) \ {t}, s.prio)
        /\ [s.rdy EXCEPT ![s.prio[t]] = Without(s.rdy[s.prio[t]], t)] \in [Prios -> Seq(Tasks)]
    BY <1>0, ReadyLose
  <2> QED
    BY <1>1, <2>1
<1>6. x.rdy = r.rdy
  BY <1>3 DEF Frame, Fields
<1>7. Readied(x.rdy, Awake(s) \ {t}, x.prio)
  <2>1. \A u \in Awake(s) \ {t} : x.prio[u] = s.prio[u]
    BY <1>4 DEF Awake
  <2> QED
    BY <1>5, <1>6, <2>1, ReadySame
<1>8. Frame(s, x, {"rdy", "prio", "prioCur"})
  <2>1. Frame(s, r, {"rdy", "prio", "prioCur"}) /\ Frame(r, x, {"rdy", "prio", "prioCur"})
    BY <1>1, <1>3, FrameWiden
  <2> QED
    BY <2>1, FrameTrans
<1>9. Types(x)
  BY <1>0, <1>4, <1>5, <1>6, <1>8 DEF Types, Frame, Fields
<1>10. /\ Frame(x, s2, {"rdy"}) /\ s2.rdy \in [Prios -> Seq(Tasks)]
       /\ Readied(s2.rdy, (Awake(s) \ {t}) \cup {t}, x.prio)
  <2>1. t \notin Awake(s) \ {t}
    OBVIOUS
  <2> QED
    BY <1>7, <1>9, <2>1, InsertReady
<1>11. (Awake(s) \ {t}) \cup {t} = Awake(s)
  BY DEF Awake
<1>12. s2.prio = x.prio /\ s2.prioCur = x.prioCur
  BY <1>10 DEF Frame, Fields
<1>13. Frame(s, s2, {"rdy", "prio", "prioCur"})
  <2>1. Frame(x, s2, {"rdy", "prio", "prioCur"})
    BY <1>10, FrameWiden
  <2> QED
    BY <1>8, <2>1, FrameTrans
<1>14. Types(s2)
  BY <1>0, <1>4, <1>10, <1>12, <1>13 DEF Types, Frame, Fields
<1>15. s2.pend = s.pend /\ s2.pendOn = s.pendOn /\ s2.astray = s.astray /\ s2.failed = s.failed
  BY <1>13 DEF Frame, Fields
<1>16. Pended(s2.pend, s2.pendOn, s2.prio)
  <2>1. \A u \in Tasks : s.pendOn[u] \in Objects => s2.prio[u] = s.prio[u]
    BY <1>0, <1>4, <1>12, KernelAssumption DEF Objects
  <2>2. Pended(s.pend, s.pendOn, s.prio)
    BY DEF Core
  <2> QED
    BY <1>15, <2>1, <2>2, PendSame
<1>17. Frame(s, s2, {"prio", "prioCur", "rdy", "pend", "pendOn", "failed", "astray"})
  BY <1>13, FrameWiden
<1> QED
  BY <1>10, <1>11, <1>12, <1>14, <1>15, <1>16, <1>17, CoreReprio

\* A task that waits moves to the place of its new priority.
LEMMA PendReprio ==
  ASSUME NEW s, Core(s, {}), NEW t \in Tasks, NEW p \in Prios, s.pendOn[t] # Nothing
  PROVE  /\ Reprio(s, PendListChangePrio([s EXCEPT !.prio[t] = p], t))
         /\ PendListChangePrio([s EXCEPT !.prio[t] = p], t).prio \in [Tasks -> Prios]
<1> DEFINE set == [s EXCEPT !.prio[t] = p]
           off == PendListRemove(set, t)
           o == s.pendOn[t]
           s2 == PendListChangePrio(set, t)
           W == {"prio", "pend", "pendOn"}
<1>0. /\ Types(s) /\ Shape(s) /\ s.prio \in [Tasks -> Prios] /\ s.pend \in [Objects -> Seq(Tasks)]
      /\ s.pendOn \in [Tasks -> Objects \cup {Nothing}] /\ o \in Objects
      /\ Readied(s.rdy, Awake(s), s.prio) /\ Pended(s.pend, s.pendOn, s.prio)
      /\ t \notin Awake(s)
  <2>1. Awake(s) \ {} = Awake(s)
    OBVIOUS
  <2> QED
    BY <2>1 DEF Core, Types, Waiters, Pending, Ready, Awake
<1>1. /\ Frame(s, set, {"prio"}) /\ set.prio = [s.prio EXCEPT ![t] = p]
  BY <1>0 DEF Shape, Frame, Fields
<1> HIDE DEF set
<1>2. set.prio \in [Tasks -> Prios] /\ \A u \in Tasks : u # t => set.prio[u] = s.prio[u]
  BY <1>0, <1>1
<1>3. Shape(set) /\ set.pend = s.pend /\ set.pendOn = s.pendOn
  BY <1>1 DEF Frame, Fields
<1>4. /\ Frame(set, off, {"pend", "pendOn"})
      /\ off.pend = Leave(s.pend, o, t)
      /\ off.pendOn = [s.pendOn EXCEPT ![t] = Nothing]
  BY <1>3, PendRemoveFields
<1>5. s2 = PendListInsertPrio(off, o, t)
  BY <1>3 DEF PendListChangePrio
<1> HIDE DEF off, s2
<1>6. Shape(off) /\ off.prio = set.prio
  BY <1>4 DEF Frame, Fields
<1>7. /\ Frame(off, s2, {"pend", "pendOn"})
      /\ s2.pend = Join(off.pend, set.prio, o, t)
      /\ s2.pendOn = [off.pendOn EXCEPT ![t] = o]
  BY <1>5, <1>6, PendInsertFields
<1>8. Pended(off.pend, off.pendOn, s.prio) /\ off.pend \in [Objects -> Seq(Tasks)]
  <2>1. /\ Pended(Leave(s.pend, s.pendOn[t], t), [s.pendOn EXCEPT ![t] = Nothing], s.prio)
        /\ Leave(s.pend, s.pendOn[t], t) \in [Objects -> Seq(Tasks)]
    BY <1>0, PendLose
  <2> QED
    BY <1>4, <2>1
<1>9. off.pendOn \in [Tasks -> Objects \cup {Nothing}] /\ off.pendOn[t] = Nothing
  BY <1>0, <1>4
<1>10. Pended(off.pend, off.pendOn, set.prio)
  <2>1. \A u \in Tasks : off.pendOn[u] \in Objects => set.prio[u] = s.prio[u]
    BY <1>2, <1>9, KernelAssumption DEF Objects
  <2> QED
    BY <1>8, <2>1, PendSame
<1>11. Pended(s2.pend, s2.pendOn, set.prio) /\ s2.pend \in [Objects -> Seq(Tasks)]
  <2>1. /\ Pended(Join(off.pend, set.prio, o, t), [off.pendOn EXCEPT ![t] = o], set.prio)
        /\ Join(off.pend, set.prio, o, t) \in [Objects -> Seq(Tasks)]
    BY <1>0, <1>2, <1>8, <1>9, <1>10, PendGain
  <2> QED
    BY <1>7, <2>1
<1>12. s2.pendOn = s.pendOn
  BY <1>0, <1>4, <1>7
<1>13. Frame(s, s2, W)
  <2>1. Frame(s, set, W) /\ Frame(set, off, W) /\ Frame(off, s2, W)
    BY <1>1, <1>4, <1>7, FrameWiden
  <2> QED
    BY <2>1, FrameTrans
<1>14. s2.prio = set.prio
  BY <1>6, <1>7 DEF Frame, Fields
<1>15. s2.rdy = s.rdy /\ s2.astray = s.astray /\ s2.failed = s.failed
  BY <1>13 DEF Frame, Fields
<1>16. Types(s2)
  BY <1>0, <1>2, <1>11, <1>12, <1>13, <1>14 DEF Types, Frame, Fields
<1>17. Readied(s2.rdy, Awake(s), s2.prio)
  <2>1. \A u \in Awake(s) : s2.prio[u] = s.prio[u]
    BY <1>0, <1>2, <1>14 DEF Awake
  <2> QED
    BY <1>0, <1>15, <2>1, ReadySame
<1>18. Frame(s, s2, {"prio", "prioCur", "rdy", "pend", "pendOn", "failed", "astray"})
  BY <1>13, FrameWiden
<1>19. Reprio(s, s2)
  BY <1>11, <1>12, <1>14, <1>15, <1>16, <1>17, <1>18, CoreReprio
<1> QED
  BY <1>2, <1>14, <1>19 DEF s2, set

\* The history flags may be raised on the way.
LEMMA FlagReprio ==
  ASSUME NEW s, NEW x, NEW s2, Reprio(s, x), Frame(x, s2, {"failed", "astray"}),
         s2.failed \in BOOLEAN, s2.astray \in BOOLEAN, x.astray => s2.astray, x.failed => s2.failed
  PROVE  Reprio(s, s2)
<1>1. Types(x) /\ Core(x, {})
  BY DEF Reprio, Core
<1>2. Types(s2)
  BY <1>1 DEF Types, Frame, Fields
<1>3. s2.wait = x.wait /\ s2.suspends = x.suspends /\ s2.pendOn = x.pendOn
  BY DEF Frame, Fields
<1>4. Awake(s2) = Awake(x)
  BY <1>3 DEF Awake, Ready, Suspended
<1>5. Frame(x, s2, {"cur", "prioCur", "suspends", "base", "status", "dlys", "timeouts",
                       "grp", "failed", "rare", "astray", "held", "due"})
  BY FrameWiden
<1>6. Core(s2, {})
  BY <1>1, <1>2, <1>4, <1>5, CoreSame
<1>7. Frame(s, s2, {"prio", "prioCur", "rdy", "pend", "pendOn", "failed", "astray"})
  <2>1. Frame(x, s2, {"prio", "prioCur", "rdy", "pend", "pendOn", "failed", "astray"})
    BY FrameWiden
  <2> QED
    BY <2>1, FrameTrans DEF Reprio
<1> QED
  BY <1>3, <1>6, <1>7 DEF Reprio

\* A mutex that a task waits for has an owner.
LEMMA OwnerExists ==
  ASSUME NEW s, NEW D, Core(s, D), NEW t \in Tasks, s.pendOn[t] \in Mutexes
  PROVE  s.owner[s.pendOn[t]] \in Tasks /\ s.nest[s.pendOn[t]] # 0
<1>1. s.pendOn[t] \in Objects /\ s.owner[s.pendOn[t]] \in Tasks \cup {Nothing}
  BY DEF Core, Types, Objects
<1>2. s.pend[s.pendOn[t]] # << >>
  BY <1>1, EmptyIff DEF Core
<1> QED
  BY <1>1, <1>2 DEF Core, Owned

\* Where the loop of OS_TaskChangePrio stands.
Chains == [s: States, task: Tasks \cup {Nothing}, to: Prios]

\* One round of the loop is such a change, in every branch.
LEMMA ChangeOneReprio ==
  ASSUME NEW c \in Chains, Core(c.s, {}), c.task \in Tasks
  PROVE  Reprio(c.s, ChangeOne(c).s) /\ ChangeOne(c) \in Chains
<1> DEFINE s == c.s
           t == c.task
           p == c.to
           set   == [s EXCEPT !.prio[t] = p]
           moved == RdyListRemove(s, t)
           queued == [moved EXCEPT !.prio[t] = p]
           listed == PendListChangePrio(set, t)
           o     == s.owner[s.pendOn[t]]
           lower == Disinherited(listed, o)
           done(x) == [s |-> x, task |-> Nothing, to |-> p]
           next(prio) == IF prio = listed.prio[o] THEN done(listed)
                         ELSE [s |-> listed, task |-> o, to |-> prio]
           pends == s.wait[t] \in {"PEND", "PEND_TIMEOUT"}
           d == ChangeOne(c)
<1>0. /\ Core(s, {}) /\ t \in Tasks /\ p \in Prios /\ Types(s) /\ Shape(s)
      /\ s.wait[t] \in Waits /\ s.pendOn[t] \in Objects \cup {Nothing}
      /\ Nothing \notin Objects
  BY KernelAssumption DEF Core, Types, Chains, Objects
<1>1. d = CASE s.wait[t] = "DEL" -> done(s)
            [] Ready(s, t) -> done(IF t = s.cur THEN RdyListInsertHead(queued, t)
                                                ELSE RdyListInsertTail(queued, t))
            [] s.wait[t] \in {"RDY", "DLY"} /\ ~Ready(s, t) -> done(set)
            [] pends /\ s.pendOn[t] = Nothing -> done([set EXCEPT !.failed = TRUE])
            [] pends /\ s.pendOn[t] \in Sems -> done(listed)
            [] pends /\ s.pendOn[t] \in Mutexes ->
                 IF s.prio[t] > p
                 THEN IF listed.prio[o] <= p THEN done(listed) ELSE next(p)
                 ELSE IF listed.prio[o] = s.prio[t] THEN next(lower)
                      ELSE [s |-> [listed EXCEPT !.astray = TRUE], task |-> o, to |-> p]
  BY DEF ChangeOne
<1>2. ASSUME NEW x, Reprio(s, x), NEW u \in Tasks \cup {Nothing}, NEW q \in Prios,
             d = [s |-> x, task |-> u, to |-> q]
      PROVE  Reprio(s, d.s) /\ d \in Chains
  <2>1. x \in States
    BY <1>2, TypesState DEF Reprio, Core
  <2> QED
    BY <1>2, <2>1 DEF Chains
<1>3. /\ Frame(s, set, {"prio"}) /\ set.prio = [s.prio EXCEPT ![t] = p]
      /\ set.failed = s.failed
  BY <1>0 DEF Shape, Frame, Fields
<1> HIDE DEF d, set, s, t, p
<1>4. CASE s.wait[t] = "DEL"
  <2>1. d = done(s)
    BY <1>1, <1>4 DEF Ready
  <2>2. Reprio(s, s)
    BY <1>0, ReprioRefl
  <2> QED
    BY <1>0, <1>2, <2>1, <2>2 DEF s, d
<1>5. CASE Ready(s, t)
  <2> DEFINE x == IF t = s.cur THEN RdyListInsertHead(queued, t) ELSE RdyListInsertTail(queued, t)
  <2>1. d = done(x)
    BY <1>1, <1>5 DEF Ready
  <2>2. Reprio(s, x)
    <3>0. Shape(moved) /\ moved.prio = s.prio /\ moved.prioCur = s.prioCur
      <4>1. Frame(s, moved, {"rdy"})
        BY <1>0, RemoveFields
      <4> QED
        BY <4>1 DEF Frame, Fields
    <3>1. /\ Frame(moved, queued, {"prio", "prioCur"}) /\ queued.prio = [s.prio EXCEPT ![t] = p]
          /\ queued.prioCur \in -1..IdlePrio
      <4>1. s.prioCur \in -1..IdlePrio
        BY <1>0 DEF Types
      <4> HIDE DEF moved
      <4>2. /\ Frame(moved, queued, {"prio", "prioCur"}) /\ queued.prio = [moved.prio EXCEPT ![t] = p]
            /\ queued.prioCur = moved.prioCur
        BY <3>0 DEF Shape, Frame, Fields
      <4> QED
        BY <3>0, <4>1, <4>2
    <3>2. x = RdyListInsertTail(queued, t) \/ x = RdyListInsertHead(queued, t)
      OBVIOUS
    <3> HIDE DEF queued, x
    <3> QED
      BY <1>0, <1>5, <3>1, <3>2, ReadyReprio
  <2> HIDE DEF x
  <2> QED
    BY <1>0, <1>2, <2>1, <2>2 DEF s, d
<1>6. CASE s.wait[t] \in {"RDY", "DLY"} /\ ~Ready(s, t)
  <2>1. d = done(set)
    BY <1>1, <1>6 DEF Ready
  <2>2. s.pendOn[t] = Nothing
    BY <1>0, <1>6 DEF Core, Waiters, Pending
  <2>3. Frame(s, set, {"prio", "failed"}) /\ set.failed \in BOOLEAN
    BY <1>0, <1>3, FrameWiden DEF Types
  <2>4. Reprio(s, set)
    BY <1>0, <1>3, <1>6, <2>2, <2>3, SetReprio
  <2> QED
    BY <1>0, <1>2, <2>1, <2>4 DEF s, d
<1>7. CASE pends /\ s.pendOn[t] = Nothing
  <2> DEFINE x == [set EXCEPT !.failed = TRUE]
  <2>1. d = done(x)
    BY <1>0, <1>1, <1>7, KernelAssumption DEF Ready, Objects
  <2>2. Frame(set, x, {"failed"}) /\ x.failed = TRUE
    BY <1>3 DEF Shape, Frame, Fields
  <2> HIDE DEF x
  <2>3. x.prio = set.prio
    BY <2>2 DEF Frame, Fields
  <2>4. Frame(s, x, {"prio", "failed"})
    <3>1. Frame(s, set, {"prio", "failed"}) /\ Frame(set, x, {"prio", "failed"})
      BY <1>3, <2>2, FrameWiden
    <3> QED
      BY <3>1, FrameTrans
  <2>5. ~Ready(s, t)
    BY <1>7 DEF Ready
  <2>6. Reprio(s, x)
    BY <1>0, <1>3, <1>7, <2>2, <2>3, <2>4, <2>5, SetReprio
  <2> QED
    BY <1>0, <1>2, <2>1, <2>6 DEF s, d
<1>8. CASE pends /\ s.pendOn[t] # Nothing
  <2>1. Reprio(s, listed) /\ listed.prio \in [Tasks -> Prios]
    BY <1>0, <1>8, PendReprio DEF set
  <2>2. Types(listed) /\ Shape(listed) /\ listed.failed \in BOOLEAN
    BY <2>1 DEF Reprio, Core, Types
  <2>3. CASE s.pendOn[t] \in Sems
    <3>1. d = done(listed)
      BY <1>0, <1>1, <1>8, <2>3, KernelAssumption DEF Ready, Objects
    <3> HIDE DEF listed
    <3> QED
      BY <1>0, <1>2, <2>1, <3>1 DEF s, d
  <2>4. CASE s.pendOn[t] \in Mutexes
    <3>0. o \in Tasks
      BY <1>0, <2>4, OwnerExists
    <3>1. d = IF s.prio[t] > p
              THEN IF listed.prio[o] <= p THEN done(listed) ELSE next(p)
              ELSE IF listed.prio[o] = s.prio[t] THEN next(lower)
                   ELSE [s |-> [listed EXCEPT !.astray = TRUE], task |-> o, to |-> p]
      BY <1>0, <1>1, <1>8, <2>4, KernelAssumption DEF Ready, Objects
    <3>2. lower \in Prios
      BY <2>2, <3>0, DisinheritedType
    <3> DEFINE lost == [listed EXCEPT !.astray = TRUE]
    <3>3. Frame(listed, lost, {"failed", "astray"}) /\ lost.astray = TRUE /\ lost.failed = listed.failed
      BY <2>2 DEF Shape, Frame, Fields
    <3> HIDE DEF listed, lost, lower, o
    <3>4. Reprio(s, lost)
      BY <2>1, <2>2, <3>3, FlagReprio
    <3>5. \/ d = done(listed)
          \/ d = [s |-> listed, task |-> o, to |-> p]
          \/ d = [s |-> listed, task |-> o, to |-> lower]
          \/ d = [s |-> lost, task |-> o, to |-> p]
      BY <3>1 DEF lost
    <3>6. CASE d = done(listed)
      BY <1>0, <1>2, <2>1, <3>6 DEF s, d
    <3>7. CASE d = [s |-> listed, task |-> o, to |-> p]
      BY <1>0, <1>2, <2>1, <3>0, <3>7 DEF s, d
    <3>8. CASE d = [s |-> listed, task |-> o, to |-> lower]
      BY <1>0, <1>2, <2>1, <3>0, <3>2, <3>8 DEF s, d
    <3>9. CASE d = [s |-> lost, task |-> o, to |-> p]
      BY <1>0, <1>2, <3>0, <3>4, <3>9 DEF s, d
    <3> QED
      BY <3>5, <3>6, <3>7, <3>8, <3>9
  <2> QED
    BY <1>0, <1>8, <2>3, <2>4 DEF Objects
<1>9. \/ s.wait[t] = "DEL"
      \/ Ready(s, t)
      \/ s.wait[t] \in {"RDY", "DLY"} /\ ~Ready(s, t)
      \/ pends
  BY <1>0 DEF Waits
<1> QED
  BY <1>4, <1>5, <1>6, <1>7, <1>8, <1>9

\* So is the whole chain of owners, however long it is.
LEMMA TaskChangePrioReprio ==
  ASSUME NEW s, Core(s, {}), NEW t \in Tasks, NEW p \in Prios
  PROVE  Reprio(s, TaskChangePrio(s, t, p))
<1> DEFINE one(c) == IF c.task = Nothing THEN c ELSE ChangeOne(c)
           last == 3 * Cardinality(Tasks)
           first == [s |-> s, task |-> t, to |-> p]
           F == [x \in (1..last) \X Chains |-> one(x[2])]
           G == [i \in 0..last |-> {c \in Chains : Reprio(s, c.s)}]
           H(f) == [i \in 0..last |-> IF i = 0 THEN first ELSE one(f[i - 1])]
           round == CHOOSE f : f = H(f)
           end == round[last]
           s2 == TaskChangePrio(s, t, p)
<1>0. last \in Nat
  BY FS_CardinalityType, KernelAssumption
<1>1. s2 = [end.s EXCEPT !.failed = @ \/ end.task # Nothing]
  BY DEF TaskChangePrio
<1> HIDE DEF last
<1>2. \A n \in 1..last : \A c \in Chains : F[<<n, c>>] = one(c)
  OBVIOUS
<1>3. \A n \in 0..last : \A c : c \in G[n] <=> c \in Chains /\ Reprio(s, c.s)
  OBVIOUS
<1>4. first \in Chains /\ first.s = s
  BY TypesState DEF Core, Chains
<1>5. first \in G[0]
  BY <1>0, <1>3, <1>4, ReprioRefl
<1> HIDE DEF F, G, first
<1>6. \A n \in 1..last : \A c \in G[n - 1] : F[<<n, c>>] \in G[n]
  <2> SUFFICES ASSUME NEW n \in 1..last, NEW c \in G[n - 1] PROVE F[<<n, c>>] \in G[n]
    OBVIOUS
  <2>1. n - 1 \in 0..last /\ n \in 0..last
    BY <1>0
  <2>2. c \in Chains /\ Reprio(s, c.s)
    BY <1>3, <2>1
  <2>3. one(c) \in Chains /\ Reprio(s, one(c).s)
    <3>1. CASE c.task = Nothing
      BY <2>2, <3>1
    <3>2. CASE c.task # Nothing
      <4>1. c.task \in Tasks /\ Core(c.s, {})
        BY <2>2, <3>2 DEF Chains, Reprio
      <4>2. ChangeOne(c) \in Chains /\ Reprio(c.s, ChangeOne(c).s)
        BY <2>2, <4>1, ChangeOneReprio
      <4> QED
        BY <2>2, <3>2, <4>2, ReprioTrans
    <3> QED
      BY <3>1, <3>2
  <2> HIDE DEF one
  <2> QED
    BY <1>2, <1>3, <2>1, <2>2, <2>3
<1>7. PICK g : Fold(g, last, first, F, G)
  BY <1>0, <1>5, <1>6, FoldExists
<1> HIDE DEF one
<1>8. /\ g = [i \in 0..last |-> g[i]] /\ g[0] = first
      /\ \A i \in 1..last : g[i] = one(g[i - 1])
      /\ g[last] \in G[last]
  <2>1. \A i \in 1..last : g[i - 1] \in Chains
    <3>1. \A i \in 1..last : i - 1 \in 0..last
      BY <1>0
    <3> QED
      BY <1>3, <1>7, <3>1 DEF Fold
  <2>2. last \in 0..last
    BY <1>0
  <2> QED
    BY <1>2, <1>7, <2>1, <2>2 DEF Fold
<1>9. g = H(g)
  <2>1. \A i \in 0..last : g[i] = IF i = 0 THEN first ELSE one(g[i - 1])
    <3>1. \A i \in 0..last : i # 0 => i \in 1..last
      BY <1>0
    <3> QED
      BY <1>8, <3>1
  <2> QED
    BY <1>8, <2>1
<1>10. round = H(round)
  <2> HIDE DEF H
  <2> QED
    BY <1>9
<1> HIDE DEF round
<1>11. round[0] = first /\ \A n \in 1..last : round[n] = one(round[n - 1])
  BY <1>0, <1>10
<1>12. round[last] = g[last]
  <2>1. \A n \in 1..last : round[n - 1] = g[n - 1] => round[n] = g[n]
    BY <1>8, <1>11
  <2>2. round[0] = g[0]
    BY <1>8, <1>11
  <2> QED
    BY <1>0, <2>1, <2>2, FoldAgree
<1>13. end \in Chains /\ Reprio(s, end.s)
  <2>1. last \in 0..last
    BY <1>0
  <2> QED
    BY <1>3, <1>8, <1>12, <2>1
<1> HIDE DEF end, s2
<1>14. Types(end.s) /\ Shape(end.s)
  BY <1>13 DEF Reprio, Core, Types
<1>15. /\ Frame(end.s, s2, {"failed", "astray"})
       /\ s2.failed = (end.s.failed \/ end.task # Nothing) /\ s2.astray = end.s.astray
  BY <1>1, <1>14 DEF Shape, Frame, Fields
<1>16. s2.failed \in BOOLEAN /\ s2.astray \in BOOLEAN /\ (end.s.failed => s2.failed)
  BY <1>14, <1>15 DEF Types
<1>17. Reprio(s, s2)
  BY <1>13, <1>15, <1>16, FlagReprio
<1> QED
  BY <1>17 DEF s2

\* So is the loss of an inherited priority.
LEMMA DisinheritReprio ==
  ASSUME NEW s, Core(s, {}), NEW o \in Tasks, NEW t
  PROVE  Reprio(s, Disinherit(s, o, t))
<1>1. Disinherited(s, o) \in Prios
  BY DisinheritedType DEF Core
<1>2. Reprio(s, s) /\ Reprio(s, TaskChangePrio(s, o, Disinherited(s, o)))
  BY <1>1, ReprioRefl, TaskChangePrioReprio
<1> QED
  BY <1>2 DEF Disinherit

\* What depends on other fields is kept when priorities change.
LEMMA ReprioKeeps ==
  ASSUME NEW s, NEW s2, Reprio(s, s2), NEW D
  PROVE  /\ Ticks(s, D) => Ticks(s2, D)
         /\ Blocked(s, D) => Blocked(s2, D)
         /\ Hold(s) => Hold(s2)
<1>1. /\ s2.wait = s.wait /\ s2.pendOn = s.pendOn /\ s2.due = s.due /\ s2.dlys = s.dlys
      /\ s2.timeouts = s.timeouts /\ s2.held = s.held /\ s2.owner = s.owner /\ s2.grp = s.grp
      /\ s.astray => s2.astray
  BY DEF Reprio, Frame, Fields
<1> QED
  BY <1>1 DEF Ticks, Delayed, Timed, Blocked, Hold

-----------------------------------------------------------------------------
(* The invariant                                                             *)

\* What every service keeps, but for the tasks of D.
Kept(s, D) == Core(s, D) /\ Ticks(s, D) /\ Hold(s) /\ Blocked(s, D)

\* The rare calls so far bound the counts that only they increment.
Bounds(s) ==
  /\ s.rare <= MaxRare
  /\ \A t \in Tasks : s.suspends[t] <= s.rare
  /\ \A m \in Mutexes : s.nest[m] <= s.rare + 1

\* The inductive invariant: all of it, and the task that runs is ready.
IInv(s) ==
  /\ Kept(s, {}) /\ Bounds(s)
  /\ s.cur \in Tasks \cup {Idle}
  /\ ~s.failed /\ s.cur \in Tasks => Ready(s, s.cur)

\* Fields the invariant does not speak of.
LEMMA KeptSame ==
  ASSUME NEW s, NEW D, Kept(s, D), NEW s2, Types(s2),
         Frame(s, s2, {"cur", "prioCur", "base", "status", "failed", "rare"})
  PROVE  Kept(s2, D)
<1>1. /\ s2.wait = s.wait /\ s2.pendOn = s.pendOn /\ s2.due = s.due /\ s2.dlys = s.dlys
      /\ s2.timeouts = s.timeouts /\ s2.held = s.held /\ s2.owner = s.owner /\ s2.grp = s.grp
      /\ s2.astray = s.astray /\ s2.suspends = s.suspends
  BY DEF Frame, Fields
<1>2. Frame(s, s2, {"cur", "prioCur", "suspends", "base", "status", "dlys", "timeouts",
                       "grp", "failed", "rare", "astray", "held", "due"})
  BY FrameWiden
<1>3. Awake(s2) = Awake(s)
  BY <1>1 DEF Awake, Ready, Suspended
<1>4. Core(s2, D)
  BY <1>2, <1>3, CoreSame DEF Kept
<1> QED
  BY <1>1, <1>4 DEF Kept, Ticks, Delayed, Timed, Blocked, Hold

\* OSSched chooses a ready task, or the idle one.
LEMMA SchedInv ==
  ASSUME NEW s, Kept(s, {}), Bounds(s)
  PROVE  IInv(Sched(s))
<1> DEFINE M == {p \in Prios : s.rdy[p] # <<>>} \cup {IdlePrio}
           high == PrioGetHighest(s)
           next == IF high = IdlePrio THEN Idle ELSE Head(s.rdy[high])
           s2 == Sched(s)
<1>0. /\ Types(s) /\ Shape(s) /\ s.rdy \in [Prios -> Seq(Tasks)]
      /\ Readied(s.rdy, Awake(s), s.prio)
  <2>1. Awake(s) \ {} = Awake(s)
    OBVIOUS
  <2> QED
    BY <2>1 DEF Kept, Core, Types
<1>1. IdlePrio \in Nat /\ IdlePrio \notin Prios /\ Prios \subseteq Nat /\ Prios \subseteq -1..IdlePrio
      /\ IdlePrio \in -1..IdlePrio /\ Idle \notin Tasks
  BY KernelAssumption DEF IdlePrio, Prios
<1>2. M \in SUBSET Nat /\ M # {}
  BY <1>1
<1>3. high \in M
  BY <1>2, MinLemma DEF PrioGetHighest
<1>4. high \in Prios \cup {IdlePrio} /\ high \in -1..IdlePrio
      /\ (high # IdlePrio => high \in Prios /\ s.rdy[high] # << >>)
  BY <1>1, <1>3
<1> HIDE DEF high
<1>5. high # IdlePrio => next \in Tasks /\ next \in Awake(s)
  <2> SUFFICES ASSUME high # IdlePrio PROVE next \in Tasks /\ next \in Awake(s)
    OBVIOUS
  <2>1. high \in Prios /\ s.rdy[high] # << >> /\ s.rdy[high] \in Seq(Tasks)
    BY <1>0, <1>4
  <2>2. next = Head(s.rdy[high])
    OBVIOUS
  <2>3. Head(s.rdy[high]) \in ToSet(s.rdy[high]) /\ ToSet(s.rdy[high]) \subseteq Tasks
    BY <2>1, SetFacts
  <2> QED
    BY <1>0, <2>1, <2>2, <2>3 DEF Readied
<1>6. next \in Tasks \cup {Idle} /\ (next \in Tasks => Ready(s, next))
  BY <1>1, <1>5 DEF Awake
<1>7. s2 = IF next = s.cur THEN s ELSE [s EXCEPT !.cur = next, !.prioCur = high]
  BY DEF Sched, high
<1> HIDE DEF next, s2
<1>8. /\ Frame(s, s2, {"cur", "prioCur"}) /\ s2.cur = next
      /\ s2.prioCur \in -1..IdlePrio
  <2>1. CASE next = s.cur
    BY <1>0, <1>7, <2>1 DEF Frame, Types
  <2>2. CASE next # s.cur
    BY <1>0, <1>4, <1>7, <2>2 DEF Shape, Frame, Fields
  <2> QED
    BY <2>1, <2>2
<1>9. Types(s2)
  BY <1>0, <1>6, <1>8 DEF Types, Frame, Fields
<1>10. Kept(s2, {})
  <2>1. Frame(s, s2, {"cur", "prioCur", "base", "status", "failed", "rare"})
    BY <1>8, FrameWiden
  <2> QED
    BY <1>9, <2>1, KeptSame
<1>11. s2.wait = s.wait /\ s2.suspends = s.suspends /\ s2.nest = s.nest /\ s2.rare = s.rare
  BY <1>8 DEF Frame, Fields
<1>12. Bounds(s2)
  BY <1>11 DEF Bounds
<1>13. s2.cur \in Tasks => Ready(s2, s2.cur)
  BY <1>6, <1>8, <1>11 DEF Ready, Suspended
<1>14. IInv(s2)
  BY <1>6, <1>8, <1>10, <1>12, <1>13 DEF IInv
<1> QED
  BY <1>14 DEF s2

\* What a service leaves behind, when it has returned.
LEMMA ReturnInv ==
  ASSUME NEW s, Kept(s, {}), Bounds(s), s.cur \in Tasks \cup {Idle}
  PROVE  IInv(IF s.failed THEN s ELSE Sched(s))
BY SchedInv DEF IInv

\* Counting a rare call changes nothing else.
LEMMA CountedKept ==
  ASSUME NEW s, Kept(s, {})
  PROVE  /\ Kept(Counted(s), {}) /\ Frame(s, Counted(s), {"rare"})
         /\ Counted(s).rare = s.rare + 1
<1>0. Types(s) /\ Shape(s)
  BY DEF Kept, Core, Types
<1>1. Frame(s, Counted(s), {"rare"}) /\ Counted(s).rare = s.rare + 1
  BY <1>0 DEF Counted, Frame, Shape, Fields
<1>2. Types(Counted(s))
  <2>1. Counted(s).rare \in Nat
    BY <1>0, <1>1 DEF Types
  <2> QED
    BY <1>0, <1>1, <2>1 DEF Types, Frame, Fields
<1>3. Frame(s, Counted(s), {"cur", "prioCur", "base", "status", "failed", "rare"})
  BY <1>1, FrameWiden
<1> QED
  BY <1>1, <1>2, <1>3, KeptSame

-----------------------------------------------------------------------------
(* Waits that end                                                            *)

\* What the end of a wait changes.
EndFields == {"pend", "pendOn", "timeouts", "status", "held", "wait", "due", "rdy"}

\* From s to s2 the task t has stopped to wait, and no other.
Unwaits(s, s2, t) ==
  \A u \in Tasks : /\ s2.wait[u] = IF u = t THEN "RDY" ELSE s.wait[u]
                  /\ s2.pendOn[u] = IF u = t THEN Nothing ELSE s.pendOn[u]

\* One wait that ends: the task leaves both lists and is readied.
LEMMA EndPendKept ==
  ASSUME NEW s, NEW D, Kept(s, D), NEW t \in Tasks, t \notin D, s.pendOn[t] # Nothing,
         NEW status \in Statuses, status = "OK" => s.pendOn[t] \notin Mutexes
  PROVE  /\ Kept(EndPend(s, t, status), D)
         /\ Frame(s, EndPend(s, t, status), EndFields)
         /\ EndPend(s, t, status).held = s.held
         /\ Unwaits(s, EndPend(s, t, status), t)
<1> DEFINE s2 == EndPend(s, t, status)
           got == IF status = "OK" THEN {s.pendOn[t]} \cap Mutexes ELSE {}
<1>0. /\ Types(s) /\ s.wait \in [Tasks -> Waits] /\ s.held \in [Tasks -> SUBSET Mutexes]
      /\ s.pendOn \in [Tasks -> Objects \cup {Nothing}]
  BY DEF Kept, Core, Types
<1>1. /\ Core(s2, D) /\ Ticks(s2, D)
      /\ Frame(s, s2, EndFields)
      /\ s2.wait = [s.wait EXCEPT ![t] = "RDY"]
      /\ s2.pendOn = [s.pendOn EXCEPT ![t] = Nothing]
      /\ s2.held = [s.held EXCEPT ![t] = s.held[t] \cup got]
  BY EndPendCore DEF Kept, EndFields
<1>2. got = {}
  OBVIOUS
<1> HIDE DEF s2, got
<1>3. s2.held = s.held
  BY <1>0, <1>1, <1>2
<1>4. s2.owner = s.owner /\ s2.grp = s.grp /\ s2.astray = s.astray
  BY <1>1 DEF Frame, Fields, EndFields
<1>5. \A u \in Tasks : /\ s2.wait[u] = IF u = t THEN "RDY" ELSE s.wait[u]
                       /\ s2.pendOn[u] = IF u = t THEN Nothing ELSE s.pendOn[u]
  BY <1>0, <1>1
<1>6. Hold(s2)
  BY <1>3, <1>4, <1>5 DEF Kept, Hold
<1>7. Blocked(s2, D)
  BY <1>5 DEF Kept, Blocked, Pending
<1>8. Kept(s2, D)
  BY <1>1, <1>6, <1>7 DEF Kept
<1>9. Unwaits(s, s2, t)
  BY <1>5 DEF Unwaits
<1> QED
  BY <1>1, <1>3, <1>8, <1>9 DEF s2

\* The tasks of q all wait, and for no mutex if they are to get what they want.
Ending(s, q, status) ==
  /\ q \in Seq(Tasks) /\ Uniq(q) /\ status \in Statuses
  /\ \A i \in 1..Len(q) : /\ s.pendOn[q[i]] # Nothing
                          /\ status = "OK" => s.pendOn[q[i]] \notin Mutexes

\* The waits of many tasks end, in any number.
LEMMA EndPendsKept ==
  ASSUME NEW s, Kept(s, {}), NEW q, NEW status, Ending(s, q, status)
  PROVE  /\ Kept(EndPends(s, q, status), {})
         /\ Frame(s, EndPends(s, q, status), EndFields)
         /\ EndPends(s, q, status).held = s.held
         /\ \A t \in Tasks : EndPends(s, q, status).pendOn[t] =
                               IF t \in ToSet(q) THEN Nothing ELSE s.pendOn[t]
         /\ \A t \in Tasks : s.wait[t] = "DEL" => EndPends(s, q, status).wait[t] = "DEL"
<1> DEFINE N == Len(q)
           Good(n, x) == /\ Kept(x, {}) /\ Frame(s, x, EndFields) /\ x.held = s.held
                         /\ \A t \in Tasks : x.pendOn[t] =
                              IF \E i \in 1..n : q[i] = t THEN Nothing ELSE s.pendOn[t]
                         /\ \A t \in Tasks : s.wait[t] = "DEL" => x.wait[t] = "DEL"
           F == [p \in (1..N) \X States |-> EndPend(p[2], q[p[1]], status)]
           G == [n \in 0..N |-> {x \in States : Good(n, x)}]
           H(f) == [n \in 0..N |-> IF n = 0 THEN s ELSE EndPend(f[n - 1], q[n], status)]
           after == CHOOSE f : f = H(f)
           s2 == EndPends(s, q, status)
<1>0. /\ N \in Nat /\ DOMAIN q = 1..N /\ \A i \in 1..N : q[i] \in Tasks
      /\ status \in Statuses
      /\ \A i \in 1..N : /\ s.pendOn[q[i]] # Nothing
                         /\ status = "OK" => s.pendOn[q[i]] \notin Mutexes
  <2>1. q \in Seq(Tasks) /\ status \in Statuses
    BY DEF Ending
  <2>2. N \in Nat /\ DOMAIN q = 1..N /\ \A i \in 1..N : q[i] \in Tasks
    BY <2>1, SetFacts, ElementOfSeq
  <2>3. \A i \in 1..N : /\ s.pendOn[q[i]] # Nothing
                        /\ status = "OK" => s.pendOn[q[i]] \notin Mutexes
    BY Zenon DEF Ending
  <2> QED
    BY <2>1, <2>2, <2>3
<1>1. s2 = after[N]
  BY DEF EndPends
<1> HIDE DEF N, s2
<1>2. \A n \in 1..N : \A x \in States : F[<<n, x>>] = EndPend(x, q[n], status)
  OBVIOUS
<1>3. \A n \in 0..N : \A x : x \in G[n] <=> x \in States /\ Good(n, x)
  OBVIOUS
<1>4. Good(0, s) /\ s \in States
  <2>1. Types(s) /\ Frame(s, s, EndFields)
    BY DEF Kept, Core, Types, Frame
  <2>2. \A t \in Tasks : ~\E i \in 1..0 : q[i] = t
    OBVIOUS
  <2> QED
    BY <2>1, <2>2, TypesState
<1>5. s \in G[0]
  BY <1>0, <1>3, <1>4
<1>6. ASSUME NEW n \in 1..N, NEW x, Good(n - 1, x)
      PROVE  Good(n, EndPend(x, q[n], status))
  <2> DEFINE y == EndPend(x, q[n], status)
             t == q[n]
  <2>1. t \in Tasks /\ ~\E i \in 1..n - 1 : q[i] = t
    <3>1. \A i \in 1..n - 1 : i \in 1..N /\ i # n
      BY <1>0
    <3> QED
      BY <1>0, <3>1 DEF Uniq, Ending
  <2>2. x.pendOn[t] = s.pendOn[t]
    BY <1>6, <2>1
  <2>3. /\ s.pendOn[t] # Nothing /\ status \in Statuses
        /\ status = "OK" => s.pendOn[t] \notin Mutexes
    BY <1>0
  <2>4. Kept(x, {}) /\ Frame(s, x, EndFields) /\ x.held = s.held /\ t \notin {}
    BY <1>6
  <2> HIDE DEF y, t
  <2>5. /\ Kept(y, {}) /\ Frame(x, y, EndFields) /\ y.held = x.held
        /\ Unwaits(x, y, t)
    <3>1. y = EndPend(x, t, status)
      BY DEF y, t
    <3>2. /\ Kept(EndPend(x, t, status), {}) /\ Frame(x, EndPend(x, t, status), EndFields)
          /\ EndPend(x, t, status).held = x.held
          /\ Unwaits(x, EndPend(x, t, status), t)
      <4>1. x.pendOn[t] # Nothing /\ (status = "OK" => x.pendOn[t] \notin Mutexes)
        BY <2>2, <2>3
      <4> QED
        BY <2>1, <2>3, <2>4, <4>1, EndPendKept
    <3> QED
      BY <3>1, <3>2
  <2>6. Frame(s, y, EndFields)
    BY <2>4, <2>5, FrameTrans
  <2>7. ASSUME NEW u \in Tasks
        PROVE y.pendOn[u] = IF \E i \in 1..n : q[i] = u THEN Nothing ELSE s.pendOn[u]
    <3>2. y.pendOn[u] = IF u = t THEN Nothing ELSE x.pendOn[u]
      BY <2>5 DEF Unwaits
    <3>3. x.pendOn[u] = IF \E i \in 1..n - 1 : q[i] = u THEN Nothing ELSE s.pendOn[u]
      BY <1>6
    <3>4. (\E i \in 1..n : q[i] = u) <=> u = t \/ \E i \in 1..n - 1 : q[i] = u
      <4>1. \A i : i \in 1..n <=> i = n \/ i \in 1..n - 1
        BY <1>0
      <4> QED
        BY <4>1 DEF t
    <3> QED
      BY <3>2, <3>3, <3>4
  <2>8. ASSUME NEW u \in Tasks, s.wait[u] = "DEL" PROVE y.wait[u] = "DEL"
    <3>1. s.wait[t] \in Pending
      BY <2>1, <2>3 DEF Kept, Core, Waiters
    <3>2. u # t
      BY <2>8, <3>1 DEF Pending
    <3>3. x.wait[u] = "DEL"
      BY <1>6, <2>8
    <3> QED
      BY <2>5, <3>2, <3>3 DEF Unwaits
  <2>9. Good(n, y)
    BY <2>4, <2>5, <2>6, <2>7, <2>8
  <2> QED
    BY <2>9 DEF y
<1>7. \A n \in 1..N : \A x \in G[n - 1] : F[<<n, x>>] \in G[n]
  <2> SUFFICES ASSUME NEW n \in 1..N, NEW x \in G[n - 1] PROVE F[<<n, x>>] \in G[n]
    OBVIOUS
  <2> HIDE DEF F, G
  <2>1. n - 1 \in 0..N /\ n \in 0..N
    BY <1>0
  <2>2. x \in States /\ Good(n - 1, x)
    BY <1>3, <2>1
  <2>3. Good(n, EndPend(x, q[n], status))
    BY <1>6, <2>2
  <2>4. EndPend(x, q[n], status) \in States
    BY <2>3, TypesState DEF Kept, Core
  <2> QED
    BY <1>2, <1>3, <2>1, <2>2, <2>3, <2>4
<1> HIDE DEF F, G, Good
<1>8. PICK g : Fold(g, N, s, F, G)
  BY <1>0, <1>5, <1>7, FoldExists
<1>9. /\ g = [i \in 0..N |-> g[i]] /\ g[0] = s
      /\ \A i \in 1..N : g[i] = EndPend(g[i - 1], q[i], status)
      /\ g[N] \in G[N]
  <2>1. \A i \in 1..N : g[i - 1] \in States
    <3>1. \A i \in 1..N : i - 1 \in 0..N
      BY <1>0
    <3> QED
      BY <1>3, <1>8, <3>1 DEF Fold
  <2>2. N \in 0..N
    BY <1>0
  <2> QED
    BY <1>2, <1>8, <2>1, <2>2 DEF Fold
<1>10. g = H(g)
  <2>1. \A i \in 0..N : g[i] = IF i = 0 THEN s ELSE EndPend(g[i - 1], q[i], status)
    <3>1. \A i \in 0..N : i # 0 => i \in 1..N
      BY <1>0
    <3> QED
      BY <1>9, <3>1
  <2> QED
    BY <1>9, <2>1
<1>11. after = H(after)
  <2> HIDE DEF H
  <2> QED
    BY <1>10
<1> HIDE DEF after
<1>12. after[0] = s /\ \A n \in 1..N : after[n] = EndPend(after[n - 1], q[n], status)
  BY <1>0, <1>11
<1>13. after[N] = g[N]
  <2>1. \A n \in 1..N : after[n - 1] = g[n - 1] => after[n] = g[n]
    BY <1>9, <1>12
  <2>2. after[0] = g[0]
    BY <1>9, <1>12
  <2> QED
    BY <1>0, <2>1, <2>2, FoldAgree
<1>14. Good(N, s2)
  <2>1. N \in 0..N
    BY <1>0
  <2> QED
    BY <1>1, <1>3, <1>9, <1>13, <2>1
<1>15. \A t \in Tasks : t \in ToSet(q) <=> \E i \in 1..N : q[i] = t
  BY SetFacts DEF N, Ending
<1> QED
  BY <1>14, <1>15 DEF Good, s2

-----------------------------------------------------------------------------
(* A task waits                                                              *)

\* The invariant without what it says of holders.
Listed(s, D) == Core(s, D) /\ Ticks(s, D) /\ Blocked(s, D)

\* Fields that the lists do not depend on.
LEMMA ListedSame ==
  ASSUME NEW s, NEW D, Listed(s, D), NEW s2, Types(s2), Owned(s2),
         Frame(s, s2, {"cur", "prioCur", "base", "status", "grp", "failed", "rare", "astray",
                       "held", "owner", "nest"})
  PROVE  Listed(s2, D)
<1>1. /\ s2.wait = s.wait /\ s2.pendOn = s.pendOn /\ s2.due = s.due /\ s2.dlys = s.dlys
      /\ s2.timeouts = s.timeouts /\ s2.suspends = s.suspends /\ s2.rdy = s.rdy
      /\ s2.prio = s.prio /\ s2.pend = s.pend /\ s2.ctr = s.ctr
  BY DEF Frame, Fields
<1>2. Awake(s2) = Awake(s)
  BY <1>1 DEF Awake, Ready, Suspended
<1>3. Core(s2, D)
  BY <1>1, <1>2 DEF Listed, Core, Waiters, Counts
<1> QED
  BY <1>1, <1>3 DEF Listed, Ticks, Delayed, Timed, Blocked

\* What OS_Pend changes.
PendFields == {"wait", "due", "timeouts", "status", "rdy", "pend", "pendOn"}

\* The running task waits: it enters the lists its state says.
LEMMA PendKept ==
  ASSUME NEW s, Kept(s, {}), s.cur \in Tasks, Ready(s, s.cur), NEW o \in Objects,
         o \in Mutexes => s.nest[o] # 0, o \in Sems => s.ctr[o] = 0, NEW time \in Nat
  PROVE  /\ Kept(Pend(s, o, time), {}) /\ Frame(s, Pend(s, o, time), PendFields)
         /\ \A u \in Tasks : /\ Pend(s, o, time).pendOn[u] = IF u = s.cur THEN o ELSE s.pendOn[u]
                             /\ s.wait[u] = "DEL" => Pend(s, o, time).wait[u] = "DEL"
<1> DEFINE t == s.cur
           list == IF time > 0 THEN TickListInsert(s.timeouts, t, time) ELSE s.timeouts
           name == IF time > 0 THEN "PEND_TIMEOUT" ELSE "PEND"
           timed == [s EXCEPT !.wait[t] = "PEND_TIMEOUT", !.due[t] = time,
                              !.timeouts = TickListInsert(@, t, time)]
           blocked == IF time > 0 THEN timed ELSE [s EXCEPT !.wait[t] = "PEND"]
           x == [blocked EXCEPT !.status[t] = "OK"]
           r == RdyListRemove(x, t)
           s2 == PendListInsertPrio(r, o, t)
<1>0. /\ Types(s) /\ Shape(s) /\ t \in Tasks /\ s.wait[t] = "RDY" /\ s.pendOn[t] = Nothing
      /\ s.wait \in [Tasks -> Waits] /\ s.due \in [Tasks -> Nat] /\ s.status \in [Tasks -> Statuses]
      /\ s.timeouts \in Seq(Tasks \X Nat) /\ s.pendOn \in [Tasks -> Objects \cup {Nothing}]
      /\ s.pend \in [Objects -> Seq(Tasks)] /\ s.prio \in [Tasks -> Prios]
      /\ s.rdy \in [Prios -> Seq(Tasks)] /\ Pended(s.pend, s.pendOn, s.prio)
      /\ Readied(s.rdy, Awake(s), s.prio)
  <2>1. Awake(s) \ {} = Awake(s)
    OBVIOUS
  <2> QED
    BY <2>1 DEF Kept, Core, Types, Waiters, Pending, Ready
<1>1. Pend(s, o, time) = s2
  BY DEF Pend
<1> HIDE DEF t
<1>2. /\ Frame(s, x, {"wait", "due", "timeouts", "status"}) /\ x.timeouts = list
      /\ x.wait = [s.wait EXCEPT ![t] = name]
      /\ x.due = IF time > 0 THEN [s.due EXCEPT ![t] = time] ELSE s.due
      /\ x.status = [s.status EXCEPT ![t] = "OK"]
  <2>1. /\ Frame(s, blocked, {"wait", "due", "timeouts"}) /\ blocked.timeouts = list
        /\ blocked.wait = [s.wait EXCEPT ![t] = name]
        /\ blocked.due = IF time > 0 THEN [s.due EXCEPT ![t] = time] ELSE s.due
    <3>1. CASE time > 0
      BY <1>0, <3>1 DEF Shape, Frame, Fields
    <3>2. CASE ~(time > 0)
      BY <1>0, <3>2 DEF Shape, Frame, Fields
    <3> QED
      BY <3>1, <3>2
  <2> HIDE DEF blocked, list, name
  <2>2. Shape(blocked) /\ blocked.status = s.status
    BY <2>1 DEF Frame, Fields
  <2>3. Frame(blocked, x, {"status"}) /\ x.status = [s.status EXCEPT ![t] = "OK"]
    BY <2>2 DEF Shape, Frame, Fields
  <2>4. Frame(s, blocked, {"wait", "due", "timeouts", "status"})
        /\ Frame(blocked, x, {"wait", "due", "timeouts", "status"})
    BY <2>1, <2>3, FrameWiden
  <2>5. Frame(s, x, {"wait", "due", "timeouts", "status"})
    BY <2>4, FrameTrans
  <2>6. x.timeouts = blocked.timeouts /\ x.wait = blocked.wait /\ x.due = blocked.due
    BY <2>3 DEF Frame, Fields
  <2> QED
    BY <2>1, <2>3, <2>5, <2>6
<1> HIDE DEF x
<1>3. Ticking(list, x.due, Timed(s) \cup (IF time > 0 THEN {t} ELSE {}))
  <2>1. Ticking(s.timeouts, s.due, Timed(s) \ {})
    BY DEF Kept, Ticks
  <2>2. Timed(s) \ {} = Timed(s) /\ t \notin Timed(s)
    BY <1>0 DEF Timed
  <2>3. CASE time > 0
    <3>1. time \in Nat \ {0} /\ Ticking(s.timeouts, s.due, Timed(s)) /\ t \notin Timed(s)
      BY <2>1, <2>2, <2>3
    <3>2. Ticking(TickListInsert(s.timeouts, t, time), [s.due EXCEPT ![t] = time], Timed(s) \cup {t})
      BY <1>0, <3>1, TickInsert
    <3> QED
      BY <1>2, <2>3, <3>2
  <2>4. CASE ~(time > 0)
    <3>1. Timed(s) \cup (IF time > 0 THEN {t} ELSE {}) = Timed(s)
      BY <2>4
    <3> QED
      BY <1>2, <2>1, <2>2, <2>4, <3>1
  <2> QED
    BY <2>3, <2>4
<1>4. list \in Seq(Tasks \X Nat) /\ name \in {"PEND", "PEND_TIMEOUT"} /\ (name = "PEND_TIMEOUT" <=> time > 0)
  BY <1>3 DEF Ticking, Summing
<1> HIDE DEF list, name
<1>5. /\ x.wait \in [Tasks -> Waits] /\ x.due \in [Tasks -> Nat] /\ x.status \in [Tasks -> Statuses]
      /\ \A u \in Tasks : /\ x.wait[u] = IF u = t THEN name ELSE s.wait[u]
                          /\ u # t => x.due[u] = s.due[u]
  BY <1>0, <1>2, <1>4 DEF Waits, Statuses
<1>6. Types(x)
  BY <1>0, <1>2, <1>4, <1>5 DEF Types, Frame, Fields
<1>7. Shape(x) /\ x.rdy = s.rdy /\ x.prio = s.prio /\ x.pend = s.pend /\ x.pendOn = s.pendOn
  BY <1>2, <1>6 DEF Frame, Fields, Types
<1>8. /\ Frame(x, r, {"rdy"})
      /\ r.rdy = [s.rdy EXCEPT ![s.prio[t]] = Without(s.rdy[s.prio[t]], t)]
  BY <1>7, RemoveFields
<1>9. Readied(r.rdy, Awake(s) \ {t}, s.prio) /\ r.rdy \in [Prios -> Seq(Tasks)]
  <2>1. /\ Readied([s.rdy EXCEPT ![s.prio[t]] = Without(s.rdy[s.prio[t]], t)], Awake(s) \ {t}, s.prio)
        /\ [s.rdy EXCEPT ![s.prio[t]] = Without(s.rdy[s.prio[t]], t)] \in [Prios -> Seq(Tasks)]
    BY <1>0, ReadyLose
  <2> QED
    BY <1>8, <2>1
<1> HIDE DEF r
<1>10. Shape(r) /\ r.pend = s.pend /\ r.pendOn = s.pendOn /\ r.prio = s.prio
  BY <1>7, <1>8 DEF Frame, Fields
<1>11. /\ Frame(r, s2, {"pend", "pendOn"})
       /\ s2.pend = Join(s.pend, s.prio, o, t)
       /\ s2.pendOn = [s.pendOn EXCEPT ![t] = o]
  BY <1>10, PendInsertFields
<1> HIDE DEF s2
<1>12. /\ Pended(s2.pend, s2.pendOn, s.prio) /\ s2.pend \in [Objects -> Seq(Tasks)]
  <2>1. /\ Pended(Join(s.pend, s.prio, o, t), [s.pendOn EXCEPT ![t] = o], s.prio)
        /\ Join(s.pend, s.prio, o, t) \in [Objects -> Seq(Tasks)]
    BY <1>0, PendGain
  <2> QED
    BY <1>11, <2>1
<1>13. Frame(s, s2, PendFields)
  <2>1. Frame(s, x, PendFields) /\ Frame(x, r, PendFields) /\ Frame(r, s2, PendFields)
    BY <1>2, <1>8, <1>11, FrameWiden DEF PendFields
  <2> QED
    BY <2>1, FrameTrans
<1>14. s2.wait = x.wait /\ s2.due = x.due /\ s2.status = x.status /\ s2.timeouts = list /\ s2.rdy = r.rdy
  BY <1>2, <1>8, <1>11 DEF Frame, Fields
<1>15. s2.pendOn \in [Tasks -> Objects \cup {Nothing}]
       /\ \A u \in Tasks : s2.pendOn[u] = IF u = t THEN o ELSE s.pendOn[u]
  BY <1>0, <1>11
<1>16. Types(s2)
  BY <1>0, <1>4, <1>5, <1>9, <1>12, <1>13, <1>14, <1>15 DEF Types, Frame, Fields, PendFields
<1>17. /\ s2.prio = s.prio /\ s2.suspends = s.suspends /\ s2.owner = s.owner /\ s2.nest = s.nest
       /\ s2.ctr = s.ctr /\ s2.dlys = s.dlys /\ s2.grp = s.grp /\ s2.held = s.held
       /\ s2.astray = s.astray
  BY <1>13 DEF Frame, Fields, PendFields
<1>18. Awake(s2) \ {} = Awake(s) \ {t}
  BY <1>4, <1>5, <1>14, <1>17 DEF Awake, Ready, Suspended
<1>19. Waiters(s2) /\ Blocked(s2, {})
  <2>1. \A u \in Tasks : /\ s2.wait[u] = IF u = t THEN name ELSE s.wait[u]
                         /\ s2.pendOn[u] = IF u = t THEN o ELSE s.pendOn[u]
    BY <1>5, <1>14, <1>15
  <2>2. o # Nothing /\ name \in Pending
    BY <1>4, KernelAssumption DEF Objects, Pending
  <2>3. Waiters(s) /\ Blocked(s, {})
    BY DEF Kept, Core
  <2> QED
    BY <2>1, <2>2, <2>3 DEF Waiters, Blocked
<1>20. Owned(s2) /\ Counts(s2)
  <2>1. Owned(s) /\ Counts(s)
    BY DEF Kept, Core
  <2>2. \A c \in Sems : s.ctr[c] > 0 => c # o
    BY <1>0
  <2>3. ASSUME NEW y \in Objects, y # o, s.pend[y] = << >> PROVE s2.pend[y] = << >>
    <3>1. \A u \in Tasks : s.pendOn[u] # y
      BY <1>0, <2>3, EmptyIff
    <3>2. \A u \in Tasks : s2.pendOn[u] # y
      BY <1>15, <2>3, <3>1
    <3> QED
      BY <1>12, <3>2, EmptyIff
  <2>4. \A m \in Mutexes : m \in Objects /\ (s.nest[m] = 0 => m # o)
    BY DEF Objects
  <2>5. \A c \in Sems : c \in Objects
    BY DEF Objects
  <2> QED
    BY <1>17, <2>1, <2>2, <2>3, <2>4, <2>5 DEF Owned, Counts
<1>21. Core(s2, {})
  BY <1>9, <1>12, <1>14, <1>16, <1>17, <1>18, <1>19, <1>20 DEF Core
<1>22. Delayed(s2) \ {} = Delayed(s) \ {} /\ Timed(s2) \ {} = Timed(s) \cup (IF time > 0 THEN {t} ELSE {})
  <2>1. \A u \in Tasks : s2.wait[u] = IF u = t THEN name ELSE s.wait[u]
    BY <1>5, <1>14
  <2>2. \A u \in Tasks : s2.wait[u] = "DLY" <=> s.wait[u] = "DLY"
    BY <1>0, <1>4, <2>1
  <2>3. \A u \in Tasks : s2.wait[u] = "PEND_TIMEOUT" <=>
                           s.wait[u] = "PEND_TIMEOUT" \/ (u = t /\ time > 0)
    BY <1>0, <1>4, <2>1
  <2>4. t \in Tasks
    BY <1>0
  <2> QED
    BY <2>2, <2>3, <2>4 DEF Delayed, Timed
<1>23. Ticks(s2, {})
  <2>1. Ticking(s2.timeouts, s2.due, Timed(s2) \ {})
    BY <1>3, <1>14, <1>22
  <2>2. \A u \in Delayed(s) \ {} : s2.due[u] = s.due[u]
    BY <1>0, <1>5, <1>14 DEF Delayed
  <2>3. Ticking(s.dlys, s.due, Delayed(s) \ {})
    BY DEF Kept, Ticks
  <2>4. Ticking(s2.dlys, s2.due, Delayed(s2) \ {})
    BY <1>17, <1>22, <2>2, <2>3, TickingSame
  <2> QED
    BY <2>1, <2>4 DEF Ticks
<1>24. Hold(s2)
  <2>1. \A u \in Tasks : s2.wait[u] = "DEL" => s.wait[u] = "DEL"
    BY <1>4, <1>5, <1>14
  <2>2. Hold(s)
    BY DEF Kept
  <2> QED
    BY <1>17, <2>1, <2>2 DEF Hold
<1>25. Kept(s2, {})
  BY <1>19, <1>21, <1>23, <1>24 DEF Kept
<1>26. \A u \in Tasks : s.wait[u] = "DEL" => s2.wait[u] = "DEL"
  <2>1. \A u \in Tasks : s.wait[u] = "DEL" => u # t
    BY <1>0
  <2> QED
    BY <1>5, <1>14, <2>1
<1> QED
  BY <1>1, <1>13, <1>15, <1>25, <1>26 DEF t

-----------------------------------------------------------------------------
(* A mutex goes to the next                                                  *)

\* The mutex m is t's no more.
GrpLoss(s, s2, t, m) ==
  /\ s2.failed = (s.failed \/ m \notin ToSet(s.grp[t]))
  /\ \A u \in Tasks : /\ s2.grp[u] = IF u = t THEN Without(s.grp[t], m) ELSE s.grp[u]
                      /\ s2.held[u] = IF u = t THEN s.held[t] \ {m} ELSE s.held[u]

\* What the operations on the mutexes of a task write.
LEMMA GrpRemoveFields ==
  ASSUME NEW s, Types(s), NEW t \in Tasks, NEW m
  PROVE  /\ Types(MutexGrpRemove(s, t, m))
         /\ Frame(s, MutexGrpRemove(s, t, m), {"grp", "held", "failed"})
         /\ GrpLoss(s, MutexGrpRemove(s, t, m), t, m)
<1> DEFINE s2 == MutexGrpRemove(s, t, m)
<1>0. Shape(s) /\ s.grp \in [Tasks -> Seq(Mutexes)] /\ s.held \in [Tasks -> SUBSET Mutexes]
  BY DEF Types
<1>1. /\ Frame(s, s2, {"grp", "held", "failed"})
      /\ s2.grp = [s.grp EXCEPT ![t] = Without(s.grp[t], m)]
      /\ s2.held = [s.held EXCEPT ![t] = s.held[t] \ {m}]
      /\ s2.failed = (s.failed \/ m \notin ToSet(s.grp[t]))
  BY <1>0 DEF MutexGrpRemove, Shape, Frame, Fields
<1> HIDE DEF s2
<1>2. Without(s.grp[t], m) \in Seq(Mutexes)
  BY <1>0, WithoutType
<1>3. s2.grp \in [Tasks -> Seq(Mutexes)] /\ s2.held \in [Tasks -> SUBSET Mutexes]
  BY <1>0, <1>1, <1>2
<1>4. s2.failed \in BOOLEAN
  BY <1>1
<1>5. Types(s2)
  BY <1>1, <1>3, <1>4 DEF Types, Frame, Fields
<1>6. GrpLoss(s, s2, t, m)
  BY <1>0, <1>1 DEF GrpLoss
<1> QED
  BY <1>1, <1>5, <1>6 DEF s2

LEMMA GrpAddFields ==
  ASSUME NEW s, Types(s), NEW t \in Tasks, NEW m \in Mutexes
  PROVE  LET s2 == MutexGrpAdd(s, t, m)
         IN  /\ Types(s2) /\ Frame(s, s2, {"grp", "owner", "nest"})
             /\ \A u \in Tasks : s2.grp[u] = IF u = t THEN <<m>> \o s.grp[t] ELSE s.grp[u]
             /\ \A n \in Mutexes : /\ s2.owner[n] = IF n = m THEN t ELSE s.owner[n]
                                   /\ s2.nest[n] = IF n = m THEN 1 ELSE s.nest[n]
<1> DEFINE s2 == MutexGrpAdd(s, t, m)
<1>0. /\ Shape(s) /\ s.grp \in [Tasks -> Seq(Mutexes)]
      /\ s.owner \in [Mutexes -> Tasks \cup {Nothing}] /\ s.nest \in [Mutexes -> Nat]
  BY DEF Types
<1>1. /\ Frame(s, s2, {"grp", "owner", "nest"})
      /\ s2.grp = [s.grp EXCEPT ![t] = <<m>> \o s.grp[t]]
      /\ s2.owner = [s.owner EXCEPT ![m] = t] /\ s2.nest = [s.nest EXCEPT ![m] = 1]
  BY <1>0 DEF MutexGrpAdd, Shape, Frame, Fields
<1> HIDE DEF s2
<1>2. <<m>> \o s.grp[t] \in Seq(Mutexes)
  <2>1. <<m>> \in Seq(Mutexes) /\ s.grp[t] \in Seq(Mutexes)
    BY <1>0
  <2> QED
    BY <2>1, ConcatProperties
<1>3. /\ s2.grp \in [Tasks -> Seq(Mutexes)] /\ s2.owner \in [Mutexes -> Tasks \cup {Nothing}]
      /\ s2.nest \in [Mutexes -> Nat]
  BY <1>0, <1>1, <1>2
<1>4. Types(s2)
  BY <1>1, <1>3 DEF Types, Frame, Fields
<1>5. \A u \in Tasks : s2.grp[u] = IF u = t THEN <<m>> \o s.grp[t] ELSE s.grp[u]
  BY <1>0, <1>1
<1>6. \A n \in Mutexes : /\ s2.owner[n] = IF n = m THEN t ELSE s.owner[n]
                         /\ s2.nest[n] = IF n = m THEN 1 ELSE s.nest[n]
  BY <1>0, <1>1
<1> QED
  BY <1>1, <1>4, <1>5, <1>6 DEF s2

LEMMA FreeFields ==
  ASSUME NEW s, Types(s), NEW m \in Mutexes
  PROVE  LET s2 == [s EXCEPT !.owner[m] = Nothing, !.nest[m] = 0]
         IN  /\ Types(s2) /\ Frame(s, s2, {"owner", "nest"})
             /\ \A n \in Mutexes : /\ s2.owner[n] = IF n = m THEN Nothing ELSE s.owner[n]
                                   /\ s2.nest[n] = IF n = m THEN 0 ELSE s.nest[n]
<1> DEFINE s2 == [s EXCEPT !.owner[m] = Nothing, !.nest[m] = 0]
<1>0. /\ Shape(s) /\ s.owner \in [Mutexes -> Tasks \cup {Nothing}] /\ s.nest \in [Mutexes -> Nat]
  BY DEF Types
<1>1. /\ Frame(s, s2, {"owner", "nest"})
      /\ s2.owner = [s.owner EXCEPT ![m] = Nothing] /\ s2.nest = [s.nest EXCEPT ![m] = 0]
  BY <1>0 DEF Shape, Frame, Fields
<1> HIDE DEF s2
<1>2. s2.owner \in [Mutexes -> Tasks \cup {Nothing}] /\ s2.nest \in [Mutexes -> Nat]
  BY <1>0, <1>1
<1>3. Types(s2)
  BY <1>1, <1>2 DEF Types, Frame, Fields
<1>4. \A n \in Mutexes : /\ s2.owner[n] = IF n = m THEN Nothing ELSE s.owner[n]
                         /\ s2.nest[n] = IF n = m THEN 0 ELSE s.nest[n]
  BY <1>0, <1>1
<1> QED
  BY <1>1, <1>3, <1>4 DEF s2

\* The mutexes of a task, with one more or one less.
LEMMA GrpLess ==
  ASSUME NEW q \in Seq(Mutexes), Uniq(q), NEW m
  PROVE  /\ Uniq(Without(q, m)) /\ Without(q, m) \in Seq(Mutexes)
         /\ \A n : n \in ToSet(Without(q, m)) <=> n \in ToSet(q) /\ n # m
<1>1. Dropped(Without(q, m), q, Mutexes, m)
  BY WithoutLemma
<1> QED
  BY <1>1 DEF Dropped

LEMMA GrpMore ==
  ASSUME NEW q \in Seq(Mutexes), Uniq(q), NEW m \in Mutexes, m \notin ToSet(q)
  PROVE  /\ Uniq(<<m>> \o q)
         /\ \A n : n \in ToSet(<<m>> \o q) <=> n \in ToSet(q) \/ n = m
<1>1. Added(<<m>> \o q, q, Mutexes, m)
  BY ConsUniq
<1> QED
  BY <1>1 DEF Added

\* What handing a mutex on changes.
ReleaseFields ==
  {"pend", "pendOn", "timeouts", "status", "held", "wait", "due", "rdy", "grp", "owner",
   "nest", "failed"}

\* Nobody waits for m: it is free.
Frees(s, s2, D, t, m) ==
  /\ Listed(s2, D) /\ Frame(s, s2, {"grp", "held", "failed", "owner", "nest"})
  /\ s2.failed = (s.failed \/ m \notin ToSet(s.grp[t]))
  /\ \A u \in Tasks : /\ s2.grp[u] = IF u = t THEN Without(s.grp[t], m) ELSE s.grp[u]
                      /\ s2.held[u] = IF u = t THEN s.held[t] \ {m} ELSE s.held[u]
  /\ \A n \in Mutexes : /\ s2.owner[n] = IF n = m THEN Nothing ELSE s.owner[n]
                        /\ s2.nest[n] = IF n = m THEN 0 ELSE s.nest[n]

\* A mutex nobody waits for is free.
LEMMA ReleaseFree ==
  ASSUME NEW s, NEW D, Listed(s, D), NEW t \in Tasks, NEW m \in Mutexes, s.pend[m] = << >>
  PROVE  Frees(s, Release(s, t, m), D, t, m)
<1> DEFINE gone == MutexGrpRemove(s, t, m)
           s2 == [gone EXCEPT !.owner[m] = Nothing, !.nest[m] = 0]
           W == {"grp", "held", "failed", "owner", "nest"}
<1>1. /\ Types(gone) /\ Frame(s, gone, {"grp", "held", "failed"})
      /\ gone.failed = (s.failed \/ m \notin ToSet(s.grp[t]))
      /\ \A u \in Tasks : /\ gone.grp[u] = IF u = t THEN Without(s.grp[t], m) ELSE s.grp[u]
                          /\ gone.held[u] = IF u = t THEN s.held[t] \ {m} ELSE s.held[u]
  <2>1. Types(s)
    BY DEF Listed, Core
  <2>2. /\ Types(gone) /\ Frame(s, gone, {"grp", "held", "failed"})
        /\ GrpLoss(s, gone, t, m)
    BY <2>1, GrpRemoveFields
  <2> HIDE DEF gone
  <2> QED
    BY <2>2 DEF GrpLoss
<1>2. Release(s, t, m) = s2
  BY DEF Release
<1> HIDE DEF gone
<1>3. /\ Types(s2) /\ Frame(gone, s2, {"owner", "nest"})
      /\ \A n \in Mutexes : /\ s2.owner[n] = IF n = m THEN Nothing ELSE gone.owner[n]
                            /\ s2.nest[n] = IF n = m THEN 0 ELSE gone.nest[n]
  BY <1>1, FreeFields
<1> HIDE DEF s2
<1>4. Frame(s, s2, W)
  <2>1. Frame(s, gone, W) /\ Frame(gone, s2, W)
    BY <1>1, <1>3, FrameWiden
  <2> QED
    BY <2>1, FrameTrans
<1>5. gone.owner = s.owner /\ gone.nest = s.nest /\ s2.grp = gone.grp /\ s2.held = gone.held
      /\ s2.pend = s.pend /\ s2.failed = gone.failed
  BY <1>1, <1>3, <1>4 DEF Frame, Fields
<1>6. Owned(s2)
  <2>1. Owned(s)
    BY DEF Listed, Core
  <2> QED
    BY <1>3, <1>5, <2>1 DEF Owned
<1>7. Listed(s2, D)
  <2>1. Frame(s, s2, {"cur", "prioCur", "base", "status", "grp", "failed", "rare", "astray",
                       "held", "owner", "nest"})
    BY <1>4, FrameWiden
  <2> QED
    BY <1>3, <1>6, <2>1, ListedSame
<1>8. Frees(s, s2, D, t, m)
  BY <1>1, <1>3, <1>4, <1>5, <1>7 DEF Frees
<1> QED
  BY <1>2, <1>8

\* The first who waits for m gets it.
Hands(s, s2, D, t, m) ==
  /\ Listed(s2, D) /\ Frame(s, s2, ReleaseFields)
  /\ s2.failed = (s.failed \/ m \notin ToSet(s.grp[t]))
  /\ \E heir \in Tasks \ D : \E rest :
       /\ heir = Head(s.pend[m]) /\ s.pendOn[heir] = m /\ Unwaits(s, s2, heir)
       /\ \A u \in Tasks : /\ rest[u] = IF u = t THEN Without(s.grp[t], m) ELSE s.grp[u]
                           /\ s2.grp[u] = IF u = heir THEN <<m>> \o rest[heir] ELSE rest[u]
       /\ \A u \in Tasks : \A n \in s2.held[u] :
            (n \in s.held[u] /\ ~(u = t /\ n = m)) \/ (u = heir /\ n = m)
       /\ \A n \in Mutexes : /\ s2.owner[n] = IF n = m THEN heir ELSE s.owner[n]
                             /\ s2.nest[n] = IF n = m THEN 1 ELSE s.nest[n]

\* A mutex that is waited for goes to the head of its list.
LEMMA ReleaseHeir ==
  ASSUME NEW s, NEW D, Listed(s, D), NEW t \in Tasks, NEW m \in Mutexes, s.pend[m] # << >>,
         \A u \in D : s.pendOn[u] = Nothing
  PROVE  Hands(s, Release(s, t, m), D, t, m)
<1> DEFINE gone == MutexGrpRemove(s, t, m)
           heir == Head(s.pend[m])
           has == MutexGrpAdd(gone, heir, m)
           s2 == EndPend(has, heir, "OK")
           W == {"grp", "held", "failed", "owner", "nest"}
<1>1. /\ Types(gone) /\ Frame(s, gone, {"grp", "held", "failed"})
      /\ gone.failed = (s.failed \/ m \notin ToSet(s.grp[t]))
      /\ \A u \in Tasks : /\ gone.grp[u] = IF u = t THEN Without(s.grp[t], m) ELSE s.grp[u]
                          /\ gone.held[u] = IF u = t THEN s.held[t] \ {m} ELSE s.held[u]
  <2>1. Types(s)
    BY DEF Listed, Core
  <2>2. /\ Types(gone) /\ Frame(s, gone, {"grp", "held", "failed"})
        /\ GrpLoss(s, gone, t, m)
    BY <2>1, GrpRemoveFields
  <2> HIDE DEF gone
  <2> QED
    BY <2>2 DEF GrpLoss
<1>2. Release(s, t, m) = s2
  BY DEF Release
<1>3. heir \in Tasks /\ s.pendOn[heir] = m /\ m # Nothing /\ heir \notin D
  <2>1. m \in Objects /\ m # Nothing
    BY KernelAssumption DEF Objects
  <2>2. s.pend[m] \in Seq(Tasks) /\ Pended(s.pend, s.pendOn, s.prio)
    BY <2>1 DEF Listed, Core, Pended
  <2>3. heir \in ToSet(s.pend[m]) /\ ToSet(s.pend[m]) \subseteq Tasks
    BY <2>2, SetFacts
  <2>4. heir \in Tasks /\ s.pendOn[heir] = m
    BY <2>1, <2>2, <2>3 DEF Pended
  <2> QED
    BY <2>1, <2>4
<1> HIDE DEF gone, heir
<1>4. /\ Types(has) /\ Frame(gone, has, {"grp", "owner", "nest"})
      /\ \A u \in Tasks : has.grp[u] = IF u = heir THEN <<m>> \o gone.grp[heir] ELSE gone.grp[u]
      /\ \A n \in Mutexes : /\ has.owner[n] = IF n = m THEN heir ELSE gone.owner[n]
                            /\ has.nest[n] = IF n = m THEN 1 ELSE gone.nest[n]
  BY <1>1, <1>3, GrpAddFields
<1> HIDE DEF has
<1>5. Frame(s, has, W)
  <2>1. Frame(s, gone, W) /\ Frame(gone, has, W)
    BY <1>1, <1>4, FrameWiden
  <2> QED
    BY <2>1, FrameTrans
<1>6. gone.owner = s.owner /\ gone.nest = s.nest /\ has.held = gone.held
      /\ has.pend = s.pend /\ has.pendOn = s.pendOn /\ has.wait = s.wait
  BY <1>1, <1>4, <1>5 DEF Frame, Fields
<1>7. Owned(has)
  <2>1. Owned(s)
    BY DEF Listed, Core
  <2> QED
    BY <1>3, <1>4, <1>6, <2>1, KernelAssumption DEF Owned
<1>8. Listed(has, D)
  <2>1. Frame(s, has, {"cur", "prioCur", "base", "status", "grp", "failed", "rare", "astray",
                       "held", "owner", "nest"})
    BY <1>5, FrameWiden
  <2> QED
    BY <1>4, <1>7, <2>1, ListedSame
<1>9. /\ Core(s2, D) /\ Ticks(s2, D) /\ Frame(has, s2, EndFields)
      /\ s2.wait = [has.wait EXCEPT ![heir] = "RDY"]
      /\ s2.pendOn = [has.pendOn EXCEPT ![heir] = Nothing]
      /\ s2.held = [has.held EXCEPT ![heir] = has.held[heir] \cup ({m} \cap Mutexes)]
  <2>1. has.pendOn[heir] = m /\ m # Nothing
    BY <1>3, <1>6
  <2>2. "OK" \in Statuses
    BY DEF Statuses
  <2> QED
    BY <1>3, <1>8, <2>1, <2>2, EndPendCore DEF Listed, EndFields
<1> HIDE DEF s2
<1>10. /\ has.wait \in [Tasks -> Waits] /\ has.pendOn \in [Tasks -> Objects \cup {Nothing}]
       /\ has.held \in [Tasks -> SUBSET Mutexes]
  BY <1>4 DEF Types
<1>11. Unwaits(s, s2, heir)
  BY <1>6, <1>9, <1>10 DEF Unwaits
<1>12. Blocked(s2, D)
  BY <1>11 DEF Listed, Blocked, Unwaits, Pending
<1>13. Listed(s2, D)
  BY <1>9, <1>12 DEF Listed
<1>14. Frame(s, s2, ReleaseFields)
  <2>1. Frame(s, has, ReleaseFields) /\ Frame(has, s2, ReleaseFields)
    BY <1>5, <1>9, FrameWiden DEF ReleaseFields, EndFields
  <2> QED
    BY <2>1, FrameTrans
<1>15. s2.grp = has.grp /\ s2.owner = has.owner /\ s2.nest = has.nest /\ s2.failed = gone.failed
  BY <1>4, <1>9 DEF Frame, Fields, EndFields
<1>16. \A u \in Tasks : \A n \in s2.held[u] :
         (n \in s.held[u] /\ ~(u = t /\ n = m)) \/ (u = heir /\ n = m)
  <2>1. \A u \in Tasks : s2.held[u] = IF u = heir THEN has.held[heir] \cup ({m} \cap Mutexes)
                                                  ELSE has.held[u]
    BY <1>9, <1>10
  <2>2. \A u \in Tasks : has.held[u] = IF u = t THEN s.held[t] \ {m} ELSE s.held[u]
    BY <1>1, <1>6
  <2> QED
    BY <1>3, <2>1, <2>2
<1>17. /\ \A u \in Tasks : s2.grp[u] = IF u = heir THEN <<m>> \o gone.grp[heir] ELSE gone.grp[u]
       /\ \A n \in Mutexes : /\ s2.owner[n] = IF n = m THEN heir ELSE s.owner[n]
                             /\ s2.nest[n] = IF n = m THEN 1 ELSE s.nest[n]
  BY <1>4, <1>6, <1>15
<1>18. Hands(s, s2, D, t, m)
  <2> DEFINE rest == gone.grp
  <2>1. /\ heir \in Tasks \ D /\ heir = Head(s.pend[m]) /\ s.pendOn[heir] = m
        /\ Unwaits(s, s2, heir)
    BY <1>3, <1>11 DEF heir
  <2>2. \A u \in Tasks : /\ rest[u] = IF u = t THEN Without(s.grp[t], m) ELSE s.grp[u]
                         /\ s2.grp[u] = IF u = heir THEN <<m>> \o rest[heir] ELSE rest[u]
    BY <1>1, <1>17
  <2>3. s2.failed = (s.failed \/ m \notin ToSet(s.grp[t]))
    BY <1>1, <1>15
  <2> HIDE DEF rest
  <2> QED
    BY <1>13, <1>14, <1>16, <1>17, <2>1, <2>2, <2>3 DEF Hands
<1> QED
  BY <1>2, <1>18

\* In both cases who holds a mutex owns it.
LEMMA ReleaseHold ==
  ASSUME NEW s, NEW D, Listed(s, D), Hold(s), NEW t \in Tasks, NEW m \in Mutexes,
         s.astray \/ s.owner[m] = t, \A u \in D : s.pendOn[u] = Nothing
  PROVE  Hold(Release(s, t, m))
<1> DEFINE s2 == Release(s, t, m)
           q == s.grp[t]
           rest(u) == IF u = t THEN Without(q, m) ELSE s.grp[u]
<1>0. /\ Nothing \notin Tasks /\ s.grp \in [Tasks -> Seq(Mutexes)]
      /\ s.wait \in [Tasks -> Waits]
  BY KernelAssumption DEF Listed, Core, Types
<1>1. ASSUME ~s.astray
      PROVE  /\ s.owner[m] = t /\ m \in ToSet(q) /\ q # << >> /\ s.wait[t] # "DEL"
             /\ \A u \in Tasks : /\ Uniq(s.grp[u])
                                 /\ s.wait[u] = "DEL" => s.grp[u] = << >>
             /\ \A u \in Tasks : \A n \in Mutexes : /\ n \in s.held[u] => s.owner[n] = u
                                                    /\ n \in ToSet(s.grp[u]) <=> s.owner[n] = u
  <2>1. /\ s.owner[m] = t /\ m \in ToSet(q)
    BY <1>1 DEF Hold
  <2>2. q # << >>
    <3>1. q \in Seq(Mutexes)
      BY <1>0
    <3>2. Len(q) # 0
      <4>1. \E i \in 1..Len(q) : q[i] = m
        BY <2>1, <3>1, SetFacts
      <4> QED
        BY <4>1
    <3> QED
      BY <3>1, <3>2, SetFacts
  <2>3. \A u \in Tasks : Uniq(s.grp[u]) /\ (s.wait[u] = "DEL" => s.grp[u] = << >>)
    BY <1>1 DEF Hold
  <2>4. \A u \in Tasks : \A n \in Mutexes : /\ n \in s.held[u] => s.owner[n] = u
                                            /\ n \in ToSet(s.grp[u]) <=> s.owner[n] = u
    BY <1>1 DEF Hold
  <2> QED
    BY <2>1, <2>2, <2>3, <2>4
<1>2. ASSUME ~s.astray, NEW u \in Tasks
      PROVE  /\ Uniq(rest(u)) /\ rest(u) \in Seq(Mutexes)
             /\ \A n \in Mutexes : n \in ToSet(rest(u)) <=> s.owner[n] = u /\ n # m
             /\ s.wait[u] = "DEL" => rest(u) = << >>
  <2>1. CASE u = t
    <3>1. Uniq(q) /\ q \in Seq(Mutexes)
      BY <1>0, <1>1, <1>2
    <3>2. /\ Uniq(Without(q, m)) /\ Without(q, m) \in Seq(Mutexes)
          /\ \A n : n \in ToSet(Without(q, m)) <=> n \in ToSet(q) /\ n # m
      BY <3>1, GrpLess
    <3>3. rest(u) = Without(q, m)
      BY <2>1
    <3> HIDE DEF q, rest
    <3>4. \A n \in Mutexes : n \in ToSet(q) <=> s.owner[n] = u
      BY <1>1, <1>2, <2>1 DEF q
    <3> QED
      BY <1>1, <1>2, <2>1, <3>2, <3>3, <3>4
  <2>2. CASE u # t
    <3>1. rest(u) = s.grp[u]
      BY <2>2
    <3> QED
      BY <1>0, <1>1, <1>2, <2>2, <3>1
  <2> QED
    BY <2>1, <2>2
<1>3. CASE s.pend[m] = << >>
  <2>1. /\ Frame(s, s2, {"grp", "held", "failed", "owner", "nest"})
        /\ \A u \in Tasks : /\ s2.grp[u] = IF u = t THEN Without(s.grp[t], m) ELSE s.grp[u]
                            /\ s2.held[u] = IF u = t THEN s.held[t] \ {m} ELSE s.held[u]
        /\ \A n \in Mutexes : /\ s2.owner[n] = IF n = m THEN Nothing ELSE s.owner[n]
                              /\ s2.nest[n] = IF n = m THEN 0 ELSE s.nest[n]
    <3>1. Frees(s, s2, D, t, m)
      BY <1>3, ReleaseFree
    <3> HIDE DEF s2
    <3> QED
      BY <3>1 DEF Frees
  <2> HIDE DEF s2
  <2>2. s2.astray = s.astray /\ s2.wait = s.wait
    BY <2>1 DEF Frame, Fields
  <2>3. \A u \in Tasks : s2.grp[u] = rest(u)
    BY <2>1
  <2> HIDE DEF q, rest
  <2>4. ASSUME ~s2.astray, NEW u \in Tasks, NEW n \in Mutexes
        PROVE  /\ n \in s2.held[u] => s2.owner[n] = u
               /\ n \in ToSet(s2.grp[u]) <=> s2.owner[n] = u
    <3>1. ~s.astray /\ s2.grp[u] = rest(u)
      BY <2>2, <2>3, <2>4
    <3>2. n \in ToSet(rest(u)) <=> s.owner[n] = u /\ n # m
      BY <1>2, <3>1
    <3>3. n \in s.held[u] => s.owner[n] = u
      BY <1>1, <3>1
    <3> QED
      BY <1>0, <1>1, <2>1, <3>1, <3>2, <3>3
  <2>5. ASSUME ~s2.astray, NEW u \in Tasks
        PROVE  Uniq(s2.grp[u]) /\ (s2.wait[u] = "DEL" => s2.grp[u] = << >>)
    BY <1>2, <2>2, <2>3, <2>5
  <2>6. Hold(s2)
    BY <2>4, <2>5 DEF Hold
  <2> QED
    BY <2>6 DEF s2
<1>4. CASE s.pend[m] # << >>
  <2>0. Hands(s, s2, D, t, m)
    BY <1>4, ReleaseHeir
  <2> DEFINE Gets(heir, g) ==
               /\ s.pendOn[heir] = m /\ Unwaits(s, s2, heir)
               /\ \A u \in Tasks : /\ g[u] = IF u = t THEN Without(s.grp[t], m) ELSE s.grp[u]
                                   /\ s2.grp[u] = IF u = heir THEN <<m>> \o g[heir] ELSE g[u]
               /\ \A u \in Tasks : \A n \in s2.held[u] :
                    (n \in s.held[u] /\ ~(u = t /\ n = m)) \/ (u = heir /\ n = m)
               /\ \A n \in Mutexes : /\ s2.owner[n] = IF n = m THEN heir ELSE s.owner[n]
                                     /\ s2.nest[n] = IF n = m THEN 1 ELSE s.nest[n]
  <2>100. PICK heir \in Tasks \ D : \E g : Gets(heir, g)
    <3> HIDE DEF s2
    <3> QED
      BY <2>0 DEF Hands
  <2>101. PICK g : Gets(heir, g)
    BY <2>100
  <2>1. /\ s.pendOn[heir] = m
        /\ \A u \in Tasks : /\ g[u] = IF u = t THEN Without(s.grp[t], m) ELSE s.grp[u]
                            /\ s2.grp[u] = IF u = heir THEN <<m>> \o g[heir] ELSE g[u]
        /\ Unwaits(s, s2, heir)
        /\ \A u \in Tasks : \A n \in s2.held[u] :
             (n \in s.held[u] /\ ~(u = t /\ n = m)) \/ (u = heir /\ n = m)
        /\ \A n \in Mutexes : /\ s2.owner[n] = IF n = m THEN heir ELSE s.owner[n]
                              /\ s2.nest[n] = IF n = m THEN 1 ELSE s.nest[n]
    <3> HIDE DEF s2
    <3> QED
      BY <2>101
  <2> HIDE DEF Gets
  <2> HIDE DEF s2
  <2>2. s2.astray = s.astray
    BY <2>0 DEF Hands, Frame, Fields, ReleaseFields
  <2>3. \A u \in Tasks : s2.wait[u] = IF u = heir THEN "RDY" ELSE s.wait[u]
    BY <2>1 DEF Unwaits
  <2>4. \A u \in Tasks : s2.grp[u] = IF u = heir THEN <<m>> \o rest(heir) ELSE rest(u)
    BY <2>1
  <2> HIDE DEF q, rest
  <2>5. ASSUME ~s.astray
        PROVE  /\ Uniq(<<m>> \o rest(heir))
               /\ \A n \in Mutexes : n \in ToSet(<<m>> \o rest(heir)) <=> n \in ToSet(rest(heir)) \/ n = m
    <3>1. Uniq(rest(heir)) /\ rest(heir) \in Seq(Mutexes) /\ m \notin ToSet(rest(heir))
      BY <1>2, <2>5
    <3> QED
      BY <3>1, GrpMore
  <2>6. ASSUME ~s2.astray, NEW u \in Tasks, NEW n \in Mutexes
        PROVE  /\ n \in s2.held[u] => s2.owner[n] = u
               /\ n \in ToSet(s2.grp[u]) <=> s2.owner[n] = u
    <3>0. ~s.astray
      BY <2>2, <2>6
    <3>1. n \in ToSet(rest(u)) <=> s.owner[n] = u /\ n # m
      BY <1>2, <3>0
    <3>2. n \in s.held[u] => s.owner[n] = u
      BY <1>1, <3>0
    <3>3. s.owner[m] = t
      BY <1>1, <3>0
    <3>4. n \in s2.held[u] => s2.owner[n] = u
      <4> SUFFICES ASSUME n \in s2.held[u] PROVE s2.owner[n] = u
        OBVIOUS
      <4>1. (n \in s.held[u] /\ ~(u = t /\ n = m)) \/ (u = heir /\ n = m)
        BY <2>1
      <4>2. s2.owner[n] = IF n = m THEN heir ELSE s.owner[n]
        BY <2>1
      <4> QED
        BY <3>2, <3>3, <4>1, <4>2
    <3>5. n \in ToSet(s2.grp[u]) <=> s2.owner[n] = u
      <4>1. s2.owner[n] = IF n = m THEN heir ELSE s.owner[n]
        BY <2>1
      <4>2. n \in ToSet(s2.grp[u]) <=> n \in ToSet(rest(u)) \/ (u = heir /\ n = m)
        BY <2>4, <2>5, <3>0
      <4> QED
        BY <3>1, <4>1, <4>2
    <3> QED
      BY <3>4, <3>5
  <2>7. ASSUME ~s2.astray, NEW u \in Tasks
        PROVE  Uniq(s2.grp[u]) /\ (s2.wait[u] = "DEL" => s2.grp[u] = << >>)
    BY <1>2, <2>2, <2>3, <2>4, <2>5, <2>7
  <2>8. Hold(s2)
    BY <2>6, <2>7 DEF Hold
  <2> QED
    BY <2>8 DEF s2
<1> QED
  BY <1>3, <1>4

\* What the callers of Release rely on.
LEMMA ReleaseKept ==
  ASSUME NEW s, Kept(s, {}), NEW t \in Tasks, NEW m \in Mutexes,
         s.astray \/ s.owner[m] = t
  PROVE  /\ Kept(Release(s, t, m), {}) /\ Frame(s, Release(s, t, m), ReleaseFields)
         /\ \A n \in Mutexes : Release(s, t, m).nest[n] = s.nest[n] \/ Release(s, t, m).nest[n] \in 0..1
<1> DEFINE s2 == Release(s, t, m)
<1>1. Listed(s, {}) /\ Hold(s) /\ \A u \in {} : s.pendOn[u] = Nothing
  BY DEF Kept, Listed
<1>2. Hold(s2)
  BY <1>1, ReleaseHold
<1>3. /\ Listed(s2, {}) /\ Frame(s, s2, ReleaseFields)
      /\ \A n \in Mutexes : s2.nest[n] = s.nest[n] \/ s2.nest[n] \in 0..1
  <2>1. CASE s.pend[m] = << >>
    <3>0. Frees(s, s2, {}, t, m)
      BY <1>1, <2>1, ReleaseFree
    <3>1. /\ Listed(s2, {}) /\ Frame(s, s2, {"grp", "held", "failed", "owner", "nest"})
          /\ \A n \in Mutexes : s2.nest[n] = IF n = m THEN 0 ELSE s.nest[n]
      <4> HIDE DEF s2
      <4> QED
        BY <3>0 DEF Frees
    <3> HIDE DEF s2
    <3>2. Frame(s, s2, ReleaseFields)
      BY <3>1, FrameWiden DEF ReleaseFields
    <3> QED
      BY <3>1, <3>2
  <2>2. CASE s.pend[m] # << >>
    <3>0. Hands(s, s2, {}, t, m)
      BY <1>1, <2>2, ReleaseHeir
    <3>1. /\ Listed(s2, {}) /\ Frame(s, s2, ReleaseFields)
          /\ \A n \in Mutexes : s2.nest[n] = IF n = m THEN 1 ELSE s.nest[n]
      <4> HIDE DEF s2
      <4> QED
        BY <3>0 DEF Hands
    <3> HIDE DEF s2
    <3> QED
      BY <3>1
  <2> QED
    BY <2>1, <2>2
<1> QED
  BY <1>2, <1>3 DEF Kept, Listed

-----------------------------------------------------------------------------
(* Services that return                                                      *)

\* A service has let no count grow by more than n.
Within(s, s2, n) ==
  /\ s2.cur = s.cur /\ s2.rare = s.rare
  /\ \A t \in Tasks : s2.suspends[t] <= s.suspends[t] + n
  /\ \A m \in Mutexes : s2.nest[m] <= s.nest[m] + n \/ s2.nest[m] <= 1

\* The counts are not touched at all.
LEMMA WithinFrame ==
  ASSUME NEW s, Types(s), NEW s2, NEW F, Frame(s, s2, F),
         F \cap {"cur", "rare", "suspends", "nest"} = {}
  PROVE  Within(s, s2, 0) /\ Within(s, s2, 1)
<1>1. s2.cur = s.cur /\ s2.rare = s.rare /\ s2.suspends = s.suspends /\ s2.nest = s.nest
  BY DEF Frame, Fields
<1>2. /\ \A t \in Tasks : s.suspends[t] \in Nat
      /\ \A m \in Mutexes : s.nest[m] \in Nat
  BY DEF Types
<1> QED
  BY <1>1, <1>2 DEF Within

\* A service that is not counted keeps the invariant.
LEMMA PlainInv ==
  ASSUME NEW s, IInv(s), NEW s2, Kept(s2, {}), Within(s, s2, 0)
  PROVE  IInv(IF s2.failed THEN s2 ELSE Sched(s2))
<1>1. Types(s) /\ Types(s2) /\ Bounds(s)
  BY DEF IInv, Kept, Core
<1>2. /\ s.rare \in Nat /\ s.rare <= MaxRare /\ s2.rare = s.rare
      /\ \A t \in Tasks : s.suspends[t] \in Nat /\ s2.suspends[t] \in Nat
      /\ \A m \in Mutexes : s.nest[m] \in Nat /\ s2.nest[m] \in Nat
  BY <1>1 DEF Types, Bounds, Within
<1>3. Bounds(s2)
  BY <1>1, <1>2 DEF Bounds, Within
<1>4. s2.cur \in Tasks \cup {Idle}
  BY DEF Within, IInv
<1> QED
  BY <1>3, <1>4, ReturnInv

\* Nor does one that is.
LEMMA RareInv ==
  ASSUME NEW s, IInv(s), NEW s2, Kept(s2, {}), Within(s, s2, 1), s.rare < MaxRare
  PROVE  IInv(IF Counted(s2).failed THEN Counted(s2) ELSE Sched(Counted(s2)))
<1> DEFINE c == Counted(s2)
<1>1. Types(s) /\ Types(s2) /\ Bounds(s)
  BY DEF IInv, Kept, Core
<1>2. Kept(c, {}) /\ Frame(s2, c, {"rare"}) /\ c.rare = s2.rare + 1
  BY CountedKept
<1> HIDE DEF c
<1>3. c.cur = s2.cur /\ c.suspends = s2.suspends /\ c.nest = s2.nest
  BY <1>2 DEF Frame, Fields
<1>4. /\ s.rare \in Nat /\ MaxRare \in Nat /\ c.rare = s.rare + 1
      /\ \A t \in Tasks : s.suspends[t] \in Nat /\ s2.suspends[t] \in Nat
      /\ \A m \in Mutexes : s.nest[m] \in Nat /\ s2.nest[m] \in Nat
  BY <1>1, <1>2, KernelAssumption DEF Types, Within
<1>5. Bounds(c)
  BY <1>1, <1>3, <1>4 DEF Bounds, Within
<1>6. c.cur \in Tasks \cup {Idle}
  BY <1>3 DEF Within, IInv
<1>7. IInv(IF c.failed THEN c ELSE Sched(c))
  BY <1>2, <1>5, <1>6, ReturnInv
<1> QED
  BY <1>7 DEF c

\* Changes of priorities keep the invariant.
LEMMA ReprioKept ==
  ASSUME NEW s, Kept(s, {}), NEW s2, Reprio(s, s2)
  PROVE  Kept(s2, {})
BY ReprioKeeps DEF Kept, Reprio

-----------------------------------------------------------------------------
(* Mutexes                                                                   *)

\* The poster gets the priority p, if that is lower than what it inherited.
Lowers(s, x, t, m, p) ==
  /\ x.failed = s.failed /\ x.astray = s.astray
  /\ x.prio = IF s.pend[m] # <<>> /\ s.prio[t] # s.base[t] /\ p > s.prio[t]
              THEN [s.prio EXCEPT ![t] = p] ELSE s.prio

\* The poster that loses a priority is such a change, too.
LEMMA PostLowersReprio ==
  ASSUME NEW s, Core(s, {}), NEW t \in Tasks, Ready(s, t), NEW m \in Mutexes
  PROVE  /\ Reprio(s, PostLowers(s, t, m))
         /\ Lowers(s, PostLowers(s, t, m), t, m, Disinherited(MutexGrpRemove(s, t, m), t))
<1> DEFINE rest == MutexGrpRemove(s, t, m)
           p == Disinherited(rest, t)
           r == RdyListRemove(s, t)
           x == [r EXCEPT !.prio[t] = p, !.prioCur = p]
           down == s.pend[m] # <<>> /\ s.prio[t] # s.base[t] /\ p > s.prio[t]
           s2 == PostLowers(s, t, m)
<1>0. Types(s) /\ Shape(s) /\ s.prio \in [Tasks -> Prios]
  BY DEF Core, Types
<1>1. s2 = IF down THEN RdyListInsertTail(x, t) ELSE s
  BY DEF PostLowers
<1>2. Types(rest)
  BY <1>0, GrpRemoveFields
<1> HIDE DEF rest
<1>3. p \in Prios
  BY <1>2, DisinheritedType
<1>4. p \in -1..IdlePrio
  BY <1>3, KernelAssumption DEF Prios, IdlePrio
<1> HIDE DEF p, down, s2
<1>5. Frame(s, r, {"rdy"})
  BY <1>0, RemoveFields
<1> HIDE DEF r
<1>6. Shape(r) /\ r.prio = s.prio
  BY <1>5 DEF Frame, Fields
<1>7. Frame(r, x, {"prio", "prioCur"}) /\ x.prio = [s.prio EXCEPT ![t] = p] /\ x.prioCur = p
  BY <1>6 DEF Shape, Frame, Fields
<1> HIDE DEF x
<1>8. CASE down
  <2>1. Frame(RdyListRemove(s, t), x, {"prio", "prioCur"})
    BY <1>7 DEF r
  <2>2. s2 = RdyListInsertTail(x, t)
    BY <1>1, <1>8
  <2>3. x.prioCur \in -1..IdlePrio
    BY <1>4, <1>7
  <2>4. Reprio(s, s2)
    BY <1>3, <1>7, <2>1, <2>2, <2>3, ReadyReprio
  <2>5. Frame(x, s2, {"rdy"})
    <3>1. Shape(x)
      BY <1>7 DEF Frame
    <3>2. Frame(x, RdyListInsertTail(x, t), {"rdy"})
      BY <3>1, InsertTailFields
    <3> QED
      BY <2>2, <3>2
  <2>6. /\ s2.failed = x.failed /\ s2.astray = x.astray /\ s2.prio = x.prio
        /\ x.failed = r.failed /\ x.astray = r.astray
        /\ r.failed = s.failed /\ r.astray = s.astray
    BY <1>5, <1>7, <2>5 DEF Frame, Fields
  <2>7. Lowers(s, s2, t, m, p)
    BY <1>7, <1>8, <2>6 DEF Lowers, down
  <2> QED
    BY <2>4, <2>7 DEF s2, p, rest
<1>9. CASE ~down
  <2>1. s2 = s
    BY <1>1, <1>9
  <2>2. Reprio(s, s2)
    BY <2>1, ReprioRefl
  <2>3. Lowers(s, s2, t, m, p)
    BY <1>9, <2>1 DEF Lowers, down
  <2> QED
    BY <2>2, <2>3 DEF s2, p, rest
<1> QED
  BY <1>8, <1>9

\* OSMutexPost, by the owner.
LEMMA MutexPostKept ==
  ASSUME NEW s, Kept(s, {}), s.cur \in Tasks, Ready(s, s.cur), NEW m \in Mutexes,
         s.owner[m] = s.cur
  PROVE  Kept(MutexPost(s, m), {}) /\ Within(s, MutexPost(s, m), 0)
<1> DEFINE t == s.cur
           x == PostLowers(s, t, m)
           s2 == MutexPost(s, m)
<1>0. Types(s) /\ Shape(s) /\ s.nest \in [Mutexes -> Nat] /\ Core(s, {})
  BY DEF Kept, Core, Types
<1>1. CASE s.nest[m] > 1
  <2>1. s2 = [s EXCEPT !.nest[m] = @ - 1]
    BY <1>1 DEF MutexPost
  <2> HIDE DEF s2
  <2>2. Frame(s, s2, {"nest"}) /\ s2.nest = [s.nest EXCEPT ![m] = s.nest[m] - 1]
    BY <1>0, <2>1 DEF Shape, Frame, Fields
  <2>3. s2.nest \in [Mutexes -> Nat]
    BY <1>0, <1>1, <2>2
  <2>4. Types(s2)
    BY <1>0, <2>2, <2>3 DEF Types, Frame, Fields
  <2>5. s2.owner = s.owner /\ s2.pend = s.pend
    BY <2>2 DEF Frame, Fields
  <2>6. \A n \in Mutexes : s2.nest[n] = IF n = m THEN s.nest[n] - 1 ELSE s.nest[n]
    BY <1>0, <2>2
  <2>7. \A n \in Mutexes : s.nest[n] \in Nat /\ (s2.nest[n] = 0 <=> s.nest[n] = 0)
    BY <1>0, <1>1, <2>6
  <2>8. Owned(s2)
    <3>1. Owned(s)
      BY <1>0 DEF Core
    <3> QED
      BY <2>5, <2>7, <3>1 DEF Owned
  <2>9. Listed(s2, {})
    <3>1. Frame(s, s2, {"cur", "prioCur", "base", "status", "grp", "failed", "rare", "astray",
                       "held", "owner", "nest"})
      BY <2>2, FrameWiden
    <3>2. Listed(s, {})
      BY DEF Kept, Listed
    <3> QED
      BY <2>4, <2>8, <3>1, <3>2, ListedSame
  <2>10. Hold(s2)
    <3>1. s2.astray = s.astray /\ s2.wait = s.wait /\ s2.held = s.held /\ s2.grp = s.grp
      BY <2>2 DEF Frame, Fields
    <3>2. Hold(s)
      BY DEF Kept
    <3> QED
      BY <2>5, <3>1, <3>2 DEF Hold
  <2>11. Within(s, s2, 0)
    <3>1. s2.cur = s.cur /\ s2.rare = s.rare /\ s2.suspends = s.suspends
      BY <2>2 DEF Frame, Fields
    <3>2. \A u \in Tasks : s.suspends[u] \in Nat
      BY <1>0 DEF Types
    <3>3. \A n \in Mutexes : s2.nest[n] <= s.nest[n] + 0
      BY <2>6, <2>7
    <3> QED
      BY <3>1, <3>2, <3>3 DEF Within
  <2>12. Kept(s2, {})
    BY <2>9, <2>10 DEF Kept, Listed
  <2> QED
    BY <2>11, <2>12 DEF s2
<1>2. CASE ~(s.nest[m] > 1)
  <2>1. Reprio(s, x)
    BY <1>0, PostLowersReprio
  <2>2. s2 = Release(x, t, m)
    BY <1>2 DEF MutexPost
  <2> HIDE DEF x, s2
  <2>3. Kept(x, {})
    BY <2>1, ReprioKept
  <2>4. /\ x.owner = s.owner /\ x.nest = s.nest /\ x.cur = s.cur /\ x.rare = s.rare
        /\ x.suspends = s.suspends
    BY <2>1 DEF Reprio, Frame, Fields
  <2>5. /\ Kept(s2, {}) /\ Frame(x, s2, ReleaseFields)
        /\ \A n \in Mutexes : s2.nest[n] = x.nest[n] \/ s2.nest[n] \in 0..1
    <3>1. t \in Tasks /\ x.owner[m] = t
      BY <2>4
    <3> HIDE DEF t
    <3>2. /\ Kept(Release(x, t, m), {}) /\ Frame(x, Release(x, t, m), ReleaseFields)
          /\ \A n \in Mutexes : Release(x, t, m).nest[n] = x.nest[n] \/ Release(x, t, m).nest[n] \in 0..1
      BY <2>3, <3>1, ReleaseKept
    <3> QED
      BY <2>2, <3>2
  <2>6. s2.cur = x.cur /\ s2.rare = x.rare /\ s2.suspends = x.suspends
    BY <2>5 DEF Frame, Fields, ReleaseFields
  <2>7. Within(s, s2, 0)
    <3>1. \A u \in Tasks : s.suspends[u] \in Nat
      BY <1>0 DEF Types
    <3>2. \A n \in Mutexes : s2.nest[n] <= s.nest[n] + 0 \/ s2.nest[n] <= 1
      <4> SUFFICES ASSUME NEW n \in Mutexes PROVE s2.nest[n] <= s.nest[n] + 0 \/ s2.nest[n] <= 1
        OBVIOUS
      <4>1. s.nest[n] \in Nat /\ (s2.nest[n] = s.nest[n] \/ s2.nest[n] \in 0..1)
        BY <1>0, <2>4, <2>5
      <4> QED
        BY <4>1
    <3> QED
      BY <2>4, <2>6, <3>1, <3>2 DEF Within
  <2> QED
    BY <2>5, <2>7 DEF s2
<1> QED
  BY <1>1, <1>2

\* A free mutex is taken.
LEMMA TakeKept ==
  ASSUME NEW s, Kept(s, {}), NEW t \in Tasks, s.wait[t] # "DEL", NEW m \in Mutexes, s.nest[m] = 0
  PROVE  LET s2 == [MutexGrpAdd(s, t, m) EXCEPT !.held[t] = @ \cup {m}]
         IN  Kept(s2, {}) /\ Within(s, s2, 0)
<1> DEFINE x == MutexGrpAdd(s, t, m)
           s2 == [x EXCEPT !.held[t] = @ \cup {m}]
<1>0. /\ Types(s) /\ Nothing \notin Tasks /\ s.owner[m] = Nothing /\ s.pend[m] = << >>
      /\ s.grp \in [Tasks -> Seq(Mutexes)]
      /\ \A u \in Tasks : s.suspends[u] \in Nat
      /\ \A n \in Mutexes : s.nest[n] \in Nat
  BY KernelAssumption DEF Kept, Core, Types, Owned
<1>1. /\ Types(x) /\ Frame(s, x, {"grp", "owner", "nest"})
      /\ \A u \in Tasks : x.grp[u] = IF u = t THEN <<m>> \o s.grp[t] ELSE s.grp[u]
      /\ \A n \in Mutexes : /\ x.owner[n] = IF n = m THEN t ELSE s.owner[n]
                            /\ x.nest[n] = IF n = m THEN 1 ELSE s.nest[n]
  BY <1>0, GrpAddFields
<1> HIDE DEF x
<1>2. Shape(x) /\ x.held \in [Tasks -> SUBSET Mutexes] /\ x.held = s.held
  BY <1>1 DEF Types, Frame, Fields
<1>3. Frame(x, s2, {"held"}) /\ s2.held = [s.held EXCEPT ![t] = s.held[t] \cup {m}]
  BY <1>2 DEF Shape, Frame, Fields
<1> HIDE DEF s2
<1>4. /\ s2.held \in [Tasks -> SUBSET Mutexes]
      /\ \A u \in Tasks : s2.held[u] = IF u = t THEN s.held[t] \cup {m} ELSE s.held[u]
  BY <1>2, <1>3
<1>5. Types(s2)
  BY <1>1, <1>3, <1>4 DEF Types, Frame, Fields
<1>6. Frame(s, s2, {"grp", "owner", "nest", "held"})
  <2>1. Frame(s, x, {"grp", "owner", "nest", "held"}) /\ Frame(x, s2, {"grp", "owner", "nest", "held"})
    BY <1>1, <1>3, FrameWiden
  <2> QED
    BY <2>1, FrameTrans
<1>7. /\ s2.pend = s.pend /\ s2.owner = x.owner /\ s2.nest = x.nest /\ s2.grp = x.grp
      /\ s2.astray = s.astray /\ s2.wait = s.wait /\ s2.cur = s.cur /\ s2.rare = s.rare
      /\ s2.suspends = s.suspends
  BY <1>3, <1>6 DEF Frame, Fields
<1>8. Owned(s2)
  <2>1. Owned(s)
    BY DEF Kept, Core
  <2>2. \A n \in Mutexes : /\ s2.owner[n] = IF n = m THEN t ELSE s.owner[n]
                           /\ s2.nest[n] = IF n = m THEN 1 ELSE s.nest[n]
    BY <1>1, <1>7
  <2>3. t # Nothing
    BY <1>0
  <2> QED
    BY <1>7, <2>1, <2>2, <2>3 DEF Owned
<1>9. Listed(s2, {})
  <2>1. Frame(s, s2, {"cur", "prioCur", "base", "status", "grp", "failed", "rare", "astray",
                      "held", "owner", "nest"})
    BY <1>6, FrameWiden
  <2>2. Listed(s, {})
    BY DEF Kept, Listed
  <2> QED
    BY <1>5, <1>8, <2>1, <2>2, ListedSame
<1>10. Hold(s2)
  <2>0. ASSUME ~s2.astray
        PROVE /\ \A u \in Tasks : /\ Uniq(s.grp[u])
                                  /\ s.wait[u] = "DEL" => s.grp[u] = << >>
              /\ \A u \in Tasks : \A n \in Mutexes : /\ n \in s.held[u] => s.owner[n] = u
                                                     /\ n \in ToSet(s.grp[u]) <=> s.owner[n] = u
    <3>1. ~s.astray
      BY <1>7, <2>0
    <3>2. \A u \in Tasks : Uniq(s.grp[u]) /\ (s.wait[u] = "DEL" => s.grp[u] = << >>)
      BY <3>1 DEF Kept, Hold
    <3>3. \A u \in Tasks : \A n \in Mutexes : /\ n \in s.held[u] => s.owner[n] = u
                                              /\ n \in ToSet(s.grp[u]) <=> s.owner[n] = u
      BY <3>1 DEF Kept, Hold
    <3> QED
      BY <3>2, <3>3
  <2>1. ASSUME ~s2.astray
        PROVE  /\ Uniq(<<m>> \o s.grp[t])
               /\ \A n \in Mutexes : n \in ToSet(<<m>> \o s.grp[t]) <=> n \in ToSet(s.grp[t]) \/ n = m
    <3>1. Uniq(s.grp[t]) /\ s.grp[t] \in Seq(Mutexes) /\ m \notin ToSet(s.grp[t])
      BY <1>0, <2>0, <2>1
    <3> QED
      BY <3>1, GrpMore
  <2>2. ASSUME ~s2.astray, NEW u \in Tasks, NEW n \in Mutexes
        PROVE  /\ n \in s2.held[u] => s2.owner[n] = u
               /\ n \in ToSet(s2.grp[u]) <=> s2.owner[n] = u
    <3>1. s2.owner[n] = IF n = m THEN t ELSE s.owner[n]
      BY <1>1, <1>7
    <3>2. s2.grp[u] = IF u = t THEN <<m>> \o s.grp[t] ELSE s.grp[u]
      BY <1>1, <1>7
    <3>3. s2.held[u] = IF u = t THEN s.held[t] \cup {m} ELSE s.held[u]
      BY <1>4
    <3>4. /\ n \in s.held[u] => s.owner[n] = u
          /\ n \in ToSet(s.grp[u]) <=> s.owner[n] = u
      BY <2>0, <2>2
    <3>5. n \in s2.held[u] => s2.owner[n] = u
      BY <1>0, <3>1, <3>3, <3>4
    <3>6. n \in ToSet(s2.grp[u]) <=> s2.owner[n] = u
      <4>1. CASE u = t
        BY <1>0, <2>1, <2>2, <3>1, <3>2, <3>4, <4>1
      <4>2. CASE u # t
        BY <1>0, <3>1, <3>2, <3>4, <4>2
      <4> QED
        BY <4>1, <4>2
    <3> QED
      BY <3>5, <3>6
  <2>3. ASSUME ~s2.astray, NEW u \in Tasks
        PROVE  Uniq(s2.grp[u]) /\ (s2.wait[u] = "DEL" => s2.grp[u] = << >>)
    BY <1>1, <1>7, <2>0, <2>1, <2>3
  <2> QED
    BY <2>2, <2>3 DEF Hold
<1>11. Within(s, s2, 0)
  <2>1. \A n \in Mutexes : s2.nest[n] = s.nest[n] \/ s2.nest[n] = 1
    BY <1>1, <1>7
  <2>2. \A n \in Mutexes : s2.nest[n] <= s.nest[n] + 0 \/ s2.nest[n] <= 1
    BY <1>0, <2>1
  <2> QED
    BY <1>0, <1>7, <2>2 DEF Within
<1>12. Kept(s2, {})
  BY <1>9, <1>10 DEF Kept, Listed
<1>13. Kept(s2, {}) /\ Within(s, s2, 0)
  BY <1>11, <1>12
<1> QED
  BY <1>13 DEF s2, x

\* OSMutexPend, by a task that does not own the mutex.
LEMMA MutexPendKept ==
  ASSUME NEW s, Kept(s, {}), s.cur \in Tasks, Ready(s, s.cur), NEW m \in Mutexes, NEW time \in Nat,
         s.owner[m] # s.cur
  PROVE  Kept(MutexPend(s, m, time), {}) /\ Within(s, MutexPend(s, m, time), 0)
<1> DEFINE t == s.cur
           o == s.owner[m]
           x == IF s.prio[o] > s.prio[t] THEN TaskChangePrio(s, o, s.prio[t]) ELSE s
           s2 == MutexPend(s, m, time)
<1>0. /\ Types(s) /\ Core(s, {}) /\ s.wait[t] = "RDY" /\ s.prio \in [Tasks -> Prios]
      /\ s.owner \in [Mutexes -> Tasks \cup {Nothing}]
  BY DEF Kept, Core, Types, Ready
<1>1. CASE s.nest[m] = 0
  <2>1. s2 = [MutexGrpAdd(s, t, m) EXCEPT !.held[t] = @ \cup {m}]
    BY <1>1 DEF MutexPend
  <2> HIDE DEF s2
  <2>2. t \in Tasks /\ s.wait[t] # "DEL"
    BY <1>0
  <2> HIDE DEF t
  <2>3. Kept(s2, {}) /\ Within(s, s2, 0)
    BY <1>1, <2>1, <2>2, TakeKept
  <2> QED
    BY <2>3 DEF s2
<1>2. CASE s.nest[m] # 0
  <2>1. s2 = Pend(x, m, time)
    BY <1>2 DEF MutexPend
  <2>2. o \in Tasks
    <3>1. o # Nothing
      BY <1>2 DEF Kept, Core, Owned
    <3> QED
      BY <1>0, <3>1
  <2>3. s.prio[t] \in Prios
    BY <1>0
  <2> HIDE DEF o, s2
  <2>4. Reprio(s, x)
    <3>1. CASE s.prio[o] > s.prio[t]
      <4>1. x = TaskChangePrio(s, o, s.prio[t])
        BY <3>1
      <4> HIDE DEF t, x
      <4> QED
        BY <1>0, <2>2, <2>3, <4>1, TaskChangePrioReprio
    <3>2. CASE ~(s.prio[o] > s.prio[t])
      <4>1. x = s
        BY <3>2
      <4> HIDE DEF t, x
      <4> QED
        BY <1>0, <4>1, ReprioRefl
    <3> QED
      BY <3>1, <3>2
  <2> HIDE DEF x
  <2>5. Kept(x, {})
    BY <2>4, ReprioKept
  <2>6. /\ x.cur = s.cur /\ x.rare = s.rare /\ x.suspends = s.suspends /\ x.nest = s.nest
        /\ x.wait = s.wait
    BY <2>4 DEF Reprio, Frame, Fields
  <2>7. x.cur \in Tasks /\ Ready(x, x.cur)
    BY <2>6 DEF Ready, Suspended
  <2>8. m \in Objects /\ (m \in Mutexes => x.nest[m] # 0) /\ (m \in Sems => x.ctr[m] = 0)
    BY <1>2, <2>6, KernelAssumption DEF Objects
  <2>9. Kept(s2, {}) /\ Frame(x, s2, PendFields)
    <3>1. Kept(Pend(x, m, time), {}) /\ Frame(x, Pend(x, m, time), PendFields)
      BY <2>5, <2>7, <2>8, PendKept
    <3> QED
      BY <2>1, <3>1
  <2>10. s2.cur = x.cur /\ s2.rare = x.rare /\ s2.suspends = x.suspends /\ s2.nest = x.nest
    BY <2>9 DEF Frame, Fields, PendFields
  <2>11. Within(s, s2, 0)
    <3>1. /\ \A u \in Tasks : s.suspends[u] \in Nat
          /\ \A n \in Mutexes : s.nest[n] \in Nat
      BY <1>0 DEF Types
    <3> QED
      BY <2>6, <2>10, <3>1 DEF Within
  <2> QED
    BY <2>9, <2>11 DEF s2
<1> QED
  BY <1>1, <1>2

\* OSMutexPend, by the owner.
LEMMA MutexPendOwnerKept ==
  ASSUME NEW s, Kept(s, {}), s.cur \in Tasks, NEW m \in Mutexes, s.owner[m] = s.cur
  PROVE  Kept(MutexPend(s, m, 0), {}) /\ Within(s, MutexPend(s, m, 0), 1)
<1> DEFINE s2 == MutexPend(s, m, 0)
<1>0. Types(s) /\ Shape(s) /\ s.nest \in [Mutexes -> Nat] /\ s.nest[m] # 0
  <2>1. Types(s) /\ Owned(s)
    BY DEF Kept, Core
  <2>2. Shape(s) /\ s.nest \in [Mutexes -> Nat]
    BY <2>1 DEF Types
  <2>3. s.cur # Nothing
    BY KernelAssumption
  <2>4. s.nest[m] = 0 <=> s.owner[m] = Nothing
    BY <2>1 DEF Owned
  <2> QED
    BY <2>1, <2>2, <2>3, <2>4
<1>1. s2 = [s EXCEPT !.nest[m] = @ + 1]
  BY <1>0 DEF MutexPend
<1> HIDE DEF s2
<1>2. Frame(s, s2, {"nest"}) /\ s2.nest = [s.nest EXCEPT ![m] = s.nest[m] + 1]
  BY <1>0, <1>1 DEF Shape, Frame, Fields
<1>3. s2.nest \in [Mutexes -> Nat] /\ \A n \in Mutexes : s2.nest[n] = IF n = m THEN s.nest[n] + 1 ELSE s.nest[n]
  BY <1>0, <1>2
<1>4. Types(s2)
  BY <1>0, <1>2, <1>3 DEF Types, Frame, Fields
<1>5. /\ s2.owner = s.owner /\ s2.pend = s.pend /\ s2.astray = s.astray /\ s2.wait = s.wait
      /\ s2.held = s.held /\ s2.grp = s.grp /\ s2.cur = s.cur /\ s2.rare = s.rare
      /\ s2.suspends = s.suspends
  BY <1>2 DEF Frame, Fields
<1>6. \A n \in Mutexes : s.nest[n] \in Nat /\ (s2.nest[n] = 0 <=> s.nest[n] = 0)
  BY <1>0, <1>3
<1>7. Owned(s2)
  <2>1. Owned(s)
    BY DEF Kept, Core
  <2> QED
    BY <1>5, <1>6, <2>1 DEF Owned
<1>8. Listed(s2, {})
  <2>1. Frame(s, s2, {"cur", "prioCur", "base", "status", "grp", "failed", "rare", "astray",
                      "held", "owner", "nest"})
    BY <1>2, FrameWiden
  <2>2. Listed(s, {})
    BY DEF Kept, Listed
  <2> QED
    BY <1>4, <1>7, <2>1, <2>2, ListedSame
<1>9. Hold(s2)
  BY <1>5 DEF Kept, Hold
<1>10. Within(s, s2, 1)
  <2>1. \A u \in Tasks : s.suspends[u] \in Nat
    BY <1>0 DEF Types
  <2>2. \A n \in Mutexes : s2.nest[n] <= s.nest[n] + 1
    BY <1>3, <1>6
  <2> QED
    BY <1>5, <2>1, <2>2 DEF Within
<1>11. Kept(s2, {})
  BY <1>8, <1>9 DEF Kept, Listed
<1> QED
  BY <1>10, <1>11 DEF s2

-----------------------------------------------------------------------------
(* Semaphores                                                                *)

\* The greatest of two numbers.
LEMMA MaxTwo ==
  ASSUME NEW a \in Int, NEW b \in Int
  PROVE  Max({a, b}) \in {a, b} /\ Max({a, b}) >= a /\ Max({a, b}) >= b
<1>1. \E x \in {a, b} : \A y \in {a, b} : x >= y
  <2>1. CASE a >= b
    BY <2>1
  <2>2. CASE ~(a >= b)
    BY <2>2
  <2> QED
    BY <2>1, <2>2
<1> QED
  BY <1>1 DEF Max

\* The first n that wait for o.
LEMMA FirstEnding ==
  ASSUME NEW s, Core(s, {}), NEW o \in Objects, NEW n \in 0..Len(s.pend[o]),
         NEW status \in Statuses, status = "OK" => o \in Sems
  PROVE  /\ Ending(s, SubSeq(s.pend[o], 1, n), status)
         /\ Ending(s, s.pend[o], status)
         /\ \A t \in Tasks : t \in ToSet(s.pend[o]) <=> s.pendOn[t] = o
         /\ \A t \in ToSet(SubSeq(s.pend[o], 1, n)) : s.pendOn[t] = o
<1> DEFINE q == s.pend[o]
           h == SubSeq(q, 1, n)
<1>0. /\ q \in Seq(Tasks) /\ Uniq(q) /\ \A t \in Tasks : t \in ToSet(q) <=> s.pendOn[t] = o
      /\ o # Nothing /\ (status = "OK" => o \notin Mutexes)
  BY KernelAssumption DEF Core, Pended, Objects
<1>1. n \in 0..Len(q)
  OBVIOUS
<1> HIDE DEF q
<1>2. /\ Len(q) \in Nat /\ DOMAIN q = 1..Len(q) /\ ToSet(q) \subseteq Tasks
      /\ \A i \in 1..Len(q) : q[i] \in Tasks /\ q[i] \in ToSet(q)
  BY <1>0, SetFacts
<1>3. \A i \in 1..Len(q) : q[i] \in Tasks /\ s.pendOn[q[i]] = o
  BY <1>0, <1>2
<1>4. Ending(s, q, status)
  BY <1>0, <1>3 DEF Ending
<1>5. h \in Seq(Tasks) /\ Len(h) = n /\ \A i \in 1..n : h[i] = q[i]
  <2>1. n \in Int /\ 1 \in Int /\ \A i \in 1..n : q[i] \in Tasks
    BY <1>1, <1>2
  <2>2. h \in Seq(Tasks) /\ Len(h) = (IF 1 <= n THEN n - 1 + 1 ELSE 0)
        /\ \A i \in 1..n - 1 + 1 : h[i] = q[1 + i - 1]
    BY <2>1, SubSeqProperties
  <2> HIDE DEF h
  <2> QED
    BY <1>1, <1>2, <2>2
<1> HIDE DEF h
<1>6. \A i \in 1..n : i \in 1..Len(q)
  BY <1>1, <1>2
<1>7. Uniq(h)
  <2>1. DOMAIN h = 1..n
    BY <1>5, SetFacts
  <2> QED
    BY <1>0, <1>2, <1>5, <1>6, <2>1 DEF Uniq
<1>8. Ending(s, h, status) /\ \A t \in ToSet(h) : s.pendOn[t] = o
  <2>1. \A i \in 1..Len(h) : s.pendOn[h[i]] = o
    BY <1>3, <1>5, <1>6
  <2>2. \A t \in ToSet(h) : \E i \in 1..Len(h) : h[i] = t
    BY <1>5, SetFacts
  <2> QED
    BY <1>0, <1>5, <1>7, <2>1, <2>2 DEF Ending
<1> QED
  BY <1>0, <1>4, <1>8 DEF q, h

\* Waits that end change no count.
LEMMA EndsWithin ==
  ASSUME NEW s, Types(s), NEW s2, Frame(s, s2, EndFields)
  PROVE  Within(s, s2, 0) /\ Within(s, s2, 1)
<1>1. EndFields \cap {"cur", "rare", "suspends", "nest"} = {}
  BY DEF EndFields
<1> QED
  BY <1>1, WithinFrame

\* A count that nobody waits for may change, and any may become 0.
LEMMA CountKept ==
  ASSUME NEW s, Kept(s, {}), NEW o \in Sems, NEW n \in 0..MaxCtr, n > 0 => s.pend[o] = << >>
  PROVE  Kept([s EXCEPT !.ctr[o] = n], {}) /\ Within(s, [s EXCEPT !.ctr[o] = n], 0)
         /\ Within(s, [s EXCEPT !.ctr[o] = n], 1)
<1> DEFINE s2 == [s EXCEPT !.ctr[o] = n]
<1>0. Types(s) /\ Shape(s) /\ s.ctr \in [Sems -> 0..MaxCtr]
  BY DEF Kept, Core, Types
<1>1. Frame(s, s2, {"ctr"}) /\ s2.ctr = [s.ctr EXCEPT ![o] = n]
  BY <1>0 DEF Shape, Frame, Fields
<1> HIDE DEF s2
<1>2. s2.ctr \in [Sems -> 0..MaxCtr] /\ \A c \in Sems : s2.ctr[c] = IF c = o THEN n ELSE s.ctr[c]
  BY <1>0, <1>1
<1>3. Types(s2)
  BY <1>0, <1>1, <1>2 DEF Types, Frame, Fields
<1>4. /\ s2.rdy = s.rdy /\ s2.prio = s.prio /\ s2.pend = s.pend /\ s2.pendOn = s.pendOn
      /\ s2.wait = s.wait /\ s2.nest = s.nest /\ s2.owner = s.owner /\ s2.suspends = s.suspends
      /\ s2.due = s.due /\ s2.dlys = s.dlys /\ s2.timeouts = s.timeouts /\ s2.astray = s.astray
      /\ s2.held = s.held /\ s2.grp = s.grp
  BY <1>1 DEF Frame, Fields
<1>5. Awake(s2) = Awake(s) /\ Delayed(s2) = Delayed(s) /\ Timed(s2) = Timed(s)
  BY <1>4 DEF Awake, Ready, Suspended, Delayed, Timed
<1>6. Counts(s2)
  BY <1>2, <1>4 DEF Kept, Core, Counts
<1>7. Core(s2, {})
  BY <1>3, <1>4, <1>5, <1>6 DEF Kept, Core, Waiters, Owned
<1>8. Kept(s2, {})
  BY <1>4, <1>5, <1>7 DEF Kept, Ticks, Blocked, Hold
<1>9. Within(s, s2, 0) /\ Within(s, s2, 1)
  BY <1>0, <1>1, WithinFrame
<1> QED
  BY <1>8, <1>9 DEF s2

\* OSSemPend.
LEMMA SemPendKept ==
  ASSUME NEW s, Kept(s, {}), s.cur \in Tasks, Ready(s, s.cur), NEW o \in Sems, NEW time \in Nat
  PROVE  Kept(SemPend(s, o, time), {}) /\ Within(s, SemPend(s, o, time), 0)
<1>0. Types(s) /\ s.ctr[o] \in 0..MaxCtr /\ MaxCtr \in Nat
  BY KernelAssumption DEF Kept, Core, Types
<1>1. CASE s.ctr[o] > 0
  <2>1. SemPend(s, o, time) = [s EXCEPT !.ctr[o] = s.ctr[o] - 1]
    BY <1>1 DEF SemPend
  <2>2. s.pend[o] = << >>
    BY <1>1 DEF Kept, Core, Counts
  <2>3. s.ctr[o] - 1 \in 0..MaxCtr
    BY <1>0, <1>1
  <2> QED
    BY <2>1, <2>2, <2>3, CountKept
<1>2. CASE ~(s.ctr[o] > 0)
  <2> DEFINE s2 == Pend(s, o, time)
  <2>1. SemPend(s, o, time) = s2
    BY <1>2 DEF SemPend
  <2>2. o \in Objects /\ o \notin Mutexes /\ s.ctr[o] = 0
    BY <1>0, <1>2, KernelAssumption DEF Objects
  <2>3. Kept(s2, {}) /\ Frame(s, s2, PendFields)
    BY <2>2, PendKept
  <2> HIDE DEF s2
  <2>4. Within(s, s2, 0)
    <3>1. PendFields \cap {"cur", "rare", "suspends", "nest"} = {}
      BY DEF PendFields
    <3> QED
      BY <1>0, <2>3, <3>1, WithinFrame
  <2> QED
    BY <2>1, <2>3, <2>4
<1> QED
  BY <1>1, <1>2

\* OSSemPost, to one task or to all, when the count is not at its limit.
LEMMA SemPostKept ==
  ASSUME NEW s, Kept(s, {}), NEW o \in Sems, s.ctr[o] < MaxCtr,
         NEW n \in {1, Max({1, Len(s.pend[o])})}
  PROVE  Kept(SemPost(s, o, n), {}) /\ Within(s, SemPost(s, o, n), 0)
<1>0. /\ Types(s) /\ Core(s, {}) /\ s.ctr[o] \in 0..MaxCtr /\ MaxCtr \in Nat
      /\ o \in Objects /\ o \notin Mutexes /\ s.pend[o] \in Seq(Tasks)
  BY KernelAssumption DEF Kept, Core, Types, Objects
<1>1. CASE s.pend[o] = << >>
  <2>1. SemPost(s, o, n) = [s EXCEPT !.ctr[o] = s.ctr[o] + 1]
    BY <1>1 DEF SemPost
  <2>2. s.ctr[o] + 1 \in 0..MaxCtr
    BY <1>0
  <2> QED
    BY <1>1, <2>1, <2>2, CountKept
<1>2. CASE s.pend[o] # << >>
  <2> DEFINE q == SubSeq(s.pend[o], 1, n)
             s2 == EndPends(s, q, "OK")
  <2>1. SemPost(s, o, n) = s2
    BY <1>2 DEF SemPost
  <2>2. n \in 0..Len(s.pend[o])
    <3>1. Len(s.pend[o]) \in Nat /\ Len(s.pend[o]) # 0
      BY <1>0, <1>2, SetFacts
    <3>2. Max({1, Len(s.pend[o])}) \in {1, Len(s.pend[o])}
      <4>1. 1 \in Int /\ Len(s.pend[o]) \in Int
        BY <3>1
      <4> HIDE DEF s2
      <4> QED
        BY <4>1, MaxTwo
    <3>3. n \in {1, Len(s.pend[o])}
      BY <3>2
    <3> QED
      BY <3>1, <3>3
  <2>3. Ending(s, q, "OK")
    <3>1. "OK" \in Statuses
      BY DEF Statuses
    <3> QED
      BY <1>0, <2>2, <3>1, FirstEnding
  <2> HIDE DEF q
  <2>4. Kept(s2, {}) /\ Frame(s, s2, EndFields)
    BY <2>3, EndPendsKept
  <2> HIDE DEF s2
  <2> QED
    BY <1>0, <2>1, <2>4, EndsWithin
<1> QED
  BY <1>1, <1>2

\* OSSemSet.
LEMMA SemSetKept ==
  ASSUME NEW s, Kept(s, {}), NEW o \in Sems, NEW n \in 0..MaxCtr
  PROVE  Kept(SemSet(s, o, n), {}) /\ Within(s, SemSet(s, o, n), 1)
<1>0. Types(s)
  BY DEF Kept, Core
<1>1. CASE s.ctr[o] > 0 \/ s.pend[o] = << >>
  <2>1. SemSet(s, o, n) = [s EXCEPT !.ctr[o] = n]
    BY <1>1 DEF SemSet
  <2>2. s.pend[o] = << >>
    BY <1>1 DEF Kept, Core, Counts
  <2> QED
    BY <2>1, <2>2, CountKept
<1>2. CASE ~(s.ctr[o] > 0 \/ s.pend[o] = << >>)
  <2>1. SemSet(s, o, n) = s
    BY <1>2 DEF SemSet
  <2>2. Frame(s, s, {})
    BY <1>0 DEF Frame, Types
  <2>3. Within(s, s, 1)
    BY <1>0, <2>2, WithinFrame
  <2> QED
    BY <2>1, <2>3
<1> QED
  BY <1>1, <1>2

\* OSSemPendAbort.
LEMMA SemPendAbortKept ==
  ASSUME NEW s, Kept(s, {}), NEW o \in Sems, s.pend[o] # << >>, NEW n \in {1, Len(s.pend[o])}
  PROVE  Kept(SemPendAbort(s, o, n), {}) /\ Within(s, SemPendAbort(s, o, n), 1)
<1> DEFINE q == SubSeq(s.pend[o], 1, n)
           s2 == EndPends(s, q, "ABORT")
<1>0. Types(s) /\ Core(s, {}) /\ o \in Objects /\ s.pend[o] \in Seq(Tasks)
  BY DEF Kept, Core, Types, Objects
<1>1. SemPendAbort(s, o, n) = s2
  BY DEF SemPendAbort
<1>2. n \in 0..Len(s.pend[o])
  <2>1. Len(s.pend[o]) \in Nat /\ Len(s.pend[o]) # 0
    BY <1>0, SetFacts
  <2> QED
    BY <2>1
<1>3. Ending(s, q, "ABORT")
  <2>1. "ABORT" \in Statuses
    BY DEF Statuses
  <2> QED
    BY <1>0, <1>2, <2>1, FirstEnding
<1> HIDE DEF q
<1>4. Kept(s2, {}) /\ Frame(s, s2, EndFields)
  BY <1>3, EndPendsKept
<1> HIDE DEF s2
<1> QED
  BY <1>0, <1>1, <1>4, EndsWithin

\* When all the waits for an object have ended, its list is empty.
LEMMA AllEnded ==
  ASSUME NEW s, Kept(s, {}), NEW o \in Objects
  PROVE  /\ Kept(EndPends(s, s.pend[o], "DEL"), {})
         /\ Frame(s, EndPends(s, s.pend[o], "DEL"), EndFields)
         /\ EndPends(s, s.pend[o], "DEL").pend[o] = << >>
<1> DEFINE q == s.pend[o]
           s2 == EndPends(s, q, "DEL")
<1>0. Core(s, {}) /\ Types(s) /\ q \in Seq(Tasks)
  BY DEF Kept, Core, Types
<1>1. Ending(s, q, "DEL") /\ \A t \in Tasks : t \in ToSet(q) <=> s.pendOn[t] = o
  <2>1. "DEL" \in Statuses /\ 0 \in 0..Len(s.pend[o])
    BY <1>0, SetFacts DEF Statuses
  <2> QED
    BY <1>0, <2>1, FirstEnding
<1> HIDE DEF q
<1>2. /\ Kept(s2, {}) /\ Frame(s, s2, EndFields)
      /\ \A t \in Tasks : s2.pendOn[t] = IF t \in ToSet(q) THEN Nothing ELSE s.pendOn[t]
  BY <1>1, EndPendsKept
<1> HIDE DEF s2
<1>3. \A t \in Tasks : s2.pendOn[t] # o
  BY <1>1, <1>2, KernelAssumption DEF Objects
<1>4. s2.pend[o] = << >>
  <2>1. Pended(s2.pend, s2.pendOn, s2.prio)
    BY <1>2 DEF Kept, Core
  <2> QED
    BY <1>3, <2>1, EmptyIff
<1> QED
  BY <1>2, <1>4 DEF s2, q

\* OSSemDel.
LEMMA SemDelKept ==
  ASSUME NEW s, Kept(s, {}), NEW o \in Sems
  PROVE  Kept(SemDel(s, o), {}) /\ Within(s, SemDel(s, o), 1)
<1> DEFINE x == EndPends(s, s.pend[o], "DEL")
           s2 == SemDel(s, o)
<1>0. Types(s) /\ o \in Objects /\ 0 \in 0..MaxCtr
  BY KernelAssumption DEF Kept, Core, Objects
<1>1. Kept(x, {}) /\ Frame(s, x, EndFields)
  BY <1>0, AllEnded
<1>2. s2 = [x EXCEPT !.ctr[o] = 0]
  BY DEF SemDel
<1> HIDE DEF x, s2
<1>3. Kept(s2, {}) /\ Within(x, s2, 0)
  <2>1. 0 > 0 => x.pend[o] = << >>
    OBVIOUS
  <2>2. Kept([x EXCEPT !.ctr[o] = 0], {}) /\ Within(x, [x EXCEPT !.ctr[o] = 0], 0)
    BY <1>0, <1>1, <2>1, CountKept
  <2> QED
    BY <1>2, <2>2
<1>4. Within(s, x, 1)
  BY <1>0, <1>1, EndsWithin
<1>5. Within(s, s2, 1)
  <2>1. Types(s) /\ Types(x) /\ Types(s2)
    BY <1>0, <1>1, <1>3 DEF Kept, Core
  <2>2. /\ \A t \in Tasks : s.suspends[t] \in Nat /\ x.suspends[t] \in Nat /\ s2.suspends[t] \in Nat
        /\ \A m \in Mutexes : s.nest[m] \in Nat /\ x.nest[m] \in Nat /\ s2.nest[m] \in Nat
    BY <2>1 DEF Types
  <2> QED
    BY <1>3, <1>4, <2>2 DEF Within
<1> QED
  BY <1>3, <1>5 DEF s2

-----------------------------------------------------------------------------
(* Tasks                                                                     *)

CreateFields == {"wait", "suspends", "status", "prio", "base", "pendOn", "grp", "rdy"}

\* OSTaskCreate, of a task that was deleted or never was.
LEMMA TaskCreateKept ==
  ASSUME NEW s, Kept(s, {}), NEW t \in Tasks, s.wait[t] = "DEL"
  PROVE  /\ Kept(TaskCreate(s, t), {}) /\ Within(s, TaskCreate(s, t), 0)
         /\ TaskCreate(s, t).wait = [s.wait EXCEPT ![t] = "RDY"]
         /\ Frame(s, TaskCreate(s, t), CreateFields) /\ TaskCreate(s, t).pendOn = s.pendOn
         /\ \A u \in Tasks : /\ TaskCreate(s, t).prio[u] = IF u = t THEN First[t] ELSE s.prio[u]
                             /\ TaskCreate(s, t).base[u] = IF u = t THEN First[t] ELSE s.base[u]
<1> DEFINE x == [s EXCEPT !.wait[t] = "RDY", !.suspends[t] = 0, !.status[t] = "OK",
                          !.prio[t] = First[t], !.base[t] = First[t],
                          !.pendOn[t] = Nothing, !.grp[t] = <<>>]
           s2 == TaskCreate(s, t)
           F == {"wait", "suspends", "status", "prio", "base", "pendOn", "grp"}
           G == CreateFields
<1>0. /\ Types(s) /\ Shape(s) /\ s.wait \in [Tasks -> Waits] /\ s.suspends \in [Tasks -> Nat]
      /\ s.status \in [Tasks -> Statuses] /\ s.prio \in [Tasks -> Prios]
      /\ s.base \in [Tasks -> Prios] /\ s.pendOn \in [Tasks -> Objects \cup {Nothing}]
      /\ s.grp \in [Tasks -> Seq(Mutexes)] /\ First[t] \in Prios /\ s.pendOn[t] = Nothing
      /\ \A m \in Mutexes : s.nest[m] \in Nat
  BY KernelAssumption DEF Kept, Core, Types, Waiters, Pending, Prios
<1>1. s2 = RdyListInsertTail(x, t)
  BY DEF TaskCreate
<1>2. /\ Frame(s, x, F)
      /\ x.wait = [s.wait EXCEPT ![t] = "RDY"] /\ x.suspends = [s.suspends EXCEPT ![t] = 0]
      /\ x.status = [s.status EXCEPT ![t] = "OK"] /\ x.prio = [s.prio EXCEPT ![t] = First[t]]
      /\ x.base = [s.base EXCEPT ![t] = First[t]] /\ x.pendOn = [s.pendOn EXCEPT ![t] = Nothing]
      /\ x.grp = [s.grp EXCEPT ![t] = <<>>]
  <2> DEFINE y == [s EXCEPT !.wait[t] = "RDY", !.suspends[t] = 0, !.status[t] = "OK"]
             z == [y EXCEPT !.prio[t] = First[t], !.base[t] = First[t]]
             v == [z EXCEPT !.pendOn[t] = Nothing, !.grp[t] = <<>>]
  <2>1. x = v
    BY Zenon
  <2> HIDE DEF x
  <2>2. /\ Frame(s, y, {"wait", "suspends", "status"}) /\ y.wait = [s.wait EXCEPT ![t] = "RDY"]
        /\ y.suspends = [s.suspends EXCEPT ![t] = 0] /\ y.status = [s.status EXCEPT ![t] = "OK"]
    BY <1>0 DEF Shape, Frame, Fields
  <2> HIDE DEF y
  <2>3. Shape(y) /\ y.prio = s.prio /\ y.base = s.base /\ y.pendOn = s.pendOn /\ y.grp = s.grp
    BY <2>2 DEF Frame, Fields
  <2>4. /\ Frame(y, z, {"prio", "base"}) /\ z.prio = [s.prio EXCEPT ![t] = First[t]]
        /\ z.base = [s.base EXCEPT ![t] = First[t]]
    BY <2>3 DEF Shape, Frame, Fields
  <2> HIDE DEF z
  <2>5. /\ Shape(z) /\ z.pendOn = s.pendOn /\ z.grp = s.grp /\ z.wait = y.wait
        /\ z.suspends = y.suspends /\ z.status = y.status
    BY <2>3, <2>4 DEF Frame, Fields
  <2>6. /\ Frame(z, v, {"pendOn", "grp"}) /\ v.pendOn = [s.pendOn EXCEPT ![t] = Nothing]
        /\ v.grp = [s.grp EXCEPT ![t] = <<>>]
    BY <2>5 DEF Shape, Frame, Fields
  <2> HIDE DEF v
  <2>7. Frame(s, v, F)
    <3>1. Frame(s, y, F) /\ Frame(y, z, F) /\ Frame(z, v, F)
      BY <2>2, <2>4, <2>6, FrameWiden
    <3> HIDE DEF F
    <3> QED
      BY <3>1, FrameTrans
  <2>8. v.wait = y.wait /\ v.suspends = y.suspends /\ v.status = y.status /\ v.prio = z.prio
        /\ v.base = z.base
    BY <2>5, <2>6 DEF Frame, Fields
  <2> QED
    BY <2>1, <2>2, <2>4, <2>6, <2>7, <2>8
<1> HIDE DEF x, s2
<1>3. /\ x.wait \in [Tasks -> Waits] /\ x.suspends \in [Tasks -> Nat]
      /\ x.status \in [Tasks -> Statuses] /\ x.prio \in [Tasks -> Prios]
      /\ x.base \in [Tasks -> Prios] /\ x.pendOn = s.pendOn
      /\ x.grp \in [Tasks -> Seq(Mutexes)]
  <2>1. "RDY" \in Waits /\ "OK" \in Statuses /\ << >> \in Seq(Mutexes)
    BY DEF Waits, Statuses
  <2>2. /\ x.wait \in [Tasks -> Waits] /\ x.status \in [Tasks -> Statuses]
        /\ x.prio \in [Tasks -> Prios]
    BY <1>0, <1>2, <2>1
  <2>5. x.suspends \in [Tasks -> Nat]
    BY <1>0, <1>2
  <2>3. x.base \in [Tasks -> Prios]
    BY <1>0, <1>2
  <2>6. x.pendOn = s.pendOn
    <3>1. \A u \in Tasks : [s.pendOn EXCEPT ![t] = Nothing][u] = s.pendOn[u]
      BY <1>0
    <3>2. s.pendOn = [u \in Tasks |-> s.pendOn[u]]
      BY <1>0
    <3>3. x.pendOn = [s.pendOn EXCEPT ![t] = Nothing]
      BY <1>2
    <3>4. [s.pendOn EXCEPT ![t] = Nothing] = [u \in Tasks |-> [s.pendOn EXCEPT ![t] = Nothing][u]]
      BY <3>2
    <3>5. [u \in Tasks |-> [s.pendOn EXCEPT ![t] = Nothing][u]] = [u \in Tasks |-> s.pendOn[u]]
      BY <3>1
    <3> QED
      BY <3>2, <3>3, <3>4, <3>5
  <2>4. x.grp \in [Tasks -> Seq(Mutexes)]
    BY <1>0, <1>2, <2>1
  <2> QED
    BY <2>2, <2>3, <2>4, <2>5, <2>6
<1>4. Types(x)
  BY <1>0, <1>2, <1>3 DEF Types, Frame, Fields
<1>5. /\ \A u \in Tasks : u # t => /\ x.wait[u] = s.wait[u] /\ x.suspends[u] = s.suspends[u]
                                   /\ x.prio[u] = s.prio[u] /\ x.grp[u] = s.grp[u]
      /\ x.wait[t] = "RDY" /\ x.suspends[t] = 0 /\ x.grp[t] = << >>
      /\ x.rdy = s.rdy /\ x.pend = s.pend
  BY <1>0, <1>2 DEF Frame, Fields
<1>6. Readied(x.rdy, Awake(s), x.prio) /\ t \notin Awake(s)
  <2>1. Awake(s) \ {} = Awake(s)
    OBVIOUS
  <2>2. Readied(s.rdy, Awake(s), s.prio)
    BY <2>1 DEF Kept, Core
  <2>3. t \notin Awake(s)
    BY DEF Awake, Ready
  <2>4. \A u \in Awake(s) : x.prio[u] = s.prio[u]
    BY <1>5, <2>3 DEF Awake
  <2>5. Readied(s.rdy, Awake(s), x.prio)
    BY <2>2, <2>4, ReadySame
  <2> QED
    BY <1>5, <2>3, <2>5
<1>7. Pended(x.pend, x.pendOn, x.prio)
  <2>1. Pended(s.pend, s.pendOn, s.prio)
    BY DEF Kept, Core
  <2>2. \A u \in Tasks : s.pendOn[u] \in Objects => x.prio[u] = s.prio[u]
    BY <1>0, <1>5, KernelAssumption DEF Objects
  <2>3. Pended(s.pend, s.pendOn, x.prio)
    BY <2>1, <2>2, PendSame
  <2> QED
    BY <1>3, <1>5, <2>3
<1>8. /\ Frame(x, s2, {"rdy"}) /\ s2.rdy \in [Prios -> Seq(Tasks)]
      /\ Readied(s2.rdy, Awake(s) \cup {t}, x.prio)
  BY <1>1, <1>4, <1>6, InsertReady
<1>9. Frame(s, s2, G)
  <2>1. Frame(s, x, G) /\ Frame(x, s2, G)
    BY <1>2, <1>8, FrameWiden DEF CreateFields
  <2> QED
    BY <2>1, FrameTrans
<1>10. /\ s2.wait = x.wait /\ s2.suspends = x.suspends /\ s2.prio = x.prio /\ s2.pendOn = s.pendOn
       /\ s2.pend = s.pend /\ s2.grp = x.grp
  BY <1>3, <1>8, <1>9 DEF Frame, Fields, CreateFields
<1>11. Types(s2)
  BY <1>4, <1>8 DEF Types, Frame, Fields
<1>12. Awake(s2) \ {} = Awake(s) \cup {t}
  <2>1. ASSUME NEW u \in Tasks PROVE Ready(s2, u) <=> Ready(s, u) \/ u = t
    <3>1. CASE u = t
      BY <1>5, <1>10, <3>1 DEF Ready, Suspended
    <3>2. CASE u # t
      BY <1>5, <1>10, <3>2 DEF Ready, Suspended
    <3> QED
      BY <3>1, <3>2
  <2> QED
    BY <2>1 DEF Awake
<1>13. /\ s2.owner = s.owner /\ s2.nest = s.nest /\ s2.ctr = s.ctr /\ s2.due = s.due
       /\ s2.dlys = s.dlys /\ s2.timeouts = s.timeouts /\ s2.astray = s.astray /\ s2.held = s.held
       /\ s2.cur = s.cur /\ s2.rare = s.rare
  BY <1>9 DEF Frame, Fields, CreateFields
<1>14. Waiters(s2) /\ Blocked(s2, {}) /\ Owned(s2) /\ Counts(s2)
  <2>1. Waiters(s) /\ Blocked(s, {}) /\ Owned(s) /\ Counts(s)
    BY DEF Kept, Core
  <2>2. \A u \in Tasks : IF u = t THEN s2.wait[u] = "RDY" ELSE s2.wait[u] = s.wait[u]
    BY <1>5, <1>10
  <2>3. Waiters(s2)
    BY <1>0, <1>10, <2>1, <2>2 DEF Waiters
  <2>4. Blocked(s2, {})
    BY <1>10, <2>1, <2>2 DEF Blocked, Pending
  <2>5. Owned(s2) /\ Counts(s2)
    BY <1>10, <1>13, <2>1 DEF Owned, Counts
  <2> QED
    BY <2>3, <2>4, <2>5
<1>15. Core(s2, {})
  BY <1>7, <1>8, <1>10, <1>11, <1>12, <1>14, <1>3, <1>5 DEF Core
<1>16. Ticks(s2, {})
  <2>1. Delayed(s2) = Delayed(s) /\ Timed(s2) = Timed(s)
    BY <1>5, <1>10 DEF Delayed, Timed
  <2> QED
    BY <1>13, <2>1 DEF Kept, Ticks
<1>17. Hold(s2)
  <2> SUFFICES ASSUME ~s2.astray
               PROVE  \A u \in Tasks :
                        /\ \A m \in Mutexes : /\ m \in s2.held[u] => s2.owner[m] = u
                                              /\ m \in ToSet(s2.grp[u]) <=> s2.owner[m] = u
                        /\ Uniq(s2.grp[u])
                        /\ s2.wait[u] = "DEL" => s2.grp[u] = << >>
    BY DEF Hold
  <2>1. ~s.astray
    BY <1>13
  <2>2. s.grp[t] = << >>
    BY <2>1 DEF Kept, Hold
  <2>3. \A u \in Tasks : s2.grp[u] = s.grp[u] /\ (s2.wait[u] = "DEL" => s.wait[u] = "DEL")
    BY <1>5, <1>10, <2>2
  <2>4. \A u \in Tasks : /\ Uniq(s.grp[u])
                         /\ s.wait[u] = "DEL" => s.grp[u] = << >>
    BY <2>1 DEF Kept, Hold
  <2>5. \A u \in Tasks : \A m \in Mutexes : /\ m \in s.held[u] => s.owner[m] = u
                                            /\ m \in ToSet(s.grp[u]) <=> s.owner[m] = u
    BY <2>1 DEF Kept, Hold
  <2> QED
    BY <1>13, <2>3, <2>4, <2>5
<1>18. Within(s, s2, 0)
  <2>1. \A u \in Tasks : s.suspends[u] \in Nat /\ (s2.suspends[u] = s.suspends[u] \/ s2.suspends[u] = 0)
    BY <1>0, <1>5, <1>10
  <2>2. \A u \in Tasks : s2.suspends[u] <= s.suspends[u] + 0
    BY <2>1
  <2> QED
    BY <1>0, <1>13, <2>2 DEF Within
<1>19. Kept(s2, {})
  BY <1>14, <1>15, <1>16, <1>17 DEF Kept
<1>20. s2.wait = [s.wait EXCEPT ![t] = "RDY"]
  BY <1>2, <1>10
<1>21. \A u \in Tasks : /\ s2.prio[u] = IF u = t THEN First[t] ELSE s.prio[u]
                        /\ s2.base[u] = IF u = t THEN First[t] ELSE s.base[u]
  <2>1. s2.base = x.base
    BY <1>8 DEF Frame, Fields
  <2> QED
    BY <1>0, <1>2, <1>10, <2>1
<1> QED
  BY <1>9, <1>10, <1>18, <1>19, <1>20, <1>21 DEF s2

\* What suspending and resuming have in common: the lists follow Awake.
LEMMA SuspendsKept ==
  ASSUME NEW s, Kept(s, {}), NEW s2, Types(s2), Frame(s, s2, {"rdy", "suspends"}),
         Readied(s2.rdy, Awake(s2), s.prio)
  PROVE  Kept(s2, {})
<1>1. /\ s2.prio = s.prio /\ s2.pend = s.pend /\ s2.pendOn = s.pendOn
      /\ s2.wait = s.wait /\ s2.nest = s.nest /\ s2.owner = s.owner /\ s2.ctr = s.ctr
      /\ s2.due = s.due /\ s2.dlys = s.dlys /\ s2.timeouts = s.timeouts /\ s2.astray = s.astray
      /\ s2.held = s.held /\ s2.grp = s.grp
  BY DEF Frame, Fields
<1>2. Delayed(s2) = Delayed(s) /\ Timed(s2) = Timed(s) /\ Awake(s2) \ {} = Awake(s2)
  BY <1>1 DEF Delayed, Timed
<1>3. Core(s2, {})
  BY <1>1, <1>2 DEF Kept, Core, Waiters, Owned, Counts
<1> QED
  BY <1>1, <1>2, <1>3 DEF Kept, Ticks, Blocked, Hold

\* OSTaskSuspend.
LEMMA TaskSuspendKept ==
  ASSUME NEW s, Kept(s, {}), NEW t \in Tasks
  PROVE  /\ Kept(TaskSuspend(s, t), {}) /\ Within(s, TaskSuspend(s, t), 1)
         /\ Frame(s, TaskSuspend(s, t), {"rdy", "suspends"})
<1> DEFINE off == IF Ready(s, t) THEN RdyListRemove(s, t) ELSE s
           s2 == TaskSuspend(s, t)
<1>0. /\ Types(s) /\ Shape(s) /\ s.suspends \in [Tasks -> Nat] /\ s.rdy \in [Prios -> Seq(Tasks)]
      /\ s.prio \in [Tasks -> Prios] /\ Readied(s.rdy, Awake(s), s.prio)
      /\ \A m \in Mutexes : s.nest[m] \in Nat
  <2>1. Awake(s) \ {} = Awake(s)
    OBVIOUS
  <2> QED
    BY <2>1 DEF Kept, Core, Types
<1>1. s2 = [off EXCEPT !.suspends[t] = @ + 1]
  BY DEF TaskSuspend
<1>2. /\ Frame(s, off, {"rdy"}) /\ off.rdy \in [Prios -> Seq(Tasks)]
      /\ Readied(off.rdy, Awake(s) \ {t}, s.prio)
  <2>1. CASE Ready(s, t)
    <3>1. off = RdyListRemove(s, t)
      BY <2>1
    <3>2. /\ Readied([s.rdy EXCEPT ![s.prio[t]] = Without(s.rdy[s.prio[t]], t)], Awake(s) \ {t}, s.prio)
          /\ [s.rdy EXCEPT ![s.prio[t]] = Without(s.rdy[s.prio[t]], t)] \in [Prios -> Seq(Tasks)]
      BY <1>0, ReadyLose
    <3> HIDE DEF off
    <3>3. /\ Frame(s, off, {"rdy"})
          /\ off.rdy = [s.rdy EXCEPT ![s.prio[t]] = Without(s.rdy[s.prio[t]], t)]
      BY <1>0, <3>1, RemoveFields
    <3> QED
      BY <3>2, <3>3
  <2>2. CASE ~Ready(s, t)
    <3>1. Awake(s) \ {t} = Awake(s)
      BY <2>2 DEF Awake
    <3> QED
      BY <1>0, <2>2, <3>1 DEF Frame
  <2> QED
    BY <2>1, <2>2
<1> HIDE DEF off, s2
<1>3. Shape(off) /\ off.suspends = s.suspends
  BY <1>2 DEF Frame, Fields
<1>4. Frame(off, s2, {"suspends"}) /\ s2.suspends = [s.suspends EXCEPT ![t] = s.suspends[t] + 1]
  BY <1>1, <1>3 DEF Shape, Frame, Fields
<1>5. /\ s2.suspends \in [Tasks -> Nat]
      /\ \A u \in Tasks : s2.suspends[u] = IF u = t THEN s.suspends[u] + 1 ELSE s.suspends[u]
  BY <1>0, <1>4
<1>6. Frame(s, s2, {"rdy", "suspends"})
  <2>1. Frame(s, off, {"rdy", "suspends"}) /\ Frame(off, s2, {"rdy", "suspends"})
    BY <1>2, <1>4, FrameWiden
  <2> QED
    BY <2>1, FrameTrans
<1>7. s2.rdy = off.rdy /\ s2.wait = s.wait /\ s2.cur = s.cur /\ s2.rare = s.rare /\ s2.nest = s.nest
  BY <1>4, <1>6 DEF Frame, Fields
<1>8. Types(s2)
  BY <1>0, <1>2, <1>5, <1>6, <1>7 DEF Types, Frame, Fields
<1>9. Awake(s2) = Awake(s) \ {t}
  <2>1. \A u \in Tasks : s.suspends[u] \in Nat
    BY <1>0
  <2>2. \A u \in Tasks : s2.suspends[u] > 0 <=> s.suspends[u] > 0 \/ u = t
    BY <1>5, <2>1
  <2> QED
    BY <1>7, <2>2 DEF Awake, Ready, Suspended
<1>10. Kept(s2, {})
  BY <1>2, <1>6, <1>7, <1>8, <1>9, SuspendsKept
<1>11. Within(s, s2, 1)
  <2>1. \A u \in Tasks : s.suspends[u] \in Nat
    BY <1>0
  <2>2. \A u \in Tasks : s2.suspends[u] <= s.suspends[u] + 1
    BY <1>5, <2>1
  <2> QED
    BY <1>0, <1>7, <2>2 DEF Within
<1> QED
  BY <1>6, <1>10, <1>11 DEF s2

\* OSTaskResume.
LEMMA TaskResumeKept ==
  ASSUME NEW s, Kept(s, {}), NEW t \in Tasks, Suspended(s, t)
  PROVE  /\ Kept(TaskResume(s, t), {}) /\ Within(s, TaskResume(s, t), 0)
         /\ Frame(s, TaskResume(s, t), {"rdy", "suspends"})
<1> DEFINE x == [s EXCEPT !.suspends[t] = @ - 1]
           s2 == TaskResume(s, t)
<1>0. /\ Types(s) /\ Shape(s) /\ s.suspends \in [Tasks -> Nat] /\ s.suspends[t] > 0
      /\ Readied(s.rdy, Awake(s), s.prio) /\ \A m \in Mutexes : s.nest[m] \in Nat
  <2>1. Awake(s) \ {} = Awake(s)
    OBVIOUS
  <2> QED
    BY <2>1 DEF Kept, Core, Types, Suspended
<1>1. s2 = IF Ready(x, t) THEN RdyListInsert(x, t) ELSE x
  BY DEF TaskResume
<1>2. Frame(s, x, {"suspends"}) /\ x.suspends = [s.suspends EXCEPT ![t] = s.suspends[t] - 1]
  BY <1>0 DEF Shape, Frame, Fields
<1> HIDE DEF x, s2
<1>3. /\ x.suspends \in [Tasks -> Nat]
      /\ \A u \in Tasks : x.suspends[u] = IF u = t THEN s.suspends[u] - 1 ELSE s.suspends[u]
  <2>1. s.suspends[t] - 1 \in Nat
    BY <1>0
  <2> QED
    BY <1>0, <1>2, <2>1
<1>4. Types(x)
  BY <1>0, <1>2, <1>3 DEF Types, Frame, Fields
<1>5. x.rdy = s.rdy /\ x.prio = s.prio /\ x.wait = s.wait
  BY <1>2 DEF Frame, Fields
<1>6. Awake(x) = Awake(s) \cup (IF Ready(x, t) THEN {t} ELSE {}) /\ t \notin Awake(s)
  <2>1. t \notin Awake(s)
    BY <1>0 DEF Awake, Ready, Suspended
  <2>2. \A u \in Tasks : u # t => (Ready(x, u) <=> Ready(s, u))
    BY <1>3, <1>5 DEF Ready, Suspended
  <2> QED
    BY <2>1, <2>2 DEF Awake
<1>7. /\ Frame(x, s2, {"rdy"}) /\ s2.rdy \in [Prios -> Seq(Tasks)]
      /\ Readied(s2.rdy, Awake(x), s.prio)
  <2>1. CASE Ready(x, t)
    <3>1. s2 = RdyListInsertTail(x, t) \/ s2 = RdyListInsertHead(x, t)
      BY <1>1, <2>1 DEF RdyListInsert
    <3>2. Readied(x.rdy, Awake(s), x.prio)
      BY <1>0, <1>5
    <3>3. /\ Frame(x, s2, {"rdy"}) /\ s2.rdy \in [Prios -> Seq(Tasks)]
          /\ Readied(s2.rdy, Awake(s) \cup {t}, x.prio)
      BY <1>4, <1>6, <3>1, <3>2, InsertReady
    <3> QED
      BY <1>5, <1>6, <2>1, <3>3
  <2>2. CASE ~Ready(x, t)
    <3>1. s2 = x /\ Awake(x) = Awake(s)
      BY <1>1, <1>6, <2>2
    <3> QED
      BY <1>0, <1>4, <1>5, <3>1 DEF Frame, Types
  <2> QED
    BY <2>1, <2>2
<1>8. Frame(s, s2, {"rdy", "suspends"})
  <2>1. Frame(s, x, {"rdy", "suspends"}) /\ Frame(x, s2, {"rdy", "suspends"})
    BY <1>2, <1>7, FrameWiden
  <2> QED
    BY <2>1, FrameTrans
<1>9. s2.suspends = x.suspends /\ s2.wait = x.wait
  BY <1>7 DEF Frame, Fields
<1>10. Types(s2)
  BY <1>4, <1>7 DEF Types, Frame, Fields
<1>11. Awake(s2) = Awake(x)
  BY <1>9 DEF Awake, Ready, Suspended
<1>12. Kept(s2, {})
  BY <1>7, <1>8, <1>10, <1>11, SuspendsKept
<1>13. Within(s, s2, 0)
  <2>1. s2.cur = s.cur /\ s2.rare = s.rare /\ s2.nest = s.nest
    BY <1>8 DEF Frame, Fields
  <2>2. \A u \in Tasks : s.suspends[u] \in Nat
    BY <1>0
  <2>3. \A u \in Tasks : s2.suspends[u] <= s.suspends[u] + 0
    BY <1>3, <1>9, <2>2
  <2> QED
    BY <1>0, <2>1, <2>3 DEF Within
<1> QED
  BY <1>8, <1>12, <1>13 DEF s2

\* OSTaskChangePrio, of any task to any priority.
LEMMA ChangePrioKept ==
  ASSUME NEW s, Kept(s, {}), NEW t \in Tasks, NEW p \in Prios
  PROVE  Kept(ChangePrio(s, t, p), {}) /\ Within(s, ChangePrio(s, t, p), 1)
<1> DEFINE high == MutexGrpPrioFindHighest(s, t)
           to == IF s.grp[t] # <<>> /\ p > s.prio[t] THEN Min({p, high}) ELSE p
           x == [s EXCEPT !.base[t] = p]
           s2 == ChangePrio(s, t, p)
<1>0. Types(s) /\ Shape(s) /\ s.base \in [Tasks -> Prios]
  BY DEF Kept, Core, Types
<1>1. s2 = TaskChangePrio(x, t, to)
  BY DEF ChangePrio
<1>2. to \in Prios
  <2>1. high \in 0..IdlePrio
    BY <1>0, DisinheritedType
  <2> HIDE DEF high
  <2>2. p \in Nat /\ high \in Nat /\ p \in 0..Lowest /\ Lowest \in Nat
    BY <2>1, KernelAssumption DEF Prios, IdlePrio
  <2>3. Min({p, high}) \in {p, high} /\ Min({p, high}) <= p
    BY <2>2, MinTwo
  <2>4. Min({p, high}) \in 0..Lowest
    BY <2>2, <2>3
  <2> QED
    BY <2>4 DEF Prios
<1> HIDE DEF to, s2
<1>3. Frame(s, x, {"base"}) /\ x.base = [s.base EXCEPT ![t] = p]
  BY <1>0 DEF Shape, Frame, Fields
<1> HIDE DEF x
<1>4. x.base \in [Tasks -> Prios]
  BY <1>0, <1>3
<1>5. Types(x)
  BY <1>0, <1>3, <1>4 DEF Types, Frame, Fields
<1>6. Kept(x, {})
  <2>1. Frame(s, x, {"cur", "prioCur", "base", "status", "failed", "rare"})
    BY <1>3, FrameWiden
  <2> QED
    BY <1>5, <2>1, KeptSame
<1>7. Reprio(x, s2)
  <2>1. Core(x, {})
    BY <1>6 DEF Kept
  <2>2. Reprio(x, TaskChangePrio(x, t, to))
    BY <1>2, <2>1, TaskChangePrioReprio
  <2> QED
    BY <1>1, <2>2
<1>8. Kept(s2, {})
  BY <1>6, <1>7, ReprioKept
<1>9. Within(s, s2, 1)
  <2>1. /\ x.cur = s.cur /\ x.rare = s.rare /\ x.suspends = s.suspends /\ x.nest = s.nest
    BY <1>3 DEF Frame, Fields
  <2>2. /\ s2.cur = x.cur /\ s2.rare = x.rare /\ s2.suspends = x.suspends /\ s2.nest = x.nest
    BY <1>7 DEF Reprio, Frame, Fields
  <2>3. /\ \A u \in Tasks : s.suspends[u] \in Nat
        /\ \A m \in Mutexes : s.nest[m] \in Nat
    BY <1>0 DEF Types
  <2> QED
    BY <2>1, <2>2, <2>3 DEF Within
<1> QED
  BY <1>8, <1>9 DEF s2

-----------------------------------------------------------------------------
(* Time                                                                      *)

\* OSTimeDly.
LEMMA TimeDlyKept ==
  ASSUME NEW s, Kept(s, {}), s.cur \in Tasks, Ready(s, s.cur), NEW time \in Nat \ {0}
  PROVE  /\ Kept(TimeDly(s, time), {}) /\ Within(s, TimeDly(s, time), 1)
         /\ Frame(s, TimeDly(s, time), {"wait", "due", "dlys", "rdy"})
         /\ \A u \in Tasks : s.wait[u] = "DEL" => TimeDly(s, time).wait[u] = "DEL"
<1> DEFINE t == s.cur
           x == [s EXCEPT !.wait[t] = "DLY", !.due[t] = time, !.dlys = TickListInsert(@, t, time)]
           s2 == TimeDly(s, time)
           F == {"wait", "due", "dlys", "rdy"}
<1>0. /\ Types(s) /\ Shape(s) /\ t \in Tasks /\ s.wait[t] = "RDY" /\ s.pendOn[t] = Nothing
      /\ s.wait \in [Tasks -> Waits] /\ s.due \in [Tasks -> Nat] /\ s.dlys \in Seq(Tasks \X Nat)
      /\ s.rdy \in [Prios -> Seq(Tasks)] /\ s.prio \in [Tasks -> Prios]
      /\ Readied(s.rdy, Awake(s), s.prio)
      /\ Ticking(s.dlys, s.due, Delayed(s)) /\ Ticking(s.timeouts, s.due, Timed(s))
  <2>1. Awake(s) \ {} = Awake(s) /\ Delayed(s) \ {} = Delayed(s) /\ Timed(s) \ {} = Timed(s)
    OBVIOUS
  <2> QED
    BY <2>1 DEF Kept, Core, Types, Waiters, Pending, Ready, Ticks
<1>1. s2 = RdyListRemove(x, t)
  BY DEF TimeDly
<1> HIDE DEF t
<1>2. /\ Frame(s, x, {"wait", "due", "dlys"}) /\ x.wait = [s.wait EXCEPT ![t] = "DLY"]
      /\ x.due = [s.due EXCEPT ![t] = time] /\ x.dlys = TickListInsert(s.dlys, t, time)
  BY <1>0 DEF Shape, Frame, Fields
<1> HIDE DEF x, s2
<1>3. Ticking(x.dlys, x.due, Delayed(s) \cup {t}) /\ t \notin Delayed(s) /\ t \notin Timed(s)
  <2>1. t \notin Delayed(s) /\ t \notin Timed(s)
    BY <1>0 DEF Delayed, Timed
  <2>2. Ticking(TickListInsert(s.dlys, t, time), [s.due EXCEPT ![t] = time], Delayed(s) \cup {t})
    BY <1>0, <2>1, TickInsert
  <2> QED
    BY <1>2, <2>1, <2>2
<1>4. x.dlys \in Seq(Tasks \X Nat)
  BY <1>3 DEF Ticking, Summing
<1>5. /\ x.wait \in [Tasks -> Waits] /\ x.due \in [Tasks -> Nat]
      /\ \A u \in Tasks : /\ x.wait[u] = IF u = t THEN "DLY" ELSE s.wait[u]
                          /\ u # t => x.due[u] = s.due[u]
  BY <1>0, <1>2 DEF Waits
<1>6. Types(x)
  BY <1>0, <1>2, <1>4, <1>5 DEF Types, Frame, Fields
<1>7. Shape(x) /\ x.rdy = s.rdy /\ x.prio = s.prio
  BY <1>2, <1>6 DEF Frame, Fields, Types
<1>8. /\ Frame(x, s2, {"rdy"})
      /\ s2.rdy = [s.rdy EXCEPT ![s.prio[t]] = Without(s.rdy[s.prio[t]], t)]
  BY <1>1, <1>7, RemoveFields
<1>9. Readied(s2.rdy, Awake(s) \ {t}, s.prio) /\ s2.rdy \in [Prios -> Seq(Tasks)]
  <2>1. /\ Readied([s.rdy EXCEPT ![s.prio[t]] = Without(s.rdy[s.prio[t]], t)], Awake(s) \ {t}, s.prio)
        /\ [s.rdy EXCEPT ![s.prio[t]] = Without(s.rdy[s.prio[t]], t)] \in [Prios -> Seq(Tasks)]
    BY <1>0, ReadyLose
  <2> QED
    BY <1>8, <2>1
<1>10. Frame(s, s2, F)
  <2>1. Frame(s, x, F) /\ Frame(x, s2, F)
    BY <1>2, <1>8, FrameWiden
  <2> QED
    BY <2>1, FrameTrans
<1>11. s2.wait = x.wait /\ s2.due = x.due /\ s2.dlys = x.dlys
  BY <1>8 DEF Frame, Fields
<1>12. Types(s2)
  BY <1>6, <1>8, <1>9 DEF Types, Frame, Fields
<1>13. /\ s2.prio = s.prio /\ s2.suspends = s.suspends /\ s2.owner = s.owner /\ s2.nest = s.nest
       /\ s2.ctr = s.ctr /\ s2.timeouts = s.timeouts /\ s2.grp = s.grp /\ s2.held = s.held
       /\ s2.astray = s.astray /\ s2.pend = s.pend /\ s2.pendOn = s.pendOn
  BY <1>10 DEF Frame, Fields
<1>14. \A u \in Tasks : s2.wait[u] = IF u = t THEN "DLY" ELSE s.wait[u]
  BY <1>5, <1>11
<1>15. Awake(s2) \ {} = Awake(s) \ {t}
  BY <1>13, <1>14 DEF Awake, Ready, Suspended
<1>16. Delayed(s2) \ {} = Delayed(s) \cup {t} /\ Timed(s2) \ {} = Timed(s)
  BY <1>0, <1>3, <1>14 DEF Delayed, Timed
<1>17. Waiters(s2) /\ Blocked(s2, {})
  <2>1. Waiters(s) /\ Blocked(s, {})
    BY DEF Kept, Core
  <2> QED
    BY <1>0, <1>13, <1>14, <2>1 DEF Waiters, Blocked, Pending
<1>18. Core(s2, {})
  BY <1>9, <1>12, <1>13, <1>15, <1>17 DEF Kept, Core, Owned, Counts
<1>19. Ticks(s2, {})
  <2>1. \A u \in Timed(s) : s2.due[u] = s.due[u]
    BY <1>3, <1>5, <1>11 DEF Timed
  <2>2. Ticking(s.timeouts, s2.due, Timed(s))
    BY <1>0, <2>1, TickingSame
  <2> QED
    BY <1>3, <1>11, <1>13, <1>16, <2>2 DEF Ticks
<1>20. Hold(s2)
  BY <1>13, <1>14 DEF Kept, Hold
<1>21. Kept(s2, {})
  BY <1>17, <1>18, <1>19, <1>20 DEF Kept
<1>22. Within(s, s2, 1)
  <2>1. F \cap {"cur", "rare", "suspends", "nest"} = {}
    OBVIOUS
  <2> HIDE DEF F
  <2> QED
    BY <1>0, <1>10, <2>1, WithinFrame
<1>23. \A u \in Tasks : s.wait[u] = "DEL" => s2.wait[u] = "DEL"
  BY <1>0, <1>14
<1> QED
  BY <1>10, <1>21, <1>22, <1>23 DEF s2

\* OSTimeDlyResume.
LEMMA TimeDlyResumeKept ==
  ASSUME NEW s, Kept(s, {}), NEW t \in Tasks, s.wait[t] = "DLY"
  PROVE  /\ Kept(TimeDlyResume(s, t), {}) /\ Within(s, TimeDlyResume(s, t), 0)
         /\ Frame(s, TimeDlyResume(s, t), {"dlys", "rdy", "wait", "due"})
         /\ \A u \in Tasks : s.wait[u] = "DEL" => TimeDlyResume(s, t).wait[u] = "DEL"
<1> DEFINE x == [s EXCEPT !.dlys = TickListRemove(@, t)]
           s2 == TimeDlyResume(s, t)
           F == {"dlys", "rdy", "wait", "due"}
<1>0. /\ Types(s) /\ Shape(s) /\ s.pendOn[t] = Nothing
      /\ s.wait \in [Tasks -> Waits] /\ s.due \in [Tasks -> Nat] /\ s.dlys \in Seq(Tasks \X Nat)
      /\ Ticking(s.dlys, s.due, Delayed(s)) /\ Ticking(s.timeouts, s.due, Timed(s))
      /\ t \in Delayed(s) /\ t \notin Timed(s)
  <2>1. Delayed(s) \ {} = Delayed(s) /\ Timed(s) \ {} = Timed(s)
    OBVIOUS
  <2> QED
    BY <2>1 DEF Kept, Core, Types, Waiters, Pending, Ticks, Delayed, Timed
<1>1. s2 = Wake(x, t)
  BY DEF TimeDlyResume
<1>2. Frame(s, x, {"dlys"}) /\ x.dlys = TickListRemove(s.dlys, t)
  BY <1>0 DEF Shape, Frame, Fields
<1> HIDE DEF x, s2
<1>3. Ticking(x.dlys, s.due, Delayed(s) \ {t})
  <2>1. Ticking(TickListRemove(s.dlys, t), s.due, Delayed(s) \ {t})
    BY <1>0, TickRemove
  <2> QED
    BY <1>2, <2>1
<1>4. Types(x)
  <2>1. x.dlys \in Seq(Tasks \X Nat)
    BY <1>3 DEF Ticking, Summing
  <2> QED
    BY <1>0, <1>2, <2>1 DEF Types, Frame, Fields
<1>5. /\ x.wait = s.wait /\ x.pendOn = s.pendOn /\ x.due = s.due /\ x.suspends = s.suspends
  BY <1>2 DEF Frame, Fields
<1>6. Core(x, {})
  <2>1. Frame(s, x, {"cur", "prioCur", "suspends", "base", "status", "dlys", "timeouts",
                     "grp", "failed", "rare", "astray", "held", "due"})
    BY <1>2, FrameWiden
  <2>2. Awake(x) = Awake(s)
    BY <1>5 DEF Awake, Ready, Suspended
  <2>3. Core(s, {})
    BY DEF Kept
  <2> QED
    BY <1>4, <2>1, <2>2, <2>3, CoreSame
<1>7. /\ Core(s2, {}) /\ Frame(x, s2, {"rdy", "wait", "due"})
      /\ s2.wait = [x.wait EXCEPT ![t] = "RDY"] /\ s2.due = [x.due EXCEPT ![t] = 0]
  <2>1. x.wait[t] # "RDY" /\ x.pendOn[t] = Nothing /\ t \notin {}
    BY <1>0, <1>5
  <2>2. /\ Core(Wake(x, t), {}) /\ Frame(x, Wake(x, t), {"rdy", "wait", "due"})
        /\ Wake(x, t).wait = [x.wait EXCEPT ![t] = "RDY"]
        /\ Wake(x, t).due = [x.due EXCEPT ![t] = 0]
    BY <1>6, <2>1, WakeCore
  <2> QED
    BY <1>1, <2>2
<1>8. Frame(s, s2, F)
  <2>1. Frame(s, x, F) /\ Frame(x, s2, F)
    BY <1>2, <1>7, FrameWiden
  <2> QED
    BY <2>1, FrameTrans
<1>9. /\ s2.owner = s.owner /\ s2.timeouts = s.timeouts /\ s2.grp = s.grp /\ s2.held = s.held
      /\ s2.astray = s.astray /\ s2.pendOn = s.pendOn /\ s2.dlys = x.dlys
  BY <1>7, <1>8 DEF Frame, Fields
<1>10. \A u \in Tasks : /\ s2.wait[u] = IF u = t THEN "RDY" ELSE s.wait[u]
                        /\ u # t => s2.due[u] = s.due[u]
  BY <1>0, <1>5, <1>7
<1>11. Delayed(s2) \ {} = Delayed(s) \ {t} /\ Timed(s2) \ {} = Timed(s)
  BY <1>0, <1>10 DEF Delayed, Timed
<1>12. Ticks(s2, {})
  <2>1. \A u \in Timed(s) : s2.due[u] = s.due[u]
    BY <1>0, <1>10 DEF Timed
  <2>2. \A u \in Delayed(s) \ {t} : s2.due[u] = s.due[u]
    BY <1>10 DEF Delayed
  <2>3. Ticking(s.timeouts, s2.due, Timed(s))
    BY <1>0, <2>1, TickingSame
  <2>4. Ticking(x.dlys, s2.due, Delayed(s) \ {t})
    BY <1>3, <2>2, TickingSame
  <2> QED
    BY <1>9, <1>11, <2>3, <2>4 DEF Ticks
<1>13. Blocked(s2, {}) /\ Hold(s2)
  BY <1>9, <1>10 DEF Kept, Blocked, Pending, Hold
<1>14. Kept(s2, {})
  BY <1>7, <1>12, <1>13 DEF Kept
<1>15. Within(s, s2, 0)
  <2>1. F \cap {"cur", "rare", "suspends", "nest"} = {}
    OBVIOUS
  <2> HIDE DEF F
  <2> QED
    BY <1>0, <1>8, <2>1, WithinFrame
<1>16. \A u \in Tasks : s.wait[u] = "DEL" => s2.wait[u] = "DEL"
  BY <1>10
<1> QED
  BY <1>8, <1>14, <1>15, <1>16 DEF s2

-----------------------------------------------------------------------------
(* Waits for mutexes that are aborted                                        *)

\* What one aborted wait for a mutex changes.
AbortFields ==
  {"pend", "pendOn", "timeouts", "status", "held", "wait", "due", "rdy", "prio", "prioCur",
   "failed", "astray"}
Aborted(x, m, t) == Disinherit(EndPend(x, t, "ABORT"), x.owner[m], t)

\* One aborted wait, and what its owner loses by it.
LEMMA AbortedKept ==
  ASSUME NEW x, Kept(x, {}), NEW m \in Mutexes, NEW t \in Tasks, x.pendOn[t] = m
  PROVE  /\ Kept(Aborted(x, m, t), {}) /\ Frame(x, Aborted(x, m, t), AbortFields)
         /\ \A u \in Tasks : u # t => Aborted(x, m, t).pendOn[u] = x.pendOn[u]
<1> DEFINE e == EndPend(x, t, "ABORT")
           o == x.owner[m]
           y == Disinherit(e, o, t)
<1>0. x.pendOn[t] # Nothing /\ "ABORT" \in Statuses /\ t \notin {} /\ Core(x, {})
  BY KernelAssumption DEF Statuses, Kept
<1>1. Kept(e, {}) /\ Frame(x, e, EndFields) /\ Unwaits(x, e, t)
  BY <1>0, EndPendKept
<1>2. o \in Tasks
  BY <1>0, OwnerExists
<1>3. Aborted(x, m, t) = y
  BY DEF Aborted
<1> HIDE DEF e, o
<1>4. Reprio(e, y)
  <2>1. Core(e, {})
    BY <1>1 DEF Kept
  <2> QED
    BY <1>2, <2>1, DisinheritReprio
<1> HIDE DEF y
<1>5. Kept(y, {})
  BY <1>1, <1>4, ReprioKept
<1>6. Frame(e, y, {"prio", "prioCur", "rdy", "pend", "pendOn", "failed", "astray"})
      /\ y.pendOn = e.pendOn
  BY <1>4 DEF Reprio
<1>7. Frame(x, y, AbortFields)
  <2>1. Frame(x, e, AbortFields) /\ Frame(e, y, AbortFields)
    BY <1>1, <1>6, FrameWiden DEF AbortFields, EndFields
  <2> QED
    BY <2>1, FrameTrans
<1>8. \A u \in Tasks : u # t => y.pendOn[u] = x.pendOn[u]
  BY <1>1, <1>6 DEF Unwaits
<1> QED
  BY <1>3, <1>5, <1>7, <1>8

\* OSMutexPendAbort, of any number of waits.
LEMMA MutexPendAbortKept ==
  ASSUME NEW s, Kept(s, {}), NEW m \in Mutexes, NEW N \in 0..Len(s.pend[m])
  PROVE  Kept(MutexPendAbort(s, m, N), {}) /\ Within(s, MutexPendAbort(s, m, N), 1)
<1> DEFINE q == s.pend[m]
           Good(n, x) == /\ Kept(x, {}) /\ Frame(s, x, AbortFields)
                         /\ \A i \in 1..N : i > n => x.pendOn[q[i]] = m
           F == [p \in (1..N) \X States |-> Aborted(p[2], m, q[p[1]])]
           G == [n \in 0..N |-> {x \in States : Good(n, x)}]
           H(f) == [n \in 0..N |-> IF n = 0 THEN s ELSE Aborted(f[n - 1], m, q[n])]
           after == CHOOSE f : f = H(f)
           s2 == MutexPendAbort(s, m, N)
<1>0. /\ N \in Nat /\ Uniq(q) /\ DOMAIN q = 1..Len(q) /\ \A i \in 1..N : i \in 1..Len(q)
      /\ \A i \in 1..N : q[i] \in Tasks /\ s.pendOn[q[i]] = m
  <2>1. /\ q \in Seq(Tasks) /\ Uniq(q) /\ \A t \in Tasks : t \in ToSet(q) <=> s.pendOn[t] = m
    BY DEF Kept, Core, Pended, Objects
  <2>2. N \in 0..Len(q)
    OBVIOUS
  <2> HIDE DEF q
  <2>3. /\ Len(q) \in Nat /\ DOMAIN q = 1..Len(q) /\ ToSet(q) \subseteq Tasks
        /\ \A i \in 1..Len(q) : q[i] \in ToSet(q)
    BY <2>1, SetFacts
  <2>4. N \in Nat /\ \A i \in 1..N : i \in 1..Len(q)
    BY <2>2, <2>3
  <2> QED
    BY <2>1, <2>3, <2>4
<1>1. s2 = after[N]
  BY DEF MutexPendAbort, Aborted
<1> HIDE DEF q, s2
<1>2. \A n \in 1..N : \A x \in States : F[<<n, x>>] = Aborted(x, m, q[n])
  OBVIOUS
<1>3. \A n \in 0..N : \A x : x \in G[n] <=> x \in States /\ Good(n, x)
  OBVIOUS
<1>4. Good(0, s) /\ s \in States
  <2>1. Types(s) /\ Frame(s, s, AbortFields)
    BY DEF Kept, Core, Types, Frame
  <2> QED
    BY <1>0, <2>1, TypesState
<1>5. s \in G[0]
  BY <1>0, <1>3, <1>4
<1>6. ASSUME NEW n \in 1..N, NEW x, Good(n - 1, x)
      PROVE  Good(n, Aborted(x, m, q[n]))
  <2> DEFINE t == q[n]
             y == Aborted(x, m, t)
  <2>1. t \in Tasks /\ x.pendOn[t] = m /\ Kept(x, {}) /\ Frame(s, x, AbortFields)
    <3>1. n > n - 1
      BY <1>0
    <3> QED
      BY <1>0, <1>6, <3>1
  <2>2. \A i \in 1..N : i > n => q[i] \in Tasks /\ q[i] # t /\ x.pendOn[q[i]] = m
    <3> SUFFICES ASSUME NEW i \in 1..N, i > n PROVE q[i] \in Tasks /\ q[i] # t /\ x.pendOn[q[i]] = m
      OBVIOUS
    <3>1. i > n - 1 /\ i # n /\ i \in DOMAIN q /\ n \in DOMAIN q
      BY <1>0
    <3> QED
      BY <1>0, <1>6, <3>1 DEF Uniq
  <2> HIDE DEF t
  <2>3. /\ Kept(y, {}) /\ Frame(x, y, AbortFields)
        /\ \A u \in Tasks : u # t => y.pendOn[u] = x.pendOn[u]
    BY <2>1, AbortedKept
  <2> HIDE DEF y
  <2>4. Frame(s, y, AbortFields)
    BY <2>1, <2>3, FrameTrans
  <2>5. \A i \in 1..N : i > n => y.pendOn[q[i]] = m
    BY <2>2, <2>3
  <2>6. Good(n, y)
    BY <2>3, <2>4, <2>5
  <2> QED
    BY <2>6 DEF y, t
<1>7. \A n \in 1..N : \A x \in G[n - 1] : F[<<n, x>>] \in G[n]
  <2> SUFFICES ASSUME NEW n \in 1..N, NEW x \in G[n - 1] PROVE F[<<n, x>>] \in G[n]
    OBVIOUS
  <2> HIDE DEF F, G
  <2>1. n - 1 \in 0..N /\ n \in 0..N
    BY <1>0
  <2>2. x \in States /\ Good(n - 1, x)
    BY <1>3, <2>1
  <2>3. Good(n, Aborted(x, m, q[n]))
    BY <1>6, <2>2
  <2>4. Aborted(x, m, q[n]) \in States
    BY <2>3, TypesState DEF Kept, Core
  <2> QED
    BY <1>2, <1>3, <2>1, <2>2, <2>3, <2>4
<1> HIDE DEF F, G, Good
<1>8. PICK g : Fold(g, N, s, F, G)
  BY <1>0, <1>5, <1>7, FoldExists
<1>9. /\ g = [i \in 0..N |-> g[i]] /\ g[0] = s
      /\ \A i \in 1..N : g[i] = Aborted(g[i - 1], m, q[i])
      /\ g[N] \in G[N]
  <2>1. \A i \in 1..N : g[i - 1] \in States
    <3>1. \A i \in 1..N : i - 1 \in 0..N
      BY <1>0
    <3> QED
      BY <1>3, <1>8, <3>1 DEF Fold
  <2>2. N \in 0..N
    BY <1>0
  <2> QED
    BY <1>2, <1>8, <2>1, <2>2 DEF Fold
<1>10. g = H(g)
  <2>1. \A i \in 0..N : g[i] = IF i = 0 THEN s ELSE Aborted(g[i - 1], m, q[i])
    <3>1. \A i \in 0..N : i # 0 => i \in 1..N
      BY <1>0
    <3> QED
      BY <1>9, <3>1
  <2> QED
    BY <1>9, <2>1
<1>11. after = H(after)
  <2> HIDE DEF H
  <2> QED
    BY <1>10
<1> HIDE DEF after
<1>12. after[0] = s /\ \A n \in 1..N : after[n] = Aborted(after[n - 1], m, q[n])
  BY <1>0, <1>11
<1>13. after[N] = g[N]
  <2>1. \A n \in 1..N : after[n - 1] = g[n - 1] => after[n] = g[n]
    BY <1>9, <1>12
  <2>2. after[0] = g[0]
    BY <1>9, <1>12
  <2> QED
    BY <1>0, <2>1, <2>2, FoldAgree
<1>14. Good(N, s2)
  <2>1. N \in 0..N
    BY <1>0
  <2> QED
    BY <1>1, <1>3, <1>9, <1>13, <2>1
<1>15. Kept(s2, {}) /\ Frame(s, s2, AbortFields)
  BY <1>14 DEF Good
<1>16. Within(s, s2, 1)
  <2>1. AbortFields \cap {"cur", "rare", "suspends", "nest"} = {}
    BY DEF AbortFields
  <2>2. Types(s)
    BY DEF Kept, Core
  <2> QED
    BY <1>15, <2>1, <2>2, WithinFrame
<1> QED
  BY <1>15, <1>16 DEF s2

-----------------------------------------------------------------------------
(* Mutexes that are deleted                                                  *)

\* The mutex m leaves the list of its owner o, and nobody holds it any more.
Orphan(s, o, m) ==
  [MutexGrpRemove(s, o, m) EXCEPT !.held = [t \in Tasks |-> @[t] \ {m}]]

\* The mutex that is deleted leaves the list of its owner.
LEMMA OrphanListed ==
  ASSUME NEW s, Listed(s, {}), NEW o \in Tasks, NEW m \in Mutexes
  PROVE  /\ Listed(Orphan(s, o, m), {}) /\ Frame(s, Orphan(s, o, m), {"grp", "held", "failed"})
         /\ Orphan(s, o, m).failed = (s.failed \/ m \notin ToSet(s.grp[o]))
         /\ \A t \in Tasks :
              /\ Orphan(s, o, m).grp[t] = IF t = o THEN Without(s.grp[o], m) ELSE s.grp[t]
              /\ Orphan(s, o, m).held[t] = s.held[t] \ {m}
<1> DEFINE less == MutexGrpRemove(s, o, m)
           gone == [less EXCEPT !.held = [t \in Tasks |-> @[t] \ {m}]]
<1>0. Types(s)
  BY DEF Listed, Core
<1>1. /\ Types(less) /\ Frame(s, less, {"grp", "held", "failed"})
      /\ less.failed = (s.failed \/ m \notin ToSet(s.grp[o]))
      /\ \A t \in Tasks : /\ less.grp[t] = IF t = o THEN Without(s.grp[o], m) ELSE s.grp[t]
                          /\ less.held[t] = IF t = o THEN s.held[o] \ {m} ELSE s.held[t]
  <2>1. Types(less) /\ Frame(s, less, {"grp", "held", "failed"}) /\ GrpLoss(s, less, o, m)
    BY <1>0, GrpRemoveFields
  <2> HIDE DEF less
  <2> QED
    BY <2>1 DEF GrpLoss
<1>2. gone = Orphan(s, o, m)
  BY DEF Orphan
<1> HIDE DEF less
<1>3. Shape(less) /\ less.held \in [Tasks -> SUBSET Mutexes]
  BY <1>1 DEF Types
<1>4. Frame(less, gone, {"held"}) /\ gone.held = [t \in Tasks |-> less.held[t] \ {m}]
  BY <1>3 DEF Shape, Frame, Fields
<1> HIDE DEF gone
<1>5. gone.held \in [Tasks -> SUBSET Mutexes] /\ \A t \in Tasks : gone.held[t] = s.held[t] \ {m}
  BY <1>1, <1>3, <1>4
<1>6. Types(gone)
  BY <1>1, <1>4, <1>5 DEF Types, Frame, Fields
<1>7. Frame(s, gone, {"grp", "held", "failed"})
  <2>1. Frame(less, gone, {"grp", "held", "failed"})
    BY <1>4, FrameWiden
  <2> QED
    BY <1>1, <2>1, FrameTrans
<1>8. gone.grp = less.grp /\ gone.failed = less.failed
  BY <1>4 DEF Frame, Fields
<1>9. gone.owner = s.owner /\ gone.nest = s.nest /\ gone.pend = s.pend
  BY <1>7 DEF Frame, Fields
<1>10. Listed(gone, {})
  <2>1. Owned(gone)
    BY <1>9 DEF Listed, Core, Owned
  <2>2. Frame(s, gone, {"cur", "prioCur", "base", "status", "grp", "failed", "rare",
                        "astray", "held", "owner", "nest"})
    BY <1>7, FrameWiden
  <2> QED
    BY <1>6, <2>1, <2>2, ListedSame
<1> QED
  BY <1>1, <1>2, <1>5, <1>7, <1>8, <1>10

\* OSMutexDel with OS_OPT_DEL_ALWAYS.
LEMMA MutexDelKept ==
  ASSUME NEW s, Kept(s, {}), NEW m \in Mutexes
  PROVE  Kept(MutexDel(s, m), {}) /\ Within(s, MutexDel(s, m), 1)
<1> DEFINE o     == s.owner[m]
           ended == EndPends(s, s.pend[m], "DEL")
           gone  == Orphan(ended, o, m)
           back  == IF gone.prio[o] # gone.base[o]
                    THEN TaskChangePrio(gone, o, Disinherited(gone, o)) ELSE gone
           left  == IF o = Nothing THEN ended ELSE back
           s2    == MutexDel(s, m)
<1>0. /\ Types(s) /\ m \in Objects /\ Nothing \notin Tasks
      /\ s.owner \in [Mutexes -> Tasks \cup {Nothing}]
  BY KernelAssumption DEF Kept, Core, Types, Objects
<1>1. Kept(ended, {}) /\ Frame(s, ended, EndFields) /\ ended.pend[m] = << >>
  BY <1>0, AllEnded
<1>2. s2 = [left EXCEPT !.owner[m] = Nothing, !.nest[m] = 0]
  BY DEF MutexDel, Orphan
<1> HIDE DEF ended, s2
<1>3. /\ Types(ended) /\ Listed(ended, {}) /\ Hold(ended) /\ ended.owner[m] = o
      /\ ended.cur = s.cur /\ ended.rare = s.rare /\ ended.suspends = s.suspends
      /\ ended.nest = s.nest
  BY <1>1 DEF Kept, Core, Listed, Frame, Fields, EndFields
<1> DEFINE Off(x) ==
             /\ Listed(x, {}) /\ x.owner = ended.owner /\ x.nest = ended.nest /\ x.cur = s.cur
             /\ x.rare = s.rare /\ x.suspends = s.suspends /\ x.pendOn = ended.pendOn
             /\ ~x.astray =>
                 \A t \in Tasks :
                   /\ \A n \in Mutexes : /\ n \in x.held[t] => x.owner[n] = t /\ n # m
                                         /\ n \in ToSet(x.grp[t]) <=> x.owner[n] = t /\ n # m
                   /\ Uniq(x.grp[t])
                   /\ x.wait[t] = "DEL" => x.grp[t] = << >>
<1>4. Off(left)
  <2>1. CASE o = Nothing
    <3>1. left = ended
      BY <2>1
    <3> HIDE DEF left, o
    <3>2. ~ended.astray =>
            \A t \in Tasks :
                   /\ \A n \in Mutexes : /\ n \in ended.held[t] => ended.owner[n] = t /\ n # m
                                         /\ n \in ToSet(ended.grp[t]) <=> ended.owner[n] = t /\ n # m
                   /\ Uniq(ended.grp[t])
                   /\ ended.wait[t] = "DEL" => ended.grp[t] = << >>
      BY <1>0, <1>3, <2>1 DEF Hold
    <3>3. Off(ended)
      BY <1>3, <3>2
    <3> HIDE DEF Off
    <3> QED
      BY <3>1, <3>3
  <2>2. CASE o # Nothing
    <3>0. o \in Tasks /\ left = back
      BY <1>0, <2>2
    <3> HIDE DEF left, o
    <3>1. /\ Listed(gone, {}) /\ Frame(ended, gone, {"grp", "held", "failed"})
          /\ \A t \in Tasks : /\ gone.grp[t] = IF t = o THEN Without(ended.grp[o], m) ELSE ended.grp[t]
                              /\ gone.held[t] = ended.held[t] \ {m}
      BY <1>3, <3>0, OrphanListed
    <3> HIDE DEF gone
    <3>5. Types(gone)
      BY <3>1 DEF Listed, Core
    <3>7. /\ gone.owner = ended.owner /\ gone.nest = ended.nest /\ gone.pend = ended.pend
          /\ gone.cur = ended.cur /\ gone.rare = ended.rare /\ gone.suspends = ended.suspends
          /\ gone.pendOn = ended.pendOn /\ gone.astray = ended.astray /\ gone.wait = ended.wait
      BY <3>1 DEF Frame, Fields
    <3>8. Listed(gone, {})
      BY <3>1
    <3>9. Reprio(gone, back)
      <4>1. Core(gone, {})
        BY <3>8 DEF Listed
      <4>2. CASE gone.prio[o] # gone.base[o]
        <5>1. Disinherited(gone, o) \in Prios
          BY <3>0, <3>5, DisinheritedType
        <5>2. Reprio(gone, TaskChangePrio(gone, o, Disinherited(gone, o)))
          BY <3>0, <4>1, <5>1, TaskChangePrioReprio
        <5> QED
          BY <4>2, <5>2
      <4>3. CASE ~(gone.prio[o] # gone.base[o])
        <5>1. Reprio(gone, gone)
          BY <4>1, ReprioRefl
        <5> QED
          BY <4>3, <5>1
      <4> QED
        BY <4>2, <4>3
    <3> HIDE DEF back
    <3>10. /\ back.owner = gone.owner /\ back.nest = gone.nest /\ back.cur = gone.cur
           /\ back.rare = gone.rare /\ back.suspends = gone.suspends /\ back.pendOn = gone.pendOn
           /\ back.held = gone.held /\ back.grp = gone.grp /\ back.wait = gone.wait
           /\ (gone.astray => back.astray)
      BY <3>9 DEF Reprio, Frame, Fields
    <3>11. Listed(back, {})
      BY <3>8, <3>9, ReprioKeeps DEF Listed, Reprio
    <3>12. ASSUME ~back.astray, NEW t \in Tasks
           PROVE /\ \A n \in Mutexes : /\ n \in back.held[t] => back.owner[n] = t /\ n # m
                                       /\ n \in ToSet(back.grp[t]) <=> back.owner[n] = t /\ n # m
                 /\ Uniq(back.grp[t])
                 /\ back.wait[t] = "DEL" => back.grp[t] = << >>
      <4>1. ~ended.astray
        BY <3>7, <3>10, <3>12
      <4>2. /\ \A n \in Mutexes : /\ n \in ended.held[t] => ended.owner[n] = t
                                  /\ n \in ToSet(ended.grp[t]) <=> ended.owner[n] = t
            /\ Uniq(ended.grp[t]) /\ (ended.wait[t] = "DEL" => ended.grp[t] = << >>)
        BY <1>3, <4>1 DEF Hold
      <4>3. back.held[t] \subseteq ended.held[t] \ {m}
        BY <3>1, <3>10
      <4>4. ended.grp[t] \in Seq(Mutexes)
        BY <1>3 DEF Types
      <4>5. CASE t = o
        <5>1. back.grp[t] = Without(ended.grp[t], m)
          BY <3>1, <3>7, <3>10, <4>5
        <5>2. /\ Uniq(Without(ended.grp[t], m))
              /\ \A n : n \in ToSet(Without(ended.grp[t], m)) <=> n \in ToSet(ended.grp[t]) /\ n # m
          BY <4>2, <4>4, GrpLess
        <5>3. ended.grp[t] # << >>
          <6>1. m \in ToSet(ended.grp[t])
            BY <1>3, <4>2, <4>5
          <6>2. \E i \in 1..Len(ended.grp[t]) : ended.grp[t][i] = m
            BY <4>4, <6>1, SetFacts
          <6>3. Len(ended.grp[t]) # 0
            BY <6>2
          <6> QED
            BY <4>4, <6>3, SetFacts
        <5> QED
          BY <3>7, <3>10, <4>2, <4>3, <5>1, <5>2, <5>3
      <4>6. CASE t # o
        <5>1. back.grp[t] = ended.grp[t]
          BY <3>1, <3>7, <3>10, <4>6
        <5>2. ended.owner[m] # t
          BY <1>3, <4>6
        <5> QED
          BY <3>7, <3>10, <4>2, <4>3, <5>1, <5>2
      <4> QED
        BY <4>5, <4>6
    <3>13. Off(back)
      BY <1>3, <3>7, <3>10, <3>11, <3>12
    <3> HIDE DEF Off
    <3> QED
      BY <3>0, <3>13
  <2> QED
    BY <2>1, <2>2
<1> HIDE DEF left, o
<1>5. Types(left) /\ left.pend[m] = << >>
  <2>1. Pended(left.pend, left.pendOn, left.prio) /\ Pended(ended.pend, ended.pendOn, ended.prio)
    BY <1>3, <1>4 DEF Listed, Core
  <2>2. \A t \in Tasks : ended.pendOn[t] # m
    BY <1>0, <1>1, <2>1, EmptyIff
  <2> QED
    BY <1>0, <1>4, <2>1, <2>2, EmptyIff DEF Listed, Core
<1>6. /\ Types(s2) /\ Frame(left, s2, {"owner", "nest"})
      /\ \A n \in Mutexes : /\ s2.owner[n] = IF n = m THEN Nothing ELSE left.owner[n]
                            /\ s2.nest[n] = IF n = m THEN 0 ELSE left.nest[n]
  BY <1>2, <1>5, FreeFields
<1>7. /\ s2.pend = left.pend /\ s2.astray = left.astray /\ s2.held = left.held
      /\ s2.grp = left.grp /\ s2.wait = left.wait /\ s2.cur = left.cur /\ s2.rare = left.rare
      /\ s2.suspends = left.suspends
  BY <1>6 DEF Frame, Fields
<1>8. Owned(s2)
  <2>1. Owned(left)
    BY <1>4 DEF Listed, Core
  <2> QED
    BY <1>5, <1>6, <1>7, <2>1 DEF Owned
<1>9. Listed(s2, {})
  <2>1. Frame(left, s2, {"cur", "prioCur", "base", "status", "grp", "failed", "rare",
                         "astray", "held", "owner", "nest"})
    BY <1>6, FrameWiden
  <2> QED
    BY <1>4, <1>6, <1>8, <2>1, ListedSame
<1>10. Hold(s2)
  <2> SUFFICES ASSUME ~s2.astray, NEW t \in Tasks
               PROVE  /\ \A n \in Mutexes : /\ n \in s2.held[t] => s2.owner[n] = t
                                            /\ n \in ToSet(s2.grp[t]) <=> s2.owner[n] = t
                      /\ Uniq(s2.grp[t])
                      /\ s2.wait[t] = "DEL" => s2.grp[t] = << >>
    BY DEF Hold
  <2>1. /\ \A n \in Mutexes : /\ n \in left.held[t] => left.owner[n] = t /\ n # m
                              /\ n \in ToSet(left.grp[t]) <=> left.owner[n] = t /\ n # m
        /\ Uniq(left.grp[t]) /\ (left.wait[t] = "DEL" => left.grp[t] = << >>)
    BY <1>4, <1>7
  <2> QED
    BY <1>0, <1>6, <1>7, <2>1
<1>11. Within(s, s2, 1)
  <2>1. s2.cur = s.cur /\ s2.rare = s.rare /\ s2.suspends = s.suspends /\ left.nest = s.nest
    BY <1>3, <1>4, <1>7
  <2>2. /\ \A u \in Tasks : s.suspends[u] \in Nat
        /\ \A n \in Mutexes : s.nest[n] \in Nat
    BY <1>0 DEF Types
  <2>3. \A n \in Mutexes : s2.nest[n] = s.nest[n] \/ s2.nest[n] = 0
    BY <1>6, <2>1
  <2>4. \A n \in Mutexes : s2.nest[n] <= s.nest[n] + 1 \/ s2.nest[n] <= 1
    BY <2>2, <2>3
  <2> QED
    BY <2>1, <2>2, <2>4 DEF Within
<1>12. Kept(s2, {})
  BY <1>9, <1>10 DEF Kept, Listed
<1> QED
  BY <1>11, <1>12 DEF s2

-----------------------------------------------------------------------------
(* Tasks that are deleted                                                    *)

\* What taking a task off its lists changes.
UnlistFields ==
  {"rdy", "dlys", "timeouts", "pend", "pendOn", "prio", "prioCur", "failed", "astray"}

\* The task t has left the lists.
Gone(s, x, t) ==
  /\ Listed(x, {t}) /\ Hold(x) /\ Frame(s, x, UnlistFields) /\ (s.astray => x.astray)
  /\ \A v \in Tasks : x.pendOn[v] = IF v = t THEN Nothing ELSE s.pendOn[v]

\* It has left the pend list of its object, if it had one.
Off(s, t) ==
  IF s.pendOn[t] = Nothing THEN s
  ELSE IF s.pendOn[t] \in Sems THEN PendListRemove(s, t)
  ELSE Disinherit(PendListRemove(s, t), s.owner[s.pendOn[t]], t)

\* The task leaves the list of its object.
LEMMA OffKept ==
  ASSUME NEW s, Kept(s, {}), NEW t \in Tasks
  PROVE  /\ Core(Off(s, t), {}) /\ Ticks(Off(s, t), {}) /\ Hold(Off(s, t))
         /\ Frame(s, Off(s, t), {"prio", "prioCur", "rdy", "pend", "pendOn", "failed", "astray"})
         /\ s.astray => Off(s, t).astray
         /\ \A v \in Tasks : Off(s, t).pendOn[v] = IF v = t THEN Nothing ELSE s.pendOn[v]
<1> DEFINE x == PendListRemove(s, t)
           y == Off(s, t)
           F == {"prio", "prioCur", "rdy", "pend", "pendOn", "failed", "astray"}
<1>0. /\ Types(s) /\ Shape(s) /\ Core(s, {}) /\ Ticks(s, {}) /\ Hold(s)
      /\ s.pendOn \in [Tasks -> Objects \cup {Nothing}]
  BY DEF Kept, Core, Types
<1>1. CASE s.pendOn[t] = Nothing
  <2>1. y = s
    BY <1>1 DEF Off
  <2>2. Frame(s, s, F)
    BY <1>0 DEF Frame
  <2>3. \A v \in Tasks : s.pendOn[v] = IF v = t THEN Nothing ELSE s.pendOn[v]
    BY <1>1
  <2> QED
    BY <1>0, <2>1, <2>2, <2>3
<1>2. CASE s.pendOn[t] # Nothing
  <2>1. /\ Core(x, {}) /\ Frame(s, x, {"pend", "pendOn"})
        /\ x.pendOn = [s.pendOn EXCEPT ![t] = Nothing]
    BY <1>0, <1>2, LeaveCore
  <2> HIDE DEF x
  <2>2. /\ x.wait = s.wait /\ x.due = s.due /\ x.dlys = s.dlys /\ x.timeouts = s.timeouts
        /\ x.held = s.held /\ x.owner = s.owner /\ x.grp = s.grp /\ x.astray = s.astray
    BY <2>1 DEF Frame, Fields
  <2>3. Ticks(x, {}) /\ Hold(x)
    BY <1>0, <2>2 DEF Ticks, Hold, Delayed, Timed
  <2>4. \A v \in Tasks : x.pendOn[v] = IF v = t THEN Nothing ELSE s.pendOn[v]
    BY <1>0, <2>1
  <2>5. Frame(s, x, F)
    BY <2>1, FrameWiden
  <2>6. CASE s.pendOn[t] \in Sems
    <3>1. y = x
      BY <1>2, <2>6 DEF Off, x
    <3> QED
      BY <2>1, <2>2, <2>3, <2>4, <2>5, <3>1
  <2>7. CASE s.pendOn[t] \in Mutexes
    <3> DEFINE o == s.owner[s.pendOn[t]]
    <3>1. y = Disinherit(x, o, t)
      BY <1>2, <2>7, KernelAssumption DEF Off, x
    <3>2. o \in Tasks
      BY <1>0, <2>7, OwnerExists
    <3> HIDE DEF o, y
    <3>3. Reprio(x, y)
      <4>1. Reprio(x, Disinherit(x, o, t))
        BY <2>1, <3>2, DisinheritReprio
      <4> QED
        BY <3>1, <4>1
    <3>4. Core(y, {}) /\ Frame(x, y, F) /\ y.pendOn = x.pendOn /\ Ticks(y, {}) /\ Hold(y)
          /\ (x.astray => y.astray)
      BY <2>3, <3>3, ReprioKeeps DEF Reprio
    <3>5. Frame(s, y, F)
      BY <2>5, <3>4, FrameTrans
    <3>6. \A v \in Tasks : y.pendOn[v] = IF v = t THEN Nothing ELSE s.pendOn[v]
      BY <2>4, <3>4
    <3> QED
      BY <2>2, <3>4, <3>5, <3>6 DEF y
  <2>8. s.pendOn[t] \in Sems \/ s.pendOn[t] \in Mutexes
    BY <1>0, <1>2 DEF Objects
  <2> QED
    BY <2>6, <2>7, <2>8
<1> QED
  BY <1>1, <1>2

\* It leaves all of its lists, whatever its state was.
LEMMA UnlistedGone ==
  ASSUME NEW s, Kept(s, {}), NEW t \in Tasks
  PROVE  Gone(s, Unlisted(s, t), t)
<1> DEFINE off == Off(s, t)
           u == Unlisted(s, t)
<1>0. /\ Types(s) /\ Shape(s) /\ Core(s, {}) /\ Hold(s) /\ Blocked(s, {})
      /\ s.pendOn \in [Tasks -> Objects \cup {Nothing}] /\ s.wait \in [Tasks -> Waits]
      /\ s.rdy \in [Prios -> Seq(Tasks)] /\ s.prio \in [Tasks -> Prios]
      /\ Readied(s.rdy, Awake(s), s.prio) /\ Pended(s.pend, s.pendOn, s.prio)
      /\ Waiters(s) /\ Owned(s) /\ Counts(s)
      /\ Ticking(s.dlys, s.due, Delayed(s)) /\ Ticking(s.timeouts, s.due, Timed(s))
  <2>1. Awake(s) \ {} = Awake(s) /\ Delayed(s) \ {} = Delayed(s) /\ Timed(s) \ {} = Timed(s)
    OBVIOUS
  <2> QED
    BY <2>1 DEF Kept, Core, Types, Ticks
<1>1. u = CASE Ready(s, t) -> RdyListRemove(s, t)
            [] s.wait[t] = "DLY" -> [s EXCEPT !.dlys = TickListRemove(@, t)]
            [] s.wait[t] = "PEND_TIMEOUT" -> [off EXCEPT !.timeouts = TickListRemove(@, t)]
            [] OTHER -> off
  BY DEF Unlisted, Off
<1> HIDE DEF u, off
<1>2. Ready(s, t) => s.wait[t] # "DLY" /\ s.wait[t] # "PEND_TIMEOUT"
  BY DEF Ready
<1>3. s.wait[t] \notin Pending => s.pendOn[t] = Nothing
  BY <1>0 DEF Waiters
<1>4. CASE Ready(s, t)
  <2>1. u = RdyListRemove(s, t) /\ s.pendOn[t] = Nothing /\ t \notin Delayed(s) /\ t \notin Timed(s)
    BY <1>1, <1>2, <1>3, <1>4 DEF Ready, Pending, Delayed, Timed
  <2>2. /\ Frame(s, u, {"rdy"})
        /\ u.rdy = [s.rdy EXCEPT ![s.prio[t]] = Without(s.rdy[s.prio[t]], t)]
    BY <1>0, <2>1, RemoveFields
  <2>3. Readied(u.rdy, Awake(s) \ {t}, s.prio) /\ u.rdy \in [Prios -> Seq(Tasks)]
    <3>1. /\ Readied([s.rdy EXCEPT ![s.prio[t]] = Without(s.rdy[s.prio[t]], t)], Awake(s) \ {t}, s.prio)
          /\ [s.rdy EXCEPT ![s.prio[t]] = Without(s.rdy[s.prio[t]], t)] \in [Prios -> Seq(Tasks)]
      BY <1>0, ReadyLose
    <3> QED
      BY <2>2, <3>1
  <2>4. Types(u)
    BY <1>0, <2>2, <2>3 DEF Types, Frame, Fields
  <2>5. /\ u.wait = s.wait /\ u.suspends = s.suspends /\ u.prio = s.prio /\ u.pend = s.pend
        /\ u.pendOn = s.pendOn /\ u.owner = s.owner /\ u.nest = s.nest /\ u.ctr = s.ctr
        /\ u.due = s.due /\ u.dlys = s.dlys /\ u.timeouts = s.timeouts /\ u.held = s.held
        /\ u.grp = s.grp /\ u.astray = s.astray
    BY <2>2 DEF Frame, Fields
  <2>6. /\ Awake(u) \ {t} = Awake(s) \ {t} /\ Delayed(u) \ {t} = Delayed(s) /\ Timed(u) \ {t} = Timed(s)
    BY <2>1, <2>5 DEF Awake, Ready, Suspended, Delayed, Timed
  <2>7. Core(u, {t})
    <3>1. Waiters(u) /\ Owned(u) /\ Counts(u)
      BY <1>0, <2>5 DEF Waiters, Owned, Counts
    <3>2. Readied(u.rdy, Awake(u) \ {t}, u.prio) /\ Pended(u.pend, u.pendOn, u.prio)
      BY <1>0, <2>3, <2>4, <2>5, <2>6
    <3> QED
      BY <2>4, <3>1, <3>2 DEF Core
  <2>8. Listed(u, {t}) /\ Hold(u)
    <3>1. Ticks(u, {t})
      BY <1>0, <2>5, <2>6 DEF Ticks
    <3>2. Blocked(u, {t})
      BY <1>0, <2>5 DEF Blocked
    <3>3. Hold(u)
      BY <1>0, <2>5 DEF Hold
    <3> QED
      BY <2>7, <3>1, <3>2, <3>3 DEF Listed
  <2>9. Frame(s, u, UnlistFields)
    BY <2>2, FrameWiden DEF UnlistFields
  <2>10. \A v \in Tasks : u.pendOn[v] = IF v = t THEN Nothing ELSE s.pendOn[v]
    BY <2>1, <2>5
  <2>11. Gone(s, u, t)
    BY <2>5, <2>8, <2>9, <2>10 DEF Gone
  <2> QED
    BY <2>11 DEF u
<1>5. CASE s.wait[t] = "DLY"
  <2>0. ~Ready(s, t)
    BY <1>5 DEF Ready
  <2>1. u = [s EXCEPT !.dlys = TickListRemove(@, t)]
    BY <1>1, <1>5, <2>0
  <2>2. s.pendOn[t] = Nothing /\ t \notin Awake(s) /\ t \in Delayed(s) /\ t \notin Timed(s)
    BY <1>3, <1>5, <2>0 DEF Pending, Awake, Delayed, Timed
  <2>3. Frame(s, u, {"dlys"}) /\ u.dlys = TickListRemove(s.dlys, t)
    BY <1>0, <2>1 DEF Shape, Frame, Fields
  <2>4. Ticking(u.dlys, s.due, Delayed(s) \ {t})
    <3>1. Ticking(TickListRemove(s.dlys, t), s.due, Delayed(s) \ {t})
      BY <1>0, <2>2, TickRemove
    <3> QED
      BY <2>3, <3>1
  <2>5. Types(u)
    <3>1. u.dlys \in Seq(Tasks \X Nat)
      BY <2>4 DEF Ticking, Summing
    <3> QED
      BY <1>0, <2>3, <3>1 DEF Types, Frame, Fields
  <2>6. /\ u.wait = s.wait /\ u.suspends = s.suspends /\ u.prio = s.prio /\ u.pend = s.pend
        /\ u.pendOn = s.pendOn /\ u.owner = s.owner /\ u.nest = s.nest /\ u.ctr = s.ctr
        /\ u.due = s.due /\ u.rdy = s.rdy /\ u.timeouts = s.timeouts /\ u.held = s.held
        /\ u.grp = s.grp /\ u.astray = s.astray
    BY <2>3 DEF Frame, Fields
  <2>7. /\ Awake(u) \ {t} = Awake(s) /\ Delayed(u) = Delayed(s) /\ Timed(u) \ {t} = Timed(s)
    BY <2>2, <2>6 DEF Awake, Ready, Suspended, Delayed, Timed
  <2>8. Core(u, {t})
    <3>1. Waiters(u) /\ Owned(u) /\ Counts(u)
      BY <1>0, <2>6 DEF Waiters, Owned, Counts
    <3>2. Readied(u.rdy, Awake(u) \ {t}, u.prio) /\ Pended(u.pend, u.pendOn, u.prio)
      BY <1>0, <2>5, <2>6, <2>7
    <3> QED
      BY <2>5, <3>1, <3>2 DEF Core
  <2>9. Listed(u, {t}) /\ Hold(u)
    <3>1. Ticks(u, {t})
      BY <1>0, <2>4, <2>6, <2>7 DEF Ticks
    <3>2. Blocked(u, {t})
      BY <1>0, <2>6 DEF Blocked
    <3>3. Hold(u)
      BY <1>0, <2>6 DEF Hold
    <3> QED
      BY <2>8, <3>1, <3>2, <3>3 DEF Listed
  <2>10. Frame(s, u, UnlistFields)
    BY <2>3, FrameWiden DEF UnlistFields
  <2>11. \A v \in Tasks : u.pendOn[v] = IF v = t THEN Nothing ELSE s.pendOn[v]
    BY <2>2, <2>6
  <2>12. Gone(s, u, t)
    BY <2>6, <2>9, <2>10, <2>11 DEF Gone
  <2> QED
    BY <2>12 DEF u
<1>6. CASE ~Ready(s, t) /\ s.wait[t] # "DLY"
  <2>0. /\ Core(off, {}) /\ Ticks(off, {}) /\ Hold(off) /\ (s.astray => off.astray)
        /\ Frame(s, off, {"prio", "prioCur", "rdy", "pend", "pendOn", "failed", "astray"})
        /\ \A v \in Tasks : off.pendOn[v] = IF v = t THEN Nothing ELSE s.pendOn[v]
    BY OffKept DEF off
  <2>1. off.wait = s.wait /\ off.suspends = s.suspends /\ off.due = s.due
        /\ off.timeouts = s.timeouts /\ off.dlys = s.dlys
    BY <2>0 DEF Frame, Fields
  <2>2. t \notin Awake(off) /\ t \notin Delayed(off)
    BY <1>6, <2>1 DEF Awake, Ready, Suspended, Delayed
  <2>3. Types(off) /\ Shape(off)
    BY <2>0 DEF Core, Types
  <2>4. /\ Frame(off, u, {"timeouts"}) /\ Ticking(u.timeouts, off.due, Timed(off) \ {t})
    <3>1. Ticking(off.timeouts, off.due, Timed(off))
      <4>1. Timed(off) \ {} = Timed(off)
        OBVIOUS
      <4> QED
        BY <2>0, <4>1 DEF Ticks
    <3>2. CASE s.wait[t] = "PEND_TIMEOUT"
      <4>1. u = [off EXCEPT !.timeouts = TickListRemove(@, t)]
        BY <1>1, <1>6, <3>2
      <4>2. Frame(off, u, {"timeouts"}) /\ u.timeouts = TickListRemove(off.timeouts, t)
        BY <2>3, <4>1 DEF Shape, Frame, Fields
      <4>3. t \in Timed(off)
        BY <2>1, <3>2 DEF Timed
      <4>4. Ticking(TickListRemove(off.timeouts, t), off.due, Timed(off) \ {t})
        BY <3>1, <4>3, TickRemove
      <4> QED
        BY <4>2, <4>4
    <3>3. CASE s.wait[t] # "PEND_TIMEOUT"
      <4>1. u = off
        BY <1>1, <1>6, <3>3
      <4>2. Timed(off) \ {t} = Timed(off)
        BY <2>1, <3>3 DEF Timed
      <4> QED
        BY <2>3, <3>1, <4>1, <4>2 DEF Frame
    <3> QED
      BY <3>2, <3>3
  <2>5. Types(u)
    <3>1. u.timeouts \in Seq(Tasks \X Nat)
      BY <2>4 DEF Ticking, Summing
    <3> QED
      BY <2>3, <2>4, <3>1 DEF Types, Frame, Fields
  <2>6. /\ u.wait = off.wait /\ u.suspends = off.suspends /\ u.prio = off.prio /\ u.pend = off.pend
        /\ u.pendOn = off.pendOn /\ u.owner = off.owner /\ u.nest = off.nest /\ u.ctr = off.ctr
        /\ u.due = off.due /\ u.rdy = off.rdy /\ u.dlys = off.dlys /\ u.held = off.held
        /\ u.grp = off.grp /\ u.astray = off.astray
    BY <2>4 DEF Frame, Fields
  <2>7. /\ Awake(u) \ {t} = Awake(off) \ {} /\ Delayed(u) \ {t} = Delayed(off) \ {}
        /\ Timed(u) = Timed(off)
    BY <2>2, <2>6 DEF Awake, Ready, Suspended, Delayed, Timed
  <2>8. Core(u, {t})
    <3>1. /\ Readied(off.rdy, Awake(off) \ {}, off.prio) /\ Pended(off.pend, off.pendOn, off.prio)
          /\ Waiters(off) /\ Owned(off) /\ Counts(off)
      BY <2>0 DEF Core
    <3>2. Waiters(u)
      BY <2>6, <3>1 DEF Waiters
    <3>3. Owned(u)
      BY <2>6, <3>1 DEF Owned
    <3>4. Counts(u)
      BY <2>6, <3>1 DEF Counts
    <3>5. Readied(u.rdy, Awake(u) \ {t}, u.prio) /\ Pended(u.pend, u.pendOn, u.prio)
      BY <2>6, <2>7, <3>1
    <3> QED
      BY <2>5, <3>2, <3>3, <3>4, <3>5 DEF Core
  <2>9. Ticks(u, {t})
    BY <2>0, <2>4, <2>6, <2>7 DEF Ticks
  <2>10. Blocked(u, {t}) /\ Hold(u)
    BY <1>0, <2>0, <2>1, <2>6 DEF Blocked, Hold
  <2>11. Frame(s, u, UnlistFields)
    <3>1. Frame(s, off, UnlistFields) /\ Frame(off, u, UnlistFields)
      BY <2>0, <2>4, FrameWiden DEF UnlistFields
    <3> QED
      BY <3>1, FrameTrans
  <2>12. \A v \in Tasks : u.pendOn[v] = IF v = t THEN Nothing ELSE s.pendOn[v]
    BY <2>0, <2>6
  <2>13. Gone(s, u, t)
    BY <2>0, <2>6, <2>8, <2>9, <2>10, <2>11, <2>12 DEF Gone, Listed
  <2> QED
    BY <2>13 DEF u
<1> QED
  BY <1>4, <1>5, <1>6

\* What OS_MutexGrpPostAll does with the mutex m of t.
PostOne(x, t, m) ==
  LET y == Release(x, t, m)
  IN  IF y.owner[m] = Nothing THEN y ELSE [y EXCEPT !.owner[m] = t]

\* As long as nobody waits for them, the mutexes of t are simply freed.
PostedOne(x, z, t, m) ==
  /\ Listed(z, {t}) /\ z.pendOn[t] = Nothing /\ Frame(x, z, ReleaseFields)
  /\ \A n \in Mutexes : z.nest[n] = x.nest[n] \/ z.nest[n] \in 0..1
  /\ x.pend[m] = << >> /\ Hold(x) /\ ~x.astray /\ m \in ToSet(x.grp[t]) =>
       /\ Hold(z) /\ z.pendOn = x.pendOn /\ Frame(x, z, {"grp", "held", "owner", "nest"})
       /\ \A n \in Mutexes : z.owner[n] = x.owner[n] \/ n = m
       /\ \A n \in Mutexes : n \in ToSet(z.grp[t]) <=> n \in ToSet(x.grp[t]) /\ n # m

\* One mutex of the task: nobody waits, or the head of the list gets it.
LEMMA PostOneFree ==
  ASSUME NEW x, NEW t \in Tasks, Listed(x, {t}), x.pendOn[t] = Nothing, NEW m \in Mutexes,
         x.pend[m] = << >>
  PROVE  PostedOne(x, PostOne(x, t, m), t, m)
<1> DEFINE y == Release(x, t, m)
           z == PostOne(x, t, m)
<1>0. \A u \in {t} : x.pendOn[u] = Nothing
  OBVIOUS
<1>1. Frees(x, y, {t}, t, m)
  BY ReleaseFree
<1>2. Hold(x) /\ (x.astray \/ x.owner[m] = t) => Hold(y)
  BY <1>0, ReleaseHold
<1> HIDE DEF y
<1>3. /\ Listed(y, {t}) /\ Frame(x, y, {"grp", "held", "failed", "owner", "nest"})
      /\ y.failed = (x.failed \/ m \notin ToSet(x.grp[t]))
      /\ \A u \in Tasks : y.grp[u] = IF u = t THEN Without(x.grp[t], m) ELSE x.grp[u]
      /\ \A n \in Mutexes : /\ y.owner[n] = IF n = m THEN Nothing ELSE x.owner[n]
                            /\ y.nest[n] = IF n = m THEN 0 ELSE x.nest[n]
  BY <1>1 DEF Frees
<1>4. z = y
  BY <1>3 DEF PostOne, y
<1> HIDE DEF z
<1>5. Frame(x, y, ReleaseFields)
  BY <1>3, FrameWiden DEF ReleaseFields
<1>6. y.pendOn = x.pendOn
  BY <1>3 DEF Frame, Fields
<1>7. \A n \in Mutexes : y.nest[n] = x.nest[n] \/ y.nest[n] \in 0..1
  BY <1>3
<1>8. ASSUME Hold(x), ~x.astray, m \in ToSet(x.grp[t])
      PROVE  /\ Hold(y) /\ Frame(x, y, {"grp", "held", "owner", "nest"})
             /\ \A n \in Mutexes : y.owner[n] = x.owner[n] \/ n = m
             /\ \A n \in Mutexes : n \in ToSet(y.grp[t]) <=> n \in ToSet(x.grp[t]) /\ n # m
  <2>1. x.owner[m] = t /\ Uniq(x.grp[t])
    BY <1>8 DEF Hold
  <2>2. x.grp[t] \in Seq(Mutexes)
    BY DEF Listed, Core, Types
  <2>3. \A n : n \in ToSet(Without(x.grp[t], m)) <=> n \in ToSet(x.grp[t]) /\ n # m
    BY <2>1, <2>2, GrpLess
  <2>4. y.grp[t] = Without(x.grp[t], m)
    BY <1>3
  <2>5. y.failed = x.failed
    <3>1. x.failed \in BOOLEAN
      BY DEF Listed, Core, Types
    <3> QED
      BY <1>3, <1>8, <3>1
  <2>6. Frame(x, y, {"grp", "held", "owner", "nest"})
    BY <1>3, <2>5 DEF Frame
  <2> QED
    BY <1>2, <1>3, <1>8, <2>1, <2>3, <2>4, <2>6
<1>9. PostedOne(x, y, t, m)
  BY <1>3, <1>5, <1>6, <1>7, <1>8 DEF PostedOne
<1> QED
  BY <1>4, <1>9 DEF z

LEMMA PostOneHeir ==
  ASSUME NEW x, NEW t \in Tasks, Listed(x, {t}), x.pendOn[t] = Nothing, NEW m \in Mutexes,
         x.pend[m] # << >>
  PROVE  PostedOne(x, PostOne(x, t, m), t, m)
<1> DEFINE y == Release(x, t, m)
           z == PostOne(x, t, m)
<1>0. \A u \in {t} : x.pendOn[u] = Nothing
  OBVIOUS
<1>1. Hands(x, y, {t}, t, m)
  BY <1>0, ReleaseHeir
<1> HIDE DEF y
<1>2. PICK heir \in Tasks \ {t} :
        /\ Unwaits(x, y, heir)
        /\ \A n \in Mutexes : /\ y.owner[n] = IF n = m THEN heir ELSE x.owner[n]
                              /\ y.nest[n] = IF n = m THEN 1 ELSE x.nest[n]
  BY <1>1 DEF Hands
<1>3. Listed(y, {t}) /\ Frame(x, y, ReleaseFields)
  BY <1>1 DEF Hands
<1>4. y.owner[m] # Nothing /\ Nothing \notin Tasks
  BY <1>2, KernelAssumption
<1>5. z = [y EXCEPT !.owner[m] = t]
  BY <1>4 DEF PostOne, y
<1> HIDE DEF z
<1>6. Types(y) /\ Shape(y) /\ y.owner \in [Mutexes -> Tasks \cup {Nothing}]
  BY <1>3 DEF Listed, Core, Types
<1>7. Frame(y, z, {"owner"}) /\ z.owner = [y.owner EXCEPT ![m] = t]
  BY <1>5, <1>6 DEF Shape, Frame, Fields
<1>8. /\ z.owner \in [Mutexes -> Tasks \cup {Nothing}]
      /\ \A n \in Mutexes : z.owner[n] = IF n = m THEN t ELSE y.owner[n]
  BY <1>6, <1>7
<1>9. Types(z)
  BY <1>6, <1>7, <1>8 DEF Types, Frame, Fields
<1>10. z.nest = y.nest /\ z.pend = y.pend /\ z.pendOn = y.pendOn
  BY <1>7 DEF Frame, Fields
<1>11. Owned(z)
  <2>1. Owned(y)
    BY <1>3 DEF Listed, Core
  <2> QED
    BY <1>4, <1>8, <1>10, <2>1 DEF Owned
<1>12. Listed(z, {t})
  <2>1. Frame(y, z, {"cur", "prioCur", "base", "status", "grp", "failed", "rare", "astray",
                     "held", "owner", "nest"})
    BY <1>7, FrameWiden
  <2> QED
    BY <1>3, <1>9, <1>11, <2>1, ListedSame
<1>13. Frame(x, z, ReleaseFields)
  <2>1. Frame(y, z, ReleaseFields)
    BY <1>7, FrameWiden DEF ReleaseFields
  <2> QED
    BY <1>3, <2>1, FrameTrans
<1>14. z.pendOn[t] = Nothing
  BY <1>2, <1>10 DEF Unwaits
<1>15. \A n \in Mutexes : z.nest[n] = x.nest[n] \/ z.nest[n] \in 0..1
  BY <1>2, <1>10
<1>16. PostedOne(x, z, t, m)
  BY <1>12, <1>13, <1>14, <1>15 DEF PostedOne
<1> QED
  BY <1>16 DEF z

LEMMA PostOneLemma ==
  ASSUME NEW x, NEW t \in Tasks, Listed(x, {t}), x.pendOn[t] = Nothing, NEW m \in Mutexes
  PROVE  PostedOne(x, PostOne(x, t, m), t, m)
BY PostOneFree, PostOneHeir

\* All the mutexes of t.
Posted(s, z, t) ==
  /\ Listed(z, {t}) /\ z.pendOn[t] = Nothing /\ Frame(s, z, ReleaseFields)
  /\ \A n \in Mutexes : z.nest[n] = s.nest[n] \/ z.nest[n] \in 0..1
  /\ ~s.astray /\ (\A m \in ToSet(s.grp[t]) : s.pend[m] = << >>) =>
       /\ Hold(z) /\ z.grp[t] = << >> /\ z.pendOn = s.pendOn
       /\ Frame(s, z, {"grp", "held", "owner", "nest"})
       /\ \A n \in Mutexes : z.owner[n] = s.owner[n] \/ s.pend[n] = << >>

\* All of them.
LEMMA PostAllPosted ==
  ASSUME NEW s, NEW t \in Tasks, Listed(s, {t}), s.pendOn[t] = Nothing, Hold(s)
  PROVE  Posted(s, MutexGrpPostAll(s, t), t)
<1> DEFINE q == s.grp[t]
           N == Len(q)
           quiet == ~s.astray /\ \A i \in 1..N : s.pend[q[i]] = << >>
           Good(n, x) == /\ Listed(x, {t}) /\ x.pendOn[t] = Nothing /\ Frame(s, x, ReleaseFields)
                         /\ \A m \in Mutexes : x.nest[m] = s.nest[m] \/ x.nest[m] \in 0..1
                         /\ quiet => /\ Hold(x) /\ x.pendOn = s.pendOn
                                     /\ Frame(s, x, {"grp", "held", "owner", "nest"})
                                     /\ \A m \in Mutexes : \/ x.owner[m] = s.owner[m]
                                                            \/ s.pend[m] = << >>
                                     /\ \A m \in Mutexes : m \in ToSet(x.grp[t]) <=>
                                                             \E i \in 1..N : i > n /\ q[i] = m
           F == [p \in (1..N) \X States |-> PostOne(p[2], t, q[p[1]])]
           G == [n \in 0..N |-> {x \in States : Good(n, x)}]
           H(f) == [n \in 0..N |-> IF n = 0 THEN s ELSE PostOne(f[n - 1], t, q[n])]
           after == CHOOSE f : f = H(f)
           s2 == MutexGrpPostAll(s, t)
<1>0. /\ N \in Nat /\ q \in Seq(Mutexes) /\ DOMAIN q = 1..N /\ \A i \in 1..N : q[i] \in Mutexes
      /\ ~s.astray => Uniq(q)
      /\ \A m : m \in ToSet(q) <=> \E i \in 1..N : q[i] = m
  <2>1. q \in Seq(Mutexes) /\ (~s.astray => Uniq(q))
    BY DEF Listed, Core, Types, Hold
  <2> HIDE DEF q
  <2>2. N \in Nat /\ DOMAIN q = 1..N /\ ToSet(q) \subseteq Mutexes
        /\ \A m : m \in ToSet(q) <=> \E i \in 1..N : q[i] = m
    BY <2>1, SetFacts
  <2> QED
    BY <2>1, <2>2
<1>1. s2 = after[N]
  BY DEF MutexGrpPostAll, PostOne
<1>100. \A m \in ToSet(s.grp[t]) : m \in ToSet(q)
  OBVIOUS
<1>101. ~s.astray /\ (\A m \in ToSet(s.grp[t]) : s.pend[m] = << >>) => quiet
  BY <1>0
<1>102. \A x : x.grp[t] \in Seq(Mutexes) /\ ToSet(x.grp[t]) = {} => x.grp[t] = << >>
  <2> SUFFICES ASSUME NEW g \in Seq(Mutexes), ToSet(g) = {} PROVE g = << >>
    OBVIOUS
  <2>1. Len(g) \in Nat /\ \A i \in 1..Len(g) : g[i] \in ToSet(g)
    BY SetFacts
  <2>2. Len(g) = 0
    <3>1. ~(1 \in 1..Len(g))
      BY <2>1
    <3> QED
      BY <2>1, <3>1
  <2> QED
    BY <2>2, SetFacts
<1> HIDE DEF q, N, s2
<1>2. \A n \in 1..N : \A x \in States : F[<<n, x>>] = PostOne(x, t, q[n])
  OBVIOUS
<1>3. \A n \in 0..N : \A x : x \in G[n] <=> x \in States /\ Good(n, x)
  OBVIOUS
<1>4. Good(0, s) /\ s \in States
  <2>1. /\ Types(s) /\ Frame(s, s, ReleaseFields)
        /\ Frame(s, s, {"grp", "held", "owner", "nest"})
    BY DEF Listed, Core, Types, Frame
  <2>2. \A i \in 1..N : i > 0
    BY <1>0
  <2>3. \A m \in Mutexes : m \in ToSet(s.grp[t]) <=> \E i \in 1..N : i > 0 /\ q[i] = m
    BY <1>0, <2>2 DEF q
  <2> QED
    BY <2>1, <2>3, TypesState
<1>5. s \in G[0]
  BY <1>0, <1>3, <1>4
<1>6. ASSUME NEW n \in 1..N, NEW x, Good(n - 1, x)
      PROVE  Good(n, PostOne(x, t, q[n]))
  <2> DEFINE m == q[n]
             y == PostOne(x, t, m)
  <2>1. m \in Mutexes /\ Listed(x, {t}) /\ x.pendOn[t] = Nothing /\ Frame(s, x, ReleaseFields)
    BY <1>0, <1>6
  <2>2. \A c \in Mutexes : x.nest[c] = s.nest[c] \/ x.nest[c] \in 0..1
    BY <1>6
  <2> HIDE DEF m
  <2>3. PostedOne(x, y, t, m)
    BY <2>1, PostOneLemma
  <2> HIDE DEF y
  <2>4. /\ Listed(y, {t}) /\ y.pendOn[t] = Nothing /\ Frame(x, y, ReleaseFields)
        /\ \A c \in Mutexes : y.nest[c] = x.nest[c] \/ y.nest[c] \in 0..1
    BY <2>3 DEF PostedOne
  <2>5. Frame(s, y, ReleaseFields)
    BY <2>1, <2>4, FrameTrans
  <2>6. \A c \in Mutexes : y.nest[c] = s.nest[c] \/ y.nest[c] \in 0..1
    BY <2>2, <2>4
  <2>7. ASSUME quiet
        PROVE  /\ Hold(y) /\ y.pendOn = s.pendOn
               /\ Frame(s, y, {"grp", "held", "owner", "nest"})
               /\ \A c \in Mutexes : y.owner[c] = s.owner[c] \/ s.pend[c] = << >>
               /\ \A c \in Mutexes : c \in ToSet(y.grp[t]) <=> \E i \in 1..N : i > n /\ q[i] = c
    <3>1. /\ Hold(x) /\ x.pendOn = s.pendOn /\ Frame(s, x, {"grp", "held", "owner", "nest"})
          /\ \A c \in Mutexes : x.owner[c] = s.owner[c] \/ s.pend[c] = << >>
          /\ \A c \in Mutexes : c \in ToSet(x.grp[t]) <=> \E i \in 1..N : i > n - 1 /\ q[i] = c
      BY <1>6, <2>7
    <3>2. ~x.astray
      BY <2>1, <2>7 DEF Frame, Fields, ReleaseFields
    <3>3. m \in ToSet(x.grp[t])
      <4>1. n \in 1..N /\ n > n - 1 /\ q[n] = m
        BY <1>0 DEF m
      <4> QED
        BY <2>1, <3>1, <4>1
    <3>4. x.pend[m] = << >> /\ s.pend[m] = << >>
      <4>1. s.pend[m] = << >> /\ m \in Objects
        BY <2>1, <2>7 DEF m, Objects
      <4>2. Pended(x.pend, x.pendOn, x.prio) /\ Pended(s.pend, s.pendOn, s.prio)
        BY <2>1 DEF Listed, Core
      <4>3. \A u \in Tasks : s.pendOn[u] # m
        BY <4>1, <4>2, EmptyIff
      <4> QED
        BY <3>1, <4>1, <4>2, <4>3, EmptyIff
    <3>5. /\ Hold(y) /\ y.pendOn = x.pendOn /\ Frame(x, y, {"grp", "held", "owner", "nest"})
          /\ \A c \in Mutexes : y.owner[c] = x.owner[c] \/ c = m
          /\ \A c \in Mutexes : c \in ToSet(y.grp[t]) <=> c \in ToSet(x.grp[t]) /\ c # m
      BY <2>3, <3>1, <3>2, <3>3, <3>4 DEF PostedOne
    <3>6. Uniq(q)
      BY <1>0, <2>7
    <3>7. ASSUME NEW c \in Mutexes
          PROVE  c \in ToSet(y.grp[t]) <=> \E i \in 1..N : i > n /\ q[i] = c
      <4>1. c \in ToSet(y.grp[t]) <=> (\E i \in 1..N : i > n - 1 /\ q[i] = c) /\ c # m
        BY <3>1, <3>5
      <4>2. ASSUME NEW i \in 1..N, i > n - 1, q[i] = c, c # m PROVE i > n
        <5>1. i # n
          BY <4>2 DEF m
        <5> QED
          BY <1>0, <4>2, <5>1
      <4>3. ASSUME NEW i \in 1..N, i > n, q[i] = c PROVE i > n - 1 /\ c # m
        <5>1. i > n - 1 /\ i # n /\ i \in DOMAIN q /\ n \in DOMAIN q
          BY <1>0, <4>3
        <5> QED
          BY <3>6, <4>3, <5>1 DEF Uniq, m
      <4> QED
        BY <4>1, <4>2, <4>3
    <3>8. Frame(s, y, {"grp", "held", "owner", "nest"})
      BY <3>1, <3>5, FrameTrans
    <3>9. \A c \in Mutexes : y.owner[c] = s.owner[c] \/ s.pend[c] = << >>
      BY <3>1, <3>4, <3>5
    <3> QED
      BY <3>1, <3>5, <3>7, <3>8, <3>9
  <2>8. Good(n, y)
    BY <2>4, <2>5, <2>6, <2>7
  <2> QED
    BY <2>8 DEF y, m
<1>7. \A n \in 1..N : \A x \in G[n - 1] : F[<<n, x>>] \in G[n]
  <2> SUFFICES ASSUME NEW n \in 1..N, NEW x \in G[n - 1] PROVE F[<<n, x>>] \in G[n]
    OBVIOUS
  <2> HIDE DEF F, G, quiet
  <2>1. n - 1 \in 0..N /\ n \in 0..N
    BY <1>0
  <2>2. x \in States /\ Good(n - 1, x)
    BY <1>3, <2>1
  <2>3. Good(n, PostOne(x, t, q[n]))
    BY <1>6, <2>2
  <2>4. PostOne(x, t, q[n]) \in States
    BY <2>3, TypesState DEF Listed, Core
  <2> HIDE DEF Good
  <2>5. F[<<n, x>>] = PostOne(x, t, q[n])
    BY <1>2, <2>2
  <2> QED
    BY <1>3, <2>1, <2>3, <2>4, <2>5
<1> HIDE DEF F, G, Good, quiet
<1>8. PICK g : Fold(g, N, s, F, G)
  BY <1>0, <1>5, <1>7, FoldExists
<1>9. /\ g = [i \in 0..N |-> g[i]] /\ g[0] = s
      /\ \A i \in 1..N : g[i] = PostOne(g[i - 1], t, q[i])
      /\ g[N] \in G[N]
  <2>1. \A i \in 1..N : g[i - 1] \in States
    <3>1. \A i \in 1..N : i - 1 \in 0..N
      BY <1>0
    <3> QED
      BY <1>3, <1>8, <3>1 DEF Fold
  <2>2. N \in 0..N
    BY <1>0
  <2> QED
    BY <1>2, <1>8, <2>1, <2>2 DEF Fold
<1>10. g = H(g)
  <2>1. \A i \in 0..N : g[i] = IF i = 0 THEN s ELSE PostOne(g[i - 1], t, q[i])
    <3>1. \A i \in 0..N : i # 0 => i \in 1..N
      BY <1>0
    <3> QED
      BY <1>9, <3>1
  <2> QED
    BY <1>9, <2>1
<1>11. after = H(after)
  <2> HIDE DEF H
  <2> QED
    BY <1>10
<1> HIDE DEF after
<1>12. after[0] = s /\ \A n \in 1..N : after[n] = PostOne(after[n - 1], t, q[n])
  BY <1>0, <1>11
<1>13. after[N] = g[N]
  <2>1. \A n \in 1..N : after[n - 1] = g[n - 1] => after[n] = g[n]
    BY <1>9, <1>12
  <2>2. after[0] = g[0]
    BY <1>9, <1>12
  <2> QED
    BY <1>0, <2>1, <2>2, FoldAgree
<1>14. Good(N, s2)
  <2>1. N \in 0..N
    BY <1>0
  <2> QED
    BY <1>1, <1>3, <1>9, <1>13, <2>1
<1>15. quiet => /\ Hold(s2) /\ s2.grp[t] = << >> /\ s2.pendOn = s.pendOn
                /\ Frame(s, s2, {"grp", "held", "owner", "nest"})
                /\ \A n \in Mutexes : s2.owner[n] = s.owner[n] \/ s.pend[n] = << >>
  <2> SUFFICES ASSUME quiet
               PROVE /\ Hold(s2) /\ s2.grp[t] = << >> /\ s2.pendOn = s.pendOn
                     /\ Frame(s, s2, {"grp", "held", "owner", "nest"})
                     /\ \A n \in Mutexes : s2.owner[n] = s.owner[n] \/ s.pend[n] = << >>
    OBVIOUS
  <2>1. /\ Hold(s2) /\ Listed(s2, {t}) /\ s2.pendOn = s.pendOn
        /\ Frame(s, s2, {"grp", "held", "owner", "nest"})
        /\ \A n \in Mutexes : s2.owner[n] = s.owner[n] \/ s.pend[n] = << >>
        /\ \A m \in Mutexes : m \in ToSet(s2.grp[t]) <=> \E i \in 1..N : i > N /\ q[i] = m
    BY <1>14 DEF Good
  <2>2. \A i \in 1..N : ~(i > N)
    BY <1>0
  <2>3. s2.grp[t] \in Seq(Mutexes)
    BY <2>1 DEF Listed, Core, Types
  <2>4. ToSet(s2.grp[t]) \subseteq Mutexes
    BY <2>3, SetFacts
  <2>5. ToSet(s2.grp[t]) = {}
    BY <2>1, <2>2, <2>4
  <2> QED
    BY <1>102, <2>1, <2>3, <2>5
<1>16. Posted(s, s2, t)
  BY <1>14, <1>15, <1>101 DEF Good, Posted
<1> QED
  BY <1>16 DEF s2

\* OSTaskDel.
LEMMA TaskDelKept ==
  ASSUME NEW s, Kept(s, {}), NEW t \in Tasks
  PROVE  Kept(TaskDel(s, t), {}) /\ Within(s, TaskDel(s, t), 1)
<1> DEFINE u  == Unlisted(s, t)
           p  == MutexGrpPostAll(u, t)
           waited == \E m \in ToSet(s.grp[t]) : s.pend[m] # <<>>
           s2 == TaskDel(s, t)
           F == {"wait", "due", "held", "astray"}
<1>0. Types(s) /\ Nothing \notin Tasks /\ s.grp[t] \in Seq(Mutexes)
      /\ Pended(s.pend, s.pendOn, s.prio)
  BY KernelAssumption DEF Kept, Core, Types
<1>1. s2 = [p EXCEPT !.wait[t] = "DEL", !.due[t] = 0, !.held[t] = {}, !.astray = \/ @ \/ waited]
  BY DEF TaskDel
<1>2. Gone(s, u, t)
  BY UnlistedGone
<1> HIDE DEF u
<1>3. /\ Listed(u, {t}) /\ Hold(u) /\ Frame(s, u, UnlistFields)
      /\ \A v \in Tasks : u.pendOn[v] = IF v = t THEN Nothing ELSE s.pendOn[v]
      /\ u.pendOn[t] = Nothing
  BY <1>2 DEF Gone
<1>4. Posted(u, p, t)
  BY <1>3, PostAllPosted
<1> HIDE DEF p, s2, waited
<1>5. /\ Listed(p, {t}) /\ p.pendOn[t] = Nothing /\ Frame(u, p, ReleaseFields)
      /\ \A n \in Mutexes : p.nest[n] = u.nest[n] \/ p.nest[n] \in 0..1
      /\ ~u.astray /\ (\A m \in ToSet(u.grp[t]) : u.pend[m] = << >>) => Hold(p) /\ p.grp[t] = << >>
  BY <1>4 DEF Posted
<1>6. /\ Types(p) /\ Shape(p) /\ p.wait \in [Tasks -> Waits] /\ p.due \in [Tasks -> Nat]
      /\ p.held \in [Tasks -> SUBSET Mutexes]
  BY <1>5 DEF Listed, Core, Types
<1>7. /\ Frame(p, s2, F) /\ s2.wait = [p.wait EXCEPT ![t] = "DEL"] /\ s2.due = [p.due EXCEPT ![t] = 0]
      /\ s2.held = [p.held EXCEPT ![t] = {}] /\ s2.astray = (p.astray \/ waited)
  BY <1>1, <1>6 DEF Shape, Frame, Fields
<1>8. /\ s2.wait \in [Tasks -> Waits] /\ s2.due \in [Tasks -> Nat]
      /\ s2.held \in [Tasks -> SUBSET Mutexes]
      /\ \A v \in Tasks : /\ s2.wait[v] = IF v = t THEN "DEL" ELSE p.wait[v]
                          /\ s2.held[v] = IF v = t THEN {} ELSE p.held[v]
                          /\ v # t => s2.due[v] = p.due[v]
  BY <1>6, <1>7 DEF Waits
<1>9. Types(s2)
  <2>1. s2.astray \in BOOLEAN
    BY <1>7
  <2> QED
    BY <1>6, <1>7, <1>8, <2>1 DEF Types, Frame, Fields
<1>10. /\ s2.rdy = p.rdy /\ s2.prio = p.prio /\ s2.pend = p.pend /\ s2.pendOn = p.pendOn
       /\ s2.nest = p.nest /\ s2.owner = p.owner /\ s2.ctr = p.ctr /\ s2.suspends = p.suspends
       /\ s2.dlys = p.dlys /\ s2.timeouts = p.timeouts /\ s2.grp = p.grp
  BY <1>7 DEF Frame, Fields
<1>11. /\ Awake(s2) \ {} = Awake(p) \ {t} /\ Delayed(s2) \ {} = Delayed(p) \ {t}
       /\ Timed(s2) \ {} = Timed(p) \ {t}
  BY <1>8, <1>10 DEF Awake, Ready, Suspended, Delayed, Timed
<1>12. Waiters(s2) /\ Blocked(s2, {})
  <2>1. Waiters(p) /\ Blocked(p, {t})
    BY <1>5 DEF Listed, Core
  <2> QED
    BY <1>5, <1>8, <1>10, <2>1 DEF Waiters, Blocked, Pending
<1>13. Core(s2, {})
  <2>1. /\ Readied(p.rdy, Awake(p) \ {t}, p.prio) /\ Pended(p.pend, p.pendOn, p.prio)
        /\ Owned(p) /\ Counts(p)
    BY <1>5 DEF Listed, Core
  <2>2. Owned(s2)
    BY <1>10, <2>1 DEF Owned
  <2>3. Counts(s2)
    BY <1>10, <2>1 DEF Counts
  <2>4. Readied(s2.rdy, Awake(s2) \ {}, s2.prio) /\ Pended(s2.pend, s2.pendOn, s2.prio)
    BY <1>10, <1>11, <2>1
  <2> QED
    BY <1>9, <1>12, <2>2, <2>3, <2>4 DEF Core
<1>14. Ticks(s2, {})
  <2>1. Ticking(p.dlys, p.due, Delayed(p) \ {t}) /\ Ticking(p.timeouts, p.due, Timed(p) \ {t})
    BY <1>5 DEF Listed, Ticks
  <2>2. /\ \A v \in Delayed(p) \ {t} : s2.due[v] = p.due[v]
        /\ \A v \in Timed(p) \ {t} : s2.due[v] = p.due[v]
    BY <1>8 DEF Delayed, Timed
  <2>3. Ticking(p.dlys, s2.due, Delayed(p) \ {t}) /\ Ticking(p.timeouts, s2.due, Timed(p) \ {t})
    BY <2>1, <2>2, TickingSame
  <2> QED
    BY <1>10, <1>11, <2>3 DEF Ticks
<1>15. Hold(s2)
  <2> SUFFICES ASSUME ~s2.astray
               PROVE  \A v \in Tasks :
                        /\ \A m \in Mutexes : /\ m \in s2.held[v] => s2.owner[m] = v
                                              /\ m \in ToSet(s2.grp[v]) <=> s2.owner[m] = v
                        /\ Uniq(s2.grp[v])
                        /\ s2.wait[v] = "DEL" => s2.grp[v] = << >>
    BY DEF Hold
  <2>1. ~p.astray /\ ~waited
    BY <1>7
  <2>2. u.astray = p.astray /\ u.grp = s.grp
    BY <1>3, <1>5 DEF Frame, Fields, ReleaseFields, UnlistFields
  <2>3. \A m \in ToSet(u.grp[t]) : u.pend[m] = << >>
    <3> SUFFICES ASSUME NEW m \in ToSet(s.grp[t]) PROVE u.pend[m] = << >>
      BY <2>2
    <3>1. m \in Objects /\ m # Nothing /\ s.pend[m] = << >>
      <4>1. m \in Mutexes
        BY <1>0, SetFacts
      <4> QED
        BY <2>1, <4>1, KernelAssumption DEF waited, Objects
    <3>2. Pended(u.pend, u.pendOn, u.prio)
      BY <1>3 DEF Listed, Core
    <3>3. \A v \in Tasks : s.pendOn[v] # m
      BY <1>0, <3>1, EmptyIff
    <3>4. \A v \in Tasks : u.pendOn[v] # m
      BY <1>3, <3>1, <3>3
    <3> QED
      BY <3>1, <3>2, <3>4, EmptyIff
  <2>4. Hold(p) /\ p.grp[t] = << >>
    BY <1>5, <2>1, <2>2, <2>3
  <2>5. /\ \A v \in Tasks : \A m \in Mutexes : /\ m \in p.held[v] => p.owner[m] = v
                                               /\ m \in ToSet(p.grp[v]) <=> p.owner[m] = v
        /\ \A v \in Tasks : Uniq(p.grp[v]) /\ (p.wait[v] = "DEL" => p.grp[v] = << >>)
    BY <2>1, <2>4 DEF Hold
  <2> QED
    BY <1>8, <1>10, <2>4, <2>5
<1>16. Kept(s2, {})
  BY <1>12, <1>13, <1>14, <1>15 DEF Kept
<1>17. Within(s, s2, 1)
  <2>1. /\ s2.cur = s.cur /\ s2.rare = s.rare /\ s2.suspends = s.suspends /\ u.nest = s.nest
    BY <1>3, <1>5, <1>7 DEF Frame, Fields, ReleaseFields, UnlistFields
  <2>2. /\ \A v \in Tasks : s.suspends[v] \in Nat
        /\ \A n \in Mutexes : s.nest[n] \in Nat
    BY <1>0 DEF Types
  <2>3. \A n \in Mutexes : s2.nest[n] <= s.nest[n] + 1 \/ s2.nest[n] <= 1
    <3> SUFFICES ASSUME NEW n \in Mutexes PROVE s2.nest[n] <= s.nest[n] + 1 \/ s2.nest[n] <= 1
      OBVIOUS
    <3>1. s.nest[n] \in Nat /\ (s2.nest[n] = s.nest[n] \/ s2.nest[n] \in 0..1)
      BY <1>5, <1>10, <2>1, <2>2
    <3> QED
      BY <3>1
  <2> QED
    BY <2>1, <2>2, <2>3 DEF Within
<1> QED
  BY <1>16, <1>17 DEF s2

-----------------------------------------------------------------------------
(* The tick task                                                             *)

\* While the tick lists are worked off the other lists agree.
Turn(s) == Core(s, {}) /\ Hold(s) /\ Blocked(s, {})

\* What the end of a delay changes.
WakeFields == {"rdy", "wait", "due"}

\* One delay that has expired.
LEMMA WakeTurn ==
  ASSUME NEW s, Turn(s), NEW t \in Tasks, s.wait[t] = "DLY"
  PROVE  /\ Turn(Wake(s, t)) /\ Frame(s, Wake(s, t), WakeFields)
         /\ \A v \in Tasks : /\ Wake(s, t).wait[v] = IF v = t THEN "RDY" ELSE s.wait[v]
                             /\ v # t => Wake(s, t).due[v] = s.due[v]
<1> DEFINE y == Wake(s, t)
<1>0. /\ Core(s, {}) /\ s.wait[t] # "RDY" /\ s.pendOn[t] = Nothing /\ t \notin {}
      /\ s.wait \in [Tasks -> Waits] /\ s.due \in [Tasks -> Nat]
  BY DEF Turn, Core, Types, Waiters, Pending
<1>1. /\ Core(y, {}) /\ Frame(s, y, WakeFields)
      /\ y.wait = [s.wait EXCEPT ![t] = "RDY"] /\ y.due = [s.due EXCEPT ![t] = 0]
  BY <1>0, WakeCore DEF WakeFields
<1> HIDE DEF y
<1>2. \A v \in Tasks : /\ y.wait[v] = IF v = t THEN "RDY" ELSE s.wait[v]
                       /\ v # t => y.due[v] = s.due[v]
  BY <1>0, <1>1
<1>3. y.astray = s.astray /\ y.held = s.held /\ y.owner = s.owner /\ y.grp = s.grp
      /\ y.pendOn = s.pendOn
  BY <1>1 DEF Frame, Fields, WakeFields
<1>4. Hold(y) /\ Blocked(y, {})
  BY <1>2, <1>3 DEF Turn, Hold, Blocked, Pending
<1>5. Turn(y)
  BY <1>1, <1>4 DEF Turn
<1> QED
  BY <1>1, <1>2, <1>5 DEF y

\* What is left of a delay list after a tick.
Rest(list) == SubSeq(Ticked(list), Len(Expired(Ticked(list))) + 1, Len(list))
DlyFields == {"rdy", "wait", "due", "dlys"}

\* The tasks of q have been readied, and no other.
Awoken(s, s2, q) ==
  \A v \in Tasks : IF v \in ToSet(q) THEN s2.wait[v] = "RDY"
                   ELSE s2.wait[v] = s.wait[v] /\ s2.due[v] = s.due[v]

\* OS_TickListUpdateDly wakes the tasks whose delay has expired, and no other.
LEMMA DlyTurn ==
  ASSUME NEW s, Turn(s), NEW W, W = Delayed(s),
         Elapsed(Expired(Ticked(s.dlys)), Rest(s.dlys), s.due, W)
  PROVE  /\ Turn(TickListUpdateDly(s)) /\ Frame(s, TickListUpdateDly(s), DlyFields)
         /\ TickListUpdateDly(s).dlys = Rest(s.dlys)
         /\ Awoken(s, TickListUpdateDly(s), Expired(Ticked(s.dlys)))
<1> DEFINE q == Expired(Ticked(s.dlys))
           N == Len(q)
           Good(n, x) == /\ Turn(x) /\ Frame(s, x, WakeFields)
                         /\ \A v \in Tasks :
                              IF \E i \in 1..n : q[i] = v THEN x.wait[v] = "RDY"
                              ELSE x.wait[v] = s.wait[v] /\ x.due[v] = s.due[v]
           F == [p \in (1..N) \X States |-> Wake(p[2], q[p[1]])]
           G == [n \in 0..N |-> {x \in States : Good(n, x)}]
           H(f) == [n \in 0..N |-> IF n = 0 THEN s ELSE Wake(f[n - 1], q[n])]
           after == CHOOSE f : f = H(f)
           a  == after[N]
           s2 == TickListUpdateDly(s)
<1>0. /\ N \in Nat /\ Uniq(q) /\ DOMAIN q = 1..N /\ \A i \in 1..N : q[i] \in Tasks /\ s.wait[q[i]] = "DLY"
      /\ \A v : v \in ToSet(q) <=> \E i \in 1..N : q[i] = v
  <2>1. q \in Seq(Tasks) /\ Uniq(q) /\ ToSet(q) \subseteq Delayed(s)
    BY DEF Elapsed
  <2> HIDE DEF q
  <2>2. /\ N \in Nat /\ DOMAIN q = 1..N
        /\ \A v : v \in ToSet(q) <=> \E i \in 1..N : q[i] = v
    BY <2>1, SetFacts
  <2>3. \A i \in 1..N : q[i] \in Delayed(s)
    BY <2>1, <2>2
  <2> QED
    BY <2>1, <2>2, <2>3 DEF Delayed
<1>1. s2 = [a EXCEPT !.dlys = SubSeq(Ticked(@), Len(q) + 1, Len(@))]
  BY DEF TickListUpdateDly
<1>100. Rest(s.dlys) = SubSeq(Ticked(s.dlys), Len(q) + 1, Len(s.dlys))
  BY DEF Rest
<1>101. Awoken(s, s2, q) => Awoken(s, s2, Expired(Ticked(s.dlys)))
  OBVIOUS
<1>102. Ticking(Rest(s.dlys), s.due, W \ ToSet(q))
  BY DEF Elapsed
<1> HIDE DEF q, s2
<1>2. \A n \in 1..N : \A x \in States : F[<<n, x>>] = Wake(x, q[n])
  OBVIOUS
<1>3. \A n \in 0..N : \A x : x \in G[n] <=> x \in States /\ Good(n, x)
  OBVIOUS
<1>4. Good(0, s) /\ s \in States
  <2>1. Types(s) /\ Frame(s, s, WakeFields)
    BY DEF Turn, Core, Types, Frame
  <2>2. \A v \in Tasks : ~\E i \in 1..0 : q[i] = v
    OBVIOUS
  <2> QED
    BY <2>1, <2>2, TypesState
<1>5. s \in G[0]
  BY <1>0, <1>3, <1>4
<1>6. ASSUME NEW n \in 1..N, NEW x, Good(n - 1, x)
      PROVE  Good(n, Wake(x, q[n]))
  <2> DEFINE t == q[n]
             y == Wake(x, t)
  <2>1. t \in Tasks /\ ~\E i \in 1..n - 1 : q[i] = t
    <3>1. \A i \in 1..n - 1 : i \in 1..N /\ i # n
      BY <1>0
    <3> QED
      BY <1>0, <3>1 DEF Uniq
  <2>2. x.wait[t] = "DLY" /\ Turn(x) /\ Frame(s, x, WakeFields)
    BY <1>0, <1>6, <2>1
  <2> HIDE DEF t
  <2>3. /\ Turn(y) /\ Frame(x, y, WakeFields)
        /\ \A v \in Tasks : /\ y.wait[v] = IF v = t THEN "RDY" ELSE x.wait[v]
                            /\ v # t => y.due[v] = x.due[v]
    BY <2>1, <2>2, WakeTurn
  <2> HIDE DEF y
  <2>4. Frame(s, y, WakeFields)
    BY <2>2, <2>3, FrameTrans
  <2>5. ASSUME NEW v \in Tasks
        PROVE IF \E i \in 1..n : q[i] = v THEN y.wait[v] = "RDY"
              ELSE y.wait[v] = s.wait[v] /\ y.due[v] = s.due[v]
    <3>1. (\E i \in 1..n : q[i] = v) <=> v = t \/ \E i \in 1..n - 1 : q[i] = v
      <4>1. \A i : i \in 1..n <=> i = n \/ i \in 1..n - 1
        BY <1>0
      <4> QED
        BY <4>1 DEF t
    <3>2. IF \E i \in 1..n - 1 : q[i] = v THEN x.wait[v] = "RDY"
          ELSE x.wait[v] = s.wait[v] /\ x.due[v] = s.due[v]
      BY <1>6
    <3> QED
      BY <2>3, <3>1, <3>2
  <2>6. Good(n, y)
    BY <2>3, <2>4, <2>5
  <2> QED
    BY <2>6 DEF y, t
<1>7. \A n \in 1..N : \A x \in G[n - 1] : F[<<n, x>>] \in G[n]
  <2> SUFFICES ASSUME NEW n \in 1..N, NEW x \in G[n - 1] PROVE F[<<n, x>>] \in G[n]
    OBVIOUS
  <2> HIDE DEF F, G
  <2>1. n - 1 \in 0..N /\ n \in 0..N
    BY <1>0
  <2>2. x \in States /\ Good(n - 1, x)
    BY <1>3, <2>1
  <2>3. Good(n, Wake(x, q[n]))
    BY <1>6, <2>2
  <2>4. Wake(x, q[n]) \in States
    BY <2>3, TypesState DEF Turn, Core
  <2> HIDE DEF Good
  <2>5. F[<<n, x>>] = Wake(x, q[n])
    BY <1>2, <2>2
  <2> QED
    BY <1>3, <2>1, <2>3, <2>4, <2>5
<1> HIDE DEF F, G, Good, N
<1>8. PICK g : Fold(g, N, s, F, G)
  BY <1>0, <1>5, <1>7, FoldExists
<1>9. /\ g = [i \in 0..N |-> g[i]] /\ g[0] = s
      /\ \A i \in 1..N : g[i] = Wake(g[i - 1], q[i])
      /\ g[N] \in G[N]
  <2>1. \A i \in 1..N : g[i - 1] \in States
    <3>1. \A i \in 1..N : i - 1 \in 0..N
      BY <1>0
    <3> QED
      BY <1>3, <1>8, <3>1 DEF Fold
  <2>2. N \in 0..N
    BY <1>0
  <2> QED
    BY <1>2, <1>8, <2>1, <2>2 DEF Fold
<1>10. g = H(g)
  <2>1. \A i \in 0..N : g[i] = IF i = 0 THEN s ELSE Wake(g[i - 1], q[i])
    <3>1. \A i \in 0..N : i # 0 => i \in 1..N
      BY <1>0
    <3> QED
      BY <1>9, <3>1
  <2> QED
    BY <1>9, <2>1
<1>11. after = H(after)
  <2> HIDE DEF H
  <2> QED
    BY <1>10
<1> HIDE DEF after
<1>12. after[0] = s /\ \A n \in 1..N : after[n] = Wake(after[n - 1], q[n])
  BY <1>0, <1>11
<1>13. after[N] = g[N]
  <2>1. \A n \in 1..N : after[n - 1] = g[n - 1] => after[n] = g[n]
    BY <1>9, <1>12
  <2>2. after[0] = g[0]
    BY <1>9, <1>12
  <2> QED
    BY <1>0, <2>1, <2>2, FoldAgree
<1>14. Good(N, a)
  <2>1. N \in 0..N
    BY <1>0
  <2> QED
    BY <1>3, <1>9, <1>13, <2>1
<1> HIDE DEF a
<1>15. /\ Turn(a) /\ Frame(s, a, WakeFields) /\ Awoken(s, a, q)
  BY <1>0, <1>14 DEF Good, Awoken
<1>16. Types(a) /\ Shape(a) /\ a.dlys = s.dlys
  BY <1>15 DEF Turn, Core, Types, Frame, Fields, WakeFields
<1>17. Frame(a, s2, {"dlys"}) /\ s2.dlys = Rest(s.dlys)
  <2>1. Frame(a, s2, {"dlys"}) /\ s2.dlys = SubSeq(Ticked(a.dlys), Len(q) + 1, Len(a.dlys))
    BY <1>1, <1>16 DEF Shape, Frame, Fields
  <2> QED
    BY <1>16, <1>100, <2>1
<1>18. s2.dlys \in Seq(Tasks \X Nat)
  BY <1>17, <1>102 DEF Ticking, Summing
<1>19. Types(s2)
  BY <1>16, <1>17, <1>18 DEF Types, Frame, Fields
<1>20. /\ s2.wait = a.wait /\ s2.suspends = a.suspends /\ s2.due = a.due /\ s2.pendOn = a.pendOn
       /\ s2.astray = a.astray /\ s2.held = a.held /\ s2.owner = a.owner /\ s2.grp = a.grp
  BY <1>17 DEF Frame, Fields
<1>21. Core(s2, {})
  <2>1. Frame(a, s2, {"cur", "prioCur", "suspends", "base", "status", "dlys", "timeouts",
                      "grp", "failed", "rare", "astray", "held", "due"})
    BY <1>17, FrameWiden
  <2>2. Awake(s2) = Awake(a)
    BY <1>20 DEF Awake, Ready, Suspended
  <2>3. Core(a, {})
    BY <1>15 DEF Turn
  <2> QED
    BY <1>19, <2>1, <2>2, <2>3, CoreSame
<1>22. Turn(s2)
  BY <1>15, <1>20, <1>21 DEF Turn, Hold, Blocked
<1>23. Frame(s, s2, DlyFields)
  <2>1. Frame(s, a, DlyFields) /\ Frame(a, s2, DlyFields)
    BY <1>15, <1>17, FrameWiden DEF DlyFields, WakeFields
  <2> QED
    BY <2>1, FrameTrans
<1>24. Awoken(s, s2, q)
  BY <1>15, <1>20 DEF Awoken
<1> QED
  BY <1>17, <1>22, <1>23, <1>24, <1>101 DEF s2

\* What one timeout changes.
LateFields ==
  {"rdy", "wait", "due", "pend", "pendOn", "status", "prio", "prioCur", "failed", "astray"}

\* OS_PendListRemove and OS_RdyListInsert: the task waits for nothing any more.
Untimed(s, t) == Wake([PendListRemove(s, t) EXCEPT !.status[t] = "TIMEOUT"], t)

\* After them the lists agree, with the priorities as they were.
LEMMA TimeOutWoke ==
  ASSUME NEW s, Turn(s), NEW t \in Tasks, s.wait[t] = "PEND_TIMEOUT"
  PROVE  /\ Turn(Untimed(s, t)) /\ Frame(s, Untimed(s, t), LateFields)
         /\ LET woke == Untimed(s, t)
            IN  /\ woke.astray = s.astray /\ woke.failed = s.failed /\ woke.prio = s.prio
                /\ woke.base = s.base /\ woke.owner = s.owner
                /\ \A v \in Tasks : /\ woke.wait[v] = IF v = t THEN "RDY" ELSE s.wait[v]
                                    /\ v # t => woke.due[v] = s.due[v]
                                    /\ woke.pendOn[v] = IF v = t THEN Nothing ELSE s.pendOn[v]
<1> DEFINE o == s.pendOn[t]
           off == PendListRemove(s, t)
           told == [off EXCEPT !.status[t] = "TIMEOUT"]
           woke == Wake(told, t)
<1>0. /\ Types(s) /\ Core(s, {}) /\ Hold(s) /\ Blocked(s, {}) /\ o # Nothing /\ t \notin {}
      /\ s.pendOn \in [Tasks -> Objects \cup {Nothing}]
      /\ s.wait \in [Tasks -> Waits] /\ s.due \in [Tasks -> Nat]
  BY DEF Turn, Core, Types, Blocked, Pending
<1>1. Untimed(s, t) = woke
  BY DEF Untimed
<1>2. /\ Core(off, {}) /\ Frame(s, off, {"pend", "pendOn"})
      /\ off.pendOn = [s.pendOn EXCEPT ![t] = Nothing]
  BY <1>0, LeaveCore
<1> HIDE DEF off
<1>3. Types(off) /\ Shape(off) /\ off.status \in [Tasks -> Statuses]
  BY <1>2 DEF Core, Types
<1>4. Frame(off, told, {"status"}) /\ told.status = [off.status EXCEPT ![t] = "TIMEOUT"]
  BY <1>3 DEF Shape, Frame, Fields
<1> HIDE DEF told
<1>5. told.status \in [Tasks -> Statuses]
  BY <1>3, <1>4 DEF Statuses
<1>6. Types(told)
  BY <1>3, <1>4, <1>5 DEF Types, Frame, Fields
<1>7. /\ told.wait = s.wait /\ told.due = s.due /\ told.suspends = off.suspends
      /\ told.pendOn = off.pendOn /\ told.wait = off.wait
  BY <1>2, <1>4 DEF Frame, Fields
<1>8. Core(told, {})
  <2>1. Frame(off, told, {"cur", "prioCur", "suspends", "base", "status", "dlys", "timeouts",
                          "grp", "failed", "rare", "astray", "held", "due"})
    BY <1>4, FrameWiden
  <2>2. Awake(told) = Awake(off)
    BY <1>7 DEF Awake, Ready, Suspended
  <2> QED
    BY <1>2, <1>6, <2>1, <2>2, CoreSame
<1>9. /\ Core(woke, {}) /\ Frame(told, woke, {"rdy", "wait", "due"})
      /\ woke.wait = [s.wait EXCEPT ![t] = "RDY"] /\ woke.due = [s.due EXCEPT ![t] = 0]
  <2>1. told.wait[t] # "RDY" /\ told.pendOn[t] = Nothing
    BY <1>0, <1>2, <1>7
  <2>2. Core(told, {}) /\ t \notin {}
    BY <1>8
  <2> HIDE DEF o
  <2>3. /\ Core(Wake(told, t), {}) /\ Frame(told, Wake(told, t), {"rdy", "wait", "due"})
        /\ Wake(told, t).wait = [told.wait EXCEPT ![t] = "RDY"]
        /\ Wake(told, t).due = [told.due EXCEPT ![t] = 0]
    BY <2>1, <2>2, WakeCore
  <2> QED
    BY <1>7, <2>3
<1> HIDE DEF woke
<1>10. Frame(s, woke, LateFields)
  <2>1. Frame(s, off, LateFields) /\ Frame(off, told, LateFields) /\ Frame(told, woke, LateFields)
    BY <1>2, <1>4, <1>9, FrameWiden DEF LateFields
  <2> QED
    BY <2>1, FrameTrans
<1>11. /\ woke.pendOn = [s.pendOn EXCEPT ![t] = Nothing] /\ woke.astray = s.astray
       /\ woke.held = s.held /\ woke.owner = s.owner /\ woke.grp = s.grp
  <2>1. woke.pendOn = told.pendOn /\ woke.astray = told.astray /\ told.astray = off.astray
        /\ off.astray = s.astray
    BY <1>2, <1>4, <1>9 DEF Frame, Fields
  <2>2. woke.held = s.held /\ woke.owner = s.owner /\ woke.grp = s.grp
    BY <1>10 DEF Frame, Fields, LateFields
  <2> QED
    BY <1>2, <1>7, <2>1, <2>2
<1>12. \A v \in Tasks : /\ woke.wait[v] = IF v = t THEN "RDY" ELSE s.wait[v]
                        /\ v # t => woke.due[v] = s.due[v]
                        /\ woke.pendOn[v] = IF v = t THEN Nothing ELSE s.pendOn[v]
  BY <1>0, <1>9, <1>11
<1>13. Hold(woke) /\ Blocked(woke, {})
  <2>1. Hold(woke)
    BY <1>0, <1>11, <1>12 DEF Hold
  <2>2. Blocked(woke, {})
    BY <1>0, <1>12 DEF Blocked, Pending
  <2> QED
    BY <2>1, <2>2
<1>14. woke.failed = s.failed /\ woke.prio = s.prio /\ woke.base = s.base
  <2>1. off.failed = s.failed /\ off.prio = s.prio /\ off.base = s.base
    BY <1>2 DEF Frame, Fields
  <2>2. told.failed = off.failed /\ told.prio = off.prio /\ told.base = off.base
    BY <1>4 DEF Frame, Fields
  <2>3. woke.failed = told.failed /\ woke.prio = told.prio /\ woke.base = told.base
    BY <1>9 DEF Frame, Fields
  <2> QED
    BY <2>1, <2>2, <2>3
<1>15. Turn(woke)
  BY <1>9, <1>13 DEF Turn
<1> QED
  BY <1>1, <1>10, <1>11, <1>12, <1>14, <1>15

\* One timeout, and what the owner of the mutex loses by it.
LEMMA TimeOutTurn ==
  ASSUME NEW s, Turn(s), NEW t \in Tasks, s.wait[t] = "PEND_TIMEOUT"
  PROVE  /\ Turn(TimeOut(s, t)) /\ Frame(s, TimeOut(s, t), LateFields)
         /\ \A v \in Tasks : /\ TimeOut(s, t).wait[v] = IF v = t THEN "RDY" ELSE s.wait[v]
                             /\ v # t => TimeOut(s, t).due[v] = s.due[v]
<1> DEFINE o == s.pendOn[t]
           woke == Untimed(s, t)
           y == TimeOut(s, t)
<1>0. /\ Core(s, {}) /\ o # Nothing
  BY DEF Turn, Core, Blocked, Pending
<1>1. y = IF o \in Mutexes THEN Disinherit(woke, s.owner[o], t) ELSE woke
  BY DEF TimeOut, Untimed
<1>2. /\ Turn(woke) /\ Frame(s, woke, LateFields)
      /\ \A v \in Tasks : /\ woke.wait[v] = IF v = t THEN "RDY" ELSE s.wait[v]
                          /\ v # t => woke.due[v] = s.due[v]
  BY TimeOutWoke
<1> HIDE DEF woke, y
<1>3. Core(woke, {}) /\ Hold(woke) /\ Blocked(woke, {})
  BY <1>2 DEF Turn
<1>14. Reprio(woke, y)
  <2>1. CASE o \in Mutexes
    <3>1. s.owner[o] \in Tasks
      BY <1>0, <2>1, OwnerExists
    <3> HIDE DEF o
    <3>2. Reprio(woke, Disinherit(woke, s.owner[o], t))
      BY <1>3, <3>1, DisinheritReprio
    <3> QED
      BY <1>1, <2>1, <3>2
  <2>2. CASE o \notin Mutexes
    BY <1>1, <1>3, <2>2, ReprioRefl
  <2> QED
    BY <2>1, <2>2
<1>15. /\ Core(y, {}) /\ Hold(y) /\ Blocked(y, {})
       /\ Frame(woke, y, {"prio", "prioCur", "rdy", "pend", "pendOn", "failed", "astray"})
  BY <1>3, <1>14, ReprioKeeps DEF Reprio
<1>16. Frame(s, y, LateFields)
  <2>1. Frame(woke, y, LateFields)
    BY <1>15, FrameWiden DEF LateFields
  <2> QED
    BY <1>2, <2>1, FrameTrans
<1>17. y.wait = woke.wait /\ y.due = woke.due
  BY <1>15 DEF Frame, Fields
<1>18. \A v \in Tasks : /\ y.wait[v] = IF v = t THEN "RDY" ELSE s.wait[v]
                        /\ v # t => y.due[v] = s.due[v]
  BY <1>2, <1>17
<1>19. Turn(y)
  BY <1>15 DEF Turn
<1> QED
  BY <1>16, <1>18, <1>19 DEF y

\* What OS_TickListUpdateTimeout changes.
TimeFields ==
  {"rdy", "wait", "due", "pend", "pendOn", "status", "prio", "prioCur", "failed", "astray",
   "timeouts"}

\* OS_TickListUpdateTimeout times out the tasks whose ticks are over, and no other.
LEMMA TimeoutsTurn ==
  ASSUME NEW s, Turn(s), NEW W, W = Timed(s),
         Elapsed(Expired(Ticked(s.timeouts)), Rest(s.timeouts), s.due, W),
         NEW X \in SUBSET States, s \in X,
         \A y \in X, t \in Tasks : Turn(y) /\ y.wait[t] = "PEND_TIMEOUT" => TimeOut(y, t) \in X
  PROVE  /\ Turn(TickListUpdateTimeout(s)) /\ Frame(s, TickListUpdateTimeout(s), TimeFields)
         /\ TickListUpdateTimeout(s).timeouts = Rest(s.timeouts)
         /\ Awoken(s, TickListUpdateTimeout(s), Expired(Ticked(s.timeouts)))
         /\ \E a \in X : Frame(a, TickListUpdateTimeout(s), {"timeouts"})
<1> DEFINE q == Expired(Ticked(s.timeouts))
           N == Len(q)
           Good(n, x) == /\ Turn(x) /\ Frame(s, x, LateFields) /\ x \in X
                         /\ \A v \in Tasks :
                              IF \E i \in 1..n : q[i] = v THEN x.wait[v] = "RDY"
                              ELSE x.wait[v] = s.wait[v] /\ x.due[v] = s.due[v]
           F == [p \in (1..N) \X States |-> TimeOut(p[2], q[p[1]])]
           G == [n \in 0..N |-> {x \in States : Good(n, x)}]
           H(f) == [n \in 0..N |-> IF n = 0 THEN s ELSE TimeOut(f[n - 1], q[n])]
           after == CHOOSE f : f = H(f)
           a  == after[N]
           s2 == TickListUpdateTimeout(s)
<1>0. /\ N \in Nat /\ Uniq(q) /\ DOMAIN q = 1..N
      /\ \A i \in 1..N : q[i] \in Tasks /\ s.wait[q[i]] = "PEND_TIMEOUT"
      /\ \A v : v \in ToSet(q) <=> \E i \in 1..N : q[i] = v
  <2>1. q \in Seq(Tasks) /\ Uniq(q) /\ ToSet(q) \subseteq Timed(s)
    BY DEF Elapsed
  <2> HIDE DEF q
  <2>2. /\ N \in Nat /\ DOMAIN q = 1..N
        /\ \A v : v \in ToSet(q) <=> \E i \in 1..N : q[i] = v
    BY <2>1, SetFacts
  <2>3. \A i \in 1..N : q[i] \in Timed(s)
    BY <2>1, <2>2
  <2> QED
    BY <2>1, <2>2, <2>3 DEF Timed
<1>1. s2 = [a EXCEPT !.timeouts = SubSeq(Ticked(@), Len(q) + 1, Len(@))]
  BY DEF TickListUpdateTimeout
<1>100. Rest(s.timeouts) = SubSeq(Ticked(s.timeouts), Len(q) + 1, Len(s.timeouts))
  BY DEF Rest
<1>101. Awoken(s, s2, q) => Awoken(s, s2, Expired(Ticked(s.timeouts)))
  OBVIOUS
<1>102. Ticking(Rest(s.timeouts), s.due, W \ ToSet(q))
  BY DEF Elapsed
<1> HIDE DEF q, s2
<1>2. \A n \in 1..N : \A x \in States : F[<<n, x>>] = TimeOut(x, q[n])
  OBVIOUS
<1>3. \A n \in 0..N : \A x : x \in G[n] <=> x \in States /\ Good(n, x)
  OBVIOUS
<1>4. Good(0, s) /\ s \in States
  <2>1. Types(s) /\ Frame(s, s, LateFields)
    BY DEF Turn, Core, Types, Frame
  <2>2. \A v \in Tasks : ~\E i \in 1..0 : q[i] = v
    OBVIOUS
  <2> QED
    BY <2>1, <2>2, TypesState
<1>5. s \in G[0]
  BY <1>0, <1>3, <1>4
<1>6. ASSUME NEW n \in 1..N, NEW x, Good(n - 1, x)
      PROVE  Good(n, TimeOut(x, q[n]))
  <2> DEFINE t == q[n]
             y == TimeOut(x, t)
  <2>1. t \in Tasks /\ ~\E i \in 1..n - 1 : q[i] = t
    <3>1. \A i \in 1..n - 1 : i \in 1..N /\ i # n
      BY <1>0
    <3> QED
      BY <1>0, <3>1 DEF Uniq
  <2>2. x.wait[t] = "PEND_TIMEOUT" /\ Turn(x) /\ Frame(s, x, LateFields) /\ x \in X
    BY <1>0, <1>6, <2>1
  <2> HIDE DEF t
  <2>3. /\ Turn(y) /\ Frame(x, y, LateFields)
        /\ \A v \in Tasks : /\ y.wait[v] = IF v = t THEN "RDY" ELSE x.wait[v]
                            /\ v # t => y.due[v] = x.due[v]
    BY <2>1, <2>2, TimeOutTurn
  <2>31. y \in X
    BY <2>1, <2>2
  <2> HIDE DEF y
  <2>4. Frame(s, y, LateFields)
    BY <2>2, <2>3, FrameTrans
  <2>5. ASSUME NEW v \in Tasks
        PROVE IF \E i \in 1..n : q[i] = v THEN y.wait[v] = "RDY"
              ELSE y.wait[v] = s.wait[v] /\ y.due[v] = s.due[v]
    <3>1. (\E i \in 1..n : q[i] = v) <=> v = t \/ \E i \in 1..n - 1 : q[i] = v
      <4>1. \A i : i \in 1..n <=> i = n \/ i \in 1..n - 1
        BY <1>0
      <4> QED
        BY <4>1 DEF t
    <3>2. IF \E i \in 1..n - 1 : q[i] = v THEN x.wait[v] = "RDY"
          ELSE x.wait[v] = s.wait[v] /\ x.due[v] = s.due[v]
      BY <1>6
    <3> QED
      BY <2>3, <3>1, <3>2
  <2>6. Good(n, y)
    BY <2>3, <2>31, <2>4, <2>5
  <2> QED
    BY <2>6 DEF y, t
<1>7. \A n \in 1..N : \A x \in G[n - 1] : F[<<n, x>>] \in G[n]
  <2> SUFFICES ASSUME NEW n \in 1..N, NEW x \in G[n - 1] PROVE F[<<n, x>>] \in G[n]
    OBVIOUS
  <2> HIDE DEF F, G
  <2>1. n - 1 \in 0..N /\ n \in 0..N
    BY <1>0
  <2>2. x \in States /\ Good(n - 1, x)
    BY <1>3, <2>1
  <2>3. Good(n, TimeOut(x, q[n]))
    BY <1>6, <2>2
  <2>4. TimeOut(x, q[n]) \in States
    BY <2>3, TypesState DEF Turn, Core
  <2> HIDE DEF Good
  <2>5. F[<<n, x>>] = TimeOut(x, q[n])
    BY <1>2, <2>2
  <2> QED
    BY <1>3, <2>1, <2>3, <2>4, <2>5
<1> HIDE DEF F, G, Good, N
<1>8. PICK g : Fold(g, N, s, F, G)
  BY <1>0, <1>5, <1>7, FoldExists
<1>9. /\ g = [i \in 0..N |-> g[i]] /\ g[0] = s
      /\ \A i \in 1..N : g[i] = TimeOut(g[i - 1], q[i])
      /\ g[N] \in G[N]
  <2>1. \A i \in 1..N : g[i - 1] \in States
    <3>1. \A i \in 1..N : i - 1 \in 0..N
      BY <1>0
    <3> QED
      BY <1>3, <1>8, <3>1 DEF Fold
  <2>2. N \in 0..N
    BY <1>0
  <2> QED
    BY <1>2, <1>8, <2>1, <2>2 DEF Fold
<1>10. g = H(g)
  <2>1. \A i \in 0..N : g[i] = IF i = 0 THEN s ELSE TimeOut(g[i - 1], q[i])
    <3>1. \A i \in 0..N : i # 0 => i \in 1..N
      BY <1>0
    <3> QED
      BY <1>9, <3>1
  <2> QED
    BY <1>9, <2>1
<1>11. after = H(after)
  <2> HIDE DEF H
  <2> QED
    BY <1>10
<1> HIDE DEF after
<1>12. after[0] = s /\ \A n \in 1..N : after[n] = TimeOut(after[n - 1], q[n])
  BY <1>0, <1>11
<1>13. after[N] = g[N]
  <2>1. \A n \in 1..N : after[n - 1] = g[n - 1] => after[n] = g[n]
    BY <1>9, <1>12
  <2>2. after[0] = g[0]
    BY <1>9, <1>12
  <2> QED
    BY <1>0, <2>1, <2>2, FoldAgree
<1>14. Good(N, a)
  <2>1. N \in 0..N
    BY <1>0
  <2> QED
    BY <1>3, <1>9, <1>13, <2>1
<1> HIDE DEF a
<1>15. /\ Turn(a) /\ Frame(s, a, LateFields) /\ Awoken(s, a, q) /\ a \in X
  BY <1>0, <1>14 DEF Good, Awoken
<1>16. Types(a) /\ Shape(a) /\ a.timeouts = s.timeouts
  BY <1>15 DEF Turn, Core, Types, Frame, Fields, LateFields
<1>17. Frame(a, s2, {"timeouts"}) /\ s2.timeouts = Rest(s.timeouts)
  <2>1. /\ Frame(a, s2, {"timeouts"})
        /\ s2.timeouts = SubSeq(Ticked(a.timeouts), Len(q) + 1, Len(a.timeouts))
    BY <1>1, <1>16 DEF Shape, Frame, Fields
  <2> QED
    BY <1>16, <1>100, <2>1
<1>18. s2.timeouts \in Seq(Tasks \X Nat)
  BY <1>17, <1>102 DEF Ticking, Summing
<1>19. Types(s2)
  BY <1>16, <1>17, <1>18 DEF Types, Frame, Fields
<1>20. /\ s2.wait = a.wait /\ s2.suspends = a.suspends /\ s2.due = a.due /\ s2.pendOn = a.pendOn
       /\ s2.astray = a.astray /\ s2.held = a.held /\ s2.owner = a.owner /\ s2.grp = a.grp
  BY <1>17 DEF Frame, Fields
<1>21. Core(s2, {})
  <2>1. Frame(a, s2, {"cur", "prioCur", "suspends", "base", "status", "dlys", "timeouts",
                      "grp", "failed", "rare", "astray", "held", "due"})
    BY <1>17, FrameWiden
  <2>2. Awake(s2) = Awake(a)
    BY <1>20 DEF Awake, Ready, Suspended
  <2>3. Core(a, {})
    BY <1>15 DEF Turn
  <2> QED
    BY <1>19, <2>1, <2>2, <2>3, CoreSame
<1>22. Turn(s2)
  BY <1>15, <1>20, <1>21 DEF Turn, Hold, Blocked
<1>23. Frame(s, s2, TimeFields)
  <2>1. Frame(s, a, TimeFields) /\ Frame(a, s2, TimeFields)
    BY <1>15, <1>17, FrameWiden DEF LateFields, TimeFields
  <2> QED
    BY <2>1, FrameTrans
<1>24. Awoken(s, s2, q)
  BY <1>15, <1>20 DEF Awoken
<1>25. \E z \in X : Frame(z, s2, {"timeouts"})
  BY <1>15, <1>17
<1> QED
  BY <1>17, <1>22, <1>23, <1>24, <1>25, <1>101 DEF s2

\* Before the timeouts: the current task has changed, the delays are worked off.
Halfway(s, left, b) ==
  /\ Frame(s, left, {"cur", "prioCur", "due"}) /\ Frame(left, b, DlyFields)
  /\ Turn(left) /\ Turn(b)
  /\ Awoken(left, b, Expired(Ticked(s.dlys)))
  /\ ToSet(Expired(Ticked(s.dlys))) \subseteq Delayed(s)
  /\ Ticking(b.dlys, b.due, Delayed(b)) /\ Timed(b) = Timed(s)
  /\ b.timeouts = s.timeouts
  /\ Elapsed(Expired(Ticked(s.timeouts)), Rest(s.timeouts), b.due, Timed(s))

\* The first half of the tick task.
LEMMA TickHalfway ==
  ASSUME NEW s, IInv(s)
  PROVE  \E left, b : Halfway(s, left, b) /\ TickTask(s) = Sched(TickListUpdateTimeout(b))
<1> DEFINE less == [t \in Tasks |-> Max({s.due[t] - 1, 0})]
           left == [s EXCEPT !.cur = Nothing, !.prioCur = TickPrio,
                             !.due = [t \in Tasks |-> Max({@[t] - 1, 0})]]
           b == TickListUpdateDly(left)
           q1 == Expired(Ticked(s.dlys))
           q2 == Expired(Ticked(s.timeouts))
<1>0. /\ Types(s) /\ Shape(s) /\ Core(s, {}) /\ Hold(s) /\ Blocked(s, {}) /\ Bounds(s)
      /\ Ticking(s.dlys, s.due, Delayed(s)) /\ Ticking(s.timeouts, s.due, Timed(s))
      /\ s.due \in [Tasks -> Nat]
  <2>1. Delayed(s) \ {} = Delayed(s) /\ Timed(s) \ {} = Timed(s)
    OBVIOUS
  <2> QED
    BY <2>1 DEF IInv, Kept, Core, Types, Ticks
<1>1. TickTask(s) = Sched(TickListUpdateTimeout(b))
  BY DEF TickTask
<1>2. \A t \in Tasks : less[t] \in Nat /\ (s.due[t] > 0 => less[t] = s.due[t] - 1)
  <2> SUFFICES ASSUME NEW t \in Tasks
               PROVE  less[t] \in Nat /\ (s.due[t] > 0 => less[t] = s.due[t] - 1)
    OBVIOUS
  <2> DEFINE d == s.due[t]
  <2>1. d \in Nat /\ less[t] = Max({d - 1, 0})
    BY <1>0
  <2> HIDE DEF d, less
  <2>2. d - 1 \in Int /\ 0 \in Int
    BY <2>1
  <2>3. Max({d - 1, 0}) \in {d - 1, 0} /\ Max({d - 1, 0}) >= d - 1 /\ Max({d - 1, 0}) >= 0
    BY <2>2, MaxTwo
  <2>4. less[t] \in {d - 1, 0} /\ less[t] >= d - 1 /\ less[t] >= 0
    BY <2>1, <2>3
  <2>5. less[t] \in Nat /\ (d > 0 => less[t] = d - 1)
    BY <2>1, <2>4
  <2> QED
    BY <2>5 DEF d
<1>3. /\ Frame(s, left, {"cur", "prioCur", "due"}) /\ left.due = less /\ left.cur = Nothing
      /\ left.prioCur = TickPrio
  BY <1>0 DEF Shape, Frame, Fields
<1>4. less \in [Tasks -> Nat]
  BY <1>2
<1> HIDE DEF less, left
<1>5. Types(left)
  <2>1. TickPrio \in -1..IdlePrio
    BY KernelAssumption DEF TickPrio, IdlePrio
  <2> QED
    BY <1>0, <1>3, <1>4, <2>1 DEF Types, Frame, Fields
<1>6. /\ left.wait = s.wait /\ left.suspends = s.suspends /\ left.dlys = s.dlys
      /\ left.timeouts = s.timeouts /\ left.astray = s.astray /\ left.held = s.held
      /\ left.owner = s.owner /\ left.grp = s.grp /\ left.pendOn = s.pendOn
  BY <1>3 DEF Frame, Fields
<1>7. Turn(left)
  <2>1. Frame(s, left, {"cur", "prioCur", "suspends", "base", "status", "dlys", "timeouts",
                        "grp", "failed", "rare", "astray", "held", "due"})
    BY <1>3, FrameWiden
  <2>2. Awake(left) = Awake(s)
    BY <1>6 DEF Awake, Ready, Suspended
  <2>3. Core(left, {})
    BY <1>0, <1>5, <2>1, <2>2, CoreSame
  <2> QED
    BY <1>0, <1>6, <2>3 DEF Turn, Hold, Blocked
<1>8. Elapsed(q1, Rest(s.dlys), left.due, Delayed(s))
  <2>1. \A t \in Delayed(s) : left.due[t] = s.due[t] - 1
    <3>1. \A t \in Delayed(s) : t \in Tasks /\ s.due[t] > 0
      BY <1>0 DEF Ticking, Delayed
    <3> QED
      BY <1>2, <1>3, <3>1
  <2> QED
    BY <1>0, <2>1, TickDown DEF Rest
<1>9. Delayed(left) = Delayed(s) /\ Timed(left) = Timed(s)
  BY <1>6 DEF Delayed, Timed
<1>10. /\ Turn(b) /\ Frame(left, b, DlyFields) /\ b.dlys = Rest(s.dlys) /\ Awoken(left, b, q1)
  <2>1. Elapsed(Expired(Ticked(left.dlys)), Rest(left.dlys), left.due, Delayed(left))
    BY <1>6, <1>8, <1>9
  <2>2. /\ Turn(TickListUpdateDly(left)) /\ Frame(left, TickListUpdateDly(left), DlyFields)
        /\ TickListUpdateDly(left).dlys = Rest(left.dlys)
        /\ Awoken(left, TickListUpdateDly(left), Expired(Ticked(left.dlys)))
    BY <1>7, <2>1, DlyTurn
  <2> QED
    BY <1>6, <2>2
<1> HIDE DEF b, q1
<1>11. b.timeouts = s.timeouts
  BY <1>6, <1>10 DEF Frame, Fields, DlyFields
<1>12. \A v \in Tasks : IF v \in ToSet(q1) THEN b.wait[v] = "RDY"
                        ELSE b.wait[v] = s.wait[v] /\ b.due[v] = left.due[v]
  BY <1>6, <1>10 DEF Awoken
<1>13. ToSet(q1) \subseteq Delayed(s) /\ Ticking(b.dlys, left.due, Delayed(s) \ ToSet(q1))
  BY <1>8, <1>10 DEF Elapsed
<1>14. Delayed(b) = Delayed(s) \ ToSet(q1) /\ Timed(b) = Timed(s)
  BY <1>12, <1>13 DEF Delayed, Timed
<1>15. Ticking(b.dlys, b.due, Delayed(b))
  <2>1. \A v \in Delayed(b) : b.due[v] = left.due[v]
    BY <1>12, <1>14 DEF Delayed
  <2> QED
    BY <1>13, <1>14, <2>1, TickingSame
<1>16. Elapsed(q2, Rest(s.timeouts), b.due, Timed(s))
  <2>1. \A t \in Timed(s) : b.due[t] = s.due[t] - 1
    <3>1. \A t \in Timed(s) : t \in Tasks /\ s.due[t] > 0 /\ t \notin ToSet(q1)
      BY <1>0, <1>13 DEF Ticking, Timed, Delayed
    <3> QED
      BY <1>2, <1>3, <1>12, <3>1
  <2> QED
    BY <1>0, <2>1, TickDown DEF Rest
<1>17. Halfway(s, left, b)
  BY <1>3, <1>7, <1>10, <1>11, <1>13, <1>14, <1>15, <1>16 DEF Halfway, b, q1
<1> QED
  BY <1>1, <1>17 DEF b

\* A tick keeps the invariant, whatever runs.
LEMMA TickTaskInv ==
  ASSUME NEW s, IInv(s)
  PROVE  IInv(TickTask(s))
<1>1. PICK left, b : Halfway(s, left, b) /\ TickTask(s) = Sched(TickListUpdateTimeout(b))
  BY TickHalfway
<1> DEFINE c == TickListUpdateTimeout(b)
           q2 == Expired(Ticked(s.timeouts))
<1>3. Frame(s, left, {"cur", "prioCur", "due"}) /\ Frame(left, b, DlyFields)
  BY <1>1 DEF Halfway
<1>10. Turn(b) /\ b.timeouts = s.timeouts /\ Timed(b) = Timed(s) /\ Bounds(s)
  BY <1>1 DEF Halfway, IInv
<1>15. Ticking(b.dlys, b.due, Delayed(b))
  BY <1>1 DEF Halfway
<1>16. Elapsed(q2, Rest(s.timeouts), b.due, Timed(s))
  BY <1>1 DEF Halfway
<1>17. /\ Turn(c) /\ Frame(b, c, TimeFields) /\ c.timeouts = Rest(s.timeouts) /\ Awoken(b, c, q2)
  <2>1. Elapsed(Expired(Ticked(b.timeouts)), Rest(b.timeouts), b.due, Timed(b))
    BY <1>10, <1>16
  <2>11. b \in States /\ States \in SUBSET States
    BY <1>10, TypesState DEF Turn, Core
  <2>12. \A y \in States, t \in Tasks :
           Turn(y) /\ y.wait[t] = "PEND_TIMEOUT" => TimeOut(y, t) \in States
    BY TimeOutTurn, TypesState DEF Turn, Core
  <2>2. /\ Turn(TickListUpdateTimeout(b)) /\ Frame(b, TickListUpdateTimeout(b), TimeFields)
        /\ TickListUpdateTimeout(b).timeouts = Rest(b.timeouts)
        /\ Awoken(b, TickListUpdateTimeout(b), Expired(Ticked(b.timeouts)))
    BY <1>10, <2>1, <2>11, <2>12, TimeoutsTurn
  <2> QED
    BY <1>10, <2>2
<1> HIDE DEF c, q2
<1>18. c.dlys = b.dlys
  BY <1>17 DEF Frame, Fields, TimeFields
<1>19. \A v \in Tasks : IF v \in ToSet(q2) THEN c.wait[v] = "RDY"
                        ELSE c.wait[v] = b.wait[v] /\ c.due[v] = b.due[v]
  BY <1>17 DEF Awoken
<1>20. ToSet(q2) \subseteq Timed(s) /\ Ticking(c.timeouts, b.due, Timed(s) \ ToSet(q2))
  BY <1>16, <1>17 DEF Elapsed
<1>21. Delayed(c) \ {} = Delayed(b) /\ Timed(c) \ {} = Timed(s) \ ToSet(q2)
  <2>1. Timed(b) = Timed(s) /\ ToSet(q2) \subseteq Timed(b)
    BY <1>10, <1>20
  <2>2. Timed(c) = Timed(b) \ ToSet(q2)
    BY <1>19 DEF Timed
  <2>3. Delayed(c) = Delayed(b)
    BY <1>19, <2>1 DEF Timed, Delayed
  <2> QED
    BY <2>1, <2>2, <2>3
<1>22. Ticks(c, {})
  <2>1. /\ \A v \in Delayed(b) : c.due[v] = b.due[v]
        /\ \A v \in Timed(s) \ ToSet(q2) : c.due[v] = b.due[v]
    <3>1. \A v \in Delayed(b) : v \in Tasks /\ v \notin ToSet(q2)
      BY <1>10, <1>20 DEF Delayed, Timed
    <3> QED
      BY <1>19, <3>1 DEF Timed
  <2>2. Ticking(c.dlys, c.due, Delayed(b)) /\ Ticking(c.timeouts, c.due, Timed(s) \ ToSet(q2))
    BY <1>15, <1>18, <1>20, <2>1, TickingSame
  <2> QED
    BY <1>21, <2>2 DEF Ticks
<1>23. Kept(c, {})
  BY <1>17, <1>22 DEF Kept, Turn
<1>24. Bounds(c)
  <2>1. c.rare = s.rare /\ c.suspends = s.suspends /\ c.nest = s.nest
    BY <1>3, <1>17 DEF Frame, Fields, DlyFields, TimeFields
  <2> QED
    BY <1>10, <2>1 DEF Bounds
<1>25. IInv(Sched(c))
  BY <1>23, <1>24, SchedInv
<1> QED
  BY <1>1, <1>25 DEF c

-----------------------------------------------------------------------------
(* The initial states                                                        *)

\* The tasks can be enumerated.
LEMMA SeqOfSet ==
  ASSUME NEW S, IsFiniteSet(S)
  PROVE  SetToSeq(S) \in Seq(S) /\ Uniq(SetToSeq(S))
<1> DEFINE n == Cardinality(S)
           q == SetToSeq(S)
<1>1. n \in Nat /\ ExistsBijection(1..n, S)
  BY FS_CardinalityType
<1>2. PICK f \in [1..n -> S] : IsInjective(f)
  BY <1>1 DEF ExistsBijection, Bijection, Injection
<1>3. q \in [1..n -> S] /\ IsInjective(q)
  BY <1>2 DEF SetToSeq
<1> HIDE DEF n, q
<1>4. q \in Seq(S)
  BY <1>1, <1>3, SeqDef
<1>5. Uniq(q)
  BY <1>3 DEF Uniq, IsInjective
<1> QED
  BY <1>4, <1>5 DEF q

\* No task has been created, no object used.
None ==
  [cur |-> Nothing, prioCur |-> IdlePrio,
   rdy |-> [p \in Prios |-> <<>>],
   wait |-> [t \in Tasks |-> "DEL"],
   suspends |-> [t \in Tasks |-> 0],
   prio |-> First, base |-> First,
   pendOn |-> [t \in Tasks |-> Nothing],
   status |-> [t \in Tasks |-> "OK"],
   pend |-> [o \in Objects |-> <<>>],
   dlys |-> <<>>, timeouts |-> <<>>,
   owner |-> [m \in Mutexes |-> Nothing],
   nest |-> [m \in Mutexes |-> 0],
   grp |-> [t \in Tasks |-> <<>>],
   ctr |-> [o \in Sems |-> 0], rare |-> 0,
   failed |-> FALSE, astray |-> FALSE,
   held |-> [t \in Tasks |-> {}], due |-> [t \in Tasks |-> 0]]

\* No rare call was made.
Fresh(s) ==
  /\ s.rare = 0 /\ \A t \in Tasks : s.suspends[t] = 0
  /\ \A m \in Mutexes : s.nest[m] <= 1

\* The invariant before the first task is created.
LEMMA NoneKept ==
  /\ Kept(None, {}) /\ Fresh(None)
  /\ \A t \in Tasks : None.wait[t] = "DEL"
<1> DEFINE s == None
<1>01. /\ s.cur = Nothing /\ s.prioCur = IdlePrio
      /\ s.rdy = [p \in Prios |-> <<>>]
      /\ s.wait = [t \in Tasks |-> "DEL"]
      /\ s.suspends = [t \in Tasks |-> 0]
      /\ s.prio = First /\ s.base = First
      /\ s.pendOn = [t \in Tasks |-> Nothing]
      /\ s.status = [t \in Tasks |-> "OK"]
      /\ s.pend = [o \in Objects |-> <<>>]
      /\ s.dlys = <<>> /\ s.timeouts = <<>>
      /\ s.owner = [m \in Mutexes |-> Nothing]
      /\ s.nest = [m \in Mutexes |-> 0]
      /\ s.grp = [t \in Tasks |-> <<>>]
      /\ s.ctr = [o \in Sems |-> 0] /\ s.rare = 0
      /\ s.failed = FALSE /\ s.astray = FALSE
      /\ s.held = [t \in Tasks |-> {}] /\ s.due = [t \in Tasks |-> 0]
  BY DEF None
<1>02. DOMAIN s = Fields
  BY DEF None, Fields
<1>03. s = [f \in DOMAIN s |-> s[f]]
  BY DEF None
<1>04. Shape(s)
  BY <1>02, <1>03 DEF Shape
<1> HIDE DEF s
<1>1. /\ s.cur \in Tasks \cup {Idle, Nothing} /\ s.prioCur \in -1..IdlePrio
      /\ s.prio \in [Tasks -> Prios] /\ s.base \in [Tasks -> Prios]
      /\ s.ctr \in [Sems -> 0..MaxCtr]
  BY <1>01, KernelAssumption DEF IdlePrio, Prios
<1>2. /\ \A S : <<>> \in Seq(S)
      /\ Len(<<>>) = 0 /\ ToSet(<<>>) = {} /\ Uniq(<<>>) /\ DOMAIN <<>> = {}
  BY DEF ToSet, Uniq
<1>3. /\ s.rdy \in [Prios -> Seq(Tasks)] /\ s.pend \in [Objects -> Seq(Tasks)]
      /\ s.dlys \in Seq(Tasks \X Nat) /\ s.timeouts \in Seq(Tasks \X Nat)
      /\ s.grp \in [Tasks -> Seq(Mutexes)]
  BY <1>01, <1>2
<1>4. /\ s.wait \in [Tasks -> Waits] /\ s.suspends \in [Tasks -> Nat]
      /\ s.pendOn \in [Tasks -> Objects \cup {Nothing}]
      /\ s.status \in [Tasks -> Statuses]
      /\ s.owner \in [Mutexes -> Tasks \cup {Nothing}] /\ s.nest \in [Mutexes -> Nat]
      /\ s.failed \in BOOLEAN /\ s.rare \in Nat /\ s.astray \in BOOLEAN
      /\ s.held \in [Tasks -> SUBSET Mutexes] /\ s.due \in [Tasks -> Nat]
  <2>1. "DEL" \in Waits /\ "OK" \in Statuses
    BY DEF Waits, Statuses
  <2>2. s.wait \in [Tasks -> Waits] /\ s.status \in [Tasks -> Statuses]
    BY <1>01, <2>1
  <2>3. /\ s.suspends \in [Tasks -> Nat] /\ s.nest \in [Mutexes -> Nat]
        /\ s.due \in [Tasks -> Nat] /\ s.rare \in Nat
    BY <1>01
  <2>4. /\ s.pendOn \in [Tasks -> Objects \cup {Nothing}]
        /\ s.owner \in [Mutexes -> Tasks \cup {Nothing}]
        /\ s.held \in [Tasks -> SUBSET Mutexes]
    BY <1>01
  <2> QED
    BY <1>01, <2>2, <2>3, <2>4
<1>5. Types(s)
  BY <1>04, <1>1, <1>3, <1>4 DEF Types
<1>6. Awake(s) = {} /\ Delayed(s) = {} /\ Timed(s) = {}
  BY <1>01 DEF Awake, Ready, Delayed, Timed
<1>7. Readied(s.rdy, Awake(s) \ {}, s.prio)
  BY <1>01, <1>2, <1>6 DEF Readied
<1>8. Pended(s.pend, s.pendOn, s.prio)
  <2>1. Nothing \notin Objects
    BY KernelAssumption DEF Objects
  <2> QED
    BY <1>01, <1>2, <2>1 DEF Pended
<1>9. Waiters(s) /\ Counts(s) /\ Owned(s)
  BY <1>01 DEF Waiters, Counts, Owned, Objects
<1>10. Summing(<<>>, s.due, {}) /\ \A t \in {} : s.due[t] > 0
  BY <1>2 DEF Summing
<1>11. Ticks(s, {})
  BY <1>01, <1>6, <1>10 DEF Ticks, Ticking
<1>12. Hold(s)
  <2>1. /\ \A t \in Tasks : s.held[t] = {} /\ s.grp[t] = <<>>
        /\ \A m \in Mutexes : s.owner[m] = Nothing
        /\ Nothing \notin Tasks
    BY <1>01, KernelAssumption
  <2> QED
    BY <1>2, <2>1 DEF Hold
<1>13. Blocked(s, {})
  BY <1>01 DEF Blocked, Pending
<1>14. Kept(s, {})
  BY <1>5, <1>7, <1>8, <1>9, <1>11, <1>12, <1>13 DEF Kept, Core
<1>15. Fresh(s) /\ \A t \in Tasks : s.wait[t] = "DEL"
  BY <1>01 DEF Fresh
<1> QED
  BY <1>14, <1>15 DEF s

\* One task is created.
LEMMA CreateFresh ==
  ASSUME NEW s, Kept(s, {}), Fresh(s), NEW t \in Tasks, s.wait[t] = "DEL"
  PROVE  /\ Kept(TaskCreate(s, t), {}) /\ Fresh(TaskCreate(s, t))
         /\ \A v \in Tasks : v # t => TaskCreate(s, t).wait[v] = s.wait[v]
<1> DEFINE y == TaskCreate(s, t)
<1>1. Kept(y, {}) /\ Within(s, y, 0) /\ y.wait = [s.wait EXCEPT ![t] = "RDY"]
  BY TaskCreateKept
<1> HIDE DEF y
<1>2. Types(s) /\ Types(y)
  BY <1>1 DEF Kept, Core
<1>3. y.rare = 0
  BY <1>1 DEF Within, Fresh
<1>4. \A v \in Tasks : y.suspends[v] = 0
  <2> SUFFICES ASSUME NEW v \in Tasks PROVE y.suspends[v] = 0
    OBVIOUS
  <2>1. y.suspends[v] \in Nat /\ s.suspends[v] = 0 /\ y.suspends[v] <= s.suspends[v] + 0
    BY <1>1, <1>2 DEF Types, Within, Fresh
  <2> QED
    BY <2>1
<1>5. \A m \in Mutexes : y.nest[m] <= 1
  <2> SUFFICES ASSUME NEW m \in Mutexes PROVE y.nest[m] <= 1
    OBVIOUS
  <2>1. /\ y.nest[m] \in Nat /\ s.nest[m] \in Nat /\ s.nest[m] <= 1
        /\ y.nest[m] <= s.nest[m] + 0 \/ y.nest[m] <= 1
    BY <1>1, <1>2 DEF Types, Within, Fresh
  <2> QED
    BY <2>1
<1>6. \A v \in Tasks : v # t => y.wait[v] = s.wait[v]
  BY <1>1, <1>2 DEF Types
<1> QED
  BY <1>1, <1>3, <1>4, <1>5, <1>6 DEF Fresh, y

\* The tasks are created one after the other, by a call that stays in X.
LEMMA AllCreated ==
  ASSUME NEW X \in SUBSET States, None \in X,
         \A y \in X, t \in Tasks : Kept(y, {}) /\ y.wait[t] = "DEL" => TaskCreate(y, t) \in X
  PROVE  Init => \E s2 \in X : Kept(s2, {}) /\ Fresh(s2) /\ k = Sched(s2)
<1> DEFINE q == SetToSeq(Tasks)
           N == Len(q)
           Good(n, x) == /\ Kept(x, {}) /\ Fresh(x) /\ x \in X
                         /\ \A v \in Tasks : (\E i \in 1..n : q[i] = v) \/ x.wait[v] = "DEL"
           F == [p \in (1..N) \X States |-> TaskCreate(p[2], q[p[1]])]
           G == [n \in 0..N |-> {x \in States : Good(n, x)}]
           H(f) == [n \in 0..N |-> IF n = 0 THEN None ELSE TaskCreate(f[n - 1], q[n])]
           after == CHOOSE f : f = H(f)
           a  == after[N]
           s2 == TaskCreates(None, q)
<1>0. /\ N \in Nat /\ Uniq(q) /\ DOMAIN q = 1..N /\ \A i \in 1..N : q[i] \in Tasks
  <2>1. q \in Seq(Tasks) /\ Uniq(q)
    BY SeqOfSet, KernelAssumption
  <2> HIDE DEF q
  <2> QED
    BY <2>1, LenProperties
<1>1. s2 = a
  BY DEF TaskCreates
<1>100. Init => k = Sched(s2)
  BY DEF Init, None
<1> HIDE DEF q, s2
<1>2. \A n \in 1..N : \A x \in States : F[<<n, x>>] = TaskCreate(x, q[n])
  OBVIOUS
<1>3. \A n \in 0..N : \A x : x \in G[n] <=> x \in States /\ Good(n, x)
  OBVIOUS
<1>4. Good(0, None) /\ None \in States
  BY NoneKept, TypesState DEF Kept, Core
<1>5. None \in G[0]
  BY <1>0, <1>3, <1>4
<1>6. ASSUME NEW n \in 1..N, NEW x, Good(n - 1, x)
      PROVE  Good(n, TaskCreate(x, q[n]))
  <2> DEFINE t == q[n]
             y == TaskCreate(x, t)
  <2>1. t \in Tasks /\ ~\E i \in 1..n - 1 : q[i] = t
    <3>1. \A i \in 1..n - 1 : i \in 1..N /\ i # n
      BY <1>0
    <3> QED
      BY <1>0, <3>1 DEF Uniq
  <2>2. x.wait[t] = "DEL" /\ Kept(x, {}) /\ Fresh(x) /\ x \in X
    BY <1>6, <2>1
  <2> HIDE DEF t
  <2>3. /\ Kept(y, {}) /\ Fresh(y) /\ \A v \in Tasks : v # t => y.wait[v] = x.wait[v]
    BY <2>1, <2>2, CreateFresh
  <2>31. y \in X
    BY <2>1, <2>2
  <2> HIDE DEF y
  <2>4. ASSUME NEW v \in Tasks PROVE (\E i \in 1..n : q[i] = v) \/ y.wait[v] = "DEL"
    <3>1. (\E i \in 1..n : q[i] = v) <=> v = t \/ \E i \in 1..n - 1 : q[i] = v
      <4>1. \A i : i \in 1..n <=> i = n \/ i \in 1..n - 1
        BY <1>0
      <4> QED
        BY <4>1 DEF t
    <3>2. (\E i \in 1..n - 1 : q[i] = v) \/ x.wait[v] = "DEL"
      BY <1>6
    <3> QED
      BY <2>3, <3>1, <3>2
  <2>5. Good(n, y)
    BY <2>3, <2>31, <2>4
  <2> QED
    BY <2>5 DEF y, t
<1>7. \A n \in 1..N : \A x \in G[n - 1] : F[<<n, x>>] \in G[n]
  <2> SUFFICES ASSUME NEW n \in 1..N, NEW x \in G[n - 1] PROVE F[<<n, x>>] \in G[n]
    OBVIOUS
  <2> HIDE DEF F, G
  <2>1. n - 1 \in 0..N /\ n \in 0..N
    BY <1>0
  <2>2. x \in States /\ Good(n - 1, x)
    BY <1>3, <2>1
  <2>3. Good(n, TaskCreate(x, q[n]))
    BY <1>6, <2>2
  <2>4. TaskCreate(x, q[n]) \in States
    BY <2>3, TypesState DEF Kept, Core
  <2> HIDE DEF Good
  <2>5. F[<<n, x>>] = TaskCreate(x, q[n])
    BY <1>2, <2>2
  <2> QED
    BY <1>3, <2>1, <2>3, <2>4, <2>5
<1> HIDE DEF F, G, Good, N
<1>8. PICK g : Fold(g, N, None, F, G)
  BY <1>0, <1>5, <1>7, FoldExists
<1>9. /\ g = [i \in 0..N |-> g[i]] /\ g[0] = None
      /\ \A i \in 1..N : g[i] = TaskCreate(g[i - 1], q[i])
      /\ g[N] \in G[N]
  <2>1. \A i \in 1..N : g[i - 1] \in States
    <3>1. \A i \in 1..N : i - 1 \in 0..N
      BY <1>0
    <3> QED
      BY <1>3, <1>8, <3>1 DEF Fold
  <2>2. N \in 0..N
    BY <1>0
  <2> QED
    BY <1>2, <1>8, <2>1, <2>2 DEF Fold
<1>10. g = H(g)
  <2>1. \A i \in 0..N : g[i] = IF i = 0 THEN None ELSE TaskCreate(g[i - 1], q[i])
    <3>1. \A i \in 0..N : i # 0 => i \in 1..N
      BY <1>0
    <3> QED
      BY <1>9, <3>1
  <2> QED
    BY <1>9, <2>1
<1>11. after = H(after)
  <2> HIDE DEF H
  <2> QED
    BY <1>10
<1> HIDE DEF after
<1>12. after[0] = None /\ \A n \in 1..N : after[n] = TaskCreate(after[n - 1], q[n])
  BY <1>0, <1>11
<1>13. after[N] = g[N]
  <2>1. \A n \in 1..N : after[n - 1] = g[n - 1] => after[n] = g[n]
    BY <1>9, <1>12
  <2>2. after[0] = g[0]
    BY <1>9, <1>12
  <2> QED
    BY <1>0, <2>1, <2>2, FoldAgree
<1>14. Good(N, a)
  <2>1. N \in 0..N
    BY <1>0
  <2> QED
    BY <1>3, <1>9, <1>13, <2>1
<1>15. Kept(s2, {}) /\ Fresh(s2) /\ s2 \in X
  BY <1>1, <1>14 DEF Good
<1> QED
  BY <1>15, <1>100

\* The invariant at the start.
LEMMA InitInv == Init => IInv(k)
<1>1. None \in States /\ States \in SUBSET States
  BY NoneKept, TypesState DEF Kept, Core
<1>2. \A y \in States, t \in Tasks :
        Kept(y, {}) /\ y.wait[t] = "DEL" => TaskCreate(y, t) \in States
  BY TaskCreateKept, TypesState DEF Kept, Core
<1>3. Init => \E s2 \in States : Kept(s2, {}) /\ Fresh(s2) /\ k = Sched(s2)
  BY <1>1, <1>2, AllCreated
<1> SUFFICES ASSUME Init PROVE IInv(k)
  OBVIOUS
<1>4. PICK s2 \in States : Kept(s2, {}) /\ Fresh(s2) /\ k = Sched(s2)
  BY <1>3
<1>5. Bounds(s2)
  <2>1. s2.rare = 0 /\ MaxRare \in Nat
    BY <1>4, KernelAssumption DEF Fresh
  <2> QED
    BY <1>4, <2>1 DEF Fresh, Bounds
<1> QED
  BY <1>4, <1>5, SchedInv

-----------------------------------------------------------------------------
(* Every call keeps the invariant                                            *)

\* What a task that calls a service relies on.
LEMMA RunningReady ==
  ASSUME IInv(k), Running
  PROVE  Kept(k, {}) /\ k.cur \in Tasks /\ Ready(k, k.cur)
BY DEF IInv, Running

\* One lemma for each action: the service, and OSSched behind it.
LEMMA OSMutexPendInv == ASSUME IInv(k), OSMutexPend PROVE IInv(k')
<1>1. PICK m \in Mutexes, time \in Times :
        Running /\ k.owner[m] # k.cur /\ Returns(MutexPend(k, m, time))
  BY DEF OSMutexPend
<1>2. time \in Nat
  BY KernelAssumption
<1> DEFINE x == MutexPend(k, m, time)
<1>3. Kept(x, {}) /\ Within(k, x, 0)
  BY <1>1, <1>2, RunningReady, MutexPendKept
<1>4. k' = IF x.failed THEN x ELSE Sched(x)
  BY <1>1 DEF Returns
<1> HIDE DEF x
<1> QED
  BY <1>3, <1>4, PlainInv

LEMMA OSMutexPendOwnerInv == ASSUME IInv(k), OSMutexPendOwner PROVE IInv(k')
<1>1. PICK m \in Mutexes :
        Rare /\ k.owner[m] = k.cur /\ Returns(Counted(MutexPend(k, m, 0)))
  BY DEF OSMutexPendOwner
<1>2. Running /\ k.rare < MaxRare
  BY <1>1 DEF Rare
<1> DEFINE x == MutexPend(k, m, 0)
<1>3. Kept(x, {}) /\ Within(k, x, 1)
  BY <1>1, <1>2, RunningReady, MutexPendOwnerKept
<1>4. k' = IF Counted(x).failed THEN Counted(x) ELSE Sched(Counted(x))
  BY <1>1 DEF Returns
<1> HIDE DEF x
<1> QED
  BY <1>2, <1>3, <1>4, RareInv

LEMMA OSMutexPostInv == ASSUME IInv(k), OSMutexPost PROVE IInv(k')
<1>1. PICK m \in Mutexes : Running /\ k.owner[m] = k.cur /\ Returns(MutexPost(k, m))
  BY DEF OSMutexPost
<1> DEFINE x == MutexPost(k, m)
<1>2. Kept(x, {}) /\ Within(k, x, 0)
  BY <1>1, RunningReady, MutexPostKept
<1>3. k' = IF x.failed THEN x ELSE Sched(x)
  BY <1>1 DEF Returns
<1> HIDE DEF x
<1> QED
  BY <1>2, <1>3, PlainInv

LEMMA OSMutexPendAbortInv == ASSUME IInv(k), OSMutexPendAbort PROVE IInv(k')
<1>1. PICK m \in Mutexes : \E n \in {1, Len(k.pend[m])} :
        Rare /\ k.pend[m] # << >> /\ Returns(Counted(MutexPendAbort(k, m, n)))
  BY DEF OSMutexPendAbort
<1>2. PICK n \in {1, Len(k.pend[m])} :
        Rare /\ k.pend[m] # << >> /\ Returns(Counted(MutexPendAbort(k, m, n)))
  BY <1>1
<1>3. Running /\ k.rare < MaxRare /\ Kept(k, {})
  BY <1>2, RunningReady DEF Rare
<1>4. n \in 0..Len(k.pend[m])
  <2>1. k.pend[m] \in Seq(Tasks)
    BY <1>3 DEF Kept, Core, Types, Objects
  <2>2. Len(k.pend[m]) \in Nat /\ Len(k.pend[m]) # 0
    BY <1>2, <2>1, SetFacts
  <2> QED
    BY <2>2
<1> DEFINE x == MutexPendAbort(k, m, n)
<1>5. Kept(x, {}) /\ Within(k, x, 1)
  BY <1>3, <1>4, MutexPendAbortKept
<1>6. k' = IF Counted(x).failed THEN Counted(x) ELSE Sched(Counted(x))
  BY <1>2 DEF Returns
<1> HIDE DEF x
<1> QED
  BY <1>3, <1>5, <1>6, RareInv

LEMMA OSMutexDelInv == ASSUME IInv(k), OSMutexDel PROVE IInv(k')
<1>1. PICK m \in Mutexes : Rare /\ Returns(Counted(MutexDel(k, m)))
  BY DEF OSMutexDel
<1>2. Running /\ k.rare < MaxRare
  BY <1>1 DEF Rare
<1> DEFINE x == MutexDel(k, m)
<1>3. Kept(x, {}) /\ Within(k, x, 1)
  BY <1>2, RunningReady, MutexDelKept
<1>4. k' = IF Counted(x).failed THEN Counted(x) ELSE Sched(Counted(x))
  BY <1>1 DEF Returns
<1> HIDE DEF x
<1> QED
  BY <1>2, <1>3, <1>4, RareInv

LEMMA OSSemPendInv == ASSUME IInv(k), OSSemPend PROVE IInv(k')
<1>1. PICK o \in Sems, time \in Times : Running /\ Returns(SemPend(k, o, time))
  BY DEF OSSemPend
<1>2. time \in Nat
  BY KernelAssumption
<1> DEFINE x == SemPend(k, o, time)
<1>3. Kept(x, {}) /\ Within(k, x, 0)
  BY <1>1, <1>2, RunningReady, SemPendKept
<1>4. k' = IF x.failed THEN x ELSE Sched(x)
  BY <1>1 DEF Returns
<1> HIDE DEF x
<1> QED
  BY <1>3, <1>4, PlainInv

LEMMA OSSemPostInv == ASSUME IInv(k), OSSemPost PROVE IInv(k')
<1>1. PICK o \in Sems : \E n \in {1, Max({1, Len(k.pend[o])})} :
        k.ctr[o] < MaxCtr /\ Returns(SemPost(k, o, n))
  BY DEF OSSemPost
<1>2. PICK n \in {1, Max({1, Len(k.pend[o])})} :
        k.ctr[o] < MaxCtr /\ Returns(SemPost(k, o, n))
  BY <1>1
<1> DEFINE x == SemPost(k, o, n)
<1>3. Kept(k, {})
  BY DEF IInv
<1>4. Kept(x, {}) /\ Within(k, x, 0)
  BY <1>2, <1>3, SemPostKept
<1>5. k' = IF x.failed THEN x ELSE Sched(x)
  BY <1>2 DEF Returns
<1> HIDE DEF x
<1> QED
  BY <1>4, <1>5, PlainInv

LEMMA OSSemSetInv == ASSUME IInv(k), OSSemSet PROVE IInv(k')
<1>1. PICK o \in Sems, n \in 0..MaxCtr : Rare /\ Returns(Counted(SemSet(k, o, n)))
  BY DEF OSSemSet
<1>2. Running /\ k.rare < MaxRare
  BY <1>1 DEF Rare
<1> DEFINE x == SemSet(k, o, n)
<1>3. Kept(x, {}) /\ Within(k, x, 1)
  BY <1>2, RunningReady, SemSetKept
<1>4. k' = IF Counted(x).failed THEN Counted(x) ELSE Sched(Counted(x))
  BY <1>1 DEF Returns
<1> HIDE DEF x
<1> QED
  BY <1>2, <1>3, <1>4, RareInv

LEMMA OSSemPendAbortInv == ASSUME IInv(k), OSSemPendAbort PROVE IInv(k')
<1>1. PICK o \in Sems : \E n \in {1, Len(k.pend[o])} :
        Rare /\ k.pend[o] # << >> /\ Returns(Counted(SemPendAbort(k, o, n)))
  BY DEF OSSemPendAbort
<1>2. PICK n \in {1, Len(k.pend[o])} :
        Rare /\ k.pend[o] # << >> /\ Returns(Counted(SemPendAbort(k, o, n)))
  BY <1>1
<1>3. Running /\ k.rare < MaxRare
  BY <1>2 DEF Rare
<1> DEFINE x == SemPendAbort(k, o, n)
<1>4. Kept(x, {}) /\ Within(k, x, 1)
  BY <1>2, <1>3, RunningReady, SemPendAbortKept
<1>5. k' = IF Counted(x).failed THEN Counted(x) ELSE Sched(Counted(x))
  BY <1>2 DEF Returns
<1> HIDE DEF x
<1> QED
  BY <1>3, <1>4, <1>5, RareInv

LEMMA OSSemDelInv == ASSUME IInv(k), OSSemDel PROVE IInv(k')
<1>1. PICK o \in Sems : Rare /\ Returns(Counted(SemDel(k, o)))
  BY DEF OSSemDel
<1>2. Running /\ k.rare < MaxRare
  BY <1>1 DEF Rare
<1> DEFINE x == SemDel(k, o)
<1>3. Kept(x, {}) /\ Within(k, x, 1)
  BY <1>2, RunningReady, SemDelKept
<1>4. k' = IF Counted(x).failed THEN Counted(x) ELSE Sched(Counted(x))
  BY <1>1 DEF Returns
<1> HIDE DEF x
<1> QED
  BY <1>2, <1>3, <1>4, RareInv

LEMMA OSTaskDelInv == ASSUME IInv(k), OSTaskDel PROVE IInv(k')
<1>1. PICK t \in Tasks : Rare /\ Returns(Counted(TaskDel(k, t)))
  BY DEF OSTaskDel
<1>2. Running /\ k.rare < MaxRare
  BY <1>1 DEF Rare
<1> DEFINE x == TaskDel(k, t)
<1>3. Kept(x, {}) /\ Within(k, x, 1)
  BY <1>2, RunningReady, TaskDelKept
<1>4. k' = IF Counted(x).failed THEN Counted(x) ELSE Sched(Counted(x))
  BY <1>1 DEF Returns
<1> HIDE DEF x
<1> QED
  BY <1>2, <1>3, <1>4, RareInv

LEMMA OSTaskCreateInv == ASSUME IInv(k), OSTaskCreate PROVE IInv(k')
<1>1. PICK t \in Tasks : Running /\ k.wait[t] = "DEL" /\ Returns(TaskCreate(k, t))
  BY DEF OSTaskCreate
<1> DEFINE x == TaskCreate(k, t)
<1>2. Kept(x, {}) /\ Within(k, x, 0)
  BY <1>1, RunningReady, TaskCreateKept
<1>3. k' = IF x.failed THEN x ELSE Sched(x)
  BY <1>1 DEF Returns
<1> HIDE DEF x
<1> QED
  BY <1>2, <1>3, PlainInv

LEMMA OSTaskSuspendInv == ASSUME IInv(k), OSTaskSuspend PROVE IInv(k')
<1>1. PICK t \in Tasks : Rare /\ Returns(Counted(TaskSuspend(k, t)))
  BY DEF OSTaskSuspend
<1>2. Running /\ k.rare < MaxRare
  BY <1>1 DEF Rare
<1> DEFINE x == TaskSuspend(k, t)
<1>3. Kept(x, {}) /\ Within(k, x, 1)
  BY <1>2, RunningReady, TaskSuspendKept
<1>4. k' = IF Counted(x).failed THEN Counted(x) ELSE Sched(Counted(x))
  BY <1>1 DEF Returns
<1> HIDE DEF x
<1> QED
  BY <1>2, <1>3, <1>4, RareInv

LEMMA OSTaskResumeInv == ASSUME IInv(k), OSTaskResume PROVE IInv(k')
<1>1. PICK t \in Tasks : Running /\ Suspended(k, t) /\ Returns(TaskResume(k, t))
  BY DEF OSTaskResume
<1> DEFINE x == TaskResume(k, t)
<1>2. Kept(x, {}) /\ Within(k, x, 0)
  BY <1>1, RunningReady, TaskResumeKept
<1>3. k' = IF x.failed THEN x ELSE Sched(x)
  BY <1>1 DEF Returns
<1> HIDE DEF x
<1> QED
  BY <1>2, <1>3, PlainInv

LEMMA OSTaskChangePrioInv == ASSUME IInv(k), OSTaskChangePrio PROVE IInv(k')
<1>1. PICK t \in Tasks, p \in Prios : Rare /\ Returns(Counted(ChangePrio(k, t, p)))
  BY DEF OSTaskChangePrio
<1>2. Running /\ k.rare < MaxRare
  BY <1>1 DEF Rare
<1> DEFINE x == ChangePrio(k, t, p)
<1>3. Kept(x, {}) /\ Within(k, x, 1)
  BY <1>2, RunningReady, ChangePrioKept
<1>4. k' = IF Counted(x).failed THEN Counted(x) ELSE Sched(Counted(x))
  BY <1>1 DEF Returns
<1> HIDE DEF x
<1> QED
  BY <1>2, <1>3, <1>4, RareInv

LEMMA OSTimeDlyInv == ASSUME IInv(k), OSTimeDly PROVE IInv(k')
<1>1. PICK time \in Times \ {0} : Rare /\ Returns(Counted(TimeDly(k, time)))
  BY DEF OSTimeDly
<1>2. Running /\ k.rare < MaxRare /\ time \in Nat \ {0}
  BY <1>1, KernelAssumption DEF Rare
<1> DEFINE x == TimeDly(k, time)
<1>3. Kept(x, {}) /\ Within(k, x, 1)
  BY <1>2, RunningReady, TimeDlyKept
<1>4. k' = IF Counted(x).failed THEN Counted(x) ELSE Sched(Counted(x))
  BY <1>1 DEF Returns
<1> HIDE DEF x
<1> QED
  BY <1>2, <1>3, <1>4, RareInv

LEMMA OSTimeDlyResumeInv == ASSUME IInv(k), OSTimeDlyResume PROVE IInv(k')
<1>1. PICK t \in Tasks : Running /\ k.wait[t] = "DLY" /\ Returns(TimeDlyResume(k, t))
  BY DEF OSTimeDlyResume
<1> DEFINE x == TimeDlyResume(k, t)
<1>2. Kept(x, {}) /\ Within(k, x, 0)
  BY <1>1, RunningReady, TimeDlyResumeKept
<1>3. k' = IF x.failed THEN x ELSE Sched(x)
  BY <1>1 DEF Returns
<1> HIDE DEF x
<1> QED
  BY <1>2, <1>3, PlainInv

LEMMA OS_TickTaskInv == ASSUME IInv(k), OS_TickTask PROVE IInv(k')
<1>1. k' = TickTask(k)
  BY DEF OS_TickTask
<1>2. IInv(TickTask(k))
  BY TickTaskInv
<1> QED
  BY <1>1, <1>2

\* Every step keeps the invariant.
LEMMA NextInv == IInv(k) /\ [Next]_k => IInv(k')
<1> SUFFICES ASSUME IInv(k), [Next]_k PROVE IInv(k')
  OBVIOUS
<1>1. CASE OSMutexPend
  BY <1>1, OSMutexPendInv
<1>2. CASE OSMutexPendOwner
  BY <1>2, OSMutexPendOwnerInv
<1>3. CASE OSMutexPost
  BY <1>3, OSMutexPostInv
<1>4. CASE OSMutexPendAbort
  BY <1>4, OSMutexPendAbortInv
<1>5. CASE OSMutexDel
  BY <1>5, OSMutexDelInv
<1>6. CASE OSSemPend
  BY <1>6, OSSemPendInv
<1>7. CASE OSSemPost
  BY <1>7, OSSemPostInv
<1>8. CASE OSSemSet
  BY <1>8, OSSemSetInv
<1>9. CASE OSSemPendAbort
  BY <1>9, OSSemPendAbortInv
<1>10. CASE OSSemDel
  BY <1>10, OSSemDelInv
<1>11. CASE OSTaskDel
  BY <1>11, OSTaskDelInv
<1>12. CASE OSTaskCreate
  BY <1>12, OSTaskCreateInv
<1>13. CASE OSTaskSuspend
  BY <1>13, OSTaskSuspendInv
<1>14. CASE OSTaskResume
  BY <1>14, OSTaskResumeInv
<1>15. CASE OSTaskChangePrio
  BY <1>15, OSTaskChangePrioInv
<1>16. CASE OSTimeDly
  BY <1>16, OSTimeDlyInv
<1>17. CASE OSTimeDlyResume
  BY <1>17, OSTimeDlyResumeInv
<1>18. CASE OS_TickTask
  BY <1>18, OS_TickTaskInv
<1>19. CASE k' = k
  BY <1>19
<1> QED
  BY <1>1, <1>2, <1>3, <1>4, <1>5, <1>6, <1>7, <1>8, <1>9, <1>10, <1>11, <1>12,
     <1>13, <1>14, <1>15, <1>16, <1>17, <1>18, <1>19 DEF Next

-----------------------------------------------------------------------------
(* The theorems                                                              *)

\* The inductive invariant, of the kernel's variable.
Invariant == IInv(k)

\* The kernel's data structures agree after every service, whoever calls it.
THEOREM Invariance == Spec => []Invariant
<1>1. Init => Invariant
  BY InitInv DEF Invariant
<1>2. Invariant /\ [Next]_k => Invariant'
  BY NextInv DEF Invariant
<1> QED
  BY <1>1, <1>2, PTL DEF Spec

\* Every field of the kernel keeps its type; no suspension, nesting or
\* semaphore count passes its limit (OSTaskSuspend, OSMutexPend, OSSemPost).
THEOREM TypeCorrect == Spec => []TypeOK
<1>1. Invariant => TypeOK
  <2> SUFFICES ASSUME Invariant PROVE TypeOK
    OBVIOUS
  <2>1. Types(k) /\ Bounds(k) /\ k.cur \in Tasks \cup {Idle}
    BY DEF Invariant, IInv, Kept, Core
  <2>2. MaxRare \in Nat
    BY KernelAssumption
  <2>3. k.rare \in 0..MaxRare
    BY <2>1, <2>2 DEF Types, Bounds
  <2>4. k.suspends \in [Tasks -> 0..MaxRare]
    <3>1. \A t \in Tasks : k.suspends[t] \in 0..MaxRare
      <4> SUFFICES ASSUME NEW t \in Tasks PROVE k.suspends[t] \in 0..MaxRare
        OBVIOUS
      <4>1. k.suspends[t] \in Nat /\ k.suspends[t] <= k.rare
        BY <2>1 DEF Types, Bounds
      <4> QED
        BY <2>2, <2>3, <4>1
    <3> QED
      BY <2>1, <3>1 DEF Types
  <2>5. k.nest \in [Mutexes -> 0..MaxRare + 1]
    <3>1. \A m \in Mutexes : k.nest[m] \in 0..MaxRare + 1
      <4> SUFFICES ASSUME NEW m \in Mutexes PROVE k.nest[m] \in 0..MaxRare + 1
        OBVIOUS
      <4>1. k.nest[m] \in Nat /\ k.nest[m] <= k.rare + 1
        BY <2>1 DEF Types, Bounds
      <4> QED
        BY <2>2, <2>3, <4>1
    <3> QED
      BY <2>1, <3>1 DEF Types
  <2>6. k \in Kernel
    BY <2>1, <2>3, <2>4, <2>5 DEF Types, Shape, Fields, Kernel
  <2> QED
    BY <2>6 DEF TypeOK
<1> QED
  BY <1>1, Invariance, PTL

\* An entry of a list without repetition is in it once.
LEMMA OnceLemma ==
  ASSUME NEW q \in Seq(Tasks), Uniq(q), NEW t, t \in ToSet(q)
  PROVE  Once(q, t)
<1>1. PICK j \in DOMAIN q : q[j] = t
  BY SetFacts
<1>2. {i \in DOMAIN q : q[i] = t} = {j}
  BY <1>1 DEF Uniq
<1> QED
  BY <1>2, FS_Singleton DEF Once

\* The tasks of a tick list.
LEMMA NamesLemma ==
  ASSUME NEW list, NEW due, NEW W, Summing(list, due, W)
  PROVE  /\ Names(list) \in Seq(Tasks) /\ Uniq(Names(list)) /\ ToSet(Names(list)) = W
<1> DEFINE q == Names(list)
<1>1. /\ Len(list) \in Nat /\ DOMAIN list = 1..Len(list)
      /\ \A i \in 1..Len(list) : list[i][1] \in Tasks
  BY LenProperties, ElementOfSeq DEF Summing
<1>2. q = [i \in 1..Len(list) |-> list[i][1]]
  BY <1>1 DEF Names
<1> HIDE DEF q
<1>3. q \in Seq(Tasks) /\ DOMAIN q = 1..Len(list)
  BY <1>1, <1>2, SeqDef
<1>4. Uniq(q)
  BY <1>2, <1>3 DEF Uniq, Summing
<1>5. ToSet(q) = W
  <2>1. ToSet(q) = {q[i] : i \in 1..Len(list)}
    BY <1>3 DEF ToSet
  <2>2. \A i \in 1..Len(list) : q[i] = list[i][1]
    BY <1>2
  <2>3. W = {list[i][1] : i \in 1..Len(list)}
    BY DEF Summing
  <2> QED
    BY <2>1, <2>2, <2>3
<1> QED
  BY <1>3, <1>4, <1>5 DEF q

\* Every task is in exactly the ready, pend and tick lists its state says,
\* once in each, whatever services have interrupted one another's waits
\* (OS_RdyListInsert, OS_PendListInsertPrio, OS_TickListInsert and their
\* removals, each one called from many services).
THEOREM ListsKept == Spec => []ListsAgree
<1>1. Invariant => ListsAgree
  <2> SUFFICES ASSUME Invariant, NEW t \in Tasks
      PROVE /\ \A p \in Prios : IF Ready(k, t) /\ p = k.prio[t]
                                THEN Once(k.rdy[p], t) ELSE t \notin ToSet(k.rdy[p])
            /\ \A o \in Objects : IF k.wait[t] \in {"PEND", "PEND_TIMEOUT"} /\ o = k.pendOn[t]
                                  THEN Once(k.pend[o], t) ELSE t \notin ToSet(k.pend[o])
            /\ IF k.wait[t] = "DLY" THEN Once(Names(k.dlys), t)
               ELSE t \notin ToSet(Names(k.dlys))
            /\ IF k.wait[t] = "PEND_TIMEOUT" THEN Once(Names(k.timeouts), t)
               ELSE t \notin ToSet(Names(k.timeouts))
    BY DEF ListsAgree
  <2>1. /\ Readied(k.rdy, Awake(k) \ {}, k.prio) /\ Pended(k.pend, k.pendOn, k.prio)
        /\ Waiters(k) /\ Ticks(k, {})
    BY DEF Invariant, IInv, Kept, Core
  <2>2. \A p \in Prios : IF Ready(k, t) /\ p = k.prio[t]
                         THEN Once(k.rdy[p], t) ELSE t \notin ToSet(k.rdy[p])
    <3> SUFFICES ASSUME NEW p \in Prios
        PROVE IF Ready(k, t) /\ p = k.prio[t]
              THEN Once(k.rdy[p], t) ELSE t \notin ToSet(k.rdy[p])
      OBVIOUS
    <3>1. /\ k.rdy[p] \in Seq(Tasks) /\ Uniq(k.rdy[p])
          /\ t \in ToSet(k.rdy[p]) <=> Ready(k, t) /\ p = k.prio[t]
      BY <2>1 DEF Readied, Awake
    <3> QED
      BY <3>1, OnceLemma
  <2>3. \A o \in Objects : IF k.wait[t] \in {"PEND", "PEND_TIMEOUT"} /\ o = k.pendOn[t]
                           THEN Once(k.pend[o], t) ELSE t \notin ToSet(k.pend[o])
    <3> SUFFICES ASSUME NEW o \in Objects
        PROVE IF k.wait[t] \in {"PEND", "PEND_TIMEOUT"} /\ o = k.pendOn[t]
              THEN Once(k.pend[o], t) ELSE t \notin ToSet(k.pend[o])
      OBVIOUS
    <3>1. /\ k.pend[o] \in Seq(Tasks) /\ Uniq(k.pend[o])
          /\ t \in ToSet(k.pend[o]) <=> k.pendOn[t] = o
      BY <2>1 DEF Pended
    <3>2. k.pendOn[t] = o => k.wait[t] \in {"PEND", "PEND_TIMEOUT"}
      BY <2>1, KernelAssumption DEF Waiters, Pending, Objects
    <3> QED
      BY <3>1, <3>2, OnceLemma
  <2>4. IF k.wait[t] = "DLY" THEN Once(Names(k.dlys), t)
        ELSE t \notin ToSet(Names(k.dlys))
    <3>1. Summing(k.dlys, k.due, Delayed(k) \ {})
      BY <2>1 DEF Ticks, Ticking
    <3>2. /\ Names(k.dlys) \in Seq(Tasks) /\ Uniq(Names(k.dlys))
          /\ ToSet(Names(k.dlys)) = Delayed(k) \ {}
      BY <3>1, NamesLemma
    <3>3. t \in ToSet(Names(k.dlys)) <=> k.wait[t] = "DLY"
      BY <3>2 DEF Delayed
    <3> QED
      BY <3>2, <3>3, OnceLemma
  <2>5. IF k.wait[t] = "PEND_TIMEOUT" THEN Once(Names(k.timeouts), t)
        ELSE t \notin ToSet(Names(k.timeouts))
    <3>1. Summing(k.timeouts, k.due, Timed(k) \ {})
      BY <2>1 DEF Ticks, Ticking
    <3>2. /\ Names(k.timeouts) \in Seq(Tasks) /\ Uniq(Names(k.timeouts))
          /\ ToSet(Names(k.timeouts)) = Timed(k) \ {}
      BY <3>1, NamesLemma
    <3>3. t \in ToSet(Names(k.timeouts)) <=> k.wait[t] = "PEND_TIMEOUT"
      BY <3>2 DEF Timed
    <3> QED
      BY <3>2, <3>3, OnceLemma
  <2> QED
    BY <2>2, <2>3, <2>4, <2>5
<1> QED
  BY <1>1, Invariance, PTL

\* Nobody waits for a free mutex or a semaphore with a count, whatever mix of
\* posts, OSSemSet, timeouts, aborts and deletions has led there.
THEOREM WakeupsKept == Spec => []NoLostWakeup
<1>1. Invariant => NoLostWakeup
  BY DEF Invariant, IInv, Kept, Core, Owned, Counts, NoLostWakeup
<1> QED
  BY <1>1, Invariance, PTL

\* The deltas of both tick lists add up to what each task still has to wait,
\* though tasks leave from the middle and join anywhere (OS_TickListInsert,
\* OS_TickListRemove, OS_TickListUpdateDly, OS_TickListUpdateTimeout).
THEOREM DelaysKept == Spec => []DelaysExact
<1>1. Invariant => DelaysExact
  <2> SUFFICES ASSUME Invariant, NEW list \in {k.dlys, k.timeouts}, NEW i \in DOMAIN list
      PROVE Total(list, i) = k.due[list[i][1]]
    BY DEF DelaysExact
  <2>1. /\ Summing(k.dlys, k.due, Delayed(k) \ {})
        /\ Summing(k.timeouts, k.due, Timed(k) \ {})
    BY DEF Invariant, IInv, Kept, Ticks, Ticking
  <2>2. PICK W : Summing(list, k.due, W)
    BY <2>1
  <2>3. Len(list) \in Nat /\ i \in 1..Len(list)
    BY <2>2, LenProperties DEF Summing
  <2>4. i \in 0..Len(list) /\ i # 0
    BY <2>3
  <2> QED
    BY <2>2, <2>4, TotalLemma
<1> QED
  BY <1>1, Invariance, PTL

\* The pend lists stay in the order of the priorities, though these change
\* while tasks wait (OS_PendListChangePrio, along the chain of owners).
THEOREM PendsSorted == Spec => []PendSorted
<1>1. Invariant => PendSorted
  BY DEF Invariant, IInv, Kept, Core, Pended, PendSorted
<1> QED
  BY <1>1, Invariance, PTL

\* Who was told that it has a mutex owns it, until a task is deleted while
\* others wait for its mutex (OS_Post, OS_MutexGrpPostAll).
THEOREM HoldersOwn == Spec => []HolderOwns
<1>1. Invariant => HolderOwns
  BY DEF Invariant, IInv, Kept, Hold, HolderOwns
<1> QED
  BY <1>1, Invariance, PTL
=============================================================================
