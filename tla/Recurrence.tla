----------------------------- MODULE Recurrence -----------------------------
(***************************************************************************)
(* Recursive functions over an initial segment of the naturals: that they  *)
(* have values, and how a property of all their values is proved.  The     *)
(* loops of the code are written as such functions.                        *)
(***************************************************************************)
EXTENDS Naturals, WellFoundedInduction, TLAPS

\* Induction on the naturals.
LEMMA Induction ==
  ASSUME NEW T, 0 \in T, \A n \in Nat : n \in T => n + 1 \in T
  PROVE  \A n \in Nat : n \in T
<1> SUFFICES ASSUME NEW m \in Nat, m \notin T PROVE FALSE
  OBVIOUS
<1> DEFINE U == {n \in Nat : n \notin T}
           R == OpToRel(<, Nat)
<1>1. U \subseteq Nat /\ U # {}
  OBVIOUS
<1>2. \E x \in U : \A y \in U : ~ (<<y, x>> \in R)
  <2> HIDE DEF U, R
  <2>1. IsWellFoundedOn(R, Nat)
    BY NatLessThanWellFounded DEF R
  <2> QED
    BY <1>1, <2>1, WFMin
<1>3. PICK x \in U : \A y \in U : ~ (<<y, x>> \in R)
  BY <1>2
<1>4. x # 0 /\ x - 1 \in Nat
  OBVIOUS
<1>5. x - 1 \in T
  <2>1. <<x - 1, x>> \in R
    BY <1>4 DEF OpToRel
  <2> QED
    BY <1>3, <1>4, <2>1
<1>6. x \in T
  BY <1>4, <1>5
<1> QED
  BY <1>6

\* A recurrence over 1 .. N has a solution.
Advances(next, N, A) == next \in [A \X (1 .. N) -> A]

Solution(g, N, A, base, next) ==
  /\ g \in [0 .. N -> A] /\ g[0] = base
  /\ \A n \in 1 .. N : g[n] = next[<<g[n - 1], n>>]

\* A recursive function over 0 .. N has a value at every argument.
LEMMA Recurrence ==
  ASSUME NEW N \in Nat, NEW A, NEW base \in A, NEW next, Advances(next, N, A)
  PROVE  \E g : Solution(g, N, A, base, next)
<1>0. next \in [A \X (1 .. N) -> A]
  BY DEF Advances
<1> DEFINE Upto(m, g) == /\ g \in [0 .. m -> A] /\ g[0] = base
                         /\ \A n \in 1 .. m : g[n] = next[<<g[n - 1], n>>]
           T == {m \in Nat : m <= N => \E g : Upto(m, g)}
<1>1. 0 \in T
  <2>1. Upto(0, [n \in 0 .. 0 |-> base])
    OBVIOUS
  <2> HIDE DEF Upto
  <2> QED
    BY <2>1
<1>2. ASSUME NEW m \in Nat, m \in T PROVE m + 1 \in T
  <2> SUFFICES ASSUME m + 1 <= N PROVE \E g : Upto(m + 1, g)
    BY <1>2
  <2>1. PICK g : Upto(m, g)
    BY <1>2
  <2> DEFINE h == [n \in 0 .. m + 1 |-> IF n <= m THEN g[n] ELSE next[<<g[m], m + 1>>]]
  <2>2. next[<<g[m], m + 1>>] \in A
    BY <1>0, <2>1
  <2>3. h \in [0 .. m + 1 -> A] /\ h[0] = base
    BY <2>1, <2>2
  <2>4. ASSUME NEW n \in 1 .. m + 1 PROVE h[n] = next[<<h[n - 1], n>>]
    <3>1. CASE n <= m
      BY <2>1, <3>1
    <3>2. CASE n = m + 1
      <4>1. h[m] = g[m] /\ h[m + 1] = next[<<g[m], m + 1>>]
        OBVIOUS
      <4> HIDE DEF h
      <4> QED
        BY <3>2, <4>1
    <3> QED
      BY <3>1, <3>2
  <2>5. Upto(m + 1, h)
    BY <2>3, <2>4
  <2> HIDE DEF Upto, h
  <2> QED
    BY <2>5
<1> HIDE DEF T
<1>3. N \in T
  BY <1>1, <1>2, Induction
<1> QED
  BY <1>3 DEF T, Solution

\* What holds of the first value and is kept from each value to the next holds
\* of all of them.
LEMMA AllValues ==
  ASSUME NEW N \in Nat, NEW A, NEW f, f[0] \in A,
         \A n \in 1 .. N : f[n - 1] \in A => f[n] \in A
  PROVE  \A n \in 0 .. N : f[n] \in A
<1> DEFINE T == {n \in Nat : n <= N => f[n] \in A}
<1>1. 0 \in T
  OBVIOUS
<1>2. ASSUME NEW n \in Nat, n \in T PROVE n + 1 \in T
  <2> SUFFICES ASSUME n + 1 <= N PROVE f[n + 1] \in A
    OBVIOUS
  <2>1. n + 1 \in 1 .. N /\ (n + 1) - 1 = n /\ f[n] \in A
    BY <1>2
  <2> QED
    BY <2>1
<1> HIDE DEF T
<1>3. \A n \in Nat : n \in T
  BY <1>1, <1>2, Induction
<1> QED
  BY <1>3 DEF T

=============================================================================
