------------------------------ MODULE Induction ------------------------------
(***************************************************************************)
(* Induction over the natural numbers stated with sets and functions in    *)
(* place of operators, so that every proof below may use it: the least     *)
(* element of a set, the set that contains 0 and every successor, and the  *)
(* function given by a first value and a step.                             *)
(***************************************************************************)
EXTENDS Integers, WellFoundedInduction, TLAPS

(* A set of natural numbers that is not empty has a least element. *)
LEMMA LeastOf ==
  ASSUME NEW T \in SUBSET Nat, T # {}
  PROVE  \E m \in T : \A n \in T : m <= n
  <1>1. \A x, y \in Nat : y < x => <<y, x>> \in OpToRel(<, Nat)
    BY DEF OpToRel
  <1>2. PICK R : IsWellFoundedOn(R, Nat) /\ \A x, y \in Nat : y < x => <<y, x>> \in R
    BY <1>1, NatLessThanWellFounded, Zenon
  <1>3. PICK x \in T : \A y \in T : ~(<<y, x>> \in R)
    BY <1>2, WFMin
  <1>4. ASSUME NEW n \in T PROVE x <= n
    <2>1. ~(n < x)
      BY <1>2, <1>3
    <2> QED
      BY <2>1
  <1> QED
    BY <1>4

(* A set with 0 in it, and with every number after one in it, up to N.     *)
LEMMA UpTo ==
  ASSUME NEW N \in Nat, NEW Good, 0 \in Good,
         \A n \in 1 .. N : n - 1 \in Good => n \in Good
  PROVE  0 .. N \subseteq Good
  <1> DEFINE bad == {n \in 0 .. N : n \notin Good}
  <1>1. CASE bad = {}
    BY <1>1
  <1>2. CASE bad # {}
    <2>0. bad \in SUBSET Nat
      OBVIOUS
    <2>1. PICK m \in bad : \A n \in bad : m <= n
      <3> HIDE DEF bad
      <3> QED
        BY <1>2, <2>0, LeastOf
    <2>2. m \in 1 .. N /\ m - 1 \in 0 .. N /\ ~(m <= m - 1)
      BY <2>1
    <2>3. m - 1 \in Good
      BY <2>1, <2>2
    <2> QED
      BY <2>1, <2>2, <2>3
  <1> QED
    BY <1>1, <1>2

(* next[n] makes the value at n out of the one before it, inside S.        *)
Steps(next, N, S) == next \in [1 .. N -> [S -> S]]

(* The function up to N that begins with base and goes on by next.         *)
IsStepwise(f, N, S, base, next) ==
  /\ f \in [0 .. N -> S] /\ f[0] = base
  /\ \A n \in 1 .. N : f[n] = next[n][f[n - 1]]

(* There is one. *)
LEMMA StepwiseFunction ==
  ASSUME NEW N \in Nat, NEW S, NEW base \in S, NEW next, Steps(next, N, S)
  PROVE  \E f : IsStepwise(f, N, S, base, next)
  <1> USE DEF Steps
  <1> DEFINE IsPrefix(f, m) == IsStepwise(f, m, S, base, next)
             Good == {m \in 0 .. N : \E f : IsPrefix(f, m)}
  <1>1. 0 \in Good
    <2>1. IsPrefix([n \in 0 .. 0 |-> base], 0)
      BY DEF IsStepwise
    <2>2. \E f : IsPrefix(f, 0)
      <3> HIDE DEF IsPrefix
      <3> QED
        BY <2>1
    <2> QED
      BY <2>2
  <1>2. ASSUME NEW m \in 1 .. N, m - 1 \in Good PROVE m \in Good
    <2>1. PICK f : IsPrefix(f, m - 1)
      BY <1>2
    <2> USE DEF IsStepwise
    <2> DEFINE g == [n \in 0 .. m |-> IF n = m THEN next[m][f[m - 1]] ELSE f[n]]
    <2>2. next[m][f[m - 1]] \in S
      BY <2>1
    <2>3. g \in [0 .. m -> S] /\ g[0] = base
      BY <2>1, <2>2
    <2>4. ASSUME NEW n \in 1 .. m PROVE g[n] = next[n][g[n - 1]]
      <3>1. g[n - 1] = f[n - 1]
        OBVIOUS
      <3>2. CASE n = m
        BY <3>1, <3>2
      <3>3. CASE n # m
        BY <2>1, <3>1, <3>3
      <3> QED
        BY <3>2, <3>3
    <2> HIDE DEF g
    <2> QED
      BY <2>3, <2>4
  <1>3. N \in Good
    <2> HIDE DEF Good
    <2>1. 0 .. N \subseteq Good
      BY <1>1, <1>2, UpTo
    <2> QED
      BY <2>1
  <1> QED
    BY <1>3

=============================================================================
