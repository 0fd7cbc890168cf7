---------------------------- MODULE LeastElement ----------------------------
(***************************************************************************)
(* The least-element principle for sets of naturals, in a form that takes  *)
(* a set and not an operator, and what follows from it for functions that  *)
(* are defined by recursion over the naturals: the proofs consider the     *)
(* first index at which a claim fails.                                     *)
(***************************************************************************)
EXTENDS Integers, WellFoundedInduction, TLAPS

\* The order of the naturals, as a set of pairs, is well founded.
LEMMA NatOrder ==
    \E R : /\ IsWellFoundedOn(R, Nat)
           /\ \A x, y \in Nat : <<y, x>> \in R <=> y < x
<1>1. \A x, y \in Nat : <<y, x>> \in OpToRel(<, Nat) <=> y < x
  BY DEF OpToRel
<1> QED BY <1>1, NatLessThanWellFounded, Zenon

\* A set of naturals that is not empty has a least element.
LEMMA LeastNat ==
    ASSUME NEW T, T \subseteq Nat, T # {}
    PROVE  \E x \in T : \A y \in T : x <= y
<1>1. PICK R : /\ IsWellFoundedOn(R, Nat)
               /\ \A x, y \in Nat : <<y, x>> \in R <=> y < x
  BY NatOrder, Zenon
<1>2. PICK x \in T : \A y \in T : ~(<<y, x>> \in R)
  BY <1>1, WFMin
<1>3. \A y \in T : ~(y < x)
  BY <1>1, <1>2
<1> QED BY <1>2, <1>3

\* What the first value of a recursive function has, and a step keeps, every value has.
LEMMA StaysIn ==
    ASSUME NEW n \in Nat, NEW S, NEW F, F[0] \in S,
           \A i \in 1..n : F[i - 1] \in S => F[i] \in S
    PROVE  \A i \in 0..n : F[i] \in S
<1> DEFINE Out == {i \in 0..n : F[i] \notin S}
<1> SUFFICES ASSUME Out # {} PROVE FALSE
  OBVIOUS
<1>1. PICK m \in Out : \A y \in Out : m <= y
  <2>1. Out \subseteq Nat
    OBVIOUS
  <2> HIDE DEF Out
  <2> QED BY <2>1, LeastNat
<1>2. m \in 1..n /\ m - 1 \in 0..n
  BY <1>1
<1>3. m - 1 \notin Out
  BY <1>1, <1>2
<1> QED BY <1>1, <1>2, <1>3

\* F is the function with the first value init and the values next[i][F[i - 1]].
Iterates(F, init, next, n) == F = [i \in 0..n |-> IF i = 0 THEN init ELSE next[i][F[i - 1]]]

\* There is such a function for every step that stays in a set.
LEMMA IterationExists ==
    ASSUME NEW n \in Nat, NEW S, NEW init \in S, NEW next \in [1..n -> [S -> S]]
    PROVE  \E F \in [0..n -> S] : Iterates(F, init, next, n)
<1> DEFINE Good(m) == \E F \in [0..m -> S] : Iterates(F, init, next, m)
           Bad == {m \in 0..n : ~Good(m)}
<1>1. Good(0)
  <2>1. Iterates([i \in 0..0 |-> init], init, next, 0)
    BY DEF Iterates
  <2>2. [i \in 0..0 |-> init] \in [0..0 -> S]
    OBVIOUS
  <2> QED BY <2>1, <2>2
<1>2. ASSUME NEW m \in Nat, m + 1 \in 0..n, Good(m)
      PROVE  Good(m + 1)
  <2>1. PICK F \in [0..m -> S] : Iterates(F, init, next, m)
    BY <1>2
  <2> DEFINE G == [i \in 0..(m + 1) |-> IF i = m + 1 THEN next[m + 1][F[m]] ELSE F[i]]
  <2>2. next[m + 1][F[m]] \in S
    <3>1. F[m] \in S /\ m + 1 \in 1..n
      BY <1>2, <2>1
    <3> QED BY <3>1
  <2>3. G \in [0..(m + 1) -> S]
    BY <2>1, <2>2
  <2>4. \A i \in 0..m : F[i] = IF i = 0 THEN init ELSE next[i][F[i - 1]]
    BY <2>1 DEF Iterates
  <2>5. \A i \in 0..(m + 1) : G[i] = IF i = 0 THEN init ELSE next[i][G[i - 1]]
    <3> TAKE i \in 0..(m + 1)
    <3>1. CASE i = m + 1
      <4>1. G[i] = next[i][F[m]] /\ G[i - 1] = F[m] /\ i # 0
        BY <3>1
      <4> QED BY <4>1
    <3>2. CASE i = 0
      BY <3>2, <2>4
    <3>3. CASE i \in 1..m
      <4>1. G[i] = F[i] /\ G[i - 1] = F[i - 1] /\ i \in 0..m /\ i # 0
        BY <3>3
      <4> HIDE DEF G
      <4> QED BY <4>1, <2>4
    <3> QED BY <3>1, <3>2, <3>3
  <2>6. Iterates(G, init, next, m + 1)
    BY <2>5 DEF Iterates
  <2> QED BY <2>3, <2>6
<1>3. Bad = {}
  <2> HIDE DEF Good
  <2> SUFFICES ASSUME Bad # {} PROVE FALSE
    OBVIOUS
  <2>1. PICK m \in Bad : \A y \in Bad : m <= y
    <3>1. Bad \subseteq Nat
      OBVIOUS
    <3> HIDE DEF Bad
    <3> QED BY <3>1, LeastNat
  <2>2. m # 0
    BY <1>1, <2>1
  <2>3. m - 1 \in Nat /\ m - 1 \in 0..n /\ m - 1 \notin Bad
    BY <2>1, <2>2
  <2>4. Good(m - 1)
    BY <2>3
  <2>5. Good((m - 1) + 1)
    BY <2>3, <2>4, <1>2
  <2> QED BY <2>1, <2>5
<1> QED BY <1>3

=============================================================================
