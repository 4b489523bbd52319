-------------------------- MODULE Recursion_proofs --------------------------
(***************************************************************************)
(* Induction over data.  The library states induction with an operator as  *)
(* a parameter, which the installed provers do not instantiate.  Here it   *)
(* is stated with sets and functions, which they do, and rests on the      *)
(* library's theorem that the naturals are well-founded.                   *)
(***************************************************************************)
EXTENDS Integers, Sequences, WellFoundedInduction, TLAPS

\* A set of naturals that has a member has a least one.
LEMMA LeastNatural ==
  ASSUME NEW S \in SUBSET Nat, S # {}
  PROVE  \E m \in S : \A k \in S : m <= k
<1>. DEFINE R == {ss \in Nat \X Nat : ss[1] < ss[2]}
<1>1. IsWellFoundedOn(R, Nat)
  BY NatLessThanWellFounded, Zenon DEF OpToRel
<1>2. \A x, y \in Nat : <<y, x>> \in R <=> y < x
  OBVIOUS
<1>. HIDE DEF R
<1>3. \E x \in S : \A y \in S : ~ (<<y, x>> \in R)
  BY <1>1, WFMin, Zenon
<1>4. PICK x \in S : \A y \in S : ~ (<<y, x>> \in R)
  BY <1>3
<1>5. \A y \in S : ~ (y < x)
  BY <1>2, <1>4
<1>. QED BY <1>5

\* A set of indices that has the first, and the next of each, has them all.
LEMMA Induct ==
  ASSUME NEW n \in Nat, NEW S, 0 \in S,
         \A k \in 1 .. n : k - 1 \in S => k \in S
  PROVE  \A k \in 0 .. n : k \in S
<1>. DEFINE Bad == {k \in 0 .. n : k \notin S}
<1>1. SUFFICES ASSUME Bad # {} PROVE FALSE
  OBVIOUS
<1>2. PICK m \in Bad : \A k \in Bad : m <= k
  <2>1. Bad \in SUBSET Nat
    OBVIOUS
  <2>. HIDE DEF Bad
  <2>. QED BY <1>1, <2>1, LeastNatural
<1>3. m \in 1 .. n /\ m - 1 \notin Bad
  BY <1>2
<1>4. m - 1 \in S
  BY <1>3
<1>. QED BY <1>3, <1>4

\* A function that starts with base and gets each value from the one before.
Iterates(f, base, step, n) ==
  f[0] = base /\ \A k \in 1 .. n : f[k] = step[<<f[k - 1], k>>]

\* There is one.
LEMMA IterationExists ==
  ASSUME NEW n \in Nat, NEW X, NEW base \in X, NEW step \in [X \X (1 .. n) -> X]
  PROVE  \E f \in [0 .. n -> X] : Iterates(f, base, step, n)
<1>. DEFINE S == {k \in 0 .. n : \E f \in [0 .. k -> X] : Iterates(f, base, step, k)}
<1>1. 0 \in S
  <2>1. [i \in 0 .. 0 |-> base] \in [0 .. 0 -> X] /\ Iterates([i \in 0 .. 0 |-> base], base, step, 0)
    BY DEF Iterates
  <2>. QED BY <2>1
<1>2. ASSUME NEW k \in 1 .. n, k - 1 \in S PROVE k \in S
  <2>1. PICK f \in [0 .. k - 1 -> X] : Iterates(f, base, step, k - 1)
    BY <1>2
  <2>. DEFINE g == [i \in 0 .. k |-> IF i = k THEN step[<<f[k - 1], k>>] ELSE f[i]]
  <2>2. g \in [0 .. k -> X]
    OBVIOUS
  <2>3. Iterates(g, base, step, k)
    <3>1. g[0] = base
      BY <2>1 DEF Iterates
    <3>2. ASSUME NEW i \in 1 .. k PROVE g[i] = step[<<g[i - 1], i>>]
      <4>1. CASE i = k
        <5>1. g[i] = step[<<f[k - 1], k>>] /\ g[i - 1] = f[k - 1]
          BY <4>1
        <5>. QED BY <4>1, <5>1
      <4>2. CASE i # k
        BY <2>1, <4>2 DEF Iterates
      <4>. QED BY <4>1, <4>2
    <3>. QED BY <3>1, <3>2 DEF Iterates
  <2>. QED BY <2>2, <2>3
<1>. HIDE DEF S
<1>3. n \in S
  BY <1>1, <1>2, Induct
<1>. QED BY <1>3 DEF S

\* Two with the same base and, up to n, the same steps agree up to n.
Agree(f, g, k) == f[k] = g[k]

LEMMA IterationUnique ==
  ASSUME NEW n \in Nat, NEW f, NEW g, Agree(f, g, 0),
         \A k \in 1 .. n : Agree(f, g, k - 1) => Agree(f, g, k)
  PROVE  \A k \in 0 .. n : Agree(f, g, k)
<1>. DEFINE S == {k \in 0 .. n : Agree(f, g, k)}
<1>1. 0 \in S /\ \A k \in 1 .. n : k - 1 \in S => k \in S
  OBVIOUS
<1>. HIDE DEF S
<1>2. \A k \in 0 .. n : k \in S
  BY <1>1, Induct
<1>. QED BY <1>2 DEF S
=============================================================================
