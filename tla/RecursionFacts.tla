--------------------------- MODULE RecursionFacts ---------------------------
(* Recursion and induction up to a number: what the proofs about functions    *)
(* that are defined from their value one step before rest on.                 *)
EXTENDS Integers, WellFoundedInduction, TLAPS

(* A set of numbers has a least one.                                          *)
LEMMA LeastOfNat ==
    ASSUME NEW T \in SUBSET Nat, T # {}
    PROVE  \E x \in T : \A y \in T : x <= y
<1> DEFINE Less == OpToRel(<, Nat)
<1>1. IsWellFoundedOn(Less, Nat)
  BY NatLessThanWellFounded
<1>2. \A x \in T, y \in T : y < x => <<y, x>> \in Less
  BY DEF OpToRel
<1> HIDE DEF Less
<1>3. PICK x \in T : \A y \in T : ~(<<y, x>> \in Less)
  BY <1>1, WFMin
<1>4. \A y \in T : ~(y < x)
  BY <1>2, <1>3
<1> QED  BY <1>4

(* A set that holds 0 and with each number the next holds all of them.        *)
LEMMA UpTo ==
    ASSUME NEW N \in Nat, NEW A, 0 \in A, \A k \in 1..N : k - 1 \in A => k \in A
    PROVE  \A k \in 0..N : k \in A
<1> DEFINE Rest == {k \in 0..N : k \notin A}
<1>1. SUFFICES ASSUME Rest # {} PROVE FALSE
  OBVIOUS
<1>2. Rest \in SUBSET Nat
  OBVIOUS
<1>3. PICK k \in Rest : \A j \in Rest : k <= j
  BY <1>1, <1>2, LeastOfNat
<1>4. k \in 1..N /\ k - 1 \in 0..N
  BY <1>3
<1> QED  BY <1>3, <1>4

(* F is x at 0 and goes on by the steps G.                                    *)
Steps(N, S) == [1..N -> [S -> S]]
Iterates(F, N, S, x, G) == F \in [0..N -> S] /\ F[0] = x /\ \A k \in 1..N : F[k] = G[k][F[k - 1]]

(* A function can be defined from its value one step before.                  *)
LEMMA Recursion ==
    ASSUME NEW S, NEW x \in S, NEW N \in Nat, NEW G \in Steps(N, S)
    PROVE  \E F : Iterates(F, N, S, x, G)
<1> USE DEF Steps
<1> DEFINE IsUpTo(F, n) == F \in [0..n -> S] /\ F[0] = x /\ \A k \in 1..n : F[k] = G[k][F[k - 1]]
           A == {n \in 0..N : \E F : IsUpTo(F, n)}
<1>1. 0 \in A
  <2>1. 1..0 = {} /\ 0 \in 0..0 /\ 0 \in 0..N  OBVIOUS
  <2>2. [k \in 0..0 |-> x] \in [0..0 -> S] /\ [k \in 0..0 |-> x][0] = x  BY <2>1
  <2>3. IsUpTo([k \in 0..0 |-> x], 0)  BY <2>1, <2>2
  <2> HIDE DEF IsUpTo
  <2> QED  BY <2>1, <2>3
<1>2. ASSUME NEW n \in 1..N, n - 1 \in A PROVE n \in A
  <2>1. PICK F : IsUpTo(F, n - 1)  BY <1>2
  <2> DEFINE H == [k \in 0..n |-> IF k = n THEN G[n][F[n - 1]] ELSE F[k]]
  <2>2. n - 1 \in 0..n - 1 /\ F[n - 1] \in S /\ G[n][F[n - 1]] \in S  BY <2>1
  <2>3. \A k \in 0..n : k # n => k \in 0..n - 1  OBVIOUS
  <2>4. H \in [0..n -> S] /\ H[0] = x  BY <2>1, <2>2, <2>3
  <2>5. ASSUME NEW k \in 1..n PROVE H[k] = G[k][H[k - 1]]
    <3>1. k - 1 \in 0..n /\ k - 1 # n /\ H[k - 1] = F[k - 1]  OBVIOUS
    <3>2. CASE k = n  BY <3>1, <3>2
    <3>3. CASE k # n
      <4>1. k \in 1..n - 1  BY <3>3
      <4> QED  BY <2>1, <3>1, <3>3, <4>1
    <3> QED  BY <3>2, <3>3
  <2>6. IsUpTo(H, n)  BY <2>4, <2>5
  <2> HIDE DEF H, IsUpTo
  <2> QED  BY <2>6
<1> HIDE DEF A
<1>3. N \in A
  <2>1. \A k \in 0..N : k \in A  BY <1>1, <1>2, UpTo
  <2> QED  BY <2>1
<1>4. PICK F : IsUpTo(F, N)
  <2> HIDE DEF IsUpTo
  <2> QED  BY <1>3 DEF A
<1> QED  BY <1>4 DEF Iterates
=============================================================================
