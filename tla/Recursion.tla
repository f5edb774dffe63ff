----------------------------- MODULE Recursion -----------------------------
(***************************************************************************)
(* Induction and recursion over numbers, stated of sets and functions, so  *)
(* that first-order provers can use them.                                  *)
(***************************************************************************)
EXTENDS Integers, WellFoundedInduction, TLAPS

\* A set of numbers has a least one.
LEMMA LeastNumber ==
  ASSUME NEW S, S \subseteq Nat, S # {}
  PROVE  \E x \in S : \A y \in S : x <= y
<1> DEFINE R == OpToRel(<, Nat)
<1>1. IsWellFoundedOn(R, Nat)
  BY NatLessThanWellFounded
<1>2. \A a, b \in Nat : a < b => <<a, b>> \in R
  BY DEF OpToRel
<1> HIDE DEF R
<1>3. PICK x \in S : \A y \in S : ~ (<<y, x>> \in R)
  BY <1>1, WFMin
<1>4. ASSUME NEW y \in S PROVE x <= y
  <2>1. x \in Nat /\ y \in Nat /\ ~(y < x)
    BY <1>2, <1>3
  <2> QED BY <2>1
<1> QED BY <1>4

\* A set that has 0, and with each number the next one, has all.
LEMMA SetInduction ==
  ASSUME NEW S, 0 \in S, \A n \in Nat : n \in S => n + 1 \in S
  PROVE  \A n \in Nat : n \in S
<1> DEFINE T == {n \in Nat : n \notin S}
<1> SUFFICES ASSUME T # {} PROVE FALSE
  OBVIOUS
<1>1. T \subseteq Nat
  OBVIOUS
<1>2. PICK x \in T : \A y \in T : x <= y
  <2> HIDE DEF T
  <2> QED BY <1>1, LeastNumber
<1>3. x \in Nat /\ x \notin S /\ x # 0
  OBVIOUS
<1>4. x - 1 \in Nat /\ ~(x <= x - 1) /\ x - 1 + 1 = x
  BY <1>3
<1>5. x - 1 \notin T
  BY <1>2, <1>4
<1> QED BY <1>3, <1>4, <1>5

\* The same up to a bound.
LEMMA BoundedInduction ==
  ASSUME NEW m \in Nat, NEW S, 0 \in S, \A n \in 0 .. m - 1 : n \in S => n + 1 \in S
  PROVE  \A n \in 0 .. m : n \in S
<1> DEFINE T == {n \in Nat : n <= m => n \in S}
<1>1. 0 \in T
  OBVIOUS
<1>2. ASSUME NEW n \in Nat, n \in T PROVE n + 1 \in T
  <2>1. CASE n + 1 <= m
    <3>1. n \in 0 .. m - 1 /\ n <= m
      BY <2>1
    <3> QED BY <1>2, <3>1
  <2>2. CASE ~(n + 1 <= m)
    BY <2>2
  <2> QED BY <2>1, <2>2
<1> HIDE DEF T
<1>3. \A n \in Nat : n \in T
  BY <1>1, <1>2, SetInduction
<1> QED BY <1>3 DEF T

\* Steps 1 to n of the iteration stay in A: step k takes x to G[<<k, x>>].
Closed(G, A, n) == \A k \in 1 .. n : \A x \in A : G[<<k, x>>] \in A

\* The function f is the iteration of G from a, as far as n.
Iterated(f, G, A, a, n) ==
  /\ f \in [0 .. n -> A]
  /\ f[0] = a
  /\ \A k \in 1 .. n : f[k] = G[<<k, f[k - 1]>>]

\* An iteration exists for any number of steps.
LEMMA Iterates ==
  ASSUME NEW A, NEW a \in A, NEW n \in Nat, NEW G, Closed(G, A, n)
  PROVE  \E f : Iterated(f, G, A, a, n)
<1> DEFINE S == {m \in Nat : \E f : Iterated(f, G, A, a, m)}
<1>1. 0 \in S
  <2> DEFINE g == [k \in 0 .. 0 |-> a]
  <2>1. g \in [0 .. 0 -> A] /\ g[0] = a
    OBVIOUS
  <2>2. Iterated(g, G, A, a, 0)
    BY <2>1 DEF Iterated
  <2> QED BY <2>2
<1>2. ASSUME NEW m \in 0 .. n - 1, m \in S PROVE m + 1 \in S
  <2>1. PICK f : Iterated(f, G, A, a, m)
    BY <1>2
  <2> DEFINE g == [k \in 0 .. m + 1 |->
                     IF k <= m THEN f[k] ELSE G[<<m + 1, f[m]>>]]
  <2>2. f[m] \in A /\ m + 1 \in 1 .. n
    BY <2>1 DEF Iterated
  <2>3. G[<<m + 1, f[m]>>] \in A
    BY <2>2 DEF Closed
  <2>4. \A k \in 0 .. m : f[k] \in A
    BY <2>1 DEF Iterated
  <2>5. g \in [0 .. m + 1 -> A]
    BY <2>3, <2>4
  <2>6. \A k \in 0 .. m : g[k] = f[k]
    OBVIOUS
  <2>7. g[m + 1] = G[<<m + 1, f[m]>>]
    BY <2>2
  <2> HIDE DEF g
  <2>8. g[0] = a
    BY <2>1, <2>6 DEF Iterated
  <2>9. ASSUME NEW k \in 1 .. m + 1 PROVE g[k] = G[<<k, g[k - 1]>>]
    <3>1. CASE k = m + 1
      <4>1. k - 1 = m /\ m \in 0 .. m
        BY <3>1
      <4>2. g[k - 1] = f[m]
        BY <2>6, <4>1
      <4> QED BY <2>7, <3>1, <4>2
    <3>2. CASE k # m + 1
      <4>1. k \in 1 .. m /\ k \in 0 .. m /\ k - 1 \in 0 .. m
        BY <3>2
      <4>2. g[k] = f[k] /\ g[k - 1] = f[k - 1]
        BY <2>6, <4>1
      <4>3. f[k] = G[<<k, f[k - 1]>>]
        BY <2>1, <4>1 DEF Iterated
      <4> QED BY <4>2, <4>3
    <3> QED BY <3>1, <3>2
  <2>10. Iterated(g, G, A, a, m + 1)
    BY <2>5, <2>8, <2>9 DEF Iterated
  <2> QED BY <2>10
<1> HIDE DEF S
<1>3. \A m \in 0 .. n : m \in S
  BY <1>1, <1>2, BoundedInduction
<1>4. n \in S
  BY <1>3
<1> QED BY <1>4 DEF S
=============================================================================
