------------------------------ MODULE Induction ------------------------------
(***************************************************************************)
(* Induction over the natural numbers, for a set instead of a predicate:   *)
(* a set that holds 0 and the successor of each of its members holds them  *)
(* all.  The proofs about loops and recursive functions rest on it.        *)
(***************************************************************************)
EXTENDS Integers, WellFoundedInduction, TLAPS

(* Every set of naturals that is not empty has a least member. *)
LEMMA LeastNatural ==
  ASSUME NEW T, T \subseteq Nat, T # {}
  PROVE  \E x \in T : \A y \in T : x <= y
<1> DEFINE R == OpToRel(<, Nat)
<1>1. IsWellFoundedOn(R, Nat)
  BY NatLessThanWellFounded
<1>2. PICK x \in T : \A y \in T : <<y, x>> \notin R
  <2> HIDE DEF R
  <2> QED BY <1>1, WFMin
<1>3. ASSUME NEW y \in T, y < x PROVE FALSE
  <2>1. <<y, x>> \in Nat \X Nat
    OBVIOUS
  <2>2. <<y, x>> \in R
    BY <1>3, <2>1 DEF OpToRel
  <2> QED BY <1>2, <2>2
<1>4. \A y \in T : x <= y
  BY <1>3
<1> QED BY <1>4

LEMMA NatSetInduction ==
  ASSUME NEW S, 0 \in S, \A n \in Nat : n \in S => n + 1 \in S
  PROVE  Nat \subseteq S
<1> SUFFICES ASSUME Nat \ S # {} PROVE FALSE
  OBVIOUS
<1>1. PICK x \in Nat \ S : \A y \in Nat \ S : x <= y
  <2>1. Nat \ S \subseteq Nat
    OBVIOUS
  <2> QED BY <2>1, LeastNatural
<1>2. x - 1 \in Nat /\ x - 1 \in S /\ (x - 1) + 1 = x
  BY <1>1
<1> QED BY <1>1, <1>2

(* Induction upwards through an interval. *)
LEMMA IntervalInduction ==
  ASSUME NEW m \in Int, NEW n \in Int, NEW S, m \in S,
         \A i \in m..(n - 1) : i \in S => i + 1 \in S
  PROVE  m..n \subseteq S
<1> DEFINE T == {d \in Nat : m + d <= n => m + d \in S}
<1>1. 0 \in T
  OBVIOUS
<1>2. ASSUME NEW d \in Nat, d \in T PROVE d + 1 \in T
  <2> SUFFICES ASSUME m + (d + 1) <= n PROVE m + (d + 1) \in S
    OBVIOUS
  <2>1. m + d \in S /\ m + d \in m..(n - 1) /\ (m + d) + 1 = m + (d + 1)
    BY <1>2
  <2> QED BY <2>1
<1>3. Nat \subseteq T
  <2> HIDE DEF T
  <2> QED BY <1>1, <1>2, NatSetInduction
<1> SUFFICES ASSUME NEW i \in m..n PROVE i \in S
  OBVIOUS
<1>4. i - m \in Nat /\ m + (i - m) = i
  OBVIOUS
<1> QED BY <1>3, <1>4

(* A bounded set of integers that is not empty has a greatest member. *)
LEMMA GreatestBounded ==
  ASSUME NEW T, T \subseteq Int, T # {}, NEW n \in Int, \A x \in T : x <= n
  PROVE  \E x \in T : \A y \in T : y <= x
<1> DEFINE D == {d \in Nat : n - d \in T}
<1>1. D \subseteq Nat /\ D # {}
  <2>1. PICK x \in T : TRUE
    OBVIOUS
  <2>2. n - x \in Nat /\ n - (n - x) = x
    BY <2>1
  <2> QED BY <2>1, <2>2
<1>2. PICK d \in D : \A e \in D : d <= e
  <2> HIDE DEF D
  <2> QED BY <1>1, LeastNatural
<1>3. ASSUME NEW y \in T PROVE y <= n - d
  <2>1. n - y \in Nat /\ n - (n - y) = y /\ y \in Int
    OBVIOUS
  <2>2. n - y \in D
    BY <2>1
  <2> QED BY <1>2, <2>1, <2>2
<1> QED BY <1>2, <1>3

(* A function on 0..n that is given by its first value and by each value   *)
(* from the one before exists, and stays in the set its steps stay in.     *)
Unfolds(g, n, base, step) ==
  g[0] = base /\ \A m \in 1..n : g[m] = step[<<m, g[m - 1]>>]

LEMMA Recursion ==
  ASSUME NEW n \in Nat, NEW A, NEW base \in A, NEW step \in [(1..n) \X A -> A]
  PROVE  \E g \in [0..n -> A] : Unfolds(g, n, base, step)
<1> DEFINE S == {m \in Nat : m <= n => \E g \in [0..m -> A] : Unfolds(g, m, base, step)}
<1>1. 0 \in S
  <2> DEFINE g == [k \in 0..0 |-> base]
  <2>1. g \in [0..0 -> A] /\ Unfolds(g, 0, base, step)
    BY DEF Unfolds
  <2> QED BY <2>1
<1>2. ASSUME NEW m \in S PROVE m + 1 \in S
  <2> SUFFICES ASSUME m + 1 <= n
               PROVE  \E g \in [0..m + 1 -> A] : Unfolds(g, m + 1, base, step)
    OBVIOUS
  <2>1. m \in Nat /\ m <= n
    OBVIOUS
  <2>2. PICK g \in [0..m -> A] : Unfolds(g, m, base, step)
    BY <2>1
  <2> DEFINE x == step[<<m + 1, g[m]>>]
             h == [k \in 0..m + 1 |-> IF k = m + 1 THEN x ELSE g[k]]
  <2>3. x \in A
    <3>1. <<m + 1, g[m]>> \in (1..n) \X A
      BY <2>1, <2>2
    <3> QED BY <3>1
  <2> HIDE DEF x
  <2>4. h \in [0..m + 1 -> A]
    BY <2>1, <2>2, <2>3
  <2>5. h[0] = base /\ \A k \in 0..m : h[k] = g[k]
    BY <2>1, <2>2 DEF Unfolds
  <2>6. h[m + 1] = x
    BY <2>1
  <2> HIDE DEF h
  <2>7. ASSUME NEW k \in 1..m + 1 PROVE h[k] = step[<<k, h[k - 1]>>]
    <3>1. CASE k = m + 1
      <4>1. h[k - 1] = g[m]
        BY <2>1, <2>5, <3>1
      <4> QED BY <2>6, <3>1, <4>1 DEF x
    <3>2. CASE k \in 1..m
      <4>1. h[k] = g[k] /\ h[k - 1] = g[k - 1]
        BY <2>1, <2>5, <3>2
      <4> QED BY <2>2, <3>2, <4>1 DEF Unfolds
    <3> QED BY <2>1, <3>1, <3>2
  <2> QED BY <2>4, <2>5, <2>7 DEF Unfolds
<1>3. n \in S
  <2> HIDE DEF S
  <2>1. \A m \in Nat : m \in S => m + 1 \in S
    BY <1>2
  <2> QED BY <1>1, <2>1, NatSetInduction
<1> QED BY <1>3

UnfoldsIn(f, n, A, base, step) ==
  f[0] = base /\ \A m \in 1..n : f[m - 1] \in A => f[m] = step[<<m, f[m - 1]>>]

LEMMA RecursionTyped ==
  ASSUME NEW n \in Nat, NEW A, NEW base \in A, NEW step \in [(1..n) \X A -> A],
         NEW f, UnfoldsIn(f, n, A, base, step)
  PROVE  \A m \in 0..n : f[m] \in A
<1> USE DEF UnfoldsIn
<1> DEFINE S == {m \in 0..n : f[m] \in A}
<1>1. 0 \in S
  OBVIOUS
<1>2. ASSUME NEW m \in 0..(n - 1), m \in S PROVE m + 1 \in S
  <2>1. m + 1 \in 1..n /\ (m + 1) - 1 = m /\ f[m] \in A
    BY <1>2
  <2>2. f[m + 1] = step[<<m + 1, f[m]>>]
    BY <2>1
  <2>3. <<m + 1, f[m]>> \in (1..n) \X A
    BY <2>1
  <2>4. f[m + 1] \in A
    BY <2>2, <2>3
  <2> QED BY <2>1, <2>4
<1>3. 0..n \subseteq S
  <2> HIDE DEF S
  <2> QED BY <1>1, <1>2, IntervalInduction
<1> QED BY <1>3

=============================================================================
