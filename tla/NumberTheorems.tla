--------------------------- MODULE NumberTheorems ----------------------------
(****************************************************************************)
(* Induction over the natural numbers in the form the proofs of the other   *)
(* modules use it: about the elements of a set, not about a predicate.      *)
(****************************************************************************)
EXTENDS Integers, WellFoundedInduction, TLAPS

\* A set of natural numbers that is not empty has a least element.
LEMMA LeastNumber ==
    ASSUME NEW T, T \subseteq Nat, T # {}
    PROVE  \E m \in T : \A k \in T : m <= k
  <1>1. \E x \in T : \A y \in T : <<y, x>> \notin OpToRel(<, Nat)
    BY NatLessThanWellFounded, WFMin
  <1>2. \A x, y \in Nat : x < y => <<x, y>> \in OpToRel(<, Nat)
    BY DEF OpToRel
  <1>3. \E x \in T : \A y \in T : ~(y < x)
    BY <1>1, <1>2, Zenon
  <1> QED  BY <1>3, SMT

\* A set that has the first of the numbers up to n, and with each of them the next
\* one, has them all.
LEMMA InductionUpTo ==
    ASSUME NEW n \in Nat, NEW S, 0 \in S, \A k \in 0 .. n : k # n /\ k \in S => k + 1 \in S
    PROVE  0 .. n \subseteq S
  <1> DEFINE Missing == {k \in 0 .. n : k \notin S}
  <1> SUFFICES ASSUME Missing # {} PROVE FALSE
    OBVIOUS
  <1>0. Missing \subseteq Nat
    OBVIOUS
  <1> HIDE DEF Missing
  <1>1. PICK m \in Missing : \A k \in Missing : m <= k
    BY <1>0, LeastNumber, Zenon
  <1>2. m # 0 /\ m - 1 \in 0 .. n /\ m - 1 # n /\ m - 1 \notin Missing
    BY <1>1 DEF Missing
  <1> QED  BY <1>1, <1>2 DEF Missing

\* A function that is defined by recursion on the numbers up to n, by applying f again
\* and again, satisfies its definition.
LEMMA Iterated ==
    ASSUME NEW n \in Nat, NEW first, NEW f, NEW up,
           up = CHOOSE g : g = [k \in 0 .. n |-> IF k = 0 THEN first ELSE f[g[k - 1]]]
    PROVE  up = [k \in 0 .. n |-> IF k = 0 THEN first ELSE f[up[k - 1]]]
  <1> DEFINE Rec(h, m) == h = [k \in 0 .. m |-> IF k = 0 THEN first ELSE f[h[k - 1]]]
             S == {m \in 0 .. n : \E h : Rec(h, m)}
  <1>1. 0 \in S
    <2>1. Rec([k \in 0 .. 0 |-> first], 0)
      OBVIOUS
    <2>2. \E h : Rec(h, 0)
      BY <2>1
    <2> HIDE DEF Rec
    <2> QED  BY <2>2
  <1>2. ASSUME NEW m \in 0 .. n, m # n, m \in S PROVE m + 1 \in S
    <2>1. PICK h : Rec(h, m)
      BY <1>2
    <2> DEFINE longer == [k \in 0 .. (m + 1) |-> IF k = m + 1 THEN f[h[m]] ELSE h[k]]
    <2>2. longer = [k \in 0 .. (m + 1) |-> IF k = 0 THEN first ELSE f[longer[k - 1]]]
      <3>1. ASSUME NEW k \in 0 .. (m + 1)
            PROVE  longer[k] = IF k = 0 THEN first ELSE f[longer[k - 1]]
        <4>1. CASE k = m + 1
          <5>1. k # 0 /\ k - 1 = m /\ longer[m] = h[m] /\ longer[k] = f[h[m]]
            BY <4>1
          <5> HIDE DEF longer
          <5> QED  BY <5>1
        <4>2. CASE k # m + 1
          BY <2>1, <4>2
        <4> QED  BY <4>1, <4>2
      <3>2. longer = [k \in 0 .. (m + 1) |-> longer[k]]
        OBVIOUS
      <3> HIDE DEF longer
      <3> QED  BY <3>1, <3>2
    <2>3. m + 1 \in 0 .. n
      BY <1>2
    <2> QED  BY <2>2, <2>3
  <1> HIDE DEF S
  <1>3. 0 .. n \subseteq S
    BY <1>1, <1>2, InductionUpTo
  <1>4. n \in S
    BY <1>3
  <1>5. PICK h : h = [k \in 0 .. n |-> IF k = 0 THEN first ELSE f[h[k - 1]]]
    BY <1>4 DEF S
  <1> QED  BY <1>5

\* The remainder of a division, and that there is only one.
LEMMA Remainder ==
    ASSUME NEW n \in Nat, NEW N \in Nat \ {0}
    PROVE  /\ n \div N \in Int /\ n % N \in 0 .. (N - 1)
           /\ n = N * (n \div N) + (n % N)
  <1>1. n % N \in 0 .. (N - 1)
    BY Z3
  <1>2. n = N * (n \div N) + (n % N)
    BY Z3
  <1> QED  BY <1>1, <1>2, Z3

LEMMA RemainderUnique ==
    ASSUME NEW N \in Nat \ {0}, NEW q \in Int, NEW p \in Int,
           NEW r \in 0 .. (N - 1), NEW s \in 0 .. (N - 1), N * q + r = N * p + s
    PROVE  r = s
  <1>1. N * (q - p) = s - r
    BY Z3
  <1>2. CASE q - p >= 1
    <2>1. N * (q - p) >= N
      BY <1>2, Z3
    <2> QED  BY <1>1, <2>1
  <1>3. CASE q - p <= -1
    <2>1. N * (q - p) <= -N
      BY <1>3, Z3
    <2> QED  BY <1>1, <2>1
  <1>4. CASE q - p = 0
    BY <1>1, <1>4
  <1> QED  BY <1>2, <1>3, <1>4

\* The remainder of the next number is one more, or zero again.
LEMMA NextRemainder ==
    ASSUME NEW n \in Nat, NEW N \in Nat \ {0}
    PROVE  (n + 1) % N = IF (n % N) + 1 = N THEN 0 ELSE (n % N) + 1
  <1> DEFINE q == n \div N
             r == n % N
             p == (n + 1) \div N
             s == (n + 1) % N
  <1>1. /\ q \in Int /\ r \in 0 .. (N - 1) /\ n = N * q + r
    BY Remainder
  <1>2. /\ p \in Int /\ s \in 0 .. (N - 1) /\ n + 1 = N * p + s
    <2> DEFINE m == n + 1
    <2>1. m \in Nat
      OBVIOUS
    <2> HIDE DEF m
    <2>2. m \div N \in Int /\ m % N \in 0 .. (N - 1) /\ m = N * (m \div N) + (m % N)
      BY <2>1, Remainder
    <2> QED  BY <2>2 DEF m
  <1> HIDE DEF q, r, p, s
  <1>3. CASE r + 1 = N
    <2>1. N * (q + 1) + 0 = N * p + s
      BY <1>1, <1>2, <1>3, Z3
    <2>2. s = 0
      BY <1>1, <1>2, <2>1, RemainderUnique
    <2> QED  BY <1>3, <2>2 DEF r, s
  <1>4. CASE r + 1 # N
    <2>1. N * q + (r + 1) = N * p + s /\ r + 1 \in 0 .. (N - 1)
      BY <1>1, <1>2, <1>4, Z3
    <2>2. s = r + 1
      BY <1>1, <1>2, <2>1, RemainderUnique
    <2> QED  BY <1>4, <2>2 DEF r, s
  <1> QED  BY <1>3, <1>4
==============================================================================
