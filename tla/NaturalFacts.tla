---------------------------- MODULE NaturalFacts ----------------------------
(***************************************************************************)
(* Facts about the natural numbers that the proofs need: induction, in the *)
(* form of the least-number principle for a set, and the existence of a    *)
(* function defined by recursion, in the form of a function that is        *)
(* iterated; and division with a remainder.                                *)
(***************************************************************************)
EXTENDS Integers, WellFoundedInduction, TLAPS

(* Every non-empty set of naturals has a least element.                    *)
LEMMA LeastNatural ==
    ASSUME NEW T \in SUBSET Nat, T # {}
    PROVE  \E x \in T : \A y \in T : x <= y
<1> DEFINE R == {ss \in Nat \X Nat : ss[1] < ss[2]}
<1>1. IsWellFoundedOn(R, Nat)
  BY NatLessThanWellFounded DEF OpToRel
<1>2. \A a, b \in Nat : a < b => <<a, b>> \in R
  OBVIOUS
<1> HIDE DEF R
<1>3. PICK x \in T : \A y \in T : ~(<<y, x>> \in R)
  BY <1>1, WFMin
<1>4. \A y \in T : x <= y
  <2>1. TAKE y \in T
  <2>2. x \in Nat /\ y \in Nat /\ ~(y < x)
    BY <1>2, <1>3
  <2> QED
    BY <2>2
<1> QED
  BY <1>4

(* Every bounded, non-empty set of naturals has a greatest element.        *)
LEMMA GreatestNatural ==
    ASSUME NEW T \in SUBSET Nat, T # {}, NEW b \in Nat, \A t \in T : t <= b
    PROVE  \E x \in T : \A y \in T : x >= y
<1> DEFINE U == {u \in Nat : \A t \in T : t <= u}
<1>1. PICK u \in U : \A v \in U : u <= v
  <2>1. U \in SUBSET Nat /\ b \in U
    OBVIOUS
  <2> HIDE DEF U
  <2> QED
    BY <2>1, LeastNatural
<1>2. u \in T
  <2>1. SUFFICES ASSUME u \notin T PROVE FALSE
    OBVIOUS
  <2>2. u \in Nat /\ \A t \in T : t \in Nat /\ t <= u /\ t # u
    BY <2>1
  <2>3. PICK s \in T : TRUE
    OBVIOUS
  <2>4. u # 0
    BY <2>2, <2>3
  <2>5. u - 1 \in U
    BY <2>2, <2>4
  <2> QED
    BY <1>1, <2>2, <2>5
<1> QED
  BY <1>2

(* A set that holds 0 and the successor of each of its numbers holds every *)
(* natural number.                                                         *)
LEMMA InductiveSet ==
    ASSUME NEW T, 0 \in T, \A n \in Nat : n \in T => n + 1 \in T
    PROVE  Nat \subseteq T
<1> DEFINE U == {n \in Nat : n \notin T}
<1>1. SUFFICES ASSUME U # {} PROVE FALSE
  OBVIOUS
<1>2. PICK x \in U : \A y \in U : x <= y
  <2>1. U \in SUBSET Nat
    OBVIOUS
  <2> HIDE DEF U
  <2> QED
    BY <1>1, <2>1, LeastNatural
<1>3. x \in Nat /\ x # 0
  OBVIOUS
<1>4. x - 1 \in Nat /\ x - 1 \notin U
  BY <1>2, <1>3
<1>5. x - 1 \in T
  BY <1>4
<1>6. (x - 1) + 1 \in T
  BY <1>4, <1>5
<1>7. (x - 1) + 1 = x
  BY <1>3
<1> QED
  BY <1>6, <1>7

(* g[n] is what n applications of step make of a.                          *)
Iterates(g, S, a, step) ==
    g \in [Nat -> S] /\ g[0] = a /\ \A n \in Nat : g[n + 1] = step[g[n]]

(* A function can be iterated: from a, n times, for every n.               *)
LEMMA Iteration ==
    ASSUME NEW S, NEW a \in S, NEW step \in [S -> S]
    PROVE  \E g : Iterates(g, S, a, step)
<1> DEFINE Part(n) == {h \in [0..n -> S] : h[0] = a /\ \A i \in 0..(n - 1) : h[i + 1] = step[h[i]]}
           T == {n \in Nat : Part(n) # {}}
<1>1. Nat \subseteq T
  <2>1. 0 \in T
    <3>1. [i \in 0..0 |-> a] \in Part(0)
      OBVIOUS
    <3> QED
      BY <3>1
  <2>2. ASSUME NEW n \in Nat, n \in T PROVE n + 1 \in T
    <3>1. PICK h \in Part(n) : TRUE
      BY <2>2
    <3>2. /\ h \in [0..n -> S] /\ h[0] = a
          /\ \A i \in 0..(n - 1) : h[i + 1] = step[h[i]]
      OBVIOUS
    <3> DEFINE k == [i \in 0..(n + 1) |-> IF i = n + 1 THEN step[h[n]] ELSE h[i]]
    <3>3. k \in [0..(n + 1) -> S]
      BY <3>2
    <3>4. k[0] = a
      BY <3>2
    <3>5. ASSUME NEW i \in 0..((n + 1) - 1) PROVE k[i + 1] = step[k[i]]
      <4>1. CASE i = n
        BY <3>2, <4>1
      <4>2. CASE i \in 0..(n - 1)
        <5>1. k[i + 1] = h[i + 1] /\ k[i] = h[i]
          BY <4>2
        <5> QED
          BY <3>2, <4>2, <5>1
      <4> QED
        BY <4>1, <4>2
    <3> HIDE DEF k
    <3>6. k \in Part(n + 1)
      BY <3>3, <3>4, <3>5
    <3> QED
      BY <3>6
  <2> HIDE DEF T
  <2> QED
    BY <2>1, <2>2, InductiveSet
<1> DEFINE H(n) == CHOOSE h \in Part(n) : TRUE
<1>2. ASSUME NEW n \in Nat
      PROVE  /\ H(n) \in [0..n -> S] /\ H(n)[0] = a
             /\ \A i \in 0..(n - 1) : H(n)[i + 1] = step[H(n)[i]]
  <2>1. Part(n) # {}
    BY <1>1
  <2>2. H(n) \in Part(n)
    BY <2>1
  <2> QED
    BY <2>2
<1> HIDE DEF H
<1>3. ASSUME NEW n \in Nat PROVE H(n + 1)[n] = H(n)[n]
  <2> DEFINE U == {i \in Nat : i <= n => H(n + 1)[i] = H(n)[i]}
  <2>1. 0 \in U
    BY <1>2
  <2>2. ASSUME NEW i \in Nat, i \in U PROVE i + 1 \in U
    <3>1. SUFFICES ASSUME i + 1 <= n PROVE H(n + 1)[i + 1] = H(n)[i + 1]
      OBVIOUS
    <3>2. i \in 0..(n - 1) /\ i \in 0..((n + 1) - 1) /\ n + 1 \in Nat
      BY <3>1
    <3>3. H(n + 1)[i] = H(n)[i]
      BY <2>2, <3>1
    <3>4. H(n)[i + 1] = step[H(n)[i]]
      BY <1>2, <3>2
    <3>5. H(n + 1)[i + 1] = step[H(n + 1)[i]]
      BY <1>2, <3>2
    <3> QED
      BY <3>3, <3>4, <3>5
  <2>3. Nat \subseteq U
    <3> HIDE DEF U
    <3> QED
      BY <2>1, <2>2, InductiveSet
  <2>4. n \in U /\ n <= n
    BY <2>3
  <2> QED
    BY <2>4
<1> DEFINE g == [n \in Nat |-> H(n)[n]]
<1>4. g \in [Nat -> S] /\ g[0] = a
  <2>1. \A n \in Nat : H(n)[n] \in S
    BY <1>2
  <2> QED
    BY <1>2, <2>1
<1>5. ASSUME NEW n \in Nat PROVE g[n + 1] = step[g[n]]
  <2>1. n + 1 \in Nat /\ n \in 0..((n + 1) - 1)
    OBVIOUS
  <2>2. H(n + 1)[n + 1] = step[H(n + 1)[n]]
    BY <1>2, <2>1
  <2> QED
    BY <1>3, <2>1, <2>2
<1>6. Iterates(g, S, a, step)
  BY <1>4, <1>5 DEF Iterates
<1> QED
  BY <1>6

(* The quotient and the remainder are what they should be.                 *)
LEMMA Division ==
    ASSUME NEW n \in Nat, NEW u \in Nat \ {0}
    PROVE  /\ n \div u \in Nat /\ n % u \in 0..(u - 1)
           /\ n = u * (n \div u) + (n % u)
  OBVIOUS

(* They are the only ones.                                                 *)
LEMMA DivisionUnique ==
    ASSUME NEW n \in Nat, NEW u \in Nat \ {0}, NEW q \in Nat, NEW r \in 0..(u - 1), n = u * q + r
    PROVE  n \div u = q /\ n % u = r
<1> DEFINE p == n \div u
           s == n % u
<1>1. p \in Nat /\ s \in 0..(u - 1) /\ n = u * p + s
  BY Division
<1> HIDE DEF p, s
<1>2. \A x, y \in Nat : x < y => u * x + u <= u * y
  OBVIOUS
<1>3. ~(p < q) /\ ~(q < p)
  BY <1>1, <1>2
<1>4. p = q
  BY <1>1, <1>3
<1>5. s = r
  BY <1>1, <1>4
<1> QED
  BY <1>4, <1>5 DEF p, s
=============================================================================
