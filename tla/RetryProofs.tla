----------------------------- MODULE RetryProofs ----------------------------
(***************************************************************************)
(* Proofs about the schedules and Retry, for every width and precision of  *)
(* the numbers, every base, maximum and factor, any number of callers and  *)
(* any StopFunc.                                                           *)
(***************************************************************************)
EXTENDS Retry, NaturalFacts, TLAPS

----------------------------------------------------------------------------
(* Powers of two *)

(* Pow2 is the function its definition describes.                          *)
LEMMA PowRecursion ==
    /\ Pow2 \in [Nat -> Nat \ {0}] /\ Pow2[0] = 1
    /\ \A n \in Nat : Pow2[n + 1] = 2 * Pow2[n]
<1> DEFINE N1 == Nat \ {0}
           double == [x \in N1 |-> 2 * x]
<1>1. double \in [N1 -> N1] /\ 1 \in N1
  OBVIOUS
<1>2. PICK g : Iterates(g, N1, 1, double)
  <2> HIDE DEF N1, double
  <2> QED
    BY <1>1, Iteration
<1>3. g \in [Nat -> N1] /\ g[0] = 1 /\ \A n \in Nat : g[n + 1] = 2 * g[n]
  BY <1>2 DEF Iterates
<1>4. g = [n \in Nat |-> IF n = 0 THEN 1 ELSE 2 * g[n - 1]]
  <2>1. ASSUME NEW n \in Nat PROVE g[n] = IF n = 0 THEN 1 ELSE 2 * g[n - 1]
    <3>1. CASE n = 0
      BY <1>3, <3>1
    <3>2. CASE n # 0
      <4>1. n - 1 \in Nat /\ (n - 1) + 1 = n
        BY <3>2
      <4>2. g[(n - 1) + 1] = 2 * g[n - 1]
        BY <1>3, <4>1
      <4> QED
        BY <3>2, <4>1, <4>2
    <3> QED
      BY <3>1, <3>2
  <2> QED
    BY <1>3, <2>1
<1>5. Pow2 = [n \in Nat |-> IF n = 0 THEN 1 ELSE 2 * Pow2[n - 1]]
  BY <1>4 DEF Pow2
<1>6. ASSUME NEW n \in Nat PROVE Pow2[n + 1] = 2 * Pow2[n]
  <2>1. n + 1 \in Nat /\ n + 1 # 0 /\ (n + 1) - 1 = n
    OBVIOUS
  <2> QED
    BY <1>5, <2>1
<1>7. Pow2[0] = 1
  BY <1>5
<1>8. Pow2 \in [Nat -> Nat \ {0}]
  <2> DEFINE T == {n \in Nat : Pow2[n] \in Nat \ {0}}
  <2>1. 0 \in T
    BY <1>7
  <2>2. ASSUME NEW n \in Nat, n \in T PROVE n + 1 \in T
    BY <1>6, <2>2
  <2>3. Nat \subseteq T
    <3> HIDE DEF T
    <3> QED
      BY <2>1, <2>2, InductiveSet
  <2>4. \A n \in Nat : Pow2[n] \in Nat \ {0}
    BY <2>3
  <2> QED
    BY <1>5, <2>4
<1> QED
  BY <1>6, <1>7, <1>8

(* The power of a sum is the product of the powers.                        *)
LEMMA PowSum == \A k, n \in Nat : Pow2[k + n] = Pow2[k] * Pow2[n]
<1> SUFFICES ASSUME NEW k \in Nat PROVE \A n \in Nat : Pow2[k + n] = Pow2[k] * Pow2[n]
  OBVIOUS
<1> DEFINE T == {n \in Nat : Pow2[k + n] = Pow2[k] * Pow2[n]}
<1>1. 0 \in T
  BY PowRecursion
<1>2. ASSUME NEW n \in Nat, n \in T PROVE n + 1 \in T
  <2>1. k + (n + 1) = (k + n) + 1 /\ k + n \in Nat
    OBVIOUS
  <2>2. Pow2[k + (n + 1)] = 2 * Pow2[k + n] /\ Pow2[n + 1] = 2 * Pow2[n]
    BY <2>1, PowRecursion
  <2>3. Pow2[k] \in Nat /\ Pow2[n] \in Nat /\ Pow2[k + n] = Pow2[k] * Pow2[n]
    BY <1>2, PowRecursion
  <2>4. 2 * (Pow2[k] * Pow2[n]) = Pow2[k] * (2 * Pow2[n])
    BY <2>3
  <2> QED
    BY <2>2, <2>3, <2>4
<1>3. Nat \subseteq T
  <2> HIDE DEF T
  <2> QED
    BY <1>1, <1>2, InductiveSet
<1> QED
  BY <1>3

(* Powers grow with the exponent, and faster than it.                      *)
LEMMA PowMonotone == \A k, n \in Nat : k <= n => Pow2[k] <= Pow2[n]
<1> SUFFICES ASSUME NEW k \in Nat, NEW n \in Nat, k <= n PROVE Pow2[k] <= Pow2[n]
  OBVIOUS
<1>1. n - k \in Nat /\ k + (n - k) = n
  OBVIOUS
<1>2. Pow2[n] = Pow2[k] * Pow2[n - k]
  BY <1>1, PowSum
<1>3. Pow2[k] \in Nat \ {0} /\ Pow2[n - k] \in Nat \ {0}
  BY <1>1, PowRecursion
<1>4. \A x, y \in Nat \ {0} : x <= x * y
  OBVIOUS
<1> QED
  BY <1>2, <1>3, <1>4

(* A power of two is above its exponent, so that there is one above any n. *)
LEMMA PowExceeds == \A n \in Nat : n < Pow2[n]
<1> DEFINE T == {n \in Nat : n < Pow2[n]}
<1>1. 0 \in T
  BY PowRecursion
<1>2. ASSUME NEW n \in Nat, n \in T PROVE n + 1 \in T
  BY <1>2, PowRecursion
<1>3. Nat \subseteq T
  <2> HIDE DEF T
  <2> QED
    BY <1>1, <1>2, InductiveSet
<1> QED
  BY <1>3

----------------------------------------------------------------------------
(* Rounding *)

(* Rounding gives one of the two multiples of u around n, and n itself if  *)
(* that is one.                                                            *)
LEMMA RoundedNear ==
    ASSUME NEW n \in Nat, NEW u \in Nat \ {0}
    PROVE  /\ Rounded(n, u) \in {u * (n \div u), u * ((n \div u) + 1)}
           /\ n % u = 0 => Rounded(n, u) = n
<1> DEFINE q == n \div u
           r == n % u
<1>1. q \in Nat /\ r \in 0..(u - 1) /\ n = u * q + r
  BY Division
<1>2. Rounded(n, u) = u * (IF 2 * r < u \/ (2 * r = u /\ q % 2 = 0) THEN q ELSE q + 1)
  BY DEF Rounded
<1> HIDE DEF q, r
<1>3. r = 0 => Rounded(n, u) = n
  BY <1>1, <1>2
<1>4. Rounded(n, u) \in {u * q, u * (q + 1)}
  BY <1>2
<1> QED
  BY <1>3, <1>4 DEF q, r

(* Rounding to one unit keeps the order.                                   *)
LEMMA RoundedMonotone ==
    ASSUME NEW a \in Nat, NEW b \in Nat, a <= b, NEW u \in Nat \ {0}
    PROVE  Rounded(a, u) <= Rounded(b, u)
<1> DEFINE q == a \div u
           r == a % u
           p == b \div u
           s == b % u
<1>1. q \in Nat /\ r \in 0..(u - 1) /\ a = u * q + r
  BY Division
<1>2. p \in Nat /\ s \in 0..(u - 1) /\ b = u * p + s
  BY Division
<1>3. Rounded(a, u) = u * (IF 2 * r < u \/ (2 * r = u /\ q % 2 = 0) THEN q ELSE q + 1)
  BY DEF Rounded
<1>4. Rounded(b, u) = u * (IF 2 * s < u \/ (2 * s = u /\ p % 2 = 0) THEN p ELSE p + 1)
  BY DEF Rounded
<1> HIDE DEF q, r, p, s
<1>5. \A x, y \in Nat : x <= y => u * x <= u * y
  OBVIOUS
<1>6. \A x, y \in Nat : x < y => u * x + u <= u * y
  OBVIOUS
<1>7. ~(p < q)
  BY <1>1, <1>2, <1>6
<1>8. CASE q = p
  <2>1. r <= s
    BY <1>1, <1>2, <1>8
  <2>2. \/ Rounded(a, u) = u * q
        \/ Rounded(b, u) = u * (q + 1) /\ Rounded(a, u) = u * (q + 1)
    BY <1>1, <1>2, <1>3, <1>4, <1>8, <2>1
  <2>3. Rounded(b, u) \in {u * q, u * (q + 1)}
    BY <1>4, <1>8
  <2>4. u * q <= u * (q + 1) /\ u * q \in Nat /\ u * (q + 1) \in Nat
    BY <1>1
  <2> QED
    BY <2>2, <2>3, <2>4
<1>9. CASE q < p
  <2>1. q + 1 <= p /\ q + 1 \in Nat /\ p + 1 \in Nat
    BY <1>1, <1>2, <1>9
  <2>2. Rounded(a, u) \in {u * q, u * (q + 1)} /\ Rounded(b, u) \in {u * p, u * (p + 1)}
    BY <1>3, <1>4
  <2>3. u * q <= u * (q + 1) /\ u * (q + 1) <= u * p /\ u * p <= u * (p + 1)
    BY <1>1, <1>2, <1>5, <2>1
  <2>4. u * q \in Nat /\ u * (q + 1) \in Nat /\ u * p \in Nat /\ u * (p + 1) \in Nat
    BY <1>1, <1>2
  <2> QED
    BY <2>2, <2>3, <2>4
<1> QED
  BY <1>1, <1>2, <1>7, <1>8, <1>9

(* Rounding does not depend on the scale.                                  *)
LEMMA RoundedScaled ==
    ASSUME NEW n \in Nat, NEW u \in Nat \ {0}, NEW f \in Nat \ {0}
    PROVE  Rounded(n * f, u * f) = f * Rounded(n, u)
<1> DEFINE q == n \div u
           r == n % u
<1>1. q \in Nat /\ r \in 0..(u - 1) /\ n = u * q + r
  BY Division
<1>2. Rounded(n, u) = u * (IF 2 * r < u \/ (2 * r = u /\ q % 2 = 0) THEN q ELSE q + 1)
  BY DEF Rounded
<1> HIDE DEF q, r
<1>3. n * f \in Nat /\ u * f \in Nat \ {0} /\ n * f = (u * f) * q + r * f /\ r * f \in Nat
  BY <1>1
<1>4. \A x, y \in Nat : x < y => x * f < y * f
  OBVIOUS
<1>5. r * f \in 0..(u * f - 1)
  BY <1>1, <1>3, <1>4
<1>6. (n * f) \div (u * f) = q /\ (n * f) % (u * f) = r * f
  <2> DEFINE nf == n * f
             uf == u * f
             rf == r * f
  <2>1. nf \in Nat /\ uf \in Nat \ {0} /\ rf \in 0..(uf - 1) /\ nf = uf * q + rf
    BY <1>3, <1>5
  <2>2. nf \div uf = q /\ nf % uf = rf
    <3> HIDE DEF nf, uf, rf
    <3> QED
      BY <1>1, <2>1, DivisionUnique
  <2> QED
    BY <2>2
<1>7. Rounded(n * f, u * f) =
        (u * f) * (IF 2 * (r * f) < u * f \/ (2 * (r * f) = u * f /\ q % 2 = 0) THEN q ELSE q + 1)
  BY <1>6 DEF Rounded
<1>8. (2 * (r * f) < u * f <=> 2 * r < u) /\ (2 * (r * f) = u * f <=> 2 * r = u)
  <2>1. 2 * (r * f) = (2 * r) * f /\ 2 * r \in Nat /\ u \in Nat
    BY <1>1
  <2>2. \A x, y \in Nat : (x * f < y * f <=> x < y) /\ (x * f = y * f <=> x = y)
    OBVIOUS
  <2> QED
    BY <2>1, <2>2
<1>9. \A x \in Nat : (u * f) * x = f * (u * x)
  OBVIOUS
<1>10. q + 1 \in Nat
  BY <1>1
<1> QED
  BY <1>1, <1>2, <1>7, <1>8, <1>9, <1>10

----------------------------------------------------------------------------
(* The float64 nearest to a number *)

(* There is an exponent with which the significand fits, and no other.     *)
LEMMA ExponentFacts ==
    ASSUME NEW n \in Nat
    PROVE  /\ Exponent(n) \in Nat /\ n < Pow2[Precision + Exponent(n)]
           /\ Exponent(n) = 0 \/ n >= Pow2[Precision + Exponent(n) - 1]
<1>0. Precision \in Nat \ {0}
  BY ScheduleAssumption
<1> DEFINE T == {i \in Nat : n < Pow2[Precision + i]}
<1>1. n \in T
  <2>1. n < Pow2[n] /\ Pow2[n] <= Pow2[Precision + n]
    BY <1>0, PowExceeds, PowMonotone
  <2>2. Pow2[n] \in Nat /\ Pow2[Precision + n] \in Nat
    BY <1>0, PowRecursion
  <2> QED
    BY <2>1, <2>2
<1>2. PICK x \in T : \A y \in T : x <= y
  <2>1. T \in SUBSET Nat
    OBVIOUS
  <2> HIDE DEF T
  <2> QED
    BY <1>1, <2>1, LeastNatural
<1>3. x \in 0..n /\ n < Pow2[Precision + x]
  BY <1>1, <1>2
<1>4. x = 0 \/ n >= Pow2[Precision + x - 1]
  <2>1. SUFFICES ASSUME x # 0 PROVE n >= Pow2[Precision + x - 1]
    OBVIOUS
  <2>2. x - 1 \in Nat /\ x - 1 \notin T
    BY <1>2, <2>1
  <2>3. ~(n < Pow2[Precision + (x - 1)])
    BY <2>2
  <2>4. Precision + (x - 1) = Precision + x - 1 /\ Pow2[Precision + (x - 1)] \in Nat
    BY <1>0, <2>2, PowRecursion
  <2> QED
    BY <2>3, <2>4
<1> QED
  BY <1>3, <1>4 DEF Exponent

(* The exponent of a number is the one that its size calls for.            *)
LEMMA ExponentUnique ==
    ASSUME NEW n \in Nat, NEW i \in Nat, n < Pow2[Precision + i],
           i = 0 \/ n >= Pow2[Precision + i - 1]
    PROVE  Exponent(n) = i
<1> DEFINE e == Exponent(n)
<1>0. Precision \in Nat \ {0}
  BY ScheduleAssumption
<1>1. e \in Nat /\ n < Pow2[Precision + e] /\ (e = 0 \/ n >= Pow2[Precision + e - 1])
  BY ExponentFacts
<1> HIDE DEF e
<1>2. ASSUME NEW x \in Nat, NEW y \in Nat, n < Pow2[Precision + x],
             y = 0 \/ n >= Pow2[Precision + y - 1]
      PROVE  ~(x < y)
  <2>1. SUFFICES ASSUME x < y PROVE FALSE
    OBVIOUS
  <2>2. Precision + x \in Nat /\ Precision + y - 1 \in Nat /\ Precision + x <= Precision + y - 1
    BY <1>0, <2>1
  <2>3. Pow2[Precision + x] <= Pow2[Precision + y - 1]
    BY <2>2, PowMonotone
  <2>4. Pow2[Precision + x] \in Nat /\ Pow2[Precision + y - 1] \in Nat
    BY <2>2, PowRecursion
  <2> QED
    BY <1>2, <2>1, <2>3, <2>4
<1>3. ~(e < i) /\ ~(i < e)
  BY <1>1, <1>2
<1> QED
  BY <1>1, <1>3 DEF e

(* A float64 is a multiple of its unit, with a significand that fits.      *)
LEMMA FloatShape ==
    ASSUME NEW n \in Nat
    PROVE  \E k \in 0..Pow2[Precision] :
             /\ Float(n) = Pow2[Exponent(n)] * k
             /\ Exponent(n) = 0 => Float(n) = n
             /\ Exponent(n) # 0 => k >= Pow2[Precision - 1]
<1> DEFINE e == Exponent(n)
           u == Pow2[e]
           q == n \div u
           r == n % u
<1>0. Precision \in Nat \ {0}
  BY ScheduleAssumption
<1>1. e \in Nat /\ n < Pow2[Precision + e] /\ (e = 0 \/ n >= Pow2[Precision + e - 1])
  BY ExponentFacts
<1>2. u \in Nat \ {0} /\ Pow2[Precision] \in Nat /\ Pow2[Precision - 1] \in Nat
  BY <1>0, <1>1, PowRecursion
<1>3. Pow2[Precision + e] = u * Pow2[Precision]
  <2>1. Precision + e = e + Precision
    BY <1>0, <1>1
  <2> QED
    BY <1>0, <1>1, <2>1, PowSum
<1>4. q \in Nat /\ r \in 0..(u - 1) /\ n = u * q + r
  <2> HIDE DEF u
  <2> QED
    BY <1>2, Division
<1>5. Float(n) \in {u * q, u * (q + 1)} /\ (r = 0 => Float(n) = n)
  <2>1. Float(n) = Rounded(n, u)
    BY DEF Float
  <2> HIDE DEF u
  <2> QED
    BY <1>2, <2>1, RoundedNear
<1>6. e = 0 => Float(n) = n
  <2>1. e = 0 => u = 1
    BY PowRecursion
  <2> HIDE DEF u, e, q, r
  <2> QED
    BY <1>2, <1>4, <1>5, <2>1
<1>7. e # 0 => n >= u * Pow2[Precision - 1]
  <2>1. SUFFICES ASSUME e # 0 PROVE n >= u * Pow2[Precision - 1]
    OBVIOUS
  <2>2. Precision - 1 \in Nat /\ (Precision - 1) + e = Precision + e - 1
    BY <1>0, <1>1
  <2>3. Pow2[(Precision - 1) + e] = Pow2[Precision - 1] * u
    BY <1>1, <2>2, PowSum
  <2>4. Pow2[Precision - 1] * u = u * Pow2[Precision - 1]
    BY <1>2
  <2> QED
    BY <1>1, <2>1, <2>2, <2>3, <2>4
<1> HIDE DEF u, e, q, r
<1>8. q < Pow2[Precision]
  <2>1. u * q < u * Pow2[Precision]
    BY <1>1, <1>2, <1>3, <1>4
  <2>2. \A x, y \in Nat : u * x < u * y => x < y
    BY <1>2
  <2> QED
    BY <1>2, <1>4, <2>1, <2>2
<1>9. e # 0 => q >= Pow2[Precision - 1]
  <2>1. \A x, y \in Nat : x < y => u * x + u <= u * y
    BY <1>2
  <2> QED
    BY <1>2, <1>4, <1>7, <2>1
<1>10. PICK k \in {q, q + 1} : Float(n) = u * k
  BY <1>5
<1>11. k \in 0..Pow2[Precision] /\ (e # 0 => k >= Pow2[Precision - 1])
  BY <1>2, <1>4, <1>8, <1>9, <1>10
<1> QED
  BY <1>6, <1>10, <1>11 DEF u, e

(* A number that is a float64 already is left alone.                       *)
LEMMA FloatExact ==
    ASSUME NEW s \in Nat, NEW k \in 0..Pow2[Precision]
    PROVE  Float(Pow2[s] * k) = Pow2[s] * k
<1> DEFINE n == Pow2[s] * k
           e == Exponent(n)
<1>0. Precision \in Nat \ {0} /\ Pow2[s] \in Nat \ {0} /\ Pow2[Precision] \in Nat
  BY ScheduleAssumption, PowRecursion
<1>1. n \in Nat
  BY <1>0
<1> HIDE DEF n
<1>2. e \in Nat /\ n < Pow2[Precision + e] /\ (e = 0 \/ n >= Pow2[Precision + e - 1])
  BY <1>1, ExponentFacts
<1> HIDE DEF e
<1>3. Pow2[e] \in Nat \ {0}
  BY <1>2, PowRecursion
<1>4. \E j \in Nat : n = Pow2[e] * j
  <2>1. CASE e <= s
    <3>1. s - e \in Nat /\ e + (s - e) = s
      BY <1>2, <2>1
    <3>2. Pow2[s] = Pow2[e] * Pow2[s - e] /\ Pow2[s - e] \in Nat
      BY <1>2, <3>1, PowSum, PowRecursion
    <3>3. Pow2[s - e] * k \in Nat /\ (Pow2[e] * Pow2[s - e]) * k = Pow2[e] * (Pow2[s - e] * k)
      BY <1>0, <1>3, <3>2
    <3> QED
      BY <3>2, <3>3 DEF n
  <2>2. CASE e > s
    <3>1. Precision + e - 1 \in Nat /\ Precision - 1 \in Nat /\ e + (Precision - 1) = Precision + e - 1
          /\ s + Precision <= Precision + e - 1 /\ s + Precision \in Nat
      BY <1>0, <1>2, <2>2
    <3>2. Pow2[s + Precision] <= Pow2[Precision + e - 1] /\ Pow2[s + Precision] = Pow2[s] * Pow2[Precision]
      BY <1>0, <3>1, PowMonotone, PowSum
    <3>3. \A x \in 0..Pow2[Precision] : Pow2[s] * x <= Pow2[s] * Pow2[Precision]
      BY <1>0
    <3>4. n <= Pow2[s] * Pow2[Precision]
      BY <3>3 DEF n
    <3>5. n >= Pow2[Precision + e - 1] /\ Pow2[Precision + e - 1] \in Nat /\ Pow2[s + Precision] \in Nat
      BY <1>2, <2>2, <3>1, PowRecursion
    <3>6. n = Pow2[Precision + e - 1]
      BY <1>1, <3>2, <3>4, <3>5
    <3>7. Pow2[Precision + e - 1] = Pow2[e] * Pow2[Precision - 1] /\ Pow2[Precision - 1] \in Nat
      BY <1>2, <3>1, PowSum, PowRecursion
    <3> QED
      BY <3>6, <3>7
  <2> QED
    BY <1>2, <2>1, <2>2
<1>5. n % Pow2[e] = 0
  <2>1. PICK j \in Nat : n = Pow2[e] * j
    BY <1>4
  <2>2. n = Pow2[e] * j + 0 /\ 0 \in 0..(Pow2[e] - 1)
    BY <1>3, <2>1
  <2> QED
    BY <1>1, <1>3, <2>2, DivisionUnique
<1>6. Float(n) = n
  BY <1>1, <1>3, <1>5, RoundedNear DEF Float, e
<1> QED
  BY <1>6 DEF n

(* A float64 is a natural number, and its own float64.                     *)
LEMMA FloatIdempotent ==
    ASSUME NEW n \in Nat
    PROVE  Float(n) \in Nat /\ Float(Float(n)) = Float(n)
<1>1. PICK k \in 0..Pow2[Precision] : Float(n) = Pow2[Exponent(n)] * k
  BY FloatShape
<1>2. Exponent(n) \in Nat
  BY ExponentFacts
<1>3. Pow2[Exponent(n)] \in Nat /\ k \in Nat
  BY <1>2, PowRecursion, ScheduleAssumption
<1>4. Pow2[Exponent(n)] * k \in Nat
  BY <1>3
<1> QED
  BY <1>1, <1>2, <1>4, FloatExact

(* Rounding to a float64 keeps the order, whatever the units.              *)
LEMMA FloatMonotone ==
    ASSUME NEW a \in Nat, NEW b \in Nat, a <= b
    PROVE  Float(a) <= Float(b)
<1> DEFINE e == Exponent(a)
           f == Exponent(b)
<1>0. Precision \in Nat \ {0}
  BY ScheduleAssumption
<1>1. /\ e \in Nat /\ a < Pow2[Precision + e] /\ (e = 0 \/ a >= Pow2[Precision + e - 1])
      /\ f \in Nat /\ b < Pow2[Precision + f] /\ (f = 0 \/ b >= Pow2[Precision + f - 1])
  BY ExponentFacts
<1>2. PICK j \in 0..Pow2[Precision] : Float(a) = Pow2[e] * j
  BY FloatShape
<1>3. PICK k \in 0..Pow2[Precision] :
        Float(b) = Pow2[f] * k /\ (f # 0 => k >= Pow2[Precision - 1])
  BY FloatShape
<1>4. CASE e = f
  <2>1. Float(a) = Rounded(a, Pow2[e]) /\ Float(b) = Rounded(b, Pow2[e])
    BY <1>4 DEF Float
  <2>2. Pow2[e] \in Nat \ {0}
    BY <1>1, PowRecursion
  <2> QED
    BY <2>1, <2>2, RoundedMonotone
<1> HIDE DEF e, f
<1>5. Pow2[e] \in Nat \ {0} /\ Pow2[f] \in Nat \ {0} /\ Pow2[Precision] \in Nat \ {0}
  BY <1>0, <1>1, PowRecursion
<1>6. CASE e < f
  <2>1. /\ Precision - 1 \in Nat /\ f + (Precision - 1) \in Nat /\ e + Precision \in Nat
        /\ e + Precision <= f + (Precision - 1)
    BY <1>0, <1>1, <1>6
  <2>2. /\ Pow2[e + Precision] <= Pow2[f + (Precision - 1)]
        /\ Pow2[e + Precision] = Pow2[e] * Pow2[Precision]
        /\ Pow2[f + (Precision - 1)] = Pow2[f] * Pow2[Precision - 1]
        /\ Pow2[Precision - 1] \in Nat
    BY <1>0, <1>1, <2>1, PowMonotone, PowSum, PowRecursion
  <2>3. \A x, y, z \in Nat : x <= y => z * x <= z * y /\ z * x \in Nat /\ z * y \in Nat
    OBVIOUS
  <2>4. Pow2[e] * j <= Pow2[e] * Pow2[Precision] /\ Pow2[e] * j \in Nat
        /\ Pow2[e] * Pow2[Precision] \in Nat
    BY <1>2, <1>5, <2>3
  <2>5. Pow2[f] * Pow2[Precision - 1] <= Pow2[f] * k /\ Pow2[f] * k \in Nat
        /\ Pow2[f] * Pow2[Precision - 1] \in Nat
    BY <1>1, <1>3, <1>5, <1>6, <2>2, <2>3
  <2> QED
    BY <1>2, <1>3, <2>2, <2>4, <2>5
<1>7. CASE f < e
  <2>1. Precision + f \in Nat /\ Precision + e - 1 \in Nat /\ Precision + f <= Precision + e - 1
    BY <1>0, <1>1, <1>7
  <2>2. Pow2[Precision + f] <= Pow2[Precision + e - 1]
    BY <2>1, PowMonotone
  <2>3. Pow2[Precision + f] \in Nat /\ Pow2[Precision + e - 1] \in Nat
    BY <2>1, PowRecursion
  <2> QED
    BY <1>1, <1>7, <2>2, <2>3
<1> QED
  BY <1>1, <1>4, <1>6, <1>7

(* A product with a power of two rounds as the number does.                *)
LEMMA FloatScaled ==
    ASSUME NEW n \in Nat, NEW f \in Nat
    PROVE  Float(n * Pow2[f]) = Float(n) * Pow2[f]
<1> DEFINE e == Exponent(n)
           F == Pow2[f]
<1>0. Precision \in Nat \ {0} /\ F \in Nat \ {0}
  BY ScheduleAssumption, PowRecursion
<1>1. e \in Nat /\ n < Pow2[Precision + e] /\ (e = 0 \/ n >= Pow2[Precision + e - 1])
  BY ExponentFacts
<1>2. CASE e = 0
  <2>1. Float(n) = n
    BY <1>2, FloatShape
  <2>2. n \in 0..Pow2[Precision]
    <3>1. Precision + e = Precision /\ Pow2[Precision] \in Nat
      BY <1>0, <1>2, PowRecursion
    <3> QED
      BY <1>1, <3>1
  <2>3. Float(F * n) = F * n
    BY <2>2, FloatExact
  <2>4. F * n = n * F
    BY <1>0
  <2> QED
    BY <2>1, <2>3, <2>4
<1>3. CASE e # 0
  <2>1. /\ Precision + (e + f) = (Precision + e) + f /\ Precision + e \in Nat
        /\ Precision + (e + f) - 1 = (Precision + e - 1) + f /\ Precision + e - 1 \in Nat
        /\ e + f \in Nat
    BY <1>0, <1>1
  <2>2. /\ Pow2[Precision + (e + f)] = Pow2[Precision + e] * F
        /\ Pow2[Precision + (e + f) - 1] = Pow2[Precision + e - 1] * F
        /\ Pow2[e + f] = Pow2[e] * F
    BY <1>1, <2>1, PowSum
  <2>3. Pow2[Precision + e] \in Nat /\ Pow2[Precision + e - 1] \in Nat /\ Pow2[e] \in Nat \ {0}
    BY <1>1, <2>1, PowRecursion
  <2>4. n * F < Pow2[Precision + e] * F /\ n * F >= Pow2[Precision + e - 1] * F /\ n * F \in Nat
    <3>1. \A x, y \in Nat : (x < y => x * F < y * F) /\ (x >= y => x * F >= y * F)
      BY <1>0
    <3>2. n >= Pow2[Precision + e - 1]
      BY <1>1, <1>3
    <3>3. n * F \in Nat
      BY <1>0
    <3> HIDE DEF e, F
    <3> QED
      BY <1>1, <2>3, <3>1, <3>2, <3>3
  <2>5. Exponent(n * F) = e + f
    <3> DEFINE nf == n * F
               ef == e + f
    <3>1. nf \in Nat /\ ef \in Nat /\ nf < Pow2[Precision + ef] /\ nf >= Pow2[Precision + ef - 1]
      BY <2>1, <2>2, <2>4
    <3>2. Exponent(nf) = ef
      <4> HIDE DEF nf, ef
      <4> QED
        BY <3>1, ExponentUnique
    <3> QED
      BY <3>2
  <2>6. Float(n * F) = Rounded(n * F, Pow2[e] * F)
    BY <2>2, <2>5 DEF Float
  <2>7. Rounded(n * F, Pow2[e] * F) = F * Rounded(n, Pow2[e])
    BY <1>0, <2>3, RoundedScaled
  <2>8. Rounded(n, Pow2[e]) = Float(n) /\ Float(n) \in Nat
    BY FloatIdempotent DEF Float
  <2>9. F * Float(n) = Float(n) * F
    BY <1>0, <2>8
  <2> QED
    BY <2>6, <2>7, <2>8, <2>9
<1> QED
  BY <1>2, <1>3

----------------------------------------------------------------------------
(* The schedules *)

(* What the constructors accept, without the powers of two.                *)
LEMMA ScheduleFacts ==
    /\ MaxInt \in Nat /\ Base \in Nat \ {0} /\ MaxDelay \in Nat /\ Base <= MaxDelay /\ MaxDelay <= MaxInt
    /\ Lo \in Nat /\ Hi \in Nat /\ Lo <= Hi /\ Hi <= MaxInt /\ Fixed \in Nat
    /\ FactorNum \in Nat /\ FactorExp \in Nat
    /\ Pow2[FactorExp] \in Nat \ {0} /\ FactorNum >= Pow2[FactorExp]
<1>1. Width \in Nat /\ Pow2[Width] \in Nat \ {0} /\ FactorExp \in Nat /\ Pow2[FactorExp] \in Nat \ {0}
  BY ScheduleAssumption, PowRecursion
<1>2. MaxInt \in Nat
  BY <1>1 DEF MaxInt
<1> QED
  BY <1>1, <1>2, ScheduleAssumption

(* "An out-of-range float-to-int conversion is implementation-defined":    *)
(* Exponential.Next makes none.  A product below the float64 of the        *)
(* maximum is below the maximum itself, since it is a float64, although    *)
(* that float64 may exceed the maximum; and no delay is below the one      *)
(* before it as a float64.                                                 *)
THEOREM GrowInRange ==
    ASSUME NEW d \in 1..MaxDelay
    PROVE  /\ Grow(d) \in 1..MaxDelay
           /\ Grow(d) >= Float(d) \/ Grow(d) = MaxDelay
<1> DEFINE F == Pow2[FactorExp]
           x == Float(d)
           y == x * FactorNum
           next == Float(y)
<1>0. /\ MaxDelay \in Nat /\ MaxDelay <= MaxInt /\ MaxInt \in Nat /\ FactorNum \in Nat
      /\ FactorExp \in Nat /\ F \in Nat \ {0} /\ FactorNum >= F /\ d \in Nat /\ d >= 1
  BY ScheduleFacts
<1>1. x \in Nat /\ Float(x) = x
  BY <1>0, FloatIdempotent
<1>2. x >= 1
  <2>1. Float(1) = 1
    <3>1. 0 \in Nat /\ 1 \in 0..Pow2[Precision] /\ Pow2[0] = 1
      BY PowRecursion, ScheduleAssumption
    <3>2. Float(Pow2[0] * 1) = Pow2[0] * 1
      BY <3>1, FloatExact
    <3> QED
      BY <3>1, <3>2
  <2>2. Float(1) <= Float(d)
    BY <1>0, FloatMonotone
  <2> QED
    BY <1>1, <2>1, <2>2
<1>3. y \in Nat /\ x * F \in Nat /\ x * F <= y
  <2> HIDE DEF x, F
  <2> QED
    BY <1>0, <1>1
<1>4. next \in Nat /\ Float(next) = next
  <2> HIDE DEF y
  <2> QED
    BY <1>3, FloatIdempotent
<1>5. x * F <= next
  <2>1. Float(x * F) = x * F
    <3>1. Float(x * F) = Float(x) * F
      <4> HIDE DEF x
      <4> QED
        BY <1>0, <1>1, FloatScaled
    <3> QED
      BY <1>1, <3>1
  <2>2. Float(x * F) <= Float(y)
    <3> DEFINE xf == x * F
    <3>1. xf \in Nat /\ xf <= y
      BY <1>3
    <3>2. Float(xf) <= Float(y)
      <4> HIDE DEF xf, y
      <4> QED
        BY <1>3, <3>1, FloatMonotone
    <3> QED
      BY <3>2
  <2> QED
    BY <2>1, <2>2
<1>6. CASE next < Float(MaxDelay) * F
  <2>1. next < MaxDelay * F
    <3>1. SUFFICES ASSUME ~(next < MaxDelay * F) PROVE FALSE
      OBVIOUS
    <3>2. MaxDelay * F \in Nat /\ MaxDelay * F <= next
      <4> HIDE DEF next, F
      <4> QED
        BY <1>0, <1>4, <3>1
    <3>3. Float(MaxDelay * F) <= Float(next)
      <4> DEFINE mf == MaxDelay * F
      <4>1. mf \in Nat /\ mf <= next
        BY <3>2
      <4>2. Float(mf) <= Float(next)
        <5> HIDE DEF mf, next
        <5> QED
          BY <1>4, <4>1, FloatMonotone
      <4> QED
        BY <4>2
    <3>4. Float(MaxDelay * F) = Float(MaxDelay) * F
      BY <1>0, FloatScaled
    <3>5. Float(MaxDelay) \in Nat
      BY <1>0, FloatIdempotent
    <3>6. Float(MaxDelay) * F \in Nat
      <4> HIDE DEF F
      <4> QED
        BY <1>0, <3>5
    <3>7. Float(MaxDelay) * F <= next
      BY <1>4, <3>3, <3>4
    <3> HIDE DEF next, F
    <3> QED
      BY <1>4, <1>6, <3>6, <3>7
  <2>2. Grow(d) = ToDuration(next, F)
    BY <1>6 DEF Grow
  <2>3. next \div F \in Nat /\ x <= next \div F /\ next \div F < MaxDelay
    <3> HIDE DEF next, F, x
    <3>1. next \div F \in Nat /\ next % F \in 0..(F - 1) /\ next = F * (next \div F) + (next % F)
      BY <1>0, <1>4, Division
    <3>2. \A a, b \in Nat : a < b => F * a + F <= b * F
      BY <1>0
    <3>3. ~(next \div F < x)
      BY <1>0, <1>1, <1>4, <1>5, <3>1, <3>2
    <3>4. ~(MaxDelay < next \div F)
      BY <1>0, <1>4, <2>1, <3>1, <3>2
    <3>5. MaxDelay # next \div F
      BY <1>0, <1>4, <2>1, <3>1
    <3> QED
      BY <1>0, <1>1, <3>1, <3>3, <3>4, <3>5
  <2>4. Grow(d) = next \div F
    BY <1>0, <2>2, <2>3 DEF ToDuration
  <2> HIDE DEF next, F
  <2> QED
    BY <1>0, <1>1, <1>2, <2>3, <2>4
<1>7. CASE ~(next < Float(MaxDelay) * F)
  <2>1. Grow(d) = MaxDelay
    BY <1>7 DEF Grow
  <2> QED
    BY <1>0, <2>1
<1> QED
  BY <1>6, <1>7

(* A delay that DelayInRange allows, and that the next one is, too.        *)
InRange(d) == d \in 1..MaxDelay /\ (d >= Base \/ d >= Float(Base))

(* Next keeps a delay in range, although it is at times below Base.        *)
LEMMA GrowKeepsRange == ASSUME NEW d, InRange(d) PROVE InRange(Grow(d))
<1>0. /\ d \in 1..MaxDelay /\ d \in Nat /\ Base \in Nat /\ MaxDelay \in Nat /\ Base <= MaxDelay
      /\ d >= Base \/ d >= Float(Base)
  BY ScheduleFacts DEF InRange
<1>1. Grow(d) \in 1..MaxDelay /\ (Grow(d) >= Float(d) \/ Grow(d) = MaxDelay)
  BY <1>0, GrowInRange
<1>2. Float(d) \in Nat /\ Float(Base) \in Nat /\ Float(Float(Base)) = Float(Base)
  BY <1>0, FloatIdempotent
<1>3. Float(d) >= Float(Base)
  <2>1. CASE d >= Base
    BY <1>0, <1>2, <2>1, FloatMonotone
  <2>2. CASE d >= Float(Base)
    <3>1. Float(Float(Base)) <= Float(d)
      BY <1>0, <1>2, <2>2, FloatMonotone
    <3> QED
      BY <1>2, <3>1
  <2> QED
    BY <1>0, <2>1, <2>2
<1> QED
  BY <1>0, <1>1, <1>2, <1>3 DEF InRange

(* The first delay is in range.                                            *)
LEMMA BaseInRange == InRange(Base)
  BY ScheduleFacts DEF InRange

(* The delays since a reset are those of the definition of Delay, and all  *)
(* of them are in range.                                                   *)
LEMMA DelayRecursion ==
    /\ Delay[1] = Base
    /\ \A n \in Nat \ {0} : Delay[n + 1] = Grow(Delay[n]) /\ InRange(Delay[n])
<1> DEFINE S == {d \in 1..MaxDelay : InRange(d)}
           step == [d \in S |-> Grow(d)]
<1>1. step \in [S -> S] /\ Base \in S
  <2>1. \A d \in S : Grow(d) \in S
    BY GrowKeepsRange DEF InRange
  <2>2. Base \in S
    BY BaseInRange DEF InRange
  <2> QED
    BY <2>1, <2>2
<1>2. PICK g : Iterates(g, S, Base, step)
  <2> HIDE DEF S, step
  <2> QED
    BY <1>1, Iteration
<1>3. g \in [Nat -> S] /\ g[0] = Base /\ \A n \in Nat : g[n + 1] = Grow(g[n])
  <2>1. g \in [Nat -> S] /\ g[0] = Base /\ \A n \in Nat : g[n + 1] = step[g[n]]
    BY <1>2 DEF Iterates
  <2>2. \A n \in Nat : g[n] \in S
    BY <2>1
  <2> QED
    BY <2>1, <2>2
<1> DEFINE h == [n \in Nat |-> IF n <= 1 THEN Base ELSE g[n - 1]]
<1>4. h = [n \in Nat |-> IF n <= 1 THEN Base ELSE Grow(h[n - 1])]
  <2>1. ASSUME NEW n \in Nat, ~(n <= 1) PROVE g[n - 1] = Grow(h[n - 1])
    <3>1. n - 1 \in Nat /\ n - 2 \in Nat /\ (n - 2) + 1 = n - 1 /\ (n - 1) - 1 = n - 2
      BY <2>1
    <3>2. g[n - 1] = Grow(g[n - 2])
      BY <1>3, <3>1
    <3>3. h[n - 1] = g[n - 2]
      <4>1. CASE n - 1 <= 1
        <5>1. n = 2
          BY <2>1, <4>1
        <5> QED
          BY <1>3, <5>1
      <4>2. CASE ~(n - 1 <= 1)
        BY <3>1, <4>2
      <4> QED
        BY <4>1, <4>2
    <3> QED
      BY <3>2, <3>3
  <2>2. \A n \in Nat : h[n] = IF n <= 1 THEN Base ELSE Grow(h[n - 1])
    BY <2>1
  <2>3. h = [n \in Nat |-> h[n]]
    OBVIOUS
  <2> HIDE DEF h
  <2> QED
    BY <2>2, <2>3
<1>5. Delay = [n \in Nat |-> IF n <= 1 THEN Base ELSE Grow(Delay[n - 1])]
  <2> HIDE DEF h
  <2> QED
    BY <1>4 DEF Delay
<1>6. Delay[1] = Base
  BY <1>5
<1>7. ASSUME NEW n \in Nat \ {0} PROVE Delay[n + 1] = Grow(Delay[n])
  <2>1. n + 1 \in Nat /\ ~(n + 1 <= 1) /\ (n + 1) - 1 = n
    OBVIOUS
  <2>2. Delay[n + 1] = IF n + 1 <= 1 THEN Base ELSE Grow(Delay[(n + 1) - 1])
    BY <1>5, <2>1
  <2> QED
    BY <2>1, <2>2
<1>8. \A n \in Nat \ {0} : InRange(Delay[n])
  <2> DEFINE T == {n \in Nat : InRange(Delay[n + 1])}
  <2>1. 0 \in T
    BY <1>6, BaseInRange
  <2>2. ASSUME NEW n \in Nat, n \in T PROVE n + 1 \in T
    <3>1. n + 1 \in Nat \ {0}
      OBVIOUS
    <3>2. Delay[(n + 1) + 1] = Grow(Delay[n + 1])
      BY <1>7, <3>1
    <3> QED
      BY <2>2, <3>2, GrowKeepsRange
  <2>3. Nat \subseteq T
    <3> HIDE DEF T
    <3> QED
      BY <2>1, <2>2, InductiveSet
  <2>4. ASSUME NEW n \in Nat \ {0} PROVE InRange(Delay[n])
    <3>1. n - 1 \in Nat /\ (n - 1) + 1 = n
      OBVIOUS
    <3>2. InRange(Delay[(n - 1) + 1])
      BY <2>3, <3>1
    <3> QED
      BY <3>1, <3>2
  <2> QED
    BY <2>4
<1> QED
  BY <1>6, <1>7, <1>8

(* Uniform.Next draws from Lo to Hi, although the length of the range is   *)
(* computed in a uint64.                                                   *)
LEMMA DrawnInRange == Drawn \subseteq Lo..Hi /\ Drawn \subseteq Nat
<1>1. /\ Lo \in Nat /\ Hi \in Nat /\ Lo <= Hi /\ Hi <= MaxInt
  BY ScheduleFacts
<1>2. Width \in Nat /\ Pow2[Width] \in Nat \ {0} /\ Pow2[Width + 1] = 2 * Pow2[Width]
  BY ScheduleAssumption, PowRecursion
<1> DEFINE w == Pow2[Width + 1]
           len == Hi - Lo + 1
<1>3. len \in Nat /\ len \in 0..(w - 1) /\ w \in Nat \ {0}
  BY <1>1, <1>2 DEF MaxInt
<1>4. len % w = len
  <2> HIDE DEF len, w
  <2>1. len = w * 0 + len /\ 0 \in Nat
    BY <1>3
  <2> QED
    BY <1>3, <2>1, DivisionUnique
<1>5. Drawn = {Lo + n : n \in 0..(len - 1)}
  BY <1>4 DEF Drawn
<1> QED
  BY <1>1, <1>5

----------------------------------------------------------------------------
(* Retry *)

(* The invariant: between two attempts the last one failed and was let     *)
(* pass by the StopFunc, and the next one starts when its delay is over.   *)
FlowInv ==
    \A c \in Callers :
        /\ start[c] <= now
        /\ pc[c] = "fn" => tried[c] = attempt[c] - 1
        /\ pc[c] \in {"next", "sleep"} =>
             /\ tried[c] = attempt[c]
             /\ err[c] # "nil" /\ ~Stop(LastPoint(c))
             /\ start[c] + elapsed[c] <= now

(* A Do that no other overlaps finds the schedule as it left it.           *)
AloneInv ==
    \A c \in alone :
        /\ \A d \in Callers \ {c} : pc[d] = "idle"
        /\ schedule = "exponential" =>
             /\ pc[c] \in {"fn", "next"} => current = Delay[attempt[c]]
             /\ pc[c] = "sleep" => wait[c] = Delay[attempt[c]] /\ current = Delay[attempt[c] + 1]

IInv == TypeOK /\ DelayInRange /\ FlowInv /\ OutcomeIsJust /\ RetryIsDue /\ AloneInv

(* Types and the range of the delays.                                      *)
LEMMA TypeStep == ASSUME IInv, [Next]_vars PROVE TypeOK' /\ DelayInRange'
<1>0. TypeOK /\ FlowInv /\ InRange(current) /\ Drawn \subseteq Lo..Hi
  BY DEF IInv, DelayInRange, InRange
<1>1. InRange(current')
  <2>1. CASE \E c \in Callers : Do(c)
    BY <1>0, <2>1, BaseInRange DEF Do, Reset
  <2>2. CASE \E c \in Callers : Backoff(c)
    BY <1>0, <2>2, GrowKeepsRange DEF Backoff, NextReturns
  <2>3. CASE UNCHANGED current
    BY <1>0, <2>3
  <2> QED
    BY <2>1, <2>2, <2>3 DEF Next, Step, Fn, Advance, CtxEnds, Succeed, Halt, Fail, Attempted, Wake,
       Retried, Cut, vars
<1>2. DelayInRange' /\ current' \in Nat \ {0}
  BY <1>0, <1>1, ScheduleFacts DEF DelayInRange, InRange, Drawn
<1>3. MaxAttempt \in Nat \ {0} /\ MaxCalls \in Nat
  BY RetryAssumption
<1> USE DEF TypeOK, tryVars
<1>4. CASE Advance
  BY <1>0, <1>2, <1>4 DEF Advance
<1>5. ASSUME NEW c \in Callers, Do(c) PROVE TypeOK'
  BY <1>0, <1>2, <1>3, <1>5 DEF Do, Goto
<1>6. ASSUME NEW c \in Callers, CtxEnds(c) \/ Wake(c) \/ Cut(c) PROVE TypeOK'
  BY <1>0, <1>2, <1>3, <1>6 DEF CtxEnds, Wake, Retried, Cut, Returns, Goto
<1>7. ASSUME NEW c \in Callers, NEW e \in Errors \cup {"nil"}, Attempted(c, e),
             Returns(c, e) \/ (Goto(c, "next") /\ UNCHANGED ret)
      PROVE  TypeOK'
  <2>1. now - start[c] \in Nat
    BY <1>0 DEF FlowInv
  <2> QED
    BY <1>0, <1>2, <1>7, <2>1 DEF Attempted, Returns, Goto
<1>8. ASSUME NEW c \in Callers, Fn(c) PROVE TypeOK'
  BY <1>7, <1>8 DEF Fn, Succeed, Halt, Fail
<1>9. ASSUME NEW c \in Callers, Backoff(c) PROVE TypeOK'
  <2>1. PICK d \in Delays : wait' = [wait EXCEPT ![c] = d]
    BY <1>9 DEF Backoff
  <2>2. d \in Nat
    BY <1>0, DrawnInRange, ScheduleFacts DEF Delays
  <2> QED
    BY <1>0, <1>2, <1>9, <2>1, <2>2 DEF Backoff, Goto
<1>10. CASE UNCHANGED vars
  BY <1>0, <1>2, <1>10 DEF vars
<1> HIDE DEF TypeOK, tryVars
<1>11. TypeOK'
  BY <1>4, <1>5, <1>6, <1>8, <1>9, <1>10 DEF Next, Step
<1> QED
  BY <1>2, <1>11

(* What the return of an attempt does.                                     *)
LEMMA AttemptFacts ==
    ASSUME TypeOK, FlowInv, NEW c \in Callers, NEW e \in Errors \cup {"nil"}, Attempted(c, e)
    PROVE  /\ pc[c] = "fn" /\ err'[c] = e /\ tried'[c] = attempt[c] /\ tried'[c] > 0
           /\ elapsed'[c] = now - start[c] /\ start[c] + elapsed'[c] <= now
           /\ wait'[c] = 0 /\ LastPoint(c)' = Point(c, e)
           /\ \A d \in Callers \ {c} :
                err'[d] = err[d] /\ tried'[d] = tried[d] /\ elapsed'[d] = elapsed[d] /\ wait'[d] = wait[d]
           /\ UNCHANGED <<now, start, attempt, ctxDone>>
<1>1. /\ pc[c] = "fn" /\ err'[c] = e /\ tried'[c] = tried[c] + 1
      /\ elapsed'[c] = now - start[c] /\ wait'[c] = 0
      /\ \A d \in Callers \ {c} :
           err'[d] = err[d] /\ tried'[d] = tried[d] /\ elapsed'[d] = elapsed[d] /\ wait'[d] = wait[d]
      /\ UNCHANGED <<now, start, attempt, ctxDone>>
  BY DEF Attempted, TypeOK
<1>2. tried[c] = attempt[c] - 1 /\ start[c] <= now
  BY <1>1 DEF FlowInv
<1>3. tried[c] \in Nat /\ attempt[c] \in Nat /\ now \in Nat /\ start[c] \in Nat
  BY RetryAssumption DEF TypeOK
<1>4. tried'[c] = attempt[c] /\ tried'[c] > 0 /\ start[c] + elapsed'[c] <= now
  BY <1>1, <1>2, <1>3
<1> QED
  BY <1>1, <1>4 DEF LastPoint, Point

(* A caller that takes no step keeps what its Do has come to, as long as   *)
(* the clock does not run back.                                            *)
Calm(c) ==
    /\ pc'[c] = pc[c] /\ start'[c] = start[c] /\ attempt'[c] = attempt[c] /\ err'[c] = err[c]
    /\ elapsed'[c] = elapsed[c] /\ wait'[c] = wait[c] /\ ret'[c] = ret[c] /\ tried'[c] = tried[c]
    /\ c \in ctxDone => c \in ctxDone'

Moves(c) == (Do(c) \/ Step(c)) /\ now' = now /\ \A d \in Callers \ {c} : Calm(d)

(* A step is that of one call, of the clock or of a context.               *)
LEMMA OthersCalm ==
    ASSUME TypeOK, [Next]_vars
    PROVE  /\ now' \in {now, now + 1}
           /\ \/ \E c \in Callers : Moves(c)
              \/ \A d \in Callers : Calm(d)
<1> USE DEF TypeOK, tryVars, Calm
<1>1. CASE Advance
  BY <1>1 DEF Advance
<1>2. ASSUME NEW c \in Callers, CtxEnds(c) PROVE \A d \in Callers : Calm(d) /\ now' = now
  BY <1>2 DEF CtxEnds
<1>3. ASSUME NEW c \in Callers, Do(c) \/ Backoff(c) \/ Wake(c) \/ Cut(c)
      PROVE  now' = now /\ \A d \in Callers \ {c} : Calm(d)
  BY <1>3 DEF Do, Backoff, Wake, Retried, Cut, Returns, Goto
<1>4. ASSUME NEW c \in Callers, Fn(c) PROVE now' = now /\ \A d \in Callers \ {c} : Calm(d)
  <2>1. PICK e : Attempted(c, e) /\ (Returns(c, e) \/ (Goto(c, "next") /\ UNCHANGED ret))
    BY <1>4 DEF Fn, Succeed, Halt, Fail
  <2> QED
    BY <2>1 DEF Attempted, Returns, Goto
<1>5. CASE UNCHANGED vars
  BY <1>5 DEF vars
<1>6. ASSUME NEW c \in Callers, Do(c) \/ Step(c) PROVE Moves(c)
  BY <1>3, <1>4, <1>6 DEF Moves, Step
<1> HIDE DEF TypeOK, tryVars, Calm
<1> QED
  BY <1>1, <1>2, <1>5, <1>6 DEF Next, Moves

(* The control of one Do.                                                  *)
Flow(c) ==
    /\ start[c] <= now
    /\ pc[c] = "fn" => tried[c] = attempt[c] - 1
    /\ pc[c] \in {"next", "sleep"} =>
         /\ tried[c] = attempt[c]
         /\ err[c] # "nil" /\ ~Stop(LastPoint(c))
         /\ start[c] + elapsed[c] <= now

Outcome(c) ==
    pc[c] = "idle" /\ tried[c] > 0 =>
        \/ ret[c] = "nil" /\ err[c] = "nil"
        \/ ret[c] = err[c] /\ Stop(LastPoint(c))
        \/ ret[c] = "ctx" /\ c \in ctxDone /\ err[c] # "nil"

Retrying(c) ==
    pc[c] = "fn" /\ tried[c] > 0 =>
        err[c] # "nil" /\ ~Stop(LastPoint(c)) /\ now >= Due(c)

(* What is known at each control state of a call stays known.              *)
LEMMA ControlStep == ASSUME IInv, [Next]_vars PROVE FlowInv' /\ OutcomeIsJust' /\ RetryIsDue'
<1>0. TypeOK /\ FlowInv /\ \A c \in Callers : Flow(c) /\ Outcome(c) /\ Retrying(c)
  BY DEF IInv, FlowInv, Flow, OutcomeIsJust, Outcome, RetryIsDue, Retrying
<1>1. ASSUME NEW c \in Callers
      PROVE  /\ now \in Nat /\ start[c] \in Nat /\ elapsed[c] \in Nat /\ wait[c] \in Nat
             /\ tried[c] \in Nat /\ attempt[c] \in Nat
  BY <1>0, RetryAssumption DEF TypeOK
<1>2. ASSUME NEW c \in Callers, Calm(c), now' \in {now, now + 1}
      PROVE  Flow(c)' /\ Outcome(c)' /\ Retrying(c)'
  <2>1. LastPoint(c)' = LastPoint(c) /\ Due(c)' = Due(c) /\ Due(c) \in Nat
    BY <1>1, <1>2 DEF LastPoint, Due, Calm
  <2>2. Flow(c)'
    BY <1>0, <1>1, <1>2, <2>1 DEF Flow, Calm
  <2>3. Retrying(c)'
    <3>1. now >= Due(c) => now' >= Due(c)'
      <4>1. now \in Nat /\ now' \in {now, now + 1}
        BY <1>1, <1>2
      <4> QED
        BY <2>1, <4>1
    <3> QED
      BY <1>0, <1>2, <2>1, <3>1 DEF Retrying, Calm
  <2>4. Outcome(c)'
    BY <1>0, <1>2, <2>1 DEF Outcome, Calm
  <2> QED
    BY <2>2, <2>3, <2>4
<1>3. ASSUME NEW c \in Callers, Do(c) PROVE Flow(c)' /\ Outcome(c)' /\ Retrying(c)'
  <2>1. pc'[c] = "fn" /\ start'[c] = now /\ tried'[c] = 0 /\ attempt'[c] = 1 /\ now' = now
    BY <1>0, <1>3 DEF Do, Goto, TypeOK
  <2> QED
    BY <1>1, <2>1 DEF Flow, Outcome, Retrying
<1>4. ASSUME NEW c \in Callers, Succeed(c) PROVE Flow(c)' /\ Outcome(c)' /\ Retrying(c)'
  <2>1. pc'[c] = "idle" /\ ret'[c] = "nil" /\ Attempted(c, "nil")
    BY <1>0, <1>4 DEF Succeed, Returns, Goto, TypeOK
  <2>2. err'[c] = "nil" /\ UNCHANGED <<now, start>>
    BY <1>0, <2>1, AttemptFacts
  <2> QED
    BY <1>0, <2>1, <2>2 DEF Flow, Outcome, Retrying
<1>5. ASSUME NEW c \in Callers, Halt(c) PROVE Flow(c)' /\ Outcome(c)' /\ Retrying(c)'
  <2>1. PICK e \in Errors : Attempted(c, e) /\ Stop(Point(c, e)) /\ Returns(c, e)
    BY <1>5 DEF Halt
  <2>2. pc'[c] = "idle" /\ ret'[c] = e
    BY <1>0, <2>1 DEF Returns, Goto, TypeOK
  <2>3. err'[c] = e /\ LastPoint(c)' = Point(c, e) /\ UNCHANGED <<now, start>>
    BY <1>0, <2>1, AttemptFacts
  <2>4. Stop(LastPoint(c)')
    BY <2>1, <2>3
  <2> QED
    BY <1>0, <2>2, <2>3, <2>4 DEF Flow, Outcome, Retrying
<1>6. ASSUME NEW c \in Callers, Fail(c) PROVE Flow(c)' /\ Outcome(c)' /\ Retrying(c)'
  <2>1. PICK e \in Errors : Attempted(c, e) /\ ~Stop(Point(c, e)) /\ Goto(c, "next")
    BY <1>6 DEF Fail
  <2>2. pc'[c] = "next"
    BY <1>0, <2>1 DEF Goto, TypeOK
  <2>3. /\ err'[c] = e /\ LastPoint(c)' = Point(c, e) /\ UNCHANGED <<now, start, attempt>>
        /\ tried'[c] = attempt[c] /\ start[c] + elapsed'[c] <= now
    BY <1>0, <2>1, AttemptFacts
  <2>4. ~Stop(LastPoint(c)') /\ e # "nil"
    BY <2>1, <2>3, RetryAssumption
  <2> QED
    BY <1>0, <2>2, <2>3, <2>4 DEF Flow, Outcome, Retrying
<1>7. ASSUME NEW c \in Callers, Backoff(c) PROVE Flow(c)' /\ Outcome(c)' /\ Retrying(c)'
  <2>1. pc[c] = "next" /\ pc'[c] = "sleep" /\ UNCHANGED <<now, start, tried, attempt, err, elapsed>>
    BY <1>0, <1>7 DEF Backoff, Goto, TypeOK, tryVars
  <2>2. LastPoint(c)' = LastPoint(c)
    BY <2>1 DEF LastPoint
  <2> QED
    BY <1>0, <2>1, <2>2 DEF Flow, Outcome, Retrying
<1>8. ASSUME NEW c \in Callers, Wake(c) PROVE Flow(c)' /\ Outcome(c)' /\ Retrying(c)'
  <2>1. /\ pc[c] = "sleep" /\ pc'[c] = "fn" /\ attempt'[c] = attempt[c] + 1
        /\ UNCHANGED <<now, start, tried, err, elapsed, wait>>
    BY <1>0, <1>8 DEF Wake, Retried, Goto, TypeOK
  <2>2. LastPoint(c)' = LastPoint(c) /\ Due(c)' = Due(c)
    BY <2>1 DEF LastPoint, Due
  <2>3. now >= Due(c)
    <3>1. wait[c] = 0 \/ now >= Due(c)
      BY <1>1, <1>8 DEF Wake
    <3>2. start[c] + elapsed[c] <= now
      BY <1>0, <2>1 DEF Flow
    <3> QED
      BY <1>1, <3>1, <3>2 DEF Due
  <2>4. Flow(c)'
    BY <1>0, <1>1, <2>1 DEF Flow
  <2> QED
    BY <1>0, <2>1, <2>2, <2>3, <2>4 DEF Flow, Outcome, Retrying
<1>9. ASSUME NEW c \in Callers, Cut(c) PROVE Flow(c)' /\ Outcome(c)' /\ Retrying(c)'
  <2>1. /\ pc[c] = "sleep" /\ pc'[c] = "idle" /\ ret'[c] = "ctx" /\ c \in ctxDone
        /\ UNCHANGED <<now, start, tried, err, ctxDone>>
    BY <1>0, <1>9 DEF Cut, Returns, Goto, TypeOK, tryVars
  <2> QED
    BY <1>0, <2>1 DEF Flow, Outcome, Retrying
<1>10. \A c \in Callers : Flow(c)' /\ Outcome(c)' /\ Retrying(c)'
  <2>1. ASSUME NEW c \in Callers, Moves(c) PROVE \A d \in Callers : Flow(d)' /\ Outcome(d)' /\ Retrying(d)'
    <3>1. Flow(c)' /\ Outcome(c)' /\ Retrying(c)'
      BY <1>3, <1>4, <1>5, <1>6, <1>7, <1>8, <1>9, <2>1 DEF Moves, Step, Fn
    <3>2. \A d \in Callers \ {c} : Flow(d)' /\ Outcome(d)' /\ Retrying(d)'
      BY <1>2, <2>1 DEF Moves
    <3> QED
      BY <3>1, <3>2
  <2>2. CASE \A d \in Callers : Calm(d)
    BY <1>0, <1>2, <2>2, OthersCalm
  <2> QED
    BY <1>0, <2>1, <2>2, OthersCalm
<1>11. FlowInv'
  BY <1>10 DEF FlowInv, Flow
<1>12. OutcomeIsJust'
  BY <1>10 DEF OutcomeIsJust, Outcome
<1>13. RetryIsDue'
  BY <1>10 DEF RetryIsDue, Retrying
<1> QED
  BY <1>11, <1>12, <1>13

(* A Do that runs alone meets the delays of a schedule just reset.         *)
LEMMA AloneStep == ASSUME IInv, [Next]_vars PROVE AloneInv'
<1>0. TypeOK /\ AloneInv
  BY DEF IInv
<1>1. ASSUME NEW c \in Callers PROVE attempt[c] \in Nat \ {0}
  BY <1>0, RetryAssumption DEF TypeOK
<1>2. ASSUME NEW c \in Callers, Do(c) PROVE AloneInv'
  <2>1. /\ pc' = [pc EXCEPT ![c] = "fn"] /\ pc'[c] = "fn" /\ attempt'[c] = 1 /\ UNCHANGED schedule
        /\ schedule = "exponential" => current' = Base
        /\ alone' = IF Busy = {} THEN {c} ELSE {}
    BY <1>0, <1>2 DEF Do, Reset, Goto, TypeOK
  <2>2. \A d \in Callers \ {c} : pc'[d] = pc[d]
    BY <1>0, <2>1 DEF TypeOK
  <2>3. Busy = {} => \A d \in Callers \ {c} : pc'[d] = "idle"
    BY <2>2 DEF Busy
  <2> QED
    BY <2>1, <2>3, DelayRecursion DEF AloneInv
<1>3. ASSUME NEW c \in Callers, Backoff(c) PROVE AloneInv'
  <2>1. pc[c] = "next" /\ pc'[c] = "sleep" /\ UNCHANGED <<schedule, alone, attempt>>
        /\ \A d \in Callers \ {c} : pc'[d] = pc[d] /\ wait'[d] = wait[d]
    BY <1>0, <1>3 DEF Backoff, Goto, TypeOK, tryVars
  <2>2. schedule = "exponential" => wait'[c] = current /\ current' = Grow(current)
    BY <1>0, <1>3 DEF Backoff, NextReturns, TypeOK
  <2>3. ASSUME NEW d \in alone, d # c PROVE FALSE
    BY <1>0, <2>1, <2>3 DEF AloneInv
  <2>4. \A d \in Callers \ {c} : c \in alone => pc'[d] = "idle"
    BY <1>0, <2>1 DEF AloneInv
  <2>5. c \in alone /\ schedule = "exponential" =>
          wait'[c] = Delay[attempt[c]] /\ current' = Delay[attempt[c] + 1]
    BY <1>0, <1>1, <2>1, <2>2, DelayRecursion DEF AloneInv
  <2> QED
    BY <2>1, <2>3, <2>4, <2>5 DEF AloneInv
<1>4. ASSUME NEW c \in Callers, Wake(c) PROVE AloneInv'
  <2>1. pc[c] = "sleep" /\ pc'[c] = "fn" /\ attempt'[c] = attempt[c] + 1
        /\ UNCHANGED <<schedule, alone, current>> /\ \A d \in Callers \ {c} : pc'[d] = pc[d]
    BY <1>0, <1>4 DEF Wake, Retried, Goto, TypeOK
  <2>2. \A d \in alone : d = c
    BY <1>0, <2>1 DEF AloneInv
  <2> QED
    BY <1>0, <2>1, <2>2 DEF AloneInv
<1>5. ASSUME NEW c \in Callers, Fn(c) \/ Cut(c) PROVE AloneInv'
  <2>1. /\ pc[c] \in {"fn", "sleep"} /\ pc'[c] \in {"idle", "next"} /\ (pc'[c] = "next" => pc[c] = "fn")
        /\ UNCHANGED <<schedule, alone, current, attempt>>
        /\ \A d \in Callers \ {c} : pc'[d] = pc[d]
    BY <1>0, <1>5 DEF Fn, Succeed, Halt, Fail, Attempted, Cut, Returns, Goto, TypeOK, tryVars
  <2>2. \A d \in alone : d = c
    BY <1>0, <2>1 DEF AloneInv
  <2> QED
    BY <1>0, <2>1, <2>2 DEF AloneInv
<1>6. CASE UNCHANGED <<pc, schedule, alone, current, attempt, wait>>
  BY <1>0, <1>6 DEF AloneInv
<1> QED
  BY <1>2, <1>3, <1>4, <1>5, <1>6 DEF Next, Step, Advance, CtxEnds, vars, tryVars

(* The invariant holds of a new Retry, with a schedule that may have been  *)
(* used before.                                                            *)
LEMMA InitInv == Init => IInv
<1> SUFFICES ASSUME Init PROVE IInv
  OBVIOUS
<1>1. InRange(current)
  <2>1. PICK n \in 1..MaxInt : current = Delay[n]
    BY DEF Init, ScheduleInit
  <2>2. n \in Nat \ {0}
    BY ScheduleFacts
  <2> QED
    BY <2>1, <2>2, DelayRecursion
<1>2. DelayInRange /\ current \in Nat \ {0}
  BY <1>1, DrawnInRange, ScheduleFacts DEF DelayInRange, InRange
<1>3. TypeOK
  BY <1>2, RetryAssumption DEF Init, ScheduleInit, TypeOK
<1>4. FlowInv /\ OutcomeIsJust /\ RetryIsDue /\ AloneInv
  BY DEF Init, FlowInv, OutcomeIsJust, RetryIsDue, AloneInv
<1> QED
  BY <1>2, <1>3, <1>4 DEF IInv

----------------------------------------------------------------------------
(* Theorems about Retry *)

(* Retry keeps its inductive invariant.                                    *)
THEOREM Invariance == Spec => []IInv
<1>1. IInv /\ [Next]_vars => IInv'
  BY TypeStep, ControlStep, AloneStep DEF IInv
<1> QED
  BY <1>1, InitInv, PTL DEF Spec

(* The types of the state.                                                 *)
THEOREM Typing == Spec => []TypeOK
<1>1. IInv => TypeOK
  BY DEF IInv
<1> QED
  BY <1>1, Invariance, PTL

(* What Do returns is what its last attempt came to.                       *)
THEOREM Outcomes == Spec => []OutcomeIsJust
<1>1. IInv => OutcomeIsJust
  BY DEF IInv
<1> QED
  BY <1>1, Invariance, PTL

(* No attempt starts early, and none after one that ended the Do.          *)
THEOREM RetriesAreDue == Spec => []RetryIsDue
<1>1. IInv => RetryIsDue
  BY DEF IInv
<1> QED
  BY <1>1, Invariance, PTL

(* A Do that runs alone backs off from the start of the schedule.          *)
THEOREM BackoffFromBase == Spec => []BackoffRestarts
<1>1. IInv => BackoffRestarts
  BY DEF IInv, AloneInv, BackoffRestarts
<1> QED
  BY <1>1, Invariance, PTL

(* No delay of any schedule is out of range, for numbers of any width and  *)
(* any precision.                                                          *)
THEOREM DelaysInRange == Spec => []DelayInRange
<1>1. IInv => DelayInRange
  BY DEF IInv
<1> QED
  BY <1>1, Invariance, PTL
=============================================================================
