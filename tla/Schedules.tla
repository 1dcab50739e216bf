------------------------------ MODULE Schedules -----------------------------
(***************************************************************************)
(* The schedules of package schedule that keep or draw a delay: Constant,  *)
(* Uniform and Exponential.                                                *)
(*                                                                         *)
(* A time.Duration has Width bits and a sign.  A float64 is a number whose *)
(* significand has Precision bits: an integer n is converted to the        *)
(* nearest one, ties to even, and so is a product.  The factor is          *)
(* FactorNum / 2^FactorExp, so every product is a multiple of 1/2^FactorExp*)
(* and is kept as its numerator; rounding does not depend on the scale.    *)
(***************************************************************************)
EXTENDS Integers

CONSTANTS Width, Precision,       \* bits of a Duration, and of a significand
          Fixed,                  \* the d of NewConstant
          Lo, Hi,                 \* NewUniform
          Base, MaxDelay,         \* NewExponential
          FactorNum, FactorExp    \* WithFactor

(* The power 2^n, written so that it can be reasoned about.                *)
Pow2[n \in Nat] == IF n = 0 THEN 1 ELSE 2 * Pow2[n - 1]

MaxInt == Pow2[Width] - 1
MinInt == -Pow2[Width]

(* What the constructors accept.                                           *)
ASSUME ScheduleAssumption ==
    /\ Width \in Nat \ {0} /\ Precision \in Nat \ {0}
    /\ Fixed \in 0..MaxInt
    /\ Lo \in 0..MaxInt /\ Hi \in Lo..MaxInt
    /\ Base \in 1..MaxInt /\ MaxDelay \in Base..MaxInt
    /\ FactorExp \in Nat /\ FactorNum \in Nat /\ FactorNum >= Pow2[FactorExp]

VARIABLES schedule,  \* which of them it is
          current    \* Exponential.current

(* The exponent of the float64 nearest to n: that of the unit in which its *)
(* significand fits.                                                       *)
Exponent(n) ==
    CHOOSE i \in 0..n :
        n < Pow2[Precision + i] /\ (i = 0 \/ n >= Pow2[Precision + i - 1])

(* The multiple of the unit u nearest to n, ties to even.                  *)
Rounded(n, u) ==
    LET q == n \div u
        r == 2 * (n % u)
    IN  u * (IF r < u \/ (r = u /\ q % 2 = 0) THEN q ELSE q + 1)

(* The float64 nearest to n.                                               *)
Float(n) == Rounded(n, Pow2[Exponent(n)])

(* The conversion to a Duration truncates; what does not fit becomes the   *)
(* least value.                                                            *)
ToDuration(n, scale) == IF n \div scale > MaxInt THEN MinInt ELSE n \div scale

(* Mutant: a product equal to the float64 of the maximum is converted.     *)
GrowOrEqual(d) ==
    LET next == Float(Float(d) * FactorNum)
    IN  IF next <= Float(MaxDelay) * Pow2[FactorExp] THEN ToDuration(next, Pow2[FactorExp]) ELSE MaxDelay

(* What Exponential.Next leaves in current.                                *)
Grow(d) ==
    LET next == Float(Float(d) * FactorNum)
    IN  IF next < Float(MaxDelay) * Pow2[FactorExp] THEN ToDuration(next, Pow2[FactorExp]) ELSE MaxDelay

(* What Uniform.Next may draw, in uint64.                                  *)
Drawn == {Lo + n : n \in 0..(((Hi - Lo + 1) % Pow2[Width + 1]) - 1)}

(* The delays of an Exponential since it was made or reset.                *)
Delay[n \in Nat] == IF n <= 1 THEN Base ELSE Grow(Delay[n - 1])

(* A schedule of any kind; an Exponential may have been used before.       *)
ScheduleInit ==
    /\ schedule \in {"constant", "uniform", "exponential"}
    /\ current \in {Delay[n] : n \in 1..MaxInt}
    /\ schedule # "exponential" => current = Base

(* Next returns d.                                                         *)
NextReturns(d) ==
    \/ schedule = "constant" /\ d = Fixed /\ UNCHANGED current
    \/ schedule = "uniform" /\ d \in Drawn /\ UNCHANGED current
    \/ schedule = "exponential" /\ d = current /\ current' = Grow(current)

Delays == {Fixed, current} \cup Drawn

(* Mutant: a Do does not reset the schedule.                               *)
ResetNot == UNCHANGED current

(* Reset, which only an Exponential has.                                   *)
Reset == IF schedule = "exponential" THEN current' = Base ELSE UNCHANGED current

(* "An out-of-range float-to-int conversion is implementation-defined": no *)
(* product is converted that does not fit, however long the schedule has   *)
(* grown, so every delay is positive, at most MaxDelay and no less than    *)
(* the float64 of Base; exactly Base if that fits a significand.           *)
DelayInRange ==
    /\ current \in 1..MaxDelay
    /\ current >= Base \/ current >= Float(Base)
    /\ Drawn \subseteq Lo..Hi
=============================================================================
