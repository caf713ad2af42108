------------------------------- MODULE Float -------------------------------
(***************************************************************************)
(* f64, as a fraction <<n, d>>, the infinities <<1, 0>> and <<-1, 0>>, and  *)
(* NaN.  Every finite value an instance uses is a small dyadic rational in  *)
(* lowest terms, on which f64 is exact: rounding is not modelled.           *)
(***************************************************************************)
EXTENDS Integers, Sequences, FiniteSetsExt

NaN    == <<0, 0>>
Inf    == <<1, 0>>
NegInf == <<-1, 0>>
F(n)   == <<n, 1>>
Zero   == F(0)
One    == F(1)
Floats == {NaN, Inf, NegInf} \cup (Int \X (Nat \ {0}))

IsNaN(x)  == x = NaN
Finite(x) == x[2] # 0

Powers == {2 ^ i : i \in 0 .. 24}

\* The greatest power of two two whole numbers are multiples of.
Shared(n, d) == Max({p \in Powers : n % p = 0 /\ d % p = 0})

\* In lowest terms where the denominator is a power of two.
Fraction(n, d) ==
  IF d = 0 THEN (IF n > 0 THEN Inf ELSE IF n < 0 THEN NegInf ELSE NaN)
  ELSE LET p == Shared(n, d) IN <<n \div p, d \div p>>

Times(x, y) == Fraction(x[1] * y[1], x[2] * y[2])

Divided(x, y) == Fraction(x[1] * y[2], x[2] * y[1])

\* A numerator over the denominator two values come to, and that denominator.
Over(x, y) == x[1] * (y[2] \div Shared(x[2], y[2]))
Common(x, y) == x[2] * (y[2] \div Shared(x[2], y[2]))

Plus(x, y) ==
  IF Finite(x) /\ Finite(y) THEN Fraction(Over(x, y) + Over(y, x), Common(x, y))
  ELSE IF x = y THEN x
  ELSE Fraction(x[1] * y[2] + y[1] * x[2], 0)
Minus(x, y) == Plus(x, Times(F(-1), y))

\* Every ordering on NaN is false.
Less(x, y) ==
  /\ ~IsNaN(x) /\ ~IsNaN(y)
  /\ IF Finite(x) /\ Finite(y) THEN Over(x, y) < Over(y, x)
     ELSE IF Finite(x) \/ Finite(y) THEN x[1] * y[2] < y[1] * x[2]
     ELSE x[1] < y[1]

\* Neither above the other, whatever they are written over.
Same(x, y) == ~IsNaN(x) /\ ~IsNaN(y) /\ ~Less(x, y) /\ ~Less(y, x)

\* f64::min and f64::max answer the other operand of a NaN.
Least(x, y) == IF IsNaN(x) \/ Less(y, x) THEN y ELSE x
Most(x, y)  == IF IsNaN(x) \/ Less(x, y) THEN y ELSE x

\* What folding them over values that are not all NaN comes to.
LeastOf(S) == CHOOSE x \in S \ {NaN} : \A y \in S \ {NaN} : ~Less(y, x)
MostOf(S)  == CHOOSE x \in S \ {NaN} : \A y \in S \ {NaN} : ~Less(x, y)

Positive(x) == Less(Zero, x)
=============================================================================
