---------------------------- MODULE NumberFacts ----------------------------
(***************************************************************************)
(* Facts about numbers that several proofs rest on: the naturals, and f64   *)
(* as Float models it.                                                      *)
(***************************************************************************)
EXTENDS Float, TLAPS, WellFoundedInduction, FiniteSetTheorems

-----------------------------------------------------------------------------
(* The natural numbers.                                                    *)

\* A set of natural numbers that is not empty has a least element.
LEMMA LeastNatural ==
  ASSUME NEW T, T \subseteq Nat, T # {}
  PROVE  \E x \in T : \A y \in T : x <= y
<1> DEFINE R == OpToRel(<, Nat)
<1>1. IsWellFoundedOn(R, Nat)
  BY NatLessThanWellFounded
<1>2. PICK x \in T : \A y \in T : ~ (<<y, x>> \in R)
  BY <1>1, WFMin
<1>3. \A y \in T : <<y, x>> \in R <=> y < x
  BY DEF OpToRel
<1> HIDE DEF R
<1>4. \A y \in T : ~(y < x)
  BY <1>2, <1>3
<1>5. \A y \in T : x <= y
  BY <1>4
<1> QED
  BY <1>5

\* A bounded one has a greatest element.
LEMMA GreatestNatural ==
  ASSUME NEW n \in Nat, NEW T \in SUBSET (0 .. n), T # {}
  PROVE  \E x \in T : \A y \in T : y <= x
<1> DEFINE Gaps == {n - x : x \in T}
<1>1. Gaps \subseteq Nat /\ Gaps # {}
  OBVIOUS
<1> HIDE DEF Gaps
<1>2. PICK g \in Gaps : \A h \in Gaps : g <= h
  BY <1>1, LeastNatural
<1> USE DEF Gaps
<1>3. PICK x \in T : g = n - x
  OBVIOUS
<1>4. ASSUME NEW y \in T PROVE y <= x
  <2>1. n - x <= n - y
    BY <1>2, <1>3
  <2> QED
    BY <2>1
<1> QED
  BY <1>4

\* The members of a finite set, counted from the smallest, are numbered from 0 without
\* a gap.
Rank(T, o) == Cardinality({x \in T : x < o})

LEMMA RankFacts ==
  ASSUME NEW T, T \subseteq Nat, IsFiniteSet(T)
  PROVE  /\ Cardinality(T) \in Nat
         /\ \A o \in T : Rank(T, o) \in 0 .. Cardinality(T) - 1
         /\ \A o, p \in T : o < p => Rank(T, o) < Rank(T, p)
         /\ \A o, p \in T : Rank(T, o) = Rank(T, p) => o = p
         /\ \A j \in 0 .. Cardinality(T) - 1 : \E o \in T : Rank(T, o) = j
<1> DEFINE n == Cardinality(T)
           Below(o) == {x \in T : x < o}
<1>1. n \in Nat
  BY FS_CardinalityType
<1>2. \A o : Rank(T, o) = Cardinality(Below(o))
  BY DEF Rank
<1>3. ASSUME NEW o \in T PROVE Below(o) \in SUBSET T /\ o \notin Below(o)
  OBVIOUS
<1>4. ASSUME NEW o \in T, NEW p \in T, o < p
      PROVE  Below(o) \subseteq Below(p) /\ o \in Below(p)
  <2>1. ASSUME NEW x \in Below(o) PROVE x \in Below(p)
    <3>1. x \in T /\ x \in Int /\ o \in Int /\ p \in Int /\ x < o
      OBVIOUS
    <3>2. x < p
      BY <1>4, <3>1
    <3> QED
      BY <3>1, <3>2
  <2>2. o \in Below(p)
    BY <1>4
  <2> QED
    BY <2>1, <2>2
<1> HIDE DEF Below, n
<1>5. ASSUME NEW o \in T, NEW S, IsFiniteSet(S), Below(o) \subseteq S, o \in S
      PROVE  /\ Rank(T, o) \in Nat /\ Cardinality(S) \in Nat
             /\ Rank(T, o) < Cardinality(S)
  <2>1. /\ IsFiniteSet(Below(o)) /\ Cardinality(Below(o)) <= Cardinality(S)
        /\ Cardinality(S) = Cardinality(Below(o)) => S = Below(o)
    BY <1>5, FS_Subset
  <2>2. Cardinality(S) \in Nat /\ Cardinality(Below(o)) \in Nat
    BY <1>5, <2>1, FS_CardinalityType
  <2> QED
    BY <1>2, <1>3, <1>5, <2>1, <2>2
<1>6. ASSUME NEW o \in T PROVE Rank(T, o) \in 0 .. n - 1
  <2>1. Below(o) \subseteq T
    BY <1>3
  <2> QED
    BY <1>5, <2>1, <1>1 DEF n
<1>7. ASSUME NEW o \in T, NEW p \in T, o < p PROVE Rank(T, o) < Rank(T, p)
  <2>1. IsFiniteSet(Below(p))
    BY <1>3, FS_Subset
  <2> QED
    BY <1>2, <1>4, <1>5, <1>7, <2>1
<1>8. ASSUME NEW o \in T, NEW p \in T, Rank(T, o) = Rank(T, p) PROVE o = p
  <2>1. Rank(T, o) \in Int /\ Rank(T, p) \in Int /\ o \in Int /\ p \in Int
    BY <1>1, <1>6
  <2>2. ~(o < p) /\ ~(p < o)
    BY <1>7, <1>8, <2>1
  <2> QED
    BY <2>1, <2>2
<1>9. ASSUME NEW j \in 0 .. n - 1 PROVE \E o \in T : Rank(T, o) = j
  <2> DEFINE f == [o \in T |-> Rank(T, o)]
             Places == 0 .. n - 1
  <2>1. f \in Injection(T, Places)
    BY <1>6, <1>8 DEF Injection, IsInjective
  <2>2. IsFiniteSet(Places) /\ Cardinality(Places) = n
    BY <1>1, FS_Interval
  <2> HIDE DEF Places, f
  <2>3. f \in Surjection(T, Places)
    BY <2>1, <2>2, FS_Injection DEF n
  <2>4. \E o \in T : f[o] = j
    BY <2>3 DEF Surjection, Places
  <2> QED
    BY <2>4 DEF f
<1> QED
  BY <1>1, <1>6, <1>7, <1>8, <1>9 DEF n

\* Induction, for the members of a set: what holds of 0 and is handed on up to n
\* holds up to n.
LEMMA UpTo ==
  ASSUME NEW n \in Nat, NEW S, 0 \in S, \A i \in 0 .. n - 1 : i \in S => i + 1 \in S
  PROVE  \A i \in 0 .. n : i \in S
<1> SUFFICES ASSUME {i \in 0 .. n : i \notin S} # {} PROVE FALSE
  OBVIOUS
<1> DEFINE Missing == {i \in 0 .. n : i \notin S}
<1>1. PICK x \in Missing : \A y \in Missing : x <= y
  <2>1. Missing \subseteq Nat /\ Missing # {}
    OBVIOUS
  <2> HIDE DEF Missing
  <2> QED
    BY <2>1, LeastNatural
<1>2. x \in Nat /\ x # 0 /\ x - 1 \in 0 .. n - 1 /\ x - 1 \notin Missing
  BY <1>1
<1>3. x - 1 \in S
  BY <1>2
<1>4. x \in S
  BY <1>2, <1>3
<1> QED
  BY <1>1, <1>4

\* A table of n + 1 entries is filled from the front, each entry from the one before it.
Rows(n, B) == [1 .. n -> [B -> B]]
Fills(f, n, b, row) == f[0] = b /\ \A j \in 1 .. n : f[j] = row[j][f[j - 1]]

\* There is one.
LEMMA FilledFromFront ==
  ASSUME NEW n \in Nat, NEW B, NEW b \in B, NEW row \in Rows(n, B)
  PROVE  \E f \in [0 .. n -> B] : Fills(f, n, b, row)
<1> USE DEF Rows, Fills
<1> DEFINE Filled(f, m) == Fills(f, m, b, row)
           S == {m \in 0 .. n : \E f \in [0 .. m -> B] : Filled(f, m)}
<1>1. 0 \in S
  <2> DEFINE g == [j \in 0 .. 0 |-> b]
  <2>1. g \in [0 .. 0 -> B] /\ Filled(g, 0)
    OBVIOUS
  <2> HIDE DEF g, Filled
  <2>2. \E f \in [0 .. 0 -> B] : Filled(f, 0)
    BY <2>1
  <2> QED
    BY <2>2
<1>2. ASSUME NEW m \in 0 .. n - 1, m \in S PROVE m + 1 \in S
  <2>1. PICK f \in [0 .. m -> B] : Filled(f, m)
    BY <1>2
  <2> DEFINE g == [j \in 0 .. m + 1 |-> IF j = m + 1 THEN row[m + 1][f[m]] ELSE f[j]]
  <2>2. row[m + 1] \in [B -> B] /\ f[m] \in B
    OBVIOUS
  <2>3. g \in [0 .. m + 1 -> B]
    BY <2>2
  <2>4. g[0] = b
    BY <2>1
  <2>5. ASSUME NEW j \in 1 .. m + 1 PROVE g[j] = row[j][g[j - 1]]
    <3>1. CASE j = m + 1
      BY <3>1
    <3>2. CASE j # m + 1
      BY <3>2, <2>1
    <3> QED
      BY <3>1, <3>2
  <2>6. Filled(g, m + 1)
    BY <2>4, <2>5
  <2> HIDE DEF g, Filled
  <2> QED
    BY <2>3, <2>6
<1>3. n \in S
  <2> HIDE DEF S
  <2>1. \A i \in 0 .. n : i \in S
    BY <1>1, <1>2, UpTo
  <2> QED
    BY <2>1
<1> QED
  BY <1>3

\* What an iteration written as a recursive function computes, step by step.
Iterates(f, n, b, h) ==
  f = CHOOSE g : g = [j \in 0 .. n |-> IF j = 0 THEN b ELSE h[g[j - 1]]]

LEMMA Iteration ==
  ASSUME NEW n \in Nat, NEW B, NEW b \in B, NEW h \in [B -> B], NEW f,
         Iterates(f, n, b, h)
  PROVE  /\ f \in [0 .. n -> B]
         /\ f[0] = b
         /\ \A j \in 1 .. n : f[j] = h[f[j - 1]]
<1> DEFINE Reads(g) == g = [j \in 0 .. n |-> IF j = 0 THEN b ELSE h[g[j - 1]]]
           row == [j \in 1 .. n |-> h]
<1>1. row \in Rows(n, B)
  BY DEF Rows
<1>2. PICK g \in [0 .. n -> B] : Fills(g, n, b, row)
  <2> HIDE DEF row
  <2> QED
    BY <1>1, FilledFromFront
<1>3. g[0] = b /\ \A j \in 1 .. n : g[j] = h[g[j - 1]]
  BY <1>2 DEF Fills
<1>4. Reads(g)
  <2>1. \A j \in 0 .. n : g[j] = IF j = 0 THEN b ELSE h[g[j - 1]]
    BY <1>3
  <2> QED
    BY <2>1
<1>5. Reads(f)
  <2> HIDE DEF Reads
  <2>1. f = CHOOSE e : Reads(e)
    BY DEF Reads, Iterates
  <2> QED
    BY <1>4, <2>1
<1>6. f = g
  <2> DEFINE S == {j \in 0 .. n : f[j] = g[j]}
  <2>1. 0 \in S
    <3>1. 0 \in 0 .. n
      OBVIOUS
    <3>2. f[0] = b
      BY <1>5, <3>1, Zenon
    <3> QED
      BY <1>3, <3>1, <3>2
  <2>2. ASSUME NEW j \in 0 .. n - 1, j \in S PROVE j + 1 \in S
    <3>1. j + 1 \in 0 .. n /\ j + 1 # 0 /\ (j + 1) - 1 = j /\ f[j] = g[j]
      BY <2>2
    <3>2. f[j + 1] = h[f[(j + 1) - 1]] /\ g[j + 1] = h[g[(j + 1) - 1]]
      BY <1>4, <1>5, <3>1, Zenon
    <3> QED
      BY <3>1, <3>2
  <2>3. \A j \in 0 .. n : j \in S
    <3> HIDE DEF S
    <3> QED
      BY <2>1, <2>2, UpTo
  <2> QED
    BY <1>4, <1>5, <2>3
<1> QED
  BY <1>3, <1>6

\* Division by a divisor that is not known.
LEMMA Division ==
  ASSUME NEW n \in Nat, NEW d \in Nat \ {0}
  PROVE  /\ n \div d \in Nat
         /\ n % d \in 0 .. d - 1
         /\ n = d * (n \div d) + (n % d)
OBVIOUS

\* Quotient and remainder are the only ones.
LEMMA DivisionIsUnique ==
  ASSUME NEW d \in Nat \ {0}, NEW a \in Nat, NEW x \in Nat, NEW r \in 0 .. d - 1,
         a = d * x + r
  PROVE  a \div d = x /\ a % d = r
OBVIOUS

\* Induction on all that came before.
LEMMA FromThoseBefore ==
  ASSUME NEW n \in Nat, NEW S,
         \A i \in 0 .. n : (\A j \in 0 .. n : j < i => j \in S) => i \in S
  PROVE  \A i \in 0 .. n : i \in S
<1> SUFFICES ASSUME {i \in 0 .. n : i \notin S} # {} PROVE FALSE
  OBVIOUS
<1> DEFINE Missing == {i \in 0 .. n : i \notin S}
<1>1. PICK x \in Missing : \A y \in Missing : x <= y
  <2>1. Missing \subseteq Nat /\ Missing # {}
    OBVIOUS
  <2> HIDE DEF Missing
  <2> QED
    BY <2>1, LeastNatural
<1>2. x \in 0 .. n /\ x \notin S
  BY <1>1
<1>3. \A j \in 0 .. n : j < x => j \in S
  BY <1>1, <1>2
<1> QED
  BY <1>2, <1>3

\* A whole number of times a positive one, compared.
LEMMA Cancelling ==
  ASSUME NEW k \in Nat \ {0}, NEW a \in Int, NEW b \in Int
  PROVE  /\ k * a = k * b <=> a = b
         /\ k * a < k * b <=> a < b
<1>1. ASSUME a < b PROVE k * a < k * b
  BY <1>1
<1>2. ASSUME b < a PROVE k * b < k * a
  BY <1>2
<1>3. k * a \in Int /\ k * b \in Int
  OBVIOUS
<1> QED
  BY <1>1, <1>2, <1>3

LEMMA ProductsGrow ==
  ASSUME NEW a \in Nat, NEW b \in Nat, NEW c \in Nat, NEW e \in Nat, a <= c, b <= e
  PROVE  a * b <= c * e /\ 0 <= a * b
<1>1. PICK i \in Nat, j \in Nat : c = a + i /\ e = b + j
  <2>1. c - a \in Nat /\ c = a + (c - a) /\ e - b \in Nat /\ e = b + (e - b)
    OBVIOUS
  <2> QED
    BY <2>1
<1>2. c * e = a * b + (a * j + i * b + i * j)
  BY <1>1
<1>3. a * j \in Nat /\ i * b \in Nat /\ i * j \in Nat /\ a * b \in Nat
  OBVIOUS
<1>4. PICK k \in Nat, l \in Nat : k = a * b /\ l = a * j + i * b + i * j
  BY <1>3
<1> QED
  BY <1>2, <1>4

LEMMA PowerIsWhole == ASSUME NEW k \in Nat PROVE 2 ^ k \in Int
BY SMT

-----------------------------------------------------------------------------
(* f64, the arithmetic.                                                    *)

\* The powers of two a fraction is reduced by.
LEMMA PowersOfTwo ==
  /\ 1 \in Powers
  /\ \E m \in Nat : \A x \in Powers : x \in 1 .. m
<1> DEFINE P(i) == 2 ^ i
<1>1. /\ P(0) = 1 /\ P(1) = 2 /\ P(2) = 4 /\ P(3) = 8 /\ P(4) = 16 /\ P(5) = 32
      /\ P(6) = 64 /\ P(7) = 128 /\ P(8) = 256 /\ P(9) = 512 /\ P(10) = 1024
      /\ P(11) = 2048 /\ P(12) = 4096 /\ P(13) = 8192 /\ P(14) = 16384
      /\ P(15) = 32768 /\ P(16) = 65536 /\ P(17) = 131072 /\ P(18) = 262144
      /\ P(19) = 524288 /\ P(20) = 1048576 /\ P(21) = 2097152 /\ P(22) = 4194304
      /\ P(23) = 8388608 /\ P(24) = 16777216
  BY SMT
<1>2. Powers = {P(i) : i \in 0 .. 24}
  BY DEF Powers
<1> HIDE DEF P
<1>3. ASSUME NEW i \in 0 .. 24
      PROVE  P(i) \in 1 .. P(24)
  <2>1. \/ i = 0 \/ i = 1 \/ i = 2 \/ i = 3 \/ i = 4 \/ i = 5 \/ i = 6 \/ i = 7
        \/ i = 8 \/ i = 9 \/ i = 10 \/ i = 11 \/ i = 12 \/ i = 13 \/ i = 14
        \/ i = 15 \/ i = 16 \/ i = 17 \/ i = 18 \/ i = 19 \/ i = 20 \/ i = 21
        \/ i = 22 \/ i = 23 \/ i = 24
    BY SMT
  <2> QED
    BY <1>1, <2>1, SMT
<1>4. P(0) = 1 /\ P(24) \in Nat
  BY <1>1, SMT
<1> QED
  BY <1>2, <1>3, <1>4

\* The maximum of the powers of two that divide two numbers divides them.
LEMMA SharedDivides ==
  ASSUME NEW n \in Int, NEW d \in Nat \ {0}, NEW p, p = Shared(n, d)
  PROVE  /\ p \in Nat \ {0}
         /\ n \div p \in Int /\ n = p * (n \div p)
         /\ d \div p \in Nat \ {0} /\ d = p * (d \div p)
<1> DEFINE S == {x \in Powers : n % x = 0 /\ d % x = 0}
<1>1. PICK m \in Nat : 1 \in Powers /\ \A x \in Powers : x \in 1 .. m
  BY PowersOfTwo
<1>2. S # {} /\ S \in SUBSET (0 .. m)
  <2>1. n % 1 = 0 /\ d % 1 = 0
    OBVIOUS
  <2> QED
    BY <1>1, <2>1
<1> HIDE DEF S
<1>3. \E x \in S : \A y \in S : y <= x
  BY <1>2, GreatestNatural
<1>4. p = Max(S)
  BY DEF Shared, S
<1>5. \E x \in S : \A y \in S : x >= y
  <2>1. PICK x \in S : \A y \in S : y <= x
    BY <1>3
  <2>2. \A y \in S : y \in Int /\ x \in Int
    BY <1>2
  <2>3. \A y \in S : x >= y
    BY <2>1, <2>2
  <2> QED
    BY <2>3
<1>6. p \in S
  BY <1>4, <1>5 DEF Max
<1>7. p \in Nat \ {0} /\ n % p = 0 /\ d % p = 0
  BY <1>1, <1>6 DEF S
<1>8. n \div p \in Int /\ n = p * (n \div p)
  BY <1>7
<1>9. d \div p \in Int /\ d = p * (d \div p)
  BY <1>7
<1>10. d \div p > 0
  <2>1. PICK e \in Int : e = d \div p
    BY <1>9
  <2>2. p * 0 = 0
    BY <1>7
  <2>3. p * 0 < p * e
    BY <1>9, <2>1, <2>2
  <2>4. 0 < e
    BY <1>7, <2>3, Cancelling
  <2> QED
    BY <2>1, <2>4
<1> QED
  BY <1>7, <1>8, <1>9, <1>10

\* The finite values, and what one comes to over a denominator that need not be its own.
Finites == Int \X (Nat \ {0})
Amounts(x, a, d) == x[1] * d = a * x[2]

LEMMA FinitesFacts ==
  ASSUME NEW x \in Floats
  PROVE  /\ x \in Finites \/ x = Inf \/ x = NegInf \/ x = NaN
         /\ Finite(x) <=> x \in Finites
BY DEF Floats, Finites, Finite, Inf, NegInf, NaN

LEMMA OfFinites ==
  ASSUME NEW x \in Finites
  PROVE  /\ x \in Floats /\ Finite(x) /\ ~IsNaN(x) /\ x # NaN /\ x # Inf /\ x # NegInf
         /\ x[1] \in Int /\ x[2] \in Nat \ {0}
         /\ Amounts(x, x[1], x[2])
BY DEF Floats, Finites, Finite, IsNaN, Inf, NegInf, NaN, Amounts

\* A value comes to one numerator over a denominator.
LEMMA IsOnly ==
  ASSUME NEW x \in Finites, NEW a \in Int, NEW b \in Int, NEW d \in Nat \ {0},
         Amounts(x, a, d), Amounts(x, b, d)
  PROVE  a = b
<1>1. x[1] \in Int /\ x[2] \in Nat \ {0}
  BY OfFinites
<1>2. PICK n \in Int, e \in Nat \ {0} : n = x[1] /\ e = x[2]
  BY <1>1
<1>3. n * d = a * e /\ n * d = b * e
  BY <1>2 DEF Amounts
<1>4. e * a = e * b
  BY <1>3
<1> QED
  BY <1>4, Cancelling

LEMMA Rescaled ==
  ASSUME NEW x \in Finites, NEW a \in Int, NEW d \in Nat \ {0}, Amounts(x, a, d),
         NEW k \in Nat \ {0}
  PROVE  d * k \in Nat \ {0} /\ a * k \in Int /\ Amounts(x, a * k, d * k)
<1>1. PICK n \in Int, e \in Nat \ {0} : n = x[1] /\ e = x[2]
  BY OfFinites
<1>2. n * d = a * e
  BY <1>1 DEF Amounts
<1>3. (n * d) * k = (a * e) * k
  BY <1>2
<1>4. n * (d * k) = (a * k) * e
  BY <1>3
<1>5. d * k > 0
  BY Cancelling
<1> QED
  BY <1>1, <1>4, <1>5 DEF Amounts

\* Any three share a denominator.
LEMMA OverOne ==
  ASSUME NEW x \in Finites, NEW y \in Finites, NEW z \in Finites
  PROVE  \E d \in Nat \ {0} : \E a, b, c \in Int :
           Amounts(x, a, d) /\ Amounts(y, b, d) /\ Amounts(z, c, d)
<1>1. PICK e \in Nat \ {0}, f \in Nat \ {0}, g \in Nat \ {0} :
        e = x[2] /\ f = y[2] /\ g = z[2]
  BY OfFinites
<1>2. /\ Amounts(x, x[1], e) /\ Amounts(y, y[1], f) /\ Amounts(z, z[1], g)
      /\ x[1] \in Int /\ y[1] \in Int /\ z[1] \in Int
  BY <1>1, OfFinites
<1>3. e * f \in Nat \ {0} /\ x[1] * f \in Int /\ Amounts(x, x[1] * f, e * f)
  BY <1>2, Rescaled
<1>4. f * e \in Nat \ {0} /\ y[1] * e \in Int /\ Amounts(y, y[1] * e, f * e)
  BY <1>2, Rescaled
<1>5. f * e = e * f
  OBVIOUS
<1>6. /\ (e * f) * g \in Nat \ {0} /\ (x[1] * f) * g \in Int
      /\ Amounts(x, (x[1] * f) * g, (e * f) * g)
  BY <1>3, Rescaled
<1>7. (y[1] * e) * g \in Int /\ Amounts(y, (y[1] * e) * g, (e * f) * g)
  BY <1>4, <1>5, Rescaled
<1>8. /\ z[1] * (e * f) \in Int
      /\ Amounts(z, z[1] * (e * f), g * (e * f))
  BY <1>2, <1>3, Rescaled
<1>9. g * (e * f) = (e * f) * g
  BY <1>3
<1> QED
  BY <1>6, <1>7, <1>8, <1>9

\* What a fraction is worth.
LEMMA FractionIs ==
  ASSUME NEW n \in Int, NEW e \in Nat \ {0}, NEW a \in Int, NEW d \in Nat \ {0},
         n * d = a * e
  PROVE  Fraction(n, e) \in Finites /\ Amounts(Fraction(n, e), a, d)
<1>1. PICK p : p = Shared(n, e)
  OBVIOUS
<1>2. /\ p \in Nat \ {0}
      /\ n \div p \in Int /\ n = p * (n \div p)
      /\ e \div p \in Nat \ {0} /\ e = p * (e \div p)
  BY <1>1, SharedDivides
<1>3. PICK m \in Int, f \in Nat \ {0} : m = n \div p /\ f = e \div p
  BY <1>2
<1>4. Fraction(n, e) = <<m, f>>
  BY <1>1, <1>3 DEF Fraction
<1>5. n = p * m /\ e = p * f
  BY <1>2, <1>3
<1>6. (p * m) * d = a * (p * f)
  BY <1>5
<1>7. p * (m * d) = p * (a * f)
  <2>1. p * (m * d) = (p * m) * d
    BY <1>2
  <2>2. p * (a * f) = a * (p * f)
    BY <1>2
  <2> QED
    BY <1>6, <2>1, <2>2
<1>8. m * d \in Int /\ a * f \in Int
  OBVIOUS
<1>9. m * d = a * f
  BY <1>2, <1>7, <1>8, Cancelling
<1> QED
  BY <1>4, <1>9 DEF Amounts, Finites

\* What two values are brought to before they are added or compared.
LEMMA OverFacts ==
  ASSUME NEW x \in Finites, NEW y \in Finites
  PROVE  \E q, u, v \in Nat \ {0} :
           /\ x[2] = q * u /\ y[2] = q * v
           /\ Over(x, y) = x[1] * v /\ Over(y, x) = y[1] * u
           /\ Common(x, y) = x[2] * v
<1>1. PICK q : q = Shared(x[2], y[2])
  OBVIOUS
<1>2. x[2] \in Nat \ {0} /\ y[2] \in Nat \ {0}
  BY OfFinites
<1>3. x[2] \in Int /\ q = Shared(x[2], y[2])
  BY <1>1, <1>2
<1>4. /\ q \in Nat \ {0}
      /\ x[2] \div q \in Int /\ x[2] = q * (x[2] \div q)
      /\ y[2] \div q \in Nat \ {0} /\ y[2] = q * (y[2] \div q)
  <2>1. PICK k \in Int, l \in Nat \ {0} : k = x[2] /\ l = y[2]
    BY <1>2
  <2>2. q = Shared(k, l)
    BY <1>3, <2>1
  <2>3. /\ q \in Nat \ {0}
        /\ k \div q \in Int /\ k = q * (k \div q)
        /\ l \div q \in Nat \ {0} /\ l = q * (l \div q)
    BY <2>2, SharedDivides
  <2> QED
    BY <2>1, <2>3
<1>5. Shared(y[2], x[2]) = q
  <2>1. {p \in Powers : y[2] % p = 0 /\ x[2] % p = 0}
          = {p \in Powers : x[2] % p = 0 /\ y[2] % p = 0}
    OBVIOUS
  <2> QED
    BY <1>1, <2>1 DEF Shared
<1>6. y[2] \in Int /\ x[2] \in Nat \ {0}
  BY <1>2
<1>7. x[2] \div q \in Nat \ {0}
  BY <1>5, <1>6, SharedDivides
<1>8. PICK u \in Nat \ {0}, v \in Nat \ {0} : u = x[2] \div q /\ v = y[2] \div q
  BY <1>4, <1>7
<1>9. x[2] = q * u /\ y[2] = q * v
  BY <1>4, <1>8
<1>10. Over(x, y) = x[1] * v /\ Over(y, x) = y[1] * u /\ Common(x, y) = x[2] * v
  BY <1>1, <1>5, <1>8 DEF Over, Common
<1> QED
  BY <1>4, <1>9, <1>10

\* Comparing, adding and multiplying over a shared denominator is comparing, adding and
\* multiplying whole numbers.
LEMMA LessIs ==
  ASSUME NEW x \in Finites, NEW y \in Finites, NEW a \in Int, NEW b \in Int,
         NEW d \in Nat \ {0}, Amounts(x, a, d), Amounts(y, b, d)
  PROVE  Less(x, y) <=> a < b
<1>1. PICK q \in Nat \ {0}, u \in Nat \ {0}, v \in Nat \ {0} :
        /\ x[2] = q * u /\ y[2] = q * v
        /\ Over(x, y) = x[1] * v /\ Over(y, x) = y[1] * u
        /\ Common(x, y) = x[2] * v
  BY OverFacts
<1>2. PICK m \in Int, n \in Int : m = x[1] /\ n = y[1]
  BY OfFinites
<1>3. Less(x, y) <=> m * v < n * u
  <2>1. ~IsNaN(x) /\ ~IsNaN(y) /\ Finite(x) /\ Finite(y)
    BY OfFinites
  <2> QED
    BY <1>1, <1>2, <2>1 DEF Less
<1>4. m * d = a * (q * u) /\ n * d = b * (q * v)
  BY <1>1, <1>2 DEF Amounts
<1>5. (m * d) * v = (a * (q * u)) * v /\ (n * d) * u = (b * (q * v)) * u
  BY <1>4
<1>6. PICK k \in Nat \ {0} : k = q * (u * v)
  <2>1. u * v > 0
    BY Cancelling
  <2>2. PICK w \in Nat \ {0} : w = u * v
    BY <2>1
  <2>3. q * w > 0
    BY Cancelling
  <2> QED
    BY <2>2, <2>3
<1>7. d * (m * v) = k * a /\ d * (n * u) = k * b
  BY <1>5, <1>6
<1>8. m * v \in Int /\ n * u \in Int
  OBVIOUS
<1>9. m * v < n * u <=> d * (m * v) < d * (n * u)
  BY <1>8, Cancelling
<1>10. k * a < k * b <=> a < b
  BY Cancelling
<1> QED
  BY <1>3, <1>7, <1>9, <1>10

LEMMA PlusIs ==
  ASSUME NEW x \in Finites, NEW y \in Finites, NEW a \in Int, NEW b \in Int,
         NEW d \in Nat \ {0}, Amounts(x, a, d), Amounts(y, b, d)
  PROVE  Plus(x, y) \in Finites /\ a + b \in Int /\ Amounts(Plus(x, y), a + b, d)
<1>1. PICK q \in Nat \ {0}, u \in Nat \ {0}, v \in Nat \ {0} :
        /\ x[2] = q * u /\ y[2] = q * v
        /\ Over(x, y) = x[1] * v /\ Over(y, x) = y[1] * u
        /\ Common(x, y) = x[2] * v
  BY OverFacts
<1>2. PICK m \in Int, n \in Int : m = x[1] /\ n = y[1]
  BY OfFinites
<1>3. Plus(x, y) = Fraction(m * v + n * u, (q * u) * v)
  <2>1. Finite(x) /\ Finite(y)
    BY OfFinites
  <2> QED
    BY <1>1, <1>2, <2>1 DEF Plus
<1>4. m * d = a * (q * u) /\ n * d = b * (q * v)
  BY <1>1, <1>2 DEF Amounts
<1>5. (m * d) * v = (a * (q * u)) * v /\ (n * d) * u = (b * (q * v)) * u
  BY <1>4
<1>6. (m * v + n * u) * d = (a + b) * ((q * u) * v)
  BY <1>5
<1>7. m * v + n * u \in Int /\ a + b \in Int
  OBVIOUS
<1>8. (q * u) * v \in Nat \ {0}
  <2>1. q * u > 0
    BY Cancelling
  <2>2. PICK w \in Nat \ {0} : w = q * u
    BY <2>1
  <2>3. w * v > 0
    BY Cancelling
  <2> QED
    BY <2>2, <2>3
<1>9. PICK s \in Int, w \in Nat \ {0}, c \in Int :
        s = m * v + n * u /\ w = (q * u) * v /\ c = a + b
  BY <1>7, <1>8
<1>10. s * d = c * w
  BY <1>6, <1>9
<1>11. Fraction(s, w) \in Finites /\ Amounts(Fraction(s, w), c, d)
  BY <1>10, FractionIs
<1> QED
  BY <1>3, <1>9, <1>11

LEMMA TimesIs ==
  ASSUME NEW x \in Finites, NEW y \in Finites, NEW a \in Int, NEW b \in Int,
         NEW d \in Nat \ {0}, NEW e \in Nat \ {0}, Amounts(x, a, d), Amounts(y, b, e)
  PROVE  /\ Times(x, y) \in Finites
         /\ a * b \in Int /\ d * e \in Nat \ {0} /\ Amounts(Times(x, y), a * b, d * e)
<1>1. PICK m \in Int, n \in Int, u \in Nat \ {0}, v \in Nat \ {0} :
        m = x[1] /\ n = y[1] /\ u = x[2] /\ v = y[2]
  BY OfFinites
<1>2. m * d = a * u /\ n * e = b * v
  BY <1>1 DEF Amounts
<1>3. (m * d) * (n * e) = (a * u) * (b * v)
  BY <1>2
<1>4. (m * n) * (d * e) = (a * b) * (u * v)
  BY <1>3
<1>5. u * v > 0 /\ d * e > 0
  BY Cancelling
<1>6. PICK s \in Int, w \in Nat \ {0}, c \in Int, f \in Nat \ {0} :
        s = m * n /\ w = u * v /\ c = a * b /\ f = d * e
  BY <1>5
<1>7. s * f = c * w
  BY <1>4, <1>6
<1>8. Fraction(s, w) \in Finites /\ Amounts(Fraction(s, w), c, f)
  BY <1>7, FractionIs
<1>9. Times(x, y) = Fraction(s, w)
  BY <1>1, <1>6 DEF Times
<1> QED
  BY <1>6, <1>8, <1>9

-----------------------------------------------------------------------------
(* f64, the order on what is a number.                                     *)

Numbers == Floats \ {NaN}
AtMost(x, y) == ~Less(y, x)

LEMMA NumbersAre ==
  ASSUME NEW x \in Numbers
  PROVE  x \in Finites \/ x = Inf \/ x = NegInf
BY FinitesFacts DEF Numbers

LEMMA NumbersFrom ==
  /\ Finites \subseteq Numbers /\ Numbers \subseteq Floats
  /\ Inf \in Numbers /\ NegInf \in Numbers
BY DEF Numbers, Finites, Floats, Inf, NegInf, NaN

\* The infinities are at the ends.
LEMMA Ends ==
  ASSUME NEW x \in Numbers
  PROVE  /\ ~Less(Inf, x)
         /\ ~Less(x, NegInf)
         /\ x \in Finites => Less(x, Inf) /\ Less(NegInf, x)
         /\ Less(NegInf, Inf)
<1>1. /\ Inf[1] = 1 /\ Inf[2] = 0 /\ NegInf[1] = -1 /\ NegInf[2] = 0
      /\ ~IsNaN(Inf) /\ ~IsNaN(NegInf) /\ ~Finite(Inf) /\ ~Finite(NegInf)
  BY DEF Inf, NegInf, NaN, IsNaN, Finite
<1>2. ~Less(Inf, Inf) /\ ~Less(NegInf, NegInf) /\ ~Less(Inf, NegInf) /\ Less(NegInf, Inf)
  BY <1>1 DEF Less
<1>3. CASE x \in Finites
  <2>1. PICK n \in Int, d \in Nat \ {0} : n = x[1] /\ d = x[2]
    BY <1>3, OfFinites
  <2>2. ~IsNaN(x) /\ Finite(x)
    BY <1>3, OfFinites
  <2>3. n * 0 = 0 /\ 1 * d = d /\ -1 * d < 0 /\ 0 < d
    OBVIOUS
  <2>4. Less(x, Inf) <=> n * 0 < 1 * d
    BY <1>1, <2>1, <2>2 DEF Less
  <2>5. Less(Inf, x) <=> 1 * d < n * 0
    BY <1>1, <2>1, <2>2 DEF Less
  <2>6. Less(x, NegInf) <=> n * 0 < -1 * d
    BY <1>1, <2>1, <2>2 DEF Less
  <2>7. Less(NegInf, x) <=> -1 * d < n * 0
    BY <1>1, <2>1, <2>2 DEF Less
  <2> QED
    BY <1>2, <2>3, <2>4, <2>5, <2>6, <2>7
<1>4. CASE x = Inf
  BY <1>2, <1>4, OfFinites
<1>5. CASE x = NegInf
  BY <1>2, <1>5, OfFinites
<1> QED
  BY <1>3, <1>4, <1>5, NumbersAre

\* It is total.
LEMMA Ordered ==
  ASSUME NEW x \in Numbers, NEW y \in Numbers
  PROVE  /\ AtMost(x, x)
         /\ AtMost(x, y) \/ AtMost(y, x)
         /\ Less(x, y) <=> ~AtMost(y, x)
         /\ Less(x, y) => AtMost(x, y)
<1>1. ~(Less(x, y) /\ Less(y, x))
  <2>1. CASE x \in Finites /\ y \in Finites
    <3>1. PICK d \in Nat \ {0}, a \in Int, b \in Int, c \in Int :
            Amounts(x, a, d) /\ Amounts(y, b, d) /\ Amounts(y, c, d)
      BY <2>1, OverOne
    <3>2. Less(x, y) <=> a < b
      BY <2>1, <3>1, LessIs
    <3>3. Less(y, x) <=> b < a
      BY <2>1, <3>1, LessIs
    <3> QED
      BY <3>2, <3>3
  <2>2. CASE x = Inf \/ y = NegInf
    BY <2>2, Ends
  <2>3. CASE x = NegInf \/ y = Inf
    BY <2>3, Ends
  <2> QED
    BY <2>1, <2>2, <2>3, NumbersAre
<1>2. ~Less(x, x)
  <2>1. CASE x \in Finites
    <3>1. PICK d \in Nat \ {0}, a \in Int, b \in Int, c \in Int :
            Amounts(x, a, d) /\ Amounts(x, b, d) /\ Amounts(x, c, d)
      BY <2>1, OverOne
    <3>2. Less(x, x) <=> a < a
      BY <2>1, <3>1, LessIs
    <3> QED
      BY <3>2
  <2> QED
    BY <2>1, Ends, NumbersAre
<1> QED
  BY <1>1, <1>2 DEF AtMost

LEMMA AtMostTransitive ==
  ASSUME NEW x \in Numbers, NEW y \in Numbers, NEW z \in Numbers,
         AtMost(x, y), AtMost(y, z)
  PROVE  AtMost(x, z)
<1>1. CASE x \in Finites /\ y \in Finites /\ z \in Finites
  <2>1. PICK d \in Nat \ {0}, a \in Int, b \in Int, c \in Int :
          Amounts(x, a, d) /\ Amounts(y, b, d) /\ Amounts(z, c, d)
    BY <1>1, OverOne
  <2>2. Less(y, x) <=> b < a
    BY <1>1, <2>1, LessIs
  <2>3. Less(z, y) <=> c < b
    BY <1>1, <2>1, LessIs
  <2>4. Less(z, x) <=> c < a
    BY <1>1, <2>1, LessIs
  <2> QED
    BY <2>2, <2>3, <2>4 DEF AtMost
<1>2. CASE x = NegInf
  BY <1>2, Ends DEF AtMost
<1>3. CASE z = Inf
  BY <1>3, Ends DEF AtMost
<1>4. ASSUME x = Inf \/ y = Inf PROVE z = Inf
  <2>1. CASE y = Inf
    <3>1. ~Less(z, Inf)
      BY <2>1 DEF AtMost
    <3>2. z # NegInf /\ z \notin Finites
      BY <3>1, Ends
    <3> QED
      BY <3>2, NumbersAre
  <2>2. CASE x = Inf
    <3>1. ~Less(y, Inf)
      BY <2>2 DEF AtMost
    <3>2. y # NegInf /\ y \notin Finites
      BY <3>1, Ends
    <3>3. y = Inf
      BY <3>2, NumbersAre
    <3> QED
      BY <2>1, <3>3
  <2> QED
    BY <1>4, <2>1, <2>2
<1>5. ASSUME y = NegInf \/ z = NegInf PROVE x = NegInf
  <2>1. CASE y = NegInf
    <3>1. ~Less(NegInf, x)
      BY <2>1 DEF AtMost
    <3>2. x # Inf /\ x \notin Finites
      BY <3>1, Ends
    <3> QED
      BY <3>2, NumbersAre
  <2>2. CASE z = NegInf
    <3>1. ~Less(NegInf, y)
      BY <2>2 DEF AtMost
    <3>2. y # Inf /\ y \notin Finites
      BY <3>1, Ends
    <3>3. y = NegInf
      BY <3>2, NumbersAre
    <3> QED
      BY <2>1, <3>3
  <2> QED
    BY <1>5, <2>1, <2>2
<1> QED
  BY <1>1, <1>2, <1>3, <1>4, <1>5, NumbersAre

\* f64::min of two numbers is one of them, and no greater than either.
LEMMA LeastIsLeast ==
  ASSUME NEW x \in Numbers, NEW y \in Numbers
  PROVE  /\ AtMost(Least(x, y), x) /\ AtMost(Least(x, y), y)
         /\ Least(x, y) = x \/ Least(x, y) = y
<1>1. ~IsNaN(x) /\ ~IsNaN(y) /\ AtMost(x, x) /\ AtMost(y, y)
  BY Ordered DEF Numbers, IsNaN
<1>2. Less(y, x) => AtMost(y, x)
  BY Ordered
<1>3. CASE Less(y, x)
  <2>1. Least(x, y) = y
    BY <1>1, <1>3 DEF Least
  <2> QED
    BY <1>1, <1>2, <1>3, <2>1
<1>4. CASE ~Less(y, x)
  <2>1. Least(x, y) = x
    BY <1>1, <1>4 DEF Least
  <2> QED
    BY <1>1, <1>4, <2>1 DEF AtMost
<1> QED
  BY <1>3, <1>4

-----------------------------------------------------------------------------
(* The greatest and the least of finitely many values.                     *)

\* A finite set has a greatest member, whatever total order it is compared by.
LEMMA GreatestOf ==
  ASSUME NEW S, IsFiniteSet(S), S # {}, NEW R,
         \A x, y \in S : <<x, y>> \in R \/ <<y, x>> \in R,
         \A x, y, z \in S : <<x, y>> \in R /\ <<y, z>> \in R => <<x, z>> \in R
  PROVE  \E x \in S : \A y \in S : <<y, x>> \in R
<1> DEFINE Top(T, x) == x \in T /\ \A y \in T : <<y, x>> \in R
           Has(n) == \A T \in SUBSET S :
                       T # {} /\ Cardinality(T) = n => \E x \in T : Top(T, x)
           n == Cardinality(S)
           Good == {m \in 0 .. n : Has(m)}
<1>1. n \in Nat
  BY FS_CardinalityType
<1>2. 0 \in Good
  <2>1. ASSUME NEW T \in SUBSET S, T # {}, Cardinality(T) = 0 PROVE FALSE
    <3>1. IsFiniteSet(T)
      BY FS_Subset
    <3> QED
      BY <2>1, <3>1, FS_EmptySet
  <2>2. 0 \in 0 .. n
    BY <1>1
  <2> QED
    BY <2>1, <2>2
<1>3. ASSUME NEW m \in 0 .. n - 1, m \in Good PROVE m + 1 \in Good
  <2>1. m + 1 \in 0 .. n /\ m \in Nat
    BY <1>1
  <2>2. ASSUME NEW T \in SUBSET S, T # {}, Cardinality(T) = m + 1
        PROVE  \E x \in T : Top(T, x)
    <3>1. PICK t \in T : TRUE
      BY <2>2
    <3>2. PICK U : U = T \ {t}
      OBVIOUS
    <3>3. U \in SUBSET S /\ IsFiniteSet(T)
      BY <3>2, FS_Subset
    <3>4. Cardinality(U) = m
      <4>1. Cardinality(T \ {t}) = Cardinality(T) - 1
        BY <3>1, <3>3, FS_RemoveElement
      <4> QED
        BY <2>1, <2>2, <3>2, <4>1
    <3>5. CASE U = {}
      <4>1. \A y \in T : y = t
        BY <3>2, <3>5
      <4>2. <<t, t>> \in R
        BY <3>1
      <4> QED
        BY <3>1, <4>1, <4>2
    <3>6. CASE U # {}
      <4>1. PICK x \in U : Top(U, x)
        <5>1. Has(m)
          BY <1>3
        <5> QED
          BY <3>3, <3>4, <3>6, <5>1
      <4>2. x \in T /\ x \in S /\ t \in S
        BY <3>1, <3>2
      <4>3. CASE <<t, x>> \in R
        <5>1. Top(T, x)
          BY <3>2, <4>1, <4>2, <4>3
        <5> QED
          BY <4>2, <5>1
      <4>4. CASE <<x, t>> \in R
        <5>1. \A y \in U : <<y, t>> \in R
          BY <3>3, <4>1, <4>2, <4>4
        <5>2. <<t, t>> \in R
          BY <4>2
        <5>3. Top(T, t)
          BY <3>1, <3>2, <5>1, <5>2
        <5> QED
          BY <3>1, <5>3
      <4> QED
        BY <4>2, <4>3, <4>4
    <3> QED
      BY <3>5, <3>6
  <2>3. Has(m + 1)
    BY <2>2
  <2> HIDE DEF Has
  <2> QED
    BY <2>1, <2>3
<1>4. n \in Good
  <2> HIDE DEF Good, n
  <2>1. \A i \in 0 .. n : i \in Good
    BY <1>1, <1>2, <1>3, UpTo
  <2> QED
    BY <1>1, <2>1
<1>5. Has(n)
  <2> HIDE DEF Has
  <2> QED
    BY <1>4
<1> QED
  BY <1>5

\* What folding f64::max and f64::min over a finite set keeps.
LEMMA MostOfFacts ==
  ASSUME NEW S \in SUBSET Floats, IsFiniteSet(S), NEW e \in S, e # NaN
  PROVE  /\ MostOf(S) \in S /\ MostOf(S) \in Numbers
         /\ \A y \in S : y # NaN => AtMost(y, MostOf(S))
<1> DEFINE T == S \ {NaN}
           R == {p \in T \X T : AtMost(p[1], p[2])}
<1>1. T \subseteq Numbers /\ T # {} /\ IsFiniteSet(T)
  BY FS_Subset DEF Numbers
<1>2. \A x, y \in T : <<x, y>> \in R <=> AtMost(x, y)
  OBVIOUS
<1> HIDE DEF T, R
<1>3. \A x, y \in T : <<x, y>> \in R \/ <<y, x>> \in R
  BY <1>1, <1>2, Ordered
<1>4. \A x, y, z \in T : <<x, y>> \in R /\ <<y, z>> \in R => <<x, z>> \in R
  BY <1>1, <1>2, AtMostTransitive
<1>5. \E x \in T : \A y \in T : <<y, x>> \in R
  BY <1>1, <1>3, <1>4, GreatestOf
<1>6. \E x \in T : \A y \in T : ~Less(x, y)
  BY <1>2, <1>5 DEF AtMost
<1>7. PICK g : g = MostOf(S)
  OBVIOUS
<1>8. g = CHOOSE x \in T : \A y \in T : ~Less(x, y)
  BY <1>7 DEF MostOf, T
<1>9. g \in T /\ \A y \in T : ~Less(g, y)
  BY <1>6, <1>8
<1> QED
  BY <1>1, <1>7, <1>9 DEF T, AtMost

LEMMA LeastOfFacts ==
  ASSUME NEW S \in SUBSET Floats, IsFiniteSet(S), NEW e \in S, e # NaN
  PROVE  /\ LeastOf(S) \in S /\ LeastOf(S) \in Numbers
         /\ \A y \in S : y # NaN => AtMost(LeastOf(S), y)
<1> DEFINE T == S \ {NaN}
           R == {p \in T \X T : AtMost(p[2], p[1])}
<1>1. T \subseteq Numbers /\ T # {} /\ IsFiniteSet(T)
  BY FS_Subset DEF Numbers
<1>2. \A x, y \in T : <<x, y>> \in R <=> AtMost(y, x)
  OBVIOUS
<1> HIDE DEF T, R
<1>3. \A x, y \in T : <<x, y>> \in R \/ <<y, x>> \in R
  BY <1>1, <1>2, Ordered
<1>4. \A x, y, z \in T : <<x, y>> \in R /\ <<y, z>> \in R => <<x, z>> \in R
  BY <1>1, <1>2, AtMostTransitive
<1>5. \E x \in T : \A y \in T : <<y, x>> \in R
  BY <1>1, <1>3, <1>4, GreatestOf
<1>6. \E x \in T : \A y \in T : ~Less(y, x)
  BY <1>2, <1>5 DEF AtMost
<1>7. PICK g : g = LeastOf(S)
  OBVIOUS
<1>8. g = CHOOSE x \in T : \A y \in T : ~Less(y, x)
  BY <1>7 DEF LeastOf, T
<1>9. g \in T /\ \A y \in T : ~Less(y, g)
  BY <1>6, <1>8
<1> QED
  BY <1>1, <1>7, <1>9 DEF T, AtMost

\* The values of a function on a finite set are finitely many.
LEMMA FiniteImage ==
  ASSUME NEW S, IsFiniteSet(S), NEW f, DOMAIN f = S, f = [x \in S |-> f[x]]
  PROVE  IsFiniteSet({f[x] : x \in S})
<1> DEFINE T == {f[x] : x \in S}
<1>1. f \in [S -> T] /\ \A t \in T : \E x \in S : f[x] = t
  OBVIOUS
<1>2. f \in Surjection(S, T)
  BY <1>1 DEF Surjection
<1> HIDE DEF T
<1>3. IsFiniteSet(T)
  BY <1>2, FS_Surjection
<1> QED
  BY <1>3 DEF T

-----------------------------------------------------------------------------
(* Sums and products.                                                      *)

LEMMA Whole ==
  ASSUME NEW n \in Int
  PROVE  /\ F(n) \in Finites /\ F(n) \in Floats /\ F(n) \in Numbers
         /\ Amounts(F(n), n, 1) /\ \A d \in Nat \ {0} : Amounts(F(n), n * d, d)
         /\ F(n)[1] = n /\ F(n)[2] = 1
BY OfFinites, NumbersFrom DEF F, Finites, Amounts

LEMMA ZeroOne ==
  /\ Zero \in Finites /\ One \in Finites /\ Zero \in Numbers /\ One \in Numbers
  /\ \A d \in Nat \ {0} : Amounts(Zero, 0, d) /\ Amounts(One, d, d)
<1>1. Zero \in Finites /\ One \in Finites
  BY Whole DEF Zero, One
<1>2. \A d \in Nat \ {0} : Amounts(Zero, 0, d) /\ Amounts(One, d, d)
  BY DEF Zero, One, F, Amounts
<1> QED
  BY <1>1, <1>2, NumbersFrom

\* An operation on what is not finite still answers an f64.
LEMMA OverNothing == ASSUME NEW n PROVE Fraction(n, 0) \in {Inf, NegInf, NaN}
BY DEF Fraction

LEMMA PlusCloses ==
  ASSUME NEW x \in Floats, NEW y \in Floats
  PROVE  /\ Plus(x, y) \in Floats
         /\ x \in Finites /\ y \in Finites => Plus(x, y) \in Finites
<1>1. CASE x \in Finites /\ y \in Finites
  <2>1. PICK d \in Nat \ {0}, a \in Int, b \in Int, c \in Int :
          Amounts(x, a, d) /\ Amounts(y, b, d) /\ Amounts(y, c, d)
    BY <1>1, OverOne
  <2>2. Plus(x, y) \in Finites
    BY <1>1, <2>1, PlusIs
  <2> QED
    BY <2>2, OfFinites
<1>2. CASE ~(x \in Finites /\ y \in Finites)
  <2>1. ~(Finite(x) /\ Finite(y))
    BY <1>2, FinitesFacts
  <2>2. Plus(x, y) = x \/ Plus(x, y) = Fraction(x[1] * y[2] + y[1] * x[2], 0)
    BY <2>1 DEF Plus
  <2> QED
    BY <1>2, <2>2, OverNothing DEF Floats
<1> QED
  BY <1>1, <1>2

LEMMA TimesCloses ==
  ASSUME NEW x \in Floats, NEW y \in Floats
  PROVE  /\ Times(x, y) \in Floats
         /\ x \in Finites /\ y \in Finites => Times(x, y) \in Finites
<1>1. CASE x \in Finites /\ y \in Finites
  <2>1. /\ x[1] \in Int /\ x[2] \in Nat \ {0} /\ Amounts(x, x[1], x[2])
        /\ y[1] \in Int /\ y[2] \in Nat \ {0} /\ Amounts(y, y[1], y[2])
    BY <1>1, OfFinites
  <2>2. Times(x, y) \in Finites
    BY <1>1, <2>1, TimesIs
  <2> QED
    BY <2>2, OfFinites
<1>2. CASE ~(x \in Finites /\ y \in Finites)
  <2>1. x[2] = 0 \/ y[2] = 0
    BY <1>2, FinitesFacts DEF Finite
  <2>2. x[2] \in Int /\ y[2] \in Int
    BY FinitesFacts, OfFinites DEF Inf, NegInf, NaN
  <2>3. x[2] * y[2] = 0
    BY <2>1, <2>2
  <2>4. Times(x, y) = Fraction(x[1] * y[1], 0)
    BY <2>3 DEF Times
  <2> QED
    BY <1>2, <2>4, OverNothing DEF Floats
<1> QED
  BY <1>1, <1>2

LEMMA MinusCloses ==
  ASSUME NEW x \in Floats, NEW y \in Floats
  PROVE  /\ Minus(x, y) \in Floats
         /\ x \in Finites /\ y \in Finites => Minus(x, y) \in Finites
<1>1. F(-1) \in Finites /\ F(-1) \in Floats
  BY Whole
<1>2. PICK z : z = Times(F(-1), y)
  OBVIOUS
<1>3. z \in Floats /\ (y \in Finites => z \in Finites)
  BY <1>1, <1>2, TimesCloses
<1> QED
  BY <1>2, <1>3, PlusCloses DEF Minus

LEMMA MinusIs ==
  ASSUME NEW x \in Finites, NEW y \in Finites, NEW a \in Int, NEW b \in Int,
         NEW d \in Nat \ {0}, Amounts(x, a, d), Amounts(y, b, d)
  PROVE  Minus(x, y) \in Finites /\ a - b \in Int /\ Amounts(Minus(x, y), a - b, d)
<1>1. F(-1) \in Finites /\ Amounts(F(-1), -1, 1) /\ -1 \in Int /\ 1 \in Nat \ {0}
  <2>1. PICK m \in Int : m = -1
    OBVIOUS
  <2>2. F(m) \in Finites /\ Amounts(F(m), m, 1)
    BY Whole
  <2> QED
    BY <2>1, <2>2
<1>2. PICK z : z = Times(F(-1), y)
  OBVIOUS
<1>3. z \in Finites /\ Amounts(z, -1 * b, 1 * d)
  BY <1>1, <1>2, TimesIs
<1>4. -1 * b = -b /\ 1 * d = d /\ -b \in Int
  OBVIOUS
<1>5. Plus(x, z) \in Finites /\ Amounts(Plus(x, z), a + (-b), d)
  BY <1>3, <1>4, PlusIs
<1>6. a + (-b) = a - b
  OBVIOUS
<1> QED
  BY <1>2, <1>5, <1>6 DEF Minus

LEMMA LeastMostClose ==
  ASSUME NEW x \in Floats, NEW y \in Floats
  PROVE  Least(x, y) \in Floats /\ Most(x, y) \in Floats
BY DEF Least, Most

\* A number that is not negative has a numerator that is not.
LEMMA NotNegative ==
  ASSUME NEW x \in Finites, NEW a \in Int, NEW d \in Nat \ {0}, Amounts(x, a, d)
  PROVE  /\ AtMost(Zero, x) <=> a \in Nat
         /\ Positive(x) <=> a \in Nat \ {0}
<1>1. Zero \in Finites /\ Amounts(Zero, 0, d)
  BY ZeroOne
<1>2. Less(x, Zero) <=> a < 0
  BY <1>1, LessIs
<1>3. Less(Zero, x) <=> 0 < a
  BY <1>1, LessIs
<1> QED
  BY <1>2, <1>3 DEF AtMost, Positive

\* A whole number is above zero as f64 just when it is above zero.
LEMMA PositiveWhole ==
  ASSUME NEW x \in Int
  PROVE  Positive(F(x)) <=> x > 0
<1>1. F(x) \in Finites /\ Amounts(F(x), x, 1)
  BY Whole
<1>2. Positive(F(x)) <=> x \in Nat \ {0}
  BY <1>1, NotNegative
<1> QED
  BY <1>2

\* A whole number times one is that number.
LEMMA TimesOne ==
  ASSUME NEW x \in Int
  PROVE  Times(F(x), F(1)) = F(x)
<1>1. PICK p : p = Shared(x, 1)
  OBVIOUS
<1>2. p \in Nat \ {0} /\ 1 \div p \in Nat \ {0} /\ 1 = p * (1 \div p)
  BY <1>1, SharedDivides
<1>3. p = 1
  <2>1. PICK q \in Nat \ {0} : q = 1 \div p /\ 1 = p * q
    BY <1>2
  <2>2. 1 <= q /\ p <= p
    BY <1>2, <2>1
  <2>3. p * 1 <= p * q
    BY <1>2, <2>1, <2>2, ProductsGrow
  <2>4. p * 1 = p
    BY <1>2
  <2>5. p <= 1
    BY <2>1, <2>3, <2>4
  <2> QED
    BY <1>2, <2>5
<1>4. x \div 1 = x /\ x * 1 = x /\ 1 * 1 = 1 /\ 1 \div 1 = 1
  OBVIOUS
<1>5. Fraction(x, 1) = <<x, 1>>
  BY <1>1, <1>3, <1>4 DEF Fraction
<1>6. Times(F(x), F(1)) = Fraction(x * 1, 1 * 1)
  BY DEF Times, F
<1> QED
  BY <1>4, <1>5, <1>6 DEF F

\* What is multiplied by more is more, unless it was nothing to begin with.
LEMMA MoreTimes ==
  ASSUME NEW x \in Floats, NEW m \in Nat \ {0}, NEW n \in Nat, m <= n
  PROVE  /\ Times(F(m), x) \in Floats /\ Times(F(n), x) \in Floats
         /\ Times(F(m), x) # NaN /\ Positive(Times(F(m), x)) =>
              /\ Times(F(n), x) # NaN
              /\ AtMost(Times(F(m), x), Times(F(n), x))
         /\ Times(F(m), x) \in Finites => Times(F(n), x) \in Finites
<1>1. /\ m \in Int /\ n \in Int /\ n # 0
      /\ F(m) \in Finites /\ F(m) \in Floats /\ Amounts(F(m), m, 1) /\ F(m)[1] = m /\ F(m)[2] = 1
      /\ F(n) \in Finites /\ F(n) \in Floats /\ Amounts(F(n), n, 1) /\ F(n)[1] = n /\ F(n)[2] = 1
  BY Whole
<1>2. Times(F(m), x) \in Floats /\ Times(F(n), x) \in Floats
  BY <1>1, TimesCloses
<1>3. CASE x \in Finites
  <2>1. PICK a \in Int, d \in Nat \ {0} : Amounts(x, a, d)
    BY <1>3, OfFinites
  <2>2. /\ Times(F(m), x) \in Finites /\ m * a \in Int
        /\ 1 * d \in Nat \ {0} /\ Amounts(Times(F(m), x), m * a, 1 * d)
    BY <1>1, <1>3, <2>1, TimesIs
  <2>3. Times(F(n), x) \in Finites /\ n * a \in Int /\ Amounts(Times(F(n), x), n * a, 1 * d)
    BY <1>1, <1>3, <2>1, TimesIs
  <2>4. PICK i \in Int, j \in Int, e \in Nat \ {0} : i = m * a /\ j = n * a /\ e = 1 * d
    BY <2>2, <2>3
  <2>5. Amounts(Times(F(m), x), i, e) /\ Amounts(Times(F(n), x), j, e)
    BY <2>2, <2>3, <2>4
  <2>6. Positive(Times(F(m), x)) => i \in Nat \ {0}
    BY <2>2, <2>5, NotNegative
  <2>7. ASSUME i \in Nat \ {0} PROVE i <= j
    <3>1. m * 0 < m * a
      BY <2>4, <2>7
    <3>2. 0 < a
      BY <3>1, Cancelling
    <3>3. a \in Nat /\ m \in Nat /\ a <= a
      BY <3>2
    <3>4. m * a <= n * a
      BY <3>3, ProductsGrow
    <3> QED
      BY <2>4, <3>4
  <2>8. Less(Times(F(n), x), Times(F(m), x)) <=> j < i
    BY <2>2, <2>3, <2>5, LessIs
  <2>9. Times(F(n), x) # NaN
    BY <2>3, OfFinites
  <2> QED
    BY <1>2, <2>3, <2>6, <2>7, <2>8, <2>9 DEF AtMost
<1>4. CASE x \notin Finites
  <2>1. x = Inf \/ x = NegInf \/ x = NaN
    BY <1>4, FinitesFacts
  <2>2. /\ m * 1 = m /\ n * 1 = n /\ m * (-1) < 0 /\ n * (-1) < 0
        /\ m * 0 = 0 /\ n * 0 = 0 /\ m > 0 /\ n > 0
    BY <1>1
  <2>3. x[2] = 0 /\ 1 * 0 = 0
    BY <2>1 DEF Inf, NegInf, NaN
  <2>4. Times(F(m), x) = Fraction(m * x[1], 0) /\ Times(F(n), x) = Fraction(n * x[1], 0)
    BY <1>1, <2>3 DEF Times
  <2>5. Times(F(m), x) = Times(F(n), x)
    <3>1. CASE x = Inf
      BY <2>2, <2>4, <3>1 DEF Inf, Fraction
    <3>2. CASE x = NegInf
      BY <2>2, <2>4, <3>2 DEF NegInf, Fraction
    <3>3. CASE x = NaN
      BY <2>2, <2>4, <3>3 DEF NaN, Fraction
    <3> QED
      BY <2>1, <3>1, <3>2, <3>3
  <2>6. Times(F(m), x) # NaN => AtMost(Times(F(m), x), Times(F(m), x))
    BY <1>2, Ordered DEF Numbers
  <2> QED
    BY <1>2, <2>5, <2>6
<1> QED
  BY <1>3, <1>4

-----------------------------------------------------------------------------
(* Probabilities.                                                          *)

\* What a filter lets through is a probability.
Probable(x) == x \in Finites /\ AtMost(Zero, x) /\ AtMost(x, One)

LEMMA ProbableIs ==
  ASSUME NEW x \in Finites, NEW a \in Int, NEW d \in Nat \ {0}, Amounts(x, a, d)
  PROVE  Probable(x) <=> 0 <= a /\ a <= d
<1>1. Zero \in Finites /\ One \in Finites /\ Amounts(Zero, 0, d) /\ Amounts(One, d, d)
  BY ZeroOne
<1>2. Less(x, Zero) <=> a < 0
  BY <1>1, LessIs
<1>3. Less(One, x) <=> d < a
  BY <1>1, LessIs
<1> QED
  BY <1>2, <1>3 DEF Probable, AtMost

\* Products of probabilities are probabilities, and grow with what is multiplied.
LEMMA ProbableProduct ==
  ASSUME NEW x, Probable(x), NEW y, Probable(y)
  PROVE  Probable(Times(x, y))
<1>1. PICK a \in Int, d \in Nat \ {0} : Amounts(x, a, d)
  BY OfFinites DEF Probable
<1>2. PICK b \in Int, e \in Nat \ {0} : Amounts(y, b, e)
  BY OfFinites DEF Probable
<1>3. x \in Finites /\ y \in Finites
  BY DEF Probable
<1>4. 0 <= a /\ a <= d /\ 0 <= b /\ b <= e
  BY <1>1, <1>2, <1>3, ProbableIs
<1>5. /\ Times(x, y) \in Finites
      /\ a * b \in Int /\ d * e \in Nat \ {0} /\ Amounts(Times(x, y), a * b, d * e)
  BY <1>1, <1>2, <1>3, TimesIs
<1>6. a \in Nat /\ b \in Nat /\ d \in Nat /\ e \in Nat
  BY <1>4
<1>7. 0 <= a * b /\ a * b <= d * e
  BY <1>4, <1>6, ProductsGrow
<1>8. PICK n \in Int, m \in Nat \ {0} : n = a * b /\ m = d * e
  BY <1>5
<1>9. Amounts(Times(x, y), n, m) /\ 0 <= n /\ n <= m
  BY <1>5, <1>7, <1>8
<1> QED
  BY <1>5, <1>9, ProbableIs

LEMMA ProductsOrdered ==
  ASSUME NEW x, Probable(x), NEW y, Probable(y), NEW u, Probable(u), NEW v, Probable(v),
         AtMost(x, u), AtMost(y, v)
  PROVE  AtMost(Times(x, y), Times(u, v))
<1>1. x \in Finites /\ y \in Finites /\ u \in Finites /\ v \in Finites
  BY DEF Probable
<1>2. PICK d \in Nat \ {0}, a \in Int, c \in Int, s \in Int :
        /\ Amounts(x, a, d)
        /\ Amounts(u, c, d)
        /\ Amounts(u, s, d)
  BY <1>1, OverOne
<1>3. PICK e \in Nat \ {0}, b \in Int, f \in Int, t \in Int :
        /\ Amounts(y, b, e)
        /\ Amounts(v, f, e)
        /\ Amounts(v, t, e)
  BY <1>1, OverOne
<1>4. 0 <= a /\ 0 <= b /\ 0 <= c /\ 0 <= f
  <2>1. 0 <= a
    BY <1>1, <1>2, ProbableIs
  <2>2. 0 <= c
    BY <1>1, <1>2, ProbableIs
  <2>3. 0 <= b
    BY <1>1, <1>3, ProbableIs
  <2>4. 0 <= f
    BY <1>1, <1>3, ProbableIs
  <2> QED
    BY <2>1, <2>2, <2>3, <2>4
<1>5. a <= c
  <2>1. Less(u, x) <=> c < a
    BY <1>1, <1>2, LessIs
  <2> QED
    BY <2>1 DEF AtMost
<1>6. b <= f
  <2>1. Less(v, y) <=> f < b
    BY <1>1, <1>3, LessIs
  <2> QED
    BY <2>1 DEF AtMost
<1>7. a * b <= c * f
  BY <1>4, <1>5, <1>6, ProductsGrow
<1>8. /\ Times(x, y) \in Finites
      /\ a * b \in Int /\ d * e \in Nat \ {0} /\ Amounts(Times(x, y), a * b, d * e)
  BY <1>1, <1>2, <1>3, TimesIs
<1>9. Times(u, v) \in Finites /\ c * f \in Int /\ Amounts(Times(u, v), c * f, d * e)
  BY <1>1, <1>2, <1>3, TimesIs
<1>10. PICK n \in Int, o \in Int, m \in Nat \ {0} : n = a * b /\ o = c * f /\ m = d * e
  BY <1>8, <1>9
<1>11. Amounts(Times(x, y), n, m) /\ Amounts(Times(u, v), o, m) /\ n <= o
  BY <1>7, <1>8, <1>9, <1>10
<1>12. Less(Times(u, v), Times(x, y)) <=> o < n
  BY <1>8, <1>9, <1>11, LessIs
<1> QED
  BY <1>11, <1>12 DEF AtMost

LEMMA OneIsProbable == Probable(One) /\ Probable(Zero) /\ AtMost(One, One)
<1>1. /\ Amounts(One, 1, 1) /\ Amounts(Zero, 0, 1)
      /\ One \in Finites /\ Zero \in Finites /\ One \in Numbers
  BY ZeroOne
<1>2. Probable(One)
  <2>1. Probable(One) <=> 0 <= 1 /\ 1 <= 1
    BY <1>1, ProbableIs
  <2> QED
    BY <2>1
<1>3. Probable(Zero)
  <2>1. Probable(Zero) <=> 0 <= 0 /\ 0 <= 1
    BY <1>1, ProbableIs
  <2> QED
    BY <2>1
<1> QED
  BY <1>1, <1>2, <1>3, Ordered

\* What is left of a probability is one, and shrinks as it grows.
LEMMA ProbableRest ==
  ASSUME NEW x, Probable(x)
  PROVE  Probable(Minus(One, x))
<1>1. PICK a \in Int, d \in Nat \ {0} : Amounts(x, a, d)
  BY OfFinites DEF Probable
<1>2. x \in Finites /\ One \in Finites /\ Amounts(One, d, d) /\ d \in Int
  BY <1>1, ZeroOne DEF Probable
<1>3. 0 <= a /\ a <= d
  BY <1>1, <1>2, ProbableIs
<1>4. Minus(One, x) \in Finites /\ d - a \in Int /\ Amounts(Minus(One, x), d - a, d)
  BY <1>1, <1>2, MinusIs
<1>5. PICK n \in Int : n = d - a
  BY <1>4
<1>6. Amounts(Minus(One, x), n, d) /\ 0 <= n /\ n <= d
  BY <1>2, <1>3, <1>4, <1>5
<1> QED
  BY <1>4, <1>6, ProbableIs

LEMMA RestsOrdered ==
  ASSUME NEW x, Probable(x), NEW y, Probable(y), AtMost(x, y)
  PROVE  AtMost(Minus(One, y), Minus(One, x))
<1>1. x \in Finites /\ y \in Finites /\ One \in Finites
  BY ZeroOne DEF Probable
<1>2. PICK d \in Nat \ {0}, a \in Int, b \in Int, c \in Int :
        Amounts(x, a, d) /\ Amounts(y, b, d) /\ Amounts(One, c, d)
  BY <1>1, OverOne
<1>3. a <= b
  <2>1. Less(y, x) <=> b < a
    BY <1>1, <1>2, LessIs
  <2> QED
    BY <2>1 DEF AtMost
<1>4. Minus(One, x) \in Finites /\ c - a \in Int /\ Amounts(Minus(One, x), c - a, d)
  BY <1>1, <1>2, MinusIs
<1>5. Minus(One, y) \in Finites /\ c - b \in Int /\ Amounts(Minus(One, y), c - b, d)
  BY <1>1, <1>2, MinusIs
<1>6. Less(Minus(One, x), Minus(One, y)) <=> c - a < c - b
  BY <1>4, <1>5, LessIs
<1> QED
  BY <1>3, <1>6 DEF AtMost

-----------------------------------------------------------------------------
(* Quotients, and what is timed.                                           *)

LEMMA DividedIs ==
  ASSUME NEW x \in Finites, NEW y \in Finites, NEW a \in Int, NEW b \in Nat \ {0},
         NEW d \in Nat \ {0}, NEW e \in Nat \ {0}, Amounts(x, a, d), Amounts(y, b, e)
  PROVE  /\ Divided(x, y) \in Finites
         /\ a * e \in Int /\ d * b \in Nat \ {0} /\ Amounts(Divided(x, y), a * e, d * b)
<1>1. PICK m \in Int, n \in Int, u \in Nat \ {0}, v \in Nat \ {0} :
        m = x[1] /\ n = y[1] /\ u = x[2] /\ v = y[2]
  BY OfFinites
<1>2. m * d = a * u /\ n * e = b * v
  BY <1>1 DEF Amounts
<1>3. n > 0
  <2>1. Positive(y)
    BY NotNegative
  <2>2. Amounts(y, n, v)
    BY <1>1, OfFinites
  <2> QED
    BY <2>1, <2>2, NotNegative
<1>4. (m * v) * (d * b) = (a * e) * (u * n)
  <2>1. (m * d) * (b * v) = (a * u) * (n * e)
    BY <1>2
  <2>2. (m * v) * (d * b) = (m * d) * (b * v) /\ (a * e) * (u * n) = (a * u) * (n * e)
    OBVIOUS
  <2> QED
    BY <2>1, <2>2
<1>5. u * n > 0 /\ d * b > 0
  BY <1>3, Cancelling
<1>6. PICK s \in Int, w \in Nat \ {0}, c \in Int, f \in Nat \ {0} :
        s = m * v /\ w = u * n /\ c = a * e /\ f = d * b
  BY <1>5
<1>7. s * f = c * w
  BY <1>4, <1>6
<1>8. Fraction(s, w) \in Finites /\ Amounts(Fraction(s, w), c, f)
  BY <1>7, FractionIs
<1>9. Divided(x, y) = Fraction(s, w)
  BY <1>1, <1>6 DEF Divided
<1> QED
  BY <1>6, <1>8, <1>9

\* Over nothing it is not finite.
LEMMA DividedByNothing ==
  ASSUME NEW x \in Finites, NEW y \in Finites, NEW e \in Nat \ {0}, Amounts(y, 0, e)
  PROVE  ~Finite(Divided(x, y))
<1>1. x[1] \in Int /\ x[2] \in Nat \ {0} /\ y[1] \in Int /\ y[2] \in Nat \ {0}
  BY OfFinites
<1>2. y[1] = 0
  <2>1. Amounts(y, y[1], y[2]) /\ y[1] * e = 0 * y[2]
    BY OfFinites DEF Amounts
  <2>2. PICK n \in Int : n = y[1]
    BY <1>1
  <2>3. e * n = e * 0
    BY <1>1, <2>1, <2>2
  <2> QED
    BY <2>2, <2>3, Cancelling
<1>3. x[2] * y[1] = 0
  BY <1>1, <1>2
<1>4. Divided(x, y) = Fraction(x[1] * y[2], 0)
  BY <1>3 DEF Divided
<1> QED
  BY <1>4, OverNothing DEF Inf, NegInf, NaN, Finite

\* Two values that come to the same are neither below the other.
LEMMA NeitherLess ==
  ASSUME NEW x \in Finites, NEW y \in Finites, NEW a \in Int, NEW d \in Nat \ {0},
         Amounts(x, a, d), Amounts(y, a, d)
  PROVE  ~Less(x, y) /\ ~Less(y, x)
<1>1. Less(x, y) <=> a < a
  BY LessIs
<1>2. Less(y, x) <=> a < a
  BY LessIs
<1> QED
  BY <1>1, <1>2

\* And as good as one another under a cap and over a floor.
LEMMA BoundedAlike ==
  ASSUME NEW x \in Finites, NEW y \in Finites, NEW a \in Int, NEW d \in Nat \ {0},
         Amounts(x, a, d), Amounts(y, a, d), NEW z \in Finites
  PROVE  /\ Least(x, z) \in Finites /\ Least(y, z) \in Finites
         /\ Most(x, z) \in Finites /\ Most(y, z) \in Finites
         /\ \E b \in Int, e \in Nat \ {0} : Amounts(Least(x, z), b, e) /\ Amounts(Least(y, z), b, e)
         /\ \E b \in Int, e \in Nat \ {0} : Amounts(Most(x, z), b, e) /\ Amounts(Most(y, z), b, e)
<1>1. ~IsNaN(x) /\ ~IsNaN(y)
  BY OfFinites
<1>2. PICK f \in Nat \ {0}, m \in Int, n \in Int, c \in Int :
        Amounts(x, m, f) /\ Amounts(y, n, f) /\ Amounts(z, c, f)
  BY OverOne
<1>3. m = n
  <2>1. PICK k \in Nat \ {0}, i \in Int, j \in Int :
          k = d * f /\ i = a * f /\ j = f * d
    <3>1. d * f > 0
      BY Cancelling
    <3> QED
      BY <3>1
  <2>2. d * f \in Nat \ {0} /\ a * f \in Int /\ Amounts(x, a * f, d * f) /\ Amounts(y, a * f, d * f)
    BY Rescaled
  <2>3. f * d \in Nat \ {0} /\ m * d \in Int /\ n * d \in Int
        /\ Amounts(x, m * d, f * d) /\ Amounts(y, n * d, f * d)
    BY <1>2, Rescaled
  <2>4. f * d = d * f
    OBVIOUS
  <2>5. PICK g \in Int, h \in Int : g = m * d /\ h = n * d
    BY <2>3
  <2>6. Amounts(x, i, k) /\ Amounts(y, i, k) /\ Amounts(x, g, k) /\ Amounts(y, h, k)
    BY <2>1, <2>2, <2>3, <2>4, <2>5
  <2>7. g = i /\ h = i
    BY <2>6, IsOnly
  <2>8. d * m = d * n
    BY <2>5, <2>7
  <2> QED
    BY <2>8, Cancelling
<1>4. (Less(z, x) <=> c < m) /\ (Less(x, z) <=> m < c)
  BY <1>2, LessIs
<1>5. (Less(z, y) <=> c < n) /\ (Less(y, z) <=> n < c)
  BY <1>2, LessIs
<1>6. \/ Least(x, z) = z /\ Least(y, z) = z
      \/ Least(x, z) = x /\ Least(y, z) = y
  BY <1>1, <1>3, <1>4, <1>5 DEF Least
<1>7. \/ Most(x, z) = z /\ Most(y, z) = z
      \/ Most(x, z) = x /\ Most(y, z) = y
  BY <1>1, <1>3, <1>4, <1>5 DEF Most
<1> QED
  BY <1>2, <1>6, <1>7

\* Twice as long is longer.
LEMMA Doubled ==
  ASSUME NEW x \in Finites, Positive(x)
  PROVE  Times(F(2), x) \in Finites /\ Positive(Times(F(2), x)) /\ Less(x, Times(F(2), x))
<1>1. PICK a \in Int, d \in Nat \ {0} : Amounts(x, a, d)
  BY OfFinites
<1>2. a \in Nat \ {0}
  BY <1>1, NotNegative
<1>3. F(2) \in Finites /\ Amounts(F(2), 2, 1)
  BY Whole
<1>4. Times(F(2), x) \in Finites /\ Amounts(Times(F(2), x), 2 * a, 1 * d)
  BY <1>1, <1>3, TimesIs
<1>5. PICK b \in Nat \ {0} : b = 2 * a /\ a < b
  BY <1>2
<1>6. Amounts(Times(F(2), x), b, d)
  <2>1. 1 * d = d
    OBVIOUS
  <2> QED
    BY <1>4, <1>5, <2>1
<1>7. Positive(Times(F(2), x))
  BY <1>4, <1>6, NotNegative
<1>8. Less(x, Times(F(2), x)) <=> a < b
  BY <1>1, <1>4, <1>6, LessIs
<1> QED
  BY <1>4, <1>5, <1>7, <1>8

-----------------------------------------------------------------------------
(* Finite sets, one member at a time.                                      *)

\* Induction on subsets: what holds of a set when it holds of all that lack one member.
LEMMA SubsetsInOrder ==
  ASSUME NEW S, IsFiniteSet(S), NEW Good,
         \A T \in SUBSET S : (\A x \in T : T \ {x} \in Good) => T \in Good
  PROVE  S \in Good
<1> DEFINE H == {n \in Nat : \A T \in SUBSET S : Cardinality(T) = n => T \in Good}
<1>1. Cardinality(S) \in Nat
  BY FS_CardinalityType
<1>2. 0 \in H
  <2>1. ASSUME NEW T \in SUBSET S, Cardinality(T) = 0 PROVE T \in Good
    <3>1. IsFiniteSet(T)
      BY FS_Subset
    <3>2. T = {}
      BY <2>1, <3>1, FS_EmptySet
    <3> QED
      BY <3>2
  <2> QED
    BY <2>1
<1>3. ASSUME NEW i \in 0 .. Cardinality(S) - 1, i \in H PROVE i + 1 \in H
  <2>1. ASSUME NEW T \in SUBSET S, Cardinality(T) = i + 1 PROVE T \in Good
    <3>1. ASSUME NEW x \in T PROVE T \ {x} \in Good
      <4>1. IsFiniteSet(T)
        BY FS_Subset
      <4>2. Cardinality(T \ {x}) = Cardinality(T) - 1
        BY <4>1, FS_RemoveElement
      <4>3. i \in Nat
        BY <1>1
      <4>4. Cardinality(T \ {x}) = i
        BY <2>1, <4>2, <4>3
      <4> QED
        BY <1>3, <4>4
    <3> QED
      BY <3>1
  <2> QED
    BY <1>1, <2>1
<1>4. \A i \in 0 .. Cardinality(S) : i \in H
  <2> HIDE DEF H
  <2> QED
    BY <1>1, <1>2, <1>3, UpTo
<1> QED
  BY <1>1, <1>4

\* What a fold over a set comes to for each of its subsets.
First(T) == CHOOSE x \in T : TRUE
FoldsTo(g, S, b, h) ==
  g = [T \in SUBSET S |-> IF T = {} THEN b ELSE h[<<First(T), g[T \ {First(T)}]>>]]

\* There is such a table.
LEMMA FoldExists ==
  ASSUME NEW S, IsFiniteSet(S), NEW B, NEW b \in B, NEW h \in [S \X B -> B]
  PROVE  \E g \in [SUBSET S -> B] : FoldsTo(g, S, b, h)
<1> DEFINE Small(n) == {T \in SUBSET S : Cardinality(T) <= n}
           Partly(g, n) == \A T \in Small(n) :
             g[T] = IF T = {} THEN b ELSE h[<<First(T), g[T \ {First(T)}]>>]
           H == {n \in Nat : \E g \in [SUBSET S -> B] : Partly(g, n)}
<1>1. Cardinality(S) \in Nat
  BY FS_CardinalityType
<1>2. ASSUME NEW T \in SUBSET S
      PROVE  IsFiniteSet(T) /\ Cardinality(T) \in Nat /\ Cardinality(T) <= Cardinality(S)
  BY FS_Subset, FS_CardinalityType
<1>3. ASSUME NEW T \in SUBSET S, T # {}
      PROVE  /\ First(T) \in T /\ First(T) \in S /\ T \ {First(T)} \in SUBSET S
             /\ Cardinality(T \ {First(T)}) = Cardinality(T) - 1
  <2>1. First(T) \in T
    BY <1>3 DEF First
  <2> QED
    BY <1>2, <2>1, FS_RemoveElement
<1>4. 0 \in H
  <2>1. PICK g : g = [T \in SUBSET S |-> b]
    OBVIOUS
  <2>2. g \in [SUBSET S -> B]
    BY <2>1
  <2>3. ASSUME NEW T \in Small(0) PROVE T = {}
    BY <1>2, FS_EmptySet
  <2>4. Partly(g, 0)
    BY <2>1, <2>3
  <2> QED
    BY <2>2, <2>4
<1>5. ASSUME NEW n \in 0 .. Cardinality(S) - 1, n \in H PROVE n + 1 \in H
  <2>1. PICK g \in [SUBSET S -> B] : Partly(g, n)
    BY <1>5
  <2>2. PICK f : f = [T \in SUBSET S |-> IF T = {} THEN b ELSE h[<<First(T), g[T \ {First(T)}]>>]]
    OBVIOUS
  <2>3. f \in [SUBSET S -> B]
    <3>1. ASSUME NEW T \in SUBSET S, T # {} PROVE h[<<First(T), g[T \ {First(T)}]>>] \in B
      BY <1>3, <3>1
    <3> QED
      BY <2>2, <3>1
  <2>4. ASSUME NEW T \in Small(n) PROVE f[T] = g[T]
    BY <2>1, <2>2
  <2>5. ASSUME NEW T \in Small(n + 1), T # {} PROVE f[T \ {First(T)}] = g[T \ {First(T)}]
    <3>1. T \ {First(T)} \in Small(n)
      BY <1>2, <1>3, <2>5
    <3> QED
      BY <2>4, <3>1
  <2>6. Partly(f, n + 1)
    BY <2>2, <2>5
  <2>7. n + 1 \in Nat
    BY <1>1
  <2> HIDE DEF Partly
  <2> QED
    BY <2>3, <2>6, <2>7
<1>6. \A i \in 0 .. Cardinality(S) : i \in H
  <2> HIDE DEF H
  <2> QED
    BY <1>1, <1>4, <1>5, UpTo
<1>7. PICK g \in [SUBSET S -> B] : Partly(g, Cardinality(S))
  <2>1. Cardinality(S) \in H
    <3> HIDE DEF H
    <3> QED
      BY <1>1, <1>6
  <2> HIDE DEF Partly
  <2> QED
    BY <2>1
<1>8. \A T \in SUBSET S : T \in Small(Cardinality(S))
  BY <1>2
<1>9. g = [T \in SUBSET S |-> IF T = {} THEN b ELSE h[<<First(T), g[T \ {First(T)}]>>]]
  BY <1>7, <1>8
<1> QED
  BY <1>9 DEF FoldsTo

\* And no other: a table of a set holds the tables of its subsets.
LEMMA FoldsAgree ==
  ASSUME NEW S, IsFiniteSet(S), NEW R \in SUBSET S, NEW b, NEW h, NEW f, NEW g,
         FoldsTo(f, S, b, h), FoldsTo(g, R, b, h)
  PROVE  f[R] = g[R]
<1> DEFINE Good == {T \in SUBSET R : f[T] = g[T]}
<1>1. IsFiniteSet(R)
  BY FS_Subset
<1>2. ASSUME NEW T \in SUBSET R, \A x \in T : T \ {x} \in Good PROVE T \in Good
  <2>1. /\ f[T] = IF T = {} THEN b ELSE h[<<First(T), f[T \ {First(T)}]>>]
        /\ g[T] = IF T = {} THEN b ELSE h[<<First(T), g[T \ {First(T)}]>>]
    BY DEF FoldsTo
  <2>2. T # {} => First(T) \in T
    BY DEF First
  <2> QED
    BY <1>2, <2>1, <2>2
<1>3. R \in Good
  <2> HIDE DEF Good
  <2> QED
    BY <1>1, <1>2, SubsetsInOrder
<1> QED
  BY <1>3

-----------------------------------------------------------------------------
(* The finite values, each written in one way.                             *)

Spellings(x) == {y \in Finites : Amounts(y, x[1], x[2])}
Value(x) == CHOOSE y \in Spellings(x) : TRUE
Values == {x \in Finites : Value(x) = x}
Add(x, y) == Value(Plus(x, y))
Mul(x, y) == Value(Times(x, y))

\* One value, written two ways: equal when multiplied across.
LEMMA WaysAre ==
  ASSUME NEW x \in Finites, NEW y \in Finites
  PROVE  y \in Spellings(x) <=> x[1] * y[2] = y[1] * x[2]
<1>1. x[1] \in Int /\ x[2] \in Int /\ y[1] \in Int /\ y[2] \in Int
  BY OfFinites
<1> QED
  BY <1>1 DEF Spellings, Amounts

\* The representative of a value amounts to what it represents.
LEMMA ValueIs ==
  ASSUME NEW x \in Finites
  PROVE  /\ Value(x) \in Finites
         /\ \A a \in Int, d \in Nat \ {0} : Amounts(x, a, d) <=> Amounts(Value(x), a, d)
<1>1. x \in Spellings(x)
  BY WaysAre
<1>2. Value(x) \in Spellings(x)
  BY <1>1 DEF Value
<1>3. PICK y \in Finites : y = Value(x) /\ Amounts(y, x[1], x[2])
  BY <1>2 DEF Spellings
<1>4. PICK m \in Int, e \in Nat \ {0}, n \in Int, f \in Nat \ {0} :
        m = x[1] /\ e = x[2] /\ n = y[1] /\ f = y[2]
  BY OfFinites
<1>5. n * e = m * f
  BY <1>3, <1>4 DEF Amounts
<1>6. ASSUME NEW a \in Int, NEW d \in Nat \ {0}
      PROVE  Amounts(x, a, d) <=> Amounts(y, a, d)
  <2>1. ASSUME m * d = a * e PROVE n * d = a * f
    <3>1. e * (n * d) = e * (a * f)
      <4>1. (n * e) * d = (m * f) * d
        BY <1>5
      <4>2. (m * f) * d = (m * d) * f
        OBVIOUS
      <4>3. (m * d) * f = (a * e) * f
        BY <2>1
      <4> QED
        BY <4>1, <4>2, <4>3
    <3>2. n * d \in Int /\ a * f \in Int
      OBVIOUS
    <3> QED
      BY <3>1, <3>2, Cancelling
  <2>2. ASSUME n * d = a * f PROVE m * d = a * e
    <3>1. f * (m * d) = f * (a * e)
      <4>1. (m * f) * d = (n * e) * d
        BY <1>5
      <4>2. (n * e) * d = (n * d) * e
        OBVIOUS
      <4>3. (n * d) * e = (a * f) * e
        BY <2>2
      <4> QED
        BY <4>1, <4>2, <4>3
    <3>2. m * d \in Int /\ a * e \in Int
      OBVIOUS
    <3> QED
      BY <3>1, <3>2, Cancelling
  <2> QED
    BY <1>4, <2>1, <2>2 DEF Amounts
<1> QED
  BY <1>3, <1>6

\* Two ways to write it, one value.
LEMMA OneValue ==
  ASSUME NEW x \in Finites, NEW y \in Finites, NEW a \in Int, NEW d \in Nat \ {0},
         Amounts(x, a, d), Amounts(y, a, d)
  PROVE  Value(x) = Value(y)
<1>1. PICK m \in Int, e \in Nat \ {0}, n \in Int, f \in Nat \ {0} :
        m = x[1] /\ e = x[2] /\ n = y[1] /\ f = y[2]
  BY OfFinites
<1>2. m * d = a * e /\ n * d = a * f
  BY <1>1 DEF Amounts
<1>3. m * f = n * e
  <2>1. (m * d) * f = (a * e) * f /\ (n * d) * e = (a * f) * e
    BY <1>2
  <2>2. (a * e) * f = (a * f) * e
    OBVIOUS
  <2>3. d * (m * f) = d * (n * e)
    <3>1. (m * d) * f = d * (m * f) /\ (n * d) * e = d * (n * e)
      OBVIOUS
    <3> QED
      BY <2>1, <2>2, <3>1
  <2>4. m * f \in Int /\ n * e \in Int
    OBVIOUS
  <2> QED
    BY <2>3, <2>4, Cancelling
<1>4. ASSUME NEW z \in Finites PROVE z \in Spellings(x) <=> z \in Spellings(y)
  <2>1. PICK k \in Int, g \in Nat \ {0} : k = z[1] /\ g = z[2]
    BY OfFinites
  <2>2. (z \in Spellings(x) <=> m * g = k * e) /\ (z \in Spellings(y) <=> n * g = k * f)
    BY <1>1, <2>1, WaysAre
  <2>3. ASSUME m * g = k * e PROVE n * g = k * f
    <3>1. (m * g) * f = (k * e) * f
      BY <2>3
    <3>2. (m * g) * f = (m * f) * g /\ (k * e) * f = e * (k * f) /\ (n * e) * g = e * (n * g)
      OBVIOUS
    <3>3. (m * f) * g = (n * e) * g
      BY <1>3
    <3>4. e * (n * g) = e * (k * f) /\ n * g \in Int /\ k * f \in Int
      BY <3>1, <3>2, <3>3
    <3> QED
      BY <3>4, Cancelling
  <2>4. ASSUME n * g = k * f PROVE m * g = k * e
    <3>1. (n * g) * e = (k * f) * e
      BY <2>4
    <3>2. (n * g) * e = (n * e) * g /\ (k * f) * e = f * (k * e) /\ (m * f) * g = f * (m * g)
      OBVIOUS
    <3>3. (n * e) * g = (m * f) * g
      BY <1>3
    <3>4. f * (m * g) = f * (k * e) /\ m * g \in Int /\ k * e \in Int
      BY <3>1, <3>2, <3>3
    <3> QED
      BY <3>4, Cancelling
  <2> QED
    BY <2>2, <2>3, <2>4
<1>5. Spellings(x) = Spellings(y)
  BY <1>4 DEF Spellings
<1> QED
  BY <1>5 DEF Value

\* A representative represents itself.
LEMMA ValueFacts ==
  ASSUME NEW x \in Finites
  PROVE  /\ Value(x) \in Values /\ Value(x) \in Finites /\ Value(Value(x)) = Value(x)
<1>1. /\ x[1] \in Int /\ x[2] \in Nat \ {0} /\ Amounts(x, x[1], x[2])
      /\ Value(x) \in Finites /\ Amounts(Value(x), x[1], x[2])
  BY OfFinites, ValueIs
<1>2. Value(Value(x)) = Value(x)
  BY <1>1, OneValue
<1> QED
  BY <1>1, <1>2 DEF Values

\* What is neither less nor greater is the same value.
LEMMA SameIs ==
  ASSUME NEW x \in Finites, NEW y \in Finites
  PROVE  Same(x, y) <=> Value(x) = Value(y)
<1>1. PICK d \in Nat \ {0}, a \in Int, b \in Int, c \in Int :
        Amounts(x, a, d) /\ Amounts(y, b, d) /\ Amounts(y, c, d)
  BY OverOne
<1>2. (Less(x, y) <=> a < b) /\ (Less(y, x) <=> b < a)
  BY <1>1, LessIs
<1>3. ~IsNaN(x) /\ ~IsNaN(y)
  BY OfFinites
<1>4. Same(x, y) <=> a = b
  BY <1>2, <1>3 DEF Same
<1>5. a = b => Value(x) = Value(y)
  BY <1>1, OneValue
<1>6. Value(x) = Value(y) => a = b
  <2>1. ASSUME Value(x) = Value(y) PROVE a = b
    <3>1. Amounts(Value(x), a, d) /\ Amounts(Value(x), b, d) /\ Value(x) \in Finites
      BY <1>1, <2>1, ValueIs
    <3> QED
      BY <3>1, IsOnly
  <2> QED
    BY <2>1
<1> QED
  BY <1>4, <1>5, <1>6

\* Arithmetic on values is arithmetic on whatever writes them.
LEMMA AddIs ==
  ASSUME NEW x \in Finites, NEW y \in Finites
  PROVE  /\ Plus(x, y) \in Finites /\ Value(Plus(x, y)) = Add(x, y)
         /\ Add(x, y) \in Values /\ Add(x, y) \in Finites
         /\ Add(Value(x), y) = Add(x, y) /\ Add(x, Value(y)) = Add(x, y)
         /\ \A a, b \in Int, d \in Nat \ {0} :
              Amounts(x, a, d) /\ Amounts(y, b, d) =>
                a + b \in Int /\ Amounts(Add(x, y), a + b, d)
<1>1. ASSUME NEW a \in Int, NEW b \in Int, NEW d \in Nat \ {0}, Amounts(x, a, d), Amounts(y, b, d)
      PROVE  /\ Plus(x, y) \in Finites /\ a + b \in Int
             /\ Amounts(Plus(x, y), a + b, d) /\ Amounts(Add(x, y), a + b, d)
             /\ Plus(Value(x), y) \in Finites /\ Amounts(Plus(Value(x), y), a + b, d)
             /\ Plus(x, Value(y)) \in Finites /\ Amounts(Plus(x, Value(y)), a + b, d)
  <2>1. Plus(x, y) \in Finites /\ a + b \in Int /\ Amounts(Plus(x, y), a + b, d)
    BY <1>1, PlusIs
  <2>2. Amounts(Add(x, y), a + b, d)
    BY <2>1, ValueIs DEF Add
  <2>3. /\ Value(x) \in Finites /\ Amounts(Value(x), a, d)
        /\ Value(y) \in Finites /\ Amounts(Value(y), b, d)
    BY <1>1, ValueIs
  <2>4. Plus(Value(x), y) \in Finites /\ Amounts(Plus(Value(x), y), a + b, d)
    BY <1>1, <2>3, PlusIs
  <2>5. Plus(x, Value(y)) \in Finites /\ Amounts(Plus(x, Value(y)), a + b, d)
    BY <1>1, <2>3, PlusIs
  <2> QED
    BY <2>1, <2>2, <2>4, <2>5
<1>2. PICK d \in Nat \ {0}, a \in Int, b \in Int, c \in Int :
        Amounts(x, a, d) /\ Amounts(y, b, d) /\ Amounts(y, c, d)
  BY OverOne
<1>3. /\ Plus(x, y) \in Finites /\ a + b \in Int /\ Amounts(Plus(x, y), a + b, d)
      /\ Plus(Value(x), y) \in Finites /\ Amounts(Plus(Value(x), y), a + b, d)
      /\ Plus(x, Value(y)) \in Finites /\ Amounts(Plus(x, Value(y)), a + b, d)
  BY <1>1, <1>2
<1>4. Value(Plus(Value(x), y)) = Value(Plus(x, y)) /\ Value(Plus(x, Value(y))) = Value(Plus(x, y))
  BY <1>3, OneValue
<1>5. Add(x, y) \in Values /\ Add(x, y) \in Finites
  BY <1>3, ValueFacts DEF Add
<1>6. Add(Value(x), y) = Add(x, y) /\ Add(x, Value(y)) = Add(x, y)
  BY <1>4 DEF Add
<1>7. Value(Plus(x, y)) = Add(x, y)
  BY DEF Add
<1> QED
  BY <1>1, <1>3, <1>5, <1>6, <1>7

\* Multiplication is a matter of values alone.
LEMMA MulIs ==
  ASSUME NEW x \in Finites, NEW y \in Finites
  PROVE  /\ Times(x, y) \in Finites /\ Value(Times(x, y)) = Mul(x, y)
         /\ Mul(x, y) \in Values /\ Mul(x, y) \in Finites
         /\ Mul(Value(x), y) = Mul(x, y) /\ Mul(x, Value(y)) = Mul(x, y)
         /\ \A a, b \in Int, d, e \in Nat \ {0} :
              Amounts(x, a, d) /\ Amounts(y, b, e) =>
                a * b \in Int /\ d * e \in Nat \ {0} /\ Amounts(Mul(x, y), a * b, d * e)
<1>1. ASSUME NEW a \in Int, NEW b \in Int, NEW d \in Nat \ {0}, NEW e \in Nat \ {0},
             Amounts(x, a, d), Amounts(y, b, e)
      PROVE  /\ Times(x, y) \in Finites /\ a * b \in Int /\ d * e \in Nat \ {0}
             /\ Amounts(Times(x, y), a * b, d * e) /\ Amounts(Mul(x, y), a * b, d * e)
             /\ Times(Value(x), y) \in Finites /\ Amounts(Times(Value(x), y), a * b, d * e)
             /\ Times(x, Value(y)) \in Finites /\ Amounts(Times(x, Value(y)), a * b, d * e)
  <2>1. /\ Times(x, y) \in Finites /\ a * b \in Int /\ d * e \in Nat \ {0}
        /\ Amounts(Times(x, y), a * b, d * e)
    BY <1>1, TimesIs
  <2>2. Amounts(Mul(x, y), a * b, d * e)
    BY <2>1, ValueIs DEF Mul
  <2>3. /\ Value(x) \in Finites /\ Amounts(Value(x), a, d)
        /\ Value(y) \in Finites /\ Amounts(Value(y), b, e)
    BY <1>1, ValueIs
  <2>4. Times(Value(x), y) \in Finites /\ Amounts(Times(Value(x), y), a * b, d * e)
    BY <1>1, <2>3, TimesIs
  <2>5. Times(x, Value(y)) \in Finites /\ Amounts(Times(x, Value(y)), a * b, d * e)
    BY <1>1, <2>3, TimesIs
  <2> QED
    BY <2>1, <2>2, <2>4, <2>5
<1>2. PICK d \in Nat \ {0}, a \in Int, b \in Int, e \in Nat \ {0} : Amounts(x, a, d) /\ Amounts(y, b, e)
  BY OfFinites
<1>3. /\ Times(x, y) \in Finites /\ a * b \in Int /\ d * e \in Nat \ {0}
      /\ Amounts(Times(x, y), a * b, d * e)
      /\ Times(Value(x), y) \in Finites /\ Amounts(Times(Value(x), y), a * b, d * e)
      /\ Times(x, Value(y)) \in Finites /\ Amounts(Times(x, Value(y)), a * b, d * e)
  BY <1>1, <1>2
<1>4. Value(Times(Value(x), y)) = Value(Times(x, y)) /\ Value(Times(x, Value(y))) = Value(Times(x, y))
  BY <1>3, OneValue
<1>5. Mul(x, y) \in Values /\ Mul(x, y) \in Finites
  BY <1>3, ValueFacts DEF Mul
<1>6. Mul(Value(x), y) = Mul(x, y) /\ Mul(x, Value(y)) = Mul(x, y)
  BY <1>4 DEF Mul
<1>7. Value(Times(x, y)) = Mul(x, y)
  BY DEF Mul
<1> QED
  BY <1>1, <1>3, <1>5, <1>6, <1>7

\* What is written in one way is equal when it amounts to the same.
LEMMA EqualValues ==
  ASSUME NEW x \in Values, NEW y \in Values, NEW a \in Int, NEW d \in Nat \ {0},
         Amounts(x, a, d), Amounts(y, a, d)
  PROVE  x = y
BY OneValue DEF Values

\* Addition of values commutes, associates, and Zero adds nothing.
LEMMA AddLaws ==
  ASSUME NEW x \in Finites, NEW y \in Finites, NEW z \in Finites
  PROVE  /\ Add(x, y) = Add(y, x)
         /\ Add(Add(x, y), z) = Add(x, Add(y, z))
         /\ Add(x, Zero) = Value(x) /\ Add(Zero, x) = Value(x)
<1>1. PICK d \in Nat \ {0}, a \in Int, b \in Int, c \in Int :
        Amounts(x, a, d) /\ Amounts(y, b, d) /\ Amounts(z, c, d)
  BY OverOne
<1>2. PICK k \in Int, l \in Int : k = a + b /\ l = b + c
  OBVIOUS
<1>3. /\ Add(x, y) \in Values /\ Add(x, y) \in Finites /\ Amounts(Add(x, y), k, d)
      /\ Add(y, x) \in Values /\ Add(y, x) \in Finites /\ Amounts(Add(y, x), k, d)
      /\ Add(y, z) \in Values /\ Add(y, z) \in Finites /\ Amounts(Add(y, z), l, d)
  <2>1. /\ Amounts(Add(x, y), a + b, d) /\ Amounts(Add(y, x), b + a, d)
        /\ Amounts(Add(y, z), b + c, d)
    BY <1>1, AddIs
  <2>2. b + a = k
    BY <1>2
  <2> QED
    BY <1>2, <2>1, <2>2, AddIs
<1>4. /\ Add(Add(x, y), z) \in Values /\ Amounts(Add(Add(x, y), z), k + c, d)
      /\ Add(x, Add(y, z)) \in Values /\ Amounts(Add(x, Add(y, z)), a + l, d)
  BY <1>1, <1>2, <1>3, AddIs
<1>5. k + c = a + l /\ k + c \in Int
  BY <1>2
<1>6. /\ Zero \in Finites /\ Amounts(Zero, 0, d) /\ Value(x) \in Values /\ Amounts(Value(x), a, d)
  BY <1>1, ZeroOne, ValueIs, ValueFacts
<1>7. /\ Add(x, Zero) \in Values /\ Amounts(Add(x, Zero), a + 0, d)
      /\ Add(Zero, x) \in Values /\ Amounts(Add(Zero, x), 0 + a, d)
  BY <1>1, <1>6, AddIs
<1>8. a + 0 = a /\ 0 + a = a
  OBVIOUS
<1>9. Add(x, y) = Add(y, x)
  BY <1>3, EqualValues
<1>10. Add(Add(x, y), z) = Add(x, Add(y, z))
  BY <1>4, <1>5, EqualValues
<1>11. Add(x, Zero) = Value(x) /\ Add(Zero, x) = Value(x)
  BY <1>6, <1>7, <1>8, EqualValues
<1> QED
  BY <1>9, <1>10, <1>11

\* Multiplication of values commutes, associates and distributes.
LEMMA MulLaws ==
  ASSUME NEW x \in Finites, NEW y \in Finites, NEW z \in Finites
  PROVE  /\ Mul(x, y) = Mul(y, x)
         /\ Mul(Mul(x, y), z) = Mul(x, Mul(y, z))
         /\ Mul(x, Add(y, z)) = Add(Mul(x, y), Mul(x, z))
         /\ Mul(x, Zero) = Value(Zero) /\ Mul(Zero, x) = Value(Zero)
         /\ Mul(x, One) = Value(x) /\ Mul(One, x) = Value(x)
<1>1. PICK d \in Nat \ {0}, a \in Int : Amounts(x, a, d)
  BY OfFinites
<1>2. PICK e \in Nat \ {0}, b \in Int, c \in Int, cc \in Int :
        Amounts(y, b, e) /\ Amounts(z, c, e) /\ Amounts(z, cc, e)
  BY OverOne
<1>3. PICK de \in Nat \ {0}, ee \in Nat \ {0} : de = d * e /\ ee = e * e
  BY <1>1, <1>2, MulIs
<1>4. PICK ab \in Int, ac \in Int, bc \in Int, s \in Int :
        ab = a * b /\ ac = a * c /\ bc = b * c /\ s = b + c
  OBVIOUS
<1>5. /\ Mul(x, y) \in Values /\ Mul(x, y) \in Finites /\ Amounts(Mul(x, y), ab, de)
      /\ Mul(x, z) \in Values /\ Mul(x, z) \in Finites /\ Amounts(Mul(x, z), ac, de)
      /\ Mul(y, z) \in Values /\ Mul(y, z) \in Finites /\ Amounts(Mul(y, z), bc, ee)
      /\ Mul(y, x) \in Values
      /\ Add(y, z) \in Values /\ Add(y, z) \in Finites /\ Amounts(Add(y, z), s, e)
  <2>1. /\ Amounts(Mul(x, y), a * b, d * e) /\ Amounts(Mul(x, z), a * c, d * e)
        /\ Amounts(Mul(y, z), b * c, e * e)
    BY <1>1, <1>2, MulIs
  <2>2. Amounts(Add(y, z), b + c, e)
    BY <1>2, AddIs
  <2> QED
    BY <1>3, <1>4, <2>1, <2>2, MulIs, AddIs
<1>6. Mul(x, y) = Mul(y, x)
  <2>1. Amounts(Mul(y, x), b * a, e * d)
    BY <1>1, <1>2, MulIs
  <2>2. b * a = ab /\ e * d = de
    BY <1>3, <1>4
  <2> QED
    BY <1>5, <2>1, <2>2, EqualValues
<1>7. Mul(Mul(x, y), z) = Mul(x, Mul(y, z))
  <2>1. /\ Mul(Mul(x, y), z) \in Values /\ Amounts(Mul(Mul(x, y), z), ab * c, de * e)
        /\ ab * c \in Int /\ de * e \in Nat \ {0}
    BY <1>2, <1>5, MulIs
  <2>2. Mul(x, Mul(y, z)) \in Values /\ Amounts(Mul(x, Mul(y, z)), a * bc, d * ee)
    BY <1>1, <1>5, MulIs
  <2>3. ab * c = a * bc
    BY <1>4
  <2>4. de * e = d * ee
    BY <1>3
  <2> QED
    BY <2>1, <2>2, <2>3, <2>4, EqualValues
<1>8. Mul(x, Add(y, z)) = Add(Mul(x, y), Mul(x, z))
  <2>1. Mul(x, Add(y, z)) \in Values /\ Amounts(Mul(x, Add(y, z)), a * s, d * e)
    BY <1>1, <1>5, MulIs
  <2>2. /\ Add(Mul(x, y), Mul(x, z)) \in Values /\ ab + ac \in Int
        /\ Amounts(Add(Mul(x, y), Mul(x, z)), ab + ac, de)
    BY <1>5, AddIs
  <2>3. a * s = ab + ac
    BY <1>4
  <2> QED
    BY <1>3, <2>1, <2>2, <2>3, EqualValues
<1>9. /\ Zero \in Finites /\ Amounts(Zero, 0, 1) /\ One \in Finites /\ Amounts(One, 1, 1)
      /\ Value(Zero) \in Values /\ Value(x) \in Values /\ Amounts(Value(x), a, d)
  BY <1>1, ZeroOne, ValueFacts, ValueIs
<1>10. Amounts(Value(Zero), 0, d)
  BY ZeroOne, ValueIs
<1>11. /\ Mul(x, Zero) \in Values /\ Amounts(Mul(x, Zero), a * 0, d * 1)
       /\ Mul(Zero, x) \in Values /\ Amounts(Mul(Zero, x), 0 * a, 1 * d)
       /\ Mul(x, One) \in Values /\ Amounts(Mul(x, One), a * 1, d * 1)
       /\ Mul(One, x) \in Values /\ Amounts(Mul(One, x), 1 * a, 1 * d)
  BY <1>1, <1>9, MulIs
<1>12. a * 0 = 0 /\ 0 * a = 0 /\ d * 1 = d /\ 1 * d = d /\ a * 1 = a /\ 1 * a = a
  OBVIOUS
<1>13. Mul(x, Zero) = Value(Zero) /\ Mul(Zero, x) = Value(Zero)
  BY <1>9, <1>10, <1>11, <1>12, EqualValues
<1>14. Mul(x, One) = Value(x) /\ Mul(One, x) = Value(x)
  BY <1>9, <1>11, <1>12, EqualValues
<1> QED
  BY <1>6, <1>7, <1>8, <1>13, <1>14
=============================================================================
