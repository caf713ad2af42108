---------------------------- MODULE Price_proof ----------------------------
(***************************************************************************)
(* Proofs about the price.                                                  *)
(*                                                                          *)
(* Build: whatever f64 a caller, a row or a table of frequencies states, a  *)
(* pattern arms just when one of its candidates would alone, on two sides   *)
(* that are costs, and no term of the policy moves the verdict both ways.   *)
(*                                                                          *)
(* Measure under Mint: whatever slates, samples and kernels, however many   *)
(* rounds, and wherever another thread forces a kernel, a row is keyed to   *)
(* what its loops ran on and answers for its own regime, and the two        *)
(* reports of a kernel become one row that keeps what they earned; and a    *)
(* row nothing spoilt predicts what it timed.                               *)
(***************************************************************************)
EXTENDS Mint, Build, NumberFacts, SequenceTheorems, FiniteSetTheorems, TLAPS

-----------------------------------------------------------------------------
(* Gate: prices are f64, whatever they are worked out from.                *)

LEMMA ProbabilityCloses ==
  ASSUME NEW x \in Floats
  PROVE  /\ Probability(x) \in Floats
         /\ x \in Finites => Probable(Probability(x))
         /\ x = Zero => Probability(x) = Zero
<1>1. Zero \in Finites /\ One \in Finites /\ Zero \in Floats /\ One \in Floats
  BY ZeroOne, NumbersFrom
<1>2. Probable(Zero) /\ Probable(One)
  BY OneIsProbable
<1> QED
  BY <1>1, <1>2 DEF Probability, Probable, AtMost

LEMMA ShareCloses ==
  ASSUME NEW set, NEW freq, IsFiniteSet(DOMAIN freq),
         freq \in [0 .. Cardinality(DOMAIN freq) - 1 -> Floats]
  PROVE  /\ Share(set, freq) \in Floats
         /\ (\A k \in DOMAIN freq : freq[k] \in Finites) => Probable(Share(set, freq))
         /\ set = {} => Share(set, freq) = Zero
<1> DEFINE n == Cardinality(DOMAIN freq)
           row == [i \in 1 .. n |-> [x \in Floats |->
                     IF i - 1 \in set THEN Plus(x, freq[i - 1]) ELSE x]]
           Sums(f) == f = [i \in 0 .. n |->
                             IF i = 0 THEN Zero
                             ELSE IF i - 1 \in set THEN Plus(f[i - 1], freq[i - 1])
                             ELSE f[i - 1]]
<1>1. n \in Nat
  BY FS_CardinalityType
<1>2. DOMAIN freq = 0 .. n - 1 /\ \A i \in 0 .. n - 1 : freq[i] \in Floats
  OBVIOUS
<1>3. Zero \in Floats
  BY ZeroOne, NumbersFrom
<1> HIDE DEF n
<1>4. row \in Rows(n, Floats)
  <2>1. ASSUME NEW i \in 1 .. n, NEW x \in Floats
        PROVE  (IF i - 1 \in set THEN Plus(x, freq[i - 1]) ELSE x) \in Floats
    <3>1. i - 1 \in 0 .. n - 1
      BY <1>1
    <3>2. freq[i - 1] \in Floats
      BY <1>2, <3>1
    <3> QED
      BY <3>2, PlusCloses
  <2> QED
    BY <2>1 DEF Rows
<1>5. PICK f \in [0 .. n -> Floats] : Fills(f, n, Zero, row)
  <2> HIDE DEF row
  <2> QED
    BY <1>1, <1>3, <1>4, FilledFromFront
<1>6. Sums(f)
  <2>1. ASSUME NEW i \in 0 .. n
        PROVE  f[i] = IF i = 0 THEN Zero
                      ELSE IF i - 1 \in set THEN Plus(f[i - 1], freq[i - 1])
                      ELSE f[i - 1]
    <3>1. CASE i = 0
      BY <1>5, <3>1 DEF Fills
    <3>2. CASE i # 0
      <4>1. i \in 1 .. n /\ i - 1 \in 0 .. n
        BY <1>1, <3>2
      <4>2. f[i] = row[i][f[i - 1]] /\ f[i - 1] \in Floats
        BY <1>5, <4>1 DEF Fills
      <4>3. row[i][f[i - 1]] = IF i - 1 \in set THEN Plus(f[i - 1], freq[i - 1]) ELSE f[i - 1]
        BY <4>1, <4>2
      <4> QED
        BY <3>2, <4>2, <4>3
    <3> QED
      BY <3>1, <3>2
  <2>2. f = [i \in 0 .. n |-> f[i]]
    OBVIOUS
  <2> HIDE DEF row
  <2> QED
    BY <2>1, <2>2
<1>7. PICK g : g = CHOOSE e : Sums(e)
  OBVIOUS
<1>8. Share(set, freq) = Probability(g[n])
  BY <1>7 DEF Share, n
<1>9. Sums(g)
  <2> HIDE DEF Sums
  <2> QED
    BY <1>6, <1>7
<1> DEFINE All == \A k \in 0 .. n - 1 : freq[k] \in Finites
           S == {i \in 0 .. n : /\ g[i] \in Floats
                                /\ All => g[i] \in Finites
                                /\ set = {} => g[i] = Zero}
<1>10. 0 \in S
  <2>1. 0 \in 0 .. n
    BY <1>1
  <2>2. g[0] = Zero
    BY <1>9, <2>1, Zenon
  <2> QED
    BY <1>3, <2>1, <2>2, ZeroOne
<1>11. ASSUME NEW i \in 0 .. n - 1, i \in S PROVE i + 1 \in S
  <2>1. PICK j : j = i + 1
    OBVIOUS
  <2>2. j \in 0 .. n /\ j # 0 /\ j - 1 = i
    BY <1>1, <2>1
  <2>3. g[j] = IF j - 1 \in set THEN Plus(g[j - 1], freq[j - 1]) ELSE g[j - 1]
    BY <1>9, <2>2, Zenon
  <2>4. g[j] = IF i \in set THEN Plus(g[i], freq[i]) ELSE g[i]
    BY <2>2, <2>3
  <2>5. g[i] \in Floats /\ freq[i] \in Floats
    BY <1>2, <1>11
  <2>6. g[j] \in Floats
    BY <2>4, <2>5, PlusCloses
  <2>7. All => g[j] \in Finites
    BY <1>11, <2>4, <2>5, PlusCloses
  <2>8. set = {} => g[j] = Zero
    BY <1>11, <2>4
  <2> QED
    BY <2>1, <2>2, <2>6, <2>7, <2>8
<1>12. n \in S
  <2> HIDE DEF S
  <2>1. \A i \in 0 .. n : i \in S
    BY <1>1, <1>10, <1>11, UpTo
  <2>2. n \in S
    BY <1>1, <2>1
  <2> QED
    BY <2>2
<1>13. (\A k \in DOMAIN freq : freq[k] \in Finites) => All
  BY <1>2
<1> QED
  BY <1>8, <1>12, <1>13, ProbabilityCloses

LEMMA BlendCloses ==
  ASSUME NEW cal, cal.dfa_skip \in Floats, cal.dfa_walk \in Floats,
         NEW escape \in Floats, NEW excursion \in Floats
  PROVE  Blend(cal, escape, excursion) \in Floats
<1>1. One \in Floats
  BY ZeroOne, NumbersFrom
<1>2. PICK rest \in Floats : rest = Minus(One, escape)
  BY <1>1, MinusCloses
<1>3. PICK skipped \in Floats : skipped = Times(cal.dfa_skip, rest)
  BY TimesCloses
<1>4. PICK walked \in Floats : walked = Times(cal.dfa_walk, escape)
  BY TimesCloses
<1>5. PICK tripped \in Floats : tripped = Times(walked, excursion)
  BY TimesCloses
<1>6. Plus(skipped, tripped) \in Floats
  BY PlusCloses
<1> QED
  BY <1>2, <1>3, <1>4, <1>5, <1>6 DEF Blend

LEMMA RivalCloses ==
  ASSUME NEW p, IsPolicy(p), NEW rival, IsRival(rival), NEW accelerator
  PROVE  RivalPrice(rival, p.calibration, accelerator, p.freq) \in Floats
<1>1. PICK cal : cal = p.calibration
  OBVIOUS
<1>2. cal.dfa_skip \in Floats /\ cal.dfa_walk \in Floats /\ cal.dfa_excursion \in Floats
  BY <1>1 DEF IsPolicy, IsCalibration
<1>3. PICK share \in Floats : share = Share(accelerator, p.freq)
  <2>1. IsFiniteSet(DOMAIN p.freq) /\ p.freq \in [0 .. Cardinality(DOMAIN p.freq) - 1 -> Floats]
    BY DEF IsPolicy
  <2> QED
    BY <2>1, ShareCloses
<1>4. PICK blend \in Floats : blend = Blend(cal, share, cal.dfa_excursion)
  BY <1>2, BlendCloses
<1>5. Least(blend, cal.dfa_walk) \in Floats
  BY <1>2, LeastMostClose
<1>6. RivalPerByte(cal, accelerator, p.freq) \in Floats
  BY <1>2, <1>3, <1>4, <1>5 DEF RivalPerByte
<1>7. rival.kind = "Walks" => Times(cal.dfa_walk, rival.price) \in Floats
  BY <1>2, TimesCloses DEF IsRival
<1> QED
  BY <1>1, <1>2, <1>6, <1>7 DEF RivalPrice, IsRival

LEMMA LaneCloses ==
  ASSUME NEW p, IsPolicy(p), NEW q, p.calibration.skip_excursion[q.instrument] \in Floats,
         NEW compose \in Floats
  PROVE  /\ SkipPerByte(p.calibration, q, p.freq) \in Floats
         /\ LaneCost(p, q, compose) \in Floats
<1>1. PICK cal : cal = p.calibration
  OBVIOUS
<1>2. /\ cal.dfa_skip \in Floats
      /\ cal.dfa_walk \in Floats /\ cal.skip_excursion[q.instrument] \in Floats
  BY <1>1 DEF IsPolicy, IsCalibration
<1>3. PICK share \in Floats : share = Share(q.leaves, p.freq)
  <2>1. IsFiniteSet(DOMAIN p.freq) /\ p.freq \in [0 .. Cardinality(DOMAIN p.freq) - 1 -> Floats]
    BY DEF IsPolicy
  <2> QED
    BY <2>1, ShareCloses
<1>4. PICK blend \in Floats : blend = Blend(cal, share, cal.skip_excursion[q.instrument])
  BY <1>2, BlendCloses
<1>5. Least(blend, cal.dfa_walk) \in Floats
  BY <1>2, LeastMostClose
<1>6. SkipPerByte(cal, q, p.freq) \in Floats
  BY <1>2, <1>3, <1>4, <1>5 DEF SkipPerByte
<1> QED
  BY <1>1, <1>6 DEF LaneCost

LEMMA SievePerByteCloses ==
  ASSUME MaxConjuncts \in Nat, NEW cal, cal.sieve \in [1 .. MaxConjuncts -> Floats],
         NEW n \in Nat
  PROVE  SievePerByte(cal, n) \in Floats
<1> DEFINE want  == IF n > MaxConjuncts THEN MaxConjuncts ELSE n
           timed == {i \in DOMAIN cal.sieve : Positive(cal.sieve[i])}
           below == {i \in timed : i <= want}
<1>1. want \in Nat /\ timed \in SUBSET (1 .. MaxConjuncts) /\ below \in SUBSET timed
  OBVIOUS
<1>2. \A i \in 1 .. MaxConjuncts : cal.sieve[i] \in Floats
  OBVIOUS
<1> HIDE DEF want, timed, below
<1>3. ASSUME below # {} PROVE Times(cal.sieve[Max(below)], F(2 ^ (want - Max(below)))) \in Floats
  <2>1. below \in SUBSET (0 .. MaxConjuncts)
    BY <1>1
  <2>2. PICK x \in below : \A y \in below : y <= x
    BY <1>3, <2>1, GreatestNatural
  <2>3. \A y \in below : x >= y
    <3>1. \A y \in below : y \in Int /\ x \in Int
      BY <2>1
    <3> QED
      BY <2>2, <3>1
  <2>4. PICK m : m = Max(below)
    OBVIOUS
  <2>5. m \in below
    BY <2>3, <2>4 DEF Max
  <2>6. m \in 1 .. MaxConjuncts /\ m <= want
    BY <1>1, <2>5 DEF below
  <2>7. PICK k \in Nat : k = want - m
    BY <1>1, <2>6
  <2>8. 2 ^ k \in Int
    BY PowerIsWhole
  <2>9. F(2 ^ k) \in Floats
    BY <2>8, Whole
  <2>10. Times(cal.sieve[m], F(2 ^ k)) \in Floats
    BY <1>2, <2>6, <2>9, TimesCloses
  <2> QED
    BY <2>4, <2>7, <2>10
<1>4. ASSUME timed # {} PROVE cal.sieve[Min(timed)] \in Floats
  <2>1. timed \subseteq Nat
    BY <1>1
  <2>2. PICK x \in timed : \A y \in timed : x <= y
    BY <1>4, <2>1, LeastNatural
  <2>3. Min(timed) \in timed
    BY <2>2 DEF Min
  <2> QED
    BY <1>1, <1>2, <2>3
<1>5. Inf \in Floats
  BY NumbersFrom
<1>6. SievePerByte(cal, n) =
        IF below # {} THEN Times(cal.sieve[Max(below)], F(2 ^ (want - Max(below))))
        ELSE IF timed # {} THEN cal.sieve[Min(timed)]
        ELSE Inf
  BY DEF SievePerByte, want, timed, below
<1> QED
  BY <1>3, <1>4, <1>5, <1>6

-----------------------------------------------------------------------------
(* Gate and Build: the sieve's price, and the estimate.                    *)

\* The lanes of a filter, priced.
LaneCosts(p, quotients) ==
  {LaneCost(p, quotients[i], SievePerByte(p.calibration, Len(quotients))) : i \in DOMAIN quotients}

LEMMA LaneCostsAre ==
  ASSUME MaxConjuncts \in Nat, NEW p, IsPolicy(p), NEW filter, IsAutomaton(filter, p)
  PROVE  /\ SievePerByte(p.calibration, Len(filter.quotients)) \in Floats
         /\ LaneCosts(p, filter.quotients) \in SUBSET Floats
         /\ IsFiniteSet({Zero} \cup LaneCosts(p, filter.quotients))
         /\ SieveCost(p, filter.quotients) = MostOf({Zero} \cup LaneCosts(p, filter.quotients))
<1>1. PICK quotients : quotients = filter.quotients
  OBVIOUS
<1>2. PICK compose : compose = SievePerByte(p.calibration, Len(quotients))
  OBVIOUS
<1>3. Len(quotients) \in Nat /\ DOMAIN quotients = 1 .. Len(quotients)
  BY <1>1 DEF IsAutomaton
<1>4. compose \in Floats
  <2>1. p.calibration.sieve \in [1 .. MaxConjuncts -> Floats]
    BY DEF IsPolicy, IsCalibration
  <2> QED
    BY <1>2, <1>3, <2>1, SievePerByteCloses
<1>5. ASSUME NEW i \in DOMAIN quotients PROVE LaneCost(p, quotients[i], compose) \in Floats
  <2>1. PICK q : q = quotients[i]
    OBVIOUS
  <2>2. p.calibration.skip_excursion[q.instrument] \in Floats
    BY <1>1, <1>5, <2>1 DEF IsAutomaton
  <2>3. LaneCost(p, q, compose) \in Floats
    BY <1>4, <2>2, LaneCloses
  <2> QED
    BY <2>1, <2>3
<1>6. LaneCosts(p, quotients) = {LaneCost(p, quotients[i], compose) : i \in DOMAIN quotients}
  BY <1>2 DEF LaneCosts
<1>7. IsFiniteSet({Zero} \cup LaneCosts(p, quotients))
  <2>1. PICK f : f = [i \in 1 .. Len(quotients) |-> LaneCost(p, quotients[i], compose)]
    OBVIOUS
  <2>2. IsFiniteSet(1 .. Len(quotients))
    BY <1>3, FS_Interval
  <2>3. DOMAIN f = 1 .. Len(quotients) /\ f = [i \in 1 .. Len(quotients) |-> f[i]]
    BY <2>1
  <2>4. IsFiniteSet({f[i] : i \in 1 .. Len(quotients)})
    BY <2>2, <2>3, FiniteImage
  <2>5. LaneCosts(p, quotients) = {f[i] : i \in 1 .. Len(quotients)}
    BY <1>3, <1>6, <2>1
  <2>6. IsFiniteSet(LaneCosts(p, quotients) \cup {Zero})
    BY <2>4, <2>5, FS_AddElement
  <2>7. LaneCosts(p, quotients) \cup {Zero} = {Zero} \cup LaneCosts(p, quotients)
    OBVIOUS
  <2> QED
    BY <2>6, <2>7
<1>8. SieveCost(p, quotients) = MostOf({Zero} \cup LaneCosts(p, quotients))
  BY DEF SieveCost, LaneCosts
<1> QED
  BY <1>1, <1>2, <1>4, <1>5, <1>6, <1>7, <1>8

\* What the sieve costs is a number, and never less than nothing.
LEMMA SieveCostFacts ==
  ASSUME MaxConjuncts \in Nat, NEW p, IsPolicy(p), NEW filter, IsAutomaton(filter, p)
  PROVE  /\ SieveCost(p, filter.quotients) \in Numbers
         /\ AtMost(Zero, SieveCost(p, filter.quotients))
         /\ SieveCost(p, filter.quotients) \in {Zero} \cup LaneCosts(p, filter.quotients)
         /\ \A c \in LaneCosts(p, filter.quotients) :
              c # NaN => AtMost(c, SieveCost(p, filter.quotients))
<1>1. PICK S : S = {Zero} \cup LaneCosts(p, filter.quotients)
  OBVIOUS
<1>2. Zero \in Floats /\ Zero # NaN
  BY ZeroOne, OfFinites
<1>3. S \in SUBSET Floats /\ IsFiniteSet(S) /\ Zero \in S
  BY <1>1, <1>2, LaneCostsAre
<1>4. /\ MostOf(S) \in S /\ MostOf(S) \in Numbers
      /\ \A y \in S : y # NaN => AtMost(y, MostOf(S))
  BY <1>2, <1>3, MostOfFacts
<1>5. SieveCost(p, filter.quotients) = MostOf(S)
  BY <1>1, LaneCostsAre
<1> QED
  BY <1>1, <1>2, <1>3, <1>4, <1>5

\* How often each quotient passes its worst chain.
WorstOf(q, chains) == MostOf({Zero} \cup {q.rates[c] : c \in chains})
Worsts(quotients, chains) == {WorstOf(quotients[i], chains) : i \in DOMAIN quotients}

LEMMA WorstOfFacts ==
  ASSUME NEW chains, IsFiniteSet(chains), NEW q, \A c \in chains : q.rates[c] \in Floats
  PROVE  /\ WorstOf(q, chains) \in Numbers
         /\ AtMost(Zero, WorstOf(q, chains))
         /\ WorstOf(q, chains) \in {Zero} \cup {q.rates[c] : c \in chains}
         /\ \A c \in chains : q.rates[c] # NaN => AtMost(q.rates[c], WorstOf(q, chains))
<1>1. PICK S : S = {Zero} \cup {q.rates[c] : c \in chains}
  OBVIOUS
<1>2. Zero \in Floats /\ Zero # NaN
  BY ZeroOne, OfFinites
<1>3. IsFiniteSet(S)
  <2>1. PICK f : f = [c \in chains |-> q.rates[c]]
    OBVIOUS
  <2>2. DOMAIN f = chains /\ f = [c \in chains |-> f[c]]
    BY <2>1
  <2>3. IsFiniteSet({f[c] : c \in chains})
    BY <2>2, FiniteImage
  <2>4. IsFiniteSet({f[c] : c \in chains} \cup {Zero})
    BY <2>3, FS_AddElement
  <2>5. {f[c] : c \in chains} \cup {Zero} = S
    BY <1>1, <2>1
  <2> QED
    BY <2>4, <2>5
<1>4. S \in SUBSET Floats /\ Zero \in S
  BY <1>1, <1>2
<1>5. /\ MostOf(S) \in S /\ MostOf(S) \in Numbers
      /\ \A y \in S : y # NaN => AtMost(y, MostOf(S))
  BY <1>2, <1>3, <1>4, MostOfFacts
<1>6. WorstOf(q, chains) = MostOf(S)
  BY <1>1 DEF WorstOf
<1> QED
  BY <1>1, <1>2, <1>5, <1>6

\* Fewer chains have no worse a worst.
LEMMA WorstOfFewer ==
  ASSUME NEW chains, IsFiniteSet(chains), NEW q, \A c \in chains : q.rates[c] \in Floats,
         NEW fewer \in SUBSET chains
  PROVE  AtMost(WorstOf(q, fewer), WorstOf(q, chains))
<1>1. IsFiniteSet(fewer) /\ \A c \in fewer : q.rates[c] \in Floats
  BY FS_Subset
<1>2. /\ WorstOf(q, fewer) \in Numbers
      /\ WorstOf(q, fewer) \in {Zero} \cup {q.rates[c] : c \in fewer}
  BY <1>1, WorstOfFacts
<1>3. /\ AtMost(Zero, WorstOf(q, chains))
      /\ \A c \in chains : q.rates[c] # NaN => AtMost(q.rates[c], WorstOf(q, chains))
  BY WorstOfFacts
<1>4. WorstOf(q, fewer) # NaN
  BY <1>2 DEF Numbers
<1> QED
  BY <1>2, <1>3, <1>4

LEMMA WorstCaseFacts ==
  ASSUME NEW chains, IsFiniteSet(chains), NEW quotients, Len(quotients) \in Nat,
         DOMAIN quotients = 1 .. Len(quotients),
         \A i \in DOMAIN quotients : \A c \in chains : quotients[i].rates[c] \in Floats
  PROVE  /\ Probable(WorstCase(quotients, chains))
         /\ WorstCase(quotients, chains) \in {One} \cup Worsts(quotients, chains)
         /\ \A i \in DOMAIN quotients :
              AtMost(WorstCase(quotients, chains), WorstOf(quotients[i], chains))
<1>1. PICK S : S = {One} \cup Worsts(quotients, chains)
  OBVIOUS
<1>2. One \in Floats /\ One # NaN /\ One \in Numbers
  BY ZeroOne, OfFinites
<1>3. ASSUME NEW i \in DOMAIN quotients
      PROVE  /\ WorstOf(quotients[i], chains) \in Numbers
             /\ AtMost(Zero, WorstOf(quotients[i], chains))
  <2>1. PICK q : q = quotients[i]
    OBVIOUS
  <2>2. \A c \in chains : q.rates[c] \in Floats
    BY <1>3, <2>1
  <2> QED
    BY <2>1, <2>2, WorstOfFacts
<1>4. IsFiniteSet(S)
  <2>1. PICK f : f = [i \in 1 .. Len(quotients) |-> WorstOf(quotients[i], chains)]
    OBVIOUS
  <2>2. DOMAIN f = 1 .. Len(quotients) /\ f = [i \in 1 .. Len(quotients) |-> f[i]]
    BY <2>1
  <2>3. IsFiniteSet(1 .. Len(quotients))
    BY FS_Interval
  <2>4. IsFiniteSet({f[i] : i \in 1 .. Len(quotients)})
    BY <2>2, <2>3, FiniteImage
  <2>5. IsFiniteSet({f[i] : i \in 1 .. Len(quotients)} \cup {One})
    BY <2>4, FS_AddElement
  <2>6. {f[i] : i \in 1 .. Len(quotients)} \cup {One} = S
    BY <1>1, <2>1 DEF Worsts
  <2> QED
    BY <2>5, <2>6
<1>5. S \in SUBSET Floats /\ One \in S /\ S \subseteq Numbers
  BY <1>1, <1>2, <1>3, NumbersFrom DEF Worsts
<1>6. /\ LeastOf(S) \in S /\ LeastOf(S) \in Numbers
      /\ \A y \in S : y # NaN => AtMost(LeastOf(S), y)
  BY <1>2, <1>4, <1>5, LeastOfFacts
<1>7. WorstCase(quotients, chains) = LeastOf(S)
  BY <1>1 DEF WorstCase, Worsts, WorstOf
<1>8. AtMost(LeastOf(S), One)
  BY <1>2, <1>5, <1>6
<1>9. AtMost(Zero, LeastOf(S))
  <2>1. AtMost(Zero, One)
    <3>1. /\ Zero \in Finites /\ One \in Finites
          /\ Amounts(Zero, 0, 1) /\ Amounts(One, 1, 1)
      BY ZeroOne
    <3>2. Less(One, Zero) <=> 1 < 0
      BY <3>1, LessIs
    <3> QED
      BY <3>2 DEF AtMost
  <2> QED
    BY <1>1, <1>3, <1>6, <2>1 DEF Worsts
<1>10. LeastOf(S) \in Finites
  <2>1. LeastOf(S) # Inf
    BY <1>8, Ends, ZeroOne DEF AtMost
  <2>2. LeastOf(S) # NegInf
    BY <1>9, Ends, ZeroOne DEF AtMost
  <2> QED
    BY <1>6, <2>1, <2>2, NumbersAre
<1>11. ASSUME NEW i \in DOMAIN quotients PROVE AtMost(LeastOf(S), WorstOf(quotients[i], chains))
  <2>1. WorstOf(quotients[i], chains) \in S /\ WorstOf(quotients[i], chains) # NaN
    BY <1>1, <1>3 DEF Worsts, Numbers
  <2> QED
    BY <1>6, <2>1
<1> QED
  BY <1>1, <1>6, <1>7, <1>8, <1>9, <1>10, <1>11 DEF Probable

LEMMA WorstCaseOfFewer ==
  ASSUME NEW chains, IsFiniteSet(chains), NEW quotients, Len(quotients) \in Nat,
         DOMAIN quotients = 1 .. Len(quotients),
         \A i \in DOMAIN quotients : \A c \in chains : quotients[i].rates[c] \in Floats,
         NEW fewer \in SUBSET chains
  PROVE  AtMost(WorstCase(quotients, fewer), WorstCase(quotients, chains))
<1>1. /\ IsFiniteSet(fewer)
      /\ \A i \in DOMAIN quotients : \A c \in fewer : quotients[i].rates[c] \in Floats
  BY FS_Subset
<1>2. PICK x : x = WorstCase(quotients, fewer)
  OBVIOUS
<1>3. /\ Probable(x)
      /\ \A i \in DOMAIN quotients : AtMost(x, WorstOf(quotients[i], fewer))
  BY <1>1, <1>2, WorstCaseFacts
<1>4. WorstCase(quotients, chains) \in {One} \cup Worsts(quotients, chains)
  BY WorstCaseFacts
<1>5. ASSUME NEW i \in DOMAIN quotients PROVE AtMost(x, WorstOf(quotients[i], chains))
  <2>1. PICK q : q = quotients[i]
    OBVIOUS
  <2>2. (\A c \in chains : q.rates[c] \in Floats) /\ (\A c \in fewer : q.rates[c] \in Floats)
    BY <1>5, <2>1
  <2>3. WorstOf(q, chains) \in Numbers
    BY <2>2, WorstOfFacts
  <2>4. WorstOf(q, fewer) \in Numbers
    BY <1>1, <2>2, WorstOfFacts
  <2>5. AtMost(WorstOf(q, fewer), WorstOf(q, chains))
    BY <2>2, WorstOfFewer
  <2>6. AtMost(x, WorstOf(q, fewer)) /\ x \in Numbers
    BY <1>3, <1>5, <2>1, NumbersFrom DEF Probable
  <2>7. AtMost(x, WorstOf(q, chains))
    BY <2>3, <2>4, <2>5, <2>6, AtMostTransitive
  <2> QED
    BY <2>1, <2>7
<1> QED
  BY <1>2, <1>3, <1>4, <1>5 DEF Probable, Worsts

-----------------------------------------------------------------------------
(* Gate: powers, by squaring.                                              *)

\* The table `pow` is read off.
Squares(f, x, n) ==
  f = [i \in 0 .. n |->
         IF i = 0 THEN One
         ELSE Times(Times(f[i \div 2], f[i \div 2]), IF i % 2 = 1 THEN x ELSE One)]

\* An entry of it, from the entry of half as many positions.
Square(x, i, half) == Times(Times(half, half), IF i % 2 = 1 THEN x ELSE One)

LEMMA Halves ==
  ASSUME NEW n \in Nat, NEW i \in 0 .. n, i # 0
  PROVE  i \div 2 \in 0 .. n /\ i \div 2 < i
OBVIOUS

LEMMA SquaresAt ==
  ASSUME NEW n \in Nat, NEW x, NEW f, Squares(f, x, n)
  PROVE  /\ f[0] = One
         /\ \A i \in 0 .. n : i # 0 => f[i] = Square(x, i, f[i \div 2])
<1>1. f = [i \in 0 .. n |-> IF i = 0 THEN One ELSE Square(x, i, f[i \div 2])]
  BY DEF Squares, Square
<1>2. 0 \in 0 .. n
  OBVIOUS
<1> QED
  BY <1>1, <1>2, Zenon

LEMMA SquareIsProbable ==
  ASSUME NEW x, Probable(x), NEW i, NEW half, Probable(half)
  PROVE  Probable(Square(x, i, half))
<1>1. PICK y : y = Times(half, half)
  OBVIOUS
<1>2. Probable(y)
  BY <1>1, ProbableProduct
<1>3. PICK z : z = IF i % 2 = 1 THEN x ELSE One
  OBVIOUS
<1>4. Probable(z)
  BY <1>3, OneIsProbable
<1>5. Probable(Times(y, z))
  BY <1>2, <1>4, ProbableProduct
<1> QED
  BY <1>1, <1>3, <1>5 DEF Square

LEMMA SquaresOrdered ==
  ASSUME NEW x, Probable(x), NEW y, Probable(y), AtMost(x, y), NEW i,
         NEW a, Probable(a), NEW b, Probable(b), AtMost(a, b)
  PROVE  AtMost(Square(x, i, a), Square(y, i, b))
<1>1. PICK s, t : s = Times(a, a) /\ t = Times(b, b)
  OBVIOUS
<1>2. Probable(s) /\ Probable(t) /\ AtMost(s, t)
  <2>1. Probable(s)
    BY <1>1, ProbableProduct
  <2>2. Probable(t)
    BY <1>1, ProbableProduct
  <2>3. AtMost(s, t)
    BY <1>1, ProductsOrdered
  <2> QED
    BY <2>1, <2>2, <2>3
<1>3. PICK u, v : /\ u = IF i % 2 = 1 THEN x ELSE One
                  /\ v = IF i % 2 = 1 THEN y ELSE One
  OBVIOUS
<1>4. Probable(u) /\ Probable(v) /\ AtMost(u, v)
  BY <1>3, OneIsProbable
<1>5. AtMost(Times(s, u), Times(t, v))
  BY <1>2, <1>4, ProductsOrdered
<1> QED
  BY <1>1, <1>3, <1>5 DEF Square

\* There is such a table.
LEMMA SquaresExist ==
  ASSUME NEW n \in Nat, NEW x
  PROVE  \E f : Squares(f, x, n)
<1> DEFINE S == {m \in 0 .. n : \E f : Squares(f, x, m)}
<1>1. 0 \in S
  <2>1. PICK f : f = [i \in 0 .. 0 |-> One]
    OBVIOUS
  <2>2. \A i \in 0 .. 0 : i = 0
    OBVIOUS
  <2>3. Squares(f, x, 0)
    BY <2>1, <2>2 DEF Squares
  <2> QED
    BY <2>3
<1>2. ASSUME NEW m \in 0 .. n - 1, m \in S PROVE m + 1 \in S
  <2>1. PICK f : Squares(f, x, m)
    BY <1>2
  <2>2. PICK k \in Nat : k = m + 1
    OBVIOUS
  <2>3. PICK g : g = [i \in 0 .. k |-> IF i = k THEN Square(x, k, f[k \div 2]) ELSE f[i]]
    OBVIOUS
  <2>4. /\ f[0] = One
        /\ \A i \in 0 .. m : i # 0 => f[i] = Square(x, i, f[i \div 2])
    BY <2>1, SquaresAt
  <2>5. ASSUME NEW i \in 0 .. k
        PROVE  g[i] = IF i = 0 THEN One ELSE Square(x, i, g[i \div 2])
    <3>1. CASE i = 0
      BY <2>2, <2>3, <2>4, <3>1
    <3>2. CASE i # 0
      <4>1. i \div 2 \in 0 .. k /\ i \div 2 < i /\ i \div 2 # k
        BY <3>2, Halves
      <4>2. g[i \div 2] = f[i \div 2]
        BY <2>3, <4>1
      <4>3. CASE i = k
        BY <2>3, <3>2, <4>2, <4>3
      <4>4. CASE i # k
        <5>1. i \in 0 .. m
          BY <2>2, <4>4
        <5>2. g[i] = f[i] /\ f[i] = Square(x, i, f[i \div 2])
          BY <2>3, <2>4, <3>2, <4>4, <5>1
        <5> QED
          BY <3>2, <4>2, <5>2
      <4> QED
        BY <4>3, <4>4
    <3> QED
      BY <3>1, <3>2
  <2>6. g = [i \in 0 .. k |-> g[i]]
    BY <2>3
  <2>7. g = [i \in 0 .. k |-> IF i = 0 THEN One ELSE Square(x, i, g[i \div 2])]
    BY <2>5, <2>6
  <2>8. Squares(g, x, k)
    BY <2>7 DEF Squares, Square
  <2>9. k \in 0 .. n
    BY <2>2
  <2> QED
    BY <2>2, <2>8, <2>9
<1>3. n \in S
  <2> HIDE DEF S
  <2>1. \A i \in 0 .. n : i \in S
    BY <1>1, <1>2, UpTo
  <2> QED
    BY <2>1
<1> QED
  BY <1>3

LEMMA SquaresAreProbable ==
  ASSUME NEW n \in Nat, NEW x, Probable(x), NEW f, Squares(f, x, n)
  PROVE  \A i \in 0 .. n : Probable(f[i])
<1> DEFINE S == {i \in 0 .. n : Probable(f[i])}
<1>1. /\ f[0] = One
      /\ \A i \in 0 .. n : i # 0 => f[i] = Square(x, i, f[i \div 2])
  BY SquaresAt
<1>2. ASSUME NEW i \in 0 .. n, \A j \in 0 .. n : j < i => j \in S PROVE i \in S
  <2>1. CASE i = 0
    BY <1>1, <2>1, OneIsProbable
  <2>2. CASE i # 0
    <3>1. i \div 2 \in 0 .. n /\ i \div 2 < i
      BY <2>2, Halves
    <3>2. Probable(f[i \div 2])
      BY <1>2, <3>1
    <3>3. Probable(Square(x, i, f[i \div 2]))
      BY <3>2, SquareIsProbable
    <3> QED
      BY <1>1, <2>2, <3>3
  <2> QED
    BY <2>1, <2>2
<1>3. \A i \in 0 .. n : i \in S
  <2> HIDE DEF S
  <2> QED
    BY <1>2, FromThoseBefore
<1> QED
  BY <1>3

LEMMA TablesOrdered ==
  ASSUME NEW n \in Nat, NEW x, Probable(x), NEW y, Probable(y), AtMost(x, y),
         NEW f, Squares(f, x, n), NEW g, Squares(g, y, n)
  PROVE  \A i \in 0 .. n : AtMost(f[i], g[i])
<1> DEFINE S == {i \in 0 .. n : AtMost(f[i], g[i])}
<1>1. /\ f[0] = One
      /\ \A i \in 0 .. n : i # 0 => f[i] = Square(x, i, f[i \div 2])
  BY SquaresAt
<1>2. /\ g[0] = One
      /\ \A i \in 0 .. n : i # 0 => g[i] = Square(y, i, g[i \div 2])
  BY SquaresAt
<1>3. \A i \in 0 .. n : Probable(f[i])
  BY SquaresAreProbable
<1>4. \A i \in 0 .. n : Probable(g[i])
  BY SquaresAreProbable
<1>5. ASSUME NEW i \in 0 .. n, \A j \in 0 .. n : j < i => j \in S PROVE i \in S
  <2>1. CASE i = 0
    BY <1>1, <1>2, <2>1, OneIsProbable
  <2>2. CASE i # 0
    <3>1. i \div 2 \in 0 .. n /\ i \div 2 < i
      BY <2>2, Halves
    <3>2. /\ Probable(f[i \div 2]) /\ Probable(g[i \div 2])
          /\ AtMost(f[i \div 2], g[i \div 2])
      BY <1>3, <1>4, <1>5, <3>1
    <3>3. AtMost(Square(x, i, f[i \div 2]), Square(y, i, g[i \div 2]))
      BY <3>2, SquaresOrdered
    <3> QED
      BY <1>1, <1>2, <2>2, <3>3
  <2> QED
    BY <2>1, <2>2
<1>6. \A i \in 0 .. n : i \in S
  <2> HIDE DEF S
  <2> QED
    BY <1>5, FromThoseBefore
<1> QED
  BY <1>6

\* A length is so many positions.
LEMMA PositionsFacts ==
  ASSUME NEW len \in Floats, len # Inf
  PROVE  Positions(len) \in Nat
<1>1. CASE ~Positive(len)
  BY <1>1 DEF Positions
<1>2. CASE Positive(len)
  <2>1. len # NaN
    BY <1>2 DEF Positive, Less, IsNaN
  <2>2. len # NegInf
    BY <1>2, Ends, ZeroOne DEF Positive
  <2>3. len \in Finites
    BY <2>1, <2>2, FinitesFacts
  <2>4. PICK n \in Int, d \in Nat \ {0} : n = len[1] /\ d = len[2] /\ Amounts(len, n, d)
    BY <2>3, OfFinites
  <2>5. Less(Zero, len) <=> 0 < n
    <3>1. Zero \in Finites /\ Amounts(Zero, 0, d)
      BY ZeroOne
    <3> QED
      BY <2>3, <2>4, <3>1, LessIs
  <2>6. n \in Nat
    BY <1>2, <2>5 DEF Positive
  <2>7. n \div d \in Nat
    BY <2>6, Division
  <2> QED
    BY <1>2, <2>4, <2>7 DEF Positions
<1> QED
  BY <1>1, <1>2

\* What `pow` answers is read off the table.
LEMMA PowIsRead ==
  ASSUME NEW len \in Floats, len # Inf, NEW x, NEW n, n = Positions(len)
  PROVE  n \in Nat /\ \E f : Squares(f, x, n) /\ Pow(x, len) = f[n]
<1>1. n \in Nat
  BY PositionsFacts
<1>2. \E f : Squares(f, x, n)
  BY <1>1, SquaresExist
<1>3. PICK g : g = CHOOSE f : Squares(f, x, n)
  OBVIOUS
<1>4. Squares(g, x, n)
  BY <1>2, <1>3
<1>5. Pow(x, len) = g[n]
  BY <1>3 DEF Pow, Squares
<1> QED
  BY <1>1, <1>4, <1>5

LEMMA PowFacts ==
  ASSUME NEW len \in Floats, NEW x, Probable(x), NEW y, Probable(y), AtMost(x, y)
  PROVE  Probable(Pow(x, len)) /\ AtMost(Pow(x, len), Pow(y, len))
<1>1. CASE len = Inf
  <2>1. x \in Numbers /\ y \in Numbers /\ One \in Numbers /\ Zero \in Numbers
    BY NumbersFrom, ZeroOne DEF Probable
  <2>2. Less(y, One) => Less(x, One)
    BY <2>1, Ordered, AtMostTransitive
  <2>3. AtMost(Zero, One) /\ AtMost(Zero, Zero) /\ AtMost(One, One)
    BY <2>1, Ordered, OneIsProbable DEF Probable
  <2> QED
    BY <1>1, <2>2, <2>3, OneIsProbable DEF Pow
<1>2. CASE len # Inf
  <2>1. PICK n : n = Positions(len)
    OBVIOUS
  <2>2. PICK f : n \in Nat /\ Squares(f, x, n) /\ Pow(x, len) = f[n]
    BY <1>2, <2>1, PowIsRead
  <2>3. PICK g : Squares(g, y, n) /\ Pow(y, len) = g[n]
    BY <1>2, <2>1, PowIsRead
  <2>4. n \in 0 .. n
    BY <2>2
  <2>5. Probable(f[n])
    BY <2>2, <2>4, SquaresAreProbable
  <2>6. AtMost(f[n], g[n])
    BY <2>2, <2>3, <2>4, TablesOrdered
  <2> QED
    BY <2>2, <2>3, <2>5, <2>6
<1> QED
  BY <1>1, <1>2

\* A filter that passes more positions passes more haystacks.
LEMMA SurvivalFacts ==
  ASSUME NEW len \in Floats, NEW x, Probable(x), NEW y, Probable(y), AtMost(x, y)
  PROVE  Probable(Survival(x, len)) /\ AtMost(Survival(x, len), Survival(y, len))
<1>1. PICK u, v : u = Minus(One, x) /\ v = Minus(One, y)
  OBVIOUS
<1>2. Probable(u)
  BY <1>1, ProbableRest
<1>3. Probable(v)
  BY <1>1, ProbableRest
<1>4. AtMost(v, u)
  BY <1>1, RestsOrdered
<1>5. PICK s, t : s = Pow(u, len) /\ t = Pow(v, len)
  OBVIOUS
<1>6. Probable(t) /\ AtMost(t, s)
  BY <1>2, <1>3, <1>4, <1>5, PowFacts
<1>7. Probable(s)
  <2>1. AtMost(u, u)
    BY <1>2, Ordered, NumbersFrom DEF Probable
  <2> QED
    BY <1>2, <1>5, <2>1, PowFacts
<1>8. Probable(Minus(One, s))
  BY <1>7, ProbableRest
<1>9. AtMost(Minus(One, s), Minus(One, t))
  BY <1>6, <1>7, RestsOrdered
<1> QED
  BY <1>1, <1>5, <1>8, <1>9 DEF Survival

-----------------------------------------------------------------------------
(* Gate: the worth test.                                                   *)

\* What the terms of a cost are.
Priceable(k) ==
  /\ Probable(k.fallthrough) /\ k.len \in Floats
  /\ k.sieve \in Numbers /\ AtMost(Zero, k.sieve)
  /\ k.rival \in Floats /\ k.bypass \in Floats /\ k.rivals \in Nat

Survives(k) == Survival(k.fallthrough, k.len)

LEMMA SurvivesIsProbable == ASSUME NEW k, Priceable(k) PROVE Probable(Survives(k))
<1>1. PICK x : x = k.fallthrough
  OBVIOUS
<1>2. Probable(x) /\ k.len \in Floats
  BY <1>1 DEF Priceable
<1>3. AtMost(x, x)
  BY <1>2, Ordered, NumbersFrom DEF Probable
<1>4. Probable(Survival(x, k.len))
  BY <1>2, <1>3, SurvivalFacts
<1> QED
  BY <1>1, <1>4 DEF Survives

\* The two sides over denominators of their own.
LEMMA TotalIs ==
  ASSUME NEW k, Priceable(k), k.sieve \in Finites, Unfiltered(k) \in Finites,
         NEW a \in Int, NEW b \in Int, NEW c \in Int, NEW d \in Nat \ {0}, NEW e \in Nat \ {0},
         Amounts(k.sieve, a, d), Amounts(Unfiltered(k), c, d), Amounts(Survives(k), b, e)
  PROVE  /\ Total(k) \in Finites
         /\ a * e + b * c \in Int /\ d * e \in Nat \ {0}
         /\ Amounts(Total(k), a * e + b * c, d * e)
<1>1. PICK s, u, p : s = k.sieve /\ u = Unfiltered(k) /\ p = Survives(k)
  OBVIOUS
<1>2. s \in Finites /\ u \in Finites /\ p \in Finites
  BY <1>1, SurvivesIsProbable DEF Probable
<1>3. Amounts(s, a, d) /\ Amounts(u, c, d) /\ Amounts(p, b, e)
  BY <1>1
<1>4. PICK t : t = Times(p, u)
  OBVIOUS
<1>5. t \in Finites /\ b * c \in Int /\ Amounts(t, b * c, e * d)
  BY <1>2, <1>3, <1>4, TimesIs
<1>6. e * d = d * e
  OBVIOUS
<1>7. d * e \in Nat \ {0} /\ a * e \in Int /\ Amounts(s, a * e, d * e)
  BY <1>2, <1>3, Rescaled
<1>8. PICK n \in Int, l \in Int, m \in Nat \ {0} : n = a * e /\ l = b * c /\ m = d * e
  BY <1>5, <1>7
<1>9. Amounts(s, n, m) /\ Amounts(t, l, m)
  BY <1>5, <1>6, <1>7, <1>8
<1>10. Plus(s, t) \in Finites /\ n + l \in Int /\ Amounts(Plus(s, t), n + l, m)
  BY <1>2, <1>5, <1>9, PlusIs
<1>11. Total(k) = Plus(s, t)
  BY <1>1, <1>4 DEF Total, Survives
<1> QED
  BY <1>8, <1>10, <1>11

LEMMA MarginIs ==
  ASSUME NEW x \in Finites, NEW n \in Int, NEW m \in Nat \ {0}, Amounts(x, n, m)
  PROVE  WithMargin(x) \in Finites /\ n * 5 \in Int /\ Amounts(WithMargin(x), n * 5, m * 4)
<1>1. PICK y : y = <<5, 4>>
  OBVIOUS
<1>2. y \in Finites /\ Amounts(y, 5, 4)
  BY <1>1 DEF Finites, Amounts
<1>3. Times(x, y) \in Finites /\ n * 5 \in Int /\ Amounts(Times(x, y), n * 5, m * 4)
  BY <1>2, TimesIs
<1> QED
  BY <1>1, <1>3 DEF WithMargin

\* The worth test, in whole numbers.
LEMMA PaysIs ==
  ASSUME NEW k, Priceable(k), k.sieve \in Finites, Unfiltered(k) \in Finites,
         NEW a \in Int, NEW b \in Int, NEW c \in Int, NEW d \in Nat \ {0}, NEW e \in Nat \ {0},
         Amounts(k.sieve, a, d), Amounts(Unfiltered(k), c, d), Amounts(Survives(k), b, e)
  PROVE  Pays(k) <=> 0 <= a * e + b * c /\ (a * e + b * c) * 5 < (c * e) * 4
<1>1. /\ Total(k) \in Finites
      /\ a * e + b * c \in Int /\ d * e \in Nat \ {0}
      /\ Amounts(Total(k), a * e + b * c, d * e)
  BY TotalIs
<1>2. PICK n \in Int, m \in Nat \ {0} : n = a * e + b * c /\ m = d * e
  BY <1>1
<1>3. PICK t, u : t = Total(k) /\ u = Unfiltered(k)
  OBVIOUS
<1>4. t \in Finites /\ Amounts(t, n, m) /\ u \in Finites /\ Amounts(u, c, d)
  BY <1>1, <1>2, <1>3
<1>5. Less(t, Zero) <=> n < 0
  <2>1. Zero \in Finites /\ Amounts(Zero, 0, m)
    BY ZeroOne
  <2> QED
    BY <1>4, <2>1, LessIs
<1>6. d * e \in Nat \ {0} /\ c * e \in Int /\ Amounts(u, c * e, d * e)
  BY <1>4, Rescaled
<1>7. PICK q \in Int : q = c * e
  BY <1>6
<1>8. Amounts(u, q, m)
  BY <1>2, <1>6, <1>7
<1>9. m * 4 \in Nat \ {0} /\ q * 4 \in Int /\ Amounts(u, q * 4, m * 4)
  BY <1>4, <1>8, Rescaled
<1>10. WithMargin(t) \in Finites /\ n * 5 \in Int /\ Amounts(WithMargin(t), n * 5, m * 4)
  BY <1>4, MarginIs
<1>11. Less(WithMargin(t), u) <=> n * 5 < q * 4
  <2>1. PICK i \in Int, j \in Int, o \in Nat \ {0} : i = n * 5 /\ j = q * 4 /\ o = m * 4
    BY <1>9, <1>10
  <2>2. Amounts(WithMargin(t), i, o) /\ Amounts(u, j, o)
    BY <1>9, <1>10, <2>1
  <2>3. Less(WithMargin(t), u) <=> i < j
    BY <1>4, <1>10, <2>2, LessIs
  <2> QED
    BY <2>1, <2>3
<1>12. t # NaN /\ Finite(u)
  BY <1>4, OfFinites
<1>13. Pays(k) <=> ~Less(t, Zero) /\ Less(WithMargin(t), u)
  BY <1>3, <1>12 DEF Pays
<1> QED
  BY <1>2, <1>5, <1>7, <1>11, <1>13

\* The unfiltered side is an f64, and a number only if both it is made of are.
LEMMA UnfilteredFacts ==
  ASSUME NEW k, Priceable(k)
  PROVE  /\ Unfiltered(k) \in Floats
         /\ Unfiltered(k) # NaN => k.rival # NaN /\ k.bypass # NaN
<1>1. PICK n : n = IF k.rivals = 0 THEN 1 ELSE k.rivals
  OBVIOUS
<1>2. n \in Int /\ Fanout(k.rivals) = F(n)
  BY <1>1 DEF Priceable, Fanout
<1>3. F(n) \in Floats /\ F(n)[1] = n /\ F(n)[2] = 1
  BY <1>2, Whole
<1>4. PICK blind : blind = Times(F(n), k.rival)
  OBVIOUS
<1>5. blind \in Floats
  BY <1>3, <1>4, TimesCloses DEF Priceable
<1>6. k.rival = NaN => blind = NaN
  <2>1. n * 0 = 0 /\ 1 * 0 = 0
    BY <1>2
  <2>2. NaN[1] = 0 /\ NaN[2] = 0
    BY DEF NaN
  <2>3. k.rival = NaN => blind = Fraction(0, 0)
    BY <1>3, <1>4, <2>1, <2>2 DEF Times
  <2> QED
    BY <2>3 DEF Fraction
<1>7. Unfiltered(k) = IF IsNaN(blind) \/ IsNaN(k.bypass) THEN NaN ELSE Least(blind, k.bypass)
  BY <1>2, <1>4 DEF Unfiltered
<1>8. NaN \in Floats
  BY DEF Floats
<1> QED
  BY <1>5, <1>6, <1>7, <1>8, LeastMostClose DEF IsNaN, Priceable

\* A sieve that costs without bound never pays.
LEMMA BoundlessTotal ==
  ASSUME NEW k, Priceable(k), k.sieve \notin Finites, Unfiltered(k) \in Finites
  PROVE  Total(k) = Inf /\ ~Pays(k)
<1>1. k.sieve = Inf
  BY Ends, ZeroOne, NumbersAre DEF Priceable, AtMost
<1>2. PICK t : t = Times(Survives(k), Unfiltered(k))
  OBVIOUS
<1>3. t \in Finites
  <2>1. Survives(k) \in Finites /\ Survives(k) \in Floats /\ Unfiltered(k) \in Floats
    BY SurvivesIsProbable, OfFinites DEF Probable
  <2> QED
    BY <1>2, <2>1, TimesCloses
<1>4. PICK n \in Int, d \in Nat \ {0} : n = t[1] /\ d = t[2]
  BY <1>3, OfFinites
<1>5. Plus(Inf, t) = Inf
  <2>1. Inf[1] = 1 /\ Inf[2] = 0 /\ ~Finite(Inf) /\ Inf # t
    BY <1>3, OfFinites DEF Inf, Finite
  <2>2. 1 * d + n * 0 = d /\ d > 0
    OBVIOUS
  <2>3. Plus(Inf, t) = Fraction(d, 0)
    BY <1>4, <2>1, <2>2 DEF Plus
  <2> QED
    BY <2>2, <2>3 DEF Fraction
<1>6. Total(k) = Inf
  BY <1>1, <1>2, <1>5 DEF Total, Survives
<1>7. WithMargin(Inf) = Inf
  <2>1. PICK y : y = <<5, 4>>
    OBVIOUS
  <2>2. Inf[1] = 1 /\ Inf[2] = 0 /\ y[1] = 5 /\ y[2] = 4
    BY <2>1 DEF Inf
  <2>3. Times(Inf, y) = Fraction(5, 0)
    BY <2>2 DEF Times
  <2>4. Times(Inf, y) = Inf
    BY <2>3 DEF Fraction
  <2> QED
    BY <2>1, <2>4 DEF WithMargin
<1>8. ~Less(Inf, Unfiltered(k))
  BY Ends, NumbersFrom
<1> QED
  BY <1>6, <1>7, <1>8 DEF Pays

\* What passes the worth test is finite on both sides.
LEMMA PaysFinitely ==
  ASSUME NEW k, Priceable(k), Pays(k)
  PROVE  Unfiltered(k) \in Finites /\ k.sieve \in Finites
<1>1. Unfiltered(k) \in Floats /\ Finite(Unfiltered(k))
  BY UnfilteredFacts DEF Pays
<1>2. Unfiltered(k) \in Finites
  BY <1>1, FinitesFacts
<1> QED
  BY <1>2, BoundlessTotal

\* A product of naturals, and what it takes to be positive.
LEMMA WholeWorth ==
  ASSUME NEW a \in Nat, NEW b \in Nat, NEW c \in Int, NEW e \in Nat \ {0},
         0 <= a * e + b * c, (a * e + b * c) * 5 < (c * e) * 4
  PROVE  0 < c /\ a < c
<1>1. PICK m \in Int, n \in Int, o \in Int : m = a * e /\ n = b * c /\ o = c * e
  OBVIOUS
<1>2. 0 <= m + n /\ (m + n) * 5 < o * 4
  BY <1>1
<1>3. 0 < o
  BY <1>2
<1>4. e * 0 = 0 /\ e * c = o /\ e * a = m
  BY <1>1
<1>5. e * 0 < e * c
  BY <1>3, <1>4
<1>6. 0 < c
  BY <1>5, Cancelling
<1>7. 0 <= n
  <2>1. c \in Nat
    BY <1>6
  <2> QED
    BY <1>1, <2>1
<1>8. m < o
  BY <1>2, <1>3, <1>7
<1>9. e * a < e * c
  BY <1>4, <1>8
<1>10. a < c
  BY <1>9, Cancelling
<1> QED
  BY <1>6, <1>10

LEMMA WholeMargin ==
  ASSUME NEW a \in Nat, NEW b \in Nat, NEW c \in Nat \ {0}, NEW f \in Nat, c <= f,
         NEW e \in Nat \ {0},
         (a * e + b * c) * 5 < (c * e) * 4
  PROVE  0 <= a * e + b * f /\ (a * e + b * f) * 5 < (f * e) * 4
<1>1. PICK w \in Int : w = 4 * e - 5 * b
  <2>1. 4 * e \in Int /\ 5 * b \in Int
    OBVIOUS
  <2>2. 4 * e - 5 * b \in Int
    BY <2>1
  <2> QED
    BY <2>2
<1>2. PICK m \in Nat : m = a * e
  OBVIOUS
<1>3. c * w = (c * e) * 4 - (b * c) * 5
  BY <1>1
<1>4. c * w > m * 5
  <2>1. PICK i \in Int, j \in Int : i = b * c /\ j = c * e
    OBVIOUS
  <2>2. (m + i) * 5 < j * 4 /\ c * w = j * 4 - i * 5
    BY <1>2, <1>3, <2>1
  <2> QED
    BY <2>2
<1>5. w > 0
  <2>1. c * 0 = 0 /\ c * w \in Int
    OBVIOUS
  <2>2. c * 0 < c * w
    BY <1>4, <2>1
  <2>3. 0 < w
    BY <2>2, Cancelling
  <2> QED
    BY <2>3
<1>6. c * w <= f * w
  <2>1. w \in Nat /\ c \in Nat /\ w <= w
    BY <1>5
  <2> QED
    BY <2>1, ProductsGrow
<1>7. f * w = (f * e) * 4 - (b * f) * 5
  BY <1>1
<1>8. (a * e + b * f) * 5 < (f * e) * 4
  <2>1. PICK i \in Int, j \in Int : i = b * f /\ j = f * e
    OBVIOUS
  <2>2. f * w = j * 4 - i * 5
    BY <1>7, <2>1
  <2>3. c * w \in Int /\ f * w \in Int
    OBVIOUS
  <2>4. m * 5 < j * 4 - i * 5
    BY <1>4, <1>6, <2>2, <2>3
  <2>5. (m + i) * 5 < j * 4
    BY <2>4
  <2> QED
    BY <1>2, <2>1, <2>5
<1>9. 0 <= a * e + b * f
  <2>1. PICK i \in Nat : i = b * f
    OBVIOUS
  <2> QED
    BY <1>2, <2>1
<1> QED
  BY <1>8, <1>9

\* What passes the worth test costs something, less than going without.
LEMMA PaysMeans ==
  ASSUME NEW k, Priceable(k), Pays(k)
  PROVE  /\ Total(k) \in Finites /\ AtMost(Zero, Total(k))
         /\ Positive(Unfiltered(k)) /\ Less(k.sieve, Unfiltered(k))
<1>1. PICK s, u, p : s = k.sieve /\ u = Unfiltered(k) /\ p = Survives(k)
  OBVIOUS
<1>2. s \in Finites /\ u \in Finites /\ Probable(p) /\ p \in Finites
  BY <1>1, PaysFinitely, SurvivesIsProbable DEF Probable
<1>3. PICK d \in Nat \ {0}, a \in Int, c \in Int, x \in Int :
        /\ Amounts(s, a, d)
        /\ Amounts(u, c, d)
        /\ Amounts(u, x, d)
  BY <1>2, OverOne
<1>4. PICK b \in Int, e \in Nat \ {0} : Amounts(p, b, e)
  BY <1>2, OfFinites
<1>5. Amounts(k.sieve, a, d) /\ Amounts(Unfiltered(k), c, d) /\ Amounts(Survives(k), b, e)
  BY <1>1, <1>3, <1>4
<1>6. k.sieve \in Finites /\ Unfiltered(k) \in Finites
  BY <1>1, <1>2
<1>7. 0 <= a * e + b * c /\ (a * e + b * c) * 5 < (c * e) * 4
  BY <1>5, <1>6, PaysIs
<1>8. a \in Nat
  <2>1. AtMost(Zero, s)
    BY <1>1 DEF Priceable
  <2> QED
    BY <1>2, <1>3, <2>1, NotNegative
<1>9. b \in Nat
  <2>1. AtMost(Zero, p)
    BY <1>2 DEF Probable
  <2> QED
    BY <1>2, <1>4, <2>1, NotNegative
<1>10. 0 < c /\ a < c
  BY <1>7, <1>8, <1>9, WholeWorth
<1>11. Positive(u)
  BY <1>2, <1>3, <1>10, NotNegative
<1>12. Less(s, u) <=> a < c
  BY <1>2, <1>3, LessIs
<1>13. /\ Total(k) \in Finites
       /\ a * e + b * c \in Int /\ d * e \in Nat \ {0}
       /\ Amounts(Total(k), a * e + b * c, d * e)
  BY <1>5, <1>6, TotalIs
<1>14. AtMost(Zero, Total(k))
  <2>1. PICK n \in Int, m \in Nat \ {0} : n = a * e + b * c /\ m = d * e
    BY <1>13
  <2>2. Amounts(Total(k), n, m) /\ n \in Nat
    BY <1>7, <1>13, <2>1
  <2> QED
    BY <1>13, <2>2, NotNegative
<1> QED
  BY <1>1, <1>10, <1>11, <1>12, <1>13, <1>14

\* With a rival that costs something and a sieve that is finite, the total is a cost.
LEMMA TotalNotNegative ==
  ASSUME NEW k, Priceable(k), k.sieve \in Finites, Unfiltered(k) \in Finites,
         Positive(Unfiltered(k))
  PROVE  Total(k) \in Finites /\ AtMost(Zero, Total(k))
<1>1. PICK s, u, p : s = k.sieve /\ u = Unfiltered(k) /\ p = Survives(k)
  OBVIOUS
<1>2. s \in Finites /\ u \in Finites /\ Probable(p) /\ p \in Finites
  BY <1>1, SurvivesIsProbable DEF Probable
<1>3. PICK d \in Nat \ {0}, a \in Int, c \in Int, x \in Int :
        /\ Amounts(s, a, d)
        /\ Amounts(u, c, d)
        /\ Amounts(u, x, d)
  BY <1>2, OverOne
<1>4. PICK b \in Int, e \in Nat \ {0} : Amounts(p, b, e)
  BY <1>2, OfFinites
<1>5. Amounts(k.sieve, a, d) /\ Amounts(Unfiltered(k), c, d) /\ Amounts(Survives(k), b, e)
  BY <1>1, <1>3, <1>4
<1>6. /\ Total(k) \in Finites
      /\ a * e + b * c \in Int /\ d * e \in Nat \ {0}
      /\ Amounts(Total(k), a * e + b * c, d * e)
  BY <1>5, TotalIs
<1>7. a \in Nat
  <2>1. AtMost(Zero, s)
    BY <1>1 DEF Priceable
  <2> QED
    BY <1>2, <1>3, <2>1, NotNegative
<1>8. b \in Nat
  <2>1. AtMost(Zero, p)
    BY <1>2 DEF Probable
  <2> QED
    BY <1>2, <1>4, <2>1, NotNegative
<1>9. c \in Nat
  <2>1. Positive(u)
    BY <1>1
  <2> QED
    BY <1>2, <1>3, <2>1, NotNegative
<1>10. PICK m \in Nat \ {0}, n \in Nat : n = a * e + b * c /\ m = d * e
  <2>1. a * e \in Nat /\ b * c \in Nat
    BY <1>7, <1>8, <1>9
  <2>2. a * e + b * c \in Nat
    BY <2>1
  <2> QED
    BY <1>6, <2>2
<1>11. Amounts(Total(k), n, m)
  BY <1>6, <1>10
<1> QED
  BY <1>6, <1>11, NotNegative

LEMMA MarginOrdered ==
  ASSUME NEW x \in Finites, NEW y \in Finites, AtMost(x, y)
  PROVE  /\ WithMargin(x) \in Numbers /\ WithMargin(y) \in Numbers
         /\ AtMost(WithMargin(x), WithMargin(y))
<1>1. PICK d \in Nat \ {0}, a \in Int, b \in Int, c \in Int :
        /\ Amounts(x, a, d)
        /\ Amounts(y, b, d)
        /\ Amounts(y, c, d)
  BY OverOne
<1>2. WithMargin(x) \in Finites /\ a * 5 \in Int /\ Amounts(WithMargin(x), a * 5, d * 4)
  BY <1>1, MarginIs
<1>3. WithMargin(y) \in Finites /\ b * 5 \in Int /\ Amounts(WithMargin(y), b * 5, d * 4)
  BY <1>1, MarginIs
<1>4. Less(y, x) <=> b < a
  BY <1>1, LessIs
<1>5. PICK i \in Int, j \in Int, m \in Nat \ {0} : i = a * 5 /\ j = b * 5 /\ m = d * 4
  OBVIOUS
<1>6. Amounts(WithMargin(x), i, m) /\ Amounts(WithMargin(y), j, m)
  BY <1>2, <1>3, <1>5
<1>7. Less(WithMargin(y), WithMargin(x)) <=> j < i
  BY <1>2, <1>3, <1>6, LessIs
<1> QED
  BY <1>2, <1>3, <1>4, <1>5, <1>7, NumbersFrom DEF AtMost

\* A total that is no greater pays, against the same alternative, when the greater does.
LEMMA CheaperPays ==
  ASSUME NEW k, Priceable(k), NEW l, Priceable(l), Unfiltered(k) = Unfiltered(l),
         Pays(l), AtMost(Total(k), Total(l))
  PROVE  Pays(k)
<1>1. PICK u : u = Unfiltered(l) /\ u = Unfiltered(k)
  OBVIOUS
<1>2. u \in Finites /\ Positive(u) /\ Total(l) \in Finites
  BY <1>1, PaysFinitely, PaysMeans
<1>3. k.sieve \in Finites
  <2>1. SUFFICES ASSUME k.sieve \notin Finites PROVE FALSE
    OBVIOUS
  <2>2. Total(k) = Inf
    BY <1>1, <1>2, <2>1, BoundlessTotal
  <2>3. Less(Total(l), Inf)
    BY <1>2, Ends, NumbersFrom
  <2> QED
    BY <2>2, <2>3 DEF AtMost
<1>4. Total(k) \in Finites /\ AtMost(Zero, Total(k))
  BY <1>1, <1>2, <1>3, TotalNotNegative
<1>5. PICK x, y : x = WithMargin(Total(k)) /\ y = WithMargin(Total(l))
  OBVIOUS
<1>6. x \in Numbers /\ y \in Numbers /\ AtMost(x, y)
  BY <1>2, <1>4, <1>5, MarginOrdered
<1>7. Less(y, u)
  BY <1>1, <1>5 DEF Pays
<1>8. u \in Numbers
  BY <1>2, NumbersFrom
<1>9. Less(x, u)
  <2>1. SUFFICES ASSUME AtMost(u, x) PROVE FALSE
    BY <1>6, <1>8, Ordered
  <2>2. AtMost(u, y)
    BY <1>6, <1>8, <2>1, AtMostTransitive
  <2> QED
    BY <1>7, <2>2 DEF AtMost
<1>10. Total(k) # NaN /\ Finite(u)
  BY <1>2, <1>4, OfFinites
<1> QED
  BY <1>1, <1>4, <1>5, <1>9, <1>10 DEF Pays, AtMost

\* So does a candidate whose sieve costs no more and that lets no more through.
LEMMA SlimmerPays ==
  ASSUME NEW k, Priceable(k), NEW l, Priceable(l), Unfiltered(k) = Unfiltered(l),
         Pays(l), AtMost(Survives(k), Survives(l)), AtMost(k.sieve, l.sieve)
  PROVE  Pays(k)
<1>1. PICK s, r, u, p, q : /\ s = k.sieve /\ r = l.sieve /\ u = Unfiltered(l)
                           /\ u = Unfiltered(k) /\ p = Survives(k) /\ q = Survives(l)
  OBVIOUS
<1>2. r \in Finites /\ u \in Finites /\ Positive(u)
  BY <1>1, PaysFinitely, PaysMeans
<1>3. Probable(p)
  BY <1>1, SurvivesIsProbable
<1>4. Probable(q)
  BY <1>1, SurvivesIsProbable
<1>5. s \in Finites
  <2>1. s \in Numbers /\ AtMost(Zero, s) /\ AtMost(s, r)
    BY <1>1 DEF Priceable
  <2>2. s # NegInf
    BY <2>1, Ends, ZeroOne DEF AtMost
  <2>3. s # Inf
    BY <1>2, <2>1, Ends, NumbersFrom DEF AtMost
  <2> QED
    BY <2>1, <2>2, <2>3, NumbersAre
<1>6. PICK d \in Nat \ {0}, a \in Int, f \in Int, c \in Int :
        /\ Amounts(s, a, d)
        /\ Amounts(r, f, d)
        /\ Amounts(u, c, d)
  BY <1>2, <1>5, OverOne
<1>7. p \in Finites /\ q \in Finites /\ AtMost(Zero, p)
  BY <1>3, <1>4 DEF Probable
<1>8. PICK e \in Nat \ {0}, b \in Int, g \in Int, x \in Int :
        /\ Amounts(p, b, e)
        /\ Amounts(q, g, e)
        /\ Amounts(q, x, e)
  BY <1>7, OverOne
<1>9. a <= f
  <2>1. Less(r, s) <=> f < a
    BY <1>2, <1>5, <1>6, LessIs
  <2> QED
    BY <1>1, <2>1 DEF AtMost
<1>10. b <= g
  <2>1. Less(q, p) <=> g < b
    BY <1>7, <1>8, LessIs
  <2> QED
    BY <1>1, <2>1 DEF AtMost
<1>11. b \in Nat
  BY <1>7, <1>8, NotNegative
<1>12. c \in Nat
  BY <1>2, <1>6, NotNegative
<1>13. a \in Nat
  <2>1. AtMost(Zero, s)
    BY <1>1 DEF Priceable
  <2> QED
    BY <1>5, <1>6, <2>1, NotNegative
<1>14. a * e <= f * e
  BY <1>9, <1>13, ProductsGrow
<1>15. b * c <= g * c
  BY <1>10, <1>11, <1>12, ProductsGrow
<1>16. /\ Amounts(k.sieve, a, d) /\ Amounts(Unfiltered(k), c, d) /\ Amounts(Survives(k), b, e)
       /\ Amounts(l.sieve, f, d) /\ Amounts(Unfiltered(l), c, d) /\ Amounts(Survives(l), g, e)
       /\ k.sieve \in Finites /\ Unfiltered(k) \in Finites
       /\ l.sieve \in Finites /\ Unfiltered(l) \in Finites
  BY <1>1, <1>2, <1>5, <1>6, <1>8
<1>17. /\ Total(k) \in Finites
       /\ a * e + b * c \in Int /\ d * e \in Nat \ {0}
       /\ Amounts(Total(k), a * e + b * c, d * e)
  BY <1>16, TotalIs
<1>18. /\ Total(l) \in Finites
       /\ f * e + g * c \in Int
       /\ Amounts(Total(l), f * e + g * c, d * e)
  BY <1>16, TotalIs
<1>19. PICK i \in Int, j \in Int, m \in Nat \ {0} :
         i = a * e + b * c /\ j = f * e + g * c /\ m = d * e
  BY <1>17, <1>18
<1>20. i <= j
  <2>1. PICK x1 \in Int, x2 \in Int, x3 \in Int, x4 \in Int :
          x1 = a * e /\ x2 = b * c /\ x3 = f * e /\ x4 = g * c
    OBVIOUS
  <2>2. x1 <= x3 /\ x2 <= x4 /\ i = x1 + x2 /\ j = x3 + x4
    BY <1>14, <1>15, <1>19, <2>1
  <2> QED
    BY <2>2
<1>21. Amounts(Total(k), i, m) /\ Amounts(Total(l), j, m)
  BY <1>17, <1>18, <1>19
<1>22. Less(Total(l), Total(k)) <=> j < i
  BY <1>17, <1>18, <1>21, LessIs
<1>23. AtMost(Total(k), Total(l))
  BY <1>20, <1>22 DEF AtMost
<1> QED
  BY <1>23, CheaperPays

\* And the same candidate, where going without costs more.
LEMMA DearerWithoutPays ==
  ASSUME NEW k, Priceable(k), NEW l, Priceable(l), Pays(l),
         k.sieve = l.sieve, Survives(k) = Survives(l),
         Unfiltered(k) \in Finites, AtMost(Unfiltered(l), Unfiltered(k))
  PROVE  Pays(k)
<1>1. PICK s, u, v, p : /\ s = k.sieve /\ s = l.sieve /\ p = Survives(k) /\ p = Survives(l)
                        /\ u = Unfiltered(l) /\ v = Unfiltered(k)
  OBVIOUS
<1>2. s \in Finites /\ u \in Finites /\ v \in Finites /\ Positive(u)
  BY <1>1, PaysFinitely, PaysMeans
<1>3. Probable(p) /\ p \in Finites /\ AtMost(Zero, p)
  BY <1>1, SurvivesIsProbable DEF Probable
<1>4. PICK d \in Nat \ {0}, a \in Int, c \in Int, f \in Int :
        /\ Amounts(s, a, d)
        /\ Amounts(u, c, d)
        /\ Amounts(v, f, d)
  BY <1>2, OverOne
<1>5. PICK b \in Int, e \in Nat \ {0} : Amounts(p, b, e)
  BY <1>3, OfFinites
<1>6. a \in Nat
  <2>1. AtMost(Zero, s)
    BY <1>1 DEF Priceable
  <2> QED
    BY <1>2, <1>4, <2>1, NotNegative
<1>7. b \in Nat
  BY <1>3, <1>5, NotNegative
<1>8. c \in Nat \ {0}
  BY <1>2, <1>4, NotNegative
<1>9. c <= f
  <2>1. Less(v, u) <=> f < c
    BY <1>2, <1>4, LessIs
  <2> QED
    BY <1>1, <2>1 DEF AtMost
<1>10. f \in Nat
  BY <1>8, <1>9
<1>11. /\ Amounts(k.sieve, a, d) /\ Amounts(Unfiltered(k), f, d) /\ Amounts(Survives(k), b, e)
       /\ Amounts(l.sieve, a, d) /\ Amounts(Unfiltered(l), c, d) /\ Amounts(Survives(l), b, e)
       /\ k.sieve \in Finites /\ Unfiltered(k) \in Finites
       /\ l.sieve \in Finites /\ Unfiltered(l) \in Finites
  BY <1>1, <1>2, <1>4, <1>5
<1>12. (a * e + b * c) * 5 < (c * e) * 4
  <2>1. Pays(l) <=> 0 <= a * e + b * c /\ (a * e + b * c) * 5 < (c * e) * 4
    BY <1>11, PaysIs
  <2> QED
    BY <2>1
<1>13. 0 <= a * e + b * f /\ (a * e + b * f) * 5 < (f * e) * 4
  BY <1>6, <1>7, <1>8, <1>9, <1>10, <1>12, WholeMargin
<1>14. Pays(k) <=> 0 <= a * e + b * f /\ (a * e + b * f) * 5 < (f * e) * 4
  BY <1>11, PaysIs
<1> QED
  BY <1>13, <1>14

-----------------------------------------------------------------------------
(* Gate: more rivals.                                                      *)

\* With more rivals to spare, going without costs no less.
LEMMA MoreRivals ==
  ASSUME NEW k, Priceable(k), NEW l, Priceable(l), Unfiltered(l) \in Finites,
         Positive(Unfiltered(l)), k.rival = l.rival,
         NEW m \in Nat \ {0}, NEW n \in Nat, m <= n,
         Fanout(l.rivals) = F(m), Fanout(k.rivals) = F(n),
         \/ k.bypass = l.bypass
         \/ \E x \in Floats : l.bypass = Times(x, F(m)) /\ k.bypass = Times(x, F(n))
  PROVE  Unfiltered(k) \in Finites /\ AtMost(Unfiltered(l), Unfiltered(k))
<1>1. PICK u, b, c, d, e : /\ u = Unfiltered(l)
                           /\ b = Times(F(m), l.rival) /\ c = Times(F(n), l.rival)
                           /\ d = l.bypass /\ e = k.bypass
  OBVIOUS
<1>2. l.rival \in Floats /\ d \in Floats /\ e \in Floats
  BY <1>1 DEF Priceable
<1>3. /\ b \in Floats /\ c \in Floats
      /\ b # NaN /\ Positive(b) => c # NaN /\ AtMost(b, c)
      /\ b \in Finites => c \in Finites
  BY <1>1, <1>2, MoreTimes
<1>4. /\ d # NaN /\ Positive(d) => e # NaN /\ AtMost(d, e)
      /\ d \in Finites => e \in Finites
  <2>1. CASE e = d
    BY <1>2, <2>1, Ordered DEF Numbers
  <2>2. CASE e # d
    <3>1. PICK x \in Floats : d = Times(x, F(m)) /\ e = Times(x, F(n))
      BY <1>1, <2>2
    <3>2. /\ Times(x, F(m)) = Times(F(m), x) /\ Times(x, F(n)) = Times(F(n), x)
      <4>1. x[1] \in Int /\ x[2] \in Int
        BY FinitesFacts, OfFinites DEF Inf, NegInf, NaN
      <4>2. m \in Int /\ n \in Int
        OBVIOUS
      <4>3. F(m)[1] = m /\ F(m)[2] = 1 /\ F(n)[1] = n /\ F(n)[2] = 1
        BY DEF F
      <4>4. PICK i \in Int, j \in Int : i = x[1] /\ j = x[2]
        BY <4>1
      <4>5. i * m = m * i /\ j * 1 = 1 * j /\ i * n = n * i
        BY <4>2
      <4> QED
        BY <4>3, <4>4, <4>5 DEF Times
    <3>3. /\ Times(F(m), x) # NaN /\ Positive(Times(F(m), x)) =>
              /\ Times(F(n), x) # NaN
              /\ AtMost(Times(F(m), x), Times(F(n), x))
          /\ Times(F(m), x) \in Finites => Times(F(n), x) \in Finites
      BY MoreTimes
    <3> QED
      BY <3>1, <3>2, <3>3
  <2> QED
    BY <2>1, <2>2
<1>5. u = IF IsNaN(b) \/ IsNaN(d) THEN NaN ELSE Least(b, d)
  BY <1>1 DEF Unfiltered
<1>6. PICK v : v = Unfiltered(k)
  OBVIOUS
<1>7. v = IF IsNaN(c) \/ IsNaN(e) THEN NaN ELSE Least(c, e)
  BY <1>1, <1>6 DEF Unfiltered
<1>8. u # NaN /\ u \in Numbers /\ u \in Finites
  BY <1>1, OfFinites, NumbersFrom
<1>9. b # NaN /\ d # NaN /\ b \in Numbers /\ d \in Numbers /\ u = Least(b, d)
  BY <1>2, <1>3, <1>5, <1>8 DEF IsNaN, Numbers
<1>10. AtMost(u, b) /\ AtMost(u, d) /\ (u = b \/ u = d)
  BY <1>9, LeastIsLeast
<1>11. \A x \in Numbers : AtMost(u, x) => Positive(x)
  <2>1. TAKE x \in Numbers
  <2>2. HAVE AtMost(u, x)
  <2>3. Zero \in Numbers
    BY ZeroOne
  <2>4. SUFFICES ASSUME AtMost(x, Zero) PROVE FALSE
    BY <2>3, Ordered DEF Positive
  <2>5. AtMost(u, Zero)
    BY <1>8, <2>2, <2>3, <2>4, AtMostTransitive
  <2> QED
    BY <1>1, <2>5 DEF AtMost, Positive
<1>12. Positive(b) /\ Positive(d)
  BY <1>9, <1>10, <1>11
<1>13. c # NaN /\ AtMost(b, c) /\ e # NaN /\ AtMost(d, e)
  BY <1>3, <1>4, <1>9, <1>12
<1>14. c \in Numbers /\ e \in Numbers /\ v = Least(c, e)
  BY <1>2, <1>3, <1>7, <1>13 DEF IsNaN, Numbers
<1>15. AtMost(v, c) /\ AtMost(v, e) /\ (v = c \/ v = e)
  BY <1>14, LeastIsLeast
<1>16. AtMost(u, c)
  BY <1>8, <1>9, <1>10, <1>13, <1>14, AtMostTransitive
<1>17. AtMost(u, e)
  BY <1>8, <1>9, <1>10, <1>13, <1>14, AtMostTransitive
<1>18. AtMost(u, v) /\ v \in Numbers
  BY <1>14, <1>15, <1>16, <1>17
<1>19. c \in Finites \/ e \in Finites
  BY <1>3, <1>4, <1>8, <1>10
<1>20. v # Inf
  BY <1>15, <1>19, Ends, NumbersFrom DEF AtMost
<1>21. v # NegInf
  BY <1>8, <1>18, Ends DEF AtMost
<1>22. v \in Finites
  BY <1>18, <1>20, <1>21, NumbersAre
<1> QED
  BY <1>1, <1>6, <1>18, <1>22

-----------------------------------------------------------------------------
(* Build: what a candidate costs.                                          *)

LEMMA CostIsPriceable ==
  ASSUME MaxConjuncts \in Nat, NEW p, IsPolicy(p), NEW filter, IsAutomaton(filter, p), NEW rival
  PROVE  Priceable(CostFact(p, filter, rival))
<1>1. PICK k : k = CostFact(p, filter, rival)
  OBVIOUS
<1>2. /\ k.fallthrough = WorstCase(filter.quotients, p.chains)
      /\ k.len = p.len /\ k.rivals = p.rivals
      /\ k.sieve = SieveCost(p, filter.quotients)
      /\ k.rival = RivalPrice(p.rival, p.calibration, rival.accelerator, p.freq)
      /\ k.bypass = BypassPrice(p.bypass, p.calibration, rival.accelerator, p.freq, p.rivals)
  BY <1>1 DEF CostFact
<1>3. Probable(k.fallthrough)
  <2>1. /\ IsFiniteSet(p.chains) /\ Len(filter.quotients) \in Nat
        /\ DOMAIN filter.quotients = 1 .. Len(filter.quotients)
        /\ \A i \in DOMAIN filter.quotients : \A c \in p.chains :
             filter.quotients[i].rates[c] \in Floats
    BY DEF IsPolicy, IsAutomaton
  <2> QED
    BY <1>2, <2>1, WorstCaseFacts
<1>4. k.sieve \in Numbers /\ AtMost(Zero, k.sieve)
  BY <1>2, SieveCostFacts
<1>5. k.rival \in Floats
  <2>1. IsRival(p.rival)
    BY DEF IsPolicy
  <2> QED
    BY <1>2, <2>1, RivalCloses
<1>6. k.bypass \in Floats
  <2>1. CASE p.bypass.kind = "Absent"
    BY <1>2, <2>1, NumbersFrom DEF BypassPrice
  <2>2. CASE p.bypass.kind = "Slate"
    <3>1. IsRival(p.bypass.one)
      BY <2>2 DEF IsPolicy
    <3>2. RivalPrice(p.bypass.one, p.calibration, rival.accelerator, p.freq) \in Floats
      BY <3>1, RivalCloses
    <3> QED
      BY <1>2, <2>2, <3>2 DEF BypassPrice
  <2>3. CASE p.bypass.kind \notin {"Absent", "Slate"}
    <3>1. IsRival(Engine)
      BY DEF IsRival, Engine
    <3>2. RivalPrice(Engine, p.calibration, rival.accelerator, p.freq) \in Floats
      BY <3>1, RivalCloses
    <3>3. Fanout(p.rivals) \in Floats
      BY Whole DEF Fanout, IsPolicy
    <3>4. Times(RivalPrice(Engine, p.calibration, rival.accelerator, p.freq), Fanout(p.rivals))
            \in Floats
      BY <3>2, <3>3, TimesCloses
    <3> QED
      BY <1>2, <2>3, <3>4 DEF BypassPrice
  <2> QED
    BY <2>1, <2>2, <2>3
<1>7. k.len \in Floats /\ k.rivals \in Nat
  BY <1>2 DEF IsPolicy
<1> QED
  BY <1>1, <1>3, <1>4, <1>5, <1>6, <1>7 DEF Priceable

-----------------------------------------------------------------------------
(* Build: what assembling comes to.                                        *)

\* Past every refusal of `assembled`.
Buildable(p, filter) ==
  /\ p.gate = "Worth" => IsMeasured(p.calibration) /\ ~Unmodeled(p)
  /\ filter.shape = "fits" /\ filter.quotients # <<>>

\* A filter is built past the refusals alone, and then it is priced.
LEMMA AssembledIs ==
  ASSUME NEW p, NEW filter, NEW rival
  PROVE  /\ Ok(Assembled(p, filter, rival)) <=> Buildable(p, filter)
         /\ Ok(Assembled(p, filter, rival)) =>
              Assembled(p, filter, rival).cost = CostFact(p, filter, rival)
<1>1. PICK k : k = CostFact(p, filter, rival)
  OBVIOUS
<1>2. Assembled(p, filter, rival) =
        IF p.gate = "Worth" /\ ~IsMeasured(p.calibration) THEN Refused("Uncalibrated")
        ELSE IF p.gate = "Worth" /\ Unmodeled(p) THEN Refused("Unmodeled")
        ELSE IF filter.shape # "fits" THEN Refused(filter.shape)
        ELSE IF filter.quotients = <<>> THEN Refused("NoQuotient")
        ELSE [result |-> "ok", cost |-> k]
  BY <1>1 DEF Assembled
<1>3. \A why : ~Ok(Refused(why))
  BY DEF Ok, Refused
<1>4. Ok([result |-> "ok", cost |-> k]) /\ [result |-> "ok", cost |-> k].cost = k
  BY DEF Ok
<1>5. CASE Buildable(p, filter)
  BY <1>1, <1>2, <1>4, <1>5 DEF Buildable
<1>6. CASE ~Buildable(p, filter)
  BY <1>2, <1>3, <1>6 DEF Buildable
<1> QED
  BY <1>5, <1>6

\* What a refusal of it says is so.
LEMMA RefusedFor ==
  ASSUME NEW p, NEW filter, IsAutomaton(filter, p), NEW rival, NEW why,
         ~Ok(Assembled(p, filter, rival)), why = Assembled(p, filter, rival).why
  PROVE  /\ why \notin {Armed, NoVerdict, "NotWorthIt"}
         /\ why \in {"Uncalibrated", "Unmodeled"} => p.gate = "Worth"
         /\ why \in {"Quits", "MatchesEmpty", "TooWide"} => filter.shape = why
         /\ why = "NoQuotient" => filter.shape = "fits" /\ filter.quotients = <<>>
<1>1. ~Buildable(p, filter)
  BY AssembledIs
<1>2. Assembled(p, filter, rival) =
        IF p.gate = "Worth" /\ ~IsMeasured(p.calibration) THEN Refused("Uncalibrated")
        ELSE IF p.gate = "Worth" /\ Unmodeled(p) THEN Refused("Unmodeled")
        ELSE IF filter.shape # "fits" THEN Refused(filter.shape)
        ELSE Refused("NoQuotient")
  BY <1>1 DEF Assembled, Buildable
<1>3. \A x : Refused(x).why = x
  BY DEF Refused
<1>4. why = IF p.gate = "Worth" /\ ~IsMeasured(p.calibration) THEN "Uncalibrated"
            ELSE IF p.gate = "Worth" /\ Unmodeled(p) THEN "Unmodeled"
            ELSE IF filter.shape # "fits" THEN filter.shape
            ELSE "NoQuotient"
  BY <1>2, <1>3
<1>5. filter.shape \in {"fits", "TooWide", "Quits", "MatchesEmpty"}
  BY DEF IsAutomaton
<1>6. filter.shape = "fits" /\ (p.gate = "Worth" => IsMeasured(p.calibration) /\ ~Unmodeled(p))
        => filter.quotients = <<>>
  BY <1>1 DEF Buildable
<1> QED
  BY <1>4, <1>5, <1>6 DEF Armed, NoVerdict

\* A filter that could be built pays, alone, when its cost does.
LEMMA ArmsAloneIs ==
  ASSUME NEW p, NEW filter
  PROVE  ArmsAlone(p, filter) <=>
           /\ Buildable(p, filter)
           /\ p.gate = "Ungated" \/ Pays(CostFact(p, filter, strict))
BY AssembledIs DEF ArmsAlone

\* Whatever is built, going without the sieve costs what the strict automaton costs.
LEMMA SameAlternative ==
  ASSUME NEW p, NEW filter, NEW other, NEW rival
  PROVE  Unfiltered(CostFact(p, filter, rival)) = Unfiltered(CostFact(p, other, rival))
BY DEF CostFact, Unfiltered

-----------------------------------------------------------------------------
(* Build: one term of the policy moved.                                    *)

\* A policy that another only differs from in a field or two.
LEMMA OtherFields ==
  ASSUME NEW p, IsPolicy(p), NEW field \in PolicyFields, NEW x, NEW r,
         r = [p EXCEPT ![field] = x]
  PROVE  /\ r[field] = x
         /\ \A other \in PolicyFields \ {field} : r[other] = p[other]
         /\ r = [other \in PolicyFields |-> r[other]]
<1>1. p = [other \in PolicyFields |-> p[other]]
  BY DEF IsPolicy
<1>2. DOMAIN p = PolicyFields
  BY <1>1
<1> QED
  BY <1>2

\* Fewer chains to fear let no more through, and nothing else of the price reads them.
LEMMA FewerChains ==
  ASSUME MaxConjuncts \in Nat, NEW p, IsPolicy(p), NEW filter, IsAutomaton(filter, p), NEW rival,
         NEW fewer \in SUBSET p.chains, NEW r, r = [p EXCEPT !.chains = fewer]
  PROVE  /\ r.gate = p.gate
         /\ Buildable(p, filter) => Buildable(r, filter)
         /\ Pays(CostFact(p, filter, rival)) => Pays(CostFact(r, filter, rival))
<1>1. /\ r.chains = fewer
      /\ r.calibration = p.calibration /\ r.freq = p.freq /\ r.len = p.len /\ r.rival = p.rival
      /\ r.bypass = p.bypass /\ r.rivals = p.rivals /\ r.gate = p.gate /\ r.relax = p.relax
      /\ r.skip = p.skip
      /\ r = [other \in PolicyFields |-> r[other]]
  <2>1. "chains" \in PolicyFields
    BY DEF PolicyFields
  <2>2. /\ r["chains"] = fewer
        /\ \A other \in PolicyFields \ {"chains"} : r[other] = p[other]
        /\ r = [other \in PolicyFields |-> r[other]]
    BY <2>1, OtherFields
  <2> QED
    BY <2>2 DEF PolicyFields
<1>2. IsPolicy(r)
  <2>1. IsFiniteSet(fewer)
    BY FS_Subset DEF IsPolicy
  <2> QED
    BY <1>1, <2>1 DEF IsPolicy
<1>3. IsAutomaton(filter, r)
  BY <1>1 DEF IsAutomaton
<1>4. PICK k, l : k = CostFact(r, filter, rival) /\ l = CostFact(p, filter, rival)
  OBVIOUS
<1>5. Priceable(k) /\ Priceable(l)
  BY <1>2, <1>3, <1>4, CostIsPriceable
<1>6. SieveCost(r, filter.quotients) = SieveCost(p, filter.quotients)
  BY <1>1 DEF SieveCost, LaneCost, Usable
<1>7. /\ k.sieve = l.sieve /\ Unfiltered(k) = Unfiltered(l)
      /\ k.len = l.len
      /\ k.fallthrough = WorstCase(filter.quotients, fewer)
      /\ l.fallthrough = WorstCase(filter.quotients, p.chains)
  <2>1. /\ k.fallthrough = WorstCase(filter.quotients, r.chains) /\ k.len = r.len
        /\ k.sieve = SieveCost(r, filter.quotients) /\ k.rivals = r.rivals
        /\ k.rival = RivalPrice(r.rival, r.calibration, rival.accelerator, r.freq)
        /\ k.bypass = BypassPrice(r.bypass, r.calibration, rival.accelerator, r.freq, r.rivals)
    BY <1>4 DEF CostFact
  <2>2. /\ l.fallthrough = WorstCase(filter.quotients, p.chains) /\ l.len = p.len
        /\ l.sieve = SieveCost(p, filter.quotients) /\ l.rivals = p.rivals
        /\ l.rival = RivalPrice(p.rival, p.calibration, rival.accelerator, p.freq)
        /\ l.bypass = BypassPrice(p.bypass, p.calibration, rival.accelerator, p.freq, p.rivals)
    BY <1>4 DEF CostFact
  <2>3. k.rival = l.rival /\ k.bypass = l.bypass /\ k.rivals = l.rivals
    BY <1>1, <2>1, <2>2
  <2> QED
    BY <1>1, <1>6, <2>1, <2>2, <2>3 DEF Unfiltered
<1>8. AtMost(k.fallthrough, l.fallthrough)
  <2>1. /\ IsFiniteSet(p.chains) /\ Len(filter.quotients) \in Nat
        /\ DOMAIN filter.quotients = 1 .. Len(filter.quotients)
        /\ \A i \in DOMAIN filter.quotients : \A c \in p.chains :
             filter.quotients[i].rates[c] \in Floats
    BY DEF IsPolicy, IsAutomaton
  <2> QED
    BY <1>7, <2>1, WorstCaseOfFewer
<1>9. AtMost(Survives(k), Survives(l))
  <2>1. Probable(k.fallthrough) /\ Probable(l.fallthrough) /\ l.len \in Floats
    BY <1>5 DEF Priceable
  <2> QED
    BY <1>7, <1>8, <2>1, SurvivalFacts DEF Survives
<1>10. AtMost(k.sieve, l.sieve)
  BY <1>5, <1>7, Ordered DEF Priceable
<1>11. Pays(l) => Pays(k)
  BY <1>5, <1>7, <1>9, <1>10, SlimmerPays
<1>12. Buildable(p, filter) => Buildable(r, filter)
  BY <1>1 DEF Buildable, Unmodeled
<1> QED
  BY <1>1, <1>4, <1>11, <1>12

\* A policy that differs in its skip alone.
LEMMA SkipField ==
  ASSUME NEW p, IsPolicy(p), NEW on \in BOOLEAN, NEW r, r = [p EXCEPT !.skip = on]
  PROVE  /\ r.calibration = p.calibration /\ r.freq = p.freq /\ r.len = p.len /\ r.rival = p.rival
         /\ r.bypass = p.bypass /\ r.rivals = p.rivals /\ r.gate = p.gate /\ r.relax = p.relax
         /\ r.chains = p.chains
         /\ r = [other \in PolicyFields |-> r[other]]
         /\ r.skip = on
<1>1. "skip" \in PolicyFields
  BY DEF PolicyFields
<1>2. /\ r["skip"] = on
      /\ \A other \in PolicyFields \ {"skip"} : r[other] = p[other]
      /\ r = [other \in PolicyFields |-> r[other]]
  BY <1>1, OtherFields
<1> QED
  BY <1>2 DEF PolicyFields

\* Where the skip alone differs and may be chosen wherever it could, it is chosen where it is
\* cheaper, and makes no lane dearer.
LEMMA MoreToChoose ==
  ASSUME MaxConjuncts \in Nat, NEW p, IsPolicy(p), NEW filter, IsAutomaton(filter, p), NEW rival,
         NEW r, IsPolicy(r),
         r.calibration = p.calibration, r.freq = p.freq, r.len = p.len, r.rival = p.rival,
         r.bypass = p.bypass, r.rivals = p.rivals, r.gate = p.gate, r.chains = p.chains,
         \A q : Usable(p, q) => Usable(r, q)
  PROVE  /\ Buildable(p, filter) => Buildable(r, filter)
         /\ Pays(CostFact(p, filter, rival)) => Pays(CostFact(r, filter, rival))
<1>1. /\ r.calibration = p.calibration /\ r.freq = p.freq /\ r.len = p.len /\ r.rival = p.rival
      /\ r.bypass = p.bypass /\ r.rivals = p.rivals /\ r.gate = p.gate /\ r.chains = p.chains
      /\ IsPolicy(r)
  OBVIOUS
<1>3. IsAutomaton(filter, r)
  BY <1>1 DEF IsAutomaton
<1>4. PICK k, l : k = CostFact(r, filter, rival) /\ l = CostFact(p, filter, rival)
  OBVIOUS
<1>5. Priceable(k) /\ Priceable(l)
  BY <1>1, <1>3, <1>4, CostIsPriceable
<1>6. /\ Unfiltered(k) = Unfiltered(l) /\ Survives(k) = Survives(l)
      /\ k.sieve = SieveCost(r, filter.quotients) /\ l.sieve = SieveCost(p, filter.quotients)
  <2>1. /\ k.fallthrough = WorstCase(filter.quotients, r.chains) /\ k.len = r.len
        /\ k.sieve = SieveCost(r, filter.quotients) /\ k.rivals = r.rivals
        /\ k.rival = RivalPrice(r.rival, r.calibration, rival.accelerator, r.freq)
        /\ k.bypass = BypassPrice(r.bypass, r.calibration, rival.accelerator, r.freq, r.rivals)
    BY <1>4 DEF CostFact
  <2>2. /\ l.fallthrough = WorstCase(filter.quotients, p.chains) /\ l.len = p.len
        /\ l.sieve = SieveCost(p, filter.quotients) /\ l.rivals = p.rivals
        /\ l.rival = RivalPrice(p.rival, p.calibration, rival.accelerator, p.freq)
        /\ l.bypass = BypassPrice(p.bypass, p.calibration, rival.accelerator, p.freq, p.rivals)
    BY <1>4 DEF CostFact
  <2>3. /\ k.rival = l.rival /\ k.bypass = l.bypass /\ k.rivals = l.rivals
        /\ k.fallthrough = l.fallthrough /\ k.len = l.len
    BY <1>1, <2>1, <2>2
  <2> QED
    BY <2>1, <2>2, <2>3 DEF Unfiltered, Survives
<1>7. PICK compose : compose = SievePerByte(p.calibration, Len(filter.quotients))
  OBVIOUS
<1>8. compose = SievePerByte(r.calibration, Len(filter.quotients)) /\ compose \in Floats
  BY <1>1, <1>7, LaneCostsAre
<1>9. ASSUME NEW i \in DOMAIN filter.quotients, LaneCost(r, filter.quotients[i], compose) # NaN
      PROVE  AtMost(LaneCost(r, filter.quotients[i], compose), l.sieve)
  <2>1. PICK q : q = filter.quotients[i]
    OBVIOUS
  <2>2. PICK c, d, s : /\ c = LaneCost(r, q, compose) /\ d = LaneCost(p, q, compose)
                       /\ s = SkipPerByte(p.calibration, q, p.freq)
    OBVIOUS
  <2>3. d \in LaneCosts(p, filter.quotients)
    BY <1>7, <2>1, <2>2 DEF LaneCosts
  <2>4. d \in Floats /\ (d # NaN => AtMost(d, l.sieve)) /\ l.sieve \in Numbers
    BY <1>6, <2>3, LaneCostsAre, SieveCostFacts
  <2>5. c = d \/ (c = s /\ Less(s, d))
    <3>1. Usable(p, q) => Usable(r, q)
      OBVIOUS
    <3>2. s = SkipPerByte(r.calibration, q, r.freq)
      BY <1>1, <2>2
    <3>3. c = IF Usable(r, q) /\ Less(s, compose) THEN s ELSE compose
      BY <2>2, <3>2 DEF LaneCost
    <3>4. d = IF Usable(p, q) /\ Less(s, compose) THEN s ELSE compose
      BY <2>2 DEF LaneCost
    <3> QED
      BY <3>1, <3>3, <3>4
  <2>6. c # NaN
    BY <1>9, <2>1, <2>2
  <2>7. CASE c = d
    BY <2>1, <2>2, <2>4, <2>6, <2>7
  <2>8. CASE c = s /\ Less(s, d)
    <3>1. d # NaN
      BY <2>8 DEF Less, IsNaN
    <3>2. s \in Floats
      <4>1. p.calibration.skip_excursion[q.instrument] \in Floats
        BY <2>1 DEF IsAutomaton
      <4> QED
        BY <1>8, <2>2, <4>1, LaneCloses
    <3>3. c \in Numbers /\ d \in Numbers
      BY <2>4, <2>6, <2>8, <3>1, <3>2 DEF Numbers
    <3>4. AtMost(c, d)
      BY <2>8, <3>3, Ordered
    <3>5. AtMost(d, l.sieve)
      BY <2>4, <3>1
    <3>6. AtMost(c, l.sieve)
      BY <2>4, <3>3, <3>4, <3>5, AtMostTransitive
    <3> QED
      BY <2>1, <2>2, <3>6
  <2> QED
    BY <2>5, <2>7, <2>8
<1>10. AtMost(k.sieve, l.sieve)
  <2>1. k.sieve \in Numbers /\ k.sieve \in {Zero} \cup LaneCosts(r, filter.quotients)
    BY <1>1, <1>3, <1>6, SieveCostFacts
  <2>2. CASE k.sieve = Zero
    BY <1>5, <2>2 DEF Priceable
  <2>3. CASE k.sieve \in LaneCosts(r, filter.quotients)
    <3>1. PICK i \in DOMAIN filter.quotients : k.sieve = LaneCost(r, filter.quotients[i], compose)
      BY <1>8, <2>3 DEF LaneCosts
    <3>2. k.sieve # NaN
      BY <2>1 DEF Numbers
    <3> QED
      BY <1>9, <3>1, <3>2
  <2> QED
    BY <2>1, <2>2, <2>3
<1>11. AtMost(Survives(k), Survives(l))
  <2>1. Probable(Survives(l))
    BY <1>5, SurvivesIsProbable
  <2> QED
    BY <1>6, <2>1, Ordered, NumbersFrom DEF Probable
<1>12. Pays(l) => Pays(k)
  BY <1>5, <1>6, <1>10, <1>11, SlimmerPays
<1>13. Buildable(p, filter) => Buildable(r, filter)
  BY <1>1 DEF Buildable, Unmodeled
<1> QED
  BY <1>1, <1>4, <1>12, <1>13

\* A skip to choose costs nothing.
LEMMA SkipToChoose ==
  ASSUME MaxConjuncts \in Nat, NEW p, IsPolicy(p), NEW filter, IsAutomaton(filter, p), NEW rival,
         NEW on \in BOOLEAN, NEW r, r = [p EXCEPT !.skip = on]
  PROVE  on => /\ r.gate = p.gate
               /\ Buildable(p, filter) => Buildable(r, filter)
               /\ Pays(CostFact(p, filter, rival)) => Pays(CostFact(r, filter, rival))
<1>1. /\ r.calibration = p.calibration /\ r.freq = p.freq /\ r.len = p.len /\ r.rival = p.rival
      /\ r.bypass = p.bypass /\ r.rivals = p.rivals /\ r.gate = p.gate /\ r.relax = p.relax
      /\ r.chains = p.chains
      /\ r = [other \in PolicyFields |-> r[other]]
      /\ r.skip = on
  BY SkipField
<1>2. IsPolicy(r)
  BY <1>1 DEF IsPolicy
<1>3. ASSUME on PROVE \A q : Usable(p, q) => Usable(r, q)
  BY <1>1, <1>3 DEF Usable
<1>4. ASSUME on
      PROVE  /\ Buildable(p, filter) => Buildable(r, filter)
             /\ Pays(CostFact(p, filter, rival)) => Pays(CostFact(r, filter, rival))
  <2>1. /\ r.calibration = p.calibration /\ r.freq = p.freq /\ r.len = p.len /\ r.rival = p.rival
        /\ r.bypass = p.bypass /\ r.rivals = p.rivals /\ r.gate = p.gate /\ r.chains = p.chains
    BY <1>1
  <2>2. \A q : Usable(p, q) => Usable(r, q)
    BY <1>3, <1>4
  <2> QED
    BY <1>2, <2>1, <2>2, MoreToChoose
<1> QED
  BY <1>1, <1>4

\* One more rival to spare makes going without dearer, and nothing else of the price reads them.
LEMMA OneMoreRival ==
  ASSUME MaxConjuncts \in Nat, NEW p, IsPolicy(p), NEW filter, IsAutomaton(filter, p), NEW rival,
         NEW n, n = (IF p.rivals = 0 THEN 2 ELSE p.rivals + 1),
         NEW r, r = [p EXCEPT !.rivals = n]
  PROVE  /\ r.gate = p.gate
         /\ Buildable(p, filter) => Buildable(r, filter)
         /\ Pays(CostFact(p, filter, rival)) => Pays(CostFact(r, filter, rival))
<1>1. PICK m : m = IF p.rivals = 0 THEN 1 ELSE p.rivals
  OBVIOUS
<1>2. m \in Nat \ {0} /\ n \in Nat \ {0} /\ m <= n
  BY <1>1 DEF IsPolicy
<1>3. /\ r.rivals = n
      /\ r.calibration = p.calibration /\ r.freq = p.freq /\ r.len = p.len /\ r.rival = p.rival
      /\ r.bypass = p.bypass /\ r.chains = p.chains /\ r.gate = p.gate /\ r.relax = p.relax
      /\ r.skip = p.skip
      /\ r = [other \in PolicyFields |-> r[other]]
  <2>1. "rivals" \in PolicyFields
    BY DEF PolicyFields
  <2>2. /\ r["rivals"] = n
        /\ \A other \in PolicyFields \ {"rivals"} : r[other] = p[other]
        /\ r = [other \in PolicyFields |-> r[other]]
    BY <2>1, OtherFields
  <2> QED
    BY <2>2 DEF PolicyFields
<1>4. IsPolicy(r)
  <2>1. r.rivals \in Nat
    BY <1>2, <1>3
  <2> QED
    BY <1>3, <2>1 DEF IsPolicy
<1>5. IsAutomaton(filter, r)
  BY <1>3 DEF IsAutomaton
<1>6. PICK k, l : k = CostFact(r, filter, rival) /\ l = CostFact(p, filter, rival)
  OBVIOUS
<1>7. Priceable(k) /\ Priceable(l)
  BY <1>4, <1>5, <1>6, CostIsPriceable
<1>8. /\ k.fallthrough = WorstCase(filter.quotients, r.chains) /\ k.len = r.len
      /\ k.sieve = SieveCost(r, filter.quotients) /\ k.rivals = r.rivals
      /\ k.rival = RivalPrice(r.rival, r.calibration, rival.accelerator, r.freq)
      /\ k.bypass = BypassPrice(r.bypass, r.calibration, rival.accelerator, r.freq, r.rivals)
  BY <1>6 DEF CostFact
<1>9. /\ l.fallthrough = WorstCase(filter.quotients, p.chains) /\ l.len = p.len
      /\ l.sieve = SieveCost(p, filter.quotients) /\ l.rivals = p.rivals
      /\ l.rival = RivalPrice(p.rival, p.calibration, rival.accelerator, p.freq)
      /\ l.bypass = BypassPrice(p.bypass, p.calibration, rival.accelerator, p.freq, p.rivals)
  BY <1>6 DEF CostFact
<1>10. k.sieve = l.sieve
  <2>1. SieveCost(r, filter.quotients) = SieveCost(p, filter.quotients)
    BY <1>3 DEF SieveCost, LaneCost, Usable
  <2> QED
    BY <1>8, <1>9, <2>1
<1>11. Survives(k) = Survives(l) /\ k.rival = l.rival
  <2>1. k.fallthrough = l.fallthrough /\ k.len = l.len /\ k.rival = l.rival
    BY <1>3, <1>8, <1>9
  <2> QED
    BY <2>1 DEF Survives
<1>12. Fanout(l.rivals) = F(m) /\ Fanout(k.rivals) = F(n)
  <2>1. l.rivals = p.rivals /\ k.rivals = n
    BY <1>3, <1>8, <1>9
  <2> QED
    BY <1>1, <1>2, <2>1 DEF Fanout
<1>13. \/ k.bypass = l.bypass
       \/ \E x \in Floats : l.bypass = Times(x, F(m)) /\ k.bypass = Times(x, F(n))
  <2>1. PICK x : x = RivalPrice(Engine, p.calibration, rival.accelerator, p.freq)
    OBVIOUS
  <2>2. x \in Floats
    <3>1. IsRival(Engine)
      BY DEF IsRival, Engine
    <3> QED
      BY <2>1, <3>1, RivalCloses
  <2>3. CASE p.bypass.kind \in {"Absent", "Slate"}
    <3>1. BypassPrice(p.bypass, p.calibration, rival.accelerator, p.freq, r.rivals)
            = BypassPrice(p.bypass, p.calibration, rival.accelerator, p.freq, p.rivals)
      BY <2>3 DEF BypassPrice
    <3> QED
      BY <1>3, <1>8, <1>9, <3>1
  <2>4. CASE p.bypass.kind \notin {"Absent", "Slate"}
    <3>1. k.bypass = Times(x, Fanout(r.rivals)) /\ l.bypass = Times(x, Fanout(p.rivals))
      BY <1>3, <1>8, <1>9, <2>1, <2>4 DEF BypassPrice
    <3>2. k.bypass = Times(x, F(n)) /\ l.bypass = Times(x, F(m))
      BY <1>8, <1>9, <1>12, <3>1
    <3> QED
      BY <2>2, <3>2
  <2> QED
    BY <2>3, <2>4
<1>14. ASSUME Pays(l) PROVE Pays(k)
  <2>1. Unfiltered(l) \in Finites /\ Positive(Unfiltered(l))
    BY <1>7, <1>14, PaysFinitely, PaysMeans
  <2>2. k.rival = l.rival /\ n \in Nat
    BY <1>2, <1>11
  <2>3. Unfiltered(k) \in Finites /\ AtMost(Unfiltered(l), Unfiltered(k))
    BY <1>2, <1>7, <1>12, <1>13, <2>1, <2>2, MoreRivals
  <2> QED
    BY <1>7, <1>10, <1>11, <1>14, <2>3, DearerWithoutPays
<1>15. Buildable(p, filter) => Buildable(r, filter)
  BY <1>3 DEF Buildable, Unmodeled
<1> QED
  BY <1>3, <1>6, <1>14, <1>15

-----------------------------------------------------------------------------
(* Build: the inductive invariant.                                         *)

\* There is a relaxed automaton to try.
Pair == policy.relax /\ loose # NoLoose

\* The candidate taken: whichever was built, the relaxed one of two only when it is cheaper.
Chosen ==
  \/ Ok(exact) /\ cost = exact.cost /\ (Ok(second) => ~LooseIsCheaper)
  \/ Ok(second) /\ cost = second.cost /\ (Ok(exact) => LooseIsCheaper)

Settled ==
  \/ verdict = Armed /\ Chosen /\ (policy.gate = "Ungated" \/ Pays(cost))
  \/ verdict = "NotWorthIt" /\ policy.gate = "Worth" /\ Chosen /\ ~Pays(cost)
  \/ ~Ok(exact) /\ ~Ok(second) /\ verdict = exact.why

\* What each place in the course of a build knows.
BuildInv ==
  /\ policy \in Policies /\ strict \in Stricts /\ loose \in Looses
  /\ pc \in {"exact", "loose", "choose", "admit", "done"}
  /\ pc # "exact" => exact = Assembled(policy, strict, strict)
  /\ pc \in {"exact", "loose"} => second = NotTried
  /\ pc = "loose" => Pair
  /\ pc \in {"choose", "admit", "done"} =>
       second = IF Pair THEN Assembled(policy, loose, strict) ELSE NotTried
  /\ pc # "done" => verdict = NoVerdict
  /\ pc = "admit" => Chosen
  /\ pc = "done" => Settled

LEMMA BuildInvInit == BuildInit => BuildInv
BY DEF BuildInit, BuildInv

LEMMA BuildInvNext == BuildInv /\ [BuildNext]_buildVars => BuildInv'
<1> SUFFICES ASSUME BuildInv, [BuildNext]_buildVars PROVE BuildInv'
  OBVIOUS
<1>1. CASE AssembleExact
  <2>1. exact' = Assembled(policy', strict', strict')
    BY <1>1 DEF AssembleExact
  <2>2. Pair' <=> Pair
    BY <1>1 DEF AssembleExact, Pair
  <2>3. pc' = IF Pair THEN "loose" ELSE "choose"
    BY <1>1 DEF AssembleExact, Pair
  <2>4. second' = NotTried /\ verdict' = NoVerdict
    BY <1>1 DEF AssembleExact, BuildInv
  <2>5. policy' \in Policies /\ strict' \in Stricts /\ loose' \in Looses
    BY <1>1 DEF AssembleExact, BuildInv
  <2> QED
    BY <2>1, <2>2, <2>3, <2>4, <2>5 DEF BuildInv
<1>2. CASE AssembleLoose
  <2>1. second' = Assembled(policy', loose', strict') /\ pc' = "choose"
    BY <1>2 DEF AssembleLoose
  <2>2. Pair'
    BY <1>2 DEF AssembleLoose, Pair, BuildInv
  <2>3. exact' = Assembled(policy', strict', strict') /\ verdict' = NoVerdict
    BY <1>2 DEF AssembleLoose, BuildInv
  <2>4. policy' \in Policies /\ strict' \in Stricts /\ loose' \in Looses
    BY <1>2 DEF AssembleLoose, BuildInv
  <2> QED
    BY <2>1, <2>2, <2>3, <2>4 DEF BuildInv
<1>3. ASSUME pc = "choose", UNCHANGED <<policy, strict, loose, exact, second, verdict>>,
             pc' = "admit", Chosen'
      PROVE  BuildInv'
  <2>1. Pair' <=> Pair
    BY <1>3 DEF Pair
  <2>2. second = IF Pair THEN Assembled(policy, loose, strict) ELSE NotTried
    BY <1>3 DEF BuildInv
  <2>3. second' = IF Pair' THEN Assembled(policy', loose', strict') ELSE NotTried
    BY <1>3, <2>1, <2>2
  <2>4. exact' = Assembled(policy', strict', strict') /\ verdict' = NoVerdict
    BY <1>3 DEF BuildInv
  <2>5. policy' \in Policies /\ strict' \in Stricts /\ loose' \in Looses
    BY <1>3 DEF BuildInv
  <2> QED
    BY <1>3, <2>3, <2>4, <2>5 DEF BuildInv
<1>4. CASE ChooseLoose
  <2>1. Chosen'
    BY <1>4 DEF ChooseLoose, TakeCandidate, Chosen, LooseIsCheaper, Ok
  <2> QED
    BY <1>3, <1>4, <2>1 DEF ChooseLoose, TakeCandidate
<1>5. CASE ChooseExact
  <2>1. Chosen'
    BY <1>5 DEF ChooseExact, TakeCandidate, Chosen, LooseIsCheaper, Ok
  <2> QED
    BY <1>3, <1>5, <2>1 DEF ChooseExact, TakeCandidate
<1>6. CASE ChooseOnly
  <2>1. Chosen'
    BY <1>6 DEF ChooseOnly, TakeCandidate, Chosen, LooseIsCheaper, Ok
  <2> QED
    BY <1>3, <1>6, <2>1 DEF ChooseOnly, TakeCandidate
<1>7. ASSUME pc \in {"choose", "admit"},
             UNCHANGED <<policy, strict, loose, exact, second, cost>>,
             pc' = "done", Settled'
      PROVE  BuildInv'
  <2>1. Pair' <=> Pair
    BY <1>7 DEF Pair
  <2>2. second = IF Pair THEN Assembled(policy, loose, strict) ELSE NotTried
    BY <1>7 DEF BuildInv
  <2>3. second' = IF Pair' THEN Assembled(policy', loose', strict') ELSE NotTried
    BY <1>7, <2>1, <2>2
  <2>4. exact' = Assembled(policy', strict', strict')
    BY <1>7 DEF BuildInv
  <2>5. policy' \in Policies /\ strict' \in Stricts /\ loose' \in Looses
    BY <1>7 DEF BuildInv
  <2> QED
    BY <1>7, <2>3, <2>4, <2>5 DEF BuildInv
<1>8. CASE RefuseBoth
  <2>1. Settled'
    BY <1>8 DEF RefuseBoth, Refuse, Settled, Ok
  <2> QED
    BY <1>7, <1>8, <2>1 DEF RefuseBoth, Refuse
<1>9. ASSUME pc = "admit", UNCHANGED <<policy, strict, loose, exact, second, cost>>
      PROVE  Chosen'
  <2>1. Chosen
    BY <1>9 DEF BuildInv
  <2> QED
    BY <1>9, <2>1 DEF Chosen, LooseIsCheaper, Ok
<1>10. CASE Admit
  <2>1. Chosen'
    BY <1>9, <1>10 DEF Admit
  <2>2. Settled'
    BY <1>10, <2>1 DEF Admit, Settled
  <2> QED
    BY <1>7, <1>10, <2>2 DEF Admit
<1>11. CASE RefuseWorth
  <2>1. Chosen'
    BY <1>9, <1>11 DEF RefuseWorth
  <2>2. Settled'
    BY <1>11, <2>1 DEF RefuseWorth, Refuse, Settled
  <2> QED
    BY <1>7, <1>11, <2>2 DEF RefuseWorth, Refuse
<1>12. CASE UNCHANGED buildVars
  BY <1>12 DEF buildVars, BuildInv, Pair, Chosen, Settled, LooseIsCheaper, Ok
<1> QED
  BY <1>1, <1>2, <1>4, <1>5, <1>6, <1>8, <1>10, <1>11, <1>12 DEF BuildNext

\* Every build, under any policy and for any automata, keeps to it.
THEOREM BuildKeepsItsCourse == BuildSpec => []BuildInv
<1>1. BuildInit => BuildInv
  BY BuildInvInit
<1>2. BuildInv /\ [BuildNext]_buildVars => BuildInv'
  BY BuildInvNext
<1> QED
  BY <1>1, <1>2, PTL DEF BuildSpec

-----------------------------------------------------------------------------
(* Build: what the verdict says.                                           *)

\* What the constants stand for, of the policy and the automata at hand.
LEMMA AtHand ==
  ASSUME BuildInv
  PROVE  /\ MaxConjuncts \in Nat /\ IsPolicy(policy)
         /\ \A filter \in Candidates : IsAutomaton(filter, policy)
         /\ strict \in Candidates
         /\ \A filter \in Candidates : filter # strict => Pair /\ filter = loose
         /\ Pair => loose \in Candidates
<1>1. policy \in Policies /\ strict \in Stricts /\ loose \in Looses
  BY DEF BuildInv
<1>2. /\ MaxConjuncts \in Nat /\ IsPolicy(policy)
      /\ \A filter \in Stricts \cup (Looses \ {NoLoose}) : IsAutomaton(filter, policy)
  BY <1>1, PolicyAssumption
<1>3. CASE Pair
  <2>1. Candidates = {strict, loose}
    BY <1>3 DEF Candidates, Pair
  <2>2. loose # NoLoose
    BY <1>3 DEF Pair
  <2> QED
    BY <1>1, <1>2, <1>3, <2>1, <2>2
<1>4. CASE ~Pair
  <2>1. Candidates = {strict}
    BY <1>4 DEF Candidates, Pair
  <2> QED
    BY <1>1, <1>2, <1>4, <2>1
<1> QED
  BY <1>3, <1>4

\* What the two assemblies came to.
LEMMA BothAssembled ==
  ASSUME BuildInv, pc \in {"choose", "admit", "done"}
  PROVE  /\ Ok(exact) <=> Buildable(policy, strict)
         /\ Ok(exact) => exact.cost = CostFact(policy, strict, strict)
         /\ Ok(second) <=> Pair /\ Buildable(policy, loose)
         /\ Ok(second) => second.cost = CostFact(policy, loose, strict)
<1>1. exact = Assembled(policy, strict, strict)
  BY DEF BuildInv
<1>2. second = IF Pair THEN Assembled(policy, loose, strict) ELSE NotTried
  BY DEF BuildInv
<1>3. /\ Ok(exact) <=> Buildable(policy, strict)
      /\ Ok(exact) => exact.cost = CostFact(policy, strict, strict)
  BY <1>1, AssembledIs
<1>4. CASE Pair
  <2>1. second = Assembled(policy, loose, strict)
    BY <1>2, <1>4
  <2>2. /\ Ok(second) <=> Buildable(policy, loose)
        /\ Ok(second) => second.cost = CostFact(policy, loose, strict)
    BY <2>1, AssembledIs
  <2> QED
    BY <1>3, <1>4, <2>2
<1>5. CASE ~Pair
  <2>1. ~Ok(second)
    BY <1>2, <1>5 DEF Ok, NotTried
  <2> QED
    BY <1>3, <1>5, <2>1
<1> QED
  BY <1>4, <1>5

\* A total is some f64.
LEMMA TotalCloses ==
  ASSUME NEW k, Priceable(k)
  PROVE  Total(k) \in Floats
<1>1. Survives(k) \in Floats
  BY SurvivesIsProbable, OfFinites DEF Probable
<1>2. Unfiltered(k) \in Floats
  BY UnfilteredFacts
<1>3. Times(Survives(k), Unfiltered(k)) \in Floats
  BY <1>1, <1>2, TimesCloses
<1>4. k.sieve \in Floats
  BY NumbersFrom DEF Priceable, Numbers
<1>5. Plus(k.sieve, Times(Survives(k), Unfiltered(k))) \in Floats
  BY <1>3, <1>4, PlusCloses
<1> QED
  BY <1>5 DEF Total, Survives

\* A total that is less than another's is a number, and so is the other.
LEMMA LessIsAtMost ==
  ASSUME NEW x \in Floats, NEW y \in Floats, Less(x, y)
  PROVE  AtMost(x, y)
<1>1. x \in Numbers /\ y \in Numbers
  BY DEF Less, IsNaN, Numbers
<1> QED
  BY <1>1, Ordered

\* The candidate taken was built of one of the two, and pays if any that was built does.
LEMMA ChosenIsCheapest ==
  ASSUME BuildInv, pc \in {"choose", "admit", "done"}, Chosen
  PROVE  /\ \E filter \in Candidates :
              Buildable(policy, filter) /\ cost = CostFact(policy, filter, strict)
         /\ \A filter \in Candidates :
              Buildable(policy, filter) /\ Pays(CostFact(policy, filter, strict)) => Pays(cost)
<1>1. PICK x, y : x = CostFact(policy, strict, strict) /\ y = CostFact(policy, loose, strict)
  OBVIOUS
<1>2. /\ Ok(exact) <=> Buildable(policy, strict)
      /\ Ok(exact) => exact.cost = x
      /\ Ok(second) <=> Pair /\ Buildable(policy, loose)
      /\ Ok(second) => second.cost = y
  BY <1>1, BothAssembled
<1>3. /\ strict \in Candidates /\ (Pair => loose \in Candidates)
      /\ \A filter \in Candidates : filter # strict => Pair /\ filter = loose
  BY AtHand
<1>4. Ok(exact) => Priceable(x)
  BY <1>1, AtHand, CostIsPriceable
<1>5. Ok(second) => Priceable(y)
  BY <1>1, <1>2, AtHand, CostIsPriceable
<1>6. Unfiltered(x) = Unfiltered(y)
  BY <1>1, SameAlternative
<1>7. \E filter \in Candidates :
        Buildable(policy, filter) /\ cost = CostFact(policy, filter, strict)
  BY <1>1, <1>2, <1>3 DEF Chosen
<1>8. ASSUME Ok(exact), Pays(x) PROVE Pays(cost)
  <2>1. CASE cost = exact.cost
    BY <1>2, <1>8, <2>1
  <2>2. CASE cost # exact.cost
    <3>1. Ok(second) /\ cost = second.cost /\ LooseIsCheaper
      BY <1>8, <2>2 DEF Chosen
    <3>2. cost = y /\ Less(Total(y), Total(x))
      BY <1>2, <1>8, <3>1 DEF LooseIsCheaper
    <3>3. Priceable(x) /\ Priceable(y)
      BY <1>4, <1>5, <1>8, <3>1
    <3>4. Total(x) \in Floats /\ Total(y) \in Floats
      BY <3>3, TotalCloses
    <3>5. AtMost(Total(y), Total(x))
      BY <3>2, <3>4, LessIsAtMost
    <3>6. Pays(y)
      BY <1>6, <1>8, <3>3, <3>5, CheaperPays
    <3> QED
      BY <3>2, <3>6
  <2> QED
    BY <2>1, <2>2
<1>9. ASSUME Ok(second), Pays(y) PROVE Pays(cost)
  <2>1. CASE cost = second.cost
    BY <1>2, <1>9, <2>1
  <2>2. CASE cost # second.cost
    <3>1. Ok(exact) /\ cost = exact.cost /\ ~LooseIsCheaper
      BY <1>9, <2>2 DEF Chosen
    <3>2. cost = x /\ AtMost(Total(x), Total(y))
      BY <1>2, <1>9, <3>1 DEF LooseIsCheaper, AtMost
    <3>3. Priceable(x) /\ Priceable(y)
      BY <1>4, <1>5, <1>9, <3>1
    <3>4. Pays(x)
      BY <1>6, <1>9, <3>2, <3>3, CheaperPays
    <3> QED
      BY <3>2, <3>4
  <2> QED
    BY <2>1, <2>2
<1>10. ASSUME NEW filter \in Candidates, Buildable(policy, filter),
              Pays(CostFact(policy, filter, strict))
       PROVE  Pays(cost)
  <2>1. CASE filter = strict
    BY <1>1, <1>2, <1>8, <1>10, <2>1
  <2>2. CASE filter # strict
    BY <1>1, <1>2, <1>3, <1>9, <1>10, <2>2
  <2> QED
    BY <2>1, <2>2
<1> QED
  BY <1>7, <1>10

\* How a verdict came about.
LEMMA HowItSettled ==
  ASSUME BuildInv
  PROVE  /\ verdict = Armed =>
              pc = "done" /\ Chosen /\ (policy.gate = "Ungated" \/ Pays(cost))
         /\ verdict = "NotWorthIt" =>
              pc = "done" /\ policy.gate = "Worth" /\ Chosen /\ ~Pays(cost)
         /\ verdict \notin {NoVerdict, Armed, "NotWorthIt"} =>
              pc = "done" /\ ~Ok(exact) /\ verdict = Assembled(policy, strict, strict).why
         /\ pc = "done" /\ verdict \notin {Armed, "NotWorthIt"} => ~Ok(exact) /\ ~Ok(second)
         /\ pc = "done" => verdict # NoVerdict
<1>1. pc = "done" => exact = Assembled(policy, strict, strict) /\ Settled
  BY DEF BuildInv
<1>2. pc # "done" => verdict = NoVerdict
  BY DEF BuildInv
<1>3. IsAutomaton(strict, policy)
  BY AtHand
<1>4. pc = "done" /\ ~Ok(exact) => exact.why \notin {Armed, NoVerdict, "NotWorthIt"}
  BY <1>1, <1>3, RefusedFor
<1>5. Armed # NoVerdict /\ Armed # "NotWorthIt" /\ NoVerdict # "NotWorthIt"
  BY DEF Armed, NoVerdict
<1>6. CASE pc # "done"
  BY <1>2, <1>5, <1>6
<1>7. CASE pc = "done"
  BY <1>1, <1>4, <1>5, <1>7 DEF Settled
<1> QED
  BY <1>6, <1>7

\* What armed was built of one of the two candidates, and pays where the gate asks.
LEMMA WhatArmed ==
  ASSUME BuildInv, verdict = Armed
  PROVE  \E filter \in Candidates :
           /\ Buildable(policy, filter) /\ cost = CostFact(policy, filter, strict)
           /\ policy.gate = "Ungated" \/ Pays(cost)
<1>1. pc = "done" /\ Chosen /\ (policy.gate = "Ungated" \/ Pays(cost))
  BY HowItSettled
<1> QED
  BY <1>1, ChosenIsCheapest

-----------------------------------------------------------------------------
(* Build: the properties.                                                  *)

LEMMA CostsOnly == BuildInv => ArmsOnCostsOnly
<1> SUFFICES ASSUME BuildInv, verdict = Armed, policy.gate = "Worth"
             PROVE  /\ ~IsNaN(cost.rival) /\ ~IsNaN(cost.bypass)
                    /\ Finite(Total(cost)) /\ ~Less(Total(cost), Zero)
                    /\ Positive(Unfiltered(cost))
                    /\ Less(cost.sieve, Unfiltered(cost))
  BY DEF ArmsOnCostsOnly
<1>1. PICK filter \in Candidates : cost = CostFact(policy, filter, strict) /\ Pays(cost)
  BY WhatArmed
<1>2. PICK k : k = cost
  OBVIOUS
<1>3. Priceable(k) /\ Pays(k)
  BY <1>1, <1>2, AtHand, CostIsPriceable
<1>4. Total(k) \in Finites /\ AtMost(Zero, Total(k)) /\ Positive(Unfiltered(k))
      /\ Less(k.sieve, Unfiltered(k))
  BY <1>3, PaysMeans
<1>5. Unfiltered(k) \in Finites
  BY <1>3, PaysFinitely
<1>6. Unfiltered(k) # NaN
  BY <1>5, OfFinites
<1>7. k.rival # NaN /\ k.bypass # NaN
  BY <1>3, <1>6, UnfilteredFacts
<1>8. Finite(Total(k))
  BY <1>4, OfFinites
<1> QED
  BY <1>2, <1>4, <1>7, <1>8 DEF IsNaN, AtMost

LEMMA PairAsOne == BuildInv => PairArmsAsOne
<1> SUFFICES ASSUME BuildInv, pc = "done" PROVE verdict = Armed <=> ArmsUnder(policy)
  BY DEF PairArmsAsOne
<1>1. ASSUME verdict = Armed PROVE ArmsUnder(policy)
  <2>1. PICK filter \in Candidates :
          /\ Buildable(policy, filter) /\ cost = CostFact(policy, filter, strict)
          /\ policy.gate = "Ungated" \/ Pays(cost)
    BY <1>1, WhatArmed
  <2>2. ArmsAlone(policy, filter)
    BY <2>1, ArmsAloneIs
  <2> QED
    BY <2>2 DEF ArmsUnder
<1>2. ASSUME ArmsUnder(policy), verdict # Armed PROVE FALSE
  <2>1. PICK filter \in Candidates : ArmsAlone(policy, filter)
    BY <1>2 DEF ArmsUnder
  <2>2. /\ Buildable(policy, filter)
        /\ policy.gate = "Ungated" \/ Pays(CostFact(policy, filter, strict))
    BY <2>1, ArmsAloneIs
  <2>3. CASE verdict = "NotWorthIt"
    <3>1. policy.gate = "Worth" /\ Chosen /\ ~Pays(cost)
      BY <2>3, HowItSettled
    <3>2. Pays(CostFact(policy, filter, strict))
      BY <2>2, <3>1
    <3> QED
      BY <2>2, <3>1, <3>2, ChosenIsCheapest
  <2>4. CASE verdict # "NotWorthIt"
    <3>1. ~Ok(exact) /\ ~Ok(second)
      BY <1>2, <2>4, HowItSettled
    <3>2. ~Buildable(policy, strict) /\ ~(Pair /\ Buildable(policy, loose))
      BY <3>1, BothAssembled
    <3>3. filter = strict \/ (Pair /\ filter = loose)
      BY AtHand
    <3> QED
      BY <2>2, <3>2, <3>3
  <2> QED
    BY <2>3, <2>4
<1> QED
  BY <1>1, <1>2

LEMMA Refusals == BuildInv => RefusalIsTrue
<1> SUFFICES ASSUME BuildInv PROVE RefusalIsTrue
  OBVIOUS
<1>1. IsAutomaton(strict, policy)
  BY AtHand
<1>2. PICK why : why = Assembled(policy, strict, strict).why
  OBVIOUS
<1>3. ASSUME verdict \notin {NoVerdict, Armed, "NotWorthIt"}
      PROVE  /\ verdict \in {"Uncalibrated", "Unmodeled"} => policy.gate = "Worth"
             /\ verdict \in {"Quits", "MatchesEmpty", "TooWide"} => strict.shape = verdict
             /\ verdict = "NoQuotient" => strict.shape = "fits" /\ strict.quotients = <<>>
  <2>1. pc = "done" /\ ~Ok(exact) /\ verdict = why
    BY <1>2, <1>3, HowItSettled
  <2>2. ~Ok(Assembled(policy, strict, strict))
    BY <2>1 DEF BuildInv
  <2>3. /\ why \in {"Uncalibrated", "Unmodeled"} => policy.gate = "Worth"
        /\ why \in {"Quits", "MatchesEmpty", "TooWide"} => strict.shape = why
        /\ why = "NoQuotient" => strict.shape = "fits" /\ strict.quotients = <<>>
    BY <1>1, <1>2, <2>2, RefusedFor
  <2> QED
    BY <2>1, <2>3
<1>4. ASSUME verdict = "NotWorthIt", NEW filter \in Candidates,
             Ok(Assembled(policy, filter, strict))
      PROVE  ~Pays(Assembled(policy, filter, strict).cost)
  <2>1. /\ Buildable(policy, filter)
        /\ Assembled(policy, filter, strict).cost = CostFact(policy, filter, strict)
    BY <1>4, AssembledIs
  <2>2. pc = "done" /\ Chosen /\ ~Pays(cost)
    BY <1>4, HowItSettled
  <2>3. ~Pays(CostFact(policy, filter, strict))
    BY <2>1, <2>2, ChosenIsCheapest
  <2> QED
    BY <2>1, <2>3
<1>5. verdict = "NotWorthIt" => policy.gate = "Worth"
  BY HowItSettled
<1>6. "Uncalibrated" \notin {NoVerdict, Armed, "NotWorthIt"}
      /\ "Unmodeled" \notin {NoVerdict, Armed, "NotWorthIt"}
      /\ "Quits" \notin {NoVerdict, Armed, "NotWorthIt"}
      /\ "MatchesEmpty" \notin {NoVerdict, Armed, "NotWorthIt"}
      /\ "TooWide" \notin {NoVerdict, Armed, "NotWorthIt"}
      /\ "NoQuotient" \notin {NoVerdict, Armed, "NotWorthIt"}
  BY DEF Armed, NoVerdict
<1> QED
  BY <1>3, <1>4, <1>5, <1>6 DEF RefusalIsTrue

LEMMA OneWay == BuildInv => MovesOneWay
<1> SUFFICES ASSUME BuildInv, verdict = Armed
             PROVE  /\ \A fewer \in SUBSET policy.chains :
                         ArmsUnder([policy EXCEPT !.chains = fewer])
                    /\ ArmsUnder([policy EXCEPT !.rivals = IF @ = 0 THEN 2 ELSE @ + 1])
                    /\ ArmsUnder([policy EXCEPT !.skip = TRUE])
  BY DEF MovesOneWay
<1>1. PICK filter \in Candidates :
        /\ Buildable(policy, filter)
        /\ policy.gate = "Ungated" \/ Pays(CostFact(policy, filter, strict))
  BY WhatArmed
<1>2. MaxConjuncts \in Nat /\ IsPolicy(policy) /\ IsAutomaton(filter, policy)
  BY AtHand
<1>3. ASSUME NEW r,
             /\ r.gate = policy.gate
             /\ Buildable(policy, filter) => Buildable(r, filter)
             /\ Pays(CostFact(policy, filter, strict)) => Pays(CostFact(r, filter, strict))
      PROVE  ArmsUnder(r)
  <2>1. ArmsAlone(r, filter)
    BY <1>1, <1>3, ArmsAloneIs
  <2> QED
    BY <2>1 DEF ArmsUnder
<1>4. ASSUME NEW fewer \in SUBSET policy.chains
      PROVE  ArmsUnder([policy EXCEPT !.chains = fewer])
  <2>1. PICK r : r = [policy EXCEPT !.chains = fewer]
    OBVIOUS
  <2>2. /\ r.gate = policy.gate
        /\ Buildable(policy, filter) => Buildable(r, filter)
        /\ Pays(CostFact(policy, filter, strict)) => Pays(CostFact(r, filter, strict))
    BY <1>2, <2>1, FewerChains
  <2>3. ArmsUnder(r)
    BY <1>3, <2>2
  <2> QED
    BY <2>1, <2>3
<1>5. ArmsUnder([policy EXCEPT !.rivals = IF @ = 0 THEN 2 ELSE @ + 1])
  <2>1. PICK n : n = IF policy.rivals = 0 THEN 2 ELSE policy.rivals + 1
    OBVIOUS
  <2>2. PICK r : r = [policy EXCEPT !.rivals = n]
    OBVIOUS
  <2>3. /\ r.gate = policy.gate
        /\ Buildable(policy, filter) => Buildable(r, filter)
        /\ Pays(CostFact(policy, filter, strict)) => Pays(CostFact(r, filter, strict))
    BY <1>2, <2>1, <2>2, OneMoreRival
  <2>4. ArmsUnder(r)
    BY <1>3, <2>3
  <2> QED
    BY <2>1, <2>2, <2>4
<1>6. ASSUME NEW on \in BOOLEAN PROVE on => ArmsUnder([policy EXCEPT !.skip = on])
  <2>1. PICK r : r = [policy EXCEPT !.skip = on]
    OBVIOUS
  <2>2. on => /\ r.gate = policy.gate
              /\ Buildable(policy, filter) => Buildable(r, filter)
              /\ Pays(CostFact(policy, filter, strict)) => Pays(CostFact(r, filter, strict))
    BY <1>2, <2>1, SkipToChoose
  <2>3. on => ArmsUnder(r)
    BY <1>3, <2>2
  <2> QED
    BY <2>1, <2>3
<1>7. ArmsUnder([policy EXCEPT !.skip = TRUE])
  BY <1>6
<1> QED
  BY <1>4, <1>5, <1>7

\* Taking the cheaper of two candidates before the worth test loses none that would pass it,
\* for every policy, price and pair of automata: the pattern arms exactly when one of its
\* candidates would alone (`of_pattern_with` against `of_superset_with`).
THEOREM ThePairArmsAsOne == BuildSpec => []PairArmsAsOne
BY BuildKeepsItsCourse, PairAsOne, PTL

\* A refusal names what is in the way, whatever the policy and the automata.
THEOREM EveryRefusalIsTrue == BuildSpec => []RefusalIsTrue
BY BuildKeepsItsCourse, Refusals, PTL

\* Nothing arms under Gate::Worth but on two sides that are costs, for every f64 a caller,
\* a row or a table of frequencies may state.
THEOREM NothingArmsOnLess == BuildSpec => []ArmsOnCostsOnly
BY BuildKeepsItsCourse, CostsOnly, PTL

\* What arms still arms with fewer chains to fear, one more rival to spare, or the skip to
\* choose: no term of the policy moves the verdict both ways.
THEOREM EveryTermMovesOneWay == BuildSpec => []MovesOneWay
BY BuildKeepsItsCourse, OneWay, PTL

-----------------------------------------------------------------------------
(* Measure: lists.                                                         *)

LEMMA ListedFacts ==
  ASSUME NEW s, Listed(s)
  PROVE  /\ Len(s) \in Nat /\ DOMAIN s = 1 .. Len(s)
         /\ \A S : (\A i \in DOMAIN s : s[i] \in S) => s \in Seq(S)
<1>1. s \in Seq({s[i] : i \in DOMAIN s})
  BY DEF Listed
<1>2. PICK n \in Nat : s \in [1 .. n -> {s[i] : i \in DOMAIN s}]
  BY <1>1, SeqDef
<1>3. Len(s) \in Nat /\ DOMAIN s = 1 .. Len(s)
  BY <1>1, LenProperties
<1>4. ASSUME NEW S, \A i \in DOMAIN s : s[i] \in S PROVE s \in Seq(S)
  <2>1. s \in [1 .. n -> S]
    BY <1>2, <1>4
  <2> QED
    BY <2>1, SeqDef
<1> QED
  BY <1>3, <1>4

LEMMA SeqIsListed ==
  ASSUME NEW S, NEW s \in Seq(S)
  PROVE  Listed(s)
<1>1. PICK n \in Nat : s \in [1 .. n -> S]
  BY SeqDef
<1>2. s \in [1 .. n -> {s[i] : i \in DOMAIN s}]
  BY <1>1
<1>3. s \in Seq({s[i] : i \in DOMAIN s})
  BY <1>2, SeqDef, SMTT(30)
<1> QED
  BY <1>3 DEF Listed

LEMMA AppendIsListed ==
  ASSUME NEW s, Listed(s), NEW e
  PROVE  /\ Listed(Append(s, e))
         /\ Len(Append(s, e)) = Len(s) + 1
         /\ Append(s, e)[Len(s) + 1] = e
         /\ \A i \in 1 .. Len(s) : Append(s, e)[i] = s[i]
<1>1. PICK S : S = {s[i] : i \in DOMAIN s} \cup {e}
  OBVIOUS
<1>2. s \in Seq(S) /\ e \in S
  BY <1>1, ListedFacts
<1>3. /\ Append(s, e) \in Seq(S)
      /\ Len(Append(s, e)) = Len(s) + 1
      /\ Append(s, e)[Len(s) + 1] = e
      /\ \A i \in 1 .. Len(s) : Append(s, e)[i] = s[i]
  BY <1>2, AppendProperties
<1>4. Listed(Append(s, e))
  BY <1>3, SeqIsListed
<1> QED
  BY <1>3, <1>4

LEMMA ExceptIsListed ==
  ASSUME NEW s, Listed(s), NEW i \in DOMAIN s, NEW e
  PROVE  Listed([s EXCEPT ![i] = e]) /\ Len([s EXCEPT ![i] = e]) = Len(s)
<1>1. PICK S : S = {s[j] : j \in DOMAIN s} \cup {e}
  OBVIOUS
<1>2. s \in Seq(S) /\ e \in S /\ i \in 1 .. Len(s)
  BY <1>1, ListedFacts
<1>3. [s EXCEPT ![i] = e] \in Seq(S) /\ Len([s EXCEPT ![i] = e]) = Len(s)
  BY <1>2, ExceptSeq
<1> QED
  BY <1>3, SeqIsListed

LEMMA ConcatIsListed ==
  ASSUME NEW s, Listed(s), NEW t, Listed(t)
  PROVE  /\ Listed(s \o t)
         /\ Len(s \o t) = Len(s) + Len(t)
         /\ \A i \in 1 .. Len(s) : (s \o t)[i] = s[i]
         /\ \A i \in 1 .. Len(t) : (s \o t)[Len(s) + i] = t[i]
<1>1. PICK S : S = {s[j] : j \in DOMAIN s} \cup {t[j] : j \in DOMAIN t}
  OBVIOUS
<1>2. s \in Seq(S) /\ t \in Seq(S)
  BY <1>1, ListedFacts
<1>3. s \o t \in Seq(S) /\ Len(s \o t) = Len(s) + Len(t)
      /\ \A i \in 1 .. Len(s) + Len(t) :
           (s \o t)[i] = IF i <= Len(s) THEN s[i] ELSE t[i - Len(s)]
  BY <1>2, ConcatProperties
<1>4. Len(s) \in Nat /\ Len(t) \in Nat
  BY <1>2, LenProperties
<1>5. ASSUME NEW i \in 1 .. Len(s) PROVE (s \o t)[i] = s[i]
  <2>1. i \in 1 .. Len(s) + Len(t) /\ i <= Len(s)
    BY <1>4
  <2> QED
    BY <1>3, <2>1
<1>6. ASSUME NEW i \in 1 .. Len(t) PROVE (s \o t)[Len(s) + i] = t[i]
  <2>1. PICK j : j = Len(s) + i
    OBVIOUS
  <2>2. j \in 1 .. Len(s) + Len(t) /\ ~(j <= Len(s)) /\ j - Len(s) = i
    BY <1>4, <2>1
  <2>3. (s \o t)[j] = t[i]
    BY <1>3, <2>2
  <2> QED
    BY <2>1, <2>3
<1> QED
  BY <1>3, <1>5, <1>6, SeqIsListed

\* Any function from 1 .. n is a list.
LEMMA FunctionIsListed ==
  ASSUME NEW n \in Nat, NEW s, s = [i \in 1 .. n |-> s[i]]
  PROVE  Listed(s) /\ Len(s) = n
<1>1. s \in [1 .. n -> {s[i] : i \in 1 .. n}]
  OBVIOUS
<1>2. s \in Seq({s[i] : i \in 1 .. n})
  BY <1>1, SeqDef
<1>3. Len(s) = n
  BY <1>1, <1>2, LenProperties
<1> QED
  BY <1>2, <1>3, SeqIsListed

\* What reaches an instrument is a list again.
LEMMA ReachingIsListed ==
  ASSUME NEW slate, Listed(slate), NEW instrument
  PROVE  /\ Listed(Reaching(slate, instrument))
         /\ Reaching(slate, instrument) \in Seq({slate[i] : i \in DOMAIN slate})
<1> DEFINE n == Len(slate)
           B == Seq({slate[i] : i \in DOMAIN slate})
           row == [i \in 1 .. n |-> [q \in B |->
                     IF slate[i].instrument = instrument THEN Append(q, slate[i]) ELSE q]]
           Reads(f) == f = [i \in 0 .. n |->
                              IF i = 0 THEN <<>>
                              ELSE IF slate[i].instrument = instrument
                                     THEN Append(f[i - 1], slate[i])
                              ELSE f[i - 1]]
<1>1. n \in Nat /\ n \in 0 .. n /\ DOMAIN slate = 1 .. n
  BY ListedFacts
<1>2. ASSUME NEW q \in B, NEW i \in 1 .. n PROVE Append(q, slate[i]) \in B
  BY <1>1, AppendProperties
<1>3. <<>> \in B
  BY EmptySeq
<1> HIDE DEF B, n
<1>4. row \in Rows(n, B)
  BY <1>2 DEF Rows
<1>5. PICK f \in [0 .. n -> B] : Fills(f, n, <<>>, row)
  <2> HIDE DEF row
  <2> QED
    BY <1>1, <1>3, <1>4, FilledFromFront
<1>6. Reads(f)
  <2>1. ASSUME NEW i \in 0 .. n
        PROVE  f[i] = IF i = 0 THEN <<>>
                      ELSE IF slate[i].instrument = instrument THEN Append(f[i - 1], slate[i])
                      ELSE f[i - 1]
    <3>1. CASE i = 0
      BY <1>5, <3>1 DEF Fills
    <3>2. CASE i # 0
      <4>1. i \in 1 .. n /\ i - 1 \in 0 .. n
        BY <1>1, <3>2
      <4>2. f[i] = row[i][f[i - 1]] /\ f[i - 1] \in B
        BY <1>5, <4>1 DEF Fills
      <4>3. row[i][f[i - 1]] = IF slate[i].instrument = instrument
                                 THEN Append(f[i - 1], slate[i]) ELSE f[i - 1]
        BY <4>1, <4>2
      <4> QED
        BY <3>2, <4>2, <4>3
    <3> QED
      BY <3>1, <3>2
  <2>2. f = [i \in 0 .. n |-> f[i]]
    OBVIOUS
  <2> HIDE DEF row
  <2> QED
    BY <2>1, <2>2
<1>7. PICK g : g = CHOOSE e : Reads(e)
  OBVIOUS
<1>8. Reaching(slate, instrument) = g[n]
  BY <1>7 DEF Reaching, n
<1>9. Reads(g)
  <2> HIDE DEF Reads
  <2> QED
    BY <1>6, <1>7
<1> DEFINE S == {i \in 0 .. n : g[i] \in B}
<1>10. 0 \in S
  <2>1. 0 \in 0 .. n
    BY <1>1
  <2>2. g[0] = <<>>
    BY <1>9, <2>1, Zenon
  <2> QED
    BY <1>3, <2>1, <2>2
<1>11. ASSUME NEW i \in 0 .. n - 1, i \in S PROVE i + 1 \in S
  <2>1. PICK j : j = i + 1
    OBVIOUS
  <2>2. j \in 1 .. n /\ j \in 0 .. n /\ j # 0 /\ j - 1 = i
    BY <1>1, <2>1
  <2>3. g[j] = IF slate[j].instrument = instrument THEN Append(g[j - 1], slate[j]) ELSE g[j - 1]
    BY <1>9, <2>2, Zenon
  <2>4. g[j - 1] \in B
    BY <1>11, <2>2
  <2>5. g[j] \in B
    BY <1>2, <2>2, <2>3, <2>4
  <2> QED
    BY <2>1, <2>2, <2>5
<1>12. \A i \in 0 .. n : i \in S
  <2> HIDE DEF S
  <2> QED
    BY <1>1, <1>10, <1>11, UpTo
<1>13. g[n] \in B
  BY <1>1, <1>12
<1> QED
  BY <1>8, <1>13, SeqIsListed DEF B

-----------------------------------------------------------------------------
(* Measure: the schedule.                                                  *)

\* The five kinds.
IsDrawnUp(t) ==
  \/ t.kind = "walk" /\ t.legs = Alone(WALK_REF)
  \/ t.kind = "skip" /\ t.legs = Alone(SKIP_REF)
  \/ t.kind = "lead" /\ t.legs = Paired(Loop("lead", t.of))
  \/ /\ t.kind \in {"Few", "Wide"} /\ t.legs = Paired(Loop("probe", t.of))
     /\ IsTime(t.of.excursion)
  \/ t.kind = "sieve" /\ \E pattern : t.legs = Alone(Loop("sieve", pattern))

\* What every timing of it is: some legs in a row, and a sieve alone.
IsTiming(t) ==
  /\ Listed(t.legs) /\ Len(t.legs) >= 1
  /\ t.kind = "sieve" => Len(t.legs) = 1 /\ UsesKernel(t.legs[1])
  /\ IsDrawnUp(t)

TimingsOnly(s) == Listed(s) /\ \A i \in DOMAIN s : IsTiming(s[i])

LEMMA OneLeg ==
  ASSUME NEW loop
  PROVE  Listed(Alone(loop)) /\ Len(Alone(loop)) = 1 /\ Alone(loop)[1] = loop
<1>1. PICK l : l = <<loop>>
  OBVIOUS
<1>2. Alone(loop) = l /\ l \in Seq({loop}) /\ Len(l) = 1 /\ l[1] = loop
  BY <1>1 DEF Alone
<1>3. Listed(l)
  BY <1>2, SeqIsListed
<1> QED
  BY <1>2, <1>3

LEMMA ThreeLegs ==
  ASSUME NEW loop
  PROVE  /\ Listed(Paired(loop)) /\ Len(Paired(loop)) = 3
         /\ Paired(loop)[1] = loop /\ Paired(loop)[2] = SKIP_REF /\ Paired(loop)[3] = WALK_REF
<1>1. PICK S : S = {loop, SKIP_REF, WALK_REF}
  OBVIOUS
<1>2. PICK a, b, c : a = loop /\ b = SKIP_REF /\ c = WALK_REF
  OBVIOUS
<1>3. Paired(loop) = <<a, b, c>> /\ a \in S /\ b \in S /\ c \in S
  BY <1>1, <1>2 DEF Paired
<1>4. /\ <<a, b, c>> \in Seq(S) /\ Len(<<a, b, c>>) = 3
      /\ <<a, b, c>>[1] = a /\ <<a, b, c>>[2] = b /\ <<a, b, c>>[3] = c
  BY <1>3
<1> QED
  BY <1>2, <1>3, <1>4, SeqIsListed

LEMMA LeadIsTiming ==
  ASSUME NEW of
  PROVE  IsTiming(Timing("lead", of, Paired(Loop("lead", of))))
<1>1. PICK loop, t : loop = Loop("lead", of) /\ t = Timing("lead", of, Paired(loop))
  OBVIOUS
<1>2. t.kind = "lead" /\ t.of = of /\ t.legs = Paired(loop)
  BY <1>1 DEF Timing
<1>3. IsDrawnUp(t)
  BY <1>1, <1>2 DEF IsDrawnUp
<1>4. Listed(t.legs) /\ Len(t.legs) = 3 /\ t.kind # "sieve"
  BY <1>2, ThreeLegs
<1>5. IsTiming(t)
  BY <1>3, <1>4 DEF IsTiming
<1> QED
  BY <1>1, <1>5

LEMMA ProbeIsTiming ==
  ASSUME NEW kind \in {"Few", "Wide"}, NEW of, IsTime(of.excursion)
  PROVE  IsTiming(Timing(kind, of, Paired(Loop("probe", of))))
<1>1. PICK loop, t : loop = Loop("probe", of) /\ t = Timing(kind, of, Paired(loop))
  OBVIOUS
<1>2. t.kind = kind /\ t.of = of /\ t.legs = Paired(loop)
  BY <1>1 DEF Timing
<1>3. IsDrawnUp(t)
  BY <1>1, <1>2 DEF IsDrawnUp
<1>4. Listed(t.legs) /\ Len(t.legs) = 3 /\ t.kind # "sieve"
  BY <1>2, ThreeLegs
<1>5. IsTiming(t)
  BY <1>3, <1>4 DEF IsTiming
<1> QED
  BY <1>1, <1>5

LEMMA ReferencesAreTimings ==
  /\ IsTiming(Timing("walk", "walk", Alone(WALK_REF)))
  /\ IsTiming(Timing("skip", "skip", Alone(SKIP_REF)))
<1>1. PICK a, b : a = WALK_REF /\ b = SKIP_REF
  OBVIOUS
<1>2. PICK t, u : t = Timing("walk", "walk", Alone(a)) /\ u = Timing("skip", "skip", Alone(b))
  OBVIOUS
<1>3. t.kind = "walk" /\ t.legs = Alone(a) /\ u.kind = "skip" /\ u.legs = Alone(b)
  BY <1>2 DEF Timing
<1>4. IsDrawnUp(t) /\ IsDrawnUp(u)
  BY <1>1, <1>3 DEF IsDrawnUp
<1> QED
  BY <1>1, <1>2, <1>3, <1>4, OneLeg DEF IsTiming

LEMMA SieveIsTiming ==
  ASSUME NEW n, NEW pattern
  PROVE  IsTiming(Timing("sieve", n, Alone(Loop("sieve", pattern))))
<1>1. PICK loop, t : loop = Loop("sieve", pattern) /\ t = Timing("sieve", n, Alone(loop))
  OBVIOUS
<1>2. UsesKernel(loop)
  BY <1>1 DEF UsesKernel, Loop
<1>3. t.kind = "sieve" /\ t.legs = Alone(loop)
  BY <1>1 DEF Timing
<1>4. IsDrawnUp(t)
  BY <1>1, <1>3 DEF IsDrawnUp
<1> QED
  BY <1>1, <1>2, <1>3, <1>4, OneLeg DEF IsTiming

LEMMA LeadsAreTimings ==
  TimingsOnly([i \in DOMAIN Leads |-> Timing("lead", Leads[i], Paired(Loop("lead", Leads[i])))])
<1>1. PICK s : s = [i \in DOMAIN Leads |-> Timing("lead", Leads[i], Paired(Loop("lead", Leads[i])))]
  OBVIOUS
<1>2. Len(Leads) \in Nat /\ DOMAIN Leads = 1 .. Len(Leads)
  BY ListedFacts, SlatesAssumption
<1>3. s = [i \in 1 .. Len(Leads) |-> s[i]]
  BY <1>1, <1>2
<1>4. Listed(s)
  BY <1>2, <1>3, FunctionIsListed
<1>5. ASSUME NEW i \in DOMAIN s PROVE IsTiming(s[i])
  <2>1. s[i] = Timing("lead", Leads[i], Paired(Loop("lead", Leads[i])))
    BY <1>1, <1>5
  <2> QED
    BY <2>1, LeadIsTiming
<1> QED
  BY <1>1, <1>4, <1>5 DEF TimingsOnly

LEMMA ProbesAreTimings ==
  ASSUME NEW instrument \in {"Few", "Wide"}
  PROVE  TimingsOnly(ProbeTimings(instrument))
<1>1. PICK s : s = ProbeTimings(instrument)
  OBVIOUS
<1>2. PICK p : p = Probes(instrument)
  OBVIOUS
<1>3. Listed(p) /\ \A i \in 1 .. Len(p) : IsTime(p[i].excursion)
  <2>1. PICK slate : slate = IF instrument = "Few" THEN Few ELSE Wide
    OBVIOUS
  <2>2. Listed(slate) /\ \A i \in DOMAIN slate : IsTime(slate[i].excursion)
    BY <2>1, SlatesAssumption, MachineAssumption
  <2>3. p = Reaching(slate, instrument)
    BY <1>2, <2>1 DEF Probes
  <2>4. Listed(p) /\ p \in Seq({slate[i] : i \in DOMAIN slate})
    BY <2>2, <2>3, ReachingIsListed
  <2>5. \A i \in 1 .. Len(p) : \E j \in DOMAIN slate : p[i] = slate[j]
    BY <2>4, ElementOfSeq
  <2> QED
    BY <2>2, <2>4, <2>5
<1>4. Len(p) \in Nat /\ DOMAIN p = 1 .. Len(p)
  BY <1>3, ListedFacts
<1>5. s = [i \in 1 .. Len(p) |-> Timing(instrument, p[i], Paired(Loop("probe", p[i])))]
  BY <1>1, <1>2, <1>4 DEF ProbeTimings
<1>6. s = [i \in 1 .. Len(p) |-> s[i]]
  BY <1>5
<1>7. Listed(s)
  BY <1>4, <1>6, FunctionIsListed
<1>8. ASSUME NEW i \in DOMAIN s PROVE IsTiming(s[i])
  <2>1. s[i] = Timing(instrument, p[i], Paired(Loop("probe", p[i])))
    BY <1>5, <1>8
  <2> QED
    BY <1>3, <1>4, <1>5, <1>8, <2>1, ProbeIsTiming
<1> QED
  BY <1>1, <1>7, <1>8 DEF TimingsOnly

LEMMA SievesAreTimings ==
  ASSUME NEW n
  PROVE  /\ TimingsOnly(SieveTimings(n))
         /\ (\E i \in DOMAIN Slate : Slate[i].conjuncts = n) =>
              /\ Len(SieveTimings(n)) = 1
              /\ SieveTimings(n)[1].kind = "sieve" /\ SieveTimings(n)[1].of = n
<1>1. PICK s : s = SieveTimings(n)
  OBVIOUS
<1>2. PICK p : p = Representative(n)
  OBVIOUS
<1>3. PICK m \in 0 .. 1 :
        /\ DOMAIN p = 1 .. m
        /\ (\E i \in DOMAIN Slate : Slate[i].conjuncts = n) => m = 1
  <2> DEFINE built == {i \in DOMAIN Slate : Slate[i].conjuncts = n}
  <2>1. CASE built = {}
    <3>1. p = <<>>
      BY <1>2, <2>1 DEF Representative
    <3>2. DOMAIN p = 1 .. 0
      BY <3>1
    <3> QED
      BY <2>1, <3>2
  <2>2. CASE built # {}
    <3>1. PICK e : p = <<e>>
      BY <1>2, <2>2 DEF Representative
    <3>2. DOMAIN p = 1 .. 1
      BY <3>1
    <3> QED
      BY <3>2
  <2> QED
    BY <2>1, <2>2
<1>4. s = [i \in 1 .. m |-> Timing("sieve", n, Alone(Loop("sieve", p[i])))]
  BY <1>1, <1>2, <1>3 DEF SieveTimings
<1>5. s = [i \in 1 .. m |-> s[i]] /\ m \in Nat
  BY <1>4
<1>6. Listed(s) /\ Len(s) = m
  BY <1>5, FunctionIsListed
<1>7. ASSUME NEW i \in DOMAIN s PROVE IsTiming(s[i])
  <2>1. s[i] = Timing("sieve", n, Alone(Loop("sieve", p[i])))
    BY <1>4, <1>7
  <2> QED
    BY <2>1, SieveIsTiming
<1>8. ASSUME m = 1 PROVE s[1].kind = "sieve" /\ s[1].of = n
  BY <1>4, <1>8 DEF Timing
<1> QED
  BY <1>1, <1>3, <1>6, <1>7, <1>8 DEF TimingsOnly

LEMMA TimingsConcat ==
  ASSUME NEW s, TimingsOnly(s), NEW t, TimingsOnly(t)
  PROVE  TimingsOnly(s \o t)
<1>1. /\ Listed(s) /\ Listed(t) /\ Listed(s \o t)
      /\ Len(s \o t) = Len(s) + Len(t)
      /\ \A i \in 1 .. Len(s) : (s \o t)[i] = s[i]
      /\ \A i \in 1 .. Len(t) : (s \o t)[Len(s) + i] = t[i]
  BY ConcatIsListed DEF TimingsOnly
<1>2. /\ DOMAIN s = 1 .. Len(s) /\ DOMAIN t = 1 .. Len(t) /\ DOMAIN (s \o t) = 1 .. Len(s \o t)
      /\ Len(s) \in Nat /\ Len(t) \in Nat
  BY <1>1, ListedFacts
<1>3. ASSUME NEW i \in DOMAIN (s \o t) PROVE IsTiming((s \o t)[i])
  <2>1. CASE i <= Len(s)
    <3>1. i \in 1 .. Len(s)
      BY <1>1, <1>2, <2>1
    <3> QED
      BY <1>1, <1>2, <3>1 DEF TimingsOnly
  <2>2. CASE ~(i <= Len(s))
    <3>1. PICK j : j = i - Len(s)
      OBVIOUS
    <3>2. j \in 1 .. Len(t) /\ i = Len(s) + j
      BY <1>1, <1>2, <2>2, <3>1
    <3>3. (s \o t)[i] = t[j]
      BY <1>1, <3>2
    <3> QED
      BY <1>2, <3>2, <3>3 DEF TimingsOnly
  <2> QED
    BY <2>1, <2>2
<1> QED
  BY <1>1, <1>3 DEF TimingsOnly

\* A schedule starts with the two references, and times one sieve at least.
LEMMA ScheduleFacts ==
  /\ TimingsOnly(Schedule)
  /\ Len(Schedule) \in Nat /\ DOMAIN Schedule = 1 .. Len(Schedule) /\ Len(Schedule) >= 2
  /\ Schedule[1].kind = "walk" /\ Schedule[2].kind = "skip"
  /\ \E i \in DOMAIN Schedule : Schedule[i].kind = "sieve" /\ Schedule[i].of \in 1 .. 2
<1>1. PICK a, l, f, w, s1, s2 :
        /\ a = <<Timing("walk", "walk", Alone(WALK_REF)), Timing("skip", "skip", Alone(SKIP_REF))>>
        /\ l = [i \in DOMAIN Leads |-> Timing("lead", Leads[i], Paired(Loop("lead", Leads[i])))]
        /\ f = ProbeTimings("Few") /\ w = ProbeTimings("Wide")
        /\ s1 = SieveTimings(1) /\ s2 = SieveTimings(2)
  OBVIOUS
<1>2. TimingsOnly(l) /\ TimingsOnly(f) /\ TimingsOnly(w) /\ TimingsOnly(s1) /\ TimingsOnly(s2)
  BY <1>1, LeadsAreTimings, ProbesAreTimings, SievesAreTimings
<1>3. /\ TimingsOnly(a) /\ Len(a) = 2
      /\ a[1].kind = "walk" /\ a[2].kind = "skip"
  <2>1. PICK x, y : /\ x = Timing("walk", "walk", Alone(WALK_REF))
                    /\ y = Timing("skip", "skip", Alone(SKIP_REF))
    OBVIOUS
  <2>2. IsTiming(x) /\ IsTiming(y)
    BY <2>1, ReferencesAreTimings
  <2>3. x.kind = "walk" /\ y.kind = "skip"
    BY <2>1 DEF Timing
  <2>4. a = <<x, y>> /\ <<x, y>> \in Seq({x, y}) /\ Len(<<x, y>>) = 2
    BY <1>1, <2>1
  <2>5. Listed(a)
    BY <2>4, SeqIsListed
  <2>6. DOMAIN a = 1 .. 2 /\ a[1] = x /\ a[2] = y
    BY <2>4
  <2> QED
    BY <2>2, <2>3, <2>4, <2>5, <2>6 DEF TimingsOnly
<1>4. PICK c1, c2, c3, c4 :
        c1 = a \o l /\ c2 = c1 \o f /\ c3 = c2 \o w /\ c4 = c3 \o s1
  OBVIOUS
<1>5. Schedule = c4 \o s2
  BY <1>1, <1>4 DEF Schedule
<1>6. /\ TimingsOnly(c1) /\ TimingsOnly(c2) /\ TimingsOnly(c3) /\ TimingsOnly(c4)
      /\ TimingsOnly(Schedule)
  <2>1. TimingsOnly(c1)
    BY <1>2, <1>3, <1>4, TimingsConcat
  <2>2. TimingsOnly(c2)
    BY <1>2, <1>4, <2>1, TimingsConcat
  <2>3. TimingsOnly(c3)
    BY <1>2, <1>4, <2>2, TimingsConcat
  <2>4. TimingsOnly(c4)
    BY <1>2, <1>4, <2>3, TimingsConcat
  <2> QED
    BY <1>2, <1>5, <2>1, <2>2, <2>3, <2>4, TimingsConcat
<1>7. ASSUME NEW s, TimingsOnly(s), Len(s) >= 2, s[1].kind = "walk", s[2].kind = "skip",
             NEW t, TimingsOnly(t)
      PROVE  /\ Len(s \o t) >= 2
             /\ (s \o t)[1].kind = "walk" /\ (s \o t)[2].kind = "skip"
  <2>1. /\ Len(s) \in Nat /\ Len(t) \in Nat
        /\ Len(s \o t) = Len(s) + Len(t)
        /\ \A i \in 1 .. Len(s) : (s \o t)[i] = s[i]
    BY <1>7, ListedFacts, ConcatIsListed DEF TimingsOnly
  <2>2. 1 \in 1 .. Len(s) /\ 2 \in 1 .. Len(s) /\ Len(s \o t) >= 2
    BY <1>7, <2>1
  <2>3. (s \o t)[1] = s[1] /\ (s \o t)[2] = s[2]
    BY <2>1, <2>2
  <2> QED
    BY <1>7, <2>2, <2>3
<1>8. Len(Schedule) >= 2 /\ Schedule[1].kind = "walk" /\ Schedule[2].kind = "skip"
  <2>0. Len(a) >= 2
    BY <1>3
  <2>1. Len(c1) >= 2 /\ c1[1].kind = "walk" /\ c1[2].kind = "skip"
    BY <1>2, <1>3, <1>4, <1>7, <2>0
  <2>2. Len(c2) >= 2 /\ c2[1].kind = "walk" /\ c2[2].kind = "skip"
    BY <1>2, <1>4, <1>6, <1>7, <2>1
  <2>3. Len(c3) >= 2 /\ c3[1].kind = "walk" /\ c3[2].kind = "skip"
    BY <1>2, <1>4, <1>6, <1>7, <2>2
  <2>4. Len(c4) >= 2 /\ c4[1].kind = "walk" /\ c4[2].kind = "skip"
    BY <1>2, <1>4, <1>6, <1>7, <2>3
  <2> QED
    BY <1>2, <1>5, <1>6, <1>7, <2>4
<1>9. Len(Schedule) \in Nat /\ DOMAIN Schedule = 1 .. Len(Schedule)
  BY <1>6, ListedFacts DEF TimingsOnly
<1>10. ASSUME NEW s, Listed(s), NEW t, Listed(t), Len(t) = 1
       PROVE  /\ Len(s) + 1 \in 1 .. Len(s \o t) /\ (s \o t)[Len(s) + 1] = t[1]
  <2>1. /\ Len(s) \in Nat
        /\ Len(s \o t) = Len(s) + 1
        /\ \A i \in 1 .. 1 : (s \o t)[Len(s) + i] = t[i]
    <3>1. Len(s) \in Nat
      BY <1>10, ListedFacts
    <3>2. Len(s \o t) = Len(s) + Len(t) /\ \A i \in 1 .. Len(t) : (s \o t)[Len(s) + i] = t[i]
      <4>1. Listed(s) /\ Listed(t)
        BY <1>10
      <4> QED
        BY <4>1, ConcatIsListed
    <3> QED
      BY <1>10, <3>1, <3>2
  <2>2. 1 \in 1 .. 1
    OBVIOUS
  <2> QED
    BY <2>1, <2>2
<1>11. \E i \in DOMAIN Schedule : Schedule[i].kind = "sieve" /\ Schedule[i].of \in 1 .. 2
  <2>1. PICK n \in 1 .. 2 : \E i \in DOMAIN Slate : Slate[i].conjuncts = n
    BY SlatesAssumption
  <2>2. /\ Listed(c4) /\ Listed(s1) /\ Listed(s2) /\ Listed(c3)
    BY <1>2, <1>6 DEF TimingsOnly
  <2>3. CASE n = 2
    <3>1. Len(s2) = 1 /\ s2[1].kind = "sieve" /\ s2[1].of = 2
      BY <1>1, <2>1, <2>3, SievesAreTimings
    <3>2. Len(c4) + 1 \in DOMAIN Schedule /\ Schedule[Len(c4) + 1] = s2[1]
      BY <1>5, <1>9, <1>10, <2>2, <3>1
    <3> QED
      BY <3>1, <3>2
  <2>4. CASE n = 1
    <3>1. Len(s1) = 1 /\ s1[1].kind = "sieve" /\ s1[1].of = 1
      BY <1>1, <2>1, <2>4, SievesAreTimings
    <3>2. PICK j : j = Len(c3) + 1
      OBVIOUS
    <3>3. j \in 1 .. Len(c4) /\ c4[j] = s1[1]
      BY <1>4, <1>10, <2>2, <3>1, <3>2
    <3>4. /\ Len(c4) \in Nat /\ Len(s2) \in Nat /\ Len(Schedule) = Len(c4) + Len(s2)
          /\ Schedule[j] = c4[j]
      BY <1>5, <2>2, <3>3, ListedFacts, ConcatIsListed
    <3>5. j \in DOMAIN Schedule
      BY <1>9, <3>3, <3>4
    <3> QED
      BY <3>1, <3>3, <3>4, <3>5
  <2> QED
    BY <2>3, <2>4
<1> QED
  BY <1>6, <1>8, <1>9, <1>11

-----------------------------------------------------------------------------
(* Measure and Mint: the inductive invariant.                              *)

RowFields == {"os", "arch", "kernel", "dfa_walk", "dfa_skip", "dfa_excursion",
              "skip_excursion", "sieve"}

\* A row of one report: of this machine, and for one regime.
OneRegime(row, regime) ==
  /\ DOMAIN row = RowFields
  /\ row.os = Target[1] /\ row.arch = Target[2]
  /\ DOMAIN row.dfa_skip = Residency
  /\ MeasuredIn(row) = {regime}

\* What has been timed: a sieve ran on some kernel, and what is read straight off the
\* timer took time.
Timed(results) ==
  \A j \in DOMAIN results :
    /\ Schedule[j].kind = "sieve" => ranOn # {}
    /\ Schedule[j].kind \notin {"lead", "Few", "Wide"} => Positive(results[j])

\* A timing in progress.
InProgress ==
  /\ ~IsRow(outcome)
  /\ at \in DOMAIN Schedule /\ Len(times) = at - 1 /\ Timed(times)
  /\ round \in 0 .. Rounds
  /\ Listed(best) /\ Len(best) = Len(Schedule[at].legs) /\ slot \in DOMAIN best
  /\ Schedule[at].kind = "sieve" /\ round > 0 => ranOn # {}

\* Until a force comes in between, what has run ran on the kernel in force; and what a
\* report ends with is keyed to that, and to the regime of the sample.
MeasureInv ==
  /\ stage \in {"idle", "timing", "done"}
  /\ Listed(times)
  /\ stage = "idle" => ~IsRow(outcome) /\ at = 1 /\ times = <<>>
  /\ stage = "timing" => InProgress
  /\ ~torn /\ ranOn # {} => ranOn = {memo}
  /\ ranOn # {} => memo # NoKernel
  /\ IsRow(outcome) =>
       /\ stage = "done"
       /\ ranOn # {}
       /\ outcome.kernel = memo
       /\ OneRegime(outcome, Regime(sample.docs))

\* A row of the nth kernel, taken over some documents.
RowFor(row, docs, n) ==
  /\ OneRegime(row, Regime(docs))
  /\ forces = 0 => row.kernel = Ladder[n]

\* The rows of one kernel, once both reports have been taken.
BothTaken(n) ==
  /\ Len(taken) = 1 => RowFor(taken[1], corpus.cache.docs, n) \/ RowFor(taken[1], corpus.memory.docs, n)
  /\ Len(taken) = 2 => RowFor(taken[1], corpus.cache.docs, n) /\ RowFor(taken[2], corpus.memory.docs, n)

MintInv ==
  /\ phase \in {"check", "force", "cache", "memory", "over"}
  /\ phase = "check" => printed = <<>>
  /\ corpus \in Corpora
  /\ Listed(printed) /\ rung = Len(printed) + 1
  /\ Listed(taken) /\ Len(taken) \in 0 .. 2
  /\ forces \in Nat
  /\ phase \in {"force", "cache", "memory"} => Admissible
  /\ phase \in {"cache", "memory"} =>
       /\ rung \in DOMAIN Ladder
       /\ forces = 0 => memo = Ladder[rung]
  /\ phase = "cache" => sample = corpus.cache /\ taken = <<>>
  /\ phase = "memory" =>
       /\ sample = corpus.memory
       /\ Len(taken) \in 0 .. 1
       /\ Len(taken) = 1 => RowFor(taken[1], corpus.cache.docs, rung)
  /\ phase = "force" /\ printed # <<>> =>
       /\ printed[Len(printed)] = Reduced(taken)
       /\ BothTaken(Len(printed))

-----------------------------------------------------------------------------
(* Measure: rows.                                                          *)

LEMMA ZeroNotPositive == ~Positive(Zero)
BY ZeroOne, Ordered DEF Positive

\* What it takes for a row to answer for a regime.
SieveTimed(row) == \E i \in DOMAIN row.sieve : Positive(row.sieve[i])

LEMMA MeasuredAtMeans ==
  ASSUME NEW row, NEW regime
  PROVE  MeasuredAt(row, regime) <=>
           SieveTimed(row) /\ Positive(row.dfa_walk) /\ Positive(row.dfa_skip[regime])
BY DEF MeasuredAt, IsMeasured, Column, SieveTimed

LEMMA RegimeIsOne == ASSUME NEW docs PROVE Regime(docs) \in Residency
BY DEF Regime, OfWorkingSet, Residency

LEMMA ErrIsNoRow == ASSUME NEW why PROVE ~IsRow(Err(why))
BY DEF IsRow, Err

\* The row of a report that timed all there is to time.
LEMMA RowOfFacts ==
  ASSUME NEW results, Listed(results), Len(results) = Len(Schedule), Timed(results)
  PROVE  /\ IsRow(RowOf(results))
         /\ RowOf(results).kernel = KernelNow
         /\ OneRegime(RowOf(results), Regime(sample.docs))
<1>1. PICK row : row = RowOf(results)
  OBVIOUS
<1>2. /\ DOMAIN row = RowFields
      /\ row.kernel = KernelNow
      /\ row.os = Target[1] /\ row.arch = Target[2]
      /\ row.dfa_walk = results[1]
      /\ row.dfa_skip = Filled(results[2])
  BY <1>1 DEF RowOf, RowFields, RowKernel
<1>3. PICK i \in DOMAIN Schedule : Schedule[i].kind = "sieve" /\ Schedule[i].of \in 1 .. 2
  BY ScheduleFacts
<1>4. DOMAIN results = DOMAIN Schedule /\ DOMAIN results \subseteq Nat
      /\ 1 \in DOMAIN results /\ 2 \in DOMAIN results
  BY ScheduleFacts, ListedFacts
<1>5. Positive(results[1]) /\ Positive(results[2])
  BY <1>4, ScheduleFacts DEF Timed
<1>6. SieveTimed(row)
  <2>1. PICK n \in 1 .. 2 : n = Schedule[i].of
    BY <1>3
  <2>2. PICK timed : timed = {j \in DOMAIN results : Schedule[j].kind = "sieve" /\ Schedule[j].of = n}
    OBVIOUS
  <2>3. timed \subseteq Nat /\ timed # {}
    BY <1>3, <1>4, <2>1, <2>2
  <2>4. Min(timed) \in timed
    <3>1. \E x \in timed : \A y \in timed : x <= y
      BY <2>3, LeastNatural
    <3> QED
      BY <3>1 DEF Min
  <2>5. n \in 1 .. MaxConjuncts
    BY SlatesAssumption
  <2>6. row.sieve[n] = results[Min(timed)] /\ n \in DOMAIN row.sieve
    <3>1. row.sieve = [m \in 1 .. MaxConjuncts |->
            IF {j \in DOMAIN results : Schedule[j].kind = "sieve" /\ Schedule[j].of = m} = {}
              THEN Zero
              ELSE results[Min({j \in DOMAIN results : Schedule[j].kind = "sieve"
                                                         /\ Schedule[j].of = m})]]
      BY <1>1 DEF RowOf
    <3> QED
      BY <2>2, <2>3, <2>5, <3>1
  <2>7. Positive(results[Min(timed)])
    BY <2>2, <2>4 DEF Timed
  <2> QED
    BY <2>6, <2>7 DEF SieveTimed
<1>7. /\ DOMAIN row.dfa_skip = Residency
      /\ \A regime \in Residency :
           row.dfa_skip[regime] = IF regime = Regime(sample.docs) THEN results[2] ELSE Zero
  BY <1>2 DEF Filled
<1>8. ASSUME NEW regime \in Residency
      PROVE  MeasuredAt(row, regime) <=> regime = Regime(sample.docs)
  BY <1>2, <1>5, <1>6, <1>7, ZeroNotPositive, MeasuredAtMeans
<1>9. MeasuredIn(row) = {Regime(sample.docs)}
  BY <1>8, RegimeIsOne DEF MeasuredIn
<1>10. IsRow(row)
  BY <1>2 DEF IsRow, RowFields
<1> QED
  BY <1>1, <1>2, <1>7, <1>9, <1>10 DEF OneRegime

-----------------------------------------------------------------------------
(* A report keeps the invariant, step by step.                             *)

LEMMA RoundsFacts == Rounds \in Nat /\ Rounds >= 1
BY SlatesAssumption DEF Rounds

LEMMA KernelNowFacts == KernelNow # NoKernel /\ (memo # NoKernel => KernelNow = memo)
BY KernelsAssumption DEF KernelNow

\* The legs of a timing that starts.
LEMMA FreshFacts ==
  ASSUME NEW legs, Listed(legs), Len(legs) >= 1, Fresh(legs)
  PROVE  /\ Listed(best') /\ Len(best') = Len(legs) /\ slot' \in DOMAIN best'
         /\ round' = 0
<1>1. Len(legs) \in Nat /\ DOMAIN legs = 1 .. Len(legs)
  BY ListedFacts
<1>2. PICK b : b = best'
  OBVIOUS
<1>3. b = [i \in 1 .. Len(legs) |-> Inf] /\ slot' = 1 /\ round' = 0
  BY <1>1, <1>2 DEF Fresh
<1>4. b = [i \in 1 .. Len(legs) |-> b[i]]
  BY <1>3
<1>5. Listed(b) /\ Len(b) = Len(legs)
  BY <1>1, <1>4, FunctionIsListed
<1>6. 1 \in DOMAIN b
  BY <1>1, <1>3
<1> QED
  BY <1>2, <1>3, <1>5, <1>6

LEMMA ReportKeeps == MeasureInv /\ Report => MeasureInv'
<1> SUFFICES ASSUME MeasureInv, Report PROVE MeasureInv'
  OBVIOUS
<1>1. stage = "idle" /\ ~IsRow(outcome) /\ at = 1 /\ times = <<>> /\ Listed(times)
  BY DEF Report, MeasureInv
<1>2. CASE \E why : Decline(why)
  <2>1. PICK why : Decline(why)
    BY <1>2
  <2>2. stage' = "done" /\ ~IsRow(outcome')
    BY <2>1, ErrIsNoRow DEF Decline
  <2>3. UNCHANGED <<times, torn, ranOn, memo>>
    BY <2>1 DEF Decline, Report
  <2> QED
    BY <2>2, <2>3 DEF MeasureInv
<1>3. CASE /\ stage' = "timing" /\ Fresh(Schedule[1].legs)
           /\ UNCHANGED <<sample, at, times, outcome, spoilt, gaveUp, ranOn, torn, memo>>
  <2>1. 1 \in DOMAIN Schedule /\ IsTiming(Schedule[1]) /\ Schedule[1].kind = "walk"
    BY ScheduleFacts DEF TimingsOnly
  <2>2. /\ Listed(best') /\ Len(best') = Len(Schedule[1].legs) /\ slot' \in DOMAIN best'
        /\ round' = 0
    BY <1>3, <2>1, FreshFacts DEF IsTiming
  <2>3. Len(times) = at - 1 /\ DOMAIN times = {}
    BY <1>1
  <2>4. Timed(times)'
    BY <1>3, <2>3 DEF Timed
  <2>5. round' \in 0 .. Rounds
    BY <2>2, RoundsFacts
  <2>6. InProgress'
    BY <1>1, <1>3, <2>1, <2>2, <2>3, <2>4, <2>5 DEF InProgress
  <2>7. ~IsRow(outcome')
    BY <1>1, <1>3
  <2> QED
    BY <1>1, <1>3, <2>6, <2>7 DEF MeasureInv
<1> QED
  BY <1>2, <1>3 DEF Report

LEMMA TraverseKeeps == MeasureInv /\ Traverse => MeasureInv'
<1> SUFFICES ASSUME MeasureInv, Traverse PROVE MeasureInv'
  OBVIOUS
<1>1. /\ stage = "timing" /\ round < Rounds /\ InProgress /\ Listed(times)
      /\ ~torn /\ ranOn # {} => ranOn = {memo}
      /\ ranOn # {} => memo # NoKernel
  BY DEF Traverse, MeasureInv
<1>2. PICK loop : loop = Schedule[at].legs[slot]
  OBVIOUS
<1>3. PICK value : best' = [best EXCEPT ![slot] = value]
  BY DEF Traverse
<1>4. /\ ranOn' = IF UsesKernel(loop) THEN ranOn \cup {KernelNow} ELSE ranOn
      /\ memo' = IF UsesKernel(loop) THEN KernelNow ELSE memo
      /\ IF slot < Len(best) THEN slot' = slot + 1 /\ round' = round
                             ELSE slot' = 1 /\ round' = round + 1
      /\ UNCHANGED <<sample, stage, at, times, outcome, torn>>
  BY <1>2 DEF Traverse
<1>5. /\ ~IsRow(outcome)
      /\ at \in DOMAIN Schedule /\ Len(times) = at - 1 /\ Timed(times)
      /\ round \in 0 .. Rounds
      /\ Listed(best) /\ Len(best) = Len(Schedule[at].legs) /\ slot \in DOMAIN best
      /\ Schedule[at].kind = "sieve" /\ round > 0 => ranOn # {}
  BY <1>1 DEF InProgress
<1>6. Len(best) \in Nat /\ DOMAIN best = 1 .. Len(best)
  BY <1>5, ListedFacts
<1>7. /\ Listed(best') /\ Len(best') = Len(best) /\ DOMAIN best' = 1 .. Len(best)
  <2>1. Listed(best') /\ Len(best') = Len(best)
    BY <1>3, <1>5, ExceptIsListed
  <2>2. DOMAIN best' = DOMAIN best
    BY <1>3
  <2> QED
    BY <1>6, <2>1, <2>2
<1>8. slot' \in 1 .. Len(best) /\ round' \in 0 .. Rounds
  BY <1>1, <1>4, <1>5, <1>6, RoundsFacts
<1>9. ranOn # {} => ranOn' # {}
  BY <1>4
<1>10. Timed(times)'
  BY <1>4, <1>5, <1>9 DEF Timed
<1>11. Schedule[at].kind = "sieve" => ranOn' # {}
  <2> SUFFICES ASSUME Schedule[at].kind = "sieve" PROVE ranOn' # {}
    OBVIOUS
  <2>1. Len(Schedule[at].legs) = 1 /\ UsesKernel(Schedule[at].legs[1])
    BY <1>5, ScheduleFacts DEF TimingsOnly, IsTiming
  <2>2. slot = 1
    BY <1>5, <1>6, <2>1
  <2> QED
    BY <1>2, <1>4, <2>1, <2>2
<1>12. InProgress'
  BY <1>4, <1>5, <1>7, <1>8, <1>10, <1>11 DEF InProgress
<1>13. /\ ~torn' /\ ranOn' # {} => ranOn' = {memo'}
       /\ ranOn' # {} => memo' # NoKernel
  BY <1>1, <1>4, KernelNowFacts
<1> QED
  BY <1>1, <1>4, <1>5, <1>12, <1>13 DEF MeasureInv

LEMMA ConcludeKeeps == MeasureInv /\ Conclude => MeasureInv'
<1> SUFFICES ASSUME MeasureInv, Conclude PROVE MeasureInv'
  OBVIOUS
<1>1. /\ stage = "timing" /\ round = Rounds /\ InProgress /\ Listed(times)
      /\ ~torn /\ ranOn # {} => ranOn = {memo}
      /\ ranOn # {} => memo # NoKernel
  BY DEF Conclude, MeasureInv
<1>2. /\ ~IsRow(outcome)
      /\ at \in DOMAIN Schedule /\ Len(times) = at - 1 /\ Timed(times)
      /\ Listed(best) /\ Len(best) = Len(Schedule[at].legs) /\ slot \in DOMAIN best
      /\ Schedule[at].kind = "sieve" => ranOn # {}
  BY <1>1, RoundsFacts DEF InProgress
<1>3. PICK results : results = Append(times, Result)
  OBVIOUS
<1>4. /\ times' = results /\ Advance(results)
      /\ UNCHANGED <<sample, ranOn, torn>>
      /\ Solves \/ ~NoElapsedTime
  BY <1>3 DEF Conclude
<1>5. /\ Listed(results) /\ Len(results) = at /\ DOMAIN results = 1 .. at
      /\ at \in 1 .. Len(Schedule) /\ Len(Schedule) \in Nat
      /\ results[at] = Result
      /\ \A j \in 1 .. at - 1 : results[j] = times[j]
      /\ DOMAIN times = 1 .. at - 1
  <2>1. at \in 1 .. Len(Schedule) /\ Len(Schedule) \in Nat
    BY <1>2, ScheduleFacts
  <2>2. /\ Listed(results) /\ Len(results) = Len(times) + 1
        /\ results[Len(times) + 1] = Result
        /\ \A j \in 1 .. Len(times) : results[j] = times[j]
    BY <1>1, <1>3, AppendIsListed
  <2>3. DOMAIN results = 1 .. Len(results) /\ DOMAIN times = 1 .. Len(times)
    BY <1>1, <2>2, ListedFacts
  <2>4. Len(times) + 1 = at
    BY <1>2, <2>1
  <2> QED
    BY <1>2, <2>1, <2>2, <2>3, <2>4
<1>6. Timed(results)
  <2>1. ASSUME NEW j \in DOMAIN results
        PROVE  /\ Schedule[j].kind = "sieve" => ranOn # {}
               /\ Schedule[j].kind \notin {"lead", "Few", "Wide"} => Positive(results[j])
    <3>1. CASE j = at
      <4>1. Schedule[at].kind \notin {"lead", "Few", "Wide"} => Positive(Result)
        <5> SUFFICES ASSUME Schedule[at].kind \notin {"lead", "Few", "Wide"}
                     PROVE  Positive(Result)
          OBVIOUS
        <5>1. ~Solves
          BY DEF Solves
        <5>2. Result = best[1] /\ ~NoElapsedTime
          BY <1>4, <5>1 DEF Result
        <5>3. 1 \in DOMAIN best
          BY <1>2, ListedFacts
        <5> QED
          BY <5>2, <5>3 DEF NoElapsedTime
      <4> QED
        BY <1>2, <1>5, <3>1, <4>1
    <3>2. CASE j # at
      <4>1. j \in DOMAIN times /\ results[j] = times[j]
        BY <1>5, <3>2
      <4> QED
        BY <1>2, <4>1 DEF Timed
    <3> QED
      BY <3>1, <3>2
  <2> QED
    BY <2>1 DEF Timed
<1>7. CASE Len(results) < Len(Schedule)
  <2>1. /\ at' = at + 1 /\ Fresh(Schedule[at + 1].legs)
        /\ UNCHANGED <<stage, outcome, memo>>
    BY <1>4, <1>7 DEF Advance
  <2>2. at + 1 \in DOMAIN Schedule
    BY <1>5, <1>7, ScheduleFacts
  <2>3. IsTiming(Schedule[at + 1])
    BY <2>2, ScheduleFacts DEF TimingsOnly
  <2>4. /\ Listed(best') /\ Len(best') = Len(Schedule[at + 1].legs) /\ slot' \in DOMAIN best'
        /\ round' = 0
    BY <2>1, <2>3, FreshFacts DEF IsTiming
  <2>5. Timed(times)'
    BY <1>4, <1>6 DEF Timed
  <2>6. round' \in 0 .. Rounds /\ ~(round' > 0)
    BY <2>4, RoundsFacts
  <2>7. at' \in DOMAIN Schedule /\ Len(times') = at' - 1
    BY <1>4, <1>5, <2>1, <2>2
  <2>8. InProgress'
    BY <1>2, <2>1, <2>4, <2>5, <2>6, <2>7 DEF InProgress
  <2> QED
    BY <1>1, <1>2, <1>4, <1>5, <2>1, <2>8 DEF MeasureInv
<1>8. CASE ~(Len(results) < Len(Schedule))
  <2>1. stage' = "done" /\ outcome' = RowOf(results) /\ memo' = KernelNow
    BY <1>4, <1>8 DEF Advance
  <2>2. Len(results) = Len(Schedule)
    BY <1>5, <1>8
  <2>3. /\ IsRow(outcome') /\ outcome'.kernel = memo'
        /\ OneRegime(outcome', Regime(sample.docs))
    BY <1>5, <1>6, <2>1, <2>2, RowOfFacts
  <2>4. ranOn # {}
    BY <1>5, <1>6, <2>2, ScheduleFacts DEF Timed
  <2>5. memo' = memo /\ memo # NoKernel
    BY <1>1, <2>1, <2>4, KernelNowFacts
  <2>6. OneRegime(outcome', Regime(sample'.docs))
    BY <1>4, <2>3
  <2> QED
    BY <1>1, <1>4, <1>5, <2>1, <2>3, <2>4, <2>5, <2>6 DEF MeasureInv
<1> QED
  BY <1>7, <1>8

LEMMA GiveUpKeeps == MeasureInv /\ GiveUp => MeasureInv'
<1> SUFFICES ASSUME MeasureInv, GiveUp PROVE MeasureInv'
  OBVIOUS
<1>1. stage' = "done" /\ ~IsRow(outcome') /\ UNCHANGED <<times, torn, ranOn, memo>>
  BY ErrIsNoRow DEF GiveUp
<1> QED
  BY <1>1 DEF MeasureInv

LEMMA ForceElsewhereKeeps == MeasureInv /\ ForceElsewhere => MeasureInv'
<1> SUFFICES ASSUME MeasureInv, ForceElsewhere PROVE MeasureInv'
  OBVIOUS
<1>1. /\ stage = "timing" /\ memo' # NoKernel
      /\ torn' = (torn \/ ranOn # {})
      /\ UNCHANGED <<sample, stage, at, times, outcome, best, round, slot, ranOn>>
  BY KernelsAssumption DEF ForceElsewhere
<1>2. InProgress /\ ~IsRow(outcome)
  BY <1>1 DEF MeasureInv, InProgress
<1>3. InProgress'
  BY <1>1, <1>2 DEF InProgress, Timed
<1> QED
  BY <1>1, <1>2, <1>3 DEF MeasureInv

LEMMA MeasuringKeeps == MeasureInv /\ Measuring => MeasureInv'
BY ReportKeeps, TraverseKeeps, ConcludeKeeps, GiveUpKeeps, ForceElsewhereKeeps DEF Measuring

\* Nothing has been timed yet.
LEMMA AgainStarts ==
  ASSUME NEW docs, Again(docs)
  PROVE  MeasureInv'
<1>1. /\ stage' = "idle" /\ at' = 1 /\ times' = <<>> /\ ~IsRow(outcome')
      /\ ranOn' = {} /\ torn' = FALSE
  BY ErrIsNoRow DEF Again
<1>2. Listed(times')
  <2>1. <<>> \in Seq({})
    BY EmptySeq
  <2> QED
    BY <1>1, <2>1, SeqIsListed
<1> QED
  BY <1>1, <1>2 DEF MeasureInv


-----------------------------------------------------------------------------
(* Keyed to what ran.                                                      *)

LEMMA UnchangedKeeps == MeasureInv /\ UNCHANGED <<bench, memo>> => MeasureInv'
<1> SUFFICES ASSUME MeasureInv, UNCHANGED <<bench, memo>> PROVE MeasureInv'
  OBVIOUS
<1>1. UNCHANGED <<sample, stage, at, round, slot, best, times, outcome, ranOn, torn, memo>>
  BY DEF bench
<1> QED
  BY <1>1 DEF MeasureInv, InProgress, Timed

\* Across the reports of every kernel: what a report has run it ran on the kernel in
\* force, until a force came in between (measure.rs, with examples/mint.rs over it).
THEOREM MeasureInvHolds == Spec => []MeasureInv
<1>1. Init => MeasureInv
  <2> SUFFICES ASSUME Init PROVE MeasureInv
    OBVIOUS
  <2>1. /\ stage = "idle" /\ at = 1 /\ times = <<>> /\ ~IsRow(outcome)
        /\ ranOn = {} /\ torn = FALSE
    BY ErrIsNoRow DEF Init, Idle
  <2>2. Listed(times)
    <3>1. <<>> \in Seq({})
      BY EmptySeq
    <3> QED
      BY <2>1, <3>1, SeqIsListed
  <2> QED
    BY <2>1, <2>2 DEF MeasureInv
<1>2. MeasureInv /\ [Next]_vars => MeasureInv'
  <2> SUFFICES ASSUME MeasureInv, [Next]_vars PROVE MeasureInv'
    OBVIOUS
  <2>1. CASE Check
    <3>1. UNCHANGED <<bench, memo>>
      BY <2>1 DEF Check, measureVars
    <3> QED
      BY <3>1, UnchangedKeeps
  <2>2. CASE ForceRung
    <3>1. CASE rung > Len(Ladder)
      <4>1. UNCHANGED <<bench, memo>>
        <5>1. UNCHANGED <<measureVars, taken>>
          BY <2>2, <3>1 DEF ForceRung
        <5> QED
          BY <5>1 DEF measureVars
      <4> QED
        BY <4>1, UnchangedKeeps
    <3>2. CASE ~(rung > Len(Ladder))
      <4>1. Again(corpus.cache)
        BY <2>2, <3>2 DEF ForceRung
      <4> QED
        BY <4>1, AgainStarts
    <3> QED
      BY <3>1, <3>2
  <2>3. CASE Take
    BY <2>3, MeasuringKeeps DEF Take
  <2>4. CASE CacheTaken
    <3>1. Again(corpus.memory)
      BY <2>4 DEF CacheTaken
    <3> QED
      BY <3>1, AgainStarts
  <2>5. CASE PrintRow
    <3>1. UNCHANGED <<bench, memo>>
      BY <2>5 DEF PrintRow, measureVars
    <3> QED
      BY <3>1, UnchangedKeeps
  <2>6. CASE UNCHANGED vars
    <3>1. UNCHANGED <<bench, memo>>
      BY <2>6 DEF vars, measureVars
    <3> QED
      BY <3>1, UnchangedKeeps
  <2> QED
    BY <2>1, <2>2, <2>3, <2>4, <2>5, <2>6 DEF Next
<1> QED
  BY <1>1, <1>2, PTL DEF Spec

\* A row names the kernel its sieve and its skips ran on, unless one was forced between
\* them, and the one regime of its sample (`report`, `row`, `regime`).
THEOREM KeyedToWhatRanHolds == Spec => []KeyedToWhatRan
<1>1. MeasureInv => KeyedToWhatRan
  <2> SUFFICES ASSUME MeasureInv, IsRow(outcome)
               PROVE  /\ ~torn => ranOn = {outcome.kernel}
                      /\ RegimeOf(outcome) = {Regime(sample.docs)}
    BY DEF KeyedToWhatRan
  <2>1. /\ ~torn => ranOn = {memo}
        /\ outcome.kernel = memo
        /\ MeasuredIn(outcome) = {Regime(sample.docs)}
    BY DEF MeasureInv, OneRegime
  <2>2. Cardinality({Regime(sample.docs)}) = 1
    BY FS_Singleton
  <2>3. RegimeOf(outcome) = {Regime(sample.docs)}
    BY <2>1, <2>2 DEF RegimeOf
  <2> QED
    BY <2>1, <2>3
<1> QED
  BY <1>1, MeasureInvHolds, PTL


-----------------------------------------------------------------------------
(* The two reports of a kernel.                                            *)

LEMMA EmptyIsListed == Listed(<<>>) /\ Len(<<>>) = 0
<1>1. <<>> \in Seq({})
  BY EmptySeq
<1> QED
  BY <1>1, SeqIsListed

\* A step of a report leaves its sample alone, and moves the kernel in force only by
\* looking it up or by a force of another thread.
LEMMA MeasuringMoves ==
  ASSUME forces \in Nat, Measuring
  PROVE  /\ sample' = sample /\ forces' \in Nat
         /\ forces' = 0 => forces = 0 /\ memo' \in {memo, KernelNow}
<1>1. CASE Report
  BY <1>1 DEF Report, Decline
<1>2. CASE Traverse
  <2>1. sample' = sample /\ forces' = forces
    BY <1>2 DEF Traverse
  <2>2. memo' \in {memo, KernelNow}
    BY <1>2 DEF Traverse
  <2> QED
    BY <2>1, <2>2
<1>3. CASE Conclude
  <2>1. sample' = sample /\ forces' = forces
    BY <1>3 DEF Conclude
  <2>2. memo' \in {memo, KernelNow}
    BY <1>3 DEF Conclude, Advance
  <2> QED
    BY <2>1, <2>2
<1>4. CASE GiveUp
  BY <1>4 DEF GiveUp
<1>5. CASE ForceElsewhere
  BY <1>5 DEF ForceElsewhere
<1> QED
  BY <1>1, <1>2, <1>3, <1>4, <1>5 DEF Measuring

\* What a finished report adds to the rows of its kernel.
LEMMA CollectedFacts ==
  ASSUME MeasureInv, Listed(taken), NEW n, forces = 0 => memo = Ladder[n]
  PROVE  \/ Collected = taken
         \/ /\ Listed(Collected) /\ Len(Collected) = Len(taken) + 1
            /\ \A i \in 1 .. Len(taken) : Collected[i] = taken[i]
            /\ RowFor(Collected[Len(taken) + 1], sample.docs, n)
<1>1. CASE ~IsRow(outcome)
  BY <1>1 DEF Collected
<1>2. CASE IsRow(outcome)
  <2>1. Collected = Append(taken, outcome)
    BY <1>2 DEF Collected
  <2>2. RowFor(outcome, sample.docs, n)
    BY <1>2 DEF MeasureInv, RowFor
  <2>3. /\ Listed(Collected) /\ Len(Collected) = Len(taken) + 1
        /\ \A i \in 1 .. Len(taken) : Collected[i] = taken[i]
        /\ Collected[Len(taken) + 1] = outcome
    BY <2>1, AppendIsListed
  <2> QED
    BY <2>2, <2>3
<1> QED
  BY <1>1, <1>2

LEMMA CheckKeeps == MintInv /\ Check => MintInv'
<1> SUFFICES ASSUME MintInv, Check PROVE MintInv'
  OBVIOUS
<1>1. /\ phase = "check" /\ printed = <<>>
      /\ phase' \in {"force", "over"} /\ (phase' = "force" => Admissible)
      /\ UNCHANGED <<corpus, rung, taken, printed, forces>>
  BY DEF Check, MintInv, measureVars
<1>2. Admissible' = Admissible
  BY <1>1 DEF Admissible
<1> QED
  BY <1>1, <1>2 DEF MintInv

LEMMA ForceRungKeeps == MintInv /\ ForceRung => MintInv'
<1> SUFFICES ASSUME MintInv, ForceRung PROVE MintInv'
  OBVIOUS
<1>1. /\ phase = "force" /\ Admissible /\ UNCHANGED <<corpus, rung, printed, forces>>
      /\ corpus \in Corpora /\ Listed(printed) /\ rung = Len(printed) + 1 /\ forces \in Nat
      /\ Listed(taken) /\ Len(taken) \in 0 .. 2
  BY DEF ForceRung, MintInv, measureVars
<1>2. Admissible' = Admissible
  BY <1>1 DEF Admissible
<1>3. CASE rung > Len(Ladder)
  <2>1. phase' = "over" /\ taken' = taken
    BY <1>3 DEF ForceRung
  <2> QED
    BY <1>1, <2>1 DEF MintInv
<1>4. CASE ~(rung > Len(Ladder))
  <2>1. /\ memo' = Ladder[rung] /\ phase' = "cache" /\ taken' = <<>>
        /\ sample' = corpus.cache
    BY <1>4 DEF ForceRung, Again
  <2>2. rung \in DOMAIN Ladder
    <3>1. Len(Ladder) \in Nat /\ DOMAIN Ladder = 1 .. Len(Ladder)
      BY KernelsAssumption, ListedFacts
    <3>2. Len(printed) \in Nat
      BY <1>1, ListedFacts
    <3> QED
      BY <1>1, <1>4, <3>1, <3>2
  <2>3. Listed(taken') /\ Len(taken') = 0
    BY <2>1, EmptyIsListed
  <2> QED
    BY <1>1, <1>2, <2>1, <2>2, <2>3 DEF MintInv
<1> QED
  BY <1>3, <1>4

LEMMA TakeKeeps == MintInv /\ Take => MintInv'
<1> SUFFICES ASSUME MintInv, Take PROVE MintInv'
  OBVIOUS
<1>1. /\ phase \in {"cache", "memory"} /\ Measuring
      /\ UNCHANGED <<corpus, phase, rung, taken, printed>>
  BY DEF Take, mintVars
<1>2. /\ forces \in Nat /\ Admissible /\ rung \in DOMAIN Ladder
      /\ forces = 0 => memo = Ladder[rung]
  BY <1>1 DEF MintInv
<1>3. /\ sample' = sample /\ forces' \in Nat
      /\ forces' = 0 => forces = 0 /\ memo' \in {memo, KernelNow}
  BY <1>1, <1>2, MeasuringMoves
<1>4. forces' = 0 => memo' = Ladder[rung]
  BY <1>2, <1>3, KernelNowFacts, KernelsAssumption
<1>5. Admissible'
  BY <1>1, <1>2 DEF Admissible
<1>6. phase = "memory" /\ Len(taken) = 1 => RowFor(taken[1], corpus.cache.docs, rung)'
  BY <1>1, <1>3 DEF MintInv, RowFor
<1> QED
  BY <1>1, <1>2, <1>3, <1>4, <1>5, <1>6 DEF MintInv

LEMMA CacheTakenKeeps == MeasureInv /\ MintInv /\ CacheTaken => MintInv'
<1> SUFFICES ASSUME MeasureInv, MintInv, CacheTaken PROVE MintInv'
  OBVIOUS
<1>1. /\ phase = "cache" /\ phase' = "memory" /\ taken' = Collected
      /\ sample' = corpus.memory
      /\ UNCHANGED <<memo, forces, corpus, rung, printed>>
  BY DEF CacheTaken, Again
<1>2. /\ forces \in Nat /\ Admissible /\ rung \in DOMAIN Ladder
      /\ forces = 0 => memo = Ladder[rung]
      /\ sample = corpus.cache /\ taken = <<>>
      /\ Listed(taken) /\ Len(taken) = 0
  BY <1>1, EmptyIsListed DEF MintInv
<1>3. /\ Listed(taken') /\ Len(taken') \in 0 .. 1
      /\ Len(taken') = 1 => RowFor(taken'[1], corpus.cache.docs, rung)
  <2>1. \/ Collected = taken
        \/ /\ Listed(Collected) /\ Len(Collected) = Len(taken) + 1
           /\ RowFor(Collected[Len(taken) + 1], sample.docs, rung)
    BY <1>2, CollectedFacts
  <2> QED
    BY <1>1, <1>2, <2>1
<1>4. Admissible'
  BY <1>1, <1>2 DEF Admissible
<1>5. Len(taken') = 1 => RowFor(taken[1], corpus.cache.docs, rung)'
  BY <1>1, <1>3 DEF RowFor
<1> QED
  BY <1>1, <1>2, <1>3, <1>4, <1>5 DEF MintInv

LEMMA PrintRowKeeps == MeasureInv /\ MintInv /\ PrintRow => MintInv'
<1> SUFFICES ASSUME MeasureInv, MintInv, PrintRow PROVE MintInv'
  OBVIOUS
<1>1. /\ phase = "memory" /\ phase' = "force" /\ taken' = Collected
      /\ printed' = Append(printed, Reduced(Collected)) /\ rung' = rung + 1
      /\ UNCHANGED <<corpus, forces>>
  BY DEF PrintRow, measureVars
<1>2. /\ forces \in Nat /\ Admissible
      /\ forces = 0 => memo = Ladder[rung]
      /\ sample = corpus.memory /\ corpus \in Corpora
      /\ Listed(taken) /\ Len(taken) \in 0 .. 1
      /\ Len(taken) = 1 => RowFor(taken[1], corpus.cache.docs, rung)
      /\ Listed(printed) /\ rung = Len(printed) + 1
  BY <1>1 DEF MintInv
<1>3. Listed(printed') /\ Len(printed') = rung /\ printed'[rung] = Reduced(taken')
  <2>1. /\ Listed(Append(printed, Reduced(Collected)))
        /\ Len(Append(printed, Reduced(Collected))) = Len(printed) + 1
        /\ Append(printed, Reduced(Collected))[Len(printed) + 1] = Reduced(Collected)
    BY <1>2, AppendIsListed
  <2> QED
    BY <1>1, <1>2, <2>1
<1>4. /\ Listed(taken') /\ Len(taken') \in 0 .. 2
      /\ Len(taken') = 1 => \/ RowFor(taken'[1], corpus.cache.docs, rung)
                            \/ RowFor(taken'[1], corpus.memory.docs, rung)
      /\ Len(taken') = 2 => /\ RowFor(taken'[1], corpus.cache.docs, rung)
                            /\ RowFor(taken'[2], corpus.memory.docs, rung)
  <2>1. \/ Collected = taken
        \/ /\ Listed(Collected) /\ Len(Collected) = Len(taken) + 1
           /\ \A i \in 1 .. Len(taken) : Collected[i] = taken[i]
           /\ RowFor(Collected[Len(taken) + 1], sample.docs, rung)
    BY <1>2, CollectedFacts
  <2>2. CASE Collected = taken
    BY <1>1, <1>2, <2>2
  <2>3. CASE /\ Listed(Collected) /\ Len(Collected) = Len(taken) + 1
             /\ \A i \in 1 .. Len(taken) : Collected[i] = taken[i]
             /\ RowFor(Collected[Len(taken) + 1], sample.docs, rung)
    <3>1. CASE Len(taken) = 0
      BY <1>1, <1>2, <2>3, <3>1
    <3>2. CASE Len(taken) = 1
      <4>1. Len(Collected) = 2 /\ Collected[1] = taken[1]
        BY <2>3, <3>2
      <4> QED
        BY <1>1, <1>2, <2>3, <3>2, <4>1
    <3> QED
      BY <1>2, <3>1, <3>2
  <2> QED
    BY <2>1, <2>2, <2>3
<1>5. BothTaken(Len(printed))'
  BY <1>1, <1>3, <1>4 DEF BothTaken, RowFor
<1>6. Admissible'
  BY <1>1, <1>2 DEF Admissible
<1>7. printed'[Len(printed')] = Reduced(taken)'
  <2>1. Reduced(taken)' = Reduced(taken')
    OBVIOUS
  <2> QED
    BY <1>3, <2>1
<1> QED
  BY <1>1, <1>2, <1>3, <1>4, <1>5, <1>6, <1>7 DEF MintInv


\* Through the run of the mint: the rows taken are of the kernel in force, one for each
\* sample, and what was printed last is what those came to (examples/mint.rs).
THEOREM MintInvHolds == Spec => []MintInv
<1>1. Init => MintInv
  <2> SUFFICES ASSUME Init PROVE MintInv
    OBVIOUS
  <2>1. /\ corpus \in Corpora /\ forces = 0
        /\ phase = "check" /\ rung = 1 /\ taken = <<>> /\ printed = <<>>
    BY DEF Init
  <2>2. /\ Listed(taken) /\ Len(taken) = 0 /\ Listed(printed) /\ Len(printed) = 0
    BY <2>1, EmptyIsListed
  <2> QED
    BY <2>1, <2>2 DEF MintInv
<1>2. MeasureInv /\ MintInv /\ [Next]_vars => MintInv'
  <2> SUFFICES ASSUME MeasureInv, MintInv, [Next]_vars PROVE MintInv'
    OBVIOUS
  <2>1. CASE UNCHANGED vars
    <3>1. UNCHANGED <<sample, memo, forces, corpus, phase, rung, taken, printed>>
      BY <2>1 DEF vars, measureVars, bench, mintVars
    <3> QED
      BY <3>1 DEF MintInv, Admissible, RowFor, BothTaken
  <2> QED
    BY <2>1, CheckKeeps, ForceRungKeeps, TakeKeeps, CacheTakenKeeps, PrintRowKeeps DEF Next
<1> QED
  BY <1>1, <1>2, MeasureInvHolds, PTL DEF Spec

-----------------------------------------------------------------------------
(* One row of the two.                                                     *)

\* A corpus over the floor is past what is resident.
LEMMA MemoryIsMemory ==
  ASSUME corpus \in Corpora, Admissible
  PROVE  Regime(corpus.memory.docs) = "Memory"
<1>1. /\ Bytes(corpus.memory.docs) \in Nat /\ Bytes(corpus.memory.docs) > MemoryFloor
      /\ ResidentAbove \in Nat /\ MemoryFloor \in Nat /\ MemoryFloor >= ResidentAbove
  BY FloorAssumption DEF Admissible
<1>2. Bytes(corpus.memory.docs) > ResidentAbove
  BY <1>1
<1> QED
  BY <1>2 DEF Regime, OfWorkingSet

\* The columns of a row that answers for one regime.
LEMMA OneRegimeFacts ==
  ASSUME NEW row, NEW regime \in Residency, OneRegime(row, regime)
  PROVE  /\ SieveTimed(row) /\ Positive(row.dfa_walk)
         /\ \A of \in Residency : MeasuredAt(row, of) <=> of = regime
         /\ \A of \in Residency : Positive(row.dfa_skip[of]) <=> of = regime
<1>1. \A of \in Residency : MeasuredAt(row, of) <=> of = regime
  BY DEF OneRegime, MeasuredIn
<1>2. SieveTimed(row) /\ Positive(row.dfa_walk)
  BY <1>1, MeasuredAtMeans
<1> QED
  BY <1>1, <1>2, MeasuredAtMeans

\* A row that answers for less than both regimes says nothing of which costs more.
LEMMA NoPairNoInversion ==
  ASSUME NEW row, MeasuredIn(row) # Residency
  PROVE  ~Inverted(row)
BY DEF Inverted

LEMMA JoinedFacts ==
  ASSUME NEW a, NEW b, NEW r \in Residency, NEW m \in Residency,
         OneRegime(a, r), OneRegime(b, m)
  PROVE  /\ IsRow(Joined(a, b))
         /\ Joined(a, b).kernel = a.kernel
         /\ MeasuredIn(Joined(a, b)) = {r, m}
         /\ \A of \in Residency :
              Joined(a, b).dfa_skip[of] = IF of = r THEN a.dfa_skip[of] ELSE b.dfa_skip[of]
<1>1. /\ SieveTimed(a) /\ Positive(a.dfa_walk)
      /\ \A of \in Residency : MeasuredAt(a, of) <=> of = r
      /\ \A of \in Residency : Positive(a.dfa_skip[of]) <=> of = r
  BY OneRegimeFacts
<1>2. \A of \in Residency : Positive(b.dfa_skip[of]) <=> of = m
  BY OneRegimeFacts
<1>3. PICK row : row = Joined(a, b)
  OBVIOUS
<1>4. DOMAIN a = RowFields
  BY DEF OneRegime
<1>5. /\ DOMAIN row = RowFields
      /\ row.kernel = a.kernel
      /\ row.dfa_skip = [of \in Residency |-> (IF MeasuredAt(a, of) THEN a ELSE b).dfa_skip[of]]
      /\ row.dfa_walk = IF Positive(a.dfa_walk) THEN a.dfa_walk ELSE b.dfa_walk
      /\ row.sieve = IF \E n \in DOMAIN a.sieve : Positive(a.sieve[n]) THEN a.sieve ELSE b.sieve
  BY <1>3, <1>4 DEF Joined, RowFields
<1>6. row.sieve = a.sieve /\ row.dfa_walk = a.dfa_walk
  BY <1>1, <1>5 DEF SieveTimed
<1>7. SieveTimed(row) /\ Positive(row.dfa_walk)
  BY <1>1, <1>6 DEF SieveTimed
<1>8. \A of \in Residency :
        row.dfa_skip[of] = IF of = r THEN a.dfa_skip[of] ELSE b.dfa_skip[of]
  BY <1>1, <1>5
<1>9. \A of \in Residency : MeasuredAt(row, of) <=> of \in {r, m}
  BY <1>1, <1>2, <1>7, <1>8, MeasuredAtMeans
<1>10. MeasuredIn(row) = {r, m}
  BY <1>9 DEF MeasuredIn
<1>11. IsRow(row)
  BY <1>5 DEF IsRow, RowFields
<1> QED
  BY <1>3, <1>5, <1>8, <1>10, <1>11

LEMMA WithheldFacts ==
  ASSUME NEW row, OneRegime(row, "Memory")
  PROVE  Withheld(row).kernel = row.kernel /\ MeasuredIn(Withheld(row)) = {"Memory"}
<1>1. /\ DOMAIN row = RowFields /\ DOMAIN row.dfa_skip = Residency
      /\ "Memory" \in Residency /\ "Cache" \in Residency
  BY DEF OneRegime, Residency
<1>2. /\ SieveTimed(row) /\ Positive(row.dfa_walk)
      /\ \A of \in Residency : Positive(row.dfa_skip[of]) <=> of = "Memory"
  BY <1>1, OneRegimeFacts
<1>3. PICK held : held = Withheld(row)
  OBVIOUS
<1>4. /\ held.kernel = row.kernel /\ held.sieve = row.sieve /\ held.dfa_walk = row.dfa_walk
      /\ held.dfa_skip = [row.dfa_skip EXCEPT !["Cache"] = Zero]
  BY <1>1, <1>3 DEF Withheld, RowFields
<1>5. SieveTimed(held) /\ Positive(held.dfa_walk)
  BY <1>2, <1>4 DEF SieveTimed
<1>6. held.dfa_skip["Cache"] = Zero /\ held.dfa_skip["Memory"] = row.dfa_skip["Memory"]
  BY <1>1, <1>4
<1>7. MeasuredAt(held, "Memory") /\ ~MeasuredAt(held, "Cache")
  BY <1>1, <1>2, <1>5, <1>6, ZeroNotPositive, MeasuredAtMeans
<1>8. MeasuredIn(held) = {"Memory"}
  BY <1>7 DEF MeasuredIn, Residency
<1> QED
  BY <1>3, <1>4, <1>8

\* What is printed of a pair of reports.
LEMMA PairPrints ==
  ASSUME NEW a, NEW b, NEW r \in Residency, OneRegime(a, r), OneRegime(b, "Memory"),
         NEW row, row = IF IsRow(Merge(a, b)) THEN Merge(a, b) ELSE Withheld(b)
  PROVE  /\ row.kernel \in {a.kernel, b.kernel}
         /\ ~Inverted(row)
         /\ "Memory" \in MeasuredIn(row) /\ MeasuredIn(row) \subseteq {r, "Memory"}
         /\ {r, "Memory"} \ MeasuredIn(row) # {} =>
              Less(b.dfa_skip["Memory"], a.dfa_skip["Cache"]) \/ a.kernel # b.kernel
<1>1. "Memory" \in Residency /\ "Cache" \in Residency /\ Residency = {"Cache", "Memory"}
  BY DEF Residency
<1>2. PICK joined : joined = Joined(a, b)
  OBVIOUS
<1>3. /\ IsRow(joined) /\ joined.kernel = a.kernel /\ MeasuredIn(joined) = {r, "Memory"}
      /\ \A of \in Residency :
           joined.dfa_skip[of] = IF of = r THEN a.dfa_skip[of] ELSE b.dfa_skip[of]
  BY <1>1, <1>2, JoinedFacts
<1>4. CASE IsRow(Merge(a, b))
  <2>1. row = joined /\ ~Inverted(joined)
    BY <1>2, <1>4, ErrIsNoRow DEF Merge
  <2> QED
    BY <1>3, <2>1
<1>5. CASE ~IsRow(Merge(a, b))
  <2>1. row = Withheld(b)
    BY <1>5
  <2>2. row.kernel = b.kernel /\ MeasuredIn(row) = {"Memory"}
    BY <2>1, WithheldFacts
  <2>3. ~Inverted(row)
    BY <1>1, <2>2, NoPairNoInversion
  <2>4. Triple(a) # Triple(b) \/ Inverted(joined)
    BY <1>2, <1>3, <1>5 DEF Merge
  <2>5. ASSUME {r, "Memory"} \ MeasuredIn(row) # {}
        PROVE  Less(b.dfa_skip["Memory"], a.dfa_skip["Cache"]) \/ a.kernel # b.kernel
    <3>1. r = "Cache"
      BY <1>1, <2>2, <2>5
    <3>2. CASE Triple(a) # Triple(b)
      BY <3>2 DEF Triple, OneRegime
    <3>3. CASE Inverted(joined)
      <4>1. Less(joined.dfa_skip["Memory"], joined.dfa_skip["Cache"])
        BY <3>3 DEF Inverted
      <4> QED
        BY <1>1, <1>3, <3>1, <4>1
    <3> QED
      BY <2>4, <3>2, <3>3
  <2> QED
    BY <2>2, <2>3, <2>5
<1> QED
  BY <1>4, <1>5

LEMMA MintInvPrints == MintInv => PrintsEveryColumn
<1> SUFFICES ASSUME MintInv, JustPrinted PROVE PrintsEveryColumn
  BY DEF PrintsEveryColumn
<1>1. PICK n : n = Len(printed)
  OBVIOUS
<1>2. PICK row : row = printed[n]
  OBVIOUS
<1>3. PICK earned : earned = UNION {MeasuredIn(taken[i]) : i \in DOMAIN taken}
  OBVIOUS
<1>4. /\ row = Reduced(taken) /\ IsRow(row) /\ BothTaken(n)
      /\ Listed(taken) /\ Len(taken) \in 0 .. 2
      /\ corpus \in Corpora /\ Admissible
  BY <1>1, <1>2 DEF MintInv, JustPrinted
<1>5. DOMAIN taken = 1 .. Len(taken)
  BY <1>4, ListedFacts
<1>6. PICK c, m : c = Regime(corpus.cache.docs) /\ m = Regime(corpus.memory.docs)
  OBVIOUS
<1>7. c \in Residency /\ m = "Memory" /\ "Memory" \in Residency /\ "Cache" \in Residency
      /\ \A r \in Residency : {r} # Residency
  BY <1>4, <1>6, RegimeIsOne, MemoryIsMemory DEF Residency
<1>8. /\ forces = 0 => row.kernel = Ladder[n]
      /\ ~Inverted(row)
      /\ "Memory" \in earned => "Memory" \in MeasuredIn(row)
      /\ MeasuredIn(row) \subseteq earned
      /\ earned \ MeasuredIn(row) # {} =>
           \/ Less(taken[2].dfa_skip["Memory"], taken[1].dfa_skip["Cache"])
           \/ taken[1].kernel # taken[2].kernel
  <2>1. CASE Len(taken) = 0
    <3>1. taken = <<>>
      <4>1. taken \in Seq({taken[i] : i \in DOMAIN taken})
        BY <1>4 DEF Listed
      <4> QED
        BY <2>1, <4>1, EmptySeq
    <3>2. row = Err("no column")
      BY <1>4, <3>1 DEF Reduced
    <3> QED
      BY <1>4, <3>2, ErrIsNoRow
  <2>2. CASE Len(taken) = 1
    <3>1. taken # <<>>
      BY <2>2, EmptyIsListed
    <3>2. row = taken[1]
      BY <1>4, <2>2, <3>1 DEF Reduced
    <3>3. PICK r \in {c, m} : OneRegime(row, r)
      BY <1>4, <1>6, <2>2, <3>2 DEF BothTaken, RowFor
    <3>4. forces = 0 => row.kernel = Ladder[n]
      BY <1>4, <2>2, <3>2 DEF BothTaken, RowFor
    <3>5. MeasuredIn(row) = {r} /\ r \in Residency
      BY <1>7, <3>3 DEF OneRegime
    <3>6. earned = MeasuredIn(row)
      BY <1>3, <1>5, <2>2, <3>2
    <3>7. ~Inverted(row)
      BY <1>7, <3>5, NoPairNoInversion
    <3> QED
      BY <3>4, <3>6, <3>7
  <2>3. CASE Len(taken) = 2
    <3>1. PICK a, b : a = taken[1] /\ b = taken[2]
      OBVIOUS
    <3>2. taken # <<>>
      BY <2>3, EmptyIsListed
    <3>3. row = IF IsRow(Merge(a, b)) THEN Merge(a, b) ELSE Withheld(b)
      BY <1>4, <2>3, <3>1, <3>2 DEF Reduced
    <3>4. /\ OneRegime(a, c) /\ OneRegime(b, "Memory")
          /\ forces = 0 => a.kernel = Ladder[n] /\ b.kernel = Ladder[n]
      BY <1>4, <1>6, <1>7, <2>3, <3>1 DEF BothTaken, RowFor
    <3>5. /\ row.kernel \in {a.kernel, b.kernel}
          /\ ~Inverted(row)
          /\ "Memory" \in MeasuredIn(row) /\ MeasuredIn(row) \subseteq {c, "Memory"}
          /\ {c, "Memory"} \ MeasuredIn(row) # {} =>
               Less(b.dfa_skip["Memory"], a.dfa_skip["Cache"]) \/ a.kernel # b.kernel
      BY <1>7, <3>3, <3>4, PairPrints
    <3>6. earned = {c, "Memory"}
      <4>1. MeasuredIn(a) = {c} /\ MeasuredIn(b) = {"Memory"}
        BY <3>4 DEF OneRegime
      <4>2. DOMAIN taken = {1, 2}
        BY <1>5, <2>3
      <4> QED
        BY <1>3, <3>1, <4>1, <4>2
    <3> QED
      BY <3>1, <3>4, <3>5, <3>6
  <2> QED
    BY <1>4, <2>1, <2>2, <2>3
<1> QED
  BY <1>1, <1>2, <1>3, <1>8 DEF PrintsEveryColumn

\* Whatever the reports of a kernel came to, what is printed of them keeps every regime
\* they earned but a cache column that cannot be, and says no hotter haystack costs more
\* (`price`, `merge`).
THEOREM PrintsEveryColumnHolds == Spec => []PrintsEveryColumn
BY MintInvHolds, MintInvPrints, PTL

-----------------------------------------------------------------------------
(* Measure: the formula the solver inverts.                                *)

\* What the parts of a blend come to, and the whole.
ComesTo(cal, escape, excursion, c, e, a, t, g) ==
  /\ Times(cal.dfa_walk, escape) \in Finites
  /\ Amounts(Times(cal.dfa_walk, escape), c, e)
  /\ Times(cal.dfa_skip, Minus(One, escape)) \in Finites
  /\ Amounts(Times(cal.dfa_skip, Minus(One, escape)), a, g)
  /\ Blend(cal, escape, excursion) \in Finites
  /\ Amounts(Blend(cal, escape, excursion), t, g)

\* In whole numbers: the coefficients over d, the escape over q, the excursion over y.
Reckoned(cal, escape, excursion, s, w, d, p, q, x, y, c, e, m, a, b, t, g) ==
  /\ d \in Nat \ {0} /\ q \in Nat \ {0} /\ y \in Nat \ {0} /\ e \in Nat \ {0} /\ g \in Nat \ {0}
  /\ s \in Int /\ w \in Int /\ p \in Int /\ x \in Int
  /\ c \in Int /\ m \in Int /\ a \in Int /\ b \in Int /\ t \in Int
  /\ escape \in Finites /\ excursion \in Finites
  /\ cal.dfa_skip \in Finites /\ cal.dfa_walk \in Finites
  /\ Amounts(cal.dfa_skip, s, d) /\ Amounts(cal.dfa_walk, w, d)
  /\ Amounts(escape, p, q) /\ Amounts(excursion, x, y)
  /\ e = d * q /\ g = e * y /\ m = s * (q - p) /\ a = m * y
  /\ c = w * p /\ b = c * x /\ t = a + b

LEMMA BlendIs ==
  ASSUME NEW cal, NEW escape, NEW excursion, NEW s, NEW w, NEW d, NEW p, NEW q, NEW x, NEW y,
         NEW c, NEW e, NEW m, NEW a, NEW b, NEW t, NEW g,
         Reckoned(cal, escape, excursion, s, w, d, p, q, x, y, c, e, m, a, b, t, g)
  PROVE  ComesTo(cal, escape, excursion, c, e, a, t, g)
<1> USE DEF Reckoned
<1>0. PICK r \in Int : r = q - p
  OBVIOUS
<1>1. PICK rest : rest = Minus(One, escape)
  OBVIOUS
<1>3. rest \in Finites /\ Amounts(rest, r, q)
  <2>1. One \in Finites /\ Amounts(One, q, q)
    BY ZeroOne
  <2> QED
    BY <1>0, <1>1, <2>1, MinusIs
<1>4. PICK skipped, walked : skipped = Times(cal.dfa_skip, rest) /\ walked = Times(cal.dfa_walk, escape)
  OBVIOUS
<1>5. skipped \in Finites /\ Amounts(skipped, m, e)
  BY <1>0, <1>3, <1>4, TimesIs
<1>6. walked \in Finites /\ Amounts(walked, c, e)
  BY <1>4, TimesIs
<1>8. PICK tripped : tripped = Times(walked, excursion)
  OBVIOUS
<1>9. tripped \in Finites /\ Amounts(tripped, b, g)
  BY <1>6, <1>8, TimesIs
<1>10. Amounts(skipped, a, g)
  BY <1>5, Rescaled
<1>13. Plus(skipped, tripped) \in Finites /\ Amounts(Plus(skipped, tripped), t, g)
  BY <1>5, <1>9, <1>10, PlusIs
<1>14. Blend(cal, escape, excursion) = Plus(skipped, tripped)
  BY <1>1, <1>4, <1>8 DEF Blend
<1> QED
  BY <1>1, <1>4, <1>5, <1>6, <1>10, <1>13, <1>14 DEF ComesTo

\* What the loops of an engine and of a skip may be priced from.
Blends(cal, escape, excursion) ==
  /\ cal.dfa_skip \in Finites /\ Positive(cal.dfa_skip)
  /\ cal.dfa_walk \in Finites /\ Positive(cal.dfa_walk)
  /\ Probable(escape)
  /\ excursion \in Finites

\* The same, in whole numbers.
InWholes(cal, escape, excursion, x, y, s, w, p, q, e, g, a, c, t) ==
  /\ s > 0 /\ w > 0 /\ p <= q
  /\ g = e * y /\ a = (s * (q - p)) * y /\ c = w * p /\ t = a + c * x
  /\ Amounts(escape, p, q)
  /\ ComesTo(cal, escape, excursion, c, e, a, t, g)

LEMMA BlendsOver ==
  ASSUME NEW cal, NEW escape, NEW excursion, Blends(cal, escape, excursion),
         NEW x \in Int, NEW y \in Nat \ {0}, Amounts(excursion, x, y)
  PROVE  \E s, w, p, a, c \in Nat : \E q, e, g \in Nat \ {0} : \E t \in Int :
           InWholes(cal, escape, excursion, x, y, s, w, p, q, e, g, a, c, t)
<1>1. escape \in Finites /\ excursion \in Finites /\ cal.dfa_skip \in Finites /\ cal.dfa_walk \in Finites
  BY DEF Blends, Probable
<1>2. PICK d \in Nat \ {0}, s \in Int, w \in Int, z \in Int :
        Amounts(cal.dfa_skip, s, d) /\ Amounts(cal.dfa_walk, w, d) /\ Amounts(cal.dfa_walk, z, d)
  BY <1>1, OverOne
<1>3. PICK p \in Int, q \in Nat \ {0} : Amounts(escape, p, q)
  BY <1>1, OfFinites
<1>4. s \in Nat /\ w \in Nat /\ s > 0 /\ w > 0
  BY <1>1, <1>2, NotNegative DEF Blends
<1>5. p \in Nat /\ p <= q
  BY <1>1, <1>3, ProbableIs DEF Blends
<1>6. PICK r \in Nat : r = q - p
  BY <1>5
<1>7. /\ d * q \in Nat \ {0} /\ s * r \in Nat /\ w * p \in Nat
  <2>1. d * q > 0
    BY Cancelling
  <2>2. s * r >= 0 /\ w * p >= 0
    BY <1>4, <1>5, <1>6, ProductsGrow
  <2> QED
    BY <1>4, <1>5, <1>6, <2>1, <2>2
<1>8. PICK e \in Nat \ {0}, m \in Nat, c \in Nat : e = d * q /\ m = s * r /\ c = w * p
  BY <1>7
<1>9. e * y \in Nat \ {0} /\ m * y \in Nat /\ c * x \in Int
  <2>1. e * y > 0
    BY Cancelling
  <2>2. m * y >= 0
    BY <1>8, ProductsGrow
  <2> QED
    BY <2>1, <2>2
<1>10. PICK g \in Nat \ {0}, a \in Nat, b \in Int : g = e * y /\ a = m * y /\ b = c * x
  BY <1>9
<1>11. PICK t \in Int : t = a + b
  OBVIOUS
<1>12. ComesTo(cal, escape, excursion, c, e, a, t, g)
  <2>1. Reckoned(cal, escape, excursion, s, w, d, p, q, x, y, c, e, m, a, b, t, g)
    BY <1>1, <1>2, <1>3, <1>6, <1>8, <1>10, <1>11 DEF Reckoned
  <2> QED
    BY <2>1, BlendIs
<1>13. InWholes(cal, escape, excursion, x, y, s, w, p, q, e, g, a, c, t)
  BY <1>3, <1>4, <1>5, <1>6, <1>8, <1>10, <1>11, <1>12 DEF InWholes
<1> QED
  BY <1>4, <1>5, <1>13

\* A loop takes time.
LEMMA BlendTakesTime ==
  ASSUME NEW cal, NEW escape, NEW excursion, Blends(cal, escape, excursion), Positive(excursion)
  PROVE  Blend(cal, escape, excursion) \in Finites /\ Positive(Blend(cal, escape, excursion))
<1>1. PICK x \in Int, y \in Nat \ {0} : Amounts(excursion, x, y)
  BY OfFinites DEF Blends
<1>2. PICK s, w, p, a, c \in Nat : \E q, e, g \in Nat \ {0} : \E t \in Int :
        InWholes(cal, escape, excursion, x, y, s, w, p, q, e, g, a, c, t)
  BY <1>1, BlendsOver
<1>3. PICK q, e, g \in Nat \ {0} : \E t \in Int :
        InWholes(cal, escape, excursion, x, y, s, w, p, q, e, g, a, c, t)
  BY <1>2
<1>4. PICK t \in Int : InWholes(cal, escape, excursion, x, y, s, w, p, q, e, g, a, c, t)
  BY <1>3
<1>5. s > 0 /\ w > 0 /\ p <= q /\ a = (s * (q - p)) * y /\ c = w * p /\ t = a + c * x
  BY <1>4 DEF InWholes
<1>6. x \in Nat /\ x > 0
  BY <1>1, NotNegative DEF Blends
<1>7. c * x \in Nat
  BY <1>6, ProductsGrow
<1>8. t > 0
  <2>1. CASE p = q
    <3>1. w * p > 0
      BY <1>5, <2>1, Cancelling
    <3>2. c * x > 0
      BY <1>5, <1>6, <3>1, Cancelling
    <3> QED
      BY <1>5, <3>2
  <2>2. CASE p # q
    <3>1. PICK r \in Nat \ {0} : r = q - p
      <4>1. q - p \in Nat \ {0}
        BY <1>5, <2>2
      <4> QED
        BY <4>1
    <3>2. s * r > 0
      BY <1>5, <3>1, Cancelling
    <3>3. PICK m \in Nat \ {0} : m = s * r
      BY <3>2
    <3>4. m * y > 0
      BY Cancelling
    <3>5. a > 0
      BY <1>5, <3>1, <3>3, <3>4
    <3>6. PICK b \in Nat : b = c * x
      BY <1>7
    <3> QED
      BY <1>5, <3>5, <3>6
  <2> QED
    BY <2>1, <2>2
<1>9. Blend(cal, escape, excursion) \in Finites /\ Amounts(Blend(cal, escape, excursion), t, g)
  BY <1>4 DEF InWholes, ComesTo
<1> QED
  BY <1>8, <1>9, NotNegative

\* And the longer an excursion the more of it.
LEMMA BlendGrows ==
  ASSUME NEW cal, NEW escape, NEW low, NEW high, Blends(cal, escape, low), Blends(cal, escape, high),
         AtMost(low, high)
  PROVE  /\ Blend(cal, escape, low) \in Finites /\ Blend(cal, escape, high) \in Finites
         /\ AtMost(Blend(cal, escape, low), Blend(cal, escape, high))
<1>1. low \in Finites /\ high \in Finites /\ escape \in Finites
      /\ cal.dfa_skip \in Finites /\ cal.dfa_walk \in Finites
  BY DEF Blends, Probable
<1>2. PICK y \in Nat \ {0}, x \in Int, z \in Int, z2 \in Int :
        Amounts(low, x, y) /\ Amounts(high, z, y) /\ Amounts(high, z2, y)
  BY <1>1, OverOne
<1>3. x <= z
  <2>1. Less(high, low) <=> z < x
    BY <1>1, <1>2, LessIs
  <2> QED
    BY <2>1 DEF AtMost
<1>4. PICK d \in Nat \ {0}, s \in Int, w \in Int, w2 \in Int :
        Amounts(cal.dfa_skip, s, d) /\ Amounts(cal.dfa_walk, w, d) /\ Amounts(cal.dfa_walk, w2, d)
  BY <1>1, OverOne
<1>5. PICK p \in Int, q \in Nat \ {0} : Amounts(escape, p, q)
  BY <1>1, OfFinites
<1>6. w \in Nat /\ p \in Nat
  BY <1>1, <1>4, <1>5, NotNegative, ProbableIs DEF Blends
<1>7. PICK e \in Nat \ {0}, r \in Int, c \in Nat, m \in Int :
        e = d * q /\ r = q - p /\ c = w * p /\ m = s * r
  <2>1. d * q > 0
    BY Cancelling
  <2>2. w * p >= 0
    BY <1>6, ProductsGrow
  <2>3. PICK r \in Int : r = q - p
    OBVIOUS
  <2>4. d * q \in Nat \ {0} /\ w * p \in Nat /\ s * r \in Int
    BY <1>6, <2>1, <2>2
  <2> QED
    BY <2>3, <2>4
<1>8. PICK g \in Nat \ {0}, a \in Int, b \in Int, f \in Int :
        g = e * y /\ a = m * y /\ b = c * x /\ f = c * z
  <2>1. e * y > 0
    BY Cancelling
  <2> QED
    BY <2>1
<1>9. PICK i \in Int, j \in Int : i = a + b /\ j = a + f
  OBVIOUS
<1>10. /\ ComesTo(cal, escape, low, c, e, a, i, g)
       /\ ComesTo(cal, escape, high, c, e, a, j, g)
  <2>1. ComesTo(cal, escape, low, c, e, a, i, g)
    <3>1. Reckoned(cal, escape, low, s, w, d, p, q, x, y, c, e, m, a, b, i, g)
      BY <1>1, <1>2, <1>4, <1>5, <1>7, <1>8, <1>9 DEF Reckoned
    <3> QED
      BY <3>1, BlendIs
  <2>2. ComesTo(cal, escape, high, c, e, a, j, g)
    <3>1. Reckoned(cal, escape, high, s, w, d, p, q, z, y, c, e, m, a, f, j, g)
      BY <1>1, <1>2, <1>4, <1>5, <1>7, <1>8, <1>9 DEF Reckoned
    <3> QED
      BY <3>1, BlendIs
  <2> QED
    BY <2>1, <2>2
<1>11. b <= f
  <2>1. CASE x = z
    BY <1>8, <2>1
  <2>2. CASE c = 0
    BY <1>8, <2>2
  <2>3. CASE c # 0 /\ x < z
    <3>1. c * x < c * z
      BY <2>3, Cancelling
    <3> QED
      BY <1>8, <3>1
  <2> QED
    BY <1>3, <2>1, <2>2, <2>3
<1>12. i <= j
  BY <1>9, <1>11
<1>13. /\ Blend(cal, escape, low) \in Finites /\ Amounts(Blend(cal, escape, low), i, g)
       /\ Blend(cal, escape, high) \in Finites /\ Amounts(Blend(cal, escape, high), j, g)
  BY <1>10 DEF ComesTo
<1>14. Less(Blend(cal, escape, high), Blend(cal, escape, low)) <=> j < i
  BY <1>13, LessIs
<1> QED
  BY <1>12, <1>13, <1>14 DEF AtMost

\* The solver inverts the formula: an excursion that is found at all is the one the loop
\* took, and the escape it was found for happens.
LEMMA SolvedIs ==
  ASSUME NEW cal, NEW escape, NEW excursion, Blends(cal, escape, excursion),
         NEW ns, ns = Blend(cal, escape, excursion),
         NEW found, found = SolvedFor(ns, cal.dfa_skip, cal.dfa_walk, escape), Finite(found),
         NEW x \in Int, NEW y \in Nat \ {0}, Amounts(excursion, x, y)
  PROVE  found \in Finites /\ Amounts(found, x, y) /\ Positive(escape)
<1>0. PICK s, w, p, a, c \in Nat, q, e, g \in Nat \ {0}, t \in Int :
        InWholes(cal, escape, excursion, x, y, s, w, p, q, e, g, a, c, t)
  BY BlendsOver
<1>1. /\ g = e * y /\ c = w * p /\ t = a + c * x
      /\ Amounts(escape, p, q)
      /\ Times(cal.dfa_walk, escape) \in Finites
      /\ Amounts(Times(cal.dfa_walk, escape), c, e)
      /\ Times(cal.dfa_skip, Minus(One, escape)) \in Finites
      /\ Amounts(Times(cal.dfa_skip, Minus(One, escape)), a, g)
      /\ Blend(cal, escape, excursion) \in Finites
      /\ Amounts(Blend(cal, escape, excursion), t, g)
  BY <1>0 DEF InWholes, ComesTo
<1>2. PICK skipped, walked : /\ skipped = Times(cal.dfa_skip, Minus(One, escape))
                             /\ walked = Times(cal.dfa_walk, escape)
  OBVIOUS
<1>3. PICK j \in Int : j = c * x /\ j = t - a
  BY <1>1
<1>4. PICK more : more = Minus(ns, skipped)
  OBVIOUS
<1>5. more \in Finites /\ Amounts(more, j, g)
  <2>1. ns \in Finites /\ Amounts(ns, t, g) /\ skipped \in Finites /\ Amounts(skipped, a, g)
    BY <1>1, <1>2, <1>3
  <2> QED
    BY <1>3, <1>4, <2>1, MinusIs
<1>6. found = Divided(more, walked)
  BY <1>2, <1>4 DEF SolvedFor
<1>7. c # 0
  <2> SUFFICES ASSUME c = 0 PROVE FALSE
    OBVIOUS
  <2>1. walked \in Finites /\ Amounts(walked, 0, e)
    BY <1>1, <1>2
  <2> QED
    BY <1>5, <1>6, <2>1, DividedByNothing
<1>8. p # 0
  <2> SUFFICES ASSUME p = 0 PROVE FALSE
    OBVIOUS
  <2>1. w * 0 = 0
    OBVIOUS
  <2> QED
    BY <1>1, <1>7, <2>1
<1>9. Positive(escape)
  BY <1>1, <1>8, NotNegative DEF Blends, Probable
<1>10. /\ found \in Finites /\ j * e \in Int /\ g * c \in Nat \ {0}
       /\ Amounts(found, j * e, g * c)
  BY <1>1, <1>2, <1>5, <1>6, <1>7, DividedIs
<1>11. PICK f \in Nat \ {0} : f = e * c
  <2>1. e * c > 0
    BY <1>7, Cancelling
  <2> QED
    BY <2>1
<1>12. j * e = x * f /\ g * c = y * f
  <2>1. j * e = (c * x) * e /\ g * c = (e * y) * c
    BY <1>1, <1>3
  <2>2. (c * x) * e = x * (e * c) /\ (e * y) * c = y * (e * c)
    OBVIOUS
  <2> QED
    BY <1>11, <2>1, <2>2
<1>13. PICK m \in Int, n \in Nat \ {0} : m = x * f /\ n = y * f /\ Amounts(found, m, n)
  BY <1>10, <1>12
<1>14. Amounts(found, x, y)
  <2>1. PICK u \in Int, v \in Nat \ {0} : u = found[1] /\ v = found[2]
    BY <1>10, OfFinites
  <2>2. u * (y * f) = (x * f) * v
    BY <1>13, <2>1 DEF Amounts
  <2>3. f * (u * y) = u * (y * f) /\ f * (x * v) = (x * f) * v
    OBVIOUS
  <2>4. u * y = x * v
    BY <2>2, <2>3, Cancelling
  <2> QED
    BY <2>1, <2>4 DEF Amounts
<1> QED
  BY <1>9, <1>10, <1>14

-----------------------------------------------------------------------------
(* Measure: the best of the rounds, and what solutions come to.            *)

\* Two values of one amount, in whatever terms.
Comes(x, y) == x \in Finites /\ y \in Finites /\ Amounts(x, y[1], y[2])

LEMMA ComesAlike ==
  ASSUME NEW x, NEW y, Comes(x, y)
  PROVE  /\ x \in Numbers /\ y \in Numbers
         /\ AtMost(x, y) /\ AtMost(y, x)
<1>1. y[1] \in Int /\ y[2] \in Nat \ {0} /\ Amounts(y, y[1], y[2])
  BY OfFinites DEF Comes
<1>2. ~Less(x, y) /\ ~Less(y, x)
  BY <1>1, NeitherLess DEF Comes
<1> QED
  BY <1>2, NumbersFrom DEF Comes, AtMost

LEMMA MostAlike ==
  ASSUME NEW x, NEW y, Comes(x, y), NEW z \in Finites
  PROVE  /\ Most(x, z) \in Finites /\ Most(y, z) \in Finites
         /\ AtMost(Most(x, z), Most(y, z)) /\ AtMost(Most(y, z), Most(x, z))
<1>1. y[1] \in Int /\ y[2] \in Nat \ {0} /\ Amounts(y, y[1], y[2])
  BY OfFinites DEF Comes
<1>2. /\ Most(x, z) \in Finites /\ Most(y, z) \in Finites
      /\ \E b \in Int, e \in Nat \ {0} : Amounts(Most(x, z), b, e) /\ Amounts(Most(y, z), b, e)
  BY <1>1, BoundedAlike DEF Comes
<1>3. PICK b \in Int, e \in Nat \ {0} : Amounts(Most(x, z), b, e) /\ Amounts(Most(y, z), b, e)
  BY <1>2
<1>4. ~Less(Most(x, z), Most(y, z)) /\ ~Less(Most(y, z), Most(x, z))
  BY <1>2, <1>3, NeitherLess
<1> QED
  BY <1>2, <1>4 DEF AtMost

\* Under one cap the lower stays the lower.
LEMMA CappedOrdered ==
  ASSUME NEW x \in Numbers, NEW y \in Numbers, NEW cap \in Numbers, AtMost(x, y)
  PROVE  /\ AtMost(Least(x, cap), Least(y, cap))
         /\ Least(x, cap) \in Numbers /\ Least(y, cap) \in Numbers
<1>1. /\ AtMost(Least(x, cap), x) /\ AtMost(Least(x, cap), cap)
      /\ Least(x, cap) = x \/ Least(x, cap) = cap
      /\ Least(y, cap) = y \/ Least(y, cap) = cap
  BY LeastIsLeast
<1>2. Least(x, cap) \in Numbers
  BY <1>1
<1>3. AtMost(Least(x, cap), y)
  BY <1>1, <1>2, AtMostTransitive
<1> QED
  BY <1>1, <1>2, <1>3

\* The minimum over traversals of a loop that takes t: one that is quiet or too short for
\* the clock, and no slowed one moves it.
Disturbed(t) == {Inf, Zero, t, Times(F(2), t)}

LEMMA FasterFacts ==
  ASSUME NEW t \in Finites, Positive(t), NEW b \in Disturbed(t),
         NEW next \in {Zero, t, Times(F(2), t)}
  PROVE  /\ Faster(b, next) \in Disturbed(t)
         /\ next # Times(F(2), t) \/ b \in {Zero, t} => Faster(b, next) \in {Zero, t}
<1>1. PICK u : u = Times(F(2), t)
  OBVIOUS
<1>2. u \in Finites /\ Positive(u) /\ Less(t, u)
  BY <1>1, Doubled
<1>3. Zero \in Numbers /\ t \in Numbers /\ u \in Numbers /\ Inf \in Numbers /\ Zero \in Finites
  BY <1>2, ZeroOne, NumbersFrom
<1>4. Less(Zero, t) /\ Less(Zero, u) /\ Less(t, u)
  BY <1>2 DEF Positive
<1>5. ~Less(t, Zero) /\ ~Less(u, Zero) /\ ~Less(u, t)
      /\ ~Less(t, t) /\ ~Less(u, u) /\ ~Less(Zero, Zero)
  BY <1>3, <1>4, Ordered DEF AtMost
<1>6. Less(Zero, Inf) /\ Less(t, Inf) /\ Less(u, Inf)
  BY <1>2, <1>3, Ends
<1>7. ~IsNaN(Zero) /\ ~IsNaN(t) /\ ~IsNaN(u) /\ ~IsNaN(Inf)
  BY <1>3 DEF Numbers, IsNaN
<1>8. b \in {Inf, Zero, t, u} /\ next \in {Zero, t, u}
  BY <1>1 DEF Disturbed
<1>9. Faster(b, next) = IF Less(next, b) THEN next ELSE b
  BY <1>7, <1>8 DEF Faster, Least
<1> QED
  BY <1>1, <1>4, <1>5, <1>6, <1>8, <1>9 DEF Disturbed

\* The solutions of a kind are those of its timings that were not dropped.
Kept(results, kind, j) == Schedule[j].kind = kind /\ results[j] # Dropped

LEMMA SolutionsFacts ==
  ASSUME NEW results, Listed(results), NEW kind
  PROVE  /\ Listed(Solutions(results, kind))
         /\ \A i \in 1 .. Len(Solutions(results, kind)) : \E j \in DOMAIN results :
              Kept(results, kind, j) /\ Solutions(results, kind)[i] = results[j]
         /\ \A j \in DOMAIN results : Kept(results, kind, j) =>
              \E i \in 1 .. Len(Solutions(results, kind)) : Solutions(results, kind)[i] = results[j]
<1> DEFINE n == Len(results)
           B == Seq({results[i] : i \in DOMAIN results})
           row == [i \in 1 .. n |-> [q \in B |->
                     IF Schedule[i].kind = kind /\ results[i] # Dropped
                       THEN Append(q, results[i]) ELSE q]]
           Reads(f) == f = [i \in 0 .. n |->
                              IF i = 0 THEN <<>>
                              ELSE IF Schedule[i].kind = kind /\ results[i] # Dropped
                                     THEN Append(f[i - 1], results[i])
                              ELSE f[i - 1]]
<1>1. n \in Nat /\ n \in 0 .. n /\ DOMAIN results = 1 .. n
  BY ListedFacts
<1>2. ASSUME NEW q \in B, NEW i \in 1 .. n PROVE Append(q, results[i]) \in B
  BY <1>1, AppendProperties
<1>3. <<>> \in B
  BY EmptySeq
<1>4. \A q \in B : Listed(q)
  BY SeqIsListed
<1> HIDE DEF B, n
<1>5. row \in Rows(n, B)
  BY <1>2 DEF Rows
<1>6. PICK f \in [0 .. n -> B] : Fills(f, n, <<>>, row)
  <2> HIDE DEF row
  <2> QED
    BY <1>1, <1>3, <1>5, FilledFromFront
<1>7. Reads(f)
  <2>1. ASSUME NEW i \in 0 .. n
        PROVE  f[i] = IF i = 0 THEN <<>>
                      ELSE IF Schedule[i].kind = kind /\ results[i] # Dropped
                             THEN Append(f[i - 1], results[i])
                      ELSE f[i - 1]
    <3>1. CASE i = 0
      BY <1>6, <3>1 DEF Fills
    <3>2. CASE i # 0
      <4>1. i \in 1 .. n /\ i - 1 \in 0 .. n
        BY <1>1, <3>2
      <4>2. f[i] = row[i][f[i - 1]] /\ f[i - 1] \in B
        BY <1>6, <4>1 DEF Fills
      <4>3. row[i][f[i - 1]] = IF Schedule[i].kind = kind /\ results[i] # Dropped
                                 THEN Append(f[i - 1], results[i]) ELSE f[i - 1]
        BY <4>1, <4>2
      <4> QED
        BY <3>2, <4>2, <4>3
    <3> QED
      BY <3>1, <3>2
  <2>2. f = [i \in 0 .. n |-> f[i]]
    OBVIOUS
  <2> HIDE DEF row
  <2> QED
    BY <2>1, <2>2
<1>8. PICK g : g = CHOOSE e : Reads(e)
  OBVIOUS
<1>9. Solutions(results, kind) = g[n]
  BY <1>8 DEF Solutions, n
<1>10. Reads(g)
  <2> HIDE DEF Reads
  <2> QED
    BY <1>7, <1>8
<1> DEFINE Holds(q, m) ==
             /\ q \in B
             /\ \A i \in 1 .. Len(q) : \E j \in 1 .. m : Kept(results, kind, j) /\ q[i] = results[j]
             /\ \A j \in 1 .. m : Kept(results, kind, j) => \E i \in 1 .. Len(q) : q[i] = results[j]
           S == {m \in 0 .. n : Holds(g[m], m)}
<1>11. 0 \in S
  <2>1. 0 \in 0 .. n
    BY <1>1
  <2>2. g[0] = <<>>
    BY <1>10, <2>1, Zenon
  <2>3. Len(<<>>) = 0
    BY EmptySeq
  <2>4. Holds(<<>>, 0)
    BY <1>3, <2>3
  <2> QED
    BY <2>1, <2>2, <2>4
<1>12. ASSUME NEW m \in 0 .. n - 1, m \in S PROVE m + 1 \in S
  <2>1. PICK j : j = m + 1
    OBVIOUS
  <2>2. j \in 1 .. n /\ j \in 0 .. n /\ j # 0 /\ j - 1 = m
    BY <1>1, <2>1
  <2>3. g[j] = IF Schedule[j].kind = kind /\ results[j] # Dropped
                 THEN Append(g[j - 1], results[j]) ELSE g[j - 1]
    BY <1>10, <2>2, Zenon
  <2>4. PICK q : q = g[m]
    OBVIOUS
  <2>5. Holds(q, m)
    BY <1>12, <2>4
  <2>6. Holds(g[j], j)
    <3>1. CASE ~Kept(results, kind, j)
      <4>1. g[j] = q
        BY <2>2, <2>3, <2>4, <3>1 DEF Kept
      <4>2. \A i \in 1 .. j : i \in 1 .. m \/ i = j
        BY <2>2
      <4>3. \A i \in 1 .. m : i \in 1 .. j
        BY <2>2
      <4>4. Holds(q, j)
        BY <2>5, <3>1, <4>2, <4>3
      <4> QED
        BY <4>1, <4>4
    <3>2. CASE Kept(results, kind, j)
      <4>1. PICK p : p = Append(q, results[j])
        OBVIOUS
      <4>2. g[j] = p
        BY <2>2, <2>3, <2>4, <3>2, <4>1 DEF Kept
      <4>3. p \in B
        BY <1>2, <2>2, <2>5, <4>1
      <4>4. Listed(q)
        BY <1>4, <2>5
      <4>5. /\ Len(p) = Len(q) + 1 /\ p[Len(q) + 1] = results[j]
            /\ \A i \in 1 .. Len(q) : p[i] = q[i]
        BY <4>1, <4>4, AppendIsListed
      <4>6. Len(q) \in Nat
        BY <4>4, ListedFacts
      <4>7. ASSUME NEW i \in 1 .. Len(p)
            PROVE  \E h \in 1 .. j : Kept(results, kind, h) /\ p[i] = results[h]
        <5>1. CASE i = Len(q) + 1
          BY <2>2, <3>2, <4>5, <5>1
        <5>2. CASE i # Len(q) + 1
          <6>1. i \in 1 .. Len(q) /\ p[i] = q[i]
            BY <4>5, <4>6, <5>2
          <6>2. PICK h \in 1 .. m : Kept(results, kind, h) /\ q[i] = results[h]
            BY <2>5, <6>1
          <6>3. h \in 1 .. j
            BY <2>2
          <6> QED
            BY <6>1, <6>2, <6>3
        <5> QED
          BY <5>1, <5>2
      <4>8. ASSUME NEW h \in 1 .. j, Kept(results, kind, h)
            PROVE  \E i \in 1 .. Len(p) : p[i] = results[h]
        <5>1. CASE h = j
          <6>1. Len(q) + 1 \in 1 .. Len(p)
            BY <4>5, <4>6
          <6> QED
            BY <4>5, <5>1, <6>1
        <5>2. CASE h # j
          <6>1. h \in 1 .. m
            BY <2>2, <5>2
          <6>2. PICK i \in 1 .. Len(q) : q[i] = results[h]
            BY <2>5, <4>8, <6>1
          <6>3. i \in 1 .. Len(p) /\ p[i] = q[i]
            BY <4>5, <4>6
          <6> QED
            BY <6>2, <6>3
        <5> QED
          BY <5>1, <5>2
      <4>9. Holds(p, j)
        BY <4>3, <4>7, <4>8
      <4> QED
        BY <4>2, <4>9
    <3> QED
      BY <3>1, <3>2
  <2>7. j \in S
    <3> HIDE DEF Holds
    <3> QED
      BY <2>2, <2>6
  <2> QED
    BY <2>1, <2>7
<1>13. \A m \in 0 .. n : m \in S
  <2> HIDE DEF S
  <2> QED
    BY <1>1, <1>11, <1>12, UpTo
<1>14. PICK q : q = g[n]
  OBVIOUS
<1>15. Holds(q, n)
  <2>1. Holds(g[n], n)
    <3> HIDE DEF Holds
    <3> QED
      BY <1>1, <1>13
  <2> QED
    BY <1>14, <2>1
<1>16. Listed(q)
  BY <1>4, <1>15
<1>17. Solutions(results, kind) = q
  BY <1>9, <1>14
<1> QED
  BY <1>1, <1>15, <1>16, <1>17

\* The mean of values of one amount is of that amount.
LEMMA MeanIs ==
  ASSUME NEW each, Listed(each), Len(each) >= 1, NEW e, \A i \in 1 .. Len(each) : Comes(each[i], e)
  PROVE  Comes(Mean(each), e)
<1> DEFINE n == Len(each)
           B == Finites
           row == [i \in 1 .. n |-> [q \in B |-> Plus(q, each[i])]]
           Sums(f) == f = [i \in 0 .. n |-> IF i = 0 THEN Zero ELSE Plus(f[i - 1], each[i])]
<1>1. n \in Nat /\ n \in 0 .. n /\ n \in Nat \ {0}
  BY ListedFacts
<1>2. 1 \in 1 .. n
  BY <1>1
<1>3. PICK a \in Int, d \in Nat \ {0} : a = e[1] /\ d = e[2] /\ e \in Finites
  BY <1>2, OfFinites DEF Comes
<1>4. \A i \in 1 .. n : each[i] \in Finites /\ Amounts(each[i], a, d)
  BY <1>3 DEF Comes
<1>5. Zero \in Finites /\ Amounts(Zero, 0, d)
  BY ZeroOne
<1> HIDE DEF n
<1>6. row \in Rows(n, B)
  <2>1. ASSUME NEW i \in 1 .. n, NEW q \in B PROVE Plus(q, each[i]) \in B
    BY <1>4, PlusCloses, NumbersFrom
  <2> QED
    BY <2>1 DEF Rows
<1>7. PICK f \in [0 .. n -> B] : Fills(f, n, Zero, row)
  <2> HIDE DEF row
  <2> QED
    BY <1>1, <1>5, <1>6, FilledFromFront
<1>8. Sums(f)
  <2>1. ASSUME NEW i \in 0 .. n
        PROVE  f[i] = IF i = 0 THEN Zero ELSE Plus(f[i - 1], each[i])
    <3>1. CASE i = 0
      BY <1>7, <3>1 DEF Fills
    <3>2. CASE i # 0
      <4>1. i \in 1 .. n /\ i - 1 \in 0 .. n
        BY <1>1, <3>2
      <4>2. f[i] = row[i][f[i - 1]] /\ f[i - 1] \in B
        BY <1>7, <4>1 DEF Fills
      <4>3. row[i][f[i - 1]] = Plus(f[i - 1], each[i])
        BY <4>1, <4>2
      <4> QED
        BY <3>2, <4>2, <4>3
    <3> QED
      BY <3>1, <3>2
  <2>2. f = [i \in 0 .. n |-> f[i]]
    OBVIOUS
  <2> HIDE DEF row
  <2> QED
    BY <2>1, <2>2
<1>9. PICK g : g = CHOOSE h : Sums(h)
  OBVIOUS
<1>10. Mean(each) = Divided(g[n], F(n))
  BY <1>9 DEF Mean, n
<1>11. Sums(g)
  <2> HIDE DEF Sums
  <2> QED
    BY <1>8, <1>9
<1> DEFINE S == {i \in 0 .. n : g[i] \in Finites /\ Amounts(g[i], i * a, d)}
<1>12. 0 \in S
  <2>1. 0 \in 0 .. n
    BY <1>1
  <2>2. g[0] = Zero
    BY <1>11, <2>1, Zenon
  <2>3. 0 * a = 0
    OBVIOUS
  <2> QED
    BY <1>5, <2>1, <2>2, <2>3
<1>13. ASSUME NEW i \in 0 .. n - 1, i \in S PROVE i + 1 \in S
  <2>1. PICK j : j = i + 1
    OBVIOUS
  <2>2. j \in 1 .. n /\ j \in 0 .. n /\ j # 0 /\ j - 1 = i
    BY <1>1, <2>1
  <2>3. g[j] = Plus(g[j - 1], each[j])
    BY <1>11, <2>2, Zenon
  <2>4. PICK u \in Int, v \in Int : u = i * a /\ v = u + a
    BY <1>13
  <2>5. g[i] \in Finites /\ Amounts(g[i], u, d) /\ each[j] \in Finites /\ Amounts(each[j], a, d)
    BY <1>4, <1>13, <2>2, <2>4
  <2>6. Plus(g[i], each[j]) \in Finites /\ Amounts(Plus(g[i], each[j]), u + a, d)
    BY <2>5, PlusIs
  <2>7. v = j * a
    <3>1. j * a = i * a + a
      BY <1>13, <2>1
    <3> QED
      BY <2>4, <3>1
  <2>8. g[j] \in Finites /\ Amounts(g[j], j * a, d)
    BY <2>2, <2>3, <2>4, <2>6, <2>7
  <2> QED
    BY <2>1, <2>2, <2>8
<1>14. g[n] \in Finites /\ Amounts(g[n], n * a, d)
  <2>1. \A i \in 0 .. n : i \in S
    <3> HIDE DEF S
    <3> QED
      BY <1>1, <1>12, <1>13, UpTo
  <2> QED
    BY <1>1, <2>1
<1>15. PICK u \in Int : u = n * a
  BY <1>1
<1>16. F(n) \in Finites /\ Amounts(F(n), n, 1)
  BY <1>1, Whole
<1>17. PICK m : m = Divided(g[n], F(n))
  OBVIOUS
<1>18. m \in Finites /\ Amounts(m, u * 1, d * n)
  BY <1>1, <1>14, <1>15, <1>16, <1>17, DividedIs
<1>19. Amounts(m, a, d)
  <2>1. PICK x \in Int, y \in Nat \ {0} : x = m[1] /\ y = m[2]
    BY <1>18, OfFinites
  <2>2. x * (d * n) = (u * 1) * y
    BY <1>18, <2>1 DEF Amounts
  <2>3. n * (x * d) = x * (d * n) /\ n * (a * y) = (u * 1) * y
    BY <1>1, <1>15
  <2>4. x * d = a * y
    BY <1>1, <2>2, <2>3, Cancelling
  <2> QED
    BY <2>1, <2>4 DEF Amounts
<1> QED
  BY <1>3, <1>10, <1>17, <1>18, <1>19 DEF Comes

\* The highest is one of them or nothing, and none is above it.
LEMMA HighestIs ==
  ASSUME NEW each, Listed(each), \A i \in 1 .. Len(each) : each[i] \in Finites
  PROVE  /\ Highest(each) \in Finites
         /\ \A i \in 1 .. Len(each) : AtMost(each[i], Highest(each))
<1> DEFINE n == Len(each)
           B == Finites
           row == [i \in 1 .. n |-> [q \in B |-> Most(q, each[i])]]
           Raises(f) == f = [i \in 0 .. n |-> IF i = 0 THEN Zero ELSE Most(f[i - 1], each[i])]
<1>1. n \in Nat /\ n \in 0 .. n
  BY ListedFacts
<1>2. \A i \in 1 .. n : each[i] \in Finites
  OBVIOUS
<1>3. Zero \in Finites
  BY ZeroOne
<1>4. ASSUME NEW x \in Finites, NEW y \in Finites
      PROVE  Most(x, y) \in Finites /\ AtMost(x, Most(x, y)) /\ AtMost(y, Most(x, y))
  <2>1. ~IsNaN(x) /\ x \in Numbers /\ y \in Numbers
    BY OfFinites, NumbersFrom
  <2>2. Most(x, y) = IF Less(x, y) THEN y ELSE x
    BY <2>1 DEF Most
  <2> QED
    BY <2>1, <2>2, Ordered DEF AtMost
<1> HIDE DEF n
<1>6. row \in Rows(n, B)
  <2>1. ASSUME NEW i \in 1 .. n, NEW q \in B PROVE Most(q, each[i]) \in B
    BY <1>2, <1>4
  <2> QED
    BY <2>1 DEF Rows
<1>7. PICK f \in [0 .. n -> B] : Fills(f, n, Zero, row)
  <2> HIDE DEF row
  <2> QED
    BY <1>1, <1>3, <1>6, FilledFromFront
<1>8. Raises(f)
  <2>1. ASSUME NEW i \in 0 .. n
        PROVE  f[i] = IF i = 0 THEN Zero ELSE Most(f[i - 1], each[i])
    <3>1. CASE i = 0
      BY <1>7, <3>1 DEF Fills
    <3>2. CASE i # 0
      <4>1. i \in 1 .. n /\ i - 1 \in 0 .. n
        BY <1>1, <3>2
      <4>2. f[i] = row[i][f[i - 1]] /\ f[i - 1] \in B
        BY <1>7, <4>1 DEF Fills
      <4>3. row[i][f[i - 1]] = Most(f[i - 1], each[i])
        BY <4>1, <4>2
      <4> QED
        BY <3>2, <4>2, <4>3
    <3> QED
      BY <3>1, <3>2
  <2>2. f = [i \in 0 .. n |-> f[i]]
    OBVIOUS
  <2> HIDE DEF row
  <2> QED
    BY <2>1, <2>2
<1>9. PICK g : g = CHOOSE h : Raises(h)
  OBVIOUS
<1>10. Highest(each) = g[n]
  BY <1>9 DEF Highest, n
<1>11. Raises(g)
  <2> HIDE DEF Raises
  <2> QED
    BY <1>8, <1>9
<1> DEFINE S == {i \in 0 .. n : g[i] \in Finites /\ \A j \in 1 .. i : AtMost(each[j], g[i])}
<1>12. 0 \in S
  <2>1. 0 \in 0 .. n
    BY <1>1
  <2>2. g[0] = Zero
    BY <1>11, <2>1, Zenon
  <2> QED
    BY <1>3, <2>1, <2>2
<1>13. ASSUME NEW i \in 0 .. n - 1, i \in S PROVE i + 1 \in S
  <2>1. PICK j : j = i + 1
    OBVIOUS
  <2>2. j \in 1 .. n /\ j \in 0 .. n /\ j # 0 /\ j - 1 = i
    BY <1>1, <2>1
  <2>3. g[j] = Most(g[j - 1], each[j])
    BY <1>11, <2>2, Zenon
  <2>4. g[i] \in Finites /\ each[j] \in Finites
    BY <1>2, <1>13, <2>2
  <2>5. /\ g[j] \in Finites /\ AtMost(g[i], g[j]) /\ AtMost(each[j], g[j])
    BY <1>4, <2>2, <2>3, <2>4
  <2>6. ASSUME NEW h \in 1 .. j PROVE AtMost(each[h], g[j])
    <3>1. CASE h = j
      BY <2>5, <3>1
    <3>2. CASE h # j
      <4>1. h \in 1 .. i /\ h \in 1 .. n
        BY <1>1, <2>2, <3>2
      <4>2. AtMost(each[h], g[i])
        BY <1>13, <4>1
      <4>3. each[h] \in Numbers /\ g[i] \in Numbers /\ g[j] \in Numbers
        BY <1>2, <2>4, <2>5, <4>1, NumbersFrom
      <4> QED
        BY <2>5, <4>2, <4>3, AtMostTransitive
    <3> QED
      BY <3>1, <3>2
  <2> QED
    BY <2>1, <2>2, <2>5, <2>6
<1>14. g[n] \in Finites /\ \A j \in 1 .. n : AtMost(each[j], g[n])
  <2>1. \A i \in 0 .. n : i \in S
    <3> HIDE DEF S
    <3> QED
      BY <1>1, <1>12, <1>13, UpTo
  <2> QED
    BY <1>1, <2>1
<1> QED
  BY <1>10, <1>14 DEF n

-----------------------------------------------------------------------------
(* Measure: what a leg takes when nothing disturbs it.                     *)

\* FullTime, over whatever sample.
References(s) == [dfa_skip |-> Machine.skip[Regime(s.docs)], dfa_walk |-> Machine.walk]
Skims(s, leaves, excursion) == Blend(References(s), Share(leaves, s.freq), excursion)
Takes(s, loop, k) ==
  IF loop.kind = "walk" THEN Machine.walk
  ELSE IF loop.kind = "skip" THEN Machine.skip[Regime(s.docs)]
  ELSE IF loop.kind = "lead" THEN Skims(s, {loop.of}, Machine.excursion)
  ELSE IF loop.kind = "probe" THEN Skims(s, loop.of.leaves, loop.of.excursion)
  ELSE Machine.sieve[k]

LEMMA SkimmedIs ==
  ASSUME NEW leaves, NEW excursion
  PROVE  Skimmed(Machine.skip[Regime(sample.docs)], EscapeOf(leaves), excursion)
           = Skims(sample, leaves, excursion)
BY DEF Skimmed, EscapeOf, Skims, References

LEMMA FullTimeIs ==
  ASSUME NEW loop, NEW k
  PROVE  FullTime(loop, k) = Takes(sample, loop, k)
<1>1. \A leaves, excursion :
        Skimmed(Machine.skip[Regime(sample.docs)], EscapeOf(leaves), excursion)
          = Skims(sample, leaves, excursion)
  BY SkimmedIs
<1> QED
  BY <1>1 DEF FullTime, Takes

LEMMA ReferencesTake ==
  ASSUME NEW s, NEW k
  PROVE  Takes(s, WALK_REF, k) = Machine.walk /\ Takes(s, SKIP_REF, k) = Machine.skip[Regime(s.docs)]
<1>1. WALK_REF.kind = "walk" /\ SKIP_REF.kind = "skip"
  BY DEF WALK_REF, SKIP_REF, Loop
<1> QED
  BY <1>1 DEF Takes

LEMMA LeadTakes ==
  ASSUME NEW s, NEW of, NEW k
  PROVE  Takes(s, Loop("lead", of), k) = Skims(s, {of}, Machine.excursion)
<1>1. PICK l : l = Loop("lead", of)
  OBVIOUS
<1>2. l.kind = "lead" /\ l.of = of
  BY <1>1 DEF Loop
<1>3. Takes(s, l, k) = Skims(s, {of}, Machine.excursion)
  BY <1>2 DEF Takes
<1> QED
  BY <1>1, <1>3

LEMMA ProbeTakes ==
  ASSUME NEW s, NEW of, NEW k
  PROVE  Takes(s, Loop("probe", of), k) = Skims(s, of.leaves, of.excursion)
<1>1. PICK l : l = Loop("probe", of)
  OBVIOUS
<1>2. l.kind = "probe" /\ l.of = of
  BY <1>1 DEF Loop
<1>3. Takes(s, l, k) = Skims(s, of.leaves, of.excursion)
  BY <1>2 DEF Takes
<1> QED
  BY <1>1, <1>3

LEMMA SieveTakes ==
  ASSUME NEW s, NEW of, NEW k
  PROVE  Takes(s, Loop("sieve", of), k) = Machine.sieve[k]
<1>1. PICK l : l = Loop("sieve", of)
  OBVIOUS
<1>2. l.kind = "sieve"
  BY <1>1 DEF Loop
<1>3. Takes(s, l, k) = Machine.sieve[k]
  BY <1>2 DEF Takes
<1> QED
  BY <1>1, <1>3

LEMMA TimesAre ==
  ASSUME NEW x, IsTime(x)
  PROVE  x \in Finites /\ Positive(x)
BY FinitesFacts DEF IsTime

\* Every escape is a probability, and no leaves never escape.
LEMMA EscapesAre ==
  ASSUME NEW s, IsSample(s), NEW leaves
  PROVE  Probable(Share(leaves, s.freq)) /\ (leaves = {} => Share(leaves, s.freq) = Zero)
<1>1. PICK freq : freq = s.freq
  OBVIOUS
<1>2. /\ IsFiniteSet(DOMAIN freq)
      /\ freq \in [0 .. Cardinality(DOMAIN freq) - 1 -> {x \in Floats : Finite(x)}]
  BY <1>1 DEF IsSample
<1>3. PICK n : n = Cardinality(DOMAIN freq) - 1
  OBVIOUS
<1>4. freq \in [0 .. n -> {x \in Floats : Finite(x)}]
  BY <1>2, <1>3
<1>5. \A i \in DOMAIN freq : freq[i] \in Floats /\ freq[i] \in Finites
  BY <1>4, FinitesFacts
<1>6. freq \in [0 .. n -> Floats]
  BY <1>4
<1>7. freq \in [0 .. Cardinality(DOMAIN freq) - 1 -> Floats]
  BY <1>3, <1>6
<1>8. /\ Probable(Share(leaves, freq))
      /\ leaves = {} => Share(leaves, freq) = Zero
  BY <1>2, <1>5, <1>7, ShareCloses
<1> QED
  BY <1>1, <1>8

LEMMA ReferencesBlend ==
  ASSUME NEW s, IsSample(s), NEW leaves, NEW excursion \in Finites
  PROVE  Blends(References(s), Share(leaves, s.freq), excursion)
<1>1. /\ References(s).dfa_walk = Machine.walk
      /\ References(s).dfa_skip = Machine.skip[Regime(s.docs)]
  BY DEF References
<1>2. IsTime(Machine.walk) /\ IsTime(Machine.skip[Regime(s.docs)])
  BY MachineAssumption, RegimeIsOne
<1> QED
  BY <1>1, <1>2, TimesAre, EscapesAre DEF Blends

LEMMA SkimsTakeTime ==
  ASSUME NEW s, IsSample(s), NEW leaves, NEW excursion, IsTime(excursion)
  PROVE  Skims(s, leaves, excursion) \in Finites /\ Positive(Skims(s, leaves, excursion))
<1>1. excursion \in Finites /\ Positive(excursion)
  BY TimesAre
<1>2. Blends(References(s), Share(leaves, s.freq), excursion)
  BY <1>1, ReferencesBlend
<1> QED
  BY <1>1, <1>2, BlendTakesTime DEF Skims

LEMMA LegsTakeTime ==
  ASSUME NEW s, IsSample(s), NEW t, IsTiming(t), NEW leg \in 1 .. Len(t.legs), NEW k \in Kernels
  PROVE  Takes(s, t.legs[leg], k) \in Finites /\ Positive(Takes(s, t.legs[leg], k))
<1>1. IsDrawnUp(t)
  BY DEF IsTiming
<1>2. PICK walk, skip, sieve : /\ walk = Machine.walk
                               /\ skip = Machine.skip[Regime(s.docs)]
                               /\ sieve = Machine.sieve[k]
  OBVIOUS
<1>3. /\ walk \in Finites /\ Positive(walk) /\ skip \in Finites /\ Positive(skip)
      /\ sieve \in Finites /\ Positive(sieve)
  BY <1>2, MachineAssumption, RegimeIsOne, TimesAre
<1>4. ASSUME NEW loop, t.legs = Alone(loop),
             Takes(s, loop, k) \in Finites, Positive(Takes(s, loop, k))
      PROVE  Takes(s, t.legs[leg], k) \in Finites /\ Positive(Takes(s, t.legs[leg], k))
  <2>1. Len(t.legs) = 1 /\ t.legs[1] = loop
    BY <1>4, OneLeg
  <2>2. leg = 1
    BY <2>1
  <2> QED
    BY <1>4, <2>1, <2>2
<1>5. ASSUME NEW loop, t.legs = Paired(loop),
             Takes(s, loop, k) \in Finites, Positive(Takes(s, loop, k))
      PROVE  Takes(s, t.legs[leg], k) \in Finites /\ Positive(Takes(s, t.legs[leg], k))
  <2>1. Len(t.legs) = 3 /\ t.legs[1] = loop /\ t.legs[2] = SKIP_REF /\ t.legs[3] = WALK_REF
    BY <1>5, ThreeLegs
  <2>2. leg \in 1 .. 3
    BY <2>1
  <2>3. Takes(s, SKIP_REF, k) = skip /\ Takes(s, WALK_REF, k) = walk
    BY <1>2, ReferencesTake
  <2>4. leg = 1 \/ leg = 2 \/ leg = 3
    BY <2>2
  <2>5. CASE leg = 1
    BY <1>5, <2>1, <2>5
  <2>6. CASE leg = 2
    BY <1>3, <2>1, <2>3, <2>6
  <2>7. CASE leg = 3
    BY <1>3, <2>1, <2>3, <2>7
  <2> QED
    BY <2>4, <2>5, <2>6, <2>7
<1>6. CASE t.legs = Alone(WALK_REF) \/ t.legs = Alone(SKIP_REF)
  <2>1. Takes(s, WALK_REF, k) = walk /\ Takes(s, SKIP_REF, k) = skip
    BY <1>2, ReferencesTake
  <2>2. PICK a, b : a = WALK_REF /\ b = SKIP_REF
    OBVIOUS
  <2>3. CASE t.legs = Alone(a)
    BY <1>3, <1>4, <2>1, <2>2, <2>3
  <2>4. CASE t.legs = Alone(b)
    BY <1>3, <1>4, <2>1, <2>2, <2>4
  <2> QED
    BY <1>6, <2>2, <2>3, <2>4
<1>7. CASE t.legs = Paired(Loop("lead", t.of))
  <2>1. Takes(s, Loop("lead", t.of), k) = Skims(s, {t.of}, Machine.excursion)
    BY LeadTakes
  <2>2. PICK x : x = Skims(s, {t.of}, Machine.excursion)
    OBVIOUS
  <2>3. x \in Finites /\ Positive(x)
    BY <2>2, MachineAssumption, SkimsTakeTime
  <2> QED
    BY <1>5, <1>7, <2>1, <2>2, <2>3
<1>8. CASE t.legs = Paired(Loop("probe", t.of)) /\ IsTime(t.of.excursion)
  <2>1. Takes(s, Loop("probe", t.of), k) = Skims(s, t.of.leaves, t.of.excursion)
    BY ProbeTakes
  <2>2. PICK x : x = Skims(s, t.of.leaves, t.of.excursion)
    OBVIOUS
  <2>3. x \in Finites /\ Positive(x)
    BY <1>8, <2>2, SkimsTakeTime
  <2> QED
    BY <1>5, <1>8, <2>1, <2>2, <2>3
<1>9. CASE \E pattern : t.legs = Alone(Loop("sieve", pattern))
  <2>1. PICK pattern : t.legs = Alone(Loop("sieve", pattern))
    BY <1>9
  <2>2. Takes(s, Loop("sieve", pattern), k) = sieve
    BY <1>2, SieveTakes
  <2> QED
    BY <1>3, <1>4, <2>1, <2>2
<1> QED
  BY <1>1, <1>6, <1>7, <1>8, <1>9 DEF IsDrawnUp

\* Nothing but a sieve takes what the kernel makes it take.
EngineKinds == {"walk", "skip", "lead", "probe"}

LEMMA OnAnyKernel ==
  ASSUME NEW t, IsTiming(t), t.kind # "sieve", NEW leg \in 1 .. Len(t.legs)
  PROVE  t.legs[leg].kind \in EngineKinds
<1>1. IsDrawnUp(t)
  BY DEF IsTiming
<1>2. PICK a, b : a = WALK_REF /\ b = SKIP_REF
  OBVIOUS
<1>3. a.kind = "walk" /\ b.kind = "skip"
  BY <1>2 DEF WALK_REF, SKIP_REF, Loop
<1>4. ASSUME NEW loop, t.legs = Paired(loop), loop.kind \in EngineKinds
      PROVE  t.legs[leg].kind \in EngineKinds
  <2>1. Len(t.legs) = 3 /\ t.legs[1] = loop /\ t.legs[2] = b /\ t.legs[3] = a
    BY <1>2, <1>4, ThreeLegs
  <2>2. leg = 1 \/ leg = 2 \/ leg = 3
    BY <2>1
  <2>3. a.kind \in EngineKinds /\ b.kind \in EngineKinds
    BY <1>3 DEF EngineKinds
  <2> QED
    BY <1>4, <2>1, <2>2, <2>3
<1>5. ASSUME NEW loop, t.legs = Alone(loop), loop.kind \in EngineKinds
      PROVE  t.legs[leg].kind \in EngineKinds
  <2>1. Len(t.legs) = 1 /\ t.legs[1] = loop
    BY <1>5, OneLeg
  <2>2. leg = 1
    BY <2>1
  <2> QED
    BY <1>5, <2>1, <2>2
<1>6. CASE t.legs = Alone(a) \/ t.legs = Alone(b)
  <2>1. a.kind \in EngineKinds /\ b.kind \in EngineKinds
    BY <1>3 DEF EngineKinds
  <2> QED
    BY <1>5, <1>6, <2>1
<1>7. CASE t.legs = Paired(Loop("lead", t.of)) \/ t.legs = Paired(Loop("probe", t.of))
  <2>1. PICK l, p : l = Loop("lead", t.of) /\ p = Loop("probe", t.of)
    OBVIOUS
  <2>2. l.kind \in EngineKinds /\ p.kind \in EngineKinds
    BY <2>1 DEF Loop, EngineKinds
  <2> QED
    BY <1>4, <1>7, <2>1, <2>2
<1> QED
  BY <1>1, <1>2, <1>6, <1>7 DEF IsDrawnUp

LEMMA TakesAlike ==
  ASSUME NEW loop, loop.kind \in EngineKinds, NEW s, NEW k, NEW l
  PROVE  Takes(s, loop, k) = Takes(s, loop, l)
BY DEF Takes, EngineKinds

-----------------------------------------------------------------------------
(* Measure: a report nothing disturbed, as far as it has come.             *)

\* What a timing came to, by its kind: what its loop takes, or the excursion of its loop.
Told(s, result, t, k) ==
  /\ t.kind \notin {"lead", "Few", "Wide"} => result = Takes(s, t.legs[1], k)
  /\ t.kind = "lead" => result = Dropped \/ Comes(result, Machine.excursion)
  /\ t.kind \in {"Few", "Wide"} =>
       \/ result = Dropped
       \/ Comes(result, t.of.excursion) /\ Positive(Share(t.of.leaves, s.freq))

AllTold(s, results, k) == \A j \in DOMAIN results : Told(s, results[j], Schedule[j], k)

\* A leg that has run, and was not slowed every time it did.
AtPace(t, runs, least, slow) ==
  /\ least \in Disturbed(t)
  /\ runs = 0 => least = Inf
  /\ slow < runs => least \in {Zero, t}

\* How often a leg has run.
Runs(leg) == IF leg < slot THEN round + 1 ELSE round

Pace ==
  /\ DOMAIN slowed = DOMAIN best
  /\ round = Rounds => slot = 1
  /\ \A leg \in DOMAIN best : slowed[leg] \in 0 .. Runs(leg)
  /\ Quiet => \A leg \in DOMAIN best :
       AtPace(Takes(sample, Schedule[at].legs[leg], KernelNow), Runs(leg), best[leg], slowed[leg])

\* What a row says of its timings.
Solved(results) ==
  IF Solutions(results, "lead") = <<>> THEN FLOOR_EXCURSION ELSE Mean(Solutions(results, "lead"))
Reached(results, kind) ==
  IF Solutions(results, kind) = <<>> THEN Solved(results) ELSE Highest(Solutions(results, kind))
RowSays(row, results, regime) ==
  /\ row.dfa_walk = results[1] /\ row.dfa_skip[regime] = results[2]
  /\ row.dfa_excursion[regime] = Most(Solved(results), FLOOR_EXCURSION)
  /\ DOMAIN row.skip_excursion = {1, 2}
  /\ row.skip_excursion[1][regime] = Reached(results, "Few")
  /\ row.skip_excursion[2][regime] = Reached(results, "Wide")
  /\ \A n \in DOMAIN row.sieve :
       \/ row.sieve[n] = Zero
       \/ \E j \in DOMAIN results : Schedule[j].kind = "sieve" /\ row.sieve[n] = results[j]

\* While nothing disturbs a report, every leg has run at its own pace but for rounds that
\* another outdid, and every timing came to what its loops take.
QuietInv ==
  /\ memo \in {NoKernel} \cup Kernels
  /\ IsSample(sample)
  /\ stage = "timing" =>
       /\ ~HoldsSentinel(sample.docs)
       /\ Pace
       /\ Quiet => AllTold(sample, times, KernelNow)
  /\ IsRow(outcome) =>
       /\ Len(times) = Len(Schedule)
       /\ RowSays(outcome, times, Regime(sample.docs))
       /\ Quiet => AllTold(sample, times, outcome.kernel)

-----------------------------------------------------------------------------
(* Measure: such a row predicts what it timed.                             *)

\* A row with the references of a sample blends as they do.
LEMMA BlendsAlike ==
  ASSUME NEW cal, NEW s, cal.dfa_walk = Machine.walk, cal.dfa_skip = Machine.skip[Regime(s.docs)],
         NEW escape, NEW excursion
  PROVE  Blend(cal, escape, excursion) = Blend(References(s), escape, excursion)
<1>1. /\ References(s).dfa_walk = Machine.walk
      /\ References(s).dfa_skip = Machine.skip[Regime(s.docs)]
  BY DEF References
<1> QED
  BY <1>1 DEF Blend

\* The higher the excursion the higher the price, capped or not.
LEMMA SkimsOrdered ==
  ASSUME NEW s, IsSample(s), NEW leaves, NEW low \in Finites, NEW high \in Finites, AtMost(low, high)
  PROVE  ~Less(Least(Skims(s, leaves, high), Machine.walk), Least(Skims(s, leaves, low), Machine.walk))
<1>1. PICK a, b, c : a = Skims(s, leaves, low) /\ b = Skims(s, leaves, high) /\ c = Machine.walk
  OBVIOUS
<1>2. Blends(References(s), Share(leaves, s.freq), low) /\ Blends(References(s), Share(leaves, s.freq), high)
  BY ReferencesBlend
<1>3. a \in Finites /\ b \in Finites /\ AtMost(a, b)
  BY <1>1, <1>2, BlendGrows DEF Skims
<1>4. c \in Finites
  BY <1>1, MachineAssumption, TimesAre
<1>5. a \in Numbers /\ b \in Numbers /\ c \in Numbers
  BY <1>3, <1>4, NumbersFrom
<1>6. AtMost(Least(a, c), Least(b, c))
  BY <1>3, <1>5, CappedOrdered
<1> QED
  BY <1>1, <1>6 DEF AtMost

LEMMA SkimsCapped ==
  ASSUME NEW s, IsSample(s), NEW leaves, NEW excursion \in Finites
  PROVE  ~IsNaN(Least(Skims(s, leaves, excursion), Machine.walk))
<1>1. PICK a, c : a = Skims(s, leaves, excursion) /\ c = Machine.walk
  OBVIOUS
<1>2. Blends(References(s), Share(leaves, s.freq), excursion)
  BY ReferencesBlend
<1>3. AtMost(excursion, excursion)
  BY Ordered, NumbersFrom
<1>4. a \in Finites
  BY <1>1, <1>2, <1>3, BlendGrows DEF Skims
<1>5. c \in Finites
  BY <1>1, MachineAssumption, TimesAre
<1>6. a \in Numbers /\ c \in Numbers
  BY <1>4, <1>5, NumbersFrom
<1>7. Least(a, c) \in Numbers
  BY <1>6, LeastIsLeast
<1> QED
  BY <1>1, <1>7 DEF Numbers, IsNaN

\* What the solutions of a report come to.
LEMMA EngineSolved ==
  ASSUME NEW s, NEW results, NEW k, Listed(results), Len(results) = Len(Schedule),
         AllTold(s, results, k), Solutions(results, "lead") # <<>>
  PROVE  Comes(Solved(results), Machine.excursion)
<1>1. PICK each : each = Solutions(results, "lead")
  OBVIOUS
<1>2. Listed(each)
  BY <1>1, SolutionsFacts
<1>3. \A i \in 1 .. Len(each) : \E j \in DOMAIN results : Kept(results, "lead", j) /\ each[i] = results[j]
  BY <1>1, SolutionsFacts
<1>4. ASSUME NEW i \in 1 .. Len(each) PROVE Comes(each[i], Machine.excursion)
  <2>1. PICK j \in DOMAIN results : Kept(results, "lead", j) /\ each[i] = results[j]
    BY <1>3
  <2>2. Told(s, results[j], Schedule[j], k)
    BY DEF AllTold
  <2> QED
    BY <2>1, <2>2 DEF Told, Kept
<1>5. Len(each) >= 1
  <2>1. Len(each) \in Nat /\ each \in Seq({each[i] : i \in DOMAIN each})
    BY <1>2, ListedFacts DEF Listed
  <2>2. Len(each) # 0
    BY <1>1, <2>1, EmptySeq
  <2> QED
    BY <2>1, <2>2
<1>6. Comes(Mean(each), Machine.excursion)
  BY <1>2, <1>4, <1>5, MeanIs
<1> QED
  BY <1>1, <1>6 DEF Solved

LEMMA SolutionsKeep ==
  ASSUME NEW results, Listed(results), NEW kind, NEW j \in DOMAIN results, Kept(results, kind, j)
  PROVE  \E i \in 1 .. Len(Solutions(results, kind)) : Solutions(results, kind)[i] = results[j]
<1>1. \A h \in DOMAIN results : Kept(results, kind, h) =>
        \E i \in 1 .. Len(Solutions(results, kind)) : Solutions(results, kind)[i] = results[h]
  BY SolutionsFacts
<1> QED
  BY <1>1

LEMMA ReachedIs ==
  ASSUME NEW results, Listed(results), NEW kind, NEW j \in DOMAIN results, Kept(results, kind, j),
         \A h \in DOMAIN results : Kept(results, kind, h) => results[h] \in Finites
  PROVE  Reached(results, kind) \in Finites /\ AtMost(results[j], Reached(results, kind))
<1>1. PICK each : each = Solutions(results, kind)
  OBVIOUS
<1>2. Listed(each)
  BY <1>1, SolutionsFacts
<1>3. \A i \in 1 .. Len(each) : \E h \in DOMAIN results : Kept(results, kind, h) /\ each[i] = results[h]
  BY <1>1, SolutionsFacts
<1>4. \A i \in 1 .. Len(each) : each[i] \in Finites
  BY <1>3
<1>5. Highest(each) \in Finites /\ \A i \in 1 .. Len(each) : AtMost(each[i], Highest(each))
  BY <1>2, <1>4, HighestIs
<1>6. PICK i \in 1 .. Len(each) : each[i] = results[j]
  BY <1>1, SolutionsKeep
<1>7. each # <<>>
  <2>1. Len(<<>>) = 0
    BY EmptyIsListed
  <2> QED
    BY <1>6, <2>1
<1>8. Reached(results, kind) = Highest(each)
  BY <1>1, <1>7 DEF Reached
<1> QED
  BY <1>5, <1>6, <1>8

LEMMA ProbesReached ==
  ASSUME NEW s, NEW results, NEW k, Listed(results), AllTold(s, results, k),
         NEW kind, kind = "Few" \/ kind = "Wide", NEW j \in DOMAIN results, Kept(results, kind, j)
  PROVE  /\ Comes(results[j], Schedule[j].of.excursion)
         /\ Positive(Share(Schedule[j].of.leaves, s.freq))
         /\ Reached(results, kind) \in Finites /\ AtMost(results[j], Reached(results, kind))
<1>1. ASSUME NEW h \in DOMAIN results, Kept(results, kind, h)
      PROVE  /\ Comes(results[h], Schedule[h].of.excursion)
             /\ Positive(Share(Schedule[h].of.leaves, s.freq))
  <2>1. Told(s, results[h], Schedule[h], k)
    BY DEF AllTold
  <2> QED
    BY <1>1, <2>1 DEF Told, Kept
<1>2. \A h \in DOMAIN results : Kept(results, kind, h) => results[h] \in Finites
  BY <1>1 DEF Comes
<1> QED
  BY <1>1, <1>2, ReachedIs

LEMMA QuietPredicts == MeasureInv /\ QuietInv => PredictsWhatItTimed
<1> SUFFICES ASSUME MeasureInv, QuietInv, IsRow(outcome), Quiet PROVE PredictsWhatItTimed
  BY DEF PredictsWhatItTimed
<1>1. PICK s, k, r : s = sample /\ k = outcome.kernel /\ r = Regime(sample.docs)
  OBVIOUS
<1>2. /\ Listed(times) /\ Len(times) = Len(Schedule)
      /\ RowSays(outcome, times, r) /\ AllTold(s, times, k)
      /\ IsSample(s) /\ r \in Residency
  BY <1>1, RegimeIsOne DEF MeasureInv, QuietInv
<1>3. DOMAIN times = 1 .. Len(Schedule) /\ DOMAIN Schedule = 1 .. Len(Schedule)
      /\ 1 \in DOMAIN times /\ 2 \in DOMAIN times /\ \A i \in DOMAIN times : IsTiming(Schedule[i])
  BY <1>2, ListedFacts, ScheduleFacts DEF TimingsOnly
<1>4. PICK cal : cal = Column(outcome, r)
  OBVIOUS
<1>5. /\ cal.dfa_walk = outcome.dfa_walk /\ cal.dfa_skip = outcome.dfa_skip[r]
      /\ cal.dfa_excursion = outcome.dfa_excursion[r] /\ cal.sieve = outcome.sieve
      /\ \A i \in DOMAIN outcome.skip_excursion : cal.skip_excursion[i] = outcome.skip_excursion[i][r]
  BY <1>4 DEF Column
<1>6. ASSUME NEW i \in DOMAIN times, NEW loop, Schedule[i].legs = Alone(loop),
             Schedule[i].kind \notin {"lead", "Few", "Wide"}
      PROVE  times[i] = Takes(s, loop, k)
  <2>1. Told(s, times[i], Schedule[i], k)
    BY <1>2 DEF AllTold
  <2>2. times[i] = Takes(s, Schedule[i].legs[1], k)
    BY <1>6, <2>1 DEF Told
  <2>3. Schedule[i].legs[1] = loop
    BY <1>6, OneLeg
  <2> QED
    BY <2>2, <2>3
<1>7. cal.dfa_walk = Machine.walk /\ cal.dfa_skip = Machine.skip[r]
  <2>1. Schedule[1].kind = "walk" /\ Schedule[2].kind = "skip"
        /\ IsDrawnUp(Schedule[1]) /\ IsDrawnUp(Schedule[2])
    BY <1>3, ScheduleFacts DEF IsTiming
  <2>2. Schedule[1].legs = Alone(WALK_REF) /\ Schedule[2].legs = Alone(SKIP_REF)
    BY <2>1 DEF IsDrawnUp
  <2>3. PICK a, b : a = WALK_REF /\ b = SKIP_REF
    OBVIOUS
  <2>4. times[1] = Takes(s, a, k) /\ times[2] = Takes(s, b, k)
    BY <1>3, <1>6, <2>1, <2>2, <2>3
  <2>5. Takes(s, a, k) = Machine.walk /\ Takes(s, b, k) = Machine.skip[r]
    BY <1>1, <2>3, ReferencesTake
  <2> QED
    BY <1>2, <1>5, <2>4, <2>5 DEF RowSays
<1>8. ASSUME NEW leaves, NEW excursion
      PROVE  /\ Blend(cal, Share(leaves, s.freq), excursion) = Skims(s, leaves, excursion)
             /\ Skimmed(Machine.skip[r], EscapeOf(leaves), excursion) = Skims(s, leaves, excursion)
  BY <1>1, <1>7, BlendsAlike, SkimmedIs DEF Skims
<1>9. ASSUME Solutions(times, "lead") # <<>>, NEW lead \in {Leads[i] : i \in DOMAIN Leads}
      PROVE  Same(RivalPerByte(cal, {lead}, sample.freq),
                  Least(Skimmed(Machine.skip[r], EscapeOf({lead}), Most(Machine.excursion, FLOOR_EXCURSION)),
                        Machine.walk))
  <2>1. Comes(Solved(times), Machine.excursion)
    BY <1>2, <1>9, EngineSolved
  <2>2. PICK x, y, leaves : /\ x = Most(Solved(times), FLOOR_EXCURSION)
                            /\ y = Most(Machine.excursion, FLOOR_EXCURSION)
                            /\ leaves = {lead}
    OBVIOUS
  <2>3. x \in Finites /\ y \in Finites /\ AtMost(x, y) /\ AtMost(y, x)
    BY <2>1, <2>2, MostAlike, ZeroOne DEF FLOOR_EXCURSION
  <2>4. cal.dfa_excursion = x
    BY <1>2, <1>5, <2>2 DEF RowSays
  <2>5. RivalPerByte(cal, leaves, s.freq) = Least(Skims(s, leaves, x), Machine.walk)
    BY <1>7, <1>8, <2>2, <2>4 DEF RivalPerByte
  <2>6. Skimmed(Machine.skip[r], EscapeOf(leaves), y) = Skims(s, leaves, y)
    BY <1>8
  <2>7. /\ ~Less(Least(Skims(s, leaves, x), Machine.walk), Least(Skims(s, leaves, y), Machine.walk))
        /\ ~Less(Least(Skims(s, leaves, y), Machine.walk), Least(Skims(s, leaves, x), Machine.walk))
        /\ ~IsNaN(Least(Skims(s, leaves, x), Machine.walk))
        /\ ~IsNaN(Least(Skims(s, leaves, y), Machine.walk))
    BY <1>2, <2>3, SkimsOrdered, SkimsCapped
  <2> QED
    BY <1>1, <2>2, <2>5, <2>6, <2>7 DEF Same
<1>10. ASSUME NEW i \in DOMAIN times, Schedule[i].kind \in {"Few", "Wide"}, times[i] # Dropped
       PROVE  ~Less(SkipPerByte(cal, [leaves |-> Schedule[i].of.leaves,
                                      instrument |-> IF Schedule[i].kind = "Few" THEN 1 ELSE 2],
                                sample.freq),
                    Least(FullTime(Loop("probe", Schedule[i].of), outcome.kernel), Machine.walk))
  <2>1. PICK kind, of, q : /\ kind = Schedule[i].kind /\ of = Schedule[i].of
                           /\ q = [leaves |-> of.leaves, instrument |-> IF kind = "Few" THEN 1 ELSE 2]
    OBVIOUS
  <2>2. Kept(times, kind, i) /\ kind \in {"Few", "Wide"}
    BY <1>10, <2>1 DEF Kept
  <2>3. /\ Comes(times[i], of.excursion) /\ Positive(Share(of.leaves, s.freq))
        /\ Reached(times, kind) \in Finites /\ AtMost(times[i], Reached(times, kind))
    BY <1>2, <2>1, <2>2, ProbesReached
  <2>4. PICK x, y, leaves : x = Reached(times, kind) /\ y = of.excursion /\ leaves = of.leaves
    OBVIOUS
  <2>5. x \in Finites /\ y \in Finites /\ AtMost(y, x)
    <3>1. times[i] \in Numbers /\ y \in Numbers /\ AtMost(y, times[i]) /\ y \in Finites
      BY <2>3, <2>4, ComesAlike DEF Comes
    <3>2. x \in Finites /\ x \in Numbers /\ AtMost(times[i], x)
      BY <2>3, <2>4, NumbersFrom
    <3> QED
      BY <3>1, <3>2, AtMostTransitive
  <2>6. leaves # {}
    BY <1>2, <2>3, <2>4, EscapesAre, ZeroNotPositive
  <2>7. cal.skip_excursion[q.instrument] = x /\ q.leaves = leaves
    <3>1. q.leaves = leaves /\ q.instrument = IF kind = "Few" THEN 1 ELSE 2
      BY <2>1, <2>4
    <3>2. CASE kind = "Few"
      BY <1>2, <1>5, <2>4, <3>1, <3>2 DEF RowSays
    <3>3. CASE kind = "Wide"
      BY <1>2, <1>5, <2>4, <3>1, <3>3 DEF RowSays
    <3> QED
      BY <2>2, <3>1, <3>2, <3>3
  <2>8. SkipPerByte(cal, q, s.freq) = Least(Skims(s, leaves, x), Machine.walk)
    BY <1>7, <1>8, <2>6, <2>7 DEF SkipPerByte
  <2>9. FullTime(Loop("probe", of), k) = Skims(s, leaves, y)
    BY <1>1, <2>4, FullTimeIs, ProbeTakes
  <2>10. ~Less(Least(Skims(s, leaves, x), Machine.walk), Least(Skims(s, leaves, y), Machine.walk))
    BY <1>2, <2>5, SkimsOrdered
  <2> QED
    BY <1>1, <2>1, <2>8, <2>9, <2>10
<1>11. ASSUME NEW n \in DOMAIN cal.sieve
       PROVE  cal.sieve[n] \in {Zero, Machine.sieve[outcome.kernel]}
  <2>1. CASE cal.sieve[n] = Zero
    BY <2>1
  <2>2. CASE \E j \in DOMAIN times : Schedule[j].kind = "sieve" /\ cal.sieve[n] = times[j]
    <3>1. PICK j \in DOMAIN times : Schedule[j].kind = "sieve" /\ cal.sieve[n] = times[j]
      BY <2>2
    <3>2. IsDrawnUp(Schedule[j])
      BY <1>3 DEF IsTiming
    <3>3. PICK pattern : Schedule[j].legs = Alone(Loop("sieve", pattern))
      BY <3>1, <3>2 DEF IsDrawnUp
    <3>4. PICK loop : loop = Loop("sieve", pattern)
      OBVIOUS
    <3>5. times[j] = Takes(s, loop, k)
      BY <1>6, <3>1, <3>3, <3>4
    <3>6. Takes(s, loop, k) = Machine.sieve[k]
      BY <3>4, SieveTakes
    <3> QED
      BY <1>1, <3>1, <3>5, <3>6
  <2> QED
    BY <1>2, <1>5, <2>1, <2>2 DEF RowSays
<1> QED
  BY <1>1, <1>4, <1>7, <1>9, <1>10, <1>11 DEF PredictsWhatItTimed

-----------------------------------------------------------------------------
(* Measure: every step keeps to it.                                        *)

LEMMA KernelAtHand == memo \in {NoKernel} \cup Kernels => KernelNow \in Kernels
BY DEF KernelNow, Kernels

\* The legs of a timing have not run.
LEMMA FreshPaces ==
  ASSUME NEW legs, Listed(legs), Fresh(legs)
  PROVE  Pace'
<1>1. Len(legs) \in Nat /\ DOMAIN legs = 1 .. Len(legs)
  BY ListedFacts
<1>2. PICK b, w : b = best' /\ w = slowed'
  OBVIOUS
<1>3. /\ b = [i \in 1 .. Len(legs) |-> Inf] /\ w = [i \in 1 .. Len(legs) |-> 0]
      /\ slot' = 1 /\ round' = 0
  BY <1>1, <1>2 DEF Fresh
<1>4. ASSUME NEW leg \in 1 .. Len(legs)
      PROVE  b[leg] = Inf /\ w[leg] = 0 /\ Runs(leg)' = 0
  BY <1>3 DEF Runs
<1>5. ASSUME NEW t PROVE AtPace(t, 0, Inf, 0)
  BY DEF AtPace, Disturbed
<1>6. DOMAIN b = 1 .. Len(legs) /\ DOMAIN w = 1 .. Len(legs)
  BY <1>3
<1> QED
  BY <1>2, <1>3, <1>4, <1>5, <1>6 DEF Pace

LEMMA ReportStaysQuiet == MeasureInv /\ QuietInv /\ Report => QuietInv'
<1> SUFFICES ASSUME MeasureInv, QuietInv, Report PROVE QuietInv'
  OBVIOUS
<1>1. /\ stage = "idle" /\ ~IsRow(outcome) /\ times = <<>>
      /\ memo \in {NoKernel} \cup Kernels /\ IsSample(sample)
  BY DEF Report, MeasureInv, QuietInv
<1>2. CASE \E why : Decline(why)
  <2>1. PICK why : Decline(why)
    BY <1>2
  <2>2. stage' = "done" /\ ~IsRow(outcome')
    BY <2>1, ErrIsNoRow DEF Decline
  <2>3. UNCHANGED <<sample, memo>>
    BY <2>1 DEF Decline, Report
  <2> QED
    BY <1>1, <2>2, <2>3 DEF QuietInv
<1>3. CASE /\ ~HoldsSentinel(sample.docs)
           /\ stage' = "timing" /\ Fresh(Schedule[1].legs)
           /\ UNCHANGED <<sample, at, times, outcome, spoilt, gaveUp, ranOn, torn, memo>>
  <2>1. IsTiming(Schedule[1])
    BY ScheduleFacts DEF TimingsOnly
  <2>2. Pace'
    BY <1>3, <2>1, FreshPaces DEF IsTiming
  <2>3. AllTold(sample', times', KernelNow')
    BY <1>1, <1>3 DEF AllTold
  <2> QED
    BY <1>1, <1>3, <2>2, <2>3 DEF QuietInv
<1> QED
  BY <1>2, <1>3 DEF Report

LEMMA TraverseStaysQuiet == MeasureInv /\ QuietInv /\ Traverse => QuietInv'
<1> SUFFICES ASSUME MeasureInv, QuietInv, Traverse PROVE QuietInv'
  OBVIOUS
<1>1. /\ stage = "timing" /\ round < Rounds /\ ~IsRow(outcome)
      /\ at \in DOMAIN Schedule /\ round \in 0 .. Rounds
      /\ Listed(best) /\ Len(best) = Len(Schedule[at].legs) /\ slot \in DOMAIN best
  BY DEF Traverse, MeasureInv, InProgress
<1>2. /\ memo \in {NoKernel} \cup Kernels /\ IsSample(sample) /\ ~HoldsSentinel(sample.docs)
      /\ DOMAIN slowed = DOMAIN best
      /\ \A leg \in DOMAIN best : slowed[leg] \in 0 .. Runs(leg)
      /\ Quiet => \A leg \in DOMAIN best :
           AtPace(Takes(sample, Schedule[at].legs[leg], KernelNow), Runs(leg), best[leg], slowed[leg])
      /\ Quiet => AllTold(sample, times, KernelNow)
  BY <1>1 DEF QuietInv, Pace
<1>3. PICK loop, k : loop = Schedule[at].legs[slot] /\ k = KernelNow
  OBVIOUS
<1>4. PICK t : t = Takes(sample, loop, k)
  OBVIOUS
<1>5. /\ memo' = IF UsesKernel(loop) THEN k ELSE memo
      /\ gaveUp' = IF StopsEarly(loop) THEN gaveUp \cup {loop} ELSE gaveUp
      /\ IF slot < Len(best) THEN slot' = slot + 1 /\ round' = round
                             ELSE slot' = 1 /\ round' = round + 1
      /\ UNCHANGED <<sample, stage, at, times, outcome, spoilt, torn>>
  BY <1>3 DEF Traverse
<1>6. k \in Kernels /\ memo' \in {NoKernel} \cup Kernels /\ KernelNow' = k
  <2>1. k \in Kernels
    BY <1>2, <1>3, KernelAtHand
  <2>2. k # NoKernel
    BY <1>3, KernelNowFacts
  <2> QED
    BY <1>2, <1>3, <1>5, <2>1, <2>2 DEF KernelNow
<1>7. /\ Len(best) \in Nat /\ DOMAIN best = 1 .. Len(best) /\ slot \in 1 .. Len(best)
      /\ IsTiming(Schedule[at])
  BY <1>1, ListedFacts, ScheduleFacts DEF TimingsOnly
<1>8. t \in Finites /\ Positive(t)
  BY <1>1, <1>2, <1>3, <1>4, <1>6, <1>7, LegsTakeTime
<1>9. FullTime(loop, k) = t
  BY <1>4, FullTimeIs
<1>10. PICK next :
         /\ best' = [best EXCEPT ![slot] = Faster(best[slot], next)]
         /\ \/ slowed' = [slowed EXCEPT ![slot] = slowed[slot] + 1]
            \/ slowed' = slowed
         /\ ~StopsEarly(loop) =>
              \/ next = Times(F(2), t) /\ slowed' = [slowed EXCEPT ![slot] = slowed[slot] + 1]
              \/ next \in {Zero, t} /\ slowed' = slowed
  <2>1. PICK time : time = IF StopsEarly(loop) THEN Early ELSE FullTime(loop, k)
    OBVIOUS
  <2>2. PICK disturbance \in {"none", "slowed", "no time"} :
          /\ best' = [best EXCEPT ![slot] = Faster(@,
                        IF disturbance = "slowed" THEN Times(F(2), time)
                        ELSE IF disturbance = "no time" THEN Zero ELSE time)]
          /\ slowed' = IF disturbance = "slowed" THEN [slowed EXCEPT ![slot] = @ + 1] ELSE slowed
    BY <1>3, <2>1 DEF Traverse
  <2>3. PICK next : next = IF disturbance = "slowed" THEN Times(F(2), time)
                           ELSE IF disturbance = "no time" THEN Zero ELSE time
    OBVIOUS
  <2>4. best' = [best EXCEPT ![slot] = Faster(best[slot], next)]
    BY <2>2, <2>3
  <2>5. ~StopsEarly(loop) => time = t
    BY <1>9, <2>1
  <2>6. CASE disturbance = "slowed"
    BY <2>2, <2>3, <2>4, <2>5, <2>6
  <2>7. CASE disturbance # "slowed"
    BY <2>2, <2>3, <2>4, <2>5, <2>7
  <2> QED
    BY <2>6, <2>7
<1>11. Quiet' => Quiet /\ ~StopsEarly(loop)
  <2>1. StopsEarly(loop) => UsesKernel(loop)
    BY <1>2 DEF StopsEarly, HoldsSentinel
  <2> QED
    BY <1>5, <2>1 DEF Quiet
<1>12. /\ Runs(slot) = round /\ round \in Nat
       /\ \A leg \in DOMAIN best : Runs(leg)' = IF leg = slot THEN round + 1 ELSE Runs(leg)
       /\ \A leg \in DOMAIN best : Runs(leg) \in Nat
       /\ round' = Rounds => slot' = 1
  <2>1. round \in Nat /\ Rounds \in Nat
    BY <1>1, RoundsFacts
  <2>2. Runs(slot) = round /\ \A leg \in DOMAIN best : Runs(leg) \in Nat
    BY <1>7, <2>1 DEF Runs
  <2>3. CASE slot < Len(best)
    <3>1. slot' = slot + 1 /\ round' = round
      BY <1>5, <2>3
    <3>2. \A leg \in DOMAIN best : Runs(leg)' = IF leg = slot THEN round + 1 ELSE Runs(leg)
      BY <1>7, <2>1, <3>1 DEF Runs
    <3> QED
      BY <1>1, <2>1, <2>2, <3>1, <3>2
  <2>4. CASE ~(slot < Len(best))
    <3>1. slot' = 1 /\ round' = round + 1
      BY <1>5, <2>4
    <3>2. \A leg \in DOMAIN best : Runs(leg)' = IF leg = slot THEN round + 1 ELSE Runs(leg)
      BY <1>7, <2>1, <2>4, <3>1 DEF Runs
    <3> QED
      BY <2>1, <2>2, <3>1, <3>2
  <2> QED
    BY <2>3, <2>4
<1>13. DOMAIN slowed' = DOMAIN best' /\ DOMAIN best' = DOMAIN best
  BY <1>2, <1>10
<1>14. \A leg \in DOMAIN best : slowed'[leg] \in 0 .. Runs(leg)'
  <2> SUFFICES ASSUME NEW leg \in DOMAIN best PROVE slowed'[leg] \in 0 .. Runs(leg)'
    OBVIOUS
  <2>1. slowed[leg] \in 0 .. Runs(leg)
    BY <1>2
  <2>2. CASE leg = slot
    <3>1. slowed'[leg] = slowed[leg] \/ slowed'[leg] = slowed[leg] + 1
      BY <1>2, <1>10, <2>2
    <3> QED
      BY <1>12, <2>1, <2>2, <3>1
  <2>3. CASE leg # slot
    <3>1. slowed'[leg] = slowed[leg]
      BY <1>2, <1>10, <2>3
    <3> QED
      BY <1>12, <2>1, <2>3, <3>1
  <2> QED
    BY <2>2, <2>3
<1>15. ASSUME Quiet', NEW leg \in DOMAIN best
       PROVE  AtPace(Takes(sample', Schedule[at'].legs[leg], KernelNow'), Runs(leg)', best'[leg], slowed'[leg])
  <2>1. PICK u, r, b, w : /\ u = Takes(sample, Schedule[at].legs[leg], k)
                          /\ r = Runs(leg) /\ b = best[leg] /\ w = slowed[leg]
    OBVIOUS
  <2>2. AtPace(u, r, b, w) /\ r \in Nat /\ w \in 0 .. r
    BY <1>2, <1>3, <1>11, <1>12, <1>15, <2>1
  <2>3. Takes(sample', Schedule[at'].legs[leg], KernelNow') = u
    BY <1>5, <1>6, <2>1
  <2>4. CASE leg # slot
    <3>1. Runs(leg)' = r /\ best'[leg] = b /\ slowed'[leg] = w
      BY <1>2, <1>10, <1>12, <2>1, <2>4
    <3> QED
      BY <2>2, <2>3, <3>1
  <2>5. CASE leg = slot
    <3>1. u = t /\ r = round /\ Runs(leg)' = r + 1 /\ best'[leg] = Faster(b, next)
      BY <1>3, <1>4, <1>10, <1>12, <2>1, <2>5
    <3>2. \/ next = Times(F(2), t) /\ slowed'[leg] = w + 1
          \/ next \in {Zero, t} /\ slowed'[leg] = w
      BY <1>2, <1>10, <1>11, <1>15, <2>1, <2>5
    <3>3. b \in Disturbed(t) /\ (w < r => b \in {Zero, t})
      BY <2>2, <3>1 DEF AtPace
    <3>4. PICK faster : faster = Faster(b, next)
      OBVIOUS
    <3>5. /\ faster \in Disturbed(t)
          /\ next # Times(F(2), t) \/ b \in {Zero, t} => faster \in {Zero, t}
      BY <1>8, <3>2, <3>3, <3>4, FasterFacts
    <3>6. next \in {Zero, t} => next # Times(F(2), t)
      <4>1. t \in Numbers /\ Times(F(2), t) \in Numbers /\ Zero \in Numbers
        BY <1>8, Doubled, ZeroOne, NumbersFrom
      <4>2. Less(t, Times(F(2), t)) /\ Less(Zero, Times(F(2), t))
        BY <1>8, Doubled DEF Positive
      <4>3. ~Less(t, t) /\ ~Less(Zero, Zero)
        BY <4>1, Ordered DEF AtMost
      <4> QED
        BY <4>2, <4>3
    <3>7. slowed'[leg] < r + 1 => faster \in {Zero, t}
      <4>1. CASE next \in {Zero, t}
        BY <3>5, <3>6, <4>1
      <4>2. CASE slowed'[leg] = w + 1
        BY <2>2, <3>3, <3>5, <4>2
      <4> QED
        BY <3>2, <4>1, <4>2
    <3>8. r + 1 # 0
      BY <2>2
    <3>9. AtPace(t, r + 1, faster, slowed'[leg])
      BY <3>5, <3>7, <3>8 DEF AtPace
    <3> QED
      BY <2>3, <3>1, <3>4, <3>9
  <2> QED
    BY <2>4, <2>5
<1>16. Pace'
  BY <1>12, <1>13, <1>14, <1>15 DEF Pace
<1>17. Quiet' => AllTold(sample', times', KernelNow')
  BY <1>2, <1>3, <1>5, <1>6, <1>11
<1> QED
  BY <1>1, <1>2, <1>5, <1>6, <1>16, <1>17 DEF QuietInv

\* One undisturbed round of each leg is enough for what the timing comes to.
LEMMA ResultIsTold ==
  ASSUME MeasureInv, QuietInv, stage = "timing", round = Rounds, Quiet,
         \A leg \in DOMAIN slowed : slowed[leg] # Rounds,
         Solves \/ ~NoElapsedTime
  PROVE  Told(sample, Result, Schedule[at], KernelNow)
<1>1. /\ at \in DOMAIN Schedule
      /\ Listed(best) /\ Len(best) = Len(Schedule[at].legs)
      /\ memo \in {NoKernel} \cup Kernels /\ IsSample(sample)
      /\ DOMAIN slowed = DOMAIN best /\ slot = 1
      /\ \A leg \in DOMAIN best : slowed[leg] \in 0 .. Runs(leg)
      /\ \A leg \in DOMAIN best :
           AtPace(Takes(sample, Schedule[at].legs[leg], KernelNow), Runs(leg), best[leg], slowed[leg])
  BY DEF MeasureInv, InProgress, QuietInv, Pace
<1>2. PICK s, k, t, legs : s = sample /\ k = KernelNow /\ t = Schedule[at] /\ legs = Schedule[at].legs
  OBVIOUS
<1>3. /\ k \in Kernels /\ IsTiming(t) /\ legs = t.legs /\ IsSample(s)
      /\ DOMAIN best = 1 .. Len(best) /\ Len(best) \in Nat
      /\ Len(best) = Len(legs) /\ Len(legs) >= 1
  BY <1>1, <1>2, KernelAtHand, ListedFacts, ScheduleFacts DEF TimingsOnly, IsTiming
<1>4. ASSUME NEW leg \in DOMAIN best
      PROVE  /\ best[leg] \in {Zero, Takes(s, legs[leg], k)}
             /\ Takes(s, legs[leg], k) \in Finites
  <2>1. Runs(leg) = Rounds
    BY <1>1, <1>3 DEF Runs
  <2>2. slowed[leg] < Runs(leg)
    BY <1>1, <2>1, RoundsFacts
  <2>3. best[leg] \in {Zero, Takes(s, legs[leg], k)}
    BY <1>1, <1>2, <2>2 DEF AtPace
  <2>4. leg \in 1 .. Len(t.legs)
    BY <1>3
  <2>5. Takes(s, legs[leg], k) \in Finites
    BY <1>3, <2>4, LegsTakeTime
  <2> QED
    BY <2>3, <2>5
<1>5. ASSUME ~NoElapsedTime, NEW leg \in DOMAIN best PROVE best[leg] = Takes(s, legs[leg], k)
  <2>1. Positive(best[leg])
    BY <1>5 DEF NoElapsedTime
  <2>2. best[leg] # Zero
    BY <2>1, ZeroNotPositive
  <2> QED
    BY <1>4, <2>2
<1>6. Solves <=> t.kind \in {"lead", "Few", "Wide"}
  BY <1>2 DEF Solves
<1>7. CASE ~Solves
  <2>1. 1 \in DOMAIN best /\ ~NoElapsedTime /\ Result = best[1]
    BY <1>3, <1>7 DEF Result
  <2>2. Result = Takes(s, t.legs[1], k)
    BY <1>3, <1>5, <2>1
  <2>3. Told(s, Result, t, k)
    BY <1>6, <1>7, <2>2 DEF Told
  <2> QED
    BY <1>2, <2>3
<1>8. CASE Solves /\ NoElapsedTime
  <2>1. Result = Dropped
    BY <1>8 DEF Result
  <2>2. Told(s, Result, t, k)
    BY <1>6, <1>8, <2>1 DEF Told
  <2> QED
    BY <1>2, <2>2
<1>9. CASE Solves /\ ~NoElapsedTime
  <2>1. PICK leaves, excursion, loop :
          /\ legs = Paired(loop)
          /\ Takes(s, loop, k) = Skims(s, leaves, excursion)
          /\ IsTime(excursion)
          /\ Escapes(t) = Share(leaves, s.freq)
          /\ \/ t.kind = "lead" /\ excursion = Machine.excursion
             \/ /\ t.kind \in {"Few", "Wide"} /\ leaves = t.of.leaves /\ excursion = t.of.excursion
    <3>1. IsDrawnUp(t)
      BY <1>3 DEF IsTiming
    <3>2. CASE t.kind = "lead"
      <4>1. legs = Paired(Loop("lead", t.of))
        BY <1>3, <3>1, <3>2 DEF IsDrawnUp
      <4>2. PICK leaves, loop : leaves = {t.of} /\ loop = Loop("lead", t.of)
        OBVIOUS
      <4>3. Takes(s, Loop("lead", t.of), k) = Skims(s, {t.of}, Machine.excursion)
        BY LeadTakes
      <4>4. Escapes(t) = Share(leaves, s.freq)
        BY <1>2, <3>2, <4>2 DEF Escapes, EscapeOf
      <4> QED
        BY <3>2, <4>1, <4>2, <4>3, <4>4, MachineAssumption
    <3>3. CASE t.kind \in {"Few", "Wide"}
      <4>1. legs = Paired(Loop("probe", t.of)) /\ IsTime(t.of.excursion)
        BY <1>3, <3>1, <3>3 DEF IsDrawnUp
      <4>2. PICK leaves, loop : leaves = t.of.leaves /\ loop = Loop("probe", t.of)
        OBVIOUS
      <4>3. Takes(s, Loop("probe", t.of), k) = Skims(s, t.of.leaves, t.of.excursion)
        BY ProbeTakes
      <4>4. Escapes(t) = Share(leaves, s.freq)
        BY <1>2, <3>3, <4>2 DEF Escapes, EscapeOf
      <4> QED
        BY <3>3, <4>1, <4>2, <4>3, <4>4
    <3> QED
      BY <1>6, <1>9, <3>2, <3>3
  <2>2. /\ Len(legs) = 3 /\ legs[1] = loop /\ legs[2] = SKIP_REF /\ legs[3] = WALK_REF
    BY <2>1, ThreeLegs
  <2>3. 1 \in DOMAIN best /\ 2 \in DOMAIN best /\ 3 \in DOMAIN best
    BY <1>3, <2>2
  <2>4. PICK cal, escape, ns : /\ cal = References(s) /\ escape = Share(leaves, s.freq)
                               /\ ns = Blend(References(s), Share(leaves, s.freq), excursion)
    OBVIOUS
  <2>5. best[1] = ns /\ best[2] = cal.dfa_skip /\ best[3] = cal.dfa_walk
    <3>1. best[1] = Takes(s, loop, k) /\ best[2] = Takes(s, SKIP_REF, k) /\ best[3] = Takes(s, WALK_REF, k)
      BY <1>5, <1>9, <2>2, <2>3
    <3>2. Takes(s, SKIP_REF, k) = Machine.skip[Regime(s.docs)] /\ Takes(s, WALK_REF, k) = Machine.walk
      BY ReferencesTake
    <3>3. cal.dfa_skip = Machine.skip[Regime(s.docs)] /\ cal.dfa_walk = Machine.walk
      BY <2>4 DEF References
    <3>4. Takes(s, loop, k) = ns
      BY <2>1, <2>4 DEF Skims
    <3> QED
      BY <3>1, <3>2, <3>3, <3>4
  <2>6. PICK found : found = SolvedFor(ns, cal.dfa_skip, cal.dfa_walk, escape)
    OBVIOUS
  <2>7. Result = IF Finite(found) /\ Positive(found) THEN found ELSE Dropped
    <3>1. Result = Solution(Escapes(t))
      BY <1>2, <1>9 DEF Result
    <3>2. Solution(escape) = IF Finite(found) /\ Positive(found) THEN found ELSE Dropped
      BY <2>5, <2>6 DEF Solution
    <3> QED
      BY <2>1, <2>4, <3>1, <3>2
  <2>8. ASSUME Finite(found) PROVE Comes(found, excursion) /\ Positive(escape)
    <3>1. excursion \in Finites
      BY <2>1, TimesAre
    <3>2. Blends(cal, escape, excursion)
      BY <1>3, <2>4, <3>1, ReferencesBlend
    <3>3. PICK x \in Int, y \in Nat \ {0} : x = excursion[1] /\ y = excursion[2] /\ Amounts(excursion, x, y)
      BY <3>1, OfFinites
    <3>4. ns = Blend(cal, escape, excursion)
      BY <2>4
    <3>5. found \in Finites /\ Amounts(found, x, y) /\ Positive(escape)
      BY <2>6, <2>8, <3>2, <3>3, <3>4, SolvedIs
    <3> QED
      BY <3>1, <3>3, <3>5 DEF Comes
  <2>9. Result = Dropped \/ (Comes(Result, excursion) /\ Positive(Share(leaves, s.freq)))
    BY <2>4, <2>7, <2>8
  <2>10. Told(s, Result, t, k)
    <3>1. CASE t.kind = "lead" /\ excursion = Machine.excursion
      BY <2>9, <3>1 DEF Told
    <3>2. CASE t.kind \in {"Few", "Wide"} /\ leaves = t.of.leaves /\ excursion = t.of.excursion
      BY <2>9, <3>2 DEF Told
    <3> QED
      BY <2>1, <3>1, <3>2
  <2> QED
    BY <1>2, <2>10
<1> QED
  BY <1>7, <1>8, <1>9

\* What the row of a report says.
LEMMA RowOfSays ==
  ASSUME NEW results, Listed(results)
  PROVE  RowSays(RowOf(results), results, Regime(sample.docs)) /\ RowOf(results).kernel = KernelNow
<1>1. PICK row, r : row = RowOf(results) /\ r = Regime(sample.docs)
  OBVIOUS
<1>2. \A x : Filled(x)[r] = x
  BY <1>1, RegimeIsOne DEF Filled
<1>3. /\ row.kernel = KernelNow
      /\ row.dfa_walk = results[1]
      /\ row.dfa_skip = Filled(results[2])
      /\ row.dfa_excursion = Filled(Most(Solved(results), FLOOR_EXCURSION))
      /\ row.skip_excursion = <<Filled(Reached(results, "Few")), Filled(Reached(results, "Wide"))>>
  BY <1>1 DEF RowOf, RowKernel, Solved, Reached
<1>4. /\ DOMAIN row.skip_excursion = {1, 2}
      /\ row.skip_excursion[1] = Filled(Reached(results, "Few"))
      /\ row.skip_excursion[2] = Filled(Reached(results, "Wide"))
  BY <1>3
<1>5. ASSUME NEW n \in DOMAIN row.sieve
      PROVE  \/ row.sieve[n] = Zero
             \/ \E j \in DOMAIN results : Schedule[j].kind = "sieve" /\ row.sieve[n] = results[j]
  <2>1. row.sieve = [m \in 1 .. MaxConjuncts |->
          IF {j \in DOMAIN results : Schedule[j].kind = "sieve" /\ Schedule[j].of = m} = {}
            THEN Zero
            ELSE results[Min({j \in DOMAIN results : Schedule[j].kind = "sieve"
                                                       /\ Schedule[j].of = m})]]
    BY <1>1 DEF RowOf
  <2>2. PICK timed : timed = {j \in DOMAIN results : Schedule[j].kind = "sieve" /\ Schedule[j].of = n}
    OBVIOUS
  <2>3. row.sieve[n] = IF timed = {} THEN Zero ELSE results[Min(timed)]
    BY <1>5, <2>1, <2>2
  <2>4. CASE timed # {}
    <3>1. timed \subseteq Nat
      BY <2>2, ListedFacts
    <3>2. \E x \in timed : \A y \in timed : x <= y
      BY <2>4, <3>1, LeastNatural
    <3>3. Min(timed) \in timed
      BY <3>2 DEF Min
    <3> QED
      BY <2>2, <2>3, <2>4, <3>3
  <2> QED
    BY <2>3, <2>4
<1> QED
  BY <1>1, <1>2, <1>3, <1>4, <1>5 DEF RowSays

LEMMA ConcludeStaysQuiet == MeasureInv /\ QuietInv /\ Conclude => QuietInv'
<1> SUFFICES ASSUME MeasureInv, QuietInv, Conclude PROVE QuietInv'
  OBVIOUS
<1>1. /\ stage = "timing" /\ round = Rounds /\ ~IsRow(outcome) /\ Listed(times)
      /\ at \in DOMAIN Schedule /\ Len(times) = at - 1
      /\ memo \in {NoKernel} \cup Kernels /\ IsSample(sample) /\ ~HoldsSentinel(sample.docs)
      /\ Quiet => AllTold(sample, times, KernelNow)
  BY DEF Conclude, MeasureInv, InProgress, QuietInv
<1>2. PICK results, s, k, result : /\ results = Append(times, Result) /\ result = Result
                                   /\ s = sample /\ k = KernelNow
  OBVIOUS
<1>3. /\ times' = results /\ Advance(results)
      /\ UNCHANGED <<sample, ranOn, torn, gaveUp>>
      /\ Solves \/ ~NoElapsedTime
      /\ spoilt' = IF \E leg \in DOMAIN slowed : slowed[leg] = Rounds THEN spoilt \cup {at} ELSE spoilt
  BY <1>2 DEF Conclude, Spoil
<1>4. Quiet' => Quiet /\ \A leg \in DOMAIN slowed : slowed[leg] # Rounds
  BY <1>3 DEF Quiet
<1>5. /\ Listed(results) /\ Len(results) = at /\ DOMAIN results = 1 .. at
      /\ at \in 1 .. Len(Schedule) /\ Len(Schedule) \in Nat
      /\ results[at] = result
      /\ \A j \in 1 .. at - 1 : results[j] = times[j]
      /\ DOMAIN times = 1 .. at - 1
  <2>1. at \in 1 .. Len(Schedule) /\ Len(Schedule) \in Nat
    BY <1>1, ScheduleFacts
  <2>2. /\ Listed(results) /\ Len(results) = Len(times) + 1
        /\ results[Len(times) + 1] = result
        /\ \A j \in 1 .. Len(times) : results[j] = times[j]
    BY <1>1, <1>2, AppendIsListed
  <2>3. DOMAIN results = 1 .. Len(results) /\ DOMAIN times = 1 .. Len(times)
    BY <1>1, <2>2, ListedFacts
  <2>4. Len(times) + 1 = at
    BY <1>1, <2>1
  <2> QED
    BY <1>1, <2>1, <2>2, <2>3, <2>4
<1>6. Quiet' => AllTold(s, results, k)
  <2> SUFFICES ASSUME Quiet', NEW j \in DOMAIN results PROVE Told(s, results[j], Schedule[j], k)
    BY DEF AllTold
  <2>1. CASE j = at
    <3>1. Told(sample, Result, Schedule[at], KernelNow)
      BY <1>1, <1>3, <1>4, ResultIsTold
    <3> QED
      BY <1>2, <1>5, <2>1, <3>1
  <2>2. CASE j # at
    <3>1. j \in DOMAIN times /\ results[j] = times[j]
      BY <1>5, <2>2
    <3> QED
      BY <1>1, <1>2, <1>4, <3>1 DEF AllTold
  <2> QED
    BY <2>1, <2>2
<1>7. k \in Kernels /\ k # NoKernel
  BY <1>1, <1>2, KernelAtHand, KernelNowFacts
<1>8. CASE Len(results) < Len(Schedule)
  <2>1. /\ at' = at + 1 /\ Fresh(Schedule[at + 1].legs)
        /\ UNCHANGED <<stage, outcome, memo>>
    BY <1>3, <1>8 DEF Advance
  <2>2. at + 1 \in DOMAIN Schedule
    BY <1>5, <1>8, ScheduleFacts
  <2>3. Listed(Schedule[at + 1].legs)
    BY <2>2, ScheduleFacts DEF TimingsOnly, IsTiming
  <2>4. Pace'
    BY <2>1, <2>3, FreshPaces
  <2>5. KernelNow' = k
    BY <1>2, <2>1 DEF KernelNow
  <2>6. Quiet' => AllTold(sample', times', KernelNow')
    BY <1>2, <1>3, <1>6, <2>5
  <2> QED
    BY <1>1, <1>3, <2>1, <2>4, <2>6 DEF QuietInv
<1>9. CASE ~(Len(results) < Len(Schedule))
  <2>1. stage' = "done" /\ outcome' = RowOf(results) /\ memo' = k
    BY <1>2, <1>3, <1>9 DEF Advance
  <2>2. Len(results) = Len(Schedule)
    BY <1>5, <1>9
  <2>3. RowSays(outcome', results, Regime(sample.docs)) /\ outcome'.kernel = k
    BY <1>2, <1>5, <2>1, RowOfSays
  <2>4. RowSays(outcome', times', Regime(sample'.docs))
    BY <1>3, <2>3
  <2>5. Quiet' => AllTold(sample', times', outcome'.kernel)
    BY <1>2, <1>3, <1>6, <2>3
  <2> QED
    BY <1>1, <1>3, <1>7, <2>1, <2>2, <2>4, <2>5 DEF QuietInv
<1> QED
  BY <1>8, <1>9

LEMMA GiveUpStaysQuiet == MeasureInv /\ QuietInv /\ GiveUp => QuietInv'
<1> SUFFICES ASSUME QuietInv, GiveUp PROVE QuietInv'
  OBVIOUS
<1>1. stage' = "done" /\ ~IsRow(outcome') /\ UNCHANGED <<sample, memo>>
  BY ErrIsNoRow DEF GiveUp
<1> QED
  BY <1>1 DEF QuietInv

\* A kernel forced before a sieve has run makes no difference to what has.
LEMMA ForceElsewhereStaysQuiet == MeasureInv /\ QuietInv /\ ForceElsewhere => QuietInv'
<1> SUFFICES ASSUME MeasureInv, QuietInv, ForceElsewhere PROVE QuietInv'
  OBVIOUS
<1>1. /\ stage = "timing" /\ memo' \in Kernels
      /\ torn' = (torn \/ ranOn # {})
      /\ UNCHANGED <<sample, stage, at, times, outcome, best, round, slot, ranOn, slowed, spoilt, gaveUp>>
  BY DEF ForceElsewhere, Kernels
<1>2. /\ at \in DOMAIN Schedule /\ Len(times) = at - 1 /\ Timed(times) /\ ~IsRow(outcome)
      /\ Listed(times) /\ Listed(best) /\ Len(best) = Len(Schedule[at].legs)
      /\ round \in 0 .. Rounds /\ slot \in DOMAIN best
      /\ Schedule[at].kind = "sieve" /\ round > 0 => ranOn # {}
  BY <1>1 DEF MeasureInv, InProgress
<1>3. /\ IsSample(sample) /\ ~HoldsSentinel(sample.docs)
      /\ DOMAIN slowed = DOMAIN best /\ (round = Rounds => slot = 1)
      /\ \A leg \in DOMAIN best : slowed[leg] \in 0 .. Runs(leg)
      /\ Quiet => \A leg \in DOMAIN best :
           AtPace(Takes(sample, Schedule[at].legs[leg], KernelNow), Runs(leg), best[leg], slowed[leg])
      /\ Quiet => AllTold(sample, times, KernelNow)
  BY <1>1 DEF QuietInv, Pace
<1>4. Quiet' => Quiet /\ ranOn = {}
  BY <1>1 DEF Quiet
<1>5. PICK s, k, l : s = sample /\ k = KernelNow /\ l = KernelNow'
  OBVIOUS
<1>6. /\ DOMAIN best = 1 .. Len(best) /\ Len(best) \in Nat
      /\ DOMAIN times = 1 .. Len(times) /\ DOMAIN times \subseteq DOMAIN Schedule
      /\ \A i \in DOMAIN Schedule : IsTiming(Schedule[i])
  BY <1>2, ListedFacts, ScheduleFacts DEF TimingsOnly
<1>7. ASSUME Quiet' PROVE AllTold(s, times, l)
  <2> SUFFICES ASSUME NEW j \in DOMAIN times PROVE Told(s, times[j], Schedule[j], l)
    BY DEF AllTold
  <2>1. Told(s, times[j], Schedule[j], k)
    BY <1>3, <1>4, <1>5, <1>7 DEF AllTold
  <2>2. Schedule[j].kind # "sieve"
    BY <1>2, <1>4, <1>7 DEF Timed
  <2>3. IsTiming(Schedule[j]) /\ 1 \in 1 .. Len(Schedule[j].legs)
    <3>1. IsTiming(Schedule[j])
      BY <1>6
    <3>2. Len(Schedule[j].legs) \in Nat /\ Len(Schedule[j].legs) >= 1
      BY <3>1, ListedFacts DEF IsTiming
    <3> QED
      BY <3>1, <3>2
  <2>4. PICK t : t = Schedule[j]
    OBVIOUS
  <2>5. Takes(s, t.legs[1], k) = Takes(s, t.legs[1], l)
    <3>1. IsTiming(t) /\ t.kind # "sieve" /\ 1 \in 1 .. Len(t.legs)
      BY <2>2, <2>3, <2>4
    <3>2. t.legs[1].kind \in EngineKinds
      BY <3>1, OnAnyKernel
    <3> QED
      BY <3>2, TakesAlike
  <2> QED
    BY <2>1, <2>4, <2>5 DEF Told
<1>8. ASSUME Quiet', NEW leg \in DOMAIN best
      PROVE  AtPace(Takes(s, Schedule[at].legs[leg], l), Runs(leg), best[leg], slowed[leg])
  <2>1. AtPace(Takes(s, Schedule[at].legs[leg], k), Runs(leg), best[leg], slowed[leg])
    BY <1>3, <1>4, <1>5, <1>8
  <2>2. CASE Schedule[at].kind # "sieve"
    <3>1. PICK t : t = Schedule[at]
      OBVIOUS
    <3>2. IsTiming(t) /\ t.kind # "sieve" /\ leg \in 1 .. Len(t.legs)
      BY <1>2, <1>6, <2>2, <3>1
    <3>3. t.legs[leg].kind \in EngineKinds
      BY <3>2, OnAnyKernel
    <3>4. Takes(s, t.legs[leg], k) = Takes(s, t.legs[leg], l)
      BY <3>3, TakesAlike
    <3> QED
      BY <2>1, <3>1, <3>4
  <2>3. CASE Schedule[at].kind = "sieve"
    <3>1. round = 0
      BY <1>2, <1>4, <1>8, <2>3, RoundsFacts
    <3>2. Len(Schedule[at].legs) = 1
      BY <1>2, <1>6, <2>3 DEF IsTiming
    <3>3. leg = 1 /\ slot = 1
      BY <1>2, <1>6, <3>2
    <3>4. Runs(leg) = 0
      BY <3>1, <3>3 DEF Runs
    <3>5. slowed[leg] = 0
      BY <1>3, <3>4
    <3> QED
      BY <2>1, <3>4, <3>5 DEF AtPace, Disturbed
  <2> QED
    BY <2>2, <2>3
<1>9. \A leg \in DOMAIN best : Runs(leg)' = Runs(leg)
  BY <1>1 DEF Runs
<1>10. Pace'
  BY <1>1, <1>3, <1>5, <1>8, <1>9 DEF Pace
<1>11. Quiet' => AllTold(sample', times', KernelNow')
  BY <1>1, <1>5, <1>7
<1> QED
  BY <1>1, <1>2, <1>3, <1>10, <1>11 DEF QuietInv

LEMMA MeasuringStaysQuiet == MeasureInv /\ QuietInv /\ Measuring => QuietInv'
BY ReportStaysQuiet, TraverseStaysQuiet, ConcludeStaysQuiet, GiveUpStaysQuiet,
   ForceElsewhereStaysQuiet DEF Measuring

LEMMA UnchangedStaysQuiet == QuietInv /\ UNCHANGED <<bench, memo>> => QuietInv'
<1> SUFFICES ASSUME QuietInv, UNCHANGED <<bench, memo>> PROVE QuietInv'
  OBVIOUS
<1>1. UNCHANGED <<sample, stage, at, round, slot, best, times, outcome, slowed, spoilt, gaveUp,
                  ranOn, torn, memo>>
  BY DEF bench
<1>2. Quiet' = Quiet
  BY <1>1 DEF Quiet
<1>3. KernelNow' = KernelNow
  BY <1>1 DEF KernelNow
<1>4. \A leg \in DOMAIN best : Runs(leg)' = Runs(leg)
  BY <1>1 DEF Runs
<1>5. Pace => Pace'
  BY <1>1, <1>2, <1>3, <1>4 DEF Pace
<1> QED
  BY <1>1, <1>2, <1>3, <1>5 DEF QuietInv

LEMMA AgainStaysQuiet ==
  ASSUME NEW docs, Again(docs), IsSample(docs), memo' \in {NoKernel} \cup Kernels
  PROVE  QuietInv'
<1>1. stage' = "idle" /\ ~IsRow(outcome') /\ sample' = docs
  BY ErrIsNoRow DEF Again
<1> QED
  BY <1>1 DEF QuietInv

\* Across the reports of every kernel: of a report nothing spoils, every timing is at the
\* pace of its loops (`Bench::report`, `Clock::per_byte`, `Clock::paired`).
THEOREM TheQuietKeepPace == Spec => []QuietInv
<1>1. Init => QuietInv
  <2> SUFFICES ASSUME Init PROVE QuietInv
    OBVIOUS
  <2>1. /\ stage = "idle" /\ ~IsRow(outcome) /\ sample = corpus.cache /\ corpus \in Corpora
        /\ memo = NoKernel
    BY ErrIsNoRow DEF Init, Idle
  <2>2. IsSample(sample)
    BY <2>1, SamplesAssumption
  <2> QED
    BY <2>1, <2>2 DEF QuietInv
<1>2. MeasureInv /\ MintInv /\ QuietInv /\ [Next]_vars => QuietInv'
  <2> SUFFICES ASSUME MeasureInv, MintInv, QuietInv, [Next]_vars PROVE QuietInv'
    OBVIOUS
  <2>1. /\ corpus \in Corpora /\ Listed(printed) /\ rung = Len(printed) + 1
        /\ memo \in {NoKernel} \cup Kernels
        /\ IsSample(corpus.cache) /\ IsSample(corpus.memory)
    BY SamplesAssumption DEF MintInv, QuietInv
  <2>2. CASE Check
    <3>1. UNCHANGED <<bench, memo>>
      BY <2>2 DEF Check, measureVars
    <3> QED
      BY <3>1, UnchangedStaysQuiet
  <2>3. CASE ForceRung
    <3>1. CASE rung > Len(Ladder)
      <4>1. UNCHANGED <<bench, memo>>
        <5>1. UNCHANGED <<measureVars, taken>>
          BY <2>3, <3>1 DEF ForceRung
        <5> QED
          BY <5>1 DEF measureVars
      <4> QED
        BY <4>1, UnchangedStaysQuiet
    <3>2. CASE ~(rung > Len(Ladder))
      <4>1. Again(corpus.cache) /\ memo' = Ladder[rung]
        BY <2>3, <3>2 DEF ForceRung
      <4>2. rung \in DOMAIN Ladder
        <5>1. Len(Ladder) \in Nat /\ DOMAIN Ladder = 1 .. Len(Ladder)
          BY KernelsAssumption, ListedFacts
        <5>2. Len(printed) \in Nat
          BY <2>1, ListedFacts
        <5> QED
          BY <2>1, <3>2, <5>1, <5>2
      <4>3. memo' \in {NoKernel} \cup Kernels
        BY <4>1, <4>2 DEF Kernels
      <4> QED
        BY <2>1, <4>1, <4>3, AgainStaysQuiet
    <3> QED
      BY <3>1, <3>2
  <2>4. CASE Take
    BY <2>4, MeasuringStaysQuiet DEF Take
  <2>5. CASE CacheTaken
    <3>1. Again(corpus.memory) /\ memo' = memo
      BY <2>5 DEF CacheTaken
    <3> QED
      BY <2>1, <3>1, AgainStaysQuiet
  <2>6. CASE PrintRow
    <3>1. UNCHANGED <<bench, memo>>
      BY <2>6 DEF PrintRow, measureVars
    <3> QED
      BY <3>1, UnchangedStaysQuiet
  <2>7. CASE UNCHANGED vars
    <3>1. UNCHANGED <<bench, memo>>
      BY <2>7 DEF vars, measureVars
    <3> QED
      BY <3>1, UnchangedStaysQuiet
  <2> QED
    BY <2>2, <2>3, <2>4, <2>5, <2>6, <2>7 DEF Next
<1> QED
  BY <1>1, <1>2, MeasureInvHolds, MintInvHolds, PTL DEF Spec

\* A row that no disturbance spoilt predicts what it timed: the gate reads off it the walk,
\* the skip and the sieve of the machine, a rival at what the engine took, and never a
\* skip below what its loop took (`Clock`'s claim for taking a minimum, and the solver's
\* for inverting the formula of the gate).
THEOREM AQuietRowPredicts == Spec => []PredictsWhatItTimed
BY QuietPredicts, MeasureInvHolds, TheQuietKeepPace, PTL
=============================================================================
