-------------------------------- MODULE Gate --------------------------------
(***************************************************************************)
(* The worth test (price/gate.rs), the prices it compares (calibration.rs,  *)
(* read off the columns of one regime) and the fold of the selectivity      *)
(* estimate (selectivity.rs).                                               *)
(***************************************************************************)
EXTENDS Calibration

CONSTANTS
  ValidityFloor,   \* VALIDITY_FLOOR, in bytes
  NoStart,         \* the accelerator of an automaton that names no start state
  NotExact         \* the escape set of a block no instrument represents

-----------------------------------------------------------------------------
\* f64::clamp keeps a NaN.
Probability(x) == IF Less(x, Zero) THEN Zero ELSE IF Less(One, x) THEN One ELSE x

-----------------------------------------------------------------------------
(* selectivity.rs                                                          *)

\* `worst_case`: each quotient under its worst chain, the conjunction by its best quotient.
WorstCase(quotients, chains) ==
  LET worst(q) == MostOf({Zero} \cup {q.rates[c] : c \in chains})
  IN LeastOf({One} \cup {worst(quotients[i]) : i \in DOMAIN quotients})

-----------------------------------------------------------------------------
(* calibration.rs                                                          *)

\* `share`: how much of the corpus a byte set covers, added up in the order of the bytes.
Share(set, freq) ==
  LET upTo[n \in 0 .. Cardinality(DOMAIN freq)] ==
        IF n = 0 THEN Zero
        ELSE IF n - 1 \in set THEN Plus(upTo[n - 1], freq[n - 1])
        ELSE upTo[n - 1]
  IN Probability(upTo[Cardinality(DOMAIN freq)])

\* What an accelerated loop pays per byte, before the cap.
Blend(cal, escape, excursion) ==
  Plus(Times(cal.dfa_skip, Minus(One, escape)),
       Times(Times(cal.dfa_walk, escape), excursion))

RivalPerByte(cal, accelerator, freq) ==
  IF accelerator = {} THEN cal.dfa_walk
  ELSE Least(Blend(cal, Share(accelerator, freq), cal.dfa_excursion), cal.dfa_walk)

SkipPerByte(cal, q, freq) ==
  IF q.leaves = {} THEN cal.dfa_skip
  ELSE Least(Blend(cal, Share(q.leaves, freq), cal.skip_excursion[q.instrument]),
             cal.dfa_walk)

\* `Rival::per_byte`.
RivalPrice(rival, cal, accelerator, freq) ==
  IF rival.kind = "Walks" THEN Times(cal.dfa_walk, rival.price)
  ELSE IF rival.kind = "NanosPerByte" THEN rival.price
  ELSE IF accelerator = NoStart THEN cal.dfa_skip
  ELSE RivalPerByte(cal, accelerator, freq)

Engine == [kind |-> "Engine"]

\* `fanout`.
Fanout(rivals) == F(IF rivals = 0 THEN 1 ELSE rivals)

\* `Bypass::per_byte`, summed over the slate.
BypassPrice(bypass, cal, accelerator, freq, rivals) ==
  IF bypass.kind = "Absent" THEN Inf
  ELSE IF bypass.kind = "Slate" THEN RivalPrice(bypass.one, cal, accelerator, freq)
  ELSE Times(RivalPrice(Engine, cal, accelerator, freq), Fanout(rivals))

-----------------------------------------------------------------------------
(* gate.rs                                                                 *)

\* `len as u64`: not a number and less than nothing are no bytes at all.
Positions(len) == IF ~Positive(len) THEN 0 ELSE len[1] \div len[2]

\* `pow`, by squaring.  A probability below one raised to the largest u64 is zero.
Pow(x, len) ==
  LET by[n \in 0 .. Positions(len)] ==
        IF n = 0 THEN One
        ELSE Times(Times(by[n \div 2], by[n \div 2]), IF n % 2 = 1 THEN x ELSE One)
  IN IF len = Inf THEN (IF Less(x, One) THEN Zero ELSE One) ELSE by[Positions(len)]

Survival(f, len) == Minus(One, Pow(Minus(One, f), len))

\* Mutant: f64::min alone, which drops a NaN.
UnfilteredBare(cost) == Least(Times(Fanout(cost.rivals), cost.rival), cost.bypass)

\* `unfiltered`: the cheaper of what the caller could do without the sieve.
Unfiltered(cost) ==
  LET blind == Times(Fanout(cost.rivals), cost.rival)
  IN IF IsNaN(blind) \/ IsNaN(cost.bypass) THEN NaN ELSE Least(blind, cost.bypass)

Total(cost) == Plus(cost.sieve, Times(Survival(cost.fallthrough, cost.len), Unfiltered(cost)))

\* 1 + MARGIN.
WithMargin(x) == Times(x, <<5, 4>>)

\* `pays`: both sides have to be costs before they are compared.
Pays(cost) ==
  /\ Total(cost) # NaN /\ ~Less(Total(cost), Zero)
  /\ Finite(Unfiltered(cost))
  /\ Less(WithMargin(Total(cost)), Unfiltered(cost))
=============================================================================
