------------------------------- MODULE Build -------------------------------
(***************************************************************************)
(* How a sieve comes to be, or is refused (lib.rs, `of_pattern`,            *)
(* `assembled`, `Lane::plan`, `admitted` and `prices`; screen.rs on top):   *)
(* the strict automaton and, where the pattern has a bound to drop, a       *)
(* relaxed one are assembled in turn, each past the same refusals, the      *)
(* cheaper is taken, and the worth test is applied to it alone.             *)
(***************************************************************************)
EXTENDS Gate

CONSTANTS
  Policies,      \* the policies a caller may hand over
  Stricts,       \* what the pattern's own automaton may turn out to be
  Looses,        \* what `loosened` may answer: another automaton, or NoLoose
  NoLoose

-----------------------------------------------------------------------------
(* What the constants stand for.                                           *)

PolicyFields ==
  {"calibration", "chains", "freq", "len", "rival", "bypass", "rivals", "gate", "relax", "skip"}

\* `Rival`: two of its kinds carry a number.
IsRival(rival) == rival.kind \in {"Walks", "NanosPerByte"} => rival.price \in Floats

IsCalibration(cal) ==
  /\ cal.sieve \in [1 .. MaxConjuncts -> Floats]
  /\ cal.dfa_skip \in Floats /\ cal.dfa_walk \in Floats /\ cal.dfa_excursion \in Floats

\* Every number a caller states is any f64, and there are finitely many of them.
IsPolicy(p) ==
  /\ p = [field \in PolicyFields |-> p[field]]
  /\ IsCalibration(p.calibration)
  /\ IsFiniteSet(p.chains)
  /\ p.freq \in [0 .. Cardinality(DOMAIN p.freq) - 1 -> Floats] /\ IsFiniteSet(DOMAIN p.freq)
  /\ p.len \in Floats
  /\ IsRival(p.rival) /\ (p.bypass.kind = "Slate" => IsRival(p.bypass.one))
  /\ p.rivals \in Nat
  /\ p.gate \in {"Worth", "Ungated"} /\ p.relax \in BOOLEAN /\ p.skip \in BOOLEAN

\* A list of quotients, each rated under every chain, its instrument priced.
IsAutomaton(filter, p) ==
  /\ filter.shape \in {"fits", "TooWide", "Quits", "MatchesEmpty"}
  /\ Len(filter.quotients) \in Nat
  /\ DOMAIN filter.quotients = 1 .. Len(filter.quotients)
  /\ \A i \in DOMAIN filter.quotients :
       /\ \A c \in p.chains : filter.quotients[i].rates[c] \in Floats
       /\ p.calibration.skip_excursion[filter.quotients[i].instrument] \in Floats

ASSUME PolicyAssumption ==
  /\ MaxConjuncts \in Nat
  /\ \A p \in Policies :
       /\ IsPolicy(p)
       /\ \A filter \in Stricts \cup (Looses \ {NoLoose}) : IsAutomaton(filter, p)

-----------------------------------------------------------------------------
VARIABLES
  policy,    \* never changes
  strict,    \* the strict automaton; it is also the one that prices the rival
  loose,     \* what `loosened` answers for the pattern
  pc,        \* "exact", "second", "loose", "choose", "admit" or "done"
  exact,     \* what assembling the strict automaton came to
  second,    \* what assembling the relaxed one came to, NotTried if it was not
  cost,      \* the CostFact of the candidate taken
  verdict    \* NoVerdict, Armed, or the refusal

buildVars == <<policy, strict, loose, pc, exact, second, cost, verdict>>

NotTried == [result |-> "not tried"]
NoVerdict == "none"
Armed == "armed"
Refused(why) == [result |-> "err", why |-> why]

-----------------------------------------------------------------------------
(* `Lane::plan`, `prices` and the arithmetic of `assembled`.               *)

\* A skip may be priced at all.
Usable(p, q) == p.skip /\ IsMeasured(p.calibration) /\ q.below /\ q.leaves # NotExact

\* Mutant: a skip that can be had is taken, whatever it costs.
LaneCostUncompared(p, q, compose) ==
  IF Usable(p, q) THEN SkipPerByte(p.calibration, q, p.freq) ELSE compose

\* `Lane::plan`: what the kernel elected for a quotient costs per byte.
LaneCost(p, q, compose) ==
  LET skip == SkipPerByte(p.calibration, q, p.freq)
  IN IF Usable(p, q) /\ Less(skip, compose) THEN skip ELSE compose

\* The dearest lane prices the sieve.
SieveCost(p, quotients) ==
  LET compose == SievePerByte(p.calibration, Len(quotients))
  IN MostOf({Zero} \cup {LaneCost(p, quotients[i], compose) : i \in DOMAIN quotients})

CostFact(p, filter, rival) ==
  [fallthrough |-> WorstCase(filter.quotients, p.chains),
   len    |-> p.len,
   sieve  |-> SieveCost(p, filter.quotients),
   rival  |-> RivalPrice(p.rival, p.calibration, rival.accelerator, p.freq),
   rivals |-> p.rivals,
   bypass |-> BypassPrice(p.bypass, p.calibration, rival.accelerator, p.freq, p.rivals)]

Unmodeled(p) == IsNaN(p.len) \/ Less(p.len, F(ValidityFloor))

\* `assembled`, with its refusals in the order they are tested.
Assembled(p, filter, rival) ==
  IF p.gate = "Worth" /\ ~IsMeasured(p.calibration) THEN Refused("Uncalibrated")
  ELSE IF p.gate = "Worth" /\ Unmodeled(p) THEN Refused("Unmodeled")
  ELSE IF filter.shape # "fits" THEN Refused(filter.shape)
  ELSE IF filter.quotients = <<>> THEN Refused("NoQuotient")
  ELSE [result |-> "ok", cost |-> CostFact(p, filter, rival)]

-----------------------------------------------------------------------------

BuildInit ==
  /\ policy \in Policies
  /\ strict \in Stricts
  /\ loose \in Looses
  /\ pc = "exact"
  /\ exact = NotTried
  /\ second = NotTried
  /\ cost = NotTried
  /\ verdict = NoVerdict

AssembleExact ==
  /\ pc = "exact"
  /\ exact' = Assembled(policy, strict, strict)
  /\ pc' = IF policy.relax /\ loose # NoLoose THEN "loose" ELSE "choose"
  /\ UNCHANGED <<policy, strict, loose, second, cost, verdict>>

\* The second candidate is priced against the engine that will confirm: the strict one.
AssembleLoose ==
  /\ pc = "loose"
  /\ second' = Assembled(policy, loose, strict)
  /\ pc' = "choose"
  /\ UNCHANGED <<policy, strict, loose, exact, cost, verdict>>

Ok(candidate) == candidate.result = "ok"
TakeCandidate(candidate) == pc' = "admit" /\ cost' = candidate.cost

\* Mutant: the relaxed automaton is taken whenever it could be built.
LooseIsCheaperAlways == TRUE

LooseIsCheaper == Less(Total(second.cost), Total(exact.cost))

ChooseLoose ==
  /\ pc = "choose"
  /\ Ok(exact) /\ Ok(second) /\ LooseIsCheaper
  /\ TakeCandidate(second)
  /\ UNCHANGED <<policy, strict, loose, exact, second, verdict>>

ChooseExact ==
  /\ pc = "choose"
  /\ Ok(exact) /\ (Ok(second) => ~LooseIsCheaper)
  /\ TakeCandidate(exact)
  /\ UNCHANGED <<policy, strict, loose, exact, second, verdict>>

\* Only the relaxed automaton could be built.
ChooseOnly ==
  /\ pc = "choose"
  /\ ~Ok(exact) /\ Ok(second)
  /\ TakeCandidate(second)
  /\ UNCHANGED <<policy, strict, loose, exact, second, verdict>>

Refuse(why) == pc' = "done" /\ verdict' = why

\* Mutant: the last refusal met is the one reported.
RefuseBothLast ==
  /\ pc = "choose"
  /\ ~Ok(exact) /\ ~Ok(second)
  /\ Refuse(IF second = NotTried THEN exact.why ELSE second.why)
  /\ UNCHANGED <<policy, strict, loose, exact, second, cost>>

\* Neither could: the refusal of the caller's own pattern is reported.
RefuseBoth ==
  /\ pc = "choose"
  /\ ~Ok(exact) /\ ~Ok(second)
  /\ Refuse(exact.why)
  /\ UNCHANGED <<policy, strict, loose, exact, second, cost>>

\* `admitted`.
Admit ==
  /\ pc = "admit"
  /\ policy.gate = "Ungated" \/ Pays(cost)
  /\ pc' = "done"
  /\ verdict' = Armed
  /\ UNCHANGED <<policy, strict, loose, exact, second, cost>>

RefuseWorth ==
  /\ pc = "admit"
  /\ policy.gate = "Worth"
  /\ ~Pays(cost)
  /\ Refuse("NotWorthIt")
  /\ UNCHANGED <<policy, strict, loose, exact, second, cost>>

BuildNext ==
  \/ AssembleExact \/ AssembleLoose
  \/ ChooseLoose \/ ChooseExact \/ ChooseOnly \/ RefuseBoth
  \/ Admit \/ RefuseWorth

BuildSpec == BuildInit /\ [][BuildNext]_buildVars

-----------------------------------------------------------------------------
(* Properties.                                                             *)

Candidates == {strict} \cup (IF policy.relax /\ loose # NoLoose THEN {loose} ELSE {})

\* `of_superset_with` for one candidate alone: assembled, then held to the worth test.
ArmsAlone(p, filter) ==
  LET alone == Assembled(p, filter, strict)
  IN Ok(alone) /\ (p.gate = "Ungated" \/ Pays(alone.cost))

ArmsUnder(p) == \E filter \in Candidates : ArmsAlone(p, filter)

\* Taking the cheaper of two candidates before the worth test loses none that would pass
\* it ("lower total, not higher speedup, and they are the same test"), for any price a
\* caller may state: the pattern arms when either of its candidates would alone.
PairArmsAsOne == pc = "done" => (verdict = Armed <=> ArmsUnder(policy))

\* A refusal names what is really in the way: not the machine or the length unless the
\* gate asks, not the worth of a candidate while the other would pay, and otherwise the
\* shape of the strict automaton, the one the caller wrote.
RefusalIsTrue ==
  /\ verdict \in {"Uncalibrated", "Unmodeled", "NotWorthIt"} => policy.gate = "Worth"
  /\ verdict = "NotWorthIt" =>
       \A filter \in Candidates :
         LET alone == Assembled(policy, filter, strict)
         IN Ok(alone) => ~Pays(alone.cost)
  /\ verdict \in {"Quits", "MatchesEmpty", "TooWide"} => strict.shape = verdict
  /\ verdict = "NoQuotient" => strict.shape = "fits" /\ strict.quotients = <<>>

\* "... a price that is not a price has to be refused wherever it comes from" (the doc of
\* `Rival::per_byte`, and that of `pays`): nothing arms under Gate::Worth on two sides that are not both costs.
ArmsOnCostsOnly ==
  verdict = Armed /\ policy.gate = "Worth" =>
    /\ ~IsNaN(cost.rival) /\ ~IsNaN(cost.bypass)
    /\ Finite(Total(cost)) /\ ~Less(Total(cost), Zero)
    /\ Positive(Unfiltered(cost))
    /\ Less(cost.sieve, Unfiltered(cost))

\* A term added to the policy moves the verdict one way only: what arms still arms with
\* fewer chains to fear, with one more rival to spare, and with the skip to choose.
MovesOneWay ==
  verdict = Armed =>
    /\ \A fewer \in SUBSET policy.chains : ArmsUnder([policy EXCEPT !.chains = fewer])
    /\ ArmsUnder([policy EXCEPT !.rivals = IF @ = 0 THEN 2 ELSE @ + 1])
    /\ ArmsUnder([policy EXCEPT !.skip = TRUE])

\* "NaN is covered by the same guard" (`pays`): an engine whose price cannot be worked
\* out, because a coefficient or a frequency it is blended from is not a number, arms
\* nothing.
NaNDeclines ==
  (/\ verdict = Armed
   /\ policy.gate = "Worth"
   /\ policy.rival = Engine
   /\ strict.accelerator \notin {NoStart, {}})
  => ~IsNaN(Blend(policy.calibration, Share(strict.accelerator, policy.freq),
                  policy.calibration.dfa_excursion))
=============================================================================
