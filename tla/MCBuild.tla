------------------------------ MODULE MCBuild ------------------------------
(* Instances of Build: policies around one sound policy, and the odd ones a *)
(* caller can state.  Prices are in quarters of a dense-DFA walk.           *)
EXTENDS Build

CONSTANT Instruments

Quarter(n) == <<n, 4>>

Measured ==
  [sieve |-> <<Quarter(1), Zero>>, dfa_skip |-> <<1, 8>>, dfa_walk |-> One,
   dfa_excursion |-> F(4), skip_excursion |-> [i \in Instruments |-> F(2)]]

\* The sieve timed at one conjunct, at two, or not at all.
Calibrations == {Measured, [Measured EXCEPT !.sieve = <<Zero, Quarter(2)>>]}
Untimed == [Measured EXCEPT !.sieve = <<Zero, Zero>>]

OddCalibrations ==
  {[Measured EXCEPT !.dfa_excursion = NaN],
   [Measured EXCEPT !.skip_excursion = [i \in Instruments |-> NaN]],
   [Measured EXCEPT !.skip_excursion = [i \in Instruments |-> F(-16)]],
   [Measured EXCEPT !.dfa_walk = Inf]}

\* Two bytes: one an eighth of the corpus, the other all of it, as marginals that
\* are not normalized may have it.
Freq == [b \in 0 .. 1 |-> IF b = 0 THEN <<1, 8>> ELSE One]

Chains == {1, 2}

Sound ==
  [calibration |-> Measured, chains |-> Chains, freq |-> Freq, len |-> F(4),
   rival |-> Engine, bypass |-> [kind |-> "Engines"], rivals |-> 1,
   gate |-> "Worth", relax |-> TRUE, skip |-> TRUE]

Walks(x) == [kind |-> "Walks", price |-> x]
Nanos(x) == [kind |-> "NanosPerByte", price |-> x]
Slate(r) == [kind |-> "Slate", one |-> r]

\* Every economic term varied together.
SoundPolicies ==
  {[Sound EXCEPT !.calibration = cal, !.len = len, !.rival = rival, !.bypass = bypass,
                 !.rivals = n, !.skip = skip, !.relax = relax] :
     cal \in Calibrations, len \in {F(2), F(4)},
     rival \in {Engine, Walks(F(8))},
     bypass \in {[kind |-> "Engines"], Slate(Walks(Quarter(2))), [kind |-> "Absent"]},
     n \in {1, 3}, skip \in BOOLEAN, relax \in BOOLEAN}

\* Prices and lengths that are not prices or lengths.
OddPolicies ==
  {[Sound EXCEPT !.calibration = cal, !.len = len, !.rival = rival, !.bypass = bypass,
                 !.rivals = 0] :
     cal \in {Measured} \cup OddCalibrations,
     len \in {NaN, Inf, F(1), F(4)},
     rival \in {Engine, Walks(NaN), Walks(F(-8)), Nanos(Inf)},
     bypass \in {[kind |-> "Engines"], Slate(Nanos(NaN)), Slate(Nanos(F(-1))),
                 [kind |-> "Absent"]}}

\* A machine nobody timed, under either gate, and lengths only one of them minds.
GatedOrNot ==
  {[Sound EXCEPT !.calibration = cal, !.len = len, !.rival = rival, !.gate = gate] :
     cal \in {Measured, Untimed, [Measured EXCEPT !.dfa_skip = Zero]},
     len \in {NaN, F(1), F(4)}, rival \in {Engine, Walks(NaN)},
     gate \in {"Worth", "Ungated"}}

SomePolicies == SoundPolicies \cup OddPolicies \cup GatedOrNot

Rates(a, b) == [c \in Chains |-> IF c = 1 THEN a ELSE b]
Quotient(rates, below, leaves) ==
  [rates |-> rates, below |-> below, leaves |-> leaves, instrument |-> "Few"]
Automaton(shape, quotients, accelerator) ==
  [shape |-> shape, quotients |-> quotients, accelerator |-> accelerator]

Sharp  == Quotient(Rates(Zero, Zero), TRUE, {0})
Middle == Quotient(Rates(Zero, <<1, 8>>), TRUE, {1})
Blunt  == Quotient(Rates(<<1, 2>>, One), FALSE, {0})
Opaque == Quotient(Rates(<<1, 8>>, Zero), TRUE, NotExact)
Still  == Quotient(Rates(Zero, <<1, 2>>), TRUE, {})

SomeStricts ==
  {Automaton("fits", qs, acc) :
     qs \in {<<Sharp>>, <<Middle>>, <<Blunt, Opaque>>},
     acc \in {NoStart, {}, {0}, {1}}}
    \cup {Automaton("fits", <<>>, {1}), Automaton("TooWide", <<>>, {0}),
          Automaton("Quits", <<>>, NoStart)}

SomeLooses ==
  {NoLoose, Automaton("MatchesEmpty", <<>>, {}), Automaton("fits", <<>>, {}),
   Automaton("fits", <<Sharp, Middle>>, {}), Automaton("fits", <<Blunt>>, {}),
   Automaton("fits", <<Opaque, Still>>, {0})}
=============================================================================
