------------------------------ MODULE Measure ------------------------------
(***************************************************************************)
(* How a machine prices itself (price/measure.rs): `Bench::report` times a  *)
(* fixed schedule of loops over the caller's sample, keeps the minimum over *)
(* the rounds, solves the excursions by inverting the formula the gate will *)
(* price with, and keys the row to the kernel in force when it is done.     *)
(* The clock, the load of the machine and other threads are not the code's: *)
(* a traversal may be slowed, may take no measurable time, and a `force`    *)
(* may come from elsewhere between any two traversals.  The times are per   *)
(* byte: the code divides every one by the same number of bytes.            *)
(***************************************************************************)
EXTENDS Gate

CONSTANTS
  MeasurableAbove, ResidentAbove,   \* in bytes, as the constants of those names
  RoundsAsked,    \* what `rounds` was given
  Leads,          \* LEADS: bytes
  Few, Wide,      \* the two slates of probes: sequences of records with the pattern, and
                  \* the escape set and instrument of what `harvest_skip` finds, if it does
  Slate,          \* SLATE: each pattern with the conjuncts it harvests, 0 if it will not build
  Target,         \* <<OS, ARCH>>
  Ladder,         \* `available`
  Elected,        \* what `kernel` elects
  Machine,        \* what the loops take when nothing disturbs them
  MaxDisturbed,   \* bound: the traversals of a run that are slowed or not measurable
  MaxForces       \* bound: the forces of other threads in a run

VARIABLES
  sample,      \* the documents being measured over
  stage,       \* "idle", "timing" or "done"
  at,          \* the timing in progress
  round,       \* the rounds of it that are finished
  slot,        \* the leg that runs next
  best,        \* the minimum so far of each leg
  times,       \* what the finished timings came to
  outcome,     \* a row, or why there is none
  memo,        \* RESOLVED
  disturbed, forces,   \* how much of the two bounds is used up
  slowed,      \* history: how often each leg of the timing in progress was slowed
  spoilt,      \* history: the timings that had a leg slowed in every round
  gaveUp,      \* history: the loops that returned before the end of a document
  ranOn,       \* history: the kernels a traversal of this report ran on
  torn         \* history: a force of another thread came after the first of those

bench == <<sample, stage, at, round, slot, best, times, outcome, slowed, spoilt, gaveUp, ranOn, torn>>
measureVars == <<bench, memo, disturbed, forces>>

NoKernel == "none"

Listed(s) == s \in Seq({s[i] : i \in DOMAIN s})

\* The slates and the kernels are lists; one pattern of the slate at least is a sieve.
ASSUME SlatesAssumption ==
  /\ RoundsAsked \in Nat
  /\ MaxConjuncts \in Nat /\ MaxConjuncts >= 2
  /\ Listed(Leads) /\ Listed(Few) /\ Listed(Wide) /\ Listed(Slate)
  /\ \E i \in DOMAIN Slate : Slate[i].conjuncts \in 1 .. 2
ASSUME KernelsAssumption ==
  /\ Listed(Ladder)
  /\ Elected # NoKernel /\ \A i \in DOMAIN Ladder : Ladder[i] # NoKernel

\* What a loop takes and what it re-enters at are times: the machine's are above nothing.
IsTime(x) == x \in Floats /\ Finite(x) /\ Positive(x)
Kernels == {Elected} \cup {Ladder[i] : i \in DOMAIN Ladder}
ASSUME MachineAssumption ==
  /\ IsTime(Machine.walk) /\ \A regime \in Residency : IsTime(Machine.skip[regime])
  /\ IsTime(Machine.excursion) /\ \A k \in Kernels : IsTime(Machine.sieve[k])
  /\ \A i \in DOMAIN Few : IsTime(Few[i].excursion)
  /\ \A i \in DOMAIN Wide : IsTime(Wide[i].excursion)

Err(why) == [err |-> why]
IsRow(result) == "kernel" \in DOMAIN result

-----------------------------------------------------------------------------
(* The sample.                                                             *)

\* A document is its length and whether the sentinel occurs in it.
Bytes(docs) == FoldSet(LAMBDA i, sum : sum + docs[i].bytes, 0, DOMAIN docs)

HoldsSentinel(docs) == \E i \in DOMAIN docs : docs[i].sentinel

\* `histogram`: of every byte, a share of the sample.
IsSample(s) ==
  /\ IsFiniteSet(DOMAIN s.freq)
  /\ s.freq \in [0 .. Cardinality(DOMAIN s.freq) - 1 -> {x \in Floats : Finite(x)}]

Regime(docs) == OfWorkingSet(Bytes(docs), ResidentAbove)

\* `rounds`: zero is read as one.
Rounds == IF RoundsAsked = 0 THEN 1 ELSE RoundsAsked

-----------------------------------------------------------------------------
(* The schedule: what is timed, in order, with its legs.                   *)

Loop(kind, of) == [kind |-> kind, of |-> of]
WALK_REF == Loop("walk", "walk")
SKIP_REF == Loop("skip", "skip")

Alone(loop) == <<loop>>
Paired(loop) == <<loop, SKIP_REF, WALK_REF>>

\* The patterns of a slate whose start block escapes on the instrument it is for.
Reaching(slate, instrument) ==
  LET reaching[i \in 0 .. Len(slate)] ==
        IF i = 0 THEN <<>>
        ELSE IF slate[i].instrument = instrument THEN Append(reaching[i - 1], slate[i])
        ELSE reaching[i - 1]
  IN reaching[Len(slate)]
Probes(instrument) == Reaching(IF instrument = "Few" THEN Few ELSE Wide, instrument)

\* The first pattern of the slate with n conjuncts, if there is one.
Representative(n) ==
  LET built == {i \in DOMAIN Slate : Slate[i].conjuncts = n}
  IN IF built = {} THEN <<>> ELSE <<Slate[Min(built)]>>

Timing(stages, of, legs) == [kind |-> stages, of |-> of, legs |-> legs]
ProbeTimings(instrument) ==
  [i \in DOMAIN Probes(instrument) |->
     Timing(instrument, Probes(instrument)[i], Paired(Loop("probe", Probes(instrument)[i])))]
SieveTimings(n) ==
  [i \in DOMAIN Representative(n) |->
     Timing("sieve", n, Alone(Loop("sieve", Representative(n)[i])))]

Schedule ==
  <<Timing("walk", "walk", Alone(WALK_REF)), Timing("skip", "skip", Alone(SKIP_REF))>>
    \o [i \in DOMAIN Leads |-> Timing("lead", Leads[i], Paired(Loop("lead", Leads[i])))]
    \o ProbeTimings("Few") \o ProbeTimings("Wide")
    \o SieveTimings(1) \o SieveTimings(2)

\* The loops that look up the kernel; the engine has none.
UsesKernel(loop) == loop.kind \in {"probe", "sieve"}

-----------------------------------------------------------------------------
(* What a traversal takes.  The machine obeys the formula that is inverted. *)

EscapeOf(leaves) == Share(leaves, sample.freq)
Skimmed(skip, escape, excursion) ==
  Blend([dfa_skip |-> skip, dfa_walk |-> Machine.walk], escape, excursion)

\* Undisturbed, to the end of every document.
FullTime(loop, k) ==
  IF loop.kind = "walk" THEN Machine.walk
  ELSE IF loop.kind = "skip" THEN Machine.skip[Regime(sample.docs)]
  ELSE IF loop.kind = "lead"
    THEN Skimmed(Machine.skip[Regime(sample.docs)], EscapeOf({loop.of}), Machine.excursion)
  ELSE IF loop.kind = "probe"
    THEN Skimmed(Machine.skip[Regime(sample.docs)], EscapeOf(loop.of.leaves), loop.of.excursion)
  ELSE Machine.sieve[k]

\* The engine returns at a match, and every reference pattern of the engine's holds the
\* sentinel; a sieve returns at the first check of a block that may accept, and what
\* it accepts is up to the sample.
StopsEarly(loop) ==
  IF UsesKernel(loop) THEN loop.of.pattern \in sample.accepts
  ELSE \E i \in DOMAIN sample.docs : sample.docs[i].sentinel

Early == <<1, 4>>

-----------------------------------------------------------------------------

KernelNow == IF memo = NoKernel THEN Elected ELSE memo

Idle(docs) ==
  /\ sample = docs
  /\ stage = "idle" /\ at = 1 /\ round = 0 /\ slot = 1
  /\ best = <<>> /\ times = <<>> /\ outcome = Err("none yet")
  /\ slowed = <<>> /\ spoilt = {} /\ gaveUp = {} /\ ranOn = {} /\ torn = FALSE

Fresh(legs) ==
  /\ round' = 0 /\ slot' = 1
  /\ best' = [i \in DOMAIN legs |-> Inf]
  /\ slowed' = [i \in DOMAIN legs |-> 0]

\* The two refusals of `report`, before anything is timed.
Decline(why) ==
  /\ stage' = "done"
  /\ outcome' = Err(why)
  /\ UNCHANGED <<sample, at, round, slot, best, times, slowed, spoilt, gaveUp, ranOn, torn>>

Report ==
  /\ stage = "idle"
  /\ \/ /\ Bytes(sample.docs) < MeasurableAbove
        /\ Decline("TooFewBytes")
     \/ /\ Bytes(sample.docs) >= MeasurableAbove
        /\ HoldsSentinel(sample.docs)
        /\ Decline("ProbeMatched")
     \/ /\ Bytes(sample.docs) >= MeasurableAbove
        /\ ~HoldsSentinel(sample.docs)
        /\ stage' = "timing"
        /\ Fresh(Schedule[1].legs)
        /\ UNCHANGED <<sample, at, times, outcome, spoilt, gaveUp, ranOn, torn>>
  /\ UNCHANGED <<memo, disturbed, forces>>

\* Mutant: the last traversal counts, not the best.
FasterLast(x, y) == y
Faster(x, y) == Least(x, y)

\* One traversal of the sample by one leg: quiet, slowed to half its speed, or between
\* two ticks of the clock.
Traverse ==
  /\ stage = "timing"
  /\ round < Rounds
  /\ LET loop == Schedule[at].legs[slot]
         time == IF StopsEarly(loop) THEN Early ELSE FullTime(loop, KernelNow)
     IN \E disturbance \in {"none", "slowed", "no time"} :
          /\ disturbance # "none" => disturbed < MaxDisturbed
          /\ disturbed' = IF disturbance = "none" THEN disturbed ELSE disturbed + 1
          /\ best' = [best EXCEPT ![slot] = Faster(@,
                        IF disturbance = "slowed" THEN Times(F(2), time)
                        ELSE IF disturbance = "no time" THEN Zero ELSE time)]
          /\ slowed' = IF disturbance = "slowed" THEN [slowed EXCEPT ![slot] = @ + 1] ELSE slowed
          /\ gaveUp' = IF StopsEarly(loop) THEN gaveUp \cup {loop} ELSE gaveUp
          /\ ranOn' = IF UsesKernel(loop) THEN ranOn \cup {KernelNow} ELSE ranOn
          /\ memo' = IF UsesKernel(loop) THEN KernelNow ELSE memo
  /\ IF slot < Len(best) THEN slot' = slot + 1 /\ round' = round
                         ELSE slot' = 1 /\ round' = round + 1
  /\ UNCHANGED <<sample, stage, at, times, outcome, spoilt, torn, forces>>

-----------------------------------------------------------------------------
(* What the timings come to.                                               *)

Dropped == NaN

NoElapsedTime == \E leg \in DOMAIN best : ~Positive(best[leg]) \/ ~Finite(best[leg])

\* The blend inverted for the excursion.
SolvedFor(ns, skip, walk, escape) ==
  Divided(Minus(ns, Times(skip, Minus(One, escape))), Times(walk, escape))

\* A solution counts when it is finite and positive.
Solution(escape) ==
  LET excursion == SolvedFor(best[1], best[2], best[3], escape)
  IN IF Finite(excursion) /\ Positive(excursion) THEN excursion ELSE Dropped

Escapes(timing) == EscapeOf(IF timing.kind = "lead" THEN {timing.of} ELSE timing.of.leaves)

\* `per_byte` is handed on to the caller when no time passed; `paired` costs one solution.
Solves == Schedule[at].kind \in {"lead", "Few", "Wide"}
Result ==
  IF ~Solves THEN best[1]
  ELSE IF NoElapsedTime THEN Dropped ELSE Solution(Escapes(Schedule[at]))

\* The solutions that were not dropped, in order.
Solutions(results, kind) ==
  LET solved[i \in 0 .. Len(results)] ==
        IF i = 0 THEN <<>>
        ELSE IF Schedule[i].kind = kind /\ results[i] # Dropped
          THEN Append(solved[i - 1], results[i])
        ELSE solved[i - 1]
  IN solved[Len(results)]

\* Two of the three numbers of `Report::spread`.
Mean(each) ==
  LET sum[i \in 0 .. Len(each)] == IF i = 0 THEN Zero ELSE Plus(sum[i - 1], each[i])
  IN Divided(sum[Len(each)], F(Len(each)))
Highest(each) ==
  LET high[i \in 0 .. Len(each)] == IF i = 0 THEN Zero ELSE Most(high[i - 1], each[i])
  IN high[Len(each)]

FLOOR_EXCURSION == One

\* Mutant: keyed to the kernel the machine would elect.
RowKernelElected == Elected

\* The kernel is looked up when everything has been timed.
RowKernel == KernelNow

\* One regime is filled, the other left at zero.
Filled(x) ==
  [regime \in Residency |-> IF regime = Regime(sample.docs) THEN x ELSE Zero]

RowOf(results) ==
  LET engine == Solutions(results, "lead")
      solved == IF engine = <<>> THEN FLOOR_EXCURSION ELSE Mean(engine)
      instrument(kind) ==
        LET each == Solutions(results, kind) IN IF each = <<>> THEN solved ELSE Highest(each)
      conjuncts(n) ==
        LET timed == {i \in DOMAIN results : Schedule[i].kind = "sieve" /\ Schedule[i].of = n}
        IN IF timed = {} THEN Zero ELSE results[Min(timed)]
  IN [os |-> Target[1], arch |-> Target[2], kernel |-> RowKernel,
      dfa_walk |-> results[1],
      dfa_skip |-> Filled(results[2]),
      dfa_excursion |-> Filled(Most(solved, FLOOR_EXCURSION)),
      skip_excursion |-> <<Filled(instrument("Few")), Filled(instrument("Wide"))>>,
      sieve |-> [n \in 1 .. MaxConjuncts |-> conjuncts(n)]]

\* The last round of a timing is over.
Advance(results) ==
  IF Len(results) < Len(Schedule)
    THEN /\ at' = at + 1
         /\ Fresh(Schedule[at + 1].legs)
         /\ UNCHANGED <<stage, outcome, memo>>
    ELSE /\ stage' = "done"
         /\ outcome' = RowOf(results)
         /\ memo' = KernelNow
         /\ UNCHANGED <<at, round, slot, best, slowed>>

Spoil ==
  spoilt' = IF \E leg \in DOMAIN slowed : slowed[leg] = Rounds THEN spoilt \cup {at} ELSE spoilt

Conclude ==
  /\ stage = "timing"
  /\ round = Rounds
  /\ Solves \/ ~NoElapsedTime
  /\ times' = Append(times, Result)
  /\ Advance(Append(times, Result))
  /\ Spoil
  /\ UNCHANGED <<sample, gaveUp, ranOn, torn, disturbed, forces>>

\* A coefficient read straight off the timer, and no time passed.
GiveUp ==
  /\ stage = "timing"
  /\ round = Rounds
  /\ ~Solves /\ NoElapsedTime
  /\ stage' = "done"
  /\ outcome' = Err("NoElapsedTime")
  /\ UNCHANGED <<sample, at, round, slot, best, times, slowed, spoilt, gaveUp, ranOn, torn, memo, disturbed, forces>>

\* Another thread forces a kernel while a report is being taken.
ForceElsewhere ==
  /\ stage = "timing"
  /\ forces < MaxForces
  /\ forces' = forces + 1
  /\ \E i \in DOMAIN Ladder : Ladder[i] # memo /\ memo' = Ladder[i]
  /\ torn' = (torn \/ ranOn # {})
  /\ UNCHANGED <<sample, stage, at, round, slot, best, times, outcome, slowed, spoilt, gaveUp,
                 ranOn, disturbed>>

Measuring == Report \/ Traverse \/ Conclude \/ GiveUp \/ ForceElsewhere

-----------------------------------------------------------------------------
(* Rows (the other half of measure.rs).                                    *)

\* `regime`: the one regime a row answers for, if it is one.
RegimeOf(row) ==
  IF Cardinality(MeasuredIn(row)) = 1 THEN MeasuredIn(row) ELSE {}

\* A hotter haystack cannot cost the engine more.
Inverted(row) ==
  /\ MeasuredIn(row) = Residency
  /\ Less(row.dfa_skip["Memory"], row.dfa_skip["Cache"])

\* Each column from the row that measured it, the first one's where both did.
Joined(self, other) ==
  LET from(of) == IF MeasuredAt(self, of) THEN self ELSE other
      column(field) == [of \in Residency |-> from(of)[field][of]]
  IN [self EXCEPT
        !.dfa_skip = column("dfa_skip"),
        !.dfa_excursion = column("dfa_excursion"),
        !.skip_excursion = [i \in DOMAIN @ |->
                              [of \in Residency |-> from(of).skip_excursion[i][of]]],
        !.dfa_walk = IF Positive(@) THEN @ ELSE other.dfa_walk,
        !.sieve = IF \E n \in DOMAIN @ : Positive(@[n]) THEN @ ELSE other.sieve]

\* Mutant: the pair is not compared.
MergeUnchecked(self, other) ==
  IF Triple(self) # Triple(other) THEN Err("no merge") ELSE Joined(self, other)

\* `merge`.
Merge(self, other) ==
  IF Triple(self) # Triple(other) \/ Inverted(Joined(self, other))
    THEN Err("no merge") ELSE Joined(self, other)

-----------------------------------------------------------------------------
(* Properties.                                                             *)

Quiet == spoilt = {} /\ ~torn /\ \A loop \in gaveUp : ~UsesKernel(loop)

\* The mint's claim for taking a minimum, and the solver's for inverting the formula of
\* the gate: one undisturbed round of each leg is enough, and a row taken so predicts
\* what it timed.  The rival is priced at what the engine took, were no excursion
\* shorter than the byte it is for, and a skip never below what its loop took (either
\* capped by the walk, as the gate caps them).
PredictsWhatItTimed ==
  stage = "done" /\ IsRow(outcome) /\ Quiet =>
    LET cal == Column(outcome, Regime(sample.docs))
        skip == Machine.skip[Regime(sample.docs)]
        capped(time) == Least(time, Machine.walk)
    IN /\ cal.dfa_walk = Machine.walk /\ cal.dfa_skip = skip
       /\ Solutions(times, "lead") # <<>> =>
            \A lead \in {Leads[i] : i \in DOMAIN Leads} :
              Same(RivalPerByte(cal, {lead}, sample.freq),
                   capped(Skimmed(skip, EscapeOf({lead}),
                                  Most(Machine.excursion, FLOOR_EXCURSION))))
       /\ \A i \in DOMAIN times :
            Schedule[i].kind \in {"Few", "Wide"} /\ times[i] # Dropped =>
              ~Less(SkipPerByte(cal, [leaves |-> Schedule[i].of.leaves,
                                      instrument |-> IF Schedule[i].kind = "Few" THEN 1 ELSE 2],
                                sample.freq),
                    capped(FullTime(Loop("probe", Schedule[i].of), outcome.kernel)))
       /\ \A n \in DOMAIN cal.sieve : cal.sieve[n] \in {Zero, Machine.sieve[outcome.kernel]}

\* A row is keyed to the kernel its sieve and its skips were timed on, unless another
\* thread forced one between the first of those loops and the last; and it answers for
\* the regime of its sample alone.
KeyedToWhatRan ==
  stage = "done" /\ IsRow(outcome) =>
    /\ ~torn => ranOn = {outcome.kernel}
    /\ RegimeOf(outcome) = {Regime(sample.docs)}
=============================================================================
