# sheng in TLA+

sheng answers one question about a document, in one direction: *can it be proven to hold no
match?* It reads a finished DFA, projects it onto its reachable core, merges states of the core
into at most sixteen blocks that still step consistently (a *quotient*), and runs that quotient
over the document with one byte shuffle per step. A quotient that rejects proves that the DFA
rejects. Whether a filter is worth having is decided by prices, so most patterns get none.

This directory holds TLA+ modules translated from the crate's source, TLC runs over small
instances of them, and proofs checked by TLAPS that hold for every instance. The claim everything
else serves is the one in `src/README.md` under *Soundness*: a refuted document made the automaton
accept nowhere.

    pattern --parse--> strict DFA ----------------+--> Projection --> Lattice --> Quotient(s)
       \--relax--> loosened DFA (Relax) ----------+    (a core)     (partitions)  (lanes)
                                                                                     |
    Calibration row, chains, rival, bypass --> Gate --> Build: arm or refuse <-------+
                                                          |
    document --> Sieve::refutes: every lane, by Shuffle or by Skip, on the kernel Dispatch names

    rows:   this machine --Measure--> Mint: one row per kernel --> Minted --> Pricing:
            Dispatch elects by them, and a policy is priced with them
    chains: a corpus --> Prior --> Rates: how often a quotient lets a document through

A definition's source lines are in `PROJECT.json` under `map`. A definition whose
comment begins with *Mutant:* is a plausible bug, kept beside the definition it would replace; no
specification uses it, and the `mutants` list says which property it breaks.

## Inventory

Source paths are relative to `src/src/`, those under `examples/` to `src/`.

| component | source | state it keeps | operations | correct when |
|---|---|---|---|---|
| `Dfa` trait | `dfa.rs` | none of its own | `start`, `next`, `next_eoi`, `is_match`, `is_quit`, `accelerator` | (the caller's obligation) |
| projection | `projection.rs` | breadth-first queue, sorted intern table, the row in progress | `of`, `explore`, `refine` | the core is the reachable automaton renamed; classes are exact; every refusal is true |
| lattice harvest | `lattice.rs` | disjoint-set forest (an array of parents), work stack, step counter, kept candidates | `harvest`, `close`, `find`, `join`, `select`, `induce`, `expand`, `refines` | each partition kept is the least closed one above a pair; nothing unclosed survives a spent budget; climbing the parents ends where the blocks say |
| refutation | `lib.rs` | the lanes of a sieve | `Sieve::refutes`, `Lane::refutes`, `refutes_scalar` | a refutation is a proof; both answer alike |
| composing scan | `shuffle.rs`, `arch/*.rs` (`sweep_shuffle`) | per slice a composed function and a running maximum; the live block | `refutes`, `scalar`, `walk`, one sweep per kernel | every kernel answers what the scalar run answers |
| jumping scan | `skip.rs`, `shuffle.rs`, `arch/*.rs` (`classify`) | position, block | `Skip::of`, `Escape::of`, `find`, `refutes_skipping` | jumps pass only bytes that keep the run where it is |
| kernel dispatch | `arch/mod.rs` | one relaxed atomic, process-wide | the x86 probes, `available`, `kernel`, `force` | no kernel is named that this machine cannot execute; threads agree |
| build policy | `lib.rs` | a candidate or two with their costs | `of_pattern`, `assembled`, `Lane::plan`, `prices`, `admitted` | the cheaper candidate is taken, refusals are true |
| gate | `price/gate.rs` | none | `survival`, `unfiltered`, `total`, `pays` | nothing arms on what is not a cost |
| calibration | `price/calibration.rs`, `price/minted.rs` | the shipped rows | every per-byte price, `regime`, `active` | a policy is priced with a row of the kernel that runs |
| measurement | `price/measure.rs` | minima of timed loops, the solutions so far | `Bench::report`, `regime`, `merge` | an undisturbed row predicts what it timed, and is keyed to what it was timed on |
| minting | `examples/mint.rs` | the reports of a kernel; counts of a corpus | one row per kernel, `persistence` | what is printed is what was earned |
| relaxation | `relax.rs` | none | `bounded`, `relax`, `loosened` | the relaxed language contains the strict one |
| selectivity, priors | `selectivity.rs`, `prior/mod.rs` | two buffers over (block, class) | `Spread::of`, `rate`, `worst_case`; `bytes_after`, `memoryless`, `marginal` | the regrouped chain answers what the byte-level one does |
| screen | `screen.rs` | a sieve or none, and the engine | `is_match` | a refutation or the engine's answer |
| minted chains, errors | `prior/minted.rs`, `error.rs` | constants | formatting | - |

How they interact. All calls are synchronous and a sieve is immutable once built, so the only
shared mutable state in the crate is the atomic `RESOLVED` of `arch/mod.rs`: it is read by every
scan (`shuffle::refutes`, `Skip::find`) and by every pricing (`calibration::active`), and
written by the first of them and by `force`.

What is hard here:

- *Order.* The closure pops pairs off a stack and propagates one pair per merge; greedy selection
  looks back only; up to sixteen slices are composed together and collapsed in byte order.
- *Running out.* One step budget for the whole sweep, a cap on candidates, on core states, on
  blocks, on conjuncts, on the escape set.
- *Reused state.* Forest, stack and numbering serve every pair; the intern table and the queue
  grow in the middle of a row.
- *Edges.* Remainders shorter than a step, a chunk or a register; NaN, negative and infinite prices.
- *Concurrency.* A check-then-store on a relaxed atomic, with a second writer; and the kernel it
  holds is looked up anew by every scan, every find, every pricing and every report.
- *Noise.* A timer that is disturbed, or shows no time at all, between two loops whose quotient
  becomes a price.
- *Missing data.* A pattern with no probe, a kernel with no row, a class the corpus hardly holds.

`PROJECT.json` lists each of these under `hazards`, at its line, with the properties that
would catch it going wrong.

## The modules

| module | models | notes |
|---|---|---|
| `Core` | the projected automaton (`Projection`'s fields) | shared vocabulary: `Step`, `Closed`, `Coarser` |
| `Quotient` | `induce`, `block_count`, `block_accepts`, `relabel`, `expand`, `refines` | operators on a core and a partition |
| `Projection` | `Projection::of`, `explore`, `refine` | one action per turn of a loop and per early return |
| `Lattice` | `harvest`, `close`, `select` | one action per turn of the sweep, of the pop loop, of the class loop and of the selection |
| `Forest` | `Forest::find`, `join`, `reset` | extends `Lattice`: every action also makes the calls it makes, on the array of parents |
| `Harvest` | what the harvest promises | abstract: no forest, stack, score or greedy loop |
| `Refute` | `Sieve::refutes_scalar`, `shuffle::scalar` as a run | the core runs beside the lanes as the truth |
| `Run` | `shuffle::scalar` as a function of its document | what every scan is compared with |
| `Shuffle` | `shuffle::refutes`, `scalar`, `walk`, every `sweep_shuffle` | a register carries `kernel` slices; one action composes the next byte of all slices, one collapses a slice |
| `Skip` | `Skip::of`, `Escape::of`, `find`, `refutes_skipping`, every `classify` | the kernel may change between two finds |
| `Sieve` | `Sieve::refutes`, `Lane::refutes` | composes `Shuffle` and `Skip`: lanes are asked in order, each by the scan it was planned for |
| `Dispatch` | probes, `available`, `kernel`, `force`, `RESOLVED` | one load and one store per resolution, for any set of threads |
| `Pricing` | `Policy::new`, `active`, `arch::price` | composes `Dispatch` and `Minted`: the table elected by is the table priced with |
| `Minted` | `MINTED`, `UNMEASURED` | the shipped rows, as integers: millionths |
| `Float` | `f64` as it is used | fractions, two infinities and NaN; total, over any whole numbers |
| `Calibration` | `price/calibration.rs` | rows of two regimes, the column one regime selects, every per-byte price |
| `Gate` | `price/gate.rs`, the folds of `worst_case` | |
| `Build` | `of_pattern`, `assembled`, `Lane::plan`, `prices`, `admitted` | each candidate is assembled, then one is chosen, then admitted |
| `Measure` | `Bench::report`, `regime`, `merge` | one action per traversal of the sample, per solution and per refusal; a force may come in between |
| `Mint` | the price half of `examples/mint.rs` | two reports of `Measure` per kernel, merged into one row |
| `Prior` | `prior/mod.rs`, `persistence` of `examples/mint.rs` | chains, and how a corpus is counted into one |
| `Rates` | `Spread::of`, `rate`, `worst_case` | one action per block drawn from, per swap of the buffers and per fold |
| `Relax` | `bounded`, `relax`, `loosened` | a pattern is the list of its expressions, each after its parts; a document grows beside the two patterns, and both are read by meaning |
| `MC*` | instances for TLC | `MCCores` enumerates every core of a given size, up to the numbering the projection gives; `MCScreen` runs `Refute` and `Relax` one beside the other |
| `NumberFacts`, `*_proof` | the proofs | see below |

State and code, where the correspondence is not a name:

- `Lattice.rep` is the root `Forest::find` answers for each state. A `join` maps every state of
  one root to the other root. `Forest.parent` is the array the code has, halved by every `find` an
  action makes, in the order it makes them; the two are kept side by side and compared.
  `pc = "pop"` is the head of `close`'s loop, `"push"` its loop over classes, where `k` is the next
  class and `merged` the pair just joined. `steps` is charged where the code charges it; when it
  passes the budget the closure is abandoned (`EndSweep`) and what was being closed is not kept.
- `Projection.interned` is the sorted table `explore` searches, `queue` the order states were met
  in, `next` the row in progress, `rows` those that are finished.
- `Shuffle.at` counts the bytes in front of the part being read, `step` those composed within it;
  `seen` is the maximum the next accept check will look at.
- `Sieve` runs `Skip` as an instance that shares the position, the verdict and the block (`state <-
  live`) with `Shuffle`. No scan keeps a kernel: `Shuffle.Start` picks one, and `Skip` one per find,
  as the code looks it up each time.
- `Measure.best` holds the minimum of each leg of the timing in progress and `times` what finished
  ones came to (`Dropped` is the `None` of a solution that is not positive and finite). Times are per byte; the code divides
  each by the same number of bytes. `spoilt`, `gaveUp`, `ranOn` and `torn` are history. `Machine`
  is what the loops take undisturbed: an input, and one that obeys the formula the gate prices with.
- `Rates.held` and `next` are the two buffers of `rate`, which change places at each iteration.
- `Dispatch.pc[t]` is what thread `t` wants the answer for while it is between its load and its
  store. `forced` and `overtaken` are history: they record the last successful `force` and who was
  between load and store at that moment. Nothing in the model's actions reads them.
- `Refute.truth`, `Refute.matched` and `Relax.hay` are what the code never has: the ground truth
  properties compare with. `verdict` is the answer returned.

What is abstracted: byte values are a few model values except in `Skip`, where a byte is two
nibbles; a SIMD register is a function from slices to functions on blocks, each intrinsic being what
it computes; an automaton's economic side in `Build` (rates of its quotients, its accelerator)
is an input. A caller's `Dfa` is a record of functions and is deterministic. A document is its
length and whether it holds the sentinel in `Measure`.

## The runs

`tlc -workers 2 -config X.cfg M` in this directory. Every passing run but `dispatch` sets
`CHECK_DEADLOCK FALSE`: those procedures return, and a returned procedure takes no step.

### `lattice` (MCLattice, Lattice.cfg)

Every core of up to three states over two classes and of four and five states over one class,
in breadth-first numbering. Bounds: a budget of 16 steps, which runs out in the middle of some
sweeps and not of others; three candidates, which larger cores fill; two conjuncts as in the code.
- `Propagated`: propagating only the popped pair, and dropping a pair that is one block already,
  is complete: whatever identifies the forest and the rest of the work identifies the successors
  of any two states the forest holds together.
- `NothingExtra`: nothing is merged or queued that closure does not force.
- `CloseIsLeast`: a finished closure is the least closed partition that identifies the pair.
- `KeptClosed`: also when the budget or the room runs out, all that is kept is closed, least above
  some pair, induces a quotient, and is held once.
- `StackBounded`: the unchecked stack holds at most `1 + (classes - 1) * merges` pairs.
- `ImplementsHarvest`: the detailed procedure implements `Harvest` under a refinement mapping that
  forgets all of its working state: forest, stack, scores and the loop of `select`.
- `ParentsLeadToRep`: however far paths have been halved, and whatever has been hung below what
  in the meantime, climbing from a state ends at the root of its block, and no cycle forms.
- `Terminates`.

### `screen` (MCScreen, Screen.cfg)

What the answer of a screen rests on, two machines that share no variable: one of them (`asked`)
moves in a behavior while the other stays where it starts.

`Refute` (instances in `MCRefute`): every core of two or three states over two classes or four over
one, *every* numbered partition that passes `induce` (closed by the harvest or not), every
conjunction of up to two and every document, which is unbounded because the state is finite.
- `Shadows`: each lane is in the block of the core's true state.
- `NoneOpenAfterMatch`: once the core has accepted, no lane is still below its threshold.
- `RefutationIsProof`.

`Relax` (instances in `MCRelax`): patterns of three levels over two bytes, the class of both, three
look-arounds (at the start, at the end, where the byte before differs from the one after), the empty
pattern, captures, concatenations, alternations and seven kinds of repetition, on all documents of
up to four bytes, one longer than the largest counted bound.
- `Superset`: wherever the strict pattern matches, the relaxed one does.
- `RelaxesWhatIsBounded`: `bounded` and `relax` agree on what there is to do.

### `projection` (MCProjection, Projection.cfg)

Every three-state automaton whose third byte repeats a column or stays, with matches at end of
input, quit states and a start state that is entered again or not, and four-state automata that are
one state too wide for the cap of three. `InternedIsQueue`, `Faithful` (the core is the reachable
automaton under new names, acceptance and every byte), `ClassesExact` (bytes share a class if and
only if no reachable state tells them apart), `DeclineIsTrue` (each reason is true when given, and a
core that is handed over has a start that matches nothing, no more states than the cap and no quit
state that a byte leads to), `Terminates`.

### `dispatch` (MCDispatch, Dispatch.cfg)

Two threads that resolve, price, scan and force in any order, on machines that each lack something
(a CPUID leaf, a feature bit, a register the operating system saves), under the rows shipped for
each system and under four tables nobody has minted (nothing priced, one rung only, a narrower rung
cheaper, a tie).
`RunnableAlways`: nothing memoized, priced or run, by election or force, is beyond the machine.
`UnforcedAgree`: without a force every answer anybody got is the same. `SettledForceHolds`: a force
that no resolution overlapped is never overwritten. `NobodyStranded`: without a force, a policy finds
a row for its regime whenever any kernel this machine can execute has one. `PricedAsItRuns`: without
a force, the row a policy was priced with is one of the kernel that every scan of the process runs,
on this system and architecture. Deadlock is checked: a thread can always call.
Two threads are enough to interleave load, store and force; the proofs cover any number.

### `sieve` (MCSieve, Sieve.cfg)

Sieves of no lane, of one, and of two of either kind in either order. *Lanes that compose*: chunks of
eight bytes, two registers in lockstep, one slice to a register (SSSE3, NEON, SIMD128), two (AVX2) or
four (AVX-512), and the scalar path; documents that are empty, shorter than a step, one paved part,
one chunk, and a chunk followed by each of the others; quotients whose accepting blocks can be left
again, so that a check that comes too late is seen. *Lanes that skip*: sixteen bytes of two two-bit
nibbles, half of them ASCII; every escape set over five of them, so that all three instruments occur,
products of nibbles and not; documents of up to five bytes; step widths of one (scalar), two and
three, chosen anew at each find. Where the code has 256 bytes, nibbles of four bits and chunks of 256, each boundary (a chunk, a step, a register, the ASCII half) is still there, and
documents fall on both sides of it.
- `SlicesCompose`: the slices tile the chunk in the order they are collapsed, and each holds the run
  over its part from every block.
- `LiveIsRun`: the carried block is the run's block and each check sees every block visited since
  the last one.
- `TablesExact`: two nibble tables represent the escape set exactly.
- `JumpsAreExact`: what is jumped over keeps the run where it is.
- `RefutesAsScalar`: each lane answers what one scalar run of its quotient answers, on every kernel,
  and the sieve what the first of them to refute says, or that none does.
- `Terminates`, although a jump of no bytes is legal.

### `build` (MCBuild, Build.cfg)

Policies that vary all economic terms together, and policies that state what is no price or no
length; fifteen strict automata and six relaxed ones. `PairArmsAsOne`: choosing the cheaper of two
candidates *before* the worth test loses none that would pass it. `RefusalIsTrue`: a refusal names
what is in the way. `ArmsOnCostsOnly`: nothing arms under `Gate::Worth` unless the rival and the
bypass are numbers and both sides of the inequality are costs.
`MovesOneWay`: fewer chains, one more rival or permission to skip never disarms.
The numbers are small dyadic fractions, on which f64 is exact, so that the model's arithmetic and
the code's agree; rounding is not modelled. `VALIDITY_FLOOR` is scaled from 256 bytes to two and
lengths are at most four, or infinite.

### `mint` (MCMint, Mint.cfg)

A machine of two kernels prices itself: seven pairs of samples (an ordinary one; a slice too small to
time, one that is no slice, one past what is resident, one that holds the sentinel; a corpus under the
floor; documents the slates accept), two lead bytes, four probes of which one finds no instrument and one not its own,
two rounds per timing, at most two disturbed traversals in a run (slowed, or between two ticks of
the clock) and at most one force from elsewhere. Two rounds and two disturbances are what it takes
for a leg to be slowed in one of its rounds and in all of them.
- `PredictsWhatItTimed`: one undisturbed round of each leg is enough, and a row taken so gives back,
  through the formulas of the gate, what the loops took: the rival what the engine took on a machine
  whose excursions are no shorter than the byte they are for, a skip never less than its loop, either
  up to the walk, where the gate caps them.
- `KeyedToWhatRan`: a row carries the kernel its loops ran on, unless another thread forced one between the first
  of them and the end of the report, and answers for the regime of its sample alone.
- `PrintsEveryColumn`: the row printed answers for every regime a report was taken in; a cache
  column is withheld only from a pair that is inverted or was measured on two kernels, and no inverted pair is printed.

### `rates` (MCRates, Rates.cfg)

Four bytes of three classes, chains in quarters (uniform, memoryless, bursty) and one minted
over a corpus that is too thin for one class; six conjunctions of quotients, among them one that
splits a class, one that comes and goes, one that two classes spell; four iterations where the code
has 512, enough for a buffer to be reused twice.
- `RatesAreExact`: after every step the mass of a block and a class is the likelihood, byte by byte,
  of the documents that end there; memoryless shortcut or not.
- `ThinRowsReadAsWorst`: a row the corpus cannot speak for rates a run through its class as high
  as any row the corpus could have had (`Distributions`: here every row in quarters).

### Runs that end in a violation

Each checks one sentence of the repository that the code does not keep; `findings` quotes both.

| run | property | what the trace shows |
|---|---|---|
| `lattice_for_nothing` | `NoConjunctForNothing` | a five-state core whose second conjunct refines the first, so that the first is a chain bought for nothing; `select` never looks back |
| `projection_quit` | `NoQuitStateInCore` | a start state that is itself a quit state, and that no byte leads back to, is handed over; `is_quit` is asked of successors only |
| `dispatch_force` | `ForceHolds` | a `force` that returns between another thread's load and store is overwritten for the rest of the process |
| `build_nan` | `NaNDeclines` | `cost.min(self.dfa_walk)` drops a NaN coefficient and prices the engine as dear as can be, before the guard in `pays` can see it |

The first and the last cost speed, and the third picks another kernel that answers the same. The
second takes a `Dfa` written by hand. A refutation still means that its core accepts nowhere
(`RefutationIsProof`), but the search the core was taken from may give up before its first byte,
and that is not modelled: a run without quitting is what the doc calls guessing.
`OnlyTheStartMayQuit` proves that no other quit state gets through, and that one only if it is never
entered again.

### Fairness

`Sieve`, `Projection` and `Forest` (with the `Lattice` under it) state weak fairness of `Next` for
their liveness property only. Each of them is one sequential call that runs until it returns, and it
blocks on nothing; that is what `WF_vars(Next)` says, and no choice among actions is assumed fair.
`Dispatch`, `Mint` and `Rates` assume none and make no liveness claim: a thread may stop anywhere,
and the loops of the other two are counted.

## What is proved

`tlapm M.tla` on the eight modules that hold theorems: `NumberFacts` and the seven `*_proof`.
The proofs hold for every value of the constants that satisfies the named assumptions; TLC
evaluates those assumptions in each run.

| theorem | states |
|---|---|
| `Quotient_proof!InducedIsSound` | a partition that passes `induce` gives a homomorphic image that accepts wherever the core does |
| `Refute_proof!LanesShadow` | `Spec => []Shadows` |
| `Refute_proof!MatchShutsEveryLane` | `Spec => []NoneOpenAfterMatch` |
| `Refute_proof!Soundness` | `Spec => []RefutationIsProof` |
| `Refute_proof!Typing` | no lane leaves the blocks it has rows for |
| `Refute_proof!RelaxingKeepsItsCourse` | the invariant of the relaxed candidate |
| `Refute_proof!TheRelaxedIsWider`, `TheTestSeesWhatMoves` | the two invariants of the screen run about relaxing |
| `Lattice_proof!Typing` | no pair, root or position misses the core |
| `Lattice_proof!ClosureLoop` | the loop invariant of `close` |
| `Lattice_proof!NoPairIsLost` | `Spec => []Propagated` |
| `Lattice_proof!NoPairIsExtra` | `Spec => []NothingExtra` |
| `Lattice_proof!StackHasABound` | `Spec => []StackBounded` |
| `Lattice_proof!ClosesToTheLeast` | `Spec => []CloseIsLeast` |
| `Lattice_proof!KeepsOnlyClosed` | `Spec => []KeptClosed` |
| `Lattice_proof!SelectsFromTheFront` | the invariant of `select` |
| `Lattice_proof!ImplementsHarvestHolds` | `Spec => ImplementsHarvest`: the refinement |
| `Lattice_proof!ForestKeepsItsRoots` | `ForestSpec => []ParentsLeadToRep` |
| `Sieve_proof!Invariant` | the invariant of both scans and of the loop over lanes |
| `Sieve_proof!SlicesComposeHolds`, `LiveIsRunHolds`, `TablesExactHolds`, `JumpsAreExactHolds`, `RefutesAsScalarHolds` | the five invariants of the sieve run |
| `Sieve_proof!RefutationIsSound` | from `induce` to the answer: a sieve built from a core refutes only what the core accepts nowhere |
| `Projection_proof!Invariance` | the invariant of the walk |
| `Projection_proof!InternedIsQueueHolds`, `FaithfulHolds`, `ClassesExactHolds`, `DeclineIsTrueHolds` | the four invariants of the projection run |
| `Projection_proof!OnlyTheStartMayQuit` | an automaton that reaches a quit state is declined, unless that is the state it starts in and no byte leads back to it |
| `Projection_proof!CoreIsCore` | what is handed over satisfies `IsCore` |
| `Pricing_proof!Typing`, `DispatchIsSafe`, `RaceIsHarmless`, `SettledForceIsForGood` | four invariants of the dispatch run |
| `Pricing_proof!PricesAreOfTheKernel`, `NoElectionStrands` | the other two: `PricedAsItRuns`, `NobodyStranded` |
| `Pricing_proof!TheSweepKeepsItsBooks` | the invariant of a sweep over quotients and chains |
| `Pricing_proof!TheRegroupingIsExact`, `WhatIsThinIsTheWorst` | the two invariants of the rates run, `RatesAreExact` and `ThinRowsReadAsWorst` |
| `Price_proof!BuildKeepsItsCourse` | the invariant of a build |
| `Price_proof!ThePairArmsAsOne`, `EveryRefusalIsTrue`, `NothingArmsOnLess`, `EveryTermMovesOneWay` | the four invariants of the build run |
| `Price_proof!MeasureInvHolds`, `MintInvHolds` | the invariants of a report and of the mint |
| `Price_proof!KeyedToWhatRanHolds`, `PrintsEveryColumnHolds` | two invariants of the mint run |
| `Price_proof!TheQuietKeepPace` | the invariant of a report nothing spoils |
| `Price_proof!AQuietRowPredicts` | the third invariant of the mint run, `PredictsWhatItTimed` |

**The chain.** The claim of `src/README.md` is proved in links that fit together. `CoreIsCore` and
`FaithfulHolds`: the projection of any automaton is a core, and is that automaton under new names. The
proofs about harvest and refutation assume `IsCore` and nothing else of a core.
`InducedIsSound`: a partition that passes `induce` gives a quotient that accepts wherever the core
does. `RefutesAsScalarHolds`: whichever kernels the scans are given, composing or skipping, a sieve
answers what the scalar runs of its quotients answer. `RefutationIsSound` joins the last two: if the lanes of a sieve were induced
from a core and the sieve refutes a document, the core accepts at no position of it. `Soundness` says
the same of the lock-step model `Refute`. Where the core is of the relaxed pattern, `TheRelaxedIsWider`
adds that it matches wherever the pattern of the caller does. Two links are taken from
regex-automata and not proved: that parsing and determinization keep the meaning of a pattern.

**Soundness.** `InducedIsSound` is a lemma about data: the relabelling is injective on blocks
and puts those that hold an accepting state at or above the threshold (`RelabelFacts`, which needs
`FewerBelow`, counting), and the re-derivation loop makes a row the same for every member of a
block. `Refute`'s invariant adds to `Shadows` and `NoneOpenAfterMatch` that the lanes are the
quotients of their partitions and that a refutation came from a lane that was open. `Shadows` alone
is inductive only with the former; `RefutationIsProof` follows only with the latter. The proof
assumes of the partitions that they are functions from states to bytes, and nothing of how they
were found: the check in `induce` carries the whole weight, as the doc of `lattice.rs` says it should.

**Relaxing.** `Superset` is about every pattern, of any depth, on every document, and both `relax` and the
meaning of a pattern recur on its structure. A pattern being a list with parts ahead of wholes, that is
recursion over places: the recursive functions exist and solve their equations (`RelaxedIs`,
`SpansIs`), and what holds of an expression when it holds of those before it holds of all. So every
relaxed expression has the operator and the parts it had, only repetitions change, and only in their
bounds (`RelaxedFacts`, `RelaxedShape`); what comes out is a pattern again (`RelaxedIsPattern`).
Of the meaning, `ThenGrows` and `ChainedGrows` say that concatenations and counted repetitions match more when their parts
do. The step that is not structural is a repetition: a match counted `n` times must be one of the
relaxed repetition, which the model reads up to `Enough` turns. `FewFit` says that is all of them: in
a chain longer than the document some match is of nothing and can be left out. Where the sub-pattern
matches nothing but the empty string, `Hir::repetition` has capped both at 0 and 1 already (`RepetitionFacts`).
`LooseMatchesMore` is the step of one expression,
`RelaxedMatchesMore` the whole. For `RelaxesWhatIsBounded`, an expression that `relax` would not move
comes back as it was (`UnboundedStays`), and relaxing twice is relaxing once (`RelaxedOnce`).
Assumed: parsed patterns are as `Hir`'s constructors leave them, no number is `Unbounded`
(`PatternsAssumption`), and no pattern is `NoCandidate` (`CandidateAssumption`). Of look-arounds nothing is
assumed but that they depend on the document and the position.

**The scans.** The five properties of the sieve run speak of different moments and none is
inductive. The invariant (`IInv`) has a part per moment. `Shape`: which lane is read by which scan.
`Scanning`: up to the position reached, the run has stayed below the threshold. `ComposeInv`: in a sweep each
slice holds, from *every* block, the run over its part and the largest block on it (`Tiled`), and
the slices fit the document (`Sweeping`, where `Chunk` being a multiple of the slices of a register is
used); in a collapse the carried block and the maximum are those of the run up to the slice reached;
in a walk, up to the byte reached. `SkipInv`: nothing in front of the window leaves the
block. `Rested` and `Answered`: what a lane that has been read answered, and what `any` made of it.
The run itself is a recursive function of the position (`Run!RunOf`); that it exists
for every document, starts where it should and steps as it should is `RunFacts`, from
`FilledFromFront`. A run from a later byte on is the rest of the run (`RunSplits`), which is what lets a slice
entered on any block be collapsed into the one run. `TablesExact` is arithmetic on nibbles
(`Division`, `DivisionIsUnique`) and what `Instrument` asks of an escape set.
`ReadingsAssumption` says that each quotient maps blocks to blocks and starts below its threshold (both are
what `induce` and `expand` hand over) and that a document has no byte without a row.

**The walk of the projection.** Ids are places in the queue (`Ids`), every finished row names
successors by them (`RowsRight`), and whatever is closed under successors holds the whole queue
(`NothingElse`). When the queue has run empty it is itself closed, so it *is* the reachable
set (`AllMet`), and the three properties of a core follow. `Reasons` keeps, for each reason to
decline, the byte and the place it was found at. The proof is for any alphabet of bytes,
any cap and any automaton with a finite set of states, as the type of a dense table has.

**The closure.** `CloseIsLeast` speaks of the end of a loop and is not inductive. The loop
invariant has three parts: `Propagated` (whatever identifies forest and remaining work is closed on
what the forest merged), `NothingExtra` (every closed labelling that identifies the pair identifies
forest and work) and `PairHeld` (the pair is merged or at the bottom of the stack). With the stack
empty, the forest itself is such a labelling: by the first part it is closed, by the third it
identifies the pair, by the second it is the least. `KeepsOnlyClosed` carries that over to the
canonical numbering (`CanonKernel`: numbering in order of first sight has the same kernel as the
forest) and through the sweep, past the budget.

**The stack.** The code pushes onto a stack it never checks. `StackBounded` holds because a join
takes a root away: the invariant (`StackInv`) says that the stack and what the loop over the classes has yet to push
(`Spare`) stay within one pair more than `(classes - 1)` per root that is gone. `JoinRoots` counts the
roots on either side of a join.

**The forest.** That a climb ends where the blocks say is not inductive: nothing in it says that
climbs end. The invariant (`ForestInv`) gives every state a height along which the parents descend
(`Sits`), at most the number of merges made. Halving keeps the very same heights (`HalveKeeps`): a
grandparent is lower still, and in the same block. Hanging one root below another raises one block by one (`HangJoins`)
and is one merge more (`JoinCounts`); as there is always a root left, no path is ever as
long as there are states (`JoinsBelowStates`), which is how many turns `Find` takes at most. `ForestIsLattice` carries
what is proved of `Lattice` over to `ForestSpec`.

**The refinement.** `Keep` and `Discard` are `Consider`, a spent budget and the end of the pairs are
`Stop`, `Finish` is `Choose`, and every other step is one `Harvest` does not see
(`StepIsPromised`). Three things carry it. A finished closure is *the* partition `Consider` names
(`ContributesTheLeast`): it is least by `CloseIsLeast`, its numbering is in order of first sight and
without gaps (`CanonIsNumbered`, by counting: `RankFacts`), and two such numberings of one partition are equal
(`NumberingIsUnique`). The order the sort uses is the order `Harvest` states (`AheadIsBefore`): the
score is an accepting share less a ten-thousandth per block, and with at most sixteen blocks that term decides
between equal shares only (`ScoreIsShareThenBlocks`); `WidthAssumption` is `LANES == 16` of the source. And
`select` needs an invariant (`Picks`): the conjuncts are in order, each candidate passed over is
refined by a conjunct *ahead of it*, and all that is left ranks behind every conjunct.

**Dispatch.** The invariant is `TypeOK`, `RunnableAlways`, `UnforcedAgree` and `Settled`: after
a force that overlapped no resolution the memo holds it *and no thread is between load and store*.
The second half is what keeps it true: with the memo filled no thread starts to resolve again.
`ProbesAreHonest` derives from CPUID, XCR0 and the build's target features that each rung of the
ladder can execute. It uses that wide instruction sets come with the narrower ones and that a
build runs only where its own target features exist; both are part of `IsMachine`.

**Pricing.** Both theorems are about the rows of `price/minted.rs` as they are: `ShippedRow` goes through the
table row by row, that each is measured and in which regimes. From there on nothing is
enumerated: the election picks a kernel that some row prices (`ElectedIsRung`, `CostsFacts`), on one target all
rows hold the same regimes (`SameRegimes`), so whoever wins has a row that answers.
A later table that breaks this breaks `ShippedRow`.

**The worth test.** The course of a build is short and its invariant (`BuildInv`) says what each place
in it knows: what the two assemblies came to, that the candidate taken is the relaxed one of two only
when its total is less, and that the verdict is what `pays` says of the one taken. What is long is
the arithmetic. TLC tries a few dozen prices; the theorems hold for every pair of whole numbers, both
infinities and NaN in every place a caller, a row, a chain or a byte table may state one
(`PolicyAssumption` types the policy and says its sets are finite, and nothing of any value).
`NumberFacts` takes it in three steps. Every finite value `Amounts` to whole numbers over any common
denominator, and sums, products and comparisons of values are those of the whole numbers (`PlusIs`,
`TimesIs`, `LessIs`; `SharedDivides` for the reduction to lowest terms). On what is not NaN, `<=` is a
total order with the infinities at its ends (`Ordered`, `AtMostTransitive`, `Ends`), so that the folds
of `f64::max` and `f64::min` over finitely many values have the greatest and the least of them as
their result whatever the order (`MostOfFacts`, `LeastOfFacts`). And probabilities stay such under
products and complements, and keep their order (`ProbableProduct`, `ProductsOrdered`, `RestsOrdered`).

On that rest the terms: the estimate is a probability and falls with fewer chains (`WorstCaseFacts`,
`WorstCaseOfFewer`); `pow` by squaring exists, stays a probability and keeps the order, by induction on
all smaller exponents (`SquaresExist`, `SquaresAreProbable`, `TablesOrdered`); the sieve's price is
a number that is not negative, whatever a lane's price comes to (`SieveCostFacts`). Then the inequality.
`PaysIs` clears its denominators; `PaysFinitely` and `PaysMeans`: what pays has finite sides, and
costs less than going without, which is `ArmsOnCostsOnly`. `CheaperPays`: against the same
alternative a total no greater pays when the greater does. Both candidates are priced against the
*strict* automaton and share their alternative (`SameAlternative`), so choosing first and testing
afterwards is testing both: `PairArmsAsOne`, and the `NotWorthIt` of `RefusalIsTrue`. Were the relaxed
candidate priced against its own automaton, that step would fail. `MovesOneWay` is
`SlimmerPays` for fewer chains and for the skip (`MoreToChoose`: the lanes' prices fall one by one, so the dearest does)
and `DearerWithoutPays` for another rival (`MoreRivals`: both alternatives grow, or one of them stays).
What these theorems do not cover is rounding: `Float` is exact, f64 is not.

**The mint.** `KeyedToWhatRan` speaks of a finished report. The invariant (`MeasureInv`) follows one
from its first traversal: what has run ran on the kernel in force until a force came in between, a
sieve that has been timed did run (`InProgress`), and what is read straight off the timer took time
(`Timed`), for otherwise `GiveUp` was the only step. That is why a finished row is measured, and in
one regime (`RowOfFacts`). It rests on what the schedule looks like for any slates:
the walk and the skip come first, a sieve is timed somewhere, and every timing has a leg
(`ScheduleFacts`). `MintInv` then says of each kernel that the rows taken are one for each sample
and, when nothing was forced from elsewhere, of the kernel being priced; `PairPrints` is what a
merge makes of two such rows. Assumed: the slates and `available` are lists and one pattern of
SLATE is a sieve (`SlatesAssumption`, `KernelsAssumption`), and a corpus over `MEMORY_FLOOR` is past
`RESIDENT_ABOVE`, as 32 MiB is past 8 (`FloorAssumption`). For these two nothing is assumed of the clock,
of what the loops take, or of the samples.

**The prediction.** `PredictsWhatItTimed` also speaks of a finished report, and of values where the two above
speak of keys. Its invariant (`QuietInv`) starts from the minima. While no timing is spoilt, what a leg
holds is nothing yet, no time at all, what its loop takes or twice that; and once one round of it was
not slowed, only the second and third are left (`Pace`). A minimum of no time at all costs the solution, the
column or the report (`Dropped`, `GiveUp`), so that what a finished timing came to is either dropped or what its
loop takes, and for a triple the excursion behind it (`AllTold`): the solver undoes the formula of the
gate (`BlendIs`, `SolvedIs`), by which the machine's loops are said to behave (`SkimmedIs`). A force from elsewhere makes the report
no longer quiet once anything has run; before any sieve ran, what was timed is the same on every kernel
(`OnAnyKernel`, `TakesAlike`), so the invariant may speak of the kernel the row will be keyed to.
Then what a row says of its timings (`RowSays`): the mean of equal excursions is that excursion
(`MeanIs`), the highest is no less than each (`HighestIs`), and a coefficient that is no less gives
a price that is no less (`BlendGrows`, `CappedOrdered`). `QuietPredicts` puts the two together. TLC checked
`QuietInv` on the instance of the mint run before it was proved.
Assumed besides: what the machine's loops take, and the excursions of its probes, are finite and
above nothing (`MachineAssumption`), and the shares `histogram` counts are finite (`SamplesAssumption`);
that they are shares, the estimate of an escape makes sure of by clamping (`EscapesAre`). The arithmetic is exact.

**The rates.** `RatesAreExact` says that a table over (block, class), stepped once per byte, comes to
what adding up every document of that length comes to. A sum here is a fold over a set in no order, so
first sums are made workable. Fractions that are equal get one representative (`Value`), on which
addition and multiplication commute, associate and distribute (`AddLaws`, `MulLaws`); the fold is a
table over all subsets (`SumTable`), any term can be taken out of it (`OneOut`), and by induction on
subsets (`SubsetsInOrder`) it may be scaled, renamed, restricted and regrouped (`TotalScaled`,
`TotalRenamed`, `TotalOfOnly`, `TotalGrouped`). The mass of a slot is then the sum of the openings (a
class before the first byte, and a document) that end there. A longer document is a shorter one and
a byte (`FrontExtended`), so the mass one byte on is the sum over the slots it came from
(`GoingOn`, `MassStep`), where bytes of one class that lead to the same block are counted
together: that count is `EdgeShare`. The invariant (`RatesInv`) says so of both buffers at every step:
what is held is the mass after `round` bytes (`Stepped`), what is being filled has the blocks
drawn so far (`PartlyDrawn`), with the memoryless shortcut (`RowsAlike`) or without; the tails add up
to those of `Expected`, and the folds to the largest and the smallest of what is finished (`Folded`).
Assumed (`RatesAssumption`): finitely many bytes, at least one iteration, and lists of quotients and chains
that are total tables over finite numbers. Nothing is assumed to sum to one: the regrouping is exact for
any weights.

`ThinRowsReadAsWorst` is about the order of such sums: terms in order add up in order (`WorthOrdered`), and
with the same sum, who has no more of the rest has no less of the one (`TheRestDecides`). The tail of a run
of two bytes of class `c` is `next[c][c]` times the mass of `c` one byte earlier (`RunTail`), the mass the
chain alone has, which is that of a quotient of one block (`InClass`). Put any distribution in place of
the absorbing row: no class but `c` loses any mass by it (`MissingElsewhere`, by induction on the length, as
the absorbing row gives nothing away), no mass is made or lost (`MassConserved`), so `c` itself gains none
(`AbsorbsTheMost`); and its share of what it has is at most all of it. So every tail is in order, and
with them the averages (`ExpectedOrdered`). That mass is conserved is not assumed of the minted chain but
proved of `persistence`: the pairs counted from a class add up to its support, the bytes counted by
class to those counted by document (`MintedIs`, `OccursAdd`), and ratios of parts add up to one (`RatiosAdd`).
The invariant adds to `RatesInv` that what was minted is among the chains swept (`MintedIsSwept`); the
folds then answer at least its average, unless they answer 1, which none exceeds (`ThinIsPriced`). Assumed
besides: the support floor is positive, and the rows of `Distributions` are distributions.

**Model-checked only.** Liveness, which with ENABLED is out of TLAPS's reach. Rounding is not modelled, so
neither kind of check speaks of it. Induction on a number, and on the subsets of a finite set, is available as a fact
about sets (`UpTo`, `SubsetsInOrder`), and that is how the runs in `Sieve`, the climbs in `Forest`, the slates
in `Measure`, the patterns in `Relax` and the sums in `Rates` are reasoned about.

## Observed along the way

No run states these; they are consequences met while modelling.

- The comments at `arch/avx2.rs:119-122` and `arch/avx512.rs:139-142` say that any other collapse
  order "would still be sound". It would not: `CollapseBackwards` refutes documents that match.
  The order the code has is the right one.
- `select` ranks by an f32 quotient of two block counts of at most sixteen. Distinct fractions of
  such counts are further apart than an f32 can blur, so the model compares cross products.
- The patterns of SLATE lack the sentinel, and those of the two slates of probes run as quotients: on a sample they accept, their
  loops return early and understate the coefficient. The check for the sentinel (comment at
  `price/measure.rs:375-377`) covers the engine's loops alone.
- An instrument without a solution inherits the engine's mean before it is floored at one.
- A report is keyed to the kernel in force when it ends. A force from another thread in the middle
  mixes two kernels in one row, and `mint` then reports the failed merge as a busy machine.
- `merge` compares the skip coefficients of a pair; the test of the shipped rows also demands that
  the excursions be ordered, which `merge` does not.
- A row of a class that is too thin absorbs. That is the worst it could be for a run *through* that
  class; for a quotient that accepts on leaving it, it is the best.
- `worst_case` under no chain at all is 0.0: a filter that lets nothing through.
- A row whose excursion coefficients are zero passes `is_measured`, and the excursion reads as free.
- A negative skip excursion makes a lane's cost negative; the fold in `assembled` then floors the
  sieve's price at zero.
- A chain whose rate is NaN is dropped by the fold in `worst_case`.
- A bounded repetition of something that matches only the empty string is `bounded` and relaxes to
  itself: a second candidate is assembled for nothing.

## Not modelled

- Clocks. `Measure` takes what a loop takes, disturbed or not; how `Instant` gets there is outside.
- Rounding in `selectivity.rs` and the chains of `prior/minted.rs`: their six decimal places would
  leave exact arithmetic within a step or two. `Rates` is checked under chains in quarters. Rates
  steer a choice and never an answer. The seven byte classes are a parameter.
- `DORMANT` of `price/minted.rs`, which only a test reads; narration and command line of `mint.rs`.
- `error.rs`: formatting. The refusals are verdicts of `Build`.
- `screen.rs`'s `is_match`: a refutation or the engine, without state of its own.
- regex-automata, regex-syntax and memchr, beyond what the crate uses of them: `Dfa` as a record of
  functions, `Hir::repetition`'s normalization, and the first position of a byte set.
- A memory model weaker than interleaving: `RESOLVED` is one relaxed atomic and orders nothing else.

## Plan

Done, in the order of what depends on what: `Core`, `Quotient`, `Refute` and its proof; `Lattice`,
`Harvest`, the closure's proof, the stack's and the refinement's; `Projection` and its proof; `Shuffle` and `Skip`, `Sieve` over
both and its proof; `Dispatch` and its proof; `Gate` and `Build` and their proof; `Relax` and its proof; `Forest` under `Lattice` and its proof; `Calibration`,
`Minted` and `Pricing` and its proof; `Measure` and `Mint` and their proof; `Prior` and `Rates` and the
proof of its sums and their order.

What is left: rounding, `Less` and `PaysIs` over f64's grid in place of exact fractions.
