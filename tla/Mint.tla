-------------------------------- MODULE Mint --------------------------------
(***************************************************************************)
(* The price half of examples/mint.rs: for every kernel this machine can    *)
(* run, force it, take one report over a sample that fits in cache and one  *)
(* over the whole corpus, and print the two as one row.                     *)
(***************************************************************************)
EXTENDS Measure

CONSTANTS
  Corpora,        \* pairs of samples: a slice of a corpus, and the corpus
  MemoryFloor     \* MEMORY_FLOOR

\* A corpus over the floor is past what is resident, as 32 MiB is past 8.
ASSUME FloorAssumption ==
  /\ ResidentAbove \in Nat /\ MemoryFloor \in Nat /\ MemoryFloor >= ResidentAbove
  /\ \A pair \in Corpora : Bytes(pair.memory.docs) \in Nat
ASSUME SamplesAssumption == \A pair \in Corpora : IsSample(pair.cache) /\ IsSample(pair.memory)

VARIABLES
  corpus,      \* never changes
  phase,       \* "check", "force", "cache", "memory" or "over"
  rung,        \* the kernel of `available` being priced
  taken,       \* the rows of the reports of this kernel, in order
  printed      \* the row printed for each kernel so far, or why there is none

mintVars == <<corpus, phase, rung, taken, printed>>
vars == <<measureVars, mintVars>>

Init ==
  /\ corpus \in Corpora
  /\ Idle(corpus.cache)
  /\ memo = NoKernel /\ disturbed = 0 /\ forces = 0
  /\ phase = "check" /\ rung = 1 /\ taken = <<>> /\ printed = <<>>

\* `memory_resident`, and the slice being a regime of its own.
Admissible ==
  /\ Bytes(corpus.memory.docs) > MemoryFloor
  /\ Bytes(corpus.cache.docs) < Bytes(corpus.memory.docs) \div 8

Check ==
  /\ phase = "check"
  /\ phase' = IF Admissible THEN "force" ELSE "over"
  /\ UNCHANGED <<measureVars, corpus, rung, taken, printed>>

Again(docs) ==
  /\ sample' = docs
  /\ stage' = "idle" /\ at' = 1 /\ round' = 0 /\ slot' = 1
  /\ best' = <<>> /\ times' = <<>> /\ outcome' = Err("none yet")
  /\ slowed' = <<>> /\ spoilt' = {} /\ gaveUp' = {} /\ ranOn' = {} /\ torn' = FALSE

ForceRung ==
  /\ phase = "force"
  /\ IF rung > Len(Ladder)
       THEN phase' = "over" /\ UNCHANGED <<measureVars, taken>>
       ELSE /\ memo' = Ladder[rung]
            /\ phase' = "cache"
            /\ taken' = <<>>
            /\ Again(corpus.cache)
            /\ UNCHANGED <<disturbed, forces>>
  /\ UNCHANGED <<corpus, rung, printed>>

Take ==
  /\ phase \in {"cache", "memory"}
  /\ Measuring
  /\ UNCHANGED mintVars

Collected == IF IsRow(outcome) THEN Append(taken, outcome) ELSE taken

CacheTaken ==
  /\ phase = "cache" /\ stage = "done"
  /\ taken' = Collected
  /\ phase' = "memory"
  /\ Again(corpus.memory)
  /\ UNCHANGED <<memo, disturbed, forces, corpus, rung, printed>>

\* The second row with its cache column taken out.
Withheld(row) ==
  LET blank(column) == [column EXCEPT !["Cache"] = Zero]
  IN [row EXCEPT !.dfa_skip = blank(@), !.dfa_excursion = blank(@),
                 !.skip_excursion = [i \in DOMAIN @ |-> blank(@[i])]]

\* Both columns in one row, or the second row alone.
Reduced(rows) ==
  IF rows = <<>> THEN Err("no column")
  ELSE IF Len(rows) = 1 THEN rows[1]
  ELSE LET merged == Merge(rows[1], rows[2])
       IN IF IsRow(merged) THEN merged ELSE Withheld(rows[2])

PrintRow ==
  /\ phase = "memory" /\ stage = "done"
  /\ taken' = Collected
  /\ printed' = Append(printed, Reduced(Collected))
  /\ rung' = rung + 1
  /\ phase' = "force"
  /\ UNCHANGED <<measureVars, corpus>>

Next == Check \/ ForceRung \/ Take \/ CacheTaken \/ PrintRow

Spec == Init /\ [][Next]_vars

-----------------------------------------------------------------------------
(* Properties.                                                             *)

\* The rows of the reports just printed, when nothing has been taken since.
JustPrinted == phase = "force" /\ printed # <<>> /\ IsRow(printed[Len(printed)])

\* A row is printed for each kernel in turn, keyed to it unless a force came from
\* elsewhere.  It answers for every regime a report was taken in, except that a cache
\* column is withheld from a pair that says a hotter haystack costs more, or that was
\* measured on two kernels; and no such pair is ever printed.
PrintsEveryColumn ==
  JustPrinted =>
    LET row == printed[Len(printed)]
        earned == UNION {MeasuredIn(taken[i]) : i \in DOMAIN taken}
    IN /\ forces = 0 => row.kernel = Ladder[Len(printed)]
       /\ ~Inverted(row)
       /\ "Memory" \in earned => "Memory" \in MeasuredIn(row)
       /\ MeasuredIn(row) \subseteq earned
       /\ earned \ MeasuredIn(row) # {} =>
            \/ Less(taken[2].dfa_skip["Memory"], taken[1].dfa_skip["Cache"])
            \/ taken[1].kernel # taken[2].kernel
=============================================================================
