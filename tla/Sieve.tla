------------------------------- MODULE Sieve -------------------------------
(***************************************************************************)
(* A sieve reads a document (lib.rs, `Sieve::refutes` and `Lane::refutes`): *)
(* its lanes are asked in order until one refutes, each by the scan it was  *)
(* planned for, and every scan looks the kernel up for itself.              *)
(***************************************************************************)
EXTENDS Shuffle, FiniteSets

CONSTANTS
  Readings,    \* the sieves and the documents they may be asked about
  Nibble, MaxFew, MaxWide, StepWidths   \* see Skip

VARIABLES
  sieve,       \* the lanes: a quotient and, for those that skip, the resident block
  lane,        \* the lane being read; 0 before the first
  answer,      \* "none", or what `refutes` returned: "refuted" or "survives"
  resident, leaves, window   \* see Skip

K == INSTANCE Skip WITH state <- live

ASSUME SkipAssumption ==
  /\ Nibble \in Nat /\ Nibble >= 2 /\ Nibble % 2 = 0
  /\ MaxFew \in Nat \ {0} /\ MaxWide \in Nat
  /\ StepWidths \subseteq Nat \ {0}

vars == <<scan, resident, leaves, window, sieve, lane, answer>>

Skips(l) == "resident" \in DOMAIN l

\* What `induce` hands over: every row maps blocks to blocks, and the block a run starts
\* in does not accept.
IsQuotient(quotient) ==
  /\ quotient.blocks \in Nat /\ quotient.threshold \in Nat
  /\ quotient.start \in 0 .. quotient.blocks - 1
  /\ quotient.start < quotient.threshold
  /\ quotient.rows \in [DOMAIN quotient.rows ->
                         [0 .. quotient.blocks - 1 -> 0 .. quotient.blocks - 1]]

\* A document has no byte without a row, and a lane that skips has a row for every byte.
ASSUME ReadingsAssumption ==
  \A reading \in Readings :
    /\ reading.sieve \in Seq({reading.sieve[i] : i \in DOMAIN reading.sieve})
    /\ \A i \in DOMAIN reading.sieve :
         LET l == reading.sieve[i]
         IN /\ IsQuotient(l.quotient)
            /\ \A doc \in reading.hays : doc \in Seq(DOMAIN l.quotient.rows)
            /\ Skips(l) => DOMAIN l.quotient.rows = K!Bytes

\* `Lane::plan` holds a skip for the start block only, and only where that does not accept
\* and an instrument represents its escape set.
Plannable(l) ==
  Skips(l) => /\ l.resident = l.quotient.start
              /\ l.resident < l.quotient.threshold
              /\ K!Instrument(K!Leaves(l.quotient, l.resident)) # "none"

Init ==
  /\ \E reading \in Readings :
       /\ \A i \in DOMAIN reading.sieve : Plannable(reading.sieve[i])
       /\ sieve = reading.sieve
       /\ hay \in reading.hays
  /\ lane = 0 /\ answer = "none"
  /\ q = <<>> /\ pc = "lanes" /\ at = 0 /\ step = 0 /\ live = 0 /\ verdict = "none"
  /\ kernel = Scalar /\ stride = 0 /\ compose = <<>> /\ high = <<>> /\ way = 0 /\ seen = 0
  /\ resident = 0 /\ leaves = {} /\ window = 0

\* The next lane is asked, by the scan it was planned for.
Ask ==
  /\ pc = "lanes" /\ lane < Len(sieve)
  /\ lane' = lane + 1
  /\ \/ /\ ~Skips(sieve[lane + 1])
        /\ Start(sieve[lane + 1].quotient)
        /\ UNCHANGED <<resident, leaves, window>>
     \/ /\ Skips(sieve[lane + 1])
        /\ K!Start(sieve[lane + 1].quotient, sieve[lane + 1].resident)
        /\ UNCHANGED Own
  /\ UNCHANGED <<sieve, answer>>

ScanLane ==
  /\ Refutes
  /\ UNCHANGED <<resident, leaves, window, sieve, lane, answer>>

SkipLane ==
  /\ K!RefutesSkipping
  /\ UNCHANGED <<Own, sieve, lane, answer>>

\* `any` stops at the first lane that refutes.
Any ==
  /\ pc = "done"
  /\ IF verdict = "refuted"
       THEN pc' = "answered" /\ answer' = "refuted"
       ELSE pc' = "lanes" /\ UNCHANGED answer
  /\ UNCHANGED <<q, hay, at, step, live, verdict, Own, resident, leaves, window, sieve, lane>>

\* No lane did.
AnyIsOver ==
  /\ pc = "lanes" /\ lane = Len(sieve)
  /\ pc' = "answered"
  /\ answer' = "survives"
  /\ UNCHANGED <<q, hay, at, step, live, verdict, Own, resident, leaves, window, sieve, lane>>

Next == Ask \/ ScanLane \/ SkipLane \/ Any \/ AnyIsOver

Spec == Init /\ [][Next]_vars

\* A scan runs until it returns.
FairSpec == Spec /\ WF_vars(Next)

-----------------------------------------------------------------------------
(* Properties.                                                             *)

Composing == lane > 0 /\ ~Skips(sieve[lane])
Skipping == lane > 0 /\ Skips(sieve[lane])

\* A lane that composes: what a slice holds is the run over its stride, from every block
\* it may be entered on, and no slice reaches past the document.
SlicesCompose == Composing => Composed

\* A lane that composes: the block carried across slices, sweeps and the walk is the
\* block of the run, and each check sees every block visited since the last one.
LiveIsRun == Composing => Carried

\* A lane that skips: the two nibble tables are the escape set, neither more nor less.
TablesExact == Skipping => K!Exact

\* A lane that skips: it stands where the run stands, having jumped over nothing that
\* would have moved it, whichever kernels found its jumps.
JumpsAreExact == Skipping => K!Jumped

\* Whether one scalar run of a quotient over the document stays below its threshold.
StaysBelow(quotient) ==
  LET run == RunOf(quotient, hay, 0, quotient.start)
  IN \A j \in 0 .. Len(hay) : run[j] < quotient.threshold

\* The doc of `refutes_scalar`: the two are semantically identical.  Every scan, on
\* whichever kernel, answers what a scalar run answers, and the sieve refutes if and
\* only if the run of one of its lanes never accepts.
RefutesAsScalar ==
  /\ pc = "done" => (verdict = "refuted" <=> StaysBelow(q))
  /\ answer # "none" =>
       (answer = "refuted" <=> \E i \in DOMAIN sieve : StaysBelow(sieve[i].quotient))

\* Every round of each loop reads at least one byte or is the last, and every lane is
\* asked once: a sieve always answers.
Terminates == <>(answer # "none")
=============================================================================
