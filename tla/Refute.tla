------------------------------- MODULE Refute -------------------------------
(***************************************************************************)
(* What a refutation means (lib.rs, `Sieve::refutes_scalar`; shuffle.rs,    *)
(* `scalar` and `walk`).  The haystack arrives one byte at a time, chosen   *)
(* freely; the core runs beside the quotients as the truth the sieve never  *)
(* sees.  The order the kernel reads the bytes in is the business of        *)
(* Shuffle and Skip: here a lane is its run over the haystack.              *)
(***************************************************************************)
EXTENDS Quotient, Sequences

CONSTANTS
  Cores,          \* the automata a sieve may be built from
  Partitions(_),  \* the partitions of a core that may be handed to `induce`
  MaxConjuncts    \* MAX_CONJUNCTS

ASSUME CoresAssumption == \A c \in Cores : IsCore(c)
ASSUME PartitionsAssumption ==
  \A c \in Cores : Partitions(c) \subseteq [States(c) -> BlockIds]
ASSUME ConjunctsAssumption == MaxConjuncts \in Nat

VARIABLES
  core,      \* the automaton; never changes
  parts,     \* the partitions the sieve's lanes were induced from
  lanes,     \* the quotients, in the order `any` asks them
  truth,     \* the state of the core itself, which no lane reads
  matched,   \* whether the core has accepted at any position so far
  at,        \* each lane's current block
  open,      \* each lane has stayed below its threshold at every position so far
  verdict    \* "scanning", or what `refutes` answered

vars == <<core, parts, lanes, truth, matched, at, open, verdict>>

\* The partitions `induce` answers Some for, wherever they come from: the check
\* inside `induce` is all that stands between the harvest and the scan.
Inducing(c) == {f \in Partitions(c) : Induces(c, f)}

Init ==
  /\ core \in Cores
  /\ \E n \in 0 .. MaxConjuncts : parts \in [1 .. n -> Inducing(core)]
  /\ lanes = [i \in DOMAIN parts |-> Quotient(core, parts[i])]
  /\ truth = core.start
  /\ matched = (core.start \in core.accept)
  /\ at = [i \in DOMAIN parts |-> lanes[i].start]
  /\ open = [i \in DOMAIN parts |-> lanes[i].start < lanes[i].threshold]
  /\ verdict = "scanning"

\* One more byte of the haystack, for the core and for every lane.
Feed(y) ==
  /\ verdict = "scanning"
  /\ truth' = Step(core, truth, core.class_of[y])
  /\ matched' = (matched \/ truth' \in core.accept)
  /\ at' = [i \in DOMAIN at |-> lanes[i].rows[y][at[i]]]
  /\ open' = [i \in DOMAIN open |-> open[i] /\ at'[i] < lanes[i].threshold]
  /\ UNCHANGED <<core, parts, lanes, verdict>>

\* The haystack ends: one lane that stayed below its threshold is a refutation.
Answer ==
  /\ verdict = "scanning"
  /\ verdict' = IF \E i \in DOMAIN open : open[i] THEN "refuted" ELSE "survives"
  /\ UNCHANGED <<core, parts, lanes, truth, matched, at, open>>

Next == Answer \/ \E y \in Byte : Feed(y)

Spec == Init /\ [][Next]_vars

-----------------------------------------------------------------------------
(* Properties.                                                             *)

\* The lanes never leave the blocks they have rows for.
TypeOK ==
  /\ IsCore(core)
  /\ DOMAIN lanes = DOMAIN parts /\ DOMAIN at = DOMAIN parts /\ DOMAIN open = DOMAIN parts
  /\ truth \in States(core)
  /\ matched \in BOOLEAN
  /\ \A i \in DOMAIN parts :
       /\ parts[i] \in Inducing(core)
       /\ at[i] \in Blocks(core, parts[i])
       /\ open[i] \in BOOLEAN
  /\ verdict \in {"scanning", "refuted", "survives"}

\* Each lane is in the renumbered block of the state the core is really in: the
\* quotient is a homomorphic image, byte by byte.
Shadows == \A i \in DOMAIN at : at[i] = Home(core, parts[i], truth)

\* Once the core has accepted, no lane is still below its threshold.
NoneOpenAfterMatch == matched => \A i \in DOMAIN open : ~open[i]

\* "A rejection proves everything" (README, Soundness): a refuted haystack made
\* the core accept at no position, for any conjunction of partitions that passed
\* `induce`.
RefutationIsProof == verdict = "refuted" => ~matched
=============================================================================
