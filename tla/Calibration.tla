---------------------------- MODULE Calibration ----------------------------
(***************************************************************************)
(* A calibration row (price/calibration.rs): what one kernel on one machine *)
(* costs per byte.  What reaches memory has a column for each regime.       *)
(***************************************************************************)
EXTENDS Float

CONSTANTS
  MaxConjuncts    \* MAX_CONJUNCTS

\* `Residency`, and the regime a pass over that many bytes runs in.
Residency == {"Cache", "Memory"}
OfWorkingSet(bytes, residentAbove) == IF bytes > residentAbove THEN "Memory" ELSE "Cache"

\* A column of a row, one value for each regime.
PerRegime(cache, memory) == [Cache |-> cache, Memory |-> memory]

\* A row as one regime reads it.
Column(row, at) ==
  [sieve          |-> row.sieve,
   dfa_walk       |-> row.dfa_walk,
   dfa_skip       |-> row.dfa_skip[at],
   dfa_excursion  |-> row.dfa_excursion[at],
   skip_excursion |-> [slot \in DOMAIN row.skip_excursion |-> row.skip_excursion[slot][at]]]

\* `is_measured`, of the columns of the regime asked about.
IsMeasured(cal) ==
  /\ \E i \in DOMAIN cal.sieve : Positive(cal.sieve[i])
  /\ Positive(cal.dfa_walk)
  /\ Positive(cal.dfa_skip)

\* `sieve_per_byte`: doubled per unmeasured step up, taken unchanged on the way down.
SievePerByte(cal, conjuncts) ==
  LET want  == IF conjuncts > MaxConjuncts THEN MaxConjuncts ELSE conjuncts
      timed == {i \in DOMAIN cal.sieve : Positive(cal.sieve[i])}
      below == {i \in timed : i <= want}
  IN IF below # {} THEN Times(cal.sieve[Max(below)], F(2 ^ (want - Max(below))))
     ELSE IF timed # {} THEN cal.sieve[Min(timed)]
     ELSE Inf

\* Whether a whole row can answer for a regime.
MeasuredAt(row, at) == IsMeasured(Column(row, at))

\* The regimes a row can answer for.
MeasuredIn(row) == {at \in Residency : MeasuredAt(row, at)}

\* What a row is keyed by.
Triple(row) == <<row.os, row.arch, row.kernel>>
=============================================================================
