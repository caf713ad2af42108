------------------------------- MODULE Harvest -------------------------------
(***************************************************************************)
(* What the harvest promises (lattice.rs, the docs of `harvest`, `close`   *)
(* and `select`), without the forest, the stack, the scores or the greedy  *)
(* loop: each pair contributes the least closed partition above it, the    *)
(* sweep may stop early, and the conjunction is ranked by how small a part *)
(* of a quotient accepts, ties to the finer one.                           *)
(***************************************************************************)
EXTENDS Quotient, Sequences

CONSTANTS MaxCandidates, MaxConjuncts

VARIABLES
  core,     \* the automaton
  phase,    \* "sweeping", "over" or "done"
  pair,     \* the pair considered next
  kept,     \* the partitions held, in the order they were found
  chosen    \* the conjunction

absVars == <<core, phase, pair, kept, chosen>>

Init ==
  /\ IsCore(core)
  /\ phase = "sweeping"
  /\ pair = <<0, 1>>
  /\ kept = <<>>
  /\ chosen = <<>>

PairAfter ==
  IF pair[2] + 1 < core.states THEN <<pair[1], pair[2] + 1>>
                               ELSE <<pair[1] + 1, pair[1] + 2>>

Above(p, q) ==
  {f \in [States(core) -> States(core)] :
     f[p] = f[q] /\ Numbered(core, f) /\ Closed(core, f)}

LeastClosed(p, q) ==
  CHOOSE f \in Above(p, q) : \A g \in Above(p, q) : Coarser(core, g, f)

Holds(f) == \E i \in DOMAIN kept : kept[i] = f

Usable(f) == BlockCount(core, f) > 1 /\ Induces(core, f)

\* The least closed partition above the next pair is kept if it is usable and
\* new, and the sweep ends early when there is no room for another.
Consider ==
  /\ phase = "sweeping"
  /\ pair[2] < core.states
  /\ pair' = PairAfter
  /\ \E f \in {LeastClosed(pair[1], pair[2])} :
       kept' = IF Usable(f) /\ ~Holds(f) THEN Append(kept, f) ELSE kept
  /\ phase' = IF kept' # kept /\ Len(kept') = MaxCandidates THEN "over" ELSE "sweeping"
  /\ UNCHANGED <<core, chosen>>

\* No pair is left, or the step budget is spent.
Stop ==
  /\ phase = "sweeping"
  /\ phase' = "over"
  /\ UNCHANGED <<core, pair, kept, chosen>>

Ratio(f) == [acc |-> BlockCount(core, f) - Threshold(core, f), all |-> BlockCount(core, f)]

\* f is ranked strictly before g: a smaller part of it accepts, or as small a
\* part and it is the finer of the two.
RankedBefore(f, g) ==
  LET rf == Ratio(f)  rg == Ratio(g) IN
  \/ rf.acc * rg.all < rg.acc * rf.all
  \/ rf.acc * rg.all = rg.acc * rf.all /\ rf.all > rg.all

Found(f) == CHOOSE i \in DOMAIN kept : kept[i] = f

Before(f, g) == \/ RankedBefore(f, g)
                \/ ~RankedBefore(g, f) /\ Found(f) < Found(g)

Chosen(seq) == {seq[i] : i \in DOMAIN seq}

\* A conjunction `select` may answer with: ranked, none of it telling apart only
\* what an earlier one tells apart, and nothing better left out.
Conjunction(seq) ==
  /\ \A i, j \in DOMAIN seq : i < j =>
       Before(seq[i], seq[j]) /\ ~Refines(core, seq[i], seq[j])
  /\ \A i \in DOMAIN kept : kept[i] \notin Chosen(seq) =>
       \/ \E j \in DOMAIN seq : Before(seq[j], kept[i]) /\ Refines(core, seq[j], kept[i])
       \/ /\ Len(seq) = MaxConjuncts
          /\ \A j \in DOMAIN seq : Before(seq[j], kept[i])

Choose ==
  /\ phase = "over"
  /\ phase' = "done"
  /\ \E n \in 0 .. MaxConjuncts :
       \E at \in [1 .. n -> DOMAIN kept] :
         /\ chosen' = [i \in 1 .. n |-> kept[at[i]]]
         /\ Conjunction(chosen')
  /\ UNCHANGED <<core, pair, kept>>

Next == Consider \/ Stop \/ Choose

Spec == Init /\ [][Next]_absVars
=============================================================================
