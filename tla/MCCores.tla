------------------------------- MODULE MCCores -------------------------------
(* Every core of a given width, up to the numbering the breadth-first       *)
(* projection gives its states.                                             *)
EXTENDS Core

\* Position, in the order the projection reads successors, at which a state is
\* first met; `n * m` stands for never.
FirstMet(d, n, m, s) ==
  LET at == {i \in 0 .. n * m - 1 : d[i \div m][i % m] = s}
  IN IF at = {} THEN n * m ELSE CHOOSE i \in at : \A j \in at : i <= j

\* States are numbered in the order the projection meets them, each of them
\* while expanding an earlier one.
BreadthFirst(d, n, m) ==
  \A s \in 1 .. n - 1 :
    /\ FirstMet(d, n, m, s) < s * m
    /\ s > 1 => FirstMet(d, n, m, s - 1) < FirstMet(d, n, m, s)

\* Classes are minimal: no two of them agree on every state.
DistinctColumns(d, n, m) ==
  \A i, j \in 0 .. m - 1 : (\A s \in 0 .. n - 1 : d[s][i] = d[s][j]) => i = j

CoresOf(n, m) ==
  {[states |-> n, classes |-> m, delta |-> d, accept |-> acc, start |-> 0,
    class_of |-> [y \in Byte |-> y % m]] :
     d \in {e \in [0 .. n - 1 -> [0 .. m - 1 -> 0 .. n - 1]] :
              BreadthFirst(e, n, m) /\ DistinctColumns(e, n, m)},
     acc \in SUBSET (1 .. n - 1) \ {{}}}
==============================================================================
