---------------------------- MODULE MCProjection ----------------------------
(* Instances of Projection over small automata on the bytes 0, 1 and 2.     *)
EXTENDS Projection, TLC

Automaton(n, to, eoi, match, quit, start) ==
  [states |-> 0 .. n - 1, start |-> start, next_eoi |-> eoi, match |-> match, quit |-> quit,
   next |-> [s \in 0 .. n - 1 |-> [y \in Byte |-> to[y][s]]]]

\* Where each of n states goes on one byte.
Columns(n) == [0 .. n - 1 -> 0 .. n - 1]
Same(n) == [s \in 0 .. n - 1 |-> s]
To(n, t) == [s \in 0 .. n - 1 |-> t]
Later(n, t) == [s \in 0 .. n - 1 |-> IF s = 0 THEN 0 ELSE t]

\* Every three-state automaton whose byte 2 goes where byte 0 or 1 does or nowhere;
\* end of input leads to state 2, from the start state too or not; state 2 may be a quit state.
ThreeStates ==
  {Automaton(3, (0 :> a) @@ (1 :> b) @@ (2 :> c), e, m, q, 0) :
     <<a, b, c>> \in {<<x, y, z>> \in Columns(3) \X Columns(3) \X Columns(3) :
                        z \in {x, y, Same(3)}},
     e \in {To(3, 2), Later(3, 2)}, m \in {{}, {1}, {2}}, q \in {{}, {2}}}

\* Four states, one more than the cap if all are reached; the state the search starts
\* in need not be entered again.
FourStates ==
  {Automaton(4, (0 :> a) @@ (1 :> To(4, 1)) @@ (2 :> a), Same(4), {3}, q, st) :
     a \in Columns(4), q \in {{}, {0}, {3}}, st \in {0, NoStart}}

SmallAutomata == ThreeStates \cup FourStates
=============================================================================
