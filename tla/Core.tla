-------------------------------- MODULE Core --------------------------------
(***************************************************************************)
(* The reachable core a sieve reasons about (projection.rs, `Projection`): *)
(* dense state ids, one successor table over byte classes, and an accept   *)
(* set that already folds the end-of-input transition in.                  *)
(***************************************************************************)
EXTENDS Integers

CONSTANT Byte      \* the bytes of a haystack

States(c)  == 0 .. c.states - 1
Classes(c) == 0 .. c.classes - 1

\* What `Projection::of` hands the harvest.  The start state is always id 0.
IsCore(c) ==
  /\ c.states \in Nat \ {0}
  /\ c.classes \in Nat \ {0}
  /\ c.delta \in [States(c) -> [Classes(c) -> States(c)]]
  /\ c.accept \in SUBSET States(c)
  /\ c.start \in States(c)
  /\ c.class_of \in [Byte -> Classes(c)]

\* `Projection::step`: the successor of core state s on class k.
Step(c, s, k) == c.delta[s][k]

\* A labelling f of the states has the substitution property when states it
\* does not tell apart have successors it does not tell apart.
Closed(c, f) ==
  \A s, t \in States(c) :
    f[s] = f[t] => \A k \in Classes(c) : f[Step(c, s, k)] = f[Step(c, t, k)]

\* f tells apart no two states that g does not tell apart either.
Coarser(c, f, g) == \A s, t \in States(c) : g[s] = g[t] => f[s] = f[t]
=============================================================================
