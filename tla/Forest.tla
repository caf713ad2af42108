------------------------------- MODULE Forest -------------------------------
(***************************************************************************)
(* The disjoint-set forest of the harvest as it is kept (lattice.rs,        *)
(* `Forest`): an array of parents, which `find` shortens while it climbs.   *)
(* Lattice knows it by the roots `find` answers; here every action of it    *)
(* also makes the calls it makes, in order.                                 *)
(***************************************************************************)
EXTENDS Lattice

VARIABLE parent

forestVars == <<vars, parent>>

\* A climb: the parents as they are by now, and where it has got to.
Climbs == [parent : Labellings, at : States(core)]

\* Mutant: the link is written when the climb has moved on.
HalveMovedOn ==
  [c \in Climbs |->
     LET grand == c.parent[c.parent[c.at]]
     IN IF c.parent[c.at] = c.at
          THEN c
          ELSE [parent |-> [c.parent EXCEPT ![grand] = grand], at |-> grand]]

\* One turn of the loop of `find`: what is no root is hung below its grandparent, and the
\* climb goes on from there.
Halve ==
  [c \in Climbs |->
     LET grand == c.parent[c.parent[c.at]]
     IN IF c.parent[c.at] = c.at
          THEN c
          ELSE [parent |-> [c.parent EXCEPT ![c.at] = grand], at |-> grand]]

\* `find`: where the climb from x ends, and the parents it leaves behind.  A climb that
\* has taken as many turns as there are states would never end.
Find(p, x) ==
  LET climb[n \in 0 .. core.states] ==
        IF n = 0 THEN [parent |-> p, at |-> x] ELSE Halve[climb[n - 1]]
  IN climb[core.states]

\* `join`.
Hang(p, a, b) ==
  LET ra == Find(p, a)
      rb == Find(ra.parent, b)
  IN IF ra.at = rb.at THEN rb.parent ELSE [rb.parent EXCEPT ![ra.at] = rb.at]

\* Two finds in a row, and one for every state.
FindBoth(p, x, y) == Find(Find(p, x).parent, y).parent
FindAll(p) ==
  LET found[s \in 0 .. core.states] ==
        IF s = 0 THEN p ELSE Find(found[s - 1], s - 1).parent
  IN found[core.states]

ForestInit == Init /\ parent = Identity(core)

ForestOpen == Open /\ parent' = Identity(core)
ForestPop  == (PopMerged \/ PopJoin) /\ parent' = Hang(parent, Top[1], Top[2])
ForestPush ==
  /\ Push
  /\ parent' = FindBoth(parent, Step(core, merged[1], k), Step(core, merged[2], k))
ForestClose == (Keep \/ Discard) /\ parent' = FindAll(parent)
ForestIdle == (EndSweep \/ Take \/ PassOver \/ Finish) /\ UNCHANGED parent

ForestNext == ForestOpen \/ ForestPop \/ ForestPush \/ ForestClose \/ ForestIdle

ForestSpec == ForestInit /\ [][ForestNext]_forestVars

\* The harvest is a loop that runs until it returns.
FairForestSpec == ForestSpec /\ WF_forestVars(ForestNext)

-----------------------------------------------------------------------------
\* Where climbing n parents from a state leads.
Climb(p, s) ==
  LET up[n \in 0 .. core.states] == IF n = 0 THEN s ELSE p[up[n - 1]] IN up

\* However far the paths have been halved, and whatever has been hung below what in the
\* meantime, climbing from a state ends at the root its block is known by: a find never
\* moves a state to another block, and no cycle ever forms.
ParentsLeadToRep ==
  \A s \in States(core) :
    /\ Climb(parent, s)[core.states] = rep[s]
    /\ parent[rep[s]] = rep[s]
=============================================================================
