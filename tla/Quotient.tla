------------------------------ MODULE Quotient ------------------------------
(***************************************************************************)
(* The quotient a partition of the core induces (lattice.rs, `induce` and  *)
(* `Induced::expand`).  A partition is its canonical block ids: a function *)
(* `block` from the states to 0 .. BlockCount - 1.                         *)
(***************************************************************************)
EXTENDS Core, FiniteSets

CONSTANT Lanes     \* LANES: how many blocks one shuffle register holds

ASSUME LanesAssumption == Lanes \in Nat \ {0}

\* What a block id may be: the code keeps it in a byte.
BlockIds == 0 .. 255

\* `block_count`: one more than the largest id in use.
BlockCount(c, block) ==
  1 + (CHOOSE b \in {block[s] : s \in States(c)} :
         \A s \in States(c) : block[s] <= b)

Blocks(c, block) == 0 .. BlockCount(c, block) - 1

\* Mutant: a block accepts when all of its members do.
BlockAcceptsWhole(c, block, b) == {s \in States(c) : block[s] = b} \subseteq c.accept

\* `block_accepts`: a block accepts as soon as one of its members does.
BlockAccepts(c, block, b) == \E s \in c.accept : block[s] = b

\* The blocks that do not accept; how many there are is where accepting starts.
Rejecting(c, block) == {b \in Blocks(c, block) : ~BlockAccepts(c, block, b)}
Threshold(c, block) == Cardinality(Rejecting(c, block))

\* The `relabel` loop: rejecting blocks first and accepting blocks after them,
\* both in their old order.
Relabel(c, block, b) ==
  IF BlockAccepts(c, block, b)
    THEN Threshold(c, block)
           + Cardinality({d \in Blocks(c, block) \ Rejecting(c, block) : d < b})
    ELSE Cardinality({d \in Rejecting(c, block) : d < b})

\* The renumbered block state s is in.
Home(c, block, s) == Relabel(c, block, block[s])

\* Mutant: a row is checked against the start state's alone.
AgreesAtStart(c, block) ==
  \A s \in States(c) :
    Home(c, block, s) = Home(c, block, c.start) =>
      \A k \in Classes(c) :
        Home(c, block, Step(c, s, k)) = Home(c, block, Step(c, c.start, k))

\* The re-derivation loop of `induce`: every member of a block must agree with
\* the row its first member filled.
Agrees(c, block) ==
  \A s, t \in States(c) :
    Home(c, block, s) = Home(c, block, t) =>
      \A k \in Classes(c) :
        Home(c, block, Step(c, s, k)) = Home(c, block, Step(c, t, k))

\* The closing test of `induce`: no row of the table was left unfilled.
Filled(c, block) ==
  \A b \in Blocks(c, block) : \E s \in States(c) : Home(c, block, s) = b

\* `induce` answers Some exactly when every early return is passed over.
Induces(c, block) ==
  /\ BlockCount(c, block) <= Lanes
  /\ Threshold(c, block) # 0
  /\ Threshold(c, block) # BlockCount(c, block)
  /\ Home(c, block, c.start) < Threshold(c, block)
  /\ Agrees(c, block)
  /\ Filled(c, block)

\* `Induced::expand` after `induce`: the byte rows the shuffle kernel indexes.
\* Only rows of blocks that exist are ever read.
Quotient(c, block) ==
  [blocks    |-> BlockCount(c, block),
   threshold |-> Threshold(c, block),
   start     |-> Home(c, block, c.start),
   rows      |-> [y \in Byte |-> [b \in Blocks(c, block) |->
                    Home(c, block,
                         Step(c, CHOOSE s \in States(c) : Home(c, block, s) = b,
                              c.class_of[y]))]]]

\* The canonical ids `close` gives out: numbered in the order they are first seen.
Numbered(c, block) ==
  \A s \in States(c) : \A b \in 0 .. block[s] - 1 : \E t \in 0 .. s - 1 : block[t] = b

\* `refines`: does `fine` already tell apart everything `coarse` does?
Refines(c, fine, coarse) == Coarser(c, coarse, fine)
=============================================================================
