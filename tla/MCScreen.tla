------------------------------ MODULE MCScreen ------------------------------
(* What the answer of a screen rests on: that a refutation is a proof for the *)
(* core (Refute), and that the relaxed pattern the core may come from matches *)
(* wherever the strict one does (Relax).  The two share no variable, and one  *)
(* of them moves in a behavior while the other stays where it starts.         *)
EXTENDS MCRefute, MCRelax

VARIABLE asked   \* "sieve" or "pattern"; never changes

SieveAtRest == core = (CHOOSE c \in Cores : TRUE) /\ parts = <<>> /\ Init
PatternAtRest == pattern = <<EmptyHir>> /\ RelaxInit

ScreenInit ==
  \/ asked = "sieve" /\ PatternAtRest /\ Init
  \/ asked = "pattern" /\ SieveAtRest /\ RelaxInit

ScreenNext ==
  \/ asked = "sieve" /\ Next /\ UNCHANGED <<asked, relaxVars>>
  \/ asked = "pattern" /\ RelaxNext /\ UNCHANGED <<asked, vars>>

ScreenSpec == ScreenInit /\ [][ScreenNext]_<<asked, vars, relaxVars>>
=============================================================================
