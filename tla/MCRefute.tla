------------------------------- MODULE MCRefute -------------------------------
(* Instances of Refute over every small core.                               *)
EXTENDS Refute, MCCores

SmallCores == CoresOf(2, 2) \cup CoresOf(3, 2) \cup CoresOf(4, 1)

\* Every partition in canonical numbering, closed or not.
NumberedPartitions(c) == {f \in [States(c) -> States(c)] : Numbered(c, f)}
==============================================================================
