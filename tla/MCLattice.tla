------------------------------ MODULE MCLattice ------------------------------
(* Instances of Lattice over every small core.                              *)
EXTENDS Forest, MCCores

\* One to three states over two classes, four and five over one.  The five-state
\* cores are the smallest on which two candidates accept in an equal share of
\* their blocks, and the four-state cycle the smallest to close two pairs alike.
SmallCores ==
  CoresOf(1, 1) \cup CoresOf(2, 2) \cup CoresOf(3, 2) \cup CoresOf(4, 1) \cup CoresOf(5, 1)

\* Cores wide enough for a chain of partitions, one above the other.
WideCores == CoresOf(5, 1)
=============================================================================
