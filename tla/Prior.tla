------------------------------- MODULE Prior -------------------------------
(***************************************************************************)
(* What a byte is likely to be, given the byte before it (prior/mod.rs): a  *)
(* first-order chain over byte classes, every member of a class as likely   *)
(* as any other.  And how a corpus is counted into one (examples/mint.rs,   *)
(* `persistence`).                                                          *)
(***************************************************************************)
EXTENDS Float

CONSTANTS
  ClassOf,   \* Class::of, for every byte
  Support    \* SUPPORT: the pairs a row needs to count as a measurement

Classes == {ClassOf[y] : y \in DOMAIN ClassOf}
Members(class) == Cardinality({y \in DOMAIN ClassOf : ClassOf[y] = class})

\* `bytes_after`.
BytesAfter(chain, from) ==
  [y \in DOMAIN ClassOf |-> Divided(chain.next[from][ClassOf[y]], F(Members(ClassOf[y])))]

\* `memoryless`: every row is the same marginal.
Memoryless(marginal) == [next |-> [class \in Classes |-> marginal], start |-> marginal]

\* `UNIFORM`.
UNIFORM == Memoryless([class \in Classes |-> Divided(F(Members(class)), F(Cardinality(DOMAIN ClassOf)))])

\* `marginal`: the one row every row is, if it is one.
Marginal(chain) ==
  LET rows == {chain.next[class] : class \in Classes}
  IN IF Cardinality(rows) = 1 THEN rows ELSE {}

-----------------------------------------------------------------------------
(* Minting a chain.                                                        *)

\* The sum of what was counted in each document, or for each class.
Tally(counts) == FoldSet(LAMBDA i, n : n + counts[i], 0, DOMAIN counts)

\* How often one class follows another inside a document, and how often it occurs.
Follows(docs, from, to) ==
  Tally([d \in DOMAIN docs |->
           Cardinality({i \in 1 .. Len(docs[d]) - 1 :
                          ClassOf[docs[d][i]] = from /\ ClassOf[docs[d][i + 1]] = to})])
Occurs(docs, class) ==
  Tally([d \in DOMAIN docs |-> Cardinality({i \in DOMAIN docs[d] : ClassOf[docs[d][i]] = class})])

SupportOf(docs, from) == Tally([to \in Classes |-> Follows(docs, from, to)])

Ratio(n, of) == IF of = 0 THEN Zero ELSE Fraction(n, of)

\* Mutant: every row is what was counted.
RowCounted(docs, from) == [to \in Classes |-> Ratio(Follows(docs, from, to), SupportOf(docs, from))]

\* A row the corpus cannot speak for absorbs.
RowMinted(docs, from) ==
  [to \in Classes |->
     IF SupportOf(docs, from) >= Support THEN Ratio(Follows(docs, from, to), SupportOf(docs, from))
     ELSE IF from = to THEN One ELSE Zero]

\* `persistence`.
Persistence(docs) ==
  [next  |-> [from \in Classes |-> RowMinted(docs, from)],
   start |-> [class \in Classes |-> Ratio(Occurs(docs, class), Tally([d \in DOMAIN docs |-> Len(docs[d])]))]]
=============================================================================
