--------------------------------- MODULE Run ---------------------------------
(***************************************************************************)
(* What a scan stands for: a quotient read one byte after another           *)
(* (shuffle.rs, `scalar`).                                                  *)
(***************************************************************************)
EXTENDS Integers, Sequences

\* The blocks visited from block b on, when a document is read behind its first
\* `from` bytes.
RunOf(quotient, doc, from, b) ==
  LET run[j \in 0 .. Len(doc) - from] ==
        IF j = 0 THEN b ELSE quotient.rows[doc[from + j]][run[j - 1]]
  IN run
=============================================================================
