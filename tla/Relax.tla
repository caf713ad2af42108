------------------------------- MODULE Relax -------------------------------
(***************************************************************************)
(* The relaxed candidate (relax.rs, `bounded`, `relax` and `loosened`): a   *)
(* pattern that carries a repetition bound gets a second automaton, of the  *)
(* pattern with the bounds dropped.  Beside it the document grows, byte by  *)
(* byte, and both patterns are read on it by their meaning.  Parsing and    *)
(* determinization belong to regex-automata and keep that meaning.          *)
(***************************************************************************)
EXTENDS Integers, Sequences

CONSTANTS
  Letter,          \* the bytes of a document
  Holds(_, _, _),  \* whether a look-around holds in a document at a position
  Patterns,        \* the parsed patterns a caller may hand over
  MaxLen,          \* bound of the model on the document
  Unbounded,       \* a repetition without an upper bound
  NoCandidate      \* what `loosened` answers when there is nothing to relax

VARIABLES
  pattern,     \* never changes
  loosened,    \* the relaxed pattern, or NoCandidate
  stage,       \* "parsed" or "search"
  hay          \* the document so far

relaxVars == <<pattern, loosened, stage, hay>>

-----------------------------------------------------------------------------
(* A pattern (`Hir`) lists its expressions, each after those it is made of  *)
(* and the whole of it last.  An expression names its parts by their place, *)
(* and keeps of its properties whether it matches nothing but the empty     *)
(* string.  A literal is a concatenation of classes of one byte.            *)

Leaves == {"Empty", "Look", "Class"}
Top(p) == Len(p)

\* What an expression's properties are computed from: those of its parts.
ZeroWidth(p, e) == e.op # "Class" /\ \A k \in DOMAIN e.subs : p[e.subs[k]].zeroWidth

EmptyHir == [op |-> "Empty", subs |-> <<>>, zeroWidth |-> TRUE]

\* `Hir::repetition`: what matches nothing but the empty string is repeated at most
\* once, never is empty, and exactly once is no repetition.
Repetition(p, lo, hi, sub) ==
  LET zero == p[sub].zeroWidth
      min == IF zero /\ lo > 1 THEN 1 ELSE lo
      max == IF zero /\ (hi = Unbounded \/ hi > 1) THEN 1 ELSE hi
  IN IF <<min, max>> = <<0, 0>> THEN EmptyHir
     ELSE IF <<min, max>> = <<1, 1>> THEN p[sub]
     ELSE [op |-> "Repetition", subs |-> <<sub>>, zeroWidth |-> zero, min |-> min, max |-> max]

IsExpression(p, i) ==
  LET e == p[i] IN
  /\ e.subs \in Seq(1 .. i - 1)
  /\ "zeroWidth" \in DOMAIN e /\ e = [e EXCEPT !.zeroWidth = ZeroWidth(p, e)]
  /\ \/ e.op \in Leaves /\ e.subs = <<>>
     \/ e.op = "Capture" /\ Len(e.subs) = 1
     \/ e.op \in {"Concat", "Alternation"} /\ Len(e.subs) = 2
     \/ /\ e.op = "Repetition" /\ Len(e.subs) = 1
        /\ e.min \in Nat /\ e.max \in Nat \cup {Unbounded}
        /\ (e.max = Unbounded \/ e.min <= e.max)
        /\ e = Repetition(p, e.min, e.max, e.subs[1])

IsPattern(p) ==
  /\ p # <<>> /\ p \in Seq({p[i] : i \in DOMAIN p})
  /\ \A i \in DOMAIN p : IsExpression(p, i)
  /\ \A i \in DOMAIN p \ {Top(p)} :
       \E j \in DOMAIN p : \E k \in DOMAIN p[j].subs : p[j].subs[k] = i

ASSUME PatternsAssumption == Unbounded \notin Nat /\ \A p \in Patterns : IsPattern(p)

-----------------------------------------------------------------------------
(* The transform.                                                          *)

\* Mutant: an optional is not taken for a bound.
MovesFromTwo(e) == e.op = "Repetition" /\ e.min > 1

\* The bounds `relax` would move.
Moves(e) == e.op = "Repetition" /\ (e.min > 1 \/ e.max # Unbounded)

\* `bounded`: is there such a repetition anywhere?
Bounded(p) == \E i \in DOMAIN p : Moves(p[i])

\* Mutant: a repetition that may be absent has to be there.
LowerBoundRaised(lo) == IF lo < 1 THEN 1 ELSE lo

\* `rep.min.min(1)`.
LowerBound(lo) == IF lo < 1 THEN lo ELSE 1

\* `relax`: the pattern rebuilt from the leaves, every repetition unbounded above and
\* bounded by at most one below.
Relaxed(p) ==
  LET rebuilt[i \in DOMAIN p] ==
        IF p[i].op = "Repetition"
          THEN Repetition(rebuilt, LowerBound(p[i].min), Unbounded, p[i].subs[1])
          ELSE [p[i] EXCEPT !.zeroWidth = ZeroWidth(rebuilt, p[i])]
  IN rebuilt

ASSUME CandidateAssumption == \A p \in Patterns : Relaxed(p) # NoCandidate

-----------------------------------------------------------------------------
(* What a pattern means: where in the document it can match, as a relation  *)
(* between the positions a match starts and ends at.                        *)

Places == 0 .. Len(hay)
Nowhere == {<<i, i>> : i \in Places}

Then(R, S) == {<<x[1][1], x[2][2]>> : x \in {y \in R \X S : y[1][2] = y[2][1]}}

\* R one after another, n times.
Chained(R, n) ==
  LET chained[m \in 0 .. n] == IF m = 0 THEN Nowhere ELSE Then(chained[m - 1], R)
  IN chained[n]

\* More than Len(hay) matches of which each is longer than nothing do not fit.
Enough(lo) == lo + Len(hay)
Counts(e) == e.min .. (IF e.max = Unbounded THEN Enough(e.min) ELSE e.max)

Spans(p) ==
  LET spans[i \in DOMAIN p] ==
        LET e == p[i]
            sub(k) == spans[e.subs[k]]
        IN CASE e.op = "Empty" -> Nowhere
             [] e.op = "Look" -> {x \in Nowhere : Holds(e.look, hay, x[1])}
             [] e.op = "Class" ->
                  {x \in Places \X Places : x[2] = x[1] + 1 /\ hay[x[2]] \in e.bytes}
             [] e.op = "Capture" -> sub(1)
             [] e.op = "Concat" -> Then(sub(1), sub(2))
             [] e.op = "Alternation" -> sub(1) \cup sub(2)
             [] e.op = "Repetition" -> UNION {Chained(sub(1), n) : n \in Counts(e)}
  IN spans

Matches(p) == Spans(p)[Top(p)]

-----------------------------------------------------------------------------

RelaxInit ==
  /\ pattern \in Patterns
  /\ loosened = NoCandidate
  /\ stage = "parsed"
  /\ hay = <<>>

\* `loosened` with nothing to relax.
Decline ==
  /\ stage = "parsed"
  /\ ~Bounded(pattern)
  /\ stage' = "search"
  /\ UNCHANGED <<pattern, loosened, hay>>

Loosen ==
  /\ stage = "parsed"
  /\ Bounded(pattern)
  /\ loosened' = Relaxed(pattern)
  /\ stage' = "search"
  /\ UNCHANGED <<pattern, hay>>

Read(y) ==
  /\ stage = "search"
  /\ Len(hay) < MaxLen
  /\ hay' = Append(hay, y)
  /\ UNCHANGED <<pattern, loosened, stage>>

RelaxNext == Decline \/ Loosen \/ \E y \in Letter : Read(y)

RelaxSpec == RelaxInit /\ [][RelaxNext]_relaxVars

-----------------------------------------------------------------------------
(* Properties.                                                             *)

\* The relaxed language contains the strict one through every combinator, so that a
\* refutation by the relaxed automaton is one for the pattern the caller wrote: wherever
\* in a document the strict pattern matches, the relaxed one does.
Superset == loosened # NoCandidate => Matches(pattern) \subseteq Matches(loosened)

\* `bounded` and `relax` agree: declining gives up nothing, as relaxing would change
\* nothing; and relaxing leaves no bound at any depth, save on what is empty anyway, and
\* nothing for a second relaxation to do.
RelaxesWhatIsBounded ==
  stage = "search" =>
    IF loosened = NoCandidate THEN Relaxed(pattern) = pattern
    ELSE /\ \A i \in DOMAIN loosened : Moves(loosened[i]) => loosened[i].zeroWidth
         /\ Relaxed(loosened) = loosened
=============================================================================
