------------------------------ MODULE MCRelax ------------------------------
(* Instances of Relax: patterns of three levels over two bytes.              *)
EXTENDS Relax

\* The start of a document, its end, and between a byte 1 and another.
HoldsAt(look, doc, i) ==
  CASE look = "Start" -> i = 0
    [] look = "End" -> i = Len(doc)
    [] look = "Edge" -> i \in 1 .. Len(doc) - 1 /\ doc[i] # doc[i + 1]

Class(s) == <<[op |-> "Class", subs |-> <<>>, zeroWidth |-> FALSE, bytes |-> s]>>
Look(l) == <<[op |-> "Look", subs |-> <<>>, zeroWidth |-> TRUE, look |-> l]>>

Atoms == {<<EmptyHir>>, Look("Start"), Look("End"), Look("Edge"), Class({0}), Class({1}), Class({0, 1})}

\* p with q after it, and an expression of both.
Shifted(q, n) == [i \in DOMAIN q |-> [q[i] EXCEPT !.subs = [k \in DOMAIN @ |-> @[k] + n]]]
Of(op, p, q) ==
  LET parts == p \o Shifted(q, Len(p))
      e == [op |-> op, subs |-> <<Len(p), Len(parts)>>, zeroWidth |-> FALSE]
  IN Append(parts, [e EXCEPT !.zeroWidth = ZeroWidth(parts, e)])
Capture(p) == Append(p, [op |-> "Capture", subs |-> <<Len(p)>>, zeroWidth |-> p[Len(p)].zeroWidth])
Repeat(p, b) ==
  LET e == Repetition(p, b[1], b[2], Len(p))
  IN IF e = p[Len(p)] THEN p ELSE Append(p, e)

Bounds == {<<0, 1>>, <<0, 2>>, <<0, Unbounded>>, <<1, Unbounded>>, <<1, 3>>, <<2, 2>>,
           <<2, Unbounded>>}

Repeated(E) == {Repeat(e, b) : b \in Bounds, e \in E}
Paired(E, G) == {Of(op, e, g) : op \in {"Concat", "Alternation"}, e \in E, g \in G}

Few == {Look("Start"), Look("End"), Class({0}), Class({1})}
Second == Repeated(Atoms) \cup Paired(Atoms, Atoms) \cup {Capture(e) : e \in Atoms}
Third == Repeated(Second) \cup Paired({Class({0}), Look("Edge")}, Second)
           \cup Paired(Repeated(Few), Repeated(Few)) \cup {Capture(e) : e \in Second}

SomePatterns == Atoms \cup Second \cup Third
=============================================================================
