----------------------------- MODULE Refute_proof -----------------------------
(***************************************************************************)
(* A refutation is a proof: of the core, for every partition that passed   *)
(* `induce`, every conjunction of them and every haystack (Refute); and,   *)
(* where the core is the relaxed one, of the pattern it was relaxed from,  *)
(* for every pattern and every document (Relax).                           *)
(***************************************************************************)
EXTENDS Refute, Relax, Quotient_proof, SequenceTheorems

-----------------------------------------------------------------------------
(* The scan.                                                               *)

\* What the scan keeps true: each lane runs the quotient of its partition, sits in
\* the block of the true state, and is shut once the core has accepted.
IInv ==
  /\ core \in Cores
  /\ parts \in [DOMAIN parts -> Inducing(core)]
  /\ lanes = [i \in DOMAIN parts |-> Quotient(core, parts[i])]
  /\ DOMAIN at = DOMAIN parts
  /\ DOMAIN open = DOMAIN parts
  /\ truth \in States(core)
  /\ matched \in BOOLEAN
  /\ \A i \in DOMAIN parts : open[i] \in BOOLEAN
  /\ verdict \in {"scanning", "refuted", "survives"}
  /\ Shadows
  /\ NoneOpenAfterMatch
  /\ verdict = "refuted" => \E i \in DOMAIN open : open[i]

\* One lane against the core, as the scan uses it.
LEMMA LaneFacts ==
  ASSUME IInv, NEW i \in DOMAIN parts, NEW s \in States(core)
  PROVE  /\ Home(core, parts[i], s) \in Blocks(core, parts[i])
         /\ \A y \in Byte :
              lanes[i].rows[y][Home(core, parts[i], s)]
                = Home(core, parts[i], Step(core, s, core.class_of[y]))
         /\ s \in core.accept =>
              ~(Home(core, parts[i], s) < lanes[i].threshold)
<1>1. IsCore(core) /\ parts[i] \in [States(core) -> BlockIds] /\ Induces(core, parts[i])
  BY CoresAssumption, PartitionsAssumption DEF IInv, Inducing
<1>2. lanes[i] = Quotient(core, parts[i])
  BY DEF IInv
<1>3. Quotient(core, parts[i]).blocks = BlockCount(core, parts[i])
      /\ Quotient(core, parts[i]).threshold = Threshold(core, parts[i])
  BY DEF Quotient
<1>4. Home(core, parts[i], s) \in Blocks(core, parts[i])
  BY <1>1, <1>3, InducedIsSound DEF Blocks
<1>5. Threshold(core, parts[i]) \in Nat /\ Blocks(core, parts[i]) \subseteq Int
  <2>1. parts[i][s] \in Blocks(core, parts[i])
    BY <1>1, BlockCountFacts
  <2> QED
    BY <1>1, <2>1, RelabelFacts, BlockCountFacts DEF Blocks
<1>6. s \in core.accept => Home(core, parts[i], s) >= Threshold(core, parts[i])
  BY <1>1, <1>3, InducedIsSound
<1>7. s \in core.accept => ~(Home(core, parts[i], s) < lanes[i].threshold)
  <2>1. Home(core, parts[i], s) \in Int /\ lanes[i].threshold = Threshold(core, parts[i])
    BY <1>2, <1>3, <1>4, <1>5
  <2> QED
    BY <2>1, <1>5, <1>6
<1>8. \A y \in Byte :
        lanes[i].rows[y][Home(core, parts[i], s)]
          = Home(core, parts[i], Step(core, s, core.class_of[y]))
  BY <1>1, <1>2, InducedIsSound
<1> QED
  BY <1>4, <1>7, <1>8

\* The invariant holds of every reachable state.
THEOREM Invariance == Spec => []IInv
<1>1. Init => IInv
  <2> SUFFICES ASSUME Init PROVE IInv
    OBVIOUS
  <2>1. IsCore(core) /\ core.start \in States(core) /\ core \in Cores
    BY CoresAssumption DEF Init, IsCore
  <2>2. parts \in [DOMAIN parts -> Inducing(core)]
    BY DEF Init
  <2>3. /\ lanes = [i \in DOMAIN parts |-> Quotient(core, parts[i])]
        /\ DOMAIN at = DOMAIN parts /\ DOMAIN open = DOMAIN parts
        /\ truth = core.start /\ matched \in BOOLEAN /\ verdict = "scanning"
        /\ \A i \in DOMAIN parts : open[i] \in BOOLEAN
    BY DEF Init
  <2>4. ASSUME NEW i \in DOMAIN parts
        PROVE  /\ at[i] = Home(core, parts[i], truth)
               /\ ~(truth \in core.accept)
    <3>1. lanes[i].start = Home(core, parts[i], core.start)
          /\ lanes[i].threshold = Threshold(core, parts[i])
          /\ lanes[i].start < lanes[i].threshold
      BY <2>2, <2>3 DEF Quotient, Inducing, Induces
    <3>2. parts[i] \in [States(core) -> BlockIds]
      BY <2>1, <2>2, PartitionsAssumption DEF Inducing
    <3>3. parts[i][core.start] \in Blocks(core, parts[i])
      BY <2>1, <3>2, BlockCountFacts
    <3>4. Relabel(core, parts[i], parts[i][core.start]) \in Blocks(core, parts[i])
          /\ Threshold(core, parts[i]) \in Nat
          /\ (Relabel(core, parts[i], parts[i][core.start]) >= Threshold(core, parts[i])
                <=> BlockAccepts(core, parts[i], parts[i][core.start]))
      BY <2>1, <3>2, <3>3, RelabelFacts
    <3>5. ~BlockAccepts(core, parts[i], parts[i][core.start])
      BY <3>1, <3>4, <2>1, <3>2, BlockCountFacts DEF Home, Blocks
    <3>6. at[i] = lanes[i].start
      BY DEF Init
    <3> QED
      BY <2>3, <3>1, <3>5, <3>6 DEF BlockAccepts
  <2> QED
    BY <2>1, <2>2, <2>3, <2>4 DEF Init, IInv, Shadows, NoneOpenAfterMatch
<1>2. IInv /\ [Next]_vars => IInv'
  <2> SUFFICES ASSUME IInv, [Next]_vars PROVE IInv'
    OBVIOUS
  <2>1. ASSUME NEW y \in Byte, Feed(y) PROVE IInv'
    <3>1. /\ UNCHANGED <<core, parts, lanes, verdict>> /\ verdict = "scanning"
          /\ truth' = Step(core, truth, core.class_of[y])
          /\ matched' = (matched \/ truth' \in core.accept)
          /\ at' = [i \in DOMAIN at |-> lanes[i].rows[y][at[i]]]
          /\ open' = [i \in DOMAIN open |-> open[i] /\ at'[i] < lanes[i].threshold]
      BY <2>1 DEF Feed
    <3>2. truth' \in States(core)
      <4>1. IsCore(core) /\ core.class_of[y] \in Classes(core)
        BY CoresAssumption DEF IInv, IsCore
      <4> QED
        BY <3>1, <4>1, CoreFacts DEF IInv
    <3>3. \A i \in DOMAIN parts : at'[i] = Home(core, parts[i], truth')
      BY <3>1, LaneFacts DEF IInv, Shadows
    <3>4. \A i \in DOMAIN parts : truth' \in core.accept => ~(at'[i] < lanes[i].threshold)
      BY <3>2, <3>3, LaneFacts
    <3>5. \A i \in DOMAIN parts : open'[i] = (open[i] /\ at'[i] < lanes[i].threshold)
      BY <3>1 DEF IInv
    <3>6. matched' => \A i \in DOMAIN parts : ~open'[i]
      BY <3>1, <3>4, <3>5 DEF IInv, NoneOpenAfterMatch
    <3>7. /\ DOMAIN at' = DOMAIN parts' /\ DOMAIN open' = DOMAIN parts' /\ matched' \in BOOLEAN
          /\ \A i \in DOMAIN parts : open'[i] \in BOOLEAN
      BY <3>1, <3>5 DEF IInv
    <3> QED
      BY <3>1, <3>2, <3>3, <3>6, <3>7 DEF IInv, Shadows, NoneOpenAfterMatch
  <2>2. CASE Answer
    BY <2>2 DEF Answer, IInv, Shadows, NoneOpenAfterMatch
  <2>3. CASE UNCHANGED vars
    BY <2>3 DEF vars, IInv, Shadows, NoneOpenAfterMatch
  <2> QED
    BY <2>1, <2>2, <2>3 DEF Next
<1> QED
  BY <1>1, <1>2, PTL DEF Spec

\* Whatever is read, a lane sits in the block of the state the core is in.
THEOREM LanesShadow == Spec => []Shadows
<1>1. IInv => Shadows
  BY DEF IInv
<1> QED
  BY <1>1, Invariance, PTL

\* A position at which the core accepts shuts every lane for good.
THEOREM MatchShutsEveryLane == Spec => []NoneOpenAfterMatch
<1>1. IInv => NoneOpenAfterMatch
  BY DEF IInv
<1> QED
  BY <1>1, Invariance, PTL

\* A refuted haystack made the core accept nowhere.
THEOREM Soundness == Spec => []RefutationIsProof
<1>1. IInv => RefutationIsProof
  BY DEF IInv, RefutationIsProof, NoneOpenAfterMatch
<1> QED
  BY <1>1, Invariance, PTL

\* The lanes stay in the register and their types hold throughout.
THEOREM Typing == Spec => []TypeOK
<1>1. IInv => TypeOK
  <2> SUFFICES ASSUME IInv PROVE TypeOK
    OBVIOUS
  <2>1. IsCore(core)
    BY CoresAssumption DEF IInv
  <2>2. \A i \in DOMAIN parts : at[i] \in Blocks(core, parts[i])
    BY LaneFacts DEF IInv, Shadows
  <2> QED
    BY <2>1, <2>2 DEF IInv, TypeOK
<1> QED
  BY <1>1, Invariance, PTL

-----------------------------------------------------------------------------
(* Patterns.                                                               *)

\* What a pattern is, place by place.
LEMMA PatternFacts ==
  ASSUME NEW p, IsPattern(p)
  PROVE  /\ Len(p) \in Nat /\ Len(p) >= 1 /\ DOMAIN p = 1 .. Len(p)
         /\ p = [i \in 1 .. Len(p) |-> p[i]]
         /\ \A i \in 1 .. Len(p) :
              /\ p[i].zeroWidth \in BOOLEAN
              /\ DOMAIN p[i].subs = 1 .. Len(p[i].subs) /\ Len(p[i].subs) \in Nat
              /\ \A k \in DOMAIN p[i].subs : p[i].subs[k] \in 1 .. i - 1
              /\ p[i].op = "Repetition" =>
                   /\ 1 \in DOMAIN p[i].subs
                   /\ p[i].subs = <<p[i].subs[1]>>
                   /\ p[i].min \in Nat /\ p[i].max \in Nat \cup {Unbounded}
                   /\ p[i].max = Unbounded \/ p[i].min <= p[i].max
                   /\ p[i] = Repetition(p, p[i].min, p[i].max, p[i].subs[1])
<1>1. p \in Seq({p[i] : i \in DOMAIN p}) /\ p # <<>>
  BY DEF IsPattern
<1>2. Len(p) \in Nat /\ Len(p) >= 1 /\ DOMAIN p = 1 .. Len(p) /\ p = [i \in 1 .. Len(p) |-> p[i]]
  <2> DEFINE S == {p[i] : i \in DOMAIN p}
  <2>1. p \in Seq(S)
    BY <1>1
  <2> HIDE DEF S
  <2> QED
    BY <1>1, <2>1
<1>3. ASSUME NEW i \in 1 .. Len(p)
      PROVE  /\ p[i].zeroWidth \in BOOLEAN
             /\ DOMAIN p[i].subs = 1 .. Len(p[i].subs) /\ Len(p[i].subs) \in Nat
             /\ \A k \in DOMAIN p[i].subs : p[i].subs[k] \in 1 .. i - 1
             /\ p[i].op = "Repetition" =>
                  /\ 1 \in DOMAIN p[i].subs
                  /\ p[i].subs = <<p[i].subs[1]>>
                  /\ p[i].min \in Nat /\ p[i].max \in Nat \cup {Unbounded}
                  /\ p[i].max = Unbounded \/ p[i].min <= p[i].max
                  /\ p[i] = Repetition(p, p[i].min, p[i].max, p[i].subs[1])
  <2>1. IsExpression(p, i)
    BY <1>2, <1>3 DEF IsPattern
  <2>2. p[i].subs \in Seq(1 .. i - 1)
    BY <2>1 DEF IsExpression
  <2>3. DOMAIN p[i].subs = 1 .. Len(p[i].subs) /\ Len(p[i].subs) \in Nat
        /\ \A k \in DOMAIN p[i].subs : p[i].subs[k] \in 1 .. i - 1
    BY <2>2
  <2>4. ASSUME p[i].op = "Repetition"
        PROVE  /\ Len(p[i].subs) = 1
               /\ p[i].min \in Nat /\ p[i].max \in Nat \cup {Unbounded}
               /\ p[i].max = Unbounded \/ p[i].min <= p[i].max
               /\ p[i] = Repetition(p, p[i].min, p[i].max, p[i].subs[1])
    BY <2>1, <2>4 DEF IsExpression, Leaves
  <2>5. ASSUME p[i].op = "Repetition" PROVE p[i].subs = <<p[i].subs[1]>>
    BY <2>2, <2>4, <2>5
  <2>6. p[i].zeroWidth \in BOOLEAN
    <3>1. PICK b \in BOOLEAN : b = ZeroWidth(p, p[i])
      BY DEF ZeroWidth
    <3>2. "zeroWidth" \in DOMAIN p[i] /\ p[i] = [p[i] EXCEPT !.zeroWidth = b]
      BY <2>1, <3>1 DEF IsExpression
    <3>3. p[i].zeroWidth = b
      BY <3>2
    <3> QED
      BY <3>3
  <2> QED
    BY <2>3, <2>4, <2>5, <2>6
<1> QED
  BY <1>2, <1>3

-----------------------------------------------------------------------------
(* The transform.                                                          *)

\* What `relax` makes of expression i, when what it made of the ones before it is in g.
Rebuilt(g, p, i) ==
  IF p[i].op = "Repetition"
    THEN Repetition(g, LowerBound(p[i].min), Unbounded, p[i].subs[1])
    ELSE [p[i] EXCEPT !.zeroWidth = ZeroWidth(g, p[i])]

LEMMA RebuiltFromBefore ==
  ASSUME NEW p, IsPattern(p), NEW i \in 1 .. Len(p), NEW f, NEW g,
         \A j \in 1 .. i - 1 : f[j] = g[j]
  PROVE  Rebuilt(f, p, i) = Rebuilt(g, p, i)
<1>1. CASE p[i].op = "Repetition"
  <2>1. p[i].subs[1] \in 1 .. i - 1
    BY <1>1, PatternFacts
  <2>2. f[p[i].subs[1]] = g[p[i].subs[1]]
    BY <2>1
  <2> QED
    BY <1>1, <2>2 DEF Rebuilt, Repetition
<1>2. CASE p[i].op # "Repetition"
  <2>1. \A k \in DOMAIN p[i].subs : f[p[i].subs[k]] = g[p[i].subs[k]]
    BY PatternFacts
  <2>2. ZeroWidth(f, p[i]) = ZeroWidth(g, p[i])
    BY <2>1 DEF ZeroWidth
  <2> QED
    BY <1>2, <2>2 DEF Rebuilt
<1> QED
  BY <1>1, <1>2

\* The recursion of `relax` has a result, and this is the equation it solves.
LEMMA RelaxedIs ==
  ASSUME NEW p, IsPattern(p)
  PROVE  Relaxed(p) = [i \in 1 .. Len(p) |-> Rebuilt(Relaxed(p), p, i)]
<1> DEFINE n == Len(p)
           Is(g, m) == g = [i \in 1 .. m |-> Rebuilt(g, p, i)]
           S == {m \in 0 .. n : \E g : Is(g, m)}
<1>1. n \in Nat /\ DOMAIN p = 1 .. n
  BY PatternFacts
<1>2. 0 \in S
  <2> DEFINE g == [i \in 1 .. 0 |-> 0]
  <2>1. Is(g, 0)
    OBVIOUS
  <2> HIDE DEF g, Is
  <2> QED
    BY <1>1, <2>1
<1>3. ASSUME NEW m \in 0 .. n - 1, m \in S PROVE m + 1 \in S
  <2>1. PICK f : Is(f, m)
    BY <1>3
  <2> DEFINE g == [i \in 1 .. m + 1 |-> IF i = m + 1 THEN Rebuilt(f, p, m + 1) ELSE f[i]]
  <2>2. ASSUME NEW i \in 1 .. m + 1 PROVE g[i] = Rebuilt(g, p, i)
    <3>1. i \in 1 .. Len(p)
      BY <1>1
    <3>2. \A j \in 1 .. i - 1 : f[j] = g[j]
      BY <1>1
    <3>3. Rebuilt(f, p, i) = Rebuilt(g, p, i)
      <4> HIDE DEF g
      <4> QED
        BY <3>1, <3>2, RebuiltFromBefore
    <3>4. g[i] = Rebuilt(f, p, i)
      <4>1. CASE i = m + 1
        BY <4>1
      <4>2. CASE i # m + 1
        <5>1. i \in 1 .. m
          BY <4>2, <1>1
        <5>2. f[i] = Rebuilt(f, p, i)
          BY <2>1, <5>1, Zenon
        <5> QED
          BY <4>2, <5>2
      <4> QED
        BY <4>1, <4>2
    <3> QED
      BY <3>3, <3>4
  <2>3. Is(g, m + 1)
    <3>1. g = [i \in 1 .. m + 1 |-> g[i]]
      OBVIOUS
    <3> HIDE DEF g
    <3> QED
      BY <2>2, <3>1
  <2>4. m + 1 \in 0 .. n
    BY <1>1
  <2> HIDE DEF g, Is
  <2> QED
    BY <2>3, <2>4
<1>4. n \in S
  <2> HIDE DEF S
  <2>1. \A i \in 0 .. n : i \in S
    BY <1>1, <1>2, <1>3, UpTo
  <2> QED
    BY <1>1, <2>1
<1>5. PICK g : Is(g, n)
  BY <1>4
<1>6. PICK r : r = CHOOSE e : Is(e, n)
  OBVIOUS
<1>7. Relaxed(p) = r
  BY <1>1, <1>6 DEF Relaxed, Rebuilt
<1>8. Is(r, n)
  <2> HIDE DEF Is
  <2> QED
    BY <1>5, <1>6
<1> QED
  BY <1>7, <1>8

\* A repetition of a pattern is as `Hir::repetition` leaves it.
LEMMA RepetitionFacts ==
  ASSUME NEW p, IsPattern(p), NEW i \in 1 .. Len(p), p[i].op = "Repetition"
  PROVE  /\ p[i] = [op |-> "Repetition", subs |-> <<p[i].subs[1]>>,
                    zeroWidth |-> p[p[i].subs[1]].zeroWidth,
                    min |-> p[i].min, max |-> p[i].max]
         /\ p[i].zeroWidth => p[i].min = 0 /\ p[i].max = 1
<1> DEFINE e == p[i]
           sub == e.subs[1]
           zero == p[sub].zeroWidth
           min == IF zero /\ e.min > 1 THEN 1 ELSE e.min
           max == IF zero /\ (e.max = Unbounded \/ e.max > 1) THEN 1 ELSE e.max
           made == [op |-> "Repetition", subs |-> <<sub>>, zeroWidth |-> zero,
                    min |-> min, max |-> max]
<1>1. /\ sub \in 1 .. i - 1 /\ e.subs = <<sub>>
      /\ e.min \in Nat /\ e.max \in Nat \cup {Unbounded}
      /\ e.max = Unbounded \/ e.min <= e.max
      /\ e = Repetition(p, e.min, e.max, sub)
  BY PatternFacts
<1>2. Unbounded \notin Nat
  BY PatternsAssumption
<1>3. \/ e = EmptyHir
      \/ e = p[sub]
      \/ e = made /\ <<min, max>> # <<0, 0>> /\ <<min, max>> # <<1, 1>>
  <2> HIDE DEF e, sub
  <2> QED
    BY <1>1 DEF Repetition
<1>4. e # EmptyHir
  BY DEF EmptyHir
<1>5. e # p[sub]
  <2> SUFFICES ASSUME e = p[sub] PROVE FALSE
    OBVIOUS
  <2>1. sub \in 1 .. Len(p)
    BY <1>1, PatternFacts
  <2>2. p[sub].subs = <<sub>> /\ 1 \in DOMAIN p[sub].subs
    BY <1>1
  <2>3. p[sub].subs[1] \in 1 .. sub - 1
    BY <2>1, <2>2, PatternFacts
  <2>4. p[sub].subs[1] = sub
    BY <2>2
  <2>5. sub \in Int
    BY <1>1
  <2> HIDE DEF sub
  <2> QED
    BY <2>3, <2>4, <2>5
<1>6. e = made /\ <<min, max>> # <<0, 0>> /\ <<min, max>> # <<1, 1>>
  BY <1>3, <1>4, <1>5
<1>7. e.zeroWidth = zero /\ e.min = min /\ e.max = max
  <2> HIDE DEF min, max, zero, e, sub
  <2> QED
    BY <1>6
<1>8. e.zeroWidth => e.min = 0 /\ e.max = 1
  <2> SUFFICES ASSUME e.zeroWidth PROVE e.min = 0 /\ e.max = 1
    OBVIOUS
  <2>1. zero
    BY <1>7
  <2>2. min = e.min /\ max = e.max /\ <<e.min, e.max>> # <<0, 0>> /\ <<e.min, e.max>> # <<1, 1>>
    BY <1>6, <1>7
  <2>3. e.min \in {0, 1}
    <3> HIDE DEF e, sub, zero, max
    <3> QED
      BY <2>1, <2>2, <1>1
  <2>4. e.max \in {0, 1}
    <3> HIDE DEF e, sub, zero, min
    <3> QED
      BY <2>1, <2>2, <1>1, <1>2
  <2>5. e.min <= e.max
    <3> HIDE DEF e
    <3> QED
      BY <1>1, <1>2, <2>4
  <2> HIDE DEF e, sub, zero, min, max
  <2> QED
    BY <2>2, <2>3, <2>4, <2>5
<1> QED
  BY <1>6, <1>7, <1>8

\* What `relax` does to each expression: it moves the bounds of a repetition and no more.
Loose(e) ==
  [op |-> "Repetition", subs |-> e.subs, zeroWidth |-> e.zeroWidth,
   min |-> LowerBound(e.min), max |-> IF e.zeroWidth THEN 1 ELSE Unbounded]

LEMMA RelaxedFacts ==
  ASSUME NEW p, IsPattern(p), NEW i \in 1 .. Len(p)
  PROVE  Relaxed(p)[i] = IF p[i].op = "Repetition" THEN Loose(p[i]) ELSE p[i]
<1> DEFINE n == Len(p)
           r == Relaxed(p)
           Done(j) == /\ r[j] = IF p[j].op = "Repetition" THEN Loose(p[j]) ELSE p[j]
                      /\ r[j].zeroWidth = p[j].zeroWidth
           S == {j \in 0 .. n : j >= 1 => Done(j)}
<1>1. n \in Nat
  BY PatternFacts
<1>2. \A j \in 1 .. n : r[j] = Rebuilt(r, p, j)
  <2>1. r = [j \in 1 .. n |-> Rebuilt(r, p, j)]
    BY RelaxedIs
  <2> HIDE DEF r
  <2> QED
    BY <2>1, Zenon
<1>3. ASSUME NEW j \in 0 .. n, \A k \in 0 .. n : k < j => k \in S
      PROVE  j \in S
  <2> SUFFICES ASSUME j >= 1 PROVE Done(j)
    OBVIOUS
  <2>1. j \in 1 .. Len(p)
    BY <1>1
  <2>2. \A k \in 1 .. j - 1 : r[k].zeroWidth = p[k].zeroWidth
    <3> TAKE k \in 1 .. j - 1
    <3>1. k \in 0 .. n /\ k < j /\ k >= 1
      BY <1>1
    <3>2. k \in S
      BY <1>3, <3>1
    <3> QED
      BY <3>1, <3>2
  <2>3. CASE p[j].op # "Repetition"
    <3>1. \A k \in DOMAIN p[j].subs : r[p[j].subs[k]].zeroWidth = p[p[j].subs[k]].zeroWidth
      BY <2>1, <2>2, PatternFacts
    <3>2. ZeroWidth(r, p[j]) = ZeroWidth(p, p[j])
      BY <3>1 DEF ZeroWidth
    <3>3. p[j] = [p[j] EXCEPT !.zeroWidth = ZeroWidth(p, p[j])]
      <4>1. IsExpression(p, j)
        BY <2>1, PatternFacts DEF IsPattern
      <4> QED
        BY <4>1 DEF IsExpression
    <3>4. r[j] = [p[j] EXCEPT !.zeroWidth = ZeroWidth(r, p[j])]
      BY <1>2, <2>1, <2>3 DEF Rebuilt
    <3>5. r[j] = p[j]
      BY <3>2, <3>3, <3>4
    <3> QED
      BY <2>3, <3>5
  <2>4. CASE p[j].op = "Repetition"
    <3>1. PICK sub : sub = p[j].subs[1]
      OBVIOUS
    <3>2. sub \in 1 .. j - 1 /\ p[j].subs = <<sub>> /\ p[j].min \in Nat
      BY <2>1, <2>4, <3>1, PatternFacts
    <3>3. p[j].zeroWidth = p[sub].zeroWidth /\ (p[j].zeroWidth => p[j].min = 0)
      <4>1. p[j] = [op |-> "Repetition", subs |-> <<sub>>, zeroWidth |-> p[sub].zeroWidth,
                    min |-> p[j].min, max |-> p[j].max]
            /\ (p[j].zeroWidth => p[j].min = 0)
        BY <2>1, <2>4, <3>1, RepetitionFacts
      <4>2. p[j].zeroWidth = p[sub].zeroWidth
        BY <4>1
      <4> QED
        BY <4>1, <4>2
    <3>4. r[sub].zeroWidth = p[j].zeroWidth
      BY <2>2, <3>2, <3>3
    <3>5. PICK lo : lo = LowerBound(p[j].min)
      OBVIOUS
    <3>6. lo \in 0 .. 1 /\ (p[j].zeroWidth => lo = 0)
      BY <3>2, <3>3, <3>5 DEF LowerBound
    <3>7. r[j] = Repetition(r, lo, Unbounded, sub)
      BY <1>2, <2>1, <2>4, <3>1, <3>5 DEF Rebuilt
    <3>8. Repetition(r, lo, Unbounded, sub)
            = [op |-> "Repetition", subs |-> <<sub>>, zeroWidth |-> p[j].zeroWidth,
               min |-> lo, max |-> IF p[j].zeroWidth THEN 1 ELSE Unbounded]
      <4>1. Unbounded # 0 /\ Unbounded # 1
        BY PatternsAssumption
      <4>2. CASE p[j].zeroWidth
        <5>1. lo = 0 /\ r[sub].zeroWidth
          BY <4>2, <3>4, <3>6
        <5> HIDE DEF r
        <5> QED
          BY <5>1, <3>4, <4>2 DEF Repetition
      <4>3. CASE ~p[j].zeroWidth
        <5>1. ~r[sub].zeroWidth
          BY <4>3, <3>4
        <5> HIDE DEF r
        <5> QED
          BY <5>1, <3>4, <4>1, <4>3 DEF Repetition
      <4> QED
        BY <4>2, <4>3
    <3>9. r[j] = Loose(p[j])
      BY <3>2, <3>5, <3>7, <3>8 DEF Loose
    <3>10. r[j].zeroWidth = p[j].zeroWidth
      BY <3>9 DEF Loose
    <3> QED
      BY <2>4, <3>9, <3>10
  <2> QED
    BY <2>3, <2>4
<1>4. \A j \in 0 .. n : j \in S
  <2> HIDE DEF S
  <2> QED
    BY <1>1, <1>3, FromThoseBefore
<1> QED
  BY <1>1, <1>4

\* A relaxed pattern is one expression for each of the pattern's, of the same parts.
LEMMA RelaxedShape ==
  ASSUME NEW p, IsPattern(p)
  PROVE  /\ Len(Relaxed(p)) = Len(p) /\ DOMAIN Relaxed(p) = 1 .. Len(p)
         /\ Relaxed(p) = [i \in 1 .. Len(p) |-> Relaxed(p)[i]]
         /\ Relaxed(p) \in Seq({Relaxed(p)[i] : i \in 1 .. Len(p)})
         /\ \A i \in 1 .. Len(p) :
              /\ Relaxed(p)[i].op = p[i].op
              /\ Relaxed(p)[i].subs = p[i].subs
              /\ Relaxed(p)[i].zeroWidth = p[i].zeroWidth
<1>1. PICK r : r = Relaxed(p)
  OBVIOUS
<1>2. Len(p) \in Nat
  BY PatternFacts
<1>3. r = [i \in 1 .. Len(p) |-> Rebuilt(r, p, i)]
  BY <1>1, RelaxedIs
<1>4. r = [i \in 1 .. Len(p) |-> r[i]] /\ DOMAIN r = 1 .. Len(p)
  BY <1>3
<1>5. r \in Seq({r[i] : i \in 1 .. Len(p)})
  <2> DEFINE S == {r[i] : i \in 1 .. Len(p)}
  <2>1. \A i \in 1 .. Len(p) : r[i] \in S
    OBVIOUS
  <2> HIDE DEF S
  <2>2. r \in [1 .. Len(p) -> S]
    BY <1>4, <2>1
  <2>3. r \in Seq(S)
    BY <1>2, <2>2
  <2> QED
    BY <2>3 DEF S
<1>6. Len(r) = Len(p)
  <2> DEFINE S == {r[i] : i \in 1 .. Len(p)}
  <2>1. r \in Seq(S)
    BY <1>5
  <2> HIDE DEF S
  <2> QED
    BY <1>2, <1>4, <2>1
<1>7. \A i \in 1 .. Len(p) :
        r[i].op = p[i].op /\ r[i].subs = p[i].subs /\ r[i].zeroWidth = p[i].zeroWidth
  <2> TAKE i \in 1 .. Len(p)
  <2>1. r[i] = IF p[i].op = "Repetition" THEN Loose(p[i]) ELSE p[i]
    BY <1>1, RelaxedFacts
  <2>2. /\ Loose(p[i]).op = "Repetition" /\ Loose(p[i]).subs = p[i].subs
        /\ Loose(p[i]).zeroWidth = p[i].zeroWidth
    BY DEF Loose
  <2> QED
    BY <2>1, <2>2
<1> QED
  BY <1>1, <1>4, <1>5, <1>6, <1>7

\* It is a pattern again.
LEMMA RelaxedIsPattern ==
  ASSUME NEW p, IsPattern(p)
  PROVE  IsPattern(Relaxed(p))
<1>1. PICK r : r = Relaxed(p)
  OBVIOUS
<1>2. /\ Len(p) \in Nat /\ Len(p) >= 1 /\ DOMAIN p = 1 .. Len(p)
      /\ Len(r) = Len(p) /\ DOMAIN r = 1 .. Len(p) /\ r \in Seq({r[i] : i \in DOMAIN r})
      /\ \A i \in 1 .. Len(p) :
           r[i].op = p[i].op /\ r[i].subs = p[i].subs /\ r[i].zeroWidth = p[i].zeroWidth
  <2>1. /\ Len(r) = Len(p) /\ DOMAIN r = 1 .. Len(p) /\ r \in Seq({r[i] : i \in 1 .. Len(p)})
        /\ \A i \in 1 .. Len(p) :
             r[i].op = p[i].op /\ r[i].subs = p[i].subs /\ r[i].zeroWidth = p[i].zeroWidth
    BY <1>1, RelaxedShape
  <2>2. {r[i] : i \in 1 .. Len(p)} = {r[i] : i \in DOMAIN r}
    BY <2>1
  <2> QED
    BY <2>1, <2>2, PatternFacts
<1>3. r # <<>>
  BY <1>2
<1>4. ASSUME NEW i \in DOMAIN r PROVE IsExpression(r, i)
  <2>1. i \in 1 .. Len(p) /\ IsExpression(p, i)
    BY <1>2, <1>4 DEF IsPattern
  <2>2. \A k \in DOMAIN p[i].subs : p[i].subs[k] \in 1 .. Len(p)
    BY <2>1, PatternFacts, <1>2
  <2>3. ZeroWidth(r, r[i]) = ZeroWidth(p, p[i])
    BY <1>2, <2>1, <2>2 DEF ZeroWidth
  <2>4. CASE p[i].op # "Repetition"
    <3>1. r[i] = p[i]
      BY <1>1, <2>1, <2>4, RelaxedFacts
    <3>2. ZeroWidth(r, p[i]) = ZeroWidth(p, p[i])
      BY <2>3, <3>1
    <3> QED
      BY <2>1, <2>4, <3>1, <3>2 DEF IsExpression
  <2>5. CASE p[i].op = "Repetition"
    <3>1. PICK sub : sub = p[i].subs[1]
      OBVIOUS
    <3>2. /\ sub \in 1 .. i - 1 /\ p[i].subs = <<sub>> /\ p[i].min \in Nat
          /\ p[i].zeroWidth = p[sub].zeroWidth /\ (p[i].zeroWidth => p[i].min = 0)
      <4>1. /\ p[i] = [op |-> "Repetition", subs |-> <<sub>>, zeroWidth |-> p[sub].zeroWidth,
                       min |-> p[i].min, max |-> p[i].max]
            /\ (p[i].zeroWidth => p[i].min = 0)
        BY <2>1, <2>5, <3>1, RepetitionFacts
      <4>2. p[i].zeroWidth = p[sub].zeroWidth
        BY <4>1
      <4> QED
        BY <2>1, <2>5, <3>1, <4>1, <4>2, PatternFacts
    <3>3. r[i] = Loose(p[i])
      BY <1>1, <2>1, <2>5, RelaxedFacts
    <3>4. PICK lo : lo = LowerBound(p[i].min)
      OBVIOUS
    <3>5. lo \in 0 .. 1 /\ (p[i].zeroWidth => lo = 0)
      BY <3>2, <3>4 DEF LowerBound
    <3>6. PICK hi : hi = IF p[i].zeroWidth THEN 1 ELSE Unbounded
      OBVIOUS
    <3>7. r[i] = [op |-> "Repetition", subs |-> <<sub>>, zeroWidth |-> p[i].zeroWidth,
                  min |-> lo, max |-> hi]
      BY <3>2, <3>3, <3>4, <3>6 DEF Loose
    <3>8. r[sub].zeroWidth = p[i].zeroWidth
      BY <1>2, <2>1, <3>2
    <3>9. Unbounded \notin Nat
      BY PatternsAssumption
    <3>10. r[i] = Repetition(r, lo, hi, sub)
      <4>1. CASE p[i].zeroWidth
        <5>1. lo = 0 /\ hi = 1 /\ r[sub].zeroWidth
          BY <4>1, <3>5, <3>6, <3>8
        <5> QED
          BY <5>1, <3>7, <3>8, <3>9, <4>1 DEF Repetition
      <4>2. CASE ~p[i].zeroWidth
        <5>1. hi = Unbounded /\ ~r[sub].zeroWidth
          BY <4>2, <3>6, <3>8
        <5> QED
          BY <5>1, <3>7, <3>8, <3>9, <4>2 DEF Repetition
      <4> QED
        BY <4>1, <4>2
    <3>11. /\ r[i].op = "Repetition" /\ r[i].subs = <<sub>> /\ r[i].min = lo /\ r[i].max = hi
           /\ DOMAIN r[i] = {"op", "subs", "zeroWidth", "min", "max"}
      BY <3>7
    <3>12. r[i].zeroWidth = ZeroWidth(r, r[i])
      <4>1. DOMAIN r[i].subs = {1} /\ r[i].subs[1] = sub
        BY <3>11
      <4>2. r[sub].zeroWidth \in BOOLEAN
        BY <2>1, <3>8, PatternFacts
      <4>3. ZeroWidth(r, r[i]) = r[sub].zeroWidth
        BY <3>11, <4>1, <4>2 DEF ZeroWidth
      <4> QED
        BY <4>3, <3>8, <3>7
    <3>13. r[i] = [r[i] EXCEPT !.zeroWidth = ZeroWidth(r, r[i])]
      <4>1. PICK b : b = p[i].zeroWidth
        OBVIOUS
      <4>2. ZeroWidth(r, r[i]) = b
        BY <3>12, <3>7, <4>1
      <4>3. r[i] = [[op |-> "Repetition", subs |-> <<sub>>, zeroWidth |-> b,
                     min |-> lo, max |-> hi] EXCEPT !.zeroWidth = b]
        BY <3>7, <4>1
      <4> QED
        BY <4>1, <4>2, <4>3, <3>7
    <3>14. r[i].subs \in Seq(1 .. i - 1) /\ Len(r[i].subs) = 1
      BY <3>11, <3>2
    <3>15. hi = Unbounded \/ lo <= hi
      BY <3>5, <3>6
    <3> QED
      BY <3>5, <3>6, <3>10, <3>11, <3>13, <3>14, <3>15 DEF IsExpression
  <2> QED
    BY <2>4, <2>5
<1>5. \A i \in DOMAIN r \ {Top(r)} :
        \E j \in DOMAIN r : \E k \in DOMAIN r[j].subs : r[j].subs[k] = i
  <2> TAKE i \in DOMAIN r \ {Top(r)}
  <2>1. \E j \in DOMAIN p : \E k \in DOMAIN p[j].subs : p[j].subs[k] = i
    BY <1>2 DEF IsPattern, Top
  <2> QED
    BY <1>2, <2>1
<1>6. IsPattern(r)
  BY <1>2, <1>3, <1>4, <1>5 DEF IsPattern
<1> QED
  BY <1>1, <1>6

\* Relaxing what carries no bound changes nothing.
LEMMA UnboundedStays ==
  ASSUME NEW p, IsPattern(p), ~Bounded(p)
  PROVE  Relaxed(p) = p
<1>1. DOMAIN p = 1 .. Len(p) /\ p = [i \in 1 .. Len(p) |-> p[i]]
  BY PatternFacts
<1>2. ASSUME NEW i \in 1 .. Len(p), p[i].op = "Repetition" PROVE Loose(p[i]) = p[i]
  <2>1. p[i].min <= 1 /\ p[i].max = Unbounded
    <3>1. ~Moves(p[i]) /\ p[i].min \in Nat
      BY <1>1, <1>2, PatternFacts DEF Bounded
    <3> QED
      BY <3>1, <1>2 DEF Moves
  <2>2. p[i].min \in Nat /\ p[i].subs = <<p[i].subs[1]>>
    BY <1>2, PatternFacts
  <2>3. ~p[i].zeroWidth
    <3>1. p[i].zeroWidth => p[i].max = 1
      BY <1>2, RepetitionFacts
    <3> QED
      BY <2>1, <3>1, PatternsAssumption
  <2>4. LowerBound(p[i].min) = p[i].min
    BY <2>1, <2>2 DEF LowerBound
  <2>5. PICK b : b = p[p[i].subs[1]].zeroWidth
    OBVIOUS
  <2>6. p[i] = [op |-> "Repetition", subs |-> <<p[i].subs[1]>>, zeroWidth |-> b,
                min |-> p[i].min, max |-> p[i].max]
    BY <1>2, <2>5, RepetitionFacts
  <2>7. p[i].zeroWidth = b
    BY <2>6
  <2> QED
    BY <2>1, <2>2, <2>3, <2>4, <2>6, <2>7 DEF Loose
<1>3. \A i \in 1 .. Len(p) : Relaxed(p)[i] = p[i]
  BY <1>2, RelaxedFacts
<1>4. Relaxed(p) = [i \in 1 .. Len(p) |-> Relaxed(p)[i]]
  BY RelaxedShape
<1> QED
  BY <1>1, <1>3, <1>4

\* Once relaxed there is nothing left to relax.
LEMMA RelaxedOnce ==
  ASSUME NEW p, IsPattern(p)
  PROVE  /\ Relaxed(Relaxed(p)) = Relaxed(p)
         /\ \A i \in DOMAIN Relaxed(p) :
              Moves(Relaxed(p)[i]) => Relaxed(p)[i].zeroWidth
<1>1. PICK r : r = Relaxed(p)
  OBVIOUS
<1>2. IsPattern(r) /\ Len(r) = Len(p) /\ DOMAIN r = 1 .. Len(p)
      /\ r = [i \in 1 .. Len(p) |-> r[i]]
  BY <1>1, RelaxedIsPattern, RelaxedShape
<1>3. ASSUME NEW i \in 1 .. Len(p), p[i].op = "Repetition"
      PROVE  /\ r[i] = Loose(p[i]) /\ Loose(r[i]) = r[i]
             /\ Moves(r[i]) => r[i].zeroWidth
  <2>1. r[i] = Loose(p[i])
    BY <1>1, <1>3, RelaxedFacts
  <2>2. p[i].min \in Nat
    BY <1>3, PatternFacts
  <2>3. LowerBound(p[i].min) \in 0 .. 1
        /\ LowerBound(LowerBound(p[i].min)) = LowerBound(p[i].min)
    BY <2>2 DEF LowerBound
  <2>4. /\ r[i].op = "Repetition" /\ r[i].subs = p[i].subs /\ r[i].zeroWidth = p[i].zeroWidth
        /\ r[i].min = LowerBound(p[i].min)
        /\ r[i].max = IF p[i].zeroWidth THEN 1 ELSE Unbounded
    BY <2>1 DEF Loose
  <2>5. Loose(r[i]) = Loose(p[i])
    BY <2>3, <2>4 DEF Loose
  <2>6. Moves(r[i]) => r[i].zeroWidth
    BY <2>3, <2>4 DEF Moves
  <2> QED
    BY <2>1, <2>5, <2>6
<1>4. \A i \in 1 .. Len(p) : Relaxed(r)[i] = r[i]
  <2> TAKE i \in 1 .. Len(p)
  <2>1. r[i].op = p[i].op
    BY <1>1, RelaxedShape
  <2>2. Relaxed(r)[i] = IF r[i].op = "Repetition" THEN Loose(r[i]) ELSE r[i]
    BY <1>2, RelaxedFacts
  <2> QED
    BY <1>3, <2>1, <2>2
<1>5. Relaxed(r) = [i \in 1 .. Len(p) |-> Relaxed(r)[i]]
  BY <1>2, RelaxedShape
<1>6. Relaxed(r) = r
  BY <1>2, <1>4, <1>5
<1>7. \A i \in DOMAIN r : Moves(r[i]) => r[i].zeroWidth
  <2> TAKE i \in DOMAIN r
  <2>1. r[i].op = p[i].op
    BY <1>1, <1>2, RelaxedShape
  <2> QED
    BY <1>2, <1>3, <2>1 DEF Moves
<1> QED
  BY <1>1, <1>6, <1>7

-----------------------------------------------------------------------------
(* Relations between places.                                               *)

AllSpans == Places \X Places
Forward == {x \in AllSpans : x[1] <= x[2]}

LEMMA ThenFacts ==
  ASSUME NEW R \in SUBSET AllSpans, NEW S \in SUBSET AllSpans
  PROVE  /\ Then(R, S) \in SUBSET AllSpans
         /\ \A a, b \in Places :
              <<a, b>> \in Then(R, S) <=> \E k \in Places : <<a, k>> \in R /\ <<k, b>> \in S
<1>1. ASSUME NEW x \in Then(R, S)
      PROVE  \E a, k, b \in Places : x = <<a, b>> /\ <<a, k>> \in R /\ <<k, b>> \in S
  <2>1. PICK y \in R \X S : y[1][2] = y[2][1] /\ x = <<y[1][1], y[2][2]>>
    BY DEF Then
  <2>2. y[1] \in R /\ y[2] \in S
    BY <2>1
  <2>3. PICK a \in Places, k \in Places : y[1] = <<a, k>>
    BY <2>2 DEF AllSpans
  <2>4. PICK l \in Places, b \in Places : y[2] = <<l, b>>
    BY <2>2 DEF AllSpans
  <2>5. k = l /\ x = <<a, b>>
    BY <2>1, <2>3, <2>4
  <2> QED
    BY <2>2, <2>3, <2>4, <2>5
<1>2. ASSUME NEW a \in Places, NEW b \in Places, NEW k \in Places,
             <<a, k>> \in R, <<k, b>> \in S
      PROVE  <<a, b>> \in Then(R, S)
  <2>1. PICK y : y = <<<<a, k>>, <<k, b>>>>
    OBVIOUS
  <2>2. y \in R \X S /\ y[1][2] = y[2][1] /\ <<y[1][1], y[2][2]>> = <<a, b>>
    BY <1>2, <2>1
  <2> QED
    BY <2>2 DEF Then
<1>3. ASSUME NEW a \in Places, NEW b \in Places, <<a, b>> \in Then(R, S)
      PROVE  \E k \in Places : <<a, k>> \in R /\ <<k, b>> \in S
  BY <1>1, <1>3
<1>4. ASSUME NEW x \in Then(R, S) PROVE x \in AllSpans
  <2>1. PICK a \in Places, b \in Places : x = <<a, b>>
    BY <1>1
  <2> QED
    BY <2>1 DEF AllSpans
<1> QED
  BY <1>2, <1>3, <1>4

\* A pair of places, by its two.
LEMMA SpanIs ==
  ASSUME NEW x \in AllSpans
  PROVE  \E a, b \in Places : x = <<a, b>>
BY DEF AllSpans

LEMMA ThenGrows ==
  ASSUME NEW R2 \in SUBSET AllSpans, NEW S2 \in SUBSET AllSpans,
         NEW R \in SUBSET R2, NEW S \in SUBSET S2
  PROVE  Then(R, S) \subseteq Then(R2, S2)
<1>1. R \in SUBSET AllSpans /\ S \in SUBSET AllSpans
  OBVIOUS
<1> SUFFICES ASSUME NEW x \in Then(R, S) PROVE x \in Then(R2, S2)
  OBVIOUS
<1>2. PICK a \in Places, b \in Places : x = <<a, b>>
  BY <1>1, ThenFacts, SpanIs
<1>3. PICK k \in Places : <<a, k>> \in R /\ <<k, b>> \in S
  BY <1>1, <1>2, ThenFacts
<1> QED
  BY <1>2, <1>3, ThenFacts

LEMMA ThenOrdered ==
  ASSUME Len(hay) \in Nat, NEW R \in SUBSET Forward, NEW S \in SUBSET Forward
  PROVE  Then(R, S) \subseteq Forward
<1>1. R \in SUBSET AllSpans /\ S \in SUBSET AllSpans
  BY DEF Forward
<1> SUFFICES ASSUME NEW x \in Then(R, S) PROVE x \in Forward
  OBVIOUS
<1>2. PICK a \in Places, b \in Places : x = <<a, b>>
  BY <1>1, ThenFacts, SpanIs
<1>3. PICK k \in Places : <<a, k>> \in R /\ <<k, b>> \in S
  BY <1>1, <1>2, ThenFacts
<1>4. a <= k /\ k <= b
  BY <1>3 DEF Forward
<1>5. a <= b
  BY <1>4 DEF Places
<1> QED
  BY <1>2, <1>5 DEF Forward, AllSpans

LEMMA NowhereFacts ==
  ASSUME Len(hay) \in Nat
  PROVE  /\ Nowhere \in SUBSET Forward
         /\ \A a, b \in Places : <<a, b>> \in Nowhere <=> a = b
<1>1. ASSUME NEW x \in Nowhere PROVE x \in Forward
  <2>1. PICK a \in Places : x = <<a, a>>
    BY DEF Nowhere
  <2>2. a <= a
    BY DEF Places
  <2> QED
    BY <2>1, <2>2 DEF Forward, AllSpans
<1>2. ASSUME NEW a \in Places, NEW b \in Places PROVE <<a, b>> \in Nowhere <=> a = b
  BY DEF Nowhere
<1> QED
  BY <1>1, <1>2

-----------------------------------------------------------------------------
(* One after another.                                                      *)

ChainsUp(f, n, R) == f[0] = Nowhere /\ \A j \in 1 .. n : f[j] = Then(f[j - 1], R)

LEMMA ChainsExist ==
  ASSUME Len(hay) \in Nat, NEW R \in SUBSET AllSpans, NEW n \in Nat
  PROVE  \E f \in [0 .. n -> SUBSET AllSpans] : ChainsUp(f, n, R)
<1> DEFINE B == SUBSET AllSpans
           row == [j \in 1 .. n |-> [S \in B |-> Then(S, R)]]
<1>1. row \in Rows(n, B)
  <2>1. \A S \in B : Then(S, R) \in B
    BY ThenFacts
  <2> QED
    BY <2>1 DEF Rows
<1>2. Nowhere \in B
  BY NowhereFacts DEF Forward
<1>3. PICK f \in [0 .. n -> B] : Fills(f, n, Nowhere, row)
  <2> HIDE DEF row, B
  <2> QED
    BY <1>1, <1>2, FilledFromFront
<1>4. ChainsUp(f, n, R)
  <2>1. ASSUME NEW j \in 1 .. n PROVE f[j] = Then(f[j - 1], R)
    <3>1. f[j - 1] \in B
      OBVIOUS
    <3>2. f[j] = row[j][f[j - 1]]
      BY <1>3 DEF Fills
    <3> QED
      BY <3>1, <3>2
  <2> QED
    BY <1>3, <2>1 DEF ChainsUp, Fills
<1> QED
  BY <1>3, <1>4

LEMMA ChainedEnds ==
  ASSUME Len(hay) \in Nat, NEW R \in SUBSET AllSpans, NEW n \in Nat, NEW f, ChainsUp(f, n, R)
  PROVE  Chained(R, n) = f[n]
<1> DEFINE Reads(g) == g = [m \in 0 .. n |-> IF m = 0 THEN Nowhere ELSE Then(g[m - 1], R)]
<1>1. PICK g \in [0 .. n -> SUBSET AllSpans] : ChainsUp(g, n, R)
  BY ChainsExist
<1>2. Reads(g)
  <2>1. \A m \in 0 .. n : g[m] = IF m = 0 THEN Nowhere ELSE Then(g[m - 1], R)
    BY <1>1 DEF ChainsUp
  <2> QED
    BY <2>1
<1>3. PICK r : r = CHOOSE e : Reads(e)
  OBVIOUS
<1>4. Reads(r)
  <2> HIDE DEF Reads
  <2> QED
    BY <1>2, <1>3
<1>5. Chained(R, n) = r[n]
  BY <1>3 DEF Chained
<1> DEFINE S == {j \in 0 .. n : r[j] = f[j]}
<1>6. 0 \in S
  <2>1. 0 \in 0 .. n
    OBVIOUS
  <2>2. r[0] = Nowhere
    BY <1>4, <2>1, Zenon
  <2> QED
    BY <2>1, <2>2 DEF ChainsUp
<1>7. ASSUME NEW j \in 0 .. n - 1, j \in S PROVE j + 1 \in S
  <2>1. PICK k : k = j + 1
    OBVIOUS
  <2>2. k \in 0 .. n /\ k \in 1 .. n /\ k # 0 /\ k - 1 = j
    BY <2>1
  <2>3. r[k] = Then(r[k - 1], R)
    BY <1>4, <2>2, Zenon
  <2>4. f[k] = Then(f[k - 1], R)
    BY <2>2 DEF ChainsUp
  <2>5. r[k - 1] = f[k - 1]
    BY <1>7, <2>2
  <2>6. r[k] = f[k]
    BY <2>3, <2>4, <2>5
  <2> QED
    BY <2>1, <2>2, <2>6
<1>8. \A j \in 0 .. n : j \in S
  <2> HIDE DEF S
  <2> QED
    BY <1>6, <1>7, UpTo
<1> QED
  BY <1>5, <1>8

LEMMA ChainedIs ==
  ASSUME Len(hay) \in Nat, NEW R \in SUBSET AllSpans
  PROVE  /\ Chained(R, 0) = Nowhere
         /\ \A n \in Nat : Chained(R, n + 1) = Then(Chained(R, n), R)
         /\ \A n \in Nat : Chained(R, n) \in SUBSET AllSpans
<1>1. ASSUME NEW n \in Nat
      PROVE  Chained(R, n + 1) = Then(Chained(R, n), R) /\ Chained(R, n) \in SUBSET AllSpans
  <2>1. PICK f \in [0 .. n + 1 -> SUBSET AllSpans] : ChainsUp(f, n + 1, R)
    BY ChainsExist
  <2>2. ChainsUp(f, n, R)
    BY <2>1 DEF ChainsUp
  <2>3. Chained(R, n + 1) = f[n + 1] /\ Chained(R, n) = f[n]
    BY <2>1, <2>2, ChainedEnds
  <2>4. f[n + 1] = Then(f[n], R)
    BY <2>1 DEF ChainsUp
  <2>5. f[n] \in SUBSET AllSpans
    BY <2>1
  <2> QED
    BY <2>3, <2>4, <2>5
<1>2. Chained(R, 0) = Nowhere
  <2>1. PICK f \in [0 .. 0 -> SUBSET AllSpans] : ChainsUp(f, 0, R)
    BY ChainsExist
  <2>2. Chained(R, 0) = f[0]
    BY <2>1, ChainedEnds
  <2> QED
    BY <2>1, <2>2 DEF ChainsUp
<1> QED
  BY <1>1, <1>2

\* More of each is more of all, and no match runs backwards.
LEMMA ChainedGrows ==
  ASSUME Len(hay) \in Nat, NEW R2 \in SUBSET Forward, NEW R \in SUBSET R2, NEW n \in Nat
  PROVE  Chained(R, n) \subseteq Chained(R2, n) /\ Chained(R2, n) \subseteq Forward
<1> DEFINE S == {m \in 0 .. n : /\ Chained(R, m) \subseteq Chained(R2, m)
                                /\ Chained(R2, m) \subseteq Forward}
<1>1. R \in SUBSET AllSpans /\ R2 \in SUBSET AllSpans
  BY DEF Forward
<1>2. 0 \in S
  BY <1>1, ChainedIs, NowhereFacts
<1>3. ASSUME NEW m \in 0 .. n - 1, m \in S PROVE m + 1 \in S
  <2>1. m \in Nat /\ m + 1 \in 0 .. n
    OBVIOUS
  <2>2. Chained(R, m + 1) = Then(Chained(R, m), R) /\ Chained(R, m) \in SUBSET AllSpans
        /\ Chained(R2, m + 1) = Then(Chained(R2, m), R2) /\ Chained(R2, m) \in SUBSET AllSpans
    BY <1>1, <2>1, ChainedIs
  <2>3. Chained(R, m) \in SUBSET Chained(R2, m) /\ Chained(R2, m) \in SUBSET Forward
    BY <1>3
  <2>4. Then(Chained(R, m), R) \subseteq Then(Chained(R2, m), R2)
    BY <1>1, <2>2, <2>3, ThenGrows
  <2>5. Then(Chained(R2, m), R2) \subseteq Forward
    BY <2>3, ThenOrdered
  <2> QED
    BY <2>1, <2>2, <2>4, <2>5
<1>4. \A m \in 0 .. n : m \in S
  <2> HIDE DEF S
  <2> QED
    BY <1>2, <1>3, UpTo
<1> QED
  BY <1>4

LEMMA ChainedOnce ==
  ASSUME Len(hay) \in Nat, NEW R \in SUBSET AllSpans
  PROVE  Chained(R, 1) = R
<1>1. Chained(R, 1) = Then(Nowhere, R)
  <2>1. Chained(R, 0 + 1) = Then(Chained(R, 0), R) /\ Chained(R, 0) = Nowhere
    BY ChainedIs
  <2> QED
    BY <2>1
<1>2. Nowhere \in SUBSET AllSpans
  BY NowhereFacts DEF Forward
<1>3. ASSUME NEW a \in Places, NEW b \in Places
      PROVE  <<a, b>> \in Then(Nowhere, R) <=> <<a, b>> \in R
  BY <1>2, ThenFacts, NowhereFacts
<1>4. ASSUME NEW x \in AllSpans PROVE x \in Then(Nowhere, R) <=> x \in R
  <2>1. PICK a \in Places, b \in Places : x = <<a, b>>
    BY SpanIs
  <2> QED
    BY <1>3, <2>1
<1> QED
  BY <1>1, <1>2, <1>4, ThenFacts

\* Matches of nothing can be left out, all but one, and of the others no more fit than there
\* are bytes between the ends.
LEMMA FewFit ==
  ASSUME Len(hay) \in Nat, NEW R \in SUBSET Forward, NEW n \in Nat, n >= 1,
         NEW a \in Places, NEW b \in Places, <<a, b>> \in Chained(R, n)
  PROVE  \E m \in Nat : m >= 1 /\ (m = 1 \/ m <= b - a) /\ <<a, b>> \in Chained(R, m)
<1> DEFINE Fits(c) == \E m \in Nat : m >= 1 /\ (m = 1 \/ m <= c - a) /\ <<a, c>> \in Chained(R, m)
           S == {i \in 0 .. n : i >= 1 => \A c \in Places : <<a, c>> \in Chained(R, i) => Fits(c)}
<1>1. R \in SUBSET AllSpans
  BY DEF Forward
<1>2. 0 \in S
  OBVIOUS
<1>3. ASSUME NEW i \in 0 .. n - 1, i \in S PROVE i + 1 \in S
  <2> SUFFICES ASSUME NEW c \in Places, <<a, c>> \in Chained(R, i + 1) PROVE Fits(c)
    OBVIOUS
  <2>1. i \in Nat
    OBVIOUS
  <2>2. CASE i = 0
    <3>1. <<a, c>> \in Chained(R, 1)
      BY <2>2
    <3> QED
      BY <3>1
  <2>3. CASE i # 0
    <3>1. Chained(R, i + 1) = Then(Chained(R, i), R) /\ Chained(R, i) \in SUBSET AllSpans
      BY <1>1, <2>1, ChainedIs
    <3>2. PICK k \in Places : <<a, k>> \in Chained(R, i) /\ <<k, c>> \in R
      <4>1. PICK Q \in SUBSET AllSpans : Q = Chained(R, i)
        BY <3>1
      <4>2. <<a, c>> \in Then(Q, R)
        BY <3>1, <4>1
      <4>3. \E k \in Places : <<a, k>> \in Q /\ <<k, c>> \in R
        BY <1>1, <4>2, ThenFacts
      <4> QED
        BY <4>1, <4>3
    <3>3. Fits(k)
      BY <1>3, <2>3, <3>2
    <3>4. PICK m \in Nat : m >= 1 /\ (m = 1 \/ m <= k - a) /\ <<a, k>> \in Chained(R, m)
      BY <3>3
    <3>5. a \in Int /\ k \in Int /\ c \in Int /\ k <= c /\ a <= k
      <4>1. Chained(R, m) \subseteq Forward
        BY ChainedGrows
      <4> QED
        BY <3>2, <3>4, <4>1 DEF Forward, Places
    <3>6. CASE k = c
      BY <3>4, <3>6
    <3>7. CASE k < c /\ a < k
      <4>1. Chained(R, m + 1) = Then(Chained(R, m), R) /\ Chained(R, m) \in SUBSET AllSpans
        BY <1>1, ChainedIs
      <4>2. <<a, c>> \in Chained(R, m + 1)
        BY <1>1, <3>2, <3>4, <4>1, ThenFacts
      <4>3. m + 1 \in Nat /\ m + 1 >= 1 /\ m + 1 <= c - a
        BY <3>4, <3>5, <3>7
      <4> QED
        BY <4>2, <4>3
    <3>8. CASE a = k
      <4>1. <<a, c>> \in Chained(R, 1)
        BY <1>1, <3>2, <3>8, ChainedOnce
      <4> QED
        BY <4>1
    <3> QED
      BY <3>5, <3>6, <3>7, <3>8
  <2> QED
    BY <2>2, <2>3
<1>4. \A i \in 0 .. n : i \in S
  <2> HIDE DEF S
  <2> QED
    BY <1>2, <1>3, UpTo
<1> QED
  BY <1>4

-----------------------------------------------------------------------------
(* What a pattern means.                                                   *)

\* What an expression matches, when what its parts match is in s.
Spanned(s, e) ==
  CASE e.op = "Empty" -> Nowhere
    [] e.op = "Look" -> {x \in Nowhere : Holds(e.look, hay, x[1])}
    [] e.op = "Class" -> {x \in Places \X Places : x[2] = x[1] + 1 /\ hay[x[2]] \in e.bytes}
    [] e.op = "Capture" -> s[e.subs[1]]
    [] e.op = "Concat" -> Then(s[e.subs[1]], s[e.subs[2]])
    [] e.op = "Alternation" -> s[e.subs[1]] \cup s[e.subs[2]]
    [] e.op = "Repetition" -> UNION {Chained(s[e.subs[1]], n) : n \in Counts(e)}

Operators == {"Empty", "Look", "Class", "Capture", "Concat", "Alternation", "Repetition"}

LEMMA PartsFacts ==
  ASSUME NEW p, IsPattern(p), NEW i \in 1 .. Len(p)
  PROVE  /\ p[i].op \in Operators
         /\ p[i].op \in {"Capture", "Concat", "Alternation", "Repetition"} =>
              p[i].subs[1] \in 1 .. i - 1
         /\ p[i].op \in {"Concat", "Alternation"} => p[i].subs[2] \in 1 .. i - 1
<1>1. IsExpression(p, i)
  BY PatternFacts DEF IsPattern
<1>2. p[i].op \in Operators
  BY <1>1 DEF IsExpression, Leaves, Operators
<1> DEFINE e == p[i]
<1>3. \/ e.op \in {"Empty", "Look", "Class"}
      \/ e.op \in {"Capture", "Repetition"} /\ Len(e.subs) = 1
      \/ e.op \in {"Concat", "Alternation"} /\ Len(e.subs) = 2
  BY <1>1 DEF IsExpression, Leaves
<1>4. /\ e.op \in {"Capture", "Concat", "Alternation", "Repetition"} => Len(e.subs) \in {1, 2}
      /\ e.op \in {"Concat", "Alternation"} => Len(e.subs) = 2
  <2> HIDE DEF e
  <2> QED
    BY <1>3
<1>5. /\ DOMAIN p[i].subs = 1 .. Len(p[i].subs) /\ Len(p[i].subs) \in Nat
      /\ \A k \in DOMAIN p[i].subs : p[i].subs[k] \in 1 .. i - 1
  BY PatternFacts
<1> QED
  BY <1>2, <1>4, <1>5

LEMMA SpannedFromBefore ==
  ASSUME NEW p, IsPattern(p), NEW i \in 1 .. Len(p), NEW f, NEW g,
         \A j \in 1 .. i - 1 : f[j] = g[j]
  PROVE  Spanned(f, p[i]) = Spanned(g, p[i])
<1>1. p[i].op \in {"Capture", "Concat", "Alternation", "Repetition"} =>
        f[p[i].subs[1]] = g[p[i].subs[1]]
  BY PartsFacts
<1>2. p[i].op \in {"Concat", "Alternation"} => f[p[i].subs[2]] = g[p[i].subs[2]]
  BY PartsFacts
<1>3. p[i].op \in Operators
  BY PartsFacts
<1> QED
  BY <1>1, <1>2, <1>3 DEF Spanned, Operators

\* The meaning exists, and this is the equation it solves.
LEMMA SpansIs ==
  ASSUME NEW p, IsPattern(p)
  PROVE  \A i \in 1 .. Len(p) : Spans(p)[i] = Spanned(Spans(p), p[i])
<1> DEFINE n == Len(p)
           Is(g, m) == g = [i \in 1 .. m |-> Spanned(g, p[i])]
           S == {m \in 0 .. n : \E g : Is(g, m)}
<1>1. n \in Nat /\ DOMAIN p = 1 .. n
  BY PatternFacts
<1>2. 0 \in S
  <2> DEFINE g == [i \in 1 .. 0 |-> 0]
  <2>1. Is(g, 0)
    OBVIOUS
  <2> HIDE DEF g, Is
  <2> QED
    BY <1>1, <2>1
<1>3. ASSUME NEW m \in 0 .. n - 1, m \in S PROVE m + 1 \in S
  <2>1. PICK f : Is(f, m)
    BY <1>3
  <2> DEFINE g == [i \in 1 .. m + 1 |-> IF i = m + 1 THEN Spanned(f, p[m + 1]) ELSE f[i]]
  <2>2. ASSUME NEW i \in 1 .. m + 1 PROVE g[i] = Spanned(g, p[i])
    <3>1. i \in 1 .. Len(p)
      BY <1>1
    <3>2. \A j \in 1 .. i - 1 : f[j] = g[j]
      BY <1>1
    <3>3. Spanned(f, p[i]) = Spanned(g, p[i])
      <4> HIDE DEF g
      <4> QED
        BY <3>1, <3>2, SpannedFromBefore
    <3>4. g[i] = Spanned(f, p[i])
      <4>1. CASE i = m + 1
        BY <4>1
      <4>2. CASE i # m + 1
        <5>1. i \in 1 .. m
          BY <4>2, <1>1
        <5>2. f[i] = Spanned(f, p[i])
          BY <2>1, <5>1, Zenon
        <5> QED
          BY <4>2, <5>2
      <4> QED
        BY <4>1, <4>2
    <3> QED
      BY <3>3, <3>4
  <2>3. Is(g, m + 1)
    <3>1. g = [i \in 1 .. m + 1 |-> g[i]]
      OBVIOUS
    <3> HIDE DEF g
    <3> QED
      BY <2>2, <3>1
  <2>4. m + 1 \in 0 .. n
    BY <1>1
  <2> HIDE DEF g, Is
  <2> QED
    BY <2>3, <2>4
<1>4. n \in S
  <2> HIDE DEF S
  <2>1. \A i \in 0 .. n : i \in S
    BY <1>1, <1>2, <1>3, UpTo
  <2> QED
    BY <1>1, <2>1
<1>5. PICK g : Is(g, n)
  BY <1>4
<1>6. PICK r : r = CHOOSE e : Is(e, n)
  OBVIOUS
<1>7. Spans(p) = r
  BY <1>1, <1>6 DEF Spans, Spanned
<1>8. Is(r, n)
  <2> HIDE DEF Is
  <2> QED
    BY <1>5, <1>6
<1>9. \A i \in 1 .. n : r[i] = Spanned(r, p[i])
  BY <1>8, Zenon
<1> QED
  BY <1>7, <1>9

-----------------------------------------------------------------------------
(* A relaxed expression matches more.                                      *)

\* A repetition with its bounds dropped, of what matches no less.
LEMMA LooseMatchesMore ==
  ASSUME Len(hay) \in Nat, NEW p, IsPattern(p), NEW i \in 1 .. Len(p), p[i].op = "Repetition",
         NEW R2 \in SUBSET Forward, NEW R \in SUBSET R2
  PROVE  /\ UNION {Chained(R, n) : n \in Counts(p[i])}
              \subseteq UNION {Chained(R2, n) : n \in Counts(Loose(p[i]))}
         /\ UNION {Chained(R2, n) : n \in Counts(Loose(p[i]))} \subseteq Forward
<1>1. PICK l : l = Loose(p[i])
  OBVIOUS
<1>2. PICK lo, hi : lo = p[i].min /\ hi = p[i].max
  OBVIOUS
<1>3. /\ lo \in Nat /\ hi \in Nat \cup {Unbounded} /\ Unbounded \notin Nat
      /\ p[i].zeroWidth => lo = 0 /\ hi = 1
  <2>1. p[i].min \in Nat /\ p[i].max \in Nat \cup {Unbounded}
    BY PatternFacts
  <2>2. p[i].zeroWidth => p[i].min = 0 /\ p[i].max = 1
    BY RepetitionFacts
  <2> QED
    BY <1>2, <2>1, <2>2, PatternsAssumption
<1>4. /\ l.min = LowerBound(lo) /\ l.max = IF p[i].zeroWidth THEN 1 ELSE Unbounded
  BY <1>1, <1>2 DEF Loose
<1>5. /\ Counts(p[i]) \subseteq Nat /\ Counts(l) \subseteq Nat
      /\ \A n \in Counts(p[i]) : n >= lo
      /\ p[i].zeroWidth => Counts(l) = Counts(p[i])
      /\ ~p[i].zeroWidth => Counts(l) = LowerBound(lo) .. LowerBound(lo) + Len(hay)
  <2>1. LowerBound(lo) \in 0 .. 1 /\ (lo = 0 => LowerBound(lo) = 0)
    BY <1>3 DEF LowerBound
  <2>2. Counts(p[i]) = lo .. (IF hi = Unbounded THEN lo + Len(hay) ELSE hi)
    BY <1>2 DEF Counts, Enough
  <2>3. Counts(l) = LowerBound(lo) .. (IF p[i].zeroWidth THEN 1 ELSE LowerBound(lo) + Len(hay))
    BY <1>3, <1>4 DEF Counts, Enough
  <2>4. p[i].zeroWidth => Counts(l) = 0 .. 1 /\ Counts(p[i]) = 0 .. 1
    BY <1>3, <2>1, <2>2, <2>3
  <2> QED
    BY <1>3, <2>1, <2>2, <2>3, <2>4
<1>6. ASSUME NEW n \in Counts(p[i]), NEW x \in Chained(R, n)
      PROVE  \E m \in Counts(l) : x \in Chained(R2, m)
  <2>1. n \in Nat /\ n >= lo
    BY <1>5
  <2>2. x \in Chained(R2, n) /\ Chained(R2, n) \subseteq Forward
    BY <2>1, ChainedGrows
  <2>3. CASE p[i].zeroWidth
    BY <1>5, <2>2, <2>3
  <2>4. CASE ~p[i].zeroWidth /\ n = 0
    <3>1. lo = 0 /\ LowerBound(lo) = 0
      BY <1>3, <2>1, <2>4 DEF LowerBound
    <3>2. 0 \in Counts(l)
      BY <1>5, <2>4, <3>1
    <3> QED
      BY <2>2, <2>4, <3>2
  <2>5. CASE ~p[i].zeroWidth /\ n # 0
    <3>1. PICK a \in Places, b \in Places : x = <<a, b>>
      BY <2>2, SpanIs DEF Forward
    <3>2. PICK m \in Nat : m >= 1 /\ (m = 1 \/ m <= b - a) /\ <<a, b>> \in Chained(R2, m)
      <4>1. n >= 1
        BY <2>1, <2>5
      <4> QED
        BY <2>1, <2>2, <3>1, <4>1, FewFit
    <3>3. a \in 0 .. Len(hay) /\ b \in 0 .. Len(hay) /\ a <= b
      <4>1. a <= b
        BY <2>2, <3>1 DEF Forward
      <4> QED
        BY <4>1 DEF Places
    <3>4. LowerBound(lo) \in 0 .. 1
      BY <1>3 DEF LowerBound
    <3>5. CASE LowerBound(lo) = 1
      <4>1. m \in Counts(l)
        BY <1>5, <2>5, <3>2, <3>3, <3>5
      <4> QED
        BY <3>1, <3>2, <4>1
    <3>6. CASE LowerBound(lo) = 0 /\ a = b
      <4>1. R2 \in SUBSET AllSpans
        BY DEF Forward
      <4>2. <<a, b>> \in Chained(R2, 0)
        BY <3>6, <4>1, NowhereFacts, ChainedIs
      <4>3. 0 \in Counts(l)
        BY <1>5, <2>5, <3>6
      <4> QED
        BY <3>1, <4>2, <4>3
    <3>7. CASE LowerBound(lo) = 0 /\ a < b
      <4>1. m \in Counts(l)
        BY <1>5, <2>5, <3>2, <3>3, <3>7
      <4> QED
        BY <3>1, <3>2, <4>1
    <3> QED
      BY <3>3, <3>4, <3>5, <3>6, <3>7
  <2> QED
    BY <2>3, <2>4, <2>5
<1>7. ASSUME NEW m \in Counts(l) PROVE Chained(R2, m) \subseteq Forward
  BY <1>5, ChainedGrows
<1> QED
  BY <1>1, <1>6, <1>7

\* And through every combinator.
LEMMA RelaxedMatchesMore ==
  ASSUME Len(hay) \in Nat, NEW p, IsPattern(p)
  PROVE  Matches(p) \subseteq Matches(Relaxed(p))
<1>1. PICK r : r = Relaxed(p)
  OBVIOUS
<1>2. PICK s, t : s = Spans(p) /\ t = Spans(r)
  OBVIOUS
<1>3. Len(p) \in Nat /\ Len(p) >= 1 /\ Len(r) = Len(p) /\ IsPattern(r)
  BY <1>1, PatternFacts, RelaxedShape, RelaxedIsPattern
<1>4. \A i \in 1 .. Len(p) : s[i] = Spanned(s, p[i]) /\ t[i] = Spanned(t, r[i])
  BY <1>2, <1>3, SpansIs
<1> DEFINE n == Len(p)
           More(i) == s[i] \subseteq t[i] /\ t[i] \subseteq Forward
           S == {i \in 0 .. n : i >= 1 => More(i)}
<1>5. ASSUME NEW i \in 0 .. n, \A j \in 0 .. n : j < i => j \in S
      PROVE  i \in S
  <2> SUFFICES ASSUME i >= 1 PROVE More(i)
    OBVIOUS
  <2>1. i \in 1 .. Len(p)
    BY <1>3
  <2>2. \A j \in 1 .. i - 1 : More(j)
    <3> TAKE j \in 1 .. i - 1
    <3>1. j \in 0 .. n /\ j < i /\ j >= 1
      BY <1>3
    <3>2. j \in S
      BY <1>5, <3>1
    <3> QED
      BY <3>1, <3>2
  <2>3. p[i].op \in Operators /\ s[i] = Spanned(s, p[i]) /\ t[i] = Spanned(t, r[i])
        /\ r[i] = IF p[i].op = "Repetition" THEN Loose(p[i]) ELSE p[i]
    BY <1>1, <1>4, <2>1, PartsFacts, RelaxedFacts
  <2> DEFINE x == p[i].subs[1]
             y == p[i].subs[2]
  <2>4. p[i].op \in {"Capture", "Concat", "Alternation", "Repetition"} => More(x)
    BY <2>1, <2>2, PartsFacts
  <2>5. p[i].op \in {"Concat", "Alternation"} => More(y)
    BY <2>1, <2>2, PartsFacts
  <2>6. CASE p[i].op = "Empty"
    <3>1. s[i] = Nowhere /\ t[i] = Nowhere
      BY <2>3, <2>6 DEF Spanned
    <3> QED
      BY <3>1, NowhereFacts
  <2>7. CASE p[i].op = "Look"
    <3>1. s[i] = t[i] /\ t[i] \subseteq Nowhere
      BY <2>3, <2>7 DEF Spanned
    <3> QED
      BY <3>1, NowhereFacts
  <2>8. CASE p[i].op = "Class"
    <3>1. s[i] = t[i] /\ t[i] = {z \in Places \X Places : z[2] = z[1] + 1 /\ hay[z[2]] \in p[i].bytes}
      BY <2>3, <2>8 DEF Spanned
    <3>2. ASSUME NEW z \in t[i] PROVE z \in Forward
      <4>1. z \in AllSpans /\ z[2] = z[1] + 1
        BY <3>1 DEF AllSpans
      <4>2. PICK a \in Places, b \in Places : z = <<a, b>>
        BY <4>1, SpanIs
      <4>3. b = a + 1
        BY <4>1, <4>2
      <4>4. a <= b
        BY <4>3 DEF Places
      <4> QED
        BY <4>1, <4>2, <4>4 DEF Forward
    <3> QED
      BY <3>1, <3>2
  <2>9. CASE p[i].op = "Capture"
    <3>1. s[i] = s[x] /\ t[i] = t[x]
      BY <2>3, <2>9 DEF Spanned
    <3> QED
      BY <2>4, <2>9, <3>1
  <2>10. CASE p[i].op = "Concat"
    <3>1. s[i] = Then(s[x], s[y]) /\ t[i] = Then(t[x], t[y])
      BY <2>3, <2>10 DEF Spanned
    <3>2. More(x) /\ More(y)
      BY <2>4, <2>5, <2>10
    <3>3. /\ s[x] \in SUBSET t[x] /\ s[y] \in SUBSET t[y]
          /\ t[x] \in SUBSET Forward /\ t[y] \in SUBSET Forward
          /\ t[x] \in SUBSET AllSpans /\ t[y] \in SUBSET AllSpans
      BY <3>2 DEF Forward
    <3>4. Then(s[x], s[y]) \subseteq Then(t[x], t[y])
      <4> HIDE DEF x, y
      <4> QED
        BY <3>3, ThenGrows
    <3>5. Then(t[x], t[y]) \subseteq Forward
      <4> HIDE DEF x, y
      <4> QED
        BY <3>3, ThenOrdered
    <3> QED
      BY <3>1, <3>4, <3>5
  <2>11. CASE p[i].op = "Alternation"
    <3>1. s[i] = s[x] \cup s[y] /\ t[i] = t[x] \cup t[y]
      BY <2>3, <2>11 DEF Spanned
    <3> QED
      BY <2>4, <2>5, <2>11, <3>1
  <2>12. CASE p[i].op = "Repetition"
    <3>1. r[i] = Loose(p[i])
      BY <2>3, <2>12
    <3>2. r[i].op = "Repetition" /\ r[i].subs = p[i].subs
      BY <3>1 DEF Loose
    <3>3. /\ s[i] = UNION {Chained(s[x], m) : m \in Counts(p[i])}
          /\ t[i] = UNION {Chained(t[x], m) : m \in Counts(r[i])}
      BY <2>3, <2>12, <3>2 DEF Spanned
    <3>4. s[x] \in SUBSET t[x] /\ t[x] \in SUBSET Forward
      BY <2>4, <2>12
    <3> HIDE DEF x
    <3>5. /\ UNION {Chained(s[x], m) : m \in Counts(p[i])}
               \subseteq UNION {Chained(t[x], m) : m \in Counts(Loose(p[i]))}
          /\ UNION {Chained(t[x], m) : m \in Counts(Loose(p[i]))} \subseteq Forward
      BY <2>1, <2>12, <3>4, LooseMatchesMore
    <3> QED
      BY <3>1, <3>3, <3>5
  <2> QED
    BY <2>3, <2>6, <2>7, <2>8, <2>9, <2>10, <2>11, <2>12 DEF Operators
<1>6. \A i \in 0 .. n : i \in S
  <2> HIDE DEF S
  <2> QED
    BY <1>3, <1>5, FromThoseBefore
<1>7. s[n] \subseteq t[n]
  BY <1>3, <1>6
<1> QED
  BY <1>1, <1>2, <1>3, <1>7 DEF Matches, Top

-----------------------------------------------------------------------------
(* The theorems.                                                           *)

\* What is kept of a pattern, before the search and during it.
RelaxInv ==
  /\ pattern \in Patterns
  /\ hay \in Seq(Letter)
  /\ stage \in {"parsed", "search"}
  /\ loosened = IF stage = "search" /\ Bounded(pattern) THEN Relaxed(pattern) ELSE NoCandidate

THEOREM RelaxingKeepsItsCourse == RelaxSpec => []RelaxInv
<1>1. RelaxInit => RelaxInv
  BY DEF RelaxInit, RelaxInv
<1>2. RelaxInv /\ [RelaxNext]_relaxVars => RelaxInv'
  <2> SUFFICES ASSUME RelaxInv, [RelaxNext]_relaxVars PROVE RelaxInv'
    OBVIOUS
  <2>1. CASE Decline
    BY <2>1 DEF Decline, RelaxInv, Bounded
  <2>2. CASE Loosen
    BY <2>2 DEF Loosen, RelaxInv, Bounded
  <2>3. ASSUME NEW y \in Letter, Read(y) PROVE RelaxInv'
    <3>1. hay' = Append(hay, y) /\ UNCHANGED <<pattern, loosened, stage>> /\ hay \in Seq(Letter)
      BY <2>3 DEF Read, RelaxInv
    <3>2. hay' \in Seq(Letter)
      BY <3>1
    <3> QED
      BY <3>1, <3>2 DEF RelaxInv, Bounded
  <2>4. CASE UNCHANGED relaxVars
    BY <2>4 DEF relaxVars, RelaxInv, Bounded
  <2> QED
    BY <2>1, <2>2, <2>3, <2>4 DEF RelaxNext
<1> QED
  BY <1>1, <1>2, PTL DEF RelaxSpec

\* The relaxed pattern matches wherever the strict one does: through every combinator,
\* whatever the bounds, the looks and the document.
THEOREM TheRelaxedIsWider == RelaxSpec => []Superset
<1>1. RelaxInv => Superset
  <2> SUFFICES ASSUME RelaxInv, loosened # NoCandidate
               PROVE  Matches(pattern) \subseteq Matches(loosened)
    BY DEF Superset
  <2>1. IsPattern(pattern) /\ loosened = Relaxed(pattern) /\ hay \in Seq(Letter)
    BY PatternsAssumption DEF RelaxInv
  <2>2. Len(hay) \in Nat
    BY <2>1
  <2> QED
    BY <2>1, <2>2, RelaxedMatchesMore
<1> QED
  BY <1>1, RelaxingKeepsItsCourse, PTL

\* `bounded` sees exactly what `relax` changes, and one pass leaves nothing to a second.
THEOREM TheTestSeesWhatMoves == RelaxSpec => []RelaxesWhatIsBounded
<1>1. RelaxInv => RelaxesWhatIsBounded
  <2> SUFFICES ASSUME RelaxInv, stage = "search" PROVE RelaxesWhatIsBounded
    BY DEF RelaxesWhatIsBounded
  <2>1. IsPattern(pattern) /\ Relaxed(pattern) # NoCandidate
    BY PatternsAssumption, CandidateAssumption DEF RelaxInv
  <2>2. CASE Bounded(pattern)
    <3>1. loosened = Relaxed(pattern) /\ loosened # NoCandidate
      BY <2>1, <2>2 DEF RelaxInv
    <3>2. /\ Relaxed(loosened) = loosened
          /\ \A i \in DOMAIN loosened : Moves(loosened[i]) => loosened[i].zeroWidth
      BY <2>1, <3>1, RelaxedOnce
    <3> QED
      BY <3>1, <3>2 DEF RelaxesWhatIsBounded
  <2>3. CASE ~Bounded(pattern)
    <3>1. loosened = NoCandidate /\ Relaxed(pattern) = pattern
      BY <2>1, <2>3, UnboundedStays DEF RelaxInv
    <3> QED
      BY <3>1 DEF RelaxesWhatIsBounded
  <2> QED
    BY <2>2, <2>3
<1> QED
  BY <1>1, RelaxingKeepsItsCourse, PTL
=============================================================================
