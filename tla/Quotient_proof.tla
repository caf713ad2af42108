---------------------------- MODULE Quotient_proof ----------------------------
(***************************************************************************)
(* What `induce` checks is enough: facts about the induced quotient, for   *)
(* every core and every partition.                                         *)
(***************************************************************************)
EXTENDS Quotient, NumberFacts, TLAPS, FiniteSetTheorems

\* Classes and states of a core are not empty, and its tables are total.
LEMMA CoreFacts ==
  ASSUME NEW c, IsCore(c)
  PROVE  /\ c.states \in Nat /\ c.states >= 1
         /\ c.classes \in Nat /\ c.classes >= 1
         /\ States(c) \subseteq Nat /\ 0 \in States(c)
         /\ 0 \in Classes(c)
         /\ \A s \in States(c), j \in Classes(c) : Step(c, s, j) \in States(c)
<1>1. /\ c.states \in Nat /\ c.states >= 1
      /\ c.classes \in Nat /\ c.classes >= 1
  BY DEF IsCore
<1>2. /\ States(c) \subseteq Nat /\ 0 \in States(c)
      /\ 0 \in Classes(c)
  BY <1>1 DEF States, Classes
<1>3. \A s \in States(c), j \in Classes(c) : Step(c, s, j) \in States(c)
  BY DEF IsCore, Step
<1> QED
  BY <1>1, <1>2, <1>3

-----------------------------------------------------------------------------
(* The numbers of `induce`.                                                *)

\* There is a largest block id, and `block_count` is one more.
LEMMA BlockCountFacts ==
  ASSUME NEW c, IsCore(c), NEW block \in [States(c) -> BlockIds]
  PROVE  /\ BlockCount(c, block) \in Nat
         /\ \A s \in States(c) : block[s] \in Blocks(c, block)
         /\ IsFiniteSet(Blocks(c, block))
         /\ Cardinality(Blocks(c, block)) = BlockCount(c, block)
<1> DEFINE B == {block[s] : s \in States(c)}
           T == {u \in BlockIds : \A s \in States(c) : block[s] <= u}
<1>1. BlockIds \subseteq Nat /\ 255 \in T /\ T \subseteq Nat
  BY DEF BlockIds
<1>2. PICK m \in T : \A u \in T : m <= u
  BY <1>1, LeastNatural
<1>3. \E s \in States(c) : block[s] = m
  <2> SUFFICES ASSUME \A s \in States(c) : block[s] # m PROVE FALSE
    OBVIOUS
  <2>1. \A s \in States(c) : block[s] \in BlockIds /\ block[s] <= m
    BY <1>2
  <2>2. m # 0
    BY <2>1, CoreFacts DEF BlockIds
  <2>3. m - 1 \in BlockIds
    BY <1>2, <2>2 DEF BlockIds
  <2>4. \A s \in States(c) : block[s] <= m - 1
    <3> TAKE s \in States(c)
    <3>1. block[s] \in Nat /\ m \in Nat /\ block[s] <= m /\ block[s] # m
      BY <1>1, <1>2, <2>1
    <3> QED
      BY <3>1
  <2>5. m - 1 \in T
    BY <2>3, <2>4
  <2> QED
    BY <1>1, <1>2, <2>5
<1>4. m \in B /\ \A s \in States(c) : block[s] <= m
  BY <1>2, <1>3
<1> DEFINE top == CHOOSE b \in B : \A s \in States(c) : block[s] <= b
<1>5. top \in B /\ \A s \in States(c) : block[s] <= top
  BY <1>4
<1>6. top \in Nat /\ BlockCount(c, block) = 1 + top
  <2>1. B \subseteq Nat
    <3>1. \A s \in States(c) : block[s] \in BlockIds
      OBVIOUS
    <3>2. BlockIds \subseteq Nat
      BY <1>1
    <3> QED
      BY <3>1, <3>2
  <2>2. top \in Nat
    BY <1>5, <2>1
  <2>3. BlockCount(c, block) = 1 + top
    BY Zenon DEF BlockCount
  <2> QED
    BY <2>2, <2>3
<1>7. \A s \in States(c) : block[s] \in Nat
  BY <1>1
<1> HIDE DEF B, T, top
<1>8. \A s \in States(c) : block[s] \in Blocks(c, block)
  BY <1>5, <1>6, <1>7 DEF Blocks
<1>9. /\ IsFiniteSet(Blocks(c, block))
      /\ Cardinality(Blocks(c, block)) = BlockCount(c, block)
  <2> DEFINE n == BlockCount(c, block)
  <2>1. n \in Nat /\ n >= 1
    BY <1>6
  <2> HIDE DEF n
  <2>2. /\ IsFiniteSet(0 .. n - 1)
        /\ Cardinality(0 .. n - 1) = IF 0 > n - 1 THEN 0 ELSE n - 1 - 0 + 1
    BY <2>1, FS_Interval
  <2>3. IsFiniteSet(0 .. n - 1) /\ Cardinality(0 .. n - 1) = n
    BY <2>1, <2>2
  <2> QED
    BY <2>3 DEF Blocks, n
<1> QED
  BY <1>6, <1>8, <1>9

\* The elements below a member of a finite set of numbers are fewer than the set.
LEMMA FewerBelow ==
  ASSUME NEW S, IsFiniteSet(S), S \subseteq Nat, NEW b \in S
  PROVE  /\ Cardinality({d \in S : d < b}) \in Nat
         /\ Cardinality(S) \in Nat
         /\ Cardinality({d \in S : d < b}) < Cardinality(S)
<1> DEFINE L == {d \in S : d < b}
<1>1. L \in SUBSET S /\ b \notin L /\ b \in S
  OBVIOUS
<1> HIDE DEF L
<1>2. IsFiniteSet(L) /\ Cardinality(L) <= Cardinality(S) /\ Cardinality(L) # Cardinality(S)
  BY <1>1, FS_Subset
<1>3. Cardinality(L) \in Nat /\ Cardinality(S) \in Nat
  BY <1>2, FS_CardinalityType
<1> QED
  BY <1>2, <1>3 DEF L

\* Renumbering stays inside the register and puts exactly the accepting blocks
\* at or above the threshold.
LEMMA RelabelFacts ==
  ASSUME NEW c, IsCore(c), NEW block \in [States(c) -> BlockIds],
         NEW b \in Blocks(c, block)
  PROVE  /\ Relabel(c, block, b) \in Blocks(c, block)
         /\ Threshold(c, block) \in Nat
         /\ Relabel(c, block, b) >= Threshold(c, block) <=> BlockAccepts(c, block, b)
<1> DEFINE B == Blocks(c, block)
           R == Rejecting(c, block)
           A == B \ R
<1>1. BlockCount(c, block) \in Nat /\ IsFiniteSet(B) /\ Cardinality(B) = BlockCount(c, block)
  BY BlockCountFacts
<1>2. B \subseteq Nat /\ R \in SUBSET B
  BY <1>1 DEF Blocks, Rejecting
<1>3. IsFiniteSet(R) /\ IsFiniteSet(A) /\ Cardinality(A) = Cardinality(B) - Cardinality(R)
  <2> HIDE DEF B, R
  <2>1. IsFiniteSet(R)
    BY <1>1, <1>2, FS_Subset
  <2>2. IsFiniteSet(B \ R) /\ Cardinality(B \ R) = Cardinality(B) - Cardinality(B \cap R)
    BY <1>1, <2>1, FS_Difference
  <2>3. B \cap R = R
    BY <1>2
  <2> QED
    BY <2>1, <2>2, <2>3
<1>4. Cardinality(R) \in Nat /\ Cardinality(R) = Threshold(c, block)
  BY <1>3, FS_CardinalityType DEF Threshold
<1>5. b \in R <=> ~BlockAccepts(c, block, b)
  BY DEF Rejecting
<1>6. CASE BlockAccepts(c, block, b)
  <2>1. b \in A /\ A \subseteq Nat
    BY <1>2, <1>5, <1>6
  <2>2. Relabel(c, block, b) = Cardinality(R) + Cardinality({d \in A : d < b})
    BY <1>4, <1>6 DEF Relabel
  <2> HIDE DEF A
  <2>3. /\ Cardinality({d \in A : d < b}) \in Nat
        /\ Cardinality({d \in A : d < b}) < Cardinality(A) /\ Cardinality(A) \in Nat
    BY <1>3, <2>1, FewerBelow
  <2> QED
    BY <1>1, <1>3, <1>4, <1>6, <2>2, <2>3 DEF Blocks
<1>7. CASE ~BlockAccepts(c, block, b)
  <2>1. b \in R /\ R \subseteq Nat
    BY <1>2, <1>5, <1>7
  <2>2. Relabel(c, block, b) = Cardinality({d \in R : d < b})
    BY <1>7 DEF Relabel
  <2> HIDE DEF R
  <2>3. /\ Cardinality({d \in R : d < b}) \in Nat
        /\ Cardinality({d \in R : d < b}) < Cardinality(R)
    BY <1>3, <2>1, FewerBelow
  <2>4. Cardinality(R) <= Cardinality(B)
    BY <1>1, <1>2, FS_Subset
  <2> QED
    BY <1>1, <1>4, <1>7, <2>2, <2>3, <2>4 DEF Blocks
<1> QED
  BY <1>6, <1>7

\* The soundness of one quotient (the module doc of lattice.rs): whatever
\* partition `induce` let through, and whether or not it was closed to begin
\* with, the quotient steps with the core and accepts wherever the core does.
THEOREM InducedIsSound ==
  ASSUME NEW c, IsCore(c), NEW block \in [States(c) -> BlockIds], Induces(c, block),
         NEW s \in States(c)
  PROVE  LET q == Quotient(c, block) IN
         /\ Home(c, block, s) \in 0 .. q.blocks - 1
         /\ \A y \in Byte :
              q.rows[y][Home(c, block, s)] = Home(c, block, Step(c, s, c.class_of[y]))
         /\ s \in c.accept => Home(c, block, s) >= q.threshold
         /\ q.start < q.threshold
<1> DEFINE q == Quotient(c, block)
<1>1. block[s] \in Blocks(c, block)
  BY BlockCountFacts
<1>2. /\ Home(c, block, s) \in Blocks(c, block)
      /\ Home(c, block, s) >= Threshold(c, block) <=> BlockAccepts(c, block, block[s])
  BY <1>1, RelabelFacts DEF Home
<1>3. s \in c.accept => BlockAccepts(c, block, block[s])
  BY DEF BlockAccepts
<1>4. ASSUME NEW y \in Byte
      PROVE  q.rows[y][Home(c, block, s)] = Home(c, block, Step(c, s, c.class_of[y]))
  <2> DEFINE t == CHOOSE u \in States(c) : Home(c, block, u) = Home(c, block, s)
  <2>1. t \in States(c) /\ Home(c, block, t) = Home(c, block, s)
    OBVIOUS
  <2>2. c.class_of[y] \in Classes(c)
    BY DEF IsCore
  <2>3. q.rows[y][Home(c, block, s)] = Home(c, block, Step(c, t, c.class_of[y]))
    BY <1>2 DEF Quotient
  <2> HIDE DEF t, q
  <2> QED
    BY <2>1, <2>2, <2>3 DEF Induces, Agrees
<1>5. q.blocks = BlockCount(c, block) /\ q.threshold = Threshold(c, block)
      /\ q.start = Home(c, block, c.start)
  BY DEF Quotient
<1>6. q.start < q.threshold
  BY <1>5 DEF Induces
<1> QED
  BY <1>2, <1>3, <1>4, <1>5, <1>6 DEF Blocks
=============================================================================
