----------------------------- MODULE Lattice_proof -----------------------------
(***************************************************************************)
(* Proofs about the harvest, for every core and every value of its bounds. *)
(***************************************************************************)
EXTENDS Forest, Quotient_proof, SequenceTheorems

\* There are finitely many states.
LEMMA StatesFinite ==
  ASSUME NEW c, IsCore(c)
  PROVE  IsFiniteSet(States(c))
<1>1. 0 \in Int /\ c.states - 1 \in Int
  BY CoreFacts
<1>2. IsFiniteSet(0 .. c.states - 1)
  BY <1>1, FS_Interval
<1> QED
  BY <1>2 DEF States

\* A numbering gives every state a natural number.
LEMMA CanonType ==
  ASSUME NEW c, IsCore(c), NEW r
  PROVE  Canon(c, r) \in [States(c) -> Nat]
<1>1. IsFiniteSet(States(c))
  BY StatesFinite
<1>2. \A s \in States(c) :
        IsFiniteSet({t \in FirstSeen(c, r) : \A u \in States(c) : r[u] = r[s] => t < u})
  <2> TAKE s \in States(c)
  <2> {t \in FirstSeen(c, r) : \A u \in States(c) : r[u] = r[s] => t < u} \subseteq States(c)
    BY DEF FirstSeen
  <2> QED
    BY <1>1, FS_Subset
<1> QED
  BY <1>2, FS_CardinalityType DEF Canon

\* Taking the last element off a sequence leaves one a step shorter.
LEMMA DroppingLast ==
  ASSUME NEW S, NEW w \in Seq(S), w # <<>>
  PROVE  /\ Len(w) \in Nat /\ Len(w) >= 1
         /\ w[Len(w)] \in S
         /\ SubSeq(w, 1, Len(w) - 1) \in Seq(S)
         /\ Len(SubSeq(w, 1, Len(w) - 1)) = Len(w) - 1
         /\ \A i \in 1 .. Len(w) - 1 : SubSeq(w, 1, Len(w) - 1)[i] = w[i]
<1>1. Len(w) \in Nat /\ Len(w) >= 1
  BY EmptySeq, LenProperties
<1>2. \A i \in 1 .. Len(w) : w[i] \in S
  BY <1>1, ElementOfSeq
<1>3. \A i \in 1 .. Len(w) - 1 : w[i] \in S
  BY <1>1, <1>2
<1> DEFINE n == Len(w) - 1
<1>4. n \in Int /\ 1 \in Int /\ n >= 0
  BY <1>1
<1>5. \A i \in 1 .. n : w[i] \in S
  BY <1>3
<1> HIDE DEF n
<1>6. /\ SubSeq(w, 1, n) \in Seq(S)
      /\ Len(SubSeq(w, 1, n)) = IF 1 <= n THEN n - 1 + 1 ELSE 0
      /\ \A i \in 1 .. n - 1 + 1 : SubSeq(w, 1, n)[i] = w[1 + i - 1]
  BY <1>4, <1>5, SubSeqProperties
<1>7. /\ Len(SubSeq(w, 1, n)) = n
      /\ \A i \in 1 .. n : SubSeq(w, 1, n)[i] = w[i]
  BY <1>4, <1>6
<1> QED
  BY <1>1, <1>2, <1>6, <1>7 DEF n

\* Merging relabels one block of the forest by the root of another.
LEMMA JoinType ==
  ASSUME NEW S, NEW r \in [S -> S], NEW a \in S, NEW b \in S
  PROVE  Join(r, a, b) \in [S -> S]
BY DEF Join

\* The variables hold what their comments say, in every reachable state.
THEOREM Typing == Spec => []TypeOK
<1>1. Init => TypeOK
  <2> SUFFICES ASSUME Init PROVE TypeOK
    OBVIOUS
  <2>1. IsCore(core) /\ 0 \in States(core) /\ 0 \in 0 .. core.classes
    BY CoresAssumption, CoreFacts DEF Init
  <2>2. rep \in Labellings
    BY DEF Init, Identity, Labellings
  <2>3. work \in Seq(Pairs) /\ kept \in Seq([States(core) -> Nat])
        /\ chosen \in Seq([States(core) -> Nat])
    BY EmptySeq DEF Init
  <2> QED
    BY <2>1, <2>2, <2>3 DEF Init, TypeOK, Pairs
<1>2. TypeOK /\ [Next]_vars => TypeOK'
  <2> SUFFICES ASSUME TypeOK, [Next]_vars PROVE TypeOK'
    OBVIOUS
  <2> DEFINE LabelsOfCore == [States(core) -> Nat]
  <2>0. /\ core.states \in Nat /\ core.classes \in Nat
        /\ core.states >= 1 /\ core.classes >= 1
        /\ 0 \in Classes(core) /\ 0 \in States(core)
        /\ \A s \in States(core), j \in Classes(core) : Step(core, s, j) \in States(core)
        /\ IsCore(core)
    BY CoreFacts DEF TypeOK
  <2>p. ASSUME pair' = PairAfter(pair), core' = core
        PROVE  pair' \in Nat \X Nat /\ pair'[1] < pair'[2]
    <3>1. PICK a \in Nat, b \in Nat : pair = <<a, b>> /\ a < b
      BY DEF TypeOK
    <3>2. pair' = <<a, b + 1>> \/ pair' = <<a + 1, a + 2>>
      BY <2>p, <3>1 DEF PairAfter
    <3>3. a + 1 \in Nat /\ b + 1 \in Nat /\ a + 2 \in Nat /\ a < b + 1 /\ a + 1 < a + 2
      BY <3>1
    <3> QED
      BY <3>1, <3>2, <3>3
  <2>1. CASE Open
    <3>1. pair \in Pairs
      <4>1. pair \in Nat \X Nat /\ pair[1] < pair[2] /\ pair[2] < core.states
        BY <2>1, <2>0 DEF Open, SweepOver, TypeOK
      <4>2. pair[1] \in States(core) /\ pair[2] \in States(core)
        BY <4>1, <2>0 DEF States
      <4> QED
        BY <4>1, <4>2 DEF Pairs
    <3>2. rep' \in Labellings'
      BY <2>1 DEF Open, Identity, Labellings
    <3>3. work' \in Seq(Pairs')
      <4>1. <<pair>> \in Seq(Pairs)
        BY <3>1
      <4>2. Pairs' = Pairs
        BY <2>1 DEF Open, Pairs
      <4> QED
        BY <2>1, <4>1, <4>2 DEF Open
    <3> QED
      BY <2>1, <2>0, <3>1, <3>2, <3>3 DEF Open, TypeOK, Pairs
  <2>2. CASE PopMerged
    <3>1. work' \in Seq(Pairs)
      BY <2>2, DroppingLast DEF PopMerged, Popped, TypeOK
    <3> QED
      BY <2>2, <3>1 DEF PopMerged, TypeOK, Pairs, Labellings
  <2>3. CASE PopJoin
    <3>1. work' \in Seq(Pairs) /\ merged' \in Pairs
      BY <2>3, DroppingLast DEF PopJoin, Popped, Top, TypeOK
    <3>2. rep' \in Labellings
      BY <2>3, <3>1, JoinType DEF PopJoin, TypeOK, Labellings, Pairs
    <3>3. steps' \in Nat
      BY <2>3, <2>0 DEF PopJoin, TypeOK
    <3>4. k' = 0 /\ 0 \in 0 .. core.classes /\ UNCHANGED <<core, pair, kept, chosen>>
      BY <2>3, <2>0 DEF PopJoin
    <3>5. pc' \in {"select", "push"} /\ pc = "pop" /\ rest' \in SUBSET DOMAIN kept
      BY <2>3 DEF PopJoin, TypeOK
    <3> QED
      BY <2>0, <3>1, <3>2, <3>3, <3>4, <3>5 DEF TypeOK, Pairs, Labellings
  <2>4. CASE Push
    <3>0. k \in Classes(core) /\ merged \in Pairs /\ pc = "push"
      BY <2>4 DEF Push, TypeOK
    <3>1. <<Step(core, merged[1], k), Step(core, merged[2], k)>> \in Pairs
      BY <3>0, <2>0 DEF Pairs
    <3>2. work' \in Seq(Pairs)
      BY <2>4, <3>1, AppendProperties DEF Push, TypeOK
    <3>3. k' \in 0 .. core.classes /\ (pc' = "push" => k' \in Classes(core))
      BY <2>4, <3>0, <2>0 DEF Push, Classes
    <3>4. pc' \in {"pop", "push"}
      BY <2>4 DEF Push
    <3> QED
      BY <2>4, <3>0, <3>2, <3>3, <3>4 DEF Push, TypeOK, Pairs, Labellings
  <2>5. CASE Keep
    <3>1. Canon(core, rep) \in LabelsOfCore
      BY <2>0, CanonType
    <3>2. kept' \in Seq(LabelsOfCore)
      BY <2>5, <3>1, AppendProperties DEF Keep, TypeOK
    <3>3. DOMAIN kept \subseteq DOMAIN kept'
      BY <2>5, <3>1, <3>2, AppendProperties, LenProperties DEF Keep, TypeOK
    <3>4. rest' \in SUBSET DOMAIN kept' /\ pc' \in {"select", "sweep"}
      BY <2>5, <3>3 DEF Keep, TypeOK
    <3>5. UNCHANGED <<core, rep, work, merged, k, steps, chosen>> /\ pair' = PairAfter(pair)
      BY <2>5 DEF Keep
    <3> QED
      BY <2>p, <3>2, <3>4, <3>5 DEF TypeOK, Pairs, Labellings
  <2>6. CASE Discard
    BY <2>6, <2>p DEF Discard, TypeOK, Pairs, Labellings
  <2>7. CASE EndSweep
    BY <2>7 DEF EndSweep, TypeOK, Pairs, Labellings
  <2>8. CASE Take
    <3>1. PICK i \in rest : chosen' = Append(chosen, kept[i]) /\ rest' = rest \ {i}
      BY <2>8 DEF Take
    <3>2. kept[i] \in LabelsOfCore
      BY <3>1, ElementOfSeq, LenProperties DEF TypeOK
    <3>3. chosen' \in Seq(LabelsOfCore)
      BY <3>1, <3>2, AppendProperties DEF TypeOK
    <3> QED
      BY <2>8, <3>1, <3>3 DEF Take, TypeOK, Pairs, Labellings
  <2>9. CASE PassOver
    BY <2>9 DEF PassOver, TypeOK, Pairs, Labellings
  <2>10. CASE Finish
    BY <2>10 DEF Finish, TypeOK, Pairs, Labellings
  <2>11. CASE UNCHANGED vars
    BY <2>11 DEF vars, TypeOK, Pairs, Labellings
  <2> QED
    BY <2>1, <2>2, <2>3, <2>4, <2>5, <2>6, <2>7, <2>8, <2>9, <2>10, <2>11 DEF Next
<1> QED
  BY <1>1, <1>2, PTL DEF Spec

-----------------------------------------------------------------------------
(* The closure loop.  A labelling that covers the work left is a candidate *)
(* for the partition the loop ends with; the loop keeps every candidate    *)
(* closed under successors of what is merged so far, and loses none of the *)
(* closed labellings that identify the pair.                               *)

ClosureInv == PairHeld /\ Propagated /\ NothingExtra

\* A stack that loses its top loses one constraint on the labellings it allows.
LEMMA CoversAfterPop ==
  ASSUME TypeOK, work # <<>>, work' = Popped, pc # "push",
         NEW f
  PROVE  /\ \A i \in DOMAIN work' : i \in DOMAIN work /\ work'[i] = work[i]
         /\ \A i \in DOMAIN work : i \in DOMAIN work' \/ work[i] = Top
         /\ DOMAIN work = 1 .. Len(work) /\ Len(work) \in Nat /\ Len(work) >= 1
         /\ DOMAIN work' = 1 .. Len(work) - 1
<1>1. work \in Seq(Pairs)
  BY DEF TypeOK
<1>2. /\ Len(work) \in Nat /\ Len(work) >= 1
      /\ Popped \in Seq(Pairs)
      /\ Len(Popped) = Len(work) - 1
      /\ \A i \in 1 .. Len(work) - 1 : Popped[i] = work[i]
  BY <1>1, DroppingLast DEF Popped
<1>3. DOMAIN work = 1 .. Len(work) /\ DOMAIN Popped = 1 .. Len(work) - 1
  BY <1>1, <1>2, LenProperties
<1> QED
  BY <1>2, <1>3 DEF Top

\* Entering `close` establishes the closure invariant for the new pair.
LEMMA OpenKeeps == TypeOK /\ TypeOK' /\ Open => ClosureInv'
<1> SUFFICES ASSUME TypeOK, TypeOK', Open PROVE ClosureInv'
  OBVIOUS
<1>1. /\ core' = core /\ pair' = pair /\ pc' = "pop"
      /\ rep' = [s \in States(core) |-> s]
      /\ work' = <<pair>>
  BY DEF Open, Identity
<1>2. Len(work') = 1 /\ work'[1] = pair' /\ work' # <<>> /\ DOMAIN work' = {1}
  BY <1>1
<1>3. PairHeld'
  BY <1>2 DEF PairHeld
<1>4. Propagated'
  BY <1>1 DEF Propagated
<1>5. NothingExtra'
  BY <1>1, <1>2 DEF NothingExtra, Covers, Coarser
<1> QED
  BY <1>3, <1>4, <1>5 DEF ClosureInv

\* Dropping a pair that is one block already changes no labelling's standing.
LEMMA PopMergedKeeps == TypeOK /\ TypeOK' /\ ClosureInv /\ PopMerged => ClosureInv'
<1> SUFFICES ASSUME TypeOK, TypeOK', ClosureInv, PopMerged PROVE ClosureInv'
  OBVIOUS
<1>1. /\ UNCHANGED <<core, pc, pair, rep>> /\ pc = "pop"
      /\ work # <<>> /\ work' = Popped /\ rep[Top[1]] = rep[Top[2]]
      /\ Closing /\ Closing'
  BY DEF PopMerged, Closing
<1>2. /\ \A i \in DOMAIN work' : i \in DOMAIN work /\ work'[i] = work[i]
      /\ \A i \in DOMAIN work : i \in DOMAIN work' \/ work[i] = Top
      /\ DOMAIN work = 1 .. Len(work) /\ Len(work) \in Nat /\ Len(work) >= 1
      /\ DOMAIN work' = 1 .. Len(work) - 1
  BY <1>1, CoversAfterPop
<1>3. Top \in Pairs
  BY <1>1, DroppingLast DEF Top, TypeOK
<1>4. \A f \in Labellings : Covers(f) <=> Covers(f)'
  BY <1>1, <1>2, <1>3 DEF Covers, Coarser, Pairs
<1>5. Labellings' = Labellings
  BY <1>1 DEF Labellings
<1>6. Propagated'
  BY <1>1, <1>4, <1>5 DEF Propagated, ClosureInv
<1>7. NothingExtra'
  BY <1>1, <1>4, <1>5 DEF NothingExtra, ClosureInv
<1>8. PairHeld'
  <2>1. CASE rep[pair[1]] = rep[pair[2]]
    BY <2>1, <1>1 DEF PairHeld
  <2>2. CASE rep[pair[1]] # rep[pair[2]]
    <3>1. work[1] = pair
      BY <2>2, <1>1 DEF PairHeld, ClosureInv
    <3>2. 1 # Len(work)
      BY <3>1, <2>2, <1>1 DEF Top
    <3>3. 1 \in DOMAIN work'
      BY <3>2, <1>2
    <3> QED
      BY <3>1, <3>3, <1>1, <1>2 DEF PairHeld
  <2> QED
    BY <2>1, <2>2
<1> QED
  BY <1>6, <1>7, <1>8 DEF ClosureInv

\* Merging two blocks: a labelling that covers the merge, and the successors it
\* still owes, covered the pair while it was on the stack.
LEMMA PopJoinKeeps == TypeOK /\ TypeOK' /\ ClosureInv /\ PopJoin => ClosureInv'
<1> SUFFICES ASSUME TypeOK, TypeOK', ClosureInv, PopJoin, Closing' PROVE ClosureInv'
  BY DEF ClosureInv, PairHeld, Propagated, NothingExtra
<1> DEFINE a == Top[1]
           b == Top[2]
<1>1. /\ UNCHANGED <<core, pair>> /\ pc = "pop" /\ pc' = "push"
      /\ work # <<>> /\ work' = Popped
      /\ rep' = Join(rep, a, b) /\ merged' = Top /\ k' = 0
      /\ Closing
  BY DEF PopJoin, Closing
<1>2. /\ \A i \in DOMAIN work' : i \in DOMAIN work /\ work'[i] = work[i]
      /\ \A i \in DOMAIN work : i \in DOMAIN work' \/ work[i] = Top
      /\ DOMAIN work = 1 .. Len(work) /\ Len(work) \in Nat /\ Len(work) >= 1
      /\ DOMAIN work' = 1 .. Len(work) - 1
  BY <1>1, CoversAfterPop
<1>3. Top \in Pairs /\ a \in States(core) /\ b \in States(core) /\ Len(work) \in DOMAIN work
  BY <1>1, <1>2, DroppingLast DEF Top, TypeOK, Pairs
<1>4. /\ rep \in [States(core) -> States(core)]
      /\ rep' = [s \in States(core) |-> IF rep[s] = rep[a] THEN rep[b] ELSE rep[s]]
  BY <1>1 DEF TypeOK, Labellings, Join
<1>5. \A s, t \in States(core) : rep[s] = rep[t] => rep'[s] = rep'[t]
  BY <1>4
<1>6. Labellings' = Labellings /\ \A j \in Classes(core) : j >= 0
  BY <1>1, CoreFacts DEF Labellings, TypeOK, Classes
<1> HIDE DEF a, b
<1>7. ASSUME NEW f \in Labellings, Covers(f)'
      PROVE  /\ Covers(f)
             /\ \A j \in Classes(core) : f[Step(core, a, j)] = f[Step(core, b, j)]
  <2>1. \A j \in Classes(core) : f[Step(core, a, j)] = f[Step(core, b, j)]
    BY <1>1, <1>6, <1>7 DEF Covers, a, b
  <2>2. Coarser(core, f, rep)
    BY <1>1, <1>5, <1>7 DEF Covers, Coarser
  <2>3. f[a] = f[b]
    BY <1>1, <1>3, <1>4, <1>7 DEF Covers, Coarser
  <2>4. \A i \in DOMAIN work : f[work[i][1]] = f[work[i][2]]
    BY <1>2, <1>7, <2>3 DEF Covers, a, b
  <2> QED
    BY <1>1, <2>1, <2>2, <2>4 DEF Covers
<1>8. Propagated'
  <2> SUFFICES ASSUME NEW f \in Labellings, Covers(f)',
                      NEW s \in States(core), NEW t \in States(core), rep'[s] = rep'[t],
                      NEW j \in Classes(core)
               PROVE  f[Step(core, s, j)] = f[Step(core, t, j)]
    BY <1>1, <1>6 DEF Propagated
  <2>1. \A x, y \in States(core) : rep[x] = rep[y] => f[Step(core, x, j)] = f[Step(core, y, j)]
    BY <1>1, <1>7 DEF ClosureInv, Propagated
  <2>2. f[Step(core, a, j)] = f[Step(core, b, j)]
    BY <1>7
  <2>3. \/ rep[s] = rep[t]
        \/ rep[s] = rep[a] /\ rep[t] = rep[b]
        \/ rep[s] = rep[b] /\ rep[t] = rep[a]
    BY <1>3, <1>4
  <2> QED
    BY <1>3, <2>1, <2>2, <2>3
<1>9. NothingExtra'
  <2> SUFFICES ASSUME NEW f \in Labellings, Closed(core, f), f[pair[1]] = f[pair[2]]
               PROVE  Covers(f)'
    BY <1>1, <1>6 DEF NothingExtra
  <2>1. Covers(f)
    BY <1>1 DEF ClosureInv, NothingExtra
  <2>2. f[a] = f[b]
    BY <1>3, <2>1 DEF Covers, Top, a, b
  <2>3. Coarser(core, f, rep')
    BY <1>3, <1>4, <2>1, <2>2 DEF Covers, Coarser
  <2>4. \A j \in Classes(core) : f[Step(core, a, j)] = f[Step(core, b, j)]
    BY <1>3, <2>2 DEF Closed
  <2>5. \A i \in DOMAIN work' : f[work'[i][1]] = f[work'[i][2]]
    BY <1>2, <2>1 DEF Covers
  <2> QED
    BY <1>1, <2>3, <2>4, <2>5 DEF Covers, a, b
<1>10. PairHeld'
  <2>1. CASE rep[pair[1]] = rep[pair[2]]
    BY <2>1, <1>1, <1>5 DEF PairHeld, TypeOK, Pairs
  <2>2. CASE work[1] = pair /\ Len(work) = 1
    BY <2>2, <1>1, <1>3, <1>4 DEF PairHeld, Top, a, b
  <2>3. CASE work[1] = pair /\ Len(work) # 1
    <3>1. 1 \in DOMAIN work'
      BY <2>3, <1>2
    <3> QED
      BY <2>3, <3>1, <1>1, <1>2 DEF PairHeld
  <2> QED
    BY <2>1, <2>2, <2>3, <1>1 DEF ClosureInv, PairHeld
<1> QED
  BY <1>8, <1>9, <1>10 DEF ClosureInv

\* One class of the merged pair is paid for, on the stack or by the forest.
LEMMA PushKeeps == TypeOK /\ TypeOK' /\ ClosureInv /\ Push => ClosureInv'
<1> SUFFICES ASSUME TypeOK, TypeOK', ClosureInv, Push PROVE ClosureInv'
  OBVIOUS
<1> DEFINE x == Step(core, merged[1], k)
           y == Step(core, merged[2], k)
<1>1. /\ UNCHANGED <<core, pair, rep, merged>> /\ pc = "push"
      /\ work' = IF rep[x] # rep[y] THEN Append(work, <<x, y>>) ELSE work
      /\ k' = k + 1
      /\ pc' = IF k + 1 = core.classes THEN "pop" ELSE "push"
      /\ Closing /\ Closing'
  BY DEF Push, Closing
<1>2. /\ k \in Classes(core) /\ Classes(core) = 0 .. core.classes - 1
      /\ core.classes \in Nat
      /\ x \in States(core) /\ y \in States(core) /\ <<x, y>> \in Pairs
      /\ work \in Seq(Pairs)
  BY <1>1, CoreFacts DEF TypeOK, Pairs, Classes
<1> HIDE DEF x, y
<1>3. /\ \A i \in DOMAIN work : i \in DOMAIN work' /\ work'[i] = work[i]
      /\ \A i \in DOMAIN work' : i \in DOMAIN work \/ (rep[x] # rep[y] /\ work'[i] = <<x, y>>)
      /\ rep[x] # rep[y] => \E i \in DOMAIN work' : work'[i] = <<x, y>>
      /\ work # <<>> => work' # <<>> /\ work'[1] = work[1]
  <2>1. CASE rep[x] = rep[y]
    BY <2>1, <1>1
  <2>2. CASE rep[x] # rep[y]
    <3>1. work' = Append(work, <<x, y>>)
      BY <2>2, <1>1
    <3>2. /\ work' \in Seq(Pairs) /\ work' # <<>>
          /\ Len(work') = Len(work) + 1
          /\ \A i \in 1 .. Len(work) : work'[i] = work[i]
          /\ work'[Len(work) + 1] = <<x, y>>
      BY <3>1, <1>2, AppendProperties
    <3>3. /\ DOMAIN work = 1 .. Len(work) /\ Len(work) \in Nat
          /\ DOMAIN work' = 1 .. Len(work) + 1
      BY <3>2, <1>2, LenProperties
    <3>4. work # <<>> => 1 \in DOMAIN work
      BY <3>3, <1>2, EmptySeq
    <3> QED
      BY <2>2, <3>2, <3>3, <3>4
  <2> QED
    BY <2>1, <2>2
<1>4. Labellings' = Labellings
  BY <1>1 DEF Labellings
<1>5. \A f \in Labellings : Covers(f) <=> Covers(f)'
  <2> SUFFICES ASSUME NEW f \in Labellings, Coarser(core, f, rep)
               PROVE  Covers(f) <=> Covers(f)'
    BY <1>1 DEF Covers
  <2>1. rep[x] = rep[y] => f[x] = f[y]
    BY <1>2 DEF Coarser
  <2>2. \A j \in Classes(core) : j >= k <=> j = k \/ j >= k'
    BY <1>1, <1>2
  <2>3. pc' # "push" => \A j \in Classes(core) : ~(j >= k')
    BY <1>1, <1>2
  <2>4. Covers(f) <=> /\ \A i \in DOMAIN work : f[work[i][1]] = f[work[i][2]]
                      /\ \A j \in Classes(core) :
                           j >= k => f[Step(core, merged[1], j)] = f[Step(core, merged[2], j)]
    BY <1>1 DEF Covers
  <2>5. Covers(f)' <=> /\ \A i \in DOMAIN work' : f[work'[i][1]] = f[work'[i][2]]
                       /\ \A j \in Classes(core) :
                            j >= k' => f[Step(core, merged[1], j)] = f[Step(core, merged[2], j)]
    BY <1>1, <2>3 DEF Covers
  <2>6. f[x] = f[y] <=> f[Step(core, merged[1], k)] = f[Step(core, merged[2], k)]
    BY DEF x, y
  <2>7. (\A j \in Classes(core) :
            j >= k => f[Step(core, merged[1], j)] = f[Step(core, merged[2], j)])
        <=> /\ f[x] = f[y]
            /\ \A j \in Classes(core) :
                  j >= k' => f[Step(core, merged[1], j)] = f[Step(core, merged[2], j)]
    BY <1>2, <2>2, <2>6
  <2>8. (\A i \in DOMAIN work' : f[work'[i][1]] = f[work'[i][2]])
        <=> /\ rep[x] # rep[y] => f[x] = f[y]
            /\ \A i \in DOMAIN work : f[work[i][1]] = f[work[i][2]]
    BY <1>3
  <2> QED
    BY <2>1, <2>4, <2>5, <2>7, <2>8
<1>6. Propagated'
  BY <1>1, <1>4, <1>5 DEF Propagated, ClosureInv
<1>7. NothingExtra'
  BY <1>1, <1>4, <1>5 DEF NothingExtra, ClosureInv
<1>8. PairHeld'
  BY <1>1, <1>3 DEF PairHeld, ClosureInv
<1> QED
  BY <1>6, <1>7, <1>8 DEF ClosureInv

\* In every reachable state the closure loop owes exactly what is on its stack.
THEOREM ClosureLoop == Spec => []ClosureInv
<1>1. Init => ClosureInv
  BY DEF Init, ClosureInv, PairHeld, Propagated, NothingExtra, Closing
<1>2. TypeOK /\ TypeOK' /\ ClosureInv /\ [Next]_vars => ClosureInv'
  <2> SUFFICES ASSUME TypeOK, TypeOK', ClosureInv, [Next]_vars PROVE ClosureInv'
    OBVIOUS
  <2>1. ASSUME ~Closing' PROVE ClosureInv'
    BY <2>1 DEF ClosureInv, PairHeld, Propagated, NothingExtra
  <2>2. CASE Open
    BY <2>2, OpenKeeps
  <2>3. CASE PopMerged
    BY <2>3, PopMergedKeeps
  <2>4. CASE PopJoin
    BY <2>4, PopJoinKeeps
  <2>5. CASE Push
    BY <2>5, PushKeeps
  <2>6. CASE Keep \/ Discard \/ EndSweep
    BY <2>1, <2>6 DEF Keep, Discard, EndSweep, Closing
  <2>7. CASE Take \/ PassOver \/ Finish
    BY <2>1, <2>7 DEF Take, PassOver, Finish, Choosing, Closing
  <2>8. CASE UNCHANGED vars
    BY <2>8 DEF vars, ClosureInv, PairHeld, Propagated, NothingExtra, Closing, Labellings, Covers
  <2> QED
    BY <2>2, <2>3, <2>4, <2>5, <2>6, <2>7, <2>8 DEF Next
<1> QED
  BY <1>1, <1>2, Typing, PTL DEF Spec

\* The comment in `close`: states of one block agree on their successors up to the pairs
\* still on the stack, so that no pair the loop has yet to merge is lost.
THEOREM NoPairIsLost == Spec => []Propagated
<1>1. ClosureInv => Propagated
  BY DEF ClosureInv
<1> QED
  BY <1>1, ClosureLoop, PTL

\* Every closed partition that identifies the pair identifies all that `close` has merged
\* and all that it is about to.
THEOREM NoPairIsExtra == Spec => []NothingExtra
<1>1. ClosureInv => NothingExtra
  BY DEF ClosureInv
<1> QED
  BY <1>1, ClosureLoop, PTL

\* The forest a finished closure hands on is the least closed partition that
\* identifies the pair: complete, although one pair was propagated per merge.
THEOREM ClosesToTheLeast == Spec => []CloseIsLeast
<1>1. TypeOK /\ ClosureInv => CloseIsLeast
  <2> SUFFICES ASSUME TypeOK, ClosureInv, Finished
               PROVE  LeastAbove(rep, pair[1], pair[2])
    BY DEF CloseIsLeast
  <2>1. pc = "pop" /\ work = <<>> /\ Closing /\ DOMAIN work = {}
    BY DEF Finished, Closing
  <2>2. rep \in Labellings /\ Covers(rep)
    BY <2>1 DEF TypeOK, Covers, Coarser
  <2>3. Closed(core, rep)
    BY <2>1, <2>2 DEF ClosureInv, Propagated, Closed
  <2>4. rep[pair[1]] = rep[pair[2]]
    BY <2>1 DEF ClosureInv, PairHeld
  <2>5. \A g \in Labellings :
          Closed(core, g) /\ g[pair[1]] = g[pair[2]] => Coarser(core, g, rep)
    BY <2>1 DEF ClosureInv, NothingExtra, Covers
  <2> QED
    BY <2>3, <2>4, <2>5 DEF LeastAbove
<1> QED
  BY <1>1, Typing, ClosureLoop, PTL

-----------------------------------------------------------------------------
(* The numbering.                                                          *)

\* Every block is opened by a first state, the least it has.
LEMMA Opener ==
  ASSUME NEW c, IsCore(c), NEW r, NEW s \in States(c)
  PROVE  \E l \in FirstSeen(c, r) :
           r[l] = r[s] /\ \A u \in States(c) : r[u] = r[s] => l <= u
<1> DEFINE T == {u \in States(c) : r[u] = r[s]}
<1>1. States(c) \subseteq Nat /\ States(c) = 0 .. c.states - 1 /\ c.states \in Nat
  BY CoreFacts DEF States
<1>2. PICK l \in T : \A u \in T : l <= u
  BY <1>1, LeastNatural
<1>3. \A t \in 0 .. l - 1 : t \in States(c) /\ ~(l <= t)
  BY <1>1, <1>2
<1>4. l \in FirstSeen(c, r)
  BY <1>2, <1>3 DEF FirstSeen
<1> QED
  BY <1>2, <1>4

\* Block ids are equal exactly when the forest has one root for both states.
LEMMA CanonKernel ==
  ASSUME NEW c, IsCore(c), NEW r, NEW s \in States(c), NEW t \in States(c)
  PROVE  Canon(c, r)[s] = Canon(c, r)[t] <=> r[s] = r[t]
<1>0. IsFiniteSet(States(c))
  BY StatesFinite
<1>1. IsFiniteSet(States(c)) /\ States(c) \subseteq Nat
  BY <1>0, CoreFacts
<1> DEFINE B(x) == {v \in FirstSeen(c, r) : \A u \in States(c) : r[u] = r[x] => v < u}
<1>2. \A x \in States(c) : B(x) \in SUBSET States(c) /\ IsFiniteSet(B(x))
  <2> TAKE x \in States(c)
  <2>1. B(x) \in SUBSET States(c)
    BY DEF FirstSeen
  <2> QED
    BY <1>1, <2>1, FS_Subset
<1>3. \A x \in States(c) : Canon(c, r)[x] = Cardinality(B(x))
  BY DEF Canon
<1>4. ASSUME r[s] = r[t] PROVE Cardinality(B(s)) = Cardinality(B(t))
  BY <1>4
<1>5. ASSUME NEW x \in States(c), NEW y \in States(c),
             NEW l \in FirstSeen(c, r), NEW m \in FirstSeen(c, r),
             r[l] = r[x], \A u \in States(c) : r[u] = r[x] => l <= u,
             r[m] = r[y], \A u \in States(c) : r[u] = r[y] => m <= u,
             l < m
      PROVE  Cardinality(B(x)) # Cardinality(B(y))
  <2>1. l \in States(c) /\ m \in States(c) /\ l \in Nat /\ m \in Nat
    BY <1>1 DEF FirstSeen
  <2>2. l \in B(y)
    BY <1>1, <1>5, <2>1
  <2>3. l \notin B(x)
    BY <1>5, <2>1
  <2>4. B(x) \subseteq B(y)
    <3> SUFFICES ASSUME NEW v \in B(x) PROVE v \in B(y)
      OBVIOUS
    <3>1. v \in FirstSeen(c, r) /\ v \in Nat
      BY <1>1 DEF FirstSeen
    <3>2. v < l
      BY <1>5, <2>1
    <3> QED
      BY <1>1, <1>5, <2>1, <3>1, <3>2
  <2>5. B(x) \in SUBSET B(y) /\ B(x) # B(y) /\ IsFiniteSet(B(y))
    BY <1>2, <2>2, <2>3, <2>4
  <2> HIDE DEF B
  <2> QED
    BY <2>5, FS_Subset
<1>6. ASSUME r[s] # r[t] PROVE Cardinality(B(s)) # Cardinality(B(t))
  <2>1. PICK l \in FirstSeen(c, r) :
          r[l] = r[s] /\ \A u \in States(c) : r[u] = r[s] => l <= u
    BY Opener
  <2>2. PICK m \in FirstSeen(c, r) :
          r[m] = r[t] /\ \A u \in States(c) : r[u] = r[t] => m <= u
    BY Opener
  <2>3. l \in Nat /\ m \in Nat /\ l # m
    BY <1>1, <1>6, <2>1, <2>2 DEF FirstSeen
  <2>4. l < m \/ m < l
    BY <2>3
  <2> HIDE DEF B
  <2>5. CASE l < m
    BY <1>5, <2>1, <2>2, <2>5
  <2>6. CASE m < l
    BY <1>5, <2>1, <2>2, <2>6
  <2> QED
    BY <2>4, <2>5, <2>6
<1> HIDE DEF B
<1> QED
  BY <1>3, <1>4, <1>6

\* Renaming the blocks of a least closed partition leaves it one.
LEMMA CanonIsLeast ==
  ASSUME IsCore(core), NEW r, NEW p \in States(core), NEW q \in States(core),
         LeastAbove(r, p, q)
  PROVE  LeastAbove(Canon(core, r), p, q)
<1> DEFINE b == Canon(core, r)
<1>1. \A s, t \in States(core) : b[s] = b[t] <=> r[s] = r[t]
  BY CanonKernel
<1>2. \A s \in States(core), j \in Classes(core) : Step(core, s, j) \in States(core)
  BY CoreFacts
<1> HIDE DEF b
<1>3. Closed(core, b)
  BY <1>1, <1>2 DEF LeastAbove, Closed
<1>4. b[p] = b[q]
  BY <1>1 DEF LeastAbove
<1>5. \A g \in Labellings : Closed(core, g) /\ g[p] = g[q] => Coarser(core, g, b)
  BY <1>1 DEF LeastAbove, Coarser
<1> QED
  BY <1>3, <1>4, <1>5 DEF LeastAbove, b

\* What the harvest holds at any moment, a spent budget included, is closed,
\* least above some pair of states, usable, and held once.
THEOREM KeepsOnlyClosed == Spec => []KeptClosed
<1>1. Init => KeptClosed
  BY DEF Init, KeptClosed
<1>2. TypeOK /\ CloseIsLeast /\ KeptClosed /\ [Next]_vars => KeptClosed'
  <2> SUFFICES ASSUME TypeOK, CloseIsLeast, KeptClosed, [Next]_vars PROVE KeptClosed'
    OBVIOUS
  <2>1. ASSUME UNCHANGED <<core, kept>> PROVE KeptClosed'
    BY <2>1 DEF KeptClosed, Pairs, LeastAbove, Labellings
  <2>2. CASE Keep
    <3> DEFINE block == Canon(core, rep)
    <3>1. /\ core' = core /\ kept' = Append(kept, block) /\ Finished
          /\ Induces(core, block) /\ \A i \in DOMAIN kept : kept[i] # block
      BY <2>2 DEF Keep, Worth
    <3>2. /\ block \in [States(core) -> Nat]
          /\ kept \in Seq([States(core) -> Nat])
      BY CanonType DEF TypeOK
    <3>3. pair \in Pairs /\ pair[1] # pair[2] /\ LeastAbove(block, pair[1], pair[2])
      <4>1. pair \in Pairs /\ pair[1] < pair[2] /\ pair[1] \in Nat /\ pair[2] \in Nat
        BY <3>1 DEF Finished, TypeOK
      <4>2. pair[1] \in States(core) /\ pair[2] \in States(core)
        BY <4>1 DEF Pairs
      <4> QED
        BY <3>1, <4>1, <4>2, CanonIsLeast DEF CloseIsLeast, TypeOK
    <3> HIDE DEF block
    <3>4. /\ Len(kept) \in Nat /\ DOMAIN kept = 1 .. Len(kept)
          /\ DOMAIN kept' = 1 .. Len(kept) + 1
          /\ \A i \in 1 .. Len(kept) : kept'[i] = kept[i]
          /\ kept'[Len(kept) + 1] = block
      BY <3>1, <3>2, AppendProperties, LenProperties
    <3>5. \A i \in DOMAIN kept' : i \in DOMAIN kept \/ i = Len(kept) + 1
      BY <3>4
    <3>6. ASSUME NEW i \in DOMAIN kept'
          PROVE  /\ Induces(core, kept'[i])
                 /\ \E pr \in Pairs : pr[1] # pr[2] /\ LeastAbove(kept'[i], pr[1], pr[2])
      BY <3>1, <3>3, <3>4, <3>5, <3>6 DEF KeptClosed
    <3>7. ASSUME NEW i \in DOMAIN kept', NEW j \in DOMAIN kept', kept'[i] = kept'[j]
          PROVE  i = j
      BY <3>1, <3>4, <3>5, <3>7 DEF KeptClosed
    <3>8. Pairs' = Pairs /\ \A f, p, q : LeastAbove(f, p, q)' <=> LeastAbove(f, p, q)
      BY <3>1 DEF Pairs, LeastAbove, Labellings
    <3> QED
      BY <3>1, <3>6, <3>7, <3>8 DEF KeptClosed
  <2>3. CASE Next /\ ~Keep
    BY <2>1, <2>3 DEF Next, Open, PopMerged, PopJoin, Push, Discard, EndSweep, Take, PassOver, Finish
  <2>4. CASE UNCHANGED vars
    BY <2>1, <2>4 DEF vars
  <2> QED
    BY <2>2, <2>3, <2>4
<1> QED
  BY <1>1, <1>2, Typing, ClosesToTheLeast, PTL DEF Spec

-----------------------------------------------------------------------------
(* The stack.                                                              *)

\* A merge leaves one root less.
LEMMA JoinRoots ==
  ASSUME NEW S, IsFiniteSet(S), NEW r \in [S -> S], NEW a \in S, NEW b \in S, r[a] # r[b]
  PROVE  /\ Cardinality({r[s] : s \in S}) \in Nat
         /\ Cardinality({Join(r, a, b)[s] : s \in S}) = Cardinality({r[s] : s \in S}) - 1
<1> DEFINE R == {r[s] : s \in S}
           J == {Join(r, a, b)[s] : s \in S}
<1>1. R \subseteq S /\ IsFiniteSet(R)
  BY FS_Subset
<1>2. J = R \ {r[a]}
  <2>1. \A s \in S : Join(r, a, b)[s] = IF r[s] = r[a] THEN r[b] ELSE r[s]
    BY DEF Join
  <2>2. ASSUME NEW x \in J PROVE x \in R \ {r[a]}
    BY <2>1
  <2>3. ASSUME NEW x \in R \ {r[a]} PROVE x \in J
    <3>1. PICK s \in S : x = r[s]
      BY <2>3
    <3>2. Join(r, a, b)[s] = x
      BY <2>1, <2>3, <3>1
    <3> QED
      BY <3>2
  <2> QED
    BY <2>2, <2>3
<1>3. r[a] \in R
  OBVIOUS
<1> HIDE DEF R, J
<1>4. Cardinality(R) \in Nat /\ Cardinality(R \ {r[a]}) = Cardinality(R) - 1
  BY <1>1, <1>3, FS_CardinalityType, FS_RemoveElement
<1> QED
  BY <1>2, <1>4 DEF R, J

\* The room a merge makes is what the loop over classes may use.
LEMMA RoomOfAJoin ==
  ASSUME NEW c \in Int, NEW j \in Int, NEW l \in Int, NEW s \in Int,
         l <= 1 + (c - 1) * j, s <= c
  PROVE  l - 1 + s <= 1 + (c - 1) * (j + 1)
<1>1. (c - 1) * j \in Int /\ (c - 1) * (j + 1) = (c - 1) * j + (c - 1)
  OBVIOUS
<1> QED
  BY <1>1

\* The merges so far, and what the loop over classes may still push.
Joins == core.states - Cardinality({rep[s] : s \in States(core)})
Spare == IF pc = "push" THEN core.classes - k ELSE 0

\* The bound with the pushes of the loop in progress counted in: what a push uses up.
StackInv ==
  /\ Joins \in Int
  /\ Len(work) + Spare <= 1 + (core.classes - 1) * Joins

\* A forest nothing was merged in.
LEMMA NoJoins ==
  ASSUME NEW c, IsCore(c)
  PROVE  c.states - Cardinality({Identity(c)[s] : s \in States(c)}) = 0
<1>1. {Identity(c)[s] : s \in States(c)} = States(c)
  BY DEF Identity
<1>2. c.states \in Nat /\ c.states >= 1 /\ States(c) = 0 .. c.states - 1
  BY CoreFacts DEF States
<1>3. Cardinality(0 .. c.states - 1) = c.states
  <2>1. 0 \in Int /\ c.states - 1 \in Int /\ ~(0 > c.states - 1)
    BY <1>2
  <2> QED
    BY <1>2, <2>1, FS_Interval
<1>4. Cardinality({Identity(c)[s] : s \in States(c)}) = c.states
  BY <1>1, <1>2, <1>3
<1> QED
  BY <1>2, <1>4

\* Every merge is counted.
LEMMA JoinCounts == TypeOK /\ PopJoin => Joins' = Joins + 1
<1> SUFFICES ASSUME TypeOK, PopJoin PROVE Joins' = Joins + 1
  OBVIOUS
<1> DEFINE S == States(core)
           a == Top[1]
           b == Top[2]
<1>1. work[Len(work)] \in Pairs
  BY DroppingLast DEF PopJoin, TypeOK
<1>2. a \in S /\ b \in S /\ rep[a] # rep[b] /\ rep' = Join(rep, a, b) /\ core' = core
  BY <1>1 DEF PopJoin, Top, Pairs
<1>3. rep \in [S -> S] /\ IsFiniteSet(S) /\ core.states \in Int
  BY StatesFinite, CoreFacts DEF TypeOK, Labellings
<1>4. Joins = core.states - Cardinality({rep[s] : s \in S})
  BY DEF Joins
<1>5. Joins' = core.states - Cardinality({Join(rep, a, b)[s] : s \in S})
  BY <1>2 DEF Joins
<1> HIDE DEF S, a, b
<1>6. /\ Cardinality({rep[s] : s \in S}) \in Nat
      /\ Cardinality({Join(rep, a, b)[s] : s \in S}) = Cardinality({rep[s] : s \in S}) - 1
  <2>1. PICK r : r = rep
    OBVIOUS
  <2>2. r \in [S -> S] /\ IsFiniteSet(S) /\ a \in S /\ b \in S /\ r[a] # r[b]
    BY <1>2, <1>3, <2>1
  <2>3. /\ Cardinality({r[s] : s \in S}) \in Nat
        /\ Cardinality({Join(r, a, b)[s] : s \in S}) = Cardinality({r[s] : s \in S}) - 1
    BY <2>2, JoinRoots, ZenonT(40)
  <2> QED
    BY <2>1, <2>3
<1> QED
  BY <1>3, <1>4, <1>5, <1>6

\* The stack of `close` never outgrows what its merges account for, for any core, any
\* budget and whatever order the pairs come off it.
THEOREM StackHasABound == Spec => []StackBounded
<1>1. TypeOK /\ Init => StackInv
  <2> SUFFICES ASSUME TypeOK, Init PROVE StackInv
    OBVIOUS
  <2>1. IsCore(core) /\ core.classes \in Nat
    BY CoreFacts DEF TypeOK
  <2>2. Joins = 0
    BY <2>1, NoJoins DEF Init, Joins
  <2>3. Len(work) = 0 /\ Spare = 0
    BY DEF Init, Spare
  <2> QED
    BY <2>1, <2>2, <2>3 DEF StackInv
<1>2. TypeOK /\ TypeOK' /\ StackInv /\ [Next]_vars => StackInv'
  <2> SUFFICES ASSUME TypeOK, TypeOK', StackInv, [Next]_vars PROVE StackInv'
    OBVIOUS
  <2>0. /\ IsCore(core) /\ core.classes \in Nat /\ core.classes >= 1
        /\ Len(work) \in Nat /\ Len(work') \in Nat
        /\ Joins \in Int /\ (core.classes - 1) * Joins \in Int
    <3>1. IsCore(core) /\ core.classes \in Nat /\ core.classes >= 1
      BY CoreFacts DEF TypeOK
    <3>2. Len(work) \in Nat /\ Len(work') \in Nat
      BY LenProperties DEF TypeOK
    <3> QED
      BY <3>1, <3>2 DEF StackInv
  <2>1. ASSUME UNCHANGED <<core, rep>>, Len(work') + Spare' <= Len(work) + Spare
        PROVE  StackInv'
    <3>1. Joins' = Joins
      BY <2>1 DEF Joins
    <3>2. Spare \in Int /\ Spare' \in Int
      <4>1. k \in Int /\ k' \in Int /\ core' = core
        BY <2>0, <2>1 DEF TypeOK
      <4> QED
        BY <2>0, <4>1 DEF Spare
    <3> QED
      BY <2>0, <2>1, <3>1, <3>2 DEF StackInv
  <2>2. CASE Open
    <3>1. core' = core /\ Joins' = 0
      BY <2>0, <2>2, NoJoins DEF Open, Joins
    <3>2. Len(work') = 1 /\ Spare' = 0
      BY <2>2 DEF Open, Spare
    <3> QED
      BY <2>0, <3>1, <3>2 DEF StackInv
  <2>3. CASE PopMerged
    <3>1. Len(work') = Len(work) - 1 /\ UNCHANGED <<core, rep, pc>> /\ pc = "pop"
      BY <2>3, DroppingLast DEF PopMerged, Popped, TypeOK
    <3> QED
      BY <2>0, <2>1, <3>1 DEF Spare
  <2>4. CASE PopJoin
    <3>1. Len(work') = Len(work) - 1 /\ work[Len(work)] \in Pairs
      BY <2>4, DroppingLast DEF PopJoin, Popped, TypeOK
    <3>2. /\ Top[1] \in States(core) /\ Top[2] \in States(core)
          /\ rep[Top[1]] # rep[Top[2]] /\ rep' = Join(rep, Top[1], Top[2]) /\ core' = core
      BY <2>4, <3>1 DEF PopJoin, Top, Pairs
    <3>3. rep \in [States(core) -> States(core)] /\ IsFiniteSet(States(core))
      BY <2>0, StatesFinite DEF TypeOK, Labellings
    <3>4. Joins' = Joins + 1
      BY <2>4, JoinCounts
    <3>5. Spare = 0 /\ Spare' \in Int /\ Spare' <= core.classes
      BY <2>0, <2>4 DEF PopJoin, Spare
    <3>6. Len(work) <= 1 + (core.classes - 1) * Joins
      BY <2>0, <3>5 DEF StackInv
    <3>7. Len(work) - 1 + Spare' <= 1 + (core.classes - 1) * (Joins + 1)
      <4>1. core.classes \in Int /\ Len(work) \in Int /\ Joins \in Int
        BY <2>0
      <4> HIDE DEF Joins, Spare
      <4> QED
        BY <4>1, <3>5, <3>6, RoomOfAJoin
    <3>8. Len(work') + Spare' <= 1 + (core.classes - 1) * Joins'
      BY <3>1, <3>4, <3>7
    <3> QED
      BY <2>0, <3>2, <3>4, <3>8 DEF StackInv
  <2>5. CASE Push
    <3>1. /\ UNCHANGED <<core, rep>> /\ pc = "push" /\ k' = k + 1 /\ k \in Nat
          /\ pc' = IF k + 1 = core.classes THEN "pop" ELSE "push"
      BY <2>0, <2>5 DEF Push, TypeOK
    <3>2. Len(work') <= Len(work) + 1
      BY <2>0, <2>5, AppendProperties DEF Push, TypeOK
    <3>3. Spare = core.classes - k /\ Spare' = core.classes - k - 1
      <4>1. Spare = core.classes - k
        BY <3>1 DEF Spare
      <4>2. Spare' = IF pc' = "push" THEN core.classes - k' ELSE 0
        BY <3>1 DEF Spare
      <4>3. CASE k + 1 = core.classes
        BY <2>0, <3>1, <4>1, <4>2, <4>3
      <4>4. CASE k + 1 # core.classes
        BY <2>0, <3>1, <4>1, <4>2, <4>4, SMTT(30)
      <4> QED
        BY <4>3, <4>4
    <3> QED
      BY <2>0, <2>1, <3>1, <3>2, <3>3, SMTT(30)
  <2>6. ASSUME UNCHANGED <<core, rep, work>>, pc # "push", pc' # "push" PROVE StackInv'
    BY <2>0, <2>1, <2>6 DEF Spare
  <2>7. CASE Keep \/ Discard \/ EndSweep
    BY <2>6, <2>7 DEF Keep, Discard, EndSweep, Finished
  <2>8. CASE Take \/ PassOver \/ Finish
    BY <2>6, <2>8 DEF Take, PassOver, Finish, Choosing
  <2>9. CASE UNCHANGED vars
    <3>1. UNCHANGED <<core, rep, work, pc, k>>
      BY <2>9 DEF vars
    <3>2. Spare' = Spare /\ k \in Int
      BY <3>1 DEF Spare, TypeOK
    <3> QED
      BY <2>0, <2>1, <3>1, <3>2 DEF Spare
  <2> QED
    BY <2>2, <2>3, <2>4, <2>5, <2>7, <2>8, <2>9 DEF Next
<1>3. TypeOK /\ StackInv => StackBounded
  <2> SUFFICES ASSUME TypeOK, StackInv PROVE StackBounded
    OBVIOUS
  <2>1. /\ Len(work) \in Nat /\ core.classes \in Nat /\ k \in Int
        /\ pc = "push" => k \in 0 .. core.classes - 1
    BY CoreFacts, LenProperties DEF TypeOK, Classes
  <2>2. Spare \in Int /\ Spare >= 0
    BY <2>1 DEF Spare
  <2> QED
    BY <2>1, <2>2 DEF StackInv, StackBounded, Joins
<1> QED
  BY <1>1, <1>2, <1>3, Typing, PTL DEF Spec


-----------------------------------------------------------------------------
(* The harvest implements its promise.                                     *)

\* The block ids `close` gives out are states' ids too, in the order they are first seen.
LEMMA CanonIsNumbered ==
  ASSUME NEW c, IsCore(c), NEW r
  PROVE  Canon(c, r) \in [States(c) -> States(c)] /\ Numbered(c, Canon(c, r))
<1> DEFINE T == FirstSeen(c, r)
           b == Canon(c, r)
<1>1. /\ IsFiniteSet(States(c)) /\ States(c) \subseteq Nat
      /\ States(c) = 0 .. c.states - 1 /\ c.states \in Nat
  BY StatesFinite, CoreFacts DEF States
<1>2. T \in SUBSET States(c) /\ T \subseteq Nat /\ IsFiniteSet(T)
  <2>1. T \in SUBSET States(c)
    BY DEF FirstSeen
  <2> QED
    BY <1>1, <2>1, FS_Subset
<1>3. ASSUME NEW s \in States(c)
      PROVE  \E l \in T : r[l] = r[s] /\ l <= s /\ b[s] = Rank(T, l)
  <2>1. PICK l \in T : r[l] = r[s] /\ \A u \in States(c) : r[u] = r[s] => l <= u
    BY Opener
  <2>2. \A t \in T : (\A u \in States(c) : r[u] = r[s] => t < u) <=> t < l
    <3> TAKE t \in T
    <3>1. t \in Nat /\ l \in States(c) /\ \A u \in States(c) : u \in Nat
      BY <1>1, <1>2
    <3> HIDE DEF T
    <3> QED
      BY <2>1, <3>1
  <2>3. {t \in T : \A u \in States(c) : r[u] = r[s] => t < u} = {t \in T : t < l}
    <3> HIDE DEF T
    <3> QED
      BY <2>2
  <2>4. b[s] = Cardinality({t \in T : \A u \in States(c) : r[u] = r[s] => t < u})
    BY DEF Canon
  <2> HIDE DEF T, b
  <2>5. b[s] = Rank(T, l)
    BY <2>3, <2>4 DEF Rank
  <2> QED
    BY <2>1, <2>5
<1> HIDE DEF T
<1>7. /\ Cardinality(T) \in Nat
      /\ \A o \in T : Rank(T, o) \in 0 .. Cardinality(T) - 1
      /\ \A o, p \in T : o < p => Rank(T, o) < Rank(T, p)
      /\ \A j \in 0 .. Cardinality(T) - 1 : \E o \in T : Rank(T, o) = j
  BY <1>2, RankFacts, Zenon
<1>4. ASSUME NEW s \in States(c), NEW j \in 0 .. b[s] - 1
      PROVE  \E t \in 0 .. s - 1 : b[t] = j
  <2> HIDE DEF b
  <2>1. PICK l \in T : r[l] = r[s] /\ l <= s /\ b[s] = Rank(T, l)
    BY <1>3
  <2>2. b[s] \in 0 .. Cardinality(T) - 1 /\ Cardinality(T) \in Nat
    BY <1>7, <2>1
  <2>3. j \in 0 .. Cardinality(T) - 1 /\ j < b[s]
    BY <2>2
  <2>4. PICK t \in T : Rank(T, t) = j
    BY <1>7, <2>3
  <2>5. t \in States(c)
    BY <1>2
  <2>6. b[t] = j
    <3>1. PICK m \in T : r[m] = r[t] /\ m <= t /\ b[t] = Rank(T, m)
      BY <1>3, <2>5
    <3>2. m = t
      <4>1. t \in T /\ m \in T /\ m \in 0 .. t /\ t \in Nat
        BY <1>2, <3>1
      <4>2. m \in 0 .. t - 1 => r[m] # r[t]
        BY <4>1 DEF T, FirstSeen
      <4> QED
        BY <3>1, <4>1, <4>2
    <3> QED
      BY <2>4, <3>1, <3>2
  <2>7. t < l
    <3>1. t \in Nat /\ l \in Nat
      BY <1>2
    <3>2. Rank(T, l) = b[s] /\ Rank(T, t) = j /\ b[s] \in Int /\ j \in Int
      BY <2>1, <2>2, <2>4
    <3>3. ~(l < t)
      BY <1>7, <2>1, <2>3, <2>4, <3>2
    <3>4. l # t
      BY <2>3, <3>2
    <3> QED
      BY <3>1, <3>3, <3>4
  <2>8. t \in 0 .. s - 1
    BY <1>1, <1>2, <2>1, <2>5, <2>7
  <2> QED
    BY <2>6, <2>8
<1>5. \A s \in States(c) : b[s] \in States(c)
  <2> TAKE s \in States(c)
  <2>1. PICK l \in T : b[s] = Rank(T, l)
    BY <1>3
  <2> HIDE DEF b
  <2>2. b[s] \in 0 .. Cardinality(T) - 1 /\ Cardinality(T) \in Nat
    BY <1>7, <2>1
  <2>3. Cardinality(T) <= Cardinality(States(c))
    BY <1>1, <1>2, FS_Subset
  <2>4. Cardinality(States(c)) = c.states
    <3>1. ASSUME NEW n \in Nat PROVE Cardinality(0 .. n - 1) = n
      <4>1. 0 \in Int /\ n - 1 \in Int
        OBVIOUS
      <4>2. Cardinality(0 .. n - 1) = IF 0 > n - 1 THEN 0 ELSE (n - 1) - 0 + 1
        BY <4>1, FS_Interval
      <4> QED
        BY <4>2
    <3> QED
      BY <1>1, <3>1
  <2> QED
    BY <1>1, <2>2, <2>3, <2>4
<1>6. b \in [States(c) -> States(c)]
  BY <1>5, CanonType
<1> QED
  BY <1>4, <1>6 DEF Numbered

\* Two numberings of the same blocks are one.
LEMMA NumberingIsUnique ==
  ASSUME NEW c, IsCore(c),
         NEW f \in [States(c) -> States(c)], NEW g \in [States(c) -> States(c)],
         Numbered(c, f), Numbered(c, g), Coarser(c, f, g), Coarser(c, g, f)
  PROVE  f = g
<1> SUFFICES ASSUME {s \in States(c) : f[s] # g[s]} # {} PROVE FALSE
  OBVIOUS
<1>1. States(c) \subseteq Nat /\ States(c) = 0 .. c.states - 1 /\ c.states \in Nat
  BY CoreFacts DEF States
<1> DEFINE Differ == {s \in States(c) : f[s] # g[s]}
<1>2. PICK s \in Differ : \A t \in Differ : s <= t
  <2>1. Differ \subseteq Nat /\ Differ # {}
    BY <1>1
  <2> HIDE DEF Differ
  <2> QED
    BY <2>1, LeastNatural
<1>3. s \in States(c) /\ s \in Nat /\ f[s] # g[s] /\ f[s] \in Nat /\ g[s] \in Nat
  BY <1>1, <1>2
<1>4. \A t \in 0 .. s - 1 : t \in States(c) /\ f[t] = g[t]
  <2> TAKE t \in 0 .. s - 1
  <2>1. t \in States(c) /\ ~(s <= t)
    BY <1>1, <1>3
  <2> QED
    BY <1>2, <2>1
<1>5. CASE f[s] < g[s]
  <2>1. f[s] \in 0 .. g[s] - 1
    BY <1>3, <1>5
  <2>2. PICK t \in 0 .. s - 1 : g[t] = f[s]
    BY <1>3, <2>1 DEF Numbered
  <2>3. f[t] = f[s] /\ t \in States(c)
    BY <1>4, <2>2
  <2> QED
    BY <1>3, <2>2, <2>3 DEF Coarser
<1>6. CASE g[s] < f[s]
  <2>1. g[s] \in 0 .. f[s] - 1
    BY <1>3, <1>6
  <2>2. PICK t \in 0 .. s - 1 : f[t] = g[s]
    BY <1>3, <2>1 DEF Numbered
  <2>3. g[t] = g[s] /\ t \in States(c)
    BY <1>4, <2>2
  <2> QED
    BY <1>3, <2>2, <2>3 DEF Coarser
<1> QED
  BY <1>3, <1>5, <1>6

\* The harvest's promise speaks of cores and partitions in the same words.
LEMMA SameWords ==
  /\ \A c : H!States(c) = States(c) /\ H!Classes(c) = Classes(c)
  /\ \A c : H!IsCore(c) <=> IsCore(c)
  /\ \A c, f : H!BlockCount(c, f) = BlockCount(c, f) /\ H!Threshold(c, f) = Threshold(c, f)
  /\ \A c, f : /\ H!Numbered(c, f) <=> Numbered(c, f)
               /\ H!Closed(c, f) <=> Closed(c, f)
               /\ H!Induces(c, f) <=> Induces(c, f)
  /\ \A c, f, g : /\ H!Coarser(c, f, g) <=> Coarser(c, f, g)
                  /\ H!Refines(c, f, g) <=> Refines(c, f, g)
<1>1. \A c : /\ H!States(c) = States(c) /\ H!Classes(c) = Classes(c)
             /\ H!IsCore(c) <=> IsCore(c)
  BY DEF H!States, States, H!Classes, Classes, H!IsCore, IsCore
<1>2. \A c, f : /\ H!BlockCount(c, f) = BlockCount(c, f)
                /\ H!Blocks(c, f) = Blocks(c, f)
                /\ \A b : H!BlockAccepts(c, f, b) <=> BlockAccepts(c, f, b)
  BY DEF H!States, States, H!BlockCount, BlockCount, H!Blocks, Blocks,
         H!BlockAccepts, BlockAccepts
<1>0. \A S : H!Cardinality(S) = Cardinality(S)
  BY DEF H!Cardinality, Cardinality
<1>3. \A c, f : /\ H!Rejecting(c, f) = Rejecting(c, f)
                /\ H!Threshold(c, f) = Threshold(c, f)
  <2> TAKE c, f
  <2>1. H!Blocks(c, f) = Blocks(c, f) /\ \A b : H!BlockAccepts(c, f, b) <=> BlockAccepts(c, f, b)
    BY <1>2
  <2>2. H!Rejecting(c, f) = Rejecting(c, f)
    BY <2>1 DEF H!Rejecting, Rejecting
  <2> QED
    BY <1>0, <2>2 DEF H!Threshold, Threshold
<1>4. \A c, f, b : H!Relabel(c, f, b) = Relabel(c, f, b)
  <2> TAKE c, f, b
  <2>1. /\ H!Blocks(c, f) = Blocks(c, f) /\ H!Rejecting(c, f) = Rejecting(c, f)
        /\ H!Threshold(c, f) = Threshold(c, f)
        /\ H!BlockAccepts(c, f, b) <=> BlockAccepts(c, f, b)
    BY <1>2, <1>3
  <2> QED
    BY <1>0, <2>1 DEF H!Relabel, Relabel
<1>5. \A c, f, s : H!Home(c, f, s) = Home(c, f, s)
  BY <1>4 DEF H!Home, Home
<1>6. \A c, f : /\ H!Agrees(c, f) <=> Agrees(c, f)
                /\ H!Filled(c, f) <=> Filled(c, f)
  BY <1>1, <1>2, <1>5 DEF H!Agrees, Agrees, H!Filled, Filled, H!Step, Step
<1>7. \A c, f : H!Induces(c, f) <=> Induces(c, f)
  BY <1>2, <1>3, <1>5, <1>6 DEF H!Induces, Induces
<1>8. \A c, f : /\ H!Numbered(c, f) <=> Numbered(c, f)
                /\ H!Closed(c, f) <=> Closed(c, f)
  BY <1>1 DEF H!Numbered, Numbered, H!Closed, Closed, H!Step, Step
<1>9. \A c, f, g : /\ H!Coarser(c, f, g) <=> Coarser(c, f, g)
                   /\ H!Refines(c, f, g) <=> Refines(c, f, g)
  BY <1>1 DEF H!Coarser, Coarser, H!Refines, Refines
<1> QED
  BY <1>1, <1>2, <1>3, <1>7, <1>8, <1>9

\* A finished closure, numbered, is the partition the promise names: the least closed
\* one above the pair.
LEMMA ContributesTheLeast ==
  ASSUME TypeOK, CloseIsLeast, Finished
  PROVE  H!LeastClosed(pair[1], pair[2]) = Canon(core, rep)
<1> DEFINE b == Canon(core, rep)
           A == H!Above(pair[1], pair[2])
<1>1. /\ pair[1] \in States(core) /\ pair[2] \in States(core) /\ IsCore(core)
      /\ LeastAbove(rep, pair[1], pair[2])
  BY DEF TypeOK, Finished, Pairs, CloseIsLeast
<1>2. LeastAbove(b, pair[1], pair[2])
  BY <1>1, CanonIsLeast
<1>3. b \in [States(core) -> States(core)] /\ Numbered(core, b)
  BY <1>1, CanonIsNumbered
<1>4. \A f : f \in A <=> /\ f \in [States(core) -> States(core)] /\ f[pair[1]] = f[pair[2]]
                         /\ Numbered(core, f) /\ Closed(core, f)
  BY SameWords DEF H!Above
<1>5. H!LeastClosed(pair[1], pair[2]) = CHOOSE f \in A : \A g \in A : Coarser(core, g, f)
  BY SameWords DEF H!LeastClosed
<1> HIDE DEF b, A
<1>6. b \in A /\ \A g \in A : Coarser(core, g, b)
  BY <1>2, <1>3, <1>4 DEF LeastAbove, Labellings
<1>7. \A f \in A : (\A g \in A : Coarser(core, g, f)) => f = b
  <2> SUFFICES ASSUME NEW f \in A, \A g \in A : Coarser(core, g, f) PROVE f = b
    OBVIOUS
  <2>1. Coarser(core, b, f) /\ Coarser(core, f, b)
    BY <1>6
  <2> QED
    BY <1>1, <1>3, <1>4, <2>1, NumberingIsUnique
<1>8. (CHOOSE f \in A : \A g \in A : Coarser(core, g, f)) = b
  BY <1>6, <1>7
<1> QED
  BY <1>5, <1>8 DEF b

\* A partition into ids that are states' ids has a largest one.
LEMMA CountsItsBlocks ==
  ASSUME NEW c, IsCore(c), NEW f \in [States(c) -> States(c)]
  PROVE  BlockCount(c, f) \in Nat \ {0} /\ Threshold(c, f) \in Nat
<1> DEFINE B == {f[s] : s \in States(c)}
<1>1. c.states - 1 \in Nat /\ States(c) = 0 .. c.states - 1 /\ 0 \in States(c)
  BY CoreFacts DEF States
<1>2. B \in SUBSET (0 .. c.states - 1) /\ B # {} /\ \A s \in States(c) : f[s] \in B
  BY <1>1
<1>3. BlockCount(c, f) = 1 + (CHOOSE b \in B : \A s \in States(c) : f[s] <= b)
  BY DEF BlockCount
<1>4. B \subseteq Nat /\ \A b \in B : (\A s \in States(c) : f[s] <= b) <=> \A y \in B : y <= b
  BY <1>1
<1> HIDE DEF B
<1>5. PICK m \in B : \A y \in B : y <= m
  BY <1>1, <1>2, GreatestNatural
<1>6. (CHOOSE b \in B : \A s \in States(c) : f[s] <= b) \in Nat
  BY <1>4, <1>5
<1>7. BlockCount(c, f) \in Nat \ {0}
  BY <1>3, <1>6
<1>8. IsFiniteSet(Rejecting(c, f))
  <2> DEFINE n == BlockCount(c, f) - 1
  <2>1. n \in Int /\ Rejecting(c, f) \in SUBSET (0 .. n)
    BY <1>7 DEF Rejecting, Blocks
  <2> HIDE DEF n
  <2>2. IsFiniteSet(0 .. n)
    BY <2>1, FS_Interval
  <2> QED
    BY <2>1, <2>2, FS_Subset
<1> QED
  BY <1>7, <1>8, FS_CardinalityType DEF Threshold

\* The score compares shares first and block counts second: with at most 16 blocks a
\* side, what the tie-break term can add is less than any difference between shares.
LEMMA ScoreIsShareThenBlocks ==
  ASSUME NEW a \in Int, NEW b \in 1 .. 16, NEW x \in Int, NEW y \in 1 .. 16
  PROVE  ScoreBelow(a, b, x, y) <=> \/ a * y < x * b
                                    \/ a * y = x * b /\ b > y
<1> DEFINE u == a * y
           v == x * b
           w == b * y
<1>1. u \in Int /\ v \in Int /\ w \in Int
  OBVIOUS
<1>2. 1 <= w /\ w <= 256
  <2>1. b \in 1 .. 16 /\ y \in 1 .. 16
    OBVIOUS
  <2>2. 1 * y <= b * y /\ b * y <= 16 * y
    OBVIOUS
  <2> QED
    BY <2>2
<1>3. /\ 10000 * a * y = 10000 * u /\ 10000 * x * b = 10000 * v
      /\ b * b * y = b * w /\ y * y * b = y * w
  OBVIOUS
<1>4. /\ 0 <= b * w /\ b * w <= 4096 /\ 0 <= y * w /\ y * w <= 4096
      /\ b * w \in Int /\ y * w \in Int
  BY <1>1, <1>2
<1>5. y * w < b * w <=> y < b
  <2>1. CASE y < b
    <3>1. y + 1 <= b
      BY <2>1
    <3>2. (y + 1) * w <= b * w /\ (y + 1) * w = y * w + w
      BY <3>1, <1>1, <1>2
    <3> QED
      BY <2>1, <3>2, <1>1, <1>2, <1>4
  <2>2. CASE b <= y
    <3>1. b * w <= y * w
      BY <2>2, <1>1, <1>2
    <3> QED
      BY <2>2, <3>1, <1>4
  <2> QED
    BY <2>1, <2>2
<1>6. ScoreBelow(a, b, x, y) <=> 10000 * u - b * w < 10000 * v - y * w
  BY <1>3 DEF ScoreBelow
<1> DEFINE p == b * w
           q == y * w
<1>7. p \in 0 .. 4096 /\ q \in 0 .. 4096 /\ (q < p <=> y < b)
  BY <1>4, <1>5
<1> HIDE DEF u, v, w, p, q
<1>8. 10000 * u - p < 10000 * v - q <=> u < v \/ (u = v /\ q < p)
  BY <1>1, <1>7, SMTT(30)
<1>9. ScoreBelow(a, b, x, y) <=> 10000 * u - p < 10000 * v - q
  BY <1>6 DEF p, q
<1>10. b > y <=> y < b
  OBVIOUS
<1> QED
  BY <1>7, <1>8, <1>9, <1>10 DEF u, v

\* The candidates' ids are states' ids: `close` numbers blocks from the first state.
KeptNumbered == \A i \in DOMAIN kept : kept[i] \in [States(core) -> States(core)]

\* The order the sort puts two candidates in is the order of the promise.
LEMMA AheadIsBefore ==
  ASSUME TypeOK, KeptClosed, KeptNumbered, NEW i \in DOMAIN kept, NEW j \in DOMAIN kept
  PROVE  Ahead(i, j) <=> H!Before(kept[i], kept[j])
<1>1. \A f, g : H!RankedBefore(f, g) <=>
        LET a == Accepting(core, f)  b == BlockCount(core, f)
            x == Accepting(core, g)  y == BlockCount(core, g)
        IN a * y < x * b \/ (a * y = x * b /\ b > y)
  BY SameWords DEF H!RankedBefore, H!Ratio, Accepting
<1>2. ASSUME NEW l \in DOMAIN kept
      PROVE  BlockCount(core, kept[l]) \in 1 .. 16 /\ Accepting(core, kept[l]) \in Int
  <2>1. BlockCount(core, kept[l]) \in Nat \ {0} /\ Threshold(core, kept[l]) \in Nat
    BY CountsItsBlocks DEF TypeOK, KeptNumbered
  <2>2. BlockCount(core, kept[l]) <= Lanes /\ Lanes <= 16 /\ Lanes \in Nat
    BY LanesAssumption, WidthAssumption DEF KeptClosed, Induces
  <2> QED
    BY <2>1, <2>2 DEF Accepting
<1>3. ASSUME NEW l \in DOMAIN kept, NEW m \in DOMAIN kept
      PROVE  Better(core, kept[l], kept[m]) <=> H!RankedBefore(kept[l], kept[m])
  <2> DEFINE a == Accepting(core, kept[l])
             b == BlockCount(core, kept[l])
             x == Accepting(core, kept[m])
             y == BlockCount(core, kept[m])
  <2>1. a \in Int /\ b \in 1 .. 16 /\ x \in Int /\ y \in 1 .. 16
    BY <1>2
  <2>2. Better(core, kept[l], kept[m]) <=> ScoreBelow(a, b, x, y)
    BY DEF Better
  <2>3. H!RankedBefore(kept[l], kept[m]) <=> a * y < x * b \/ (a * y = x * b /\ b > y)
    BY <1>1
  <2> HIDE DEF a, b, x, y
  <2>4. ScoreBelow(a, b, x, y) <=> a * y < x * b \/ (a * y = x * b /\ b > y)
    BY <2>1, ScoreIsShareThenBlocks
  <2> QED
    BY <2>2, <2>3, <2>4
<1>4. \A l \in DOMAIN kept : H!Found(kept[l]) = l
  BY DEF H!Found, KeptClosed
<1> QED
  BY <1>3, <1>4 DEF Ahead, H!Before

\* What `select` has done with the candidates it visited: `at` says which of them the
\* conjuncts are.  They are in order and none is refined by an earlier one; one passed
\* over is refined by a conjunct ahead of it; the rest are all behind the conjuncts.
Picks(at) ==
  /\ at \in [1 .. Len(chosen) -> DOMAIN kept]
  /\ \A i \in 1 .. Len(chosen) : at[i] \notin rest /\ chosen[i] = kept[at[i]]
  /\ \A i, j \in 1 .. Len(chosen) :
       i < j => Ahead(at[i], at[j]) /\ ~Refines(core, chosen[i], chosen[j])
  /\ \A v \in DOMAIN kept \ rest :
       \E j \in 1 .. Len(chosen) :
         at[j] = v \/ (Ahead(at[j], v) /\ Refines(core, chosen[j], kept[v]))
  /\ \A j \in 1 .. Len(chosen), v \in rest : Ahead(at[j], v)

SelectInv ==
  /\ KeptNumbered
  /\ pc \in {"sweep", "pop", "push"} => chosen = <<>>
  /\ Len(chosen) <= MaxConjuncts
  /\ pc \in {"select", "done"} => \E at : Picks(at)

\* Nothing is visited when `select` starts.
LEMMA NothingPicked ==
  ASSUME chosen' = <<>>, rest' = DOMAIN kept'
  PROVE  \E at : Picks(at)'
<1>t. PICK none : none = [i \in 1 .. 0 |-> 0]
  OBVIOUS
<1>1. Len(chosen') = 0 /\ none \in [1 .. Len(chosen') -> DOMAIN kept'] /\ 1 .. Len(chosen') = {}
  BY <1>t
<1>2. Picks(none)'
  BY <1>1 DEF Picks
<1> QED
  BY <1>2

\* The foremost of the rest is as good as the conjunction can go on with.
LEMMA TakeKeepsPicks ==
  ASSUME TypeOK, Take, NEW at, Picks(at)
  PROVE  \E to : Picks(to)'
<1>1. PICK i \in rest : /\ Foremost(i) /\ ~Redundant(kept[i])
                        /\ chosen' = Append(chosen, kept[i]) /\ rest' = rest \ {i}
  BY DEF Take
<1>2. core' = core /\ kept' = kept /\ i \in DOMAIN kept /\ rest \subseteq DOMAIN kept
  BY DEF Take, TypeOK
<1>n. PICK n : n = Len(chosen)
  OBVIOUS
<1>t. PICK to : to = [j \in 1 .. n + 1 |-> IF j = n + 1 THEN i ELSE at[j]]
  OBVIOUS
<1>3. /\ n \in Nat /\ DOMAIN chosen = 1 .. n
      /\ Len(chosen') = n + 1
      /\ chosen'[n + 1] = kept[i]
      /\ \A j \in 1 .. n : chosen'[j] = chosen[j]
  <2>1. chosen \in Seq([States(core) -> Nat]) /\ kept[i] \in [States(core) -> Nat]
    BY <1>2, ElementOfSeq, LenProperties DEF TypeOK
  <2> QED
    BY <1>n, <1>1, <2>1, AppendProperties, LenProperties
<1>4. /\ at \in [1 .. n -> DOMAIN kept]
      /\ \A j \in 1 .. n : at[j] \notin rest /\ chosen[j] = kept[at[j]]
      /\ \A j, l \in 1 .. n :
           j < l => Ahead(at[j], at[l]) /\ ~Refines(core, chosen[j], chosen[l])
      /\ \A v \in DOMAIN kept \ rest :
           \E j \in 1 .. n : at[j] = v \/ (Ahead(at[j], v) /\ Refines(core, chosen[j], kept[v]))
      /\ \A j \in 1 .. n, v \in rest : Ahead(at[j], v)
  BY <1>n DEF Picks
<1>5. \A x, y : Ahead(x, y)' <=> Ahead(x, y)
  BY <1>2 DEF Ahead
<1>6. /\ \A j \in 1 .. n : j \in 1 .. n + 1 /\ to[j] = at[j]
      /\ n + 1 \in 1 .. n + 1 /\ to[n + 1] = i
      /\ \A j \in 1 .. n + 1 : j \in 1 .. n \/ j = n + 1
      /\ \A j, l \in 1 .. n + 1 : j < l => j \in 1 .. n
  BY <1>t, <1>3
<1>7. to \in [1 .. n + 1 -> DOMAIN kept]
  BY <1>t, <1>2, <1>3, <1>4
<1>8. \A j \in 1 .. n + 1 : to[j] \notin rest' /\ chosen'[j] = kept[to[j]]
  BY <1>1, <1>3, <1>4, <1>6
<1>9. ASSUME NEW j \in 1 .. n + 1, NEW l \in 1 .. n + 1, j < l
      PROVE  Ahead(to[j], to[l]) /\ ~Refines(core, chosen'[j], chosen'[l])
  <2>1. j \in 1 .. n
    BY <1>6, <1>9
  <2>2. CASE l = n + 1
    BY <1>1, <1>3, <1>4, <1>6, <2>1, <2>2 DEF Redundant
  <2>3. CASE l \in 1 .. n
    BY <1>3, <1>4, <1>6, <1>9, <2>1, <2>3
  <2> QED
    BY <1>6, <2>2, <2>3
<1>10. ASSUME NEW v \in DOMAIN kept \ rest'
       PROVE  \E j \in 1 .. n + 1 :
                to[j] = v \/ (Ahead(to[j], v) /\ Refines(core, chosen'[j], kept[v]))
  <2>1. CASE v = i
    BY <1>6, <2>1
  <2>2. CASE v # i
    <3>1. v \in DOMAIN kept \ rest
      BY <1>1, <2>2
    <3>2. PICK j \in 1 .. n : at[j] = v \/ (Ahead(at[j], v) /\ Refines(core, chosen[j], kept[v]))
      BY <1>4, <3>1
    <3> QED
      BY <1>3, <1>6, <3>2
  <2> QED
    BY <2>1, <2>2
<1>11. ASSUME NEW j \in 1 .. n + 1, NEW v \in rest' PROVE Ahead(to[j], v)
  <2>1. v \in rest \ {i}
    BY <1>1
  <2>2. Ahead(i, v)
    BY <1>1, <2>1 DEF Foremost
  <2> QED
    BY <1>4, <1>6, <2>1, <2>2
<1>12. Picks(to)'
  BY <1>2, <1>3, <1>5, <1>7, <1>8, <1>9, <1>10, <1>11 DEF Picks
<1> QED
  BY <1>12

\* What is passed over is refined by a conjunct, and every conjunct is ahead of it.
LEMMA PassOverKeepsPicks ==
  ASSUME TypeOK, PassOver, NEW at, Picks(at)
  PROVE  Picks(at)'
<1>1. PICK i \in rest : Redundant(kept[i]) /\ rest' = rest \ {i}
  BY DEF PassOver
<1>2. UNCHANGED <<core, kept, chosen>>
  BY DEF PassOver
<1>3. PICK j \in DOMAIN chosen : Refines(core, chosen[j], kept[i])
  BY <1>1 DEF Redundant
<1>4. j \in 1 .. Len(chosen)
  BY LenProperties DEF TypeOK
<1>5. Ahead(at[j], i)
  BY <1>4 DEF Picks
<1>6. \A x, y : Ahead(x, y)' <=> Ahead(x, y)
  BY <1>2 DEF Ahead
<1>7. \A v \in DOMAIN kept \ rest' :
        \E l \in 1 .. Len(chosen) :
          at[l] = v \/ (Ahead(at[l], v) /\ Refines(core, chosen[l], kept[v]))
  <2> TAKE v \in DOMAIN kept \ rest'
  <2>1. v = i \/ v \in DOMAIN kept \ rest
    BY <1>1
  <2>2. CASE v = i
    BY <1>3, <1>4, <1>5, <2>2
  <2>3. CASE v \in DOMAIN kept \ rest
    BY <2>3 DEF Picks
  <2> QED
    BY <2>1, <2>2, <2>3
<1>8. /\ at \in [1 .. Len(chosen) -> DOMAIN kept]
      /\ \A l \in 1 .. Len(chosen) : at[l] \notin rest' /\ chosen[l] = kept[at[l]]
      /\ \A l, m \in 1 .. Len(chosen) :
           l < m => Ahead(at[l], at[m]) /\ ~Refines(core, chosen[l], chosen[m])
      /\ \A l \in 1 .. Len(chosen), v \in rest' : Ahead(at[l], v)
  BY <1>1 DEF Picks
<1> QED
  BY <1>2, <1>6, <1>7, <1>8 DEF Picks

\* In every reachable state the conjunction is a fair selection from what was visited.
THEOREM SelectsFromTheFront == Spec => []SelectInv
<1>1. Init => SelectInv
  BY BoundsAssumption DEF Init, SelectInv, KeptNumbered
<1>2. TypeOK /\ SelectInv /\ [Next]_vars => SelectInv'
  <2> SUFFICES ASSUME TypeOK, SelectInv, [Next]_vars PROVE SelectInv'
    OBVIOUS
  <2>0. Len(chosen) \in Nat /\ MaxConjuncts \in Nat
    BY BoundsAssumption, LenProperties DEF TypeOK
  <2>1. ASSUME UNCHANGED <<core, kept>> PROVE KeptNumbered'
    BY <2>1 DEF SelectInv, KeptNumbered
  <2>2. ASSUME UNCHANGED <<core, kept, chosen>>, pc \in {"sweep", "pop", "push"},
               \/ pc' \in {"sweep", "pop", "push"}
               \/ pc' = "select" /\ rest' = DOMAIN kept'
        PROVE  SelectInv'
    <3>1. chosen = <<>> /\ chosen' = <<>>
      BY <2>2 DEF SelectInv
    <3>2. CASE pc' \in {"sweep", "pop", "push"}
      BY <2>0, <2>1, <2>2, <3>1, <3>2 DEF SelectInv
    <3>3. CASE pc' = "select" /\ rest' = DOMAIN kept'
      <4>1. \E at : Picks(at)'
        BY <2>2, <3>1, <3>3, NothingPicked
      <4> QED
        BY <2>0, <2>1, <2>2, <3>3, <4>1 DEF SelectInv
    <3> QED
      BY <2>2, <3>2, <3>3
  <2>3. CASE Open \/ PopMerged \/ Push \/ Discard \/ EndSweep
    BY <2>2, <2>3 DEF Open, PopMerged, Push, Discard, EndSweep, Finished, TypeOK
  <2>4. CASE PopJoin
    BY <2>2, <2>4 DEF PopJoin
  <2>5. CASE Keep
    <3> DEFINE block == Canon(core, rep)
    <3>1. /\ core' = core /\ kept' = Append(kept, block) /\ chosen' = chosen /\ pc = "pop"
          /\ \/ pc' = "sweep"
             \/ pc' = "select" /\ rest' = DOMAIN kept'
      BY <2>5 DEF Keep, Finished
    <3>2. block \in [States(core) -> States(core)]
      BY CanonIsNumbered DEF TypeOK
    <3>3. block \in [States(core) -> Nat] /\ kept \in Seq([States(core) -> Nat])
      BY CanonType DEF TypeOK
    <3> HIDE DEF block
    <3>4. \A i \in DOMAIN kept' :
            kept'[i] = block \/ (i \in DOMAIN kept /\ kept'[i] = kept[i])
      BY <3>1, <3>3, AppendProperties, LenProperties
    <3>5. KeptNumbered'
      BY <3>1, <3>2, <3>4 DEF SelectInv, KeptNumbered
    <3>6. chosen = <<>> /\ chosen' = <<>>
      BY <3>1 DEF SelectInv
    <3>7. CASE pc' = "sweep"
      BY <2>0, <3>1, <3>5, <3>6, <3>7 DEF SelectInv
    <3>8. CASE pc' = "select" /\ rest' = DOMAIN kept'
      <4>1. \E at : Picks(at)'
        BY <3>1, <3>6, <3>8, NothingPicked
      <4> QED
        BY <2>0, <3>1, <3>5, <3>8, <4>1 DEF SelectInv
    <3> QED
      BY <3>1, <3>7, <3>8
  <2>6. CASE Take
    <3>1. PICK at : Picks(at)
      BY <2>6 DEF Take, Choosing, SelectInv
    <3>2. \E to : Picks(to)'
      BY <2>6, <3>1, TakeKeepsPicks
    <3>3. PICK i \in rest : chosen' = Append(chosen, kept[i])
      BY <2>6 DEF Take
    <3>4. Len(chosen') = Len(chosen) + 1 /\ Len(chosen) < MaxConjuncts
      <4>1. chosen \in Seq([States(core) -> Nat]) /\ kept[i] \in [States(core) -> Nat]
        BY <3>3, ElementOfSeq, LenProperties DEF TypeOK
      <4> QED
        BY <2>6, <3>3, <4>1, AppendProperties DEF Take, Choosing
    <3>5. pc' = "select" /\ KeptNumbered'
      BY <2>1, <2>6 DEF Take, Choosing
    <3> QED
      BY <2>0, <3>2, <3>4, <3>5 DEF SelectInv
  <2>7. CASE PassOver
    <3>1. PICK at : Picks(at)
      BY <2>7 DEF PassOver, Choosing, SelectInv
    <3>2. \E to : Picks(to)'
      BY <2>7, <3>1, PassOverKeepsPicks
    <3>3. pc' = "select" /\ KeptNumbered' /\ chosen' = chosen
      BY <2>1, <2>7 DEF PassOver, Choosing
    <3> QED
      BY <3>2, <3>3 DEF SelectInv
  <2>8. CASE Finish \/ UNCHANGED vars
    <3>1. /\ UNCHANGED <<core, kept, rest, chosen>>
          /\ pc' = pc \/ (pc = "select" /\ pc' = "done")
      BY <2>8 DEF Finish, vars
    <3>2. \A at : Picks(at)' <=> Picks(at)
      BY <3>1 DEF Picks, Ahead
    <3>3. KeptNumbered'
      BY <2>1, <3>1
    <3> QED
      BY <3>1, <3>2, <3>3 DEF SelectInv
  <2> QED
    BY <2>3, <2>4, <2>5, <2>6, <2>7, <2>8 DEF Next
<1> QED
  BY <1>1, <1>2, Typing, PTL DEF Spec

\* Whatever ends the selection, nothing the promise asks for is left out.
LEMMA FinishAnswersTheConjunction ==
  ASSUME TypeOK, KeptClosed, SelectInv, Finish
  PROVE  \E n \in 0 .. MaxConjuncts :
           \E at \in [1 .. n -> DOMAIN kept] :
             chosen = [i \in 1 .. n |-> kept[at[i]]] /\ H!Conjunction(chosen)
<1>1. PICK at : Picks(at)
  BY DEF Finish, SelectInv
<1> DEFINE n == Len(chosen)
<1>2. n \in 0 .. MaxConjuncts /\ DOMAIN chosen = 1 .. n
      /\ chosen \in [1 .. n -> [States(core) -> Nat]]
  BY BoundsAssumption, LenProperties DEF TypeOK, SelectInv
<1>3. /\ at \in [1 .. n -> DOMAIN kept]
      /\ \A i \in 1 .. n : chosen[i] = kept[at[i]]
  BY <1>1 DEF Picks
<1>4. chosen = [i \in 1 .. n |-> kept[at[i]]]
  BY <1>2, <1>3
<1>5. \A i, j \in DOMAIN kept : Ahead(i, j) <=> H!Before(kept[i], kept[j])
  BY AheadIsBefore DEF SelectInv
<1>6. ASSUME NEW i \in DOMAIN chosen, NEW j \in DOMAIN chosen, i < j
      PROVE  H!Before(chosen[i], chosen[j]) /\ ~H!Refines(core, chosen[i], chosen[j])
  <2>1. Ahead(at[i], at[j]) /\ ~Refines(core, chosen[i], chosen[j])
    BY <1>1, <1>2, <1>6 DEF Picks
  <2>2. H!Before(kept[at[i]], kept[at[j]])
    BY <1>2, <1>3, <1>5, <2>1
  <2> QED
    BY <1>2, <1>3, <2>1, <2>2, SameWords
<1>7. ASSUME NEW v \in DOMAIN kept, kept[v] \notin H!Chosen(chosen)
      PROVE  \/ \E j \in DOMAIN chosen :
                  H!Before(chosen[j], kept[v]) /\ H!Refines(core, chosen[j], kept[v])
             \/ /\ Len(chosen) = MaxConjuncts
                /\ \A j \in DOMAIN chosen : H!Before(chosen[j], kept[v])
  <2>1. CASE v \in rest
    <3>1. Len(chosen) = MaxConjuncts
      BY <2>1 DEF Finish
    <3>2. \A j \in 1 .. n : Ahead(at[j], v)
      BY <1>1, <2>1 DEF Picks
    <3>3. \A j \in 1 .. n : H!Before(chosen[j], kept[v])
      BY <1>3, <1>5, <3>2
    <3> QED
      BY <1>2, <3>1, <3>3
  <2>2. CASE v \notin rest
    <3>1. PICK j \in 1 .. n : at[j] = v \/ (Ahead(at[j], v) /\ Refines(core, chosen[j], kept[v]))
      BY <1>1, <2>2 DEF Picks
    <3>2. at[j] # v
      BY <1>2, <1>3, <1>7 DEF H!Chosen
    <3>3. H!Before(chosen[j], kept[v]) /\ H!Refines(core, chosen[j], kept[v])
      BY <1>3, <1>5, <3>1, <3>2, SameWords
    <3> QED
      BY <1>2, <3>3
  <2> QED
    BY <2>1, <2>2
<1>8. H!Conjunction(chosen)
  BY <1>6, <1>7 DEF H!Conjunction
<1> HIDE DEF n
<1> QED
  BY <1>2, <1>3, <1>4, <1>8

\* What the promise sees of the loop that keeps it.
PhaseSeen == CASE pc = "done" -> "done" [] pc = "select" -> "over" [] OTHER -> "sweeping"
ChosenSeen == IF pc = "done" THEN chosen ELSE <<>>

LEMMA SeenFacts ==
  ASSUME TypeOK
  PROVE  /\ pc \in {"sweep", "pop", "push"} => PhaseSeen = "sweeping"
         /\ pc = "select" => PhaseSeen = "over"
         /\ pc = "done" => PhaseSeen = "done"
         /\ pc # "done" => ChosenSeen = <<>>
         /\ pc = "done" => ChosenSeen = chosen
BY DEF TypeOK, PhaseSeen, ChosenSeen

\* A step of the harvest is a step of the promise, or one it does not see.
LEMMA StepIsPromised ==
  ASSUME TypeOK, TypeOK', CloseIsLeast, KeptClosed, SelectInv, [Next]_vars
  PROVE  [H!Next]_(H!absVars)
<1>1. /\ pc \in {"sweep", "pop", "push"} => PhaseSeen = "sweeping"
      /\ pc = "select" => PhaseSeen = "over"
      /\ pc = "done" => PhaseSeen = "done"
      /\ pc # "done" => ChosenSeen = <<>>
      /\ pc = "done" => ChosenSeen = chosen
  BY SeenFacts
<1>2. /\ pc' \in {"sweep", "pop", "push"} => PhaseSeen' = "sweeping"
      /\ pc' = "select" => PhaseSeen' = "over"
      /\ pc' = "done" => PhaseSeen' = "done"
      /\ pc' # "done" => ChosenSeen' = <<>>
      /\ pc' = "done" => ChosenSeen' = chosen'
  BY DEF TypeOK, PhaseSeen, ChosenSeen
<1>3. ASSUME UNCHANGED <<core, pair, kept, PhaseSeen, ChosenSeen>>
      PROVE  UNCHANGED H!absVars
  BY <1>3 DEF H!absVars, PhaseSeen, ChosenSeen
<1>4. ASSUME PhaseSeen = "sweeping", PhaseSeen' = "over",
             UNCHANGED <<core, pair, kept, ChosenSeen>>
      PROVE  H!Next
  <2>1. H!Stop
    BY <1>4 DEF H!Stop, PhaseSeen, ChosenSeen
  <2> QED
    BY <2>1 DEF H!Next
<1>5. ASSUME UNCHANGED <<core, pair, kept>>, pc \in {"sweep", "pop", "push"},
             pc' \in {"sweep", "pop", "push", "select"}
      PROVE  [H!Next]_(H!absVars)
  <2>1. CASE pc' = "select"
    BY <1>1, <1>2, <1>4, <1>5, <2>1
  <2>2. CASE pc' # "select"
    BY <1>1, <1>2, <1>3, <1>5, <2>2
  <2> QED
    BY <2>1, <2>2
<1>6. CASE Open \/ PopMerged \/ PopJoin \/ Push \/ EndSweep
  BY <1>5, <1>6 DEF Open, PopMerged, PopJoin, Push, EndSweep
<1>7. CASE Keep \/ Discard
  <2> DEFINE f == Canon(core, rep)
  <2>1. /\ Finished /\ core' = core /\ chosen' = chosen /\ pc = "pop"
        /\ pair[2] < core.states /\ pair' = H!PairAfter
    <3>1. /\ Finished /\ core' = core /\ chosen' = chosen /\ pair' = PairAfter(pair)
      BY <1>7 DEF Keep, Discard
    <3>2. pc = "pop" /\ pair[2] \in States(core) /\ core.states \in Nat
      BY <3>1, CoreFacts DEF Finished, TypeOK, Pairs
    <3> QED
      BY <3>1, <3>2 DEF PairAfter, H!PairAfter, States
  <2>2. H!LeastClosed(pair[1], pair[2]) = f
    BY <2>1, ContributesTheLeast
  <2>3. f \in [States(core) -> Nat] /\ kept \in Seq([States(core) -> Nat])
    BY CanonType DEF TypeOK
  <2>4. H!Usable(f) /\ ~H!Holds(f) <=> Worth(f)
    BY SameWords DEF H!Usable, H!Holds, Worth, Induces
  <2> HIDE DEF f
  <2>5. Len(kept) \in Nat /\ Len(Append(kept, f)) = Len(kept) + 1
    BY <2>3, AppendProperties, LenProperties
  <2>6. ASSUME kept' = IF H!Usable(f) /\ ~H!Holds(f) THEN Append(kept, f) ELSE kept,
               PhaseSeen' = IF kept' # kept /\ Len(kept') = MaxCandidates
                            THEN "over" ELSE "sweeping",
               ChosenSeen' = ChosenSeen
        PROVE  H!Next
    <3>1. PhaseSeen = "sweeping"
      BY <1>1, <2>1
    <3>2. H!Consider
      BY <2>1, <2>2, <2>6, <3>1 DEF H!Consider, PhaseSeen, ChosenSeen
    <3> QED
      BY <3>2 DEF H!Next
  <2>7. CASE Keep
    <3>1. /\ Worth(f) /\ kept' = Append(kept, f)
          /\ pc' = IF Len(kept) + 1 = MaxCandidates THEN "select" ELSE "sweep"
      BY <2>7 DEF Keep, f
    <3>2. kept' # kept
      BY <2>5, <3>1
    <3>3. PhaseSeen' = IF Len(kept) + 1 = MaxCandidates THEN "over" ELSE "sweeping"
      BY <1>2, <3>1
    <3>4. ChosenSeen' = ChosenSeen
      BY <1>1, <1>2, <2>1, <3>1
    <3> QED
      BY <2>4, <2>5, <2>6, <3>1, <3>2, <3>3, <3>4
  <2>8. CASE Discard
    <3>1. ~Worth(f) /\ kept' = kept /\ pc' = "sweep"
      BY <2>8 DEF Discard, f
    <3> QED
      BY <1>1, <1>2, <2>1, <2>4, <2>6, <3>1
  <2> QED
    BY <1>7, <2>7, <2>8
<1>8. CASE Take \/ PassOver \/ UNCHANGED vars
  <2>1. /\ UNCHANGED <<core, pair, kept, pc>>
        /\ pc = "done" => chosen' = chosen
    BY <1>8 DEF Take, PassOver, Choosing, vars
  <2>2. PhaseSeen' = PhaseSeen /\ ChosenSeen' = ChosenSeen
    BY <2>1 DEF PhaseSeen, ChosenSeen
  <2> QED
    BY <1>3, <2>1, <2>2
<1>9. CASE Finish
  <2>1. UNCHANGED <<core, pair, kept, chosen>> /\ pc = "select" /\ pc' = "done"
    BY <1>9 DEF Finish
  <2>2. PhaseSeen = "over" /\ PhaseSeen' = "done" /\ ChosenSeen' = chosen
    BY <1>1, <1>2, <2>1
  <2>3. PICK n \in 0 .. MaxConjuncts :
          \E at \in [1 .. n -> DOMAIN kept] :
            chosen = [i \in 1 .. n |-> kept[at[i]]] /\ H!Conjunction(chosen)
    BY <1>9, FinishAnswersTheConjunction
  <2>4. PICK at \in [1 .. n -> DOMAIN kept] :
            chosen = [i \in 1 .. n |-> kept[at[i]]] /\ H!Conjunction(chosen)
    BY <2>3
  <2>5. ChosenSeen' = [i \in 1 .. n |-> kept[at[i]]] /\ H!Conjunction(ChosenSeen')
    BY <2>2, <2>4
  <2>6. H!Choose
    BY <2>1, <2>2, <2>5 DEF H!Choose, PhaseSeen, ChosenSeen
  <2> QED
    BY <2>6 DEF H!Next
<1> QED
  BY <1>6, <1>7, <1>8, <1>9 DEF Next

\* The forest, the stack, the budget, the scores and the greedy loop give what the
\* harvest promises, for any core, any budget and any bounds.
THEOREM ImplementsHarvestHolds == Spec => ImplementsHarvest
<1>1. Init => H!Init
  <2> SUFFICES ASSUME Init PROVE H!Init
    OBVIOUS
  <2>1. H!IsCore(core)
    BY CoresAssumption, SameWords DEF Init
  <2> QED
    BY <2>1 DEF Init, H!Init
<1>2. TypeOK /\ TypeOK' /\ CloseIsLeast /\ KeptClosed /\ SelectInv /\ [Next]_vars
        => [H!Next]_(H!absVars)
  BY StepIsPromised
<1> QED
  BY <1>1, <1>2, Typing, ClosesToTheLeast, KeepsOnlyClosed, SelectsFromTheFront, PTL
     DEF Spec, ImplementsHarvest, H!Spec

-----------------------------------------------------------------------------
(* The forest as it is kept.                                               *)

\* The parents p keep the blocks of r, and d is a height they descend along: the
\* parent of a state is in its block and lower, and the roots are the lowest.
Sits(r, p, d) ==
  \A s \in States(core) :
    /\ r[p[s]] = r[s]
    /\ p[s] = s <=> r[s] = s
    /\ p[s] # s => d[p[s]] < d[s]
    /\ r[s] = s => d[s] = 0

\* A label is the name of a state in its own block.
Rooted(r) == \A s \in States(core) : r[r[s]] = r[s]

Heights == [States(core) -> Nat]

\* Halving once keeps every block and every height, and comes nearer to the root.
LEMMA HalveKeeps ==
  ASSUME NEW c \in Climbs, NEW r \in Labellings, NEW d \in Heights, Sits(r, c.parent, d)
  PROVE  /\ Halve[c] \in Climbs
         /\ Sits(r, Halve[c].parent, d)
         /\ r[Halve[c].at] = r[c.at]
         /\ \/ r[Halve[c].at] = Halve[c].at
            \/ d[Halve[c].at] < d[c.at]
<1> DEFINE p == c.parent
           x == c.at
           grand == p[p[x]]
<1>1. p \in Labellings /\ x \in States(core) /\ p[x] \in States(core) /\ grand \in States(core)
  BY DEF Climbs, Labellings
<1>2. CASE p[x] = x
  <2>1. Halve[c] = c
    BY <1>2 DEF Halve
  <2>2. r[x] = x
    BY <1>1, <1>2 DEF Sits
  <2> QED
    BY <2>1, <2>2
<1>3. CASE p[x] # x
  <2> DEFINE p1 == [p EXCEPT ![x] = grand]
  <2>1. Halve[c] = [parent |-> p1, at |-> grand]
    BY <1>3 DEF Halve
  <2>2. p1 \in Labellings /\ Halve[c] \in Climbs
    BY <1>1, <2>1 DEF Climbs, Labellings
  <2>3. /\ r[grand] = r[p[x]] /\ r[p[x]] = r[x] /\ r[x] # x
        /\ d[p[x]] < d[x]
        /\ p[p[x]] = p[x] \/ d[grand] < d[p[x]]
    BY <1>1, <1>3 DEF Sits
  <2>4. d[x] \in Nat /\ d[p[x]] \in Nat /\ d[grand] \in Nat
    BY <1>1 DEF Heights
  <2>5. d[grand] < d[x] /\ grand # x
    BY <2>3, <2>4
  <2>6. ASSUME NEW s \in States(core)
        PROVE  /\ r[p1[s]] = r[s]
               /\ p1[s] = s <=> r[s] = s
               /\ p1[s] # s => d[p1[s]] < d[s]
               /\ r[s] = s => d[s] = 0
    <3>1. CASE s = x
      <4>1. p1[s] = grand
        BY <1>1, <3>1 DEF Labellings
      <4> HIDE DEF p1, grand, x, p
      <4> QED
        BY <2>3, <2>5, <3>1, <4>1
    <3>2. CASE s # x
      <4>1. p1[s] = p[s]
        BY <1>1, <3>2 DEF Labellings
      <4> QED
        BY <4>1 DEF Sits
    <3> QED
      BY <3>1, <3>2
  <2>7. Sits(r, p1, d)
    BY <2>6 DEF Sits
  <2> HIDE DEF p1, grand
  <2> QED
    BY <2>1, <2>2, <2>3, <2>5, <2>7
<1> QED
  BY <1>2, <1>3


\* A find ends at the root of the block it started in, and keeps every block.
LEMMA FindFacts ==
  ASSUME IsCore(core), NEW p \in Labellings, NEW x \in States(core),
         NEW r \in Labellings, Rooted(r), NEW d \in Heights, Sits(r, p, d),
         d[x] < core.states
  PROVE  /\ Find(p, x) \in Climbs
         /\ Sits(r, Find(p, x).parent, d)
         /\ Find(p, x).at = r[x]
<1> DEFINE n == core.states
           b == [parent |-> p, at |-> x]
<1>1. n \in Nat /\ n \in 0 .. n /\ b \in Climbs /\ Halve \in [Climbs -> Climbs]
  <2>1. n \in Nat
    BY DEF IsCore
  <2>2. ASSUME NEW c \in Climbs
        PROVE  Halve[c] \in Climbs
    <3>1. c.parent \in Labellings /\ c.at \in States(core)
      BY DEF Climbs
    <3>2. /\ c.parent[c.at] \in States(core)
          /\ c.parent[c.parent[c.at]] \in States(core)
      BY <3>1 DEF Labellings
    <3>3. CASE c.parent[c.at] = c.at
      BY <3>3 DEF Halve
    <3>4. CASE c.parent[c.at] # c.at
      <4>1. Halve[c] = [parent |-> [c.parent EXCEPT ![c.at] = c.parent[c.parent[c.at]]],
                        at |-> c.parent[c.parent[c.at]]]
        BY <3>4 DEF Halve
      <4> QED
        BY <3>1, <3>2, <4>1 DEF Climbs, Labellings
    <3> QED
      BY <3>3, <3>4
  <2>3. Halve = [c \in Climbs |-> Halve[c]]
    BY DEF Halve
  <2>4. b \in Climbs
    BY DEF Climbs
  <2> QED
    BY <2>1, <2>2, <2>3, <2>4
<1>2. PICK f : /\ Find(p, x) = f[n]
               /\ f \in [0 .. n -> Climbs]
               /\ f[0] = b
               /\ \A j \in 1 .. n : f[j] = Halve[f[j - 1]]
  <2> DEFINE f == CHOOSE g : g = [j \in 0 .. n |-> IF j = 0 THEN b ELSE Halve[g[j - 1]]]
  <2>1. Find(p, x) = f[n]
    BY DEF Find
  <2>2. PICK e : e = f
    OBVIOUS
  <2>3. Iterates(e, n, b, Halve)
    BY <2>2 DEF Iterates
  <2> HIDE DEF f
  <2>4. /\ e \in [0 .. n -> Climbs]
        /\ e[0] = b
        /\ \A j \in 1 .. n : e[j] = Halve[e[j - 1]]
    <3> HIDE DEF b, n
    <3> QED
      BY <1>1, <2>3, Iteration
  <2> QED
    BY <2>1, <2>2, <2>4
<1> DEFINE S == {j \in 0 .. n :
                   /\ Sits(r, f[j].parent, d)
                   /\ r[f[j].at] = r[x]
                   /\ r[f[j].at] = f[j].at \/ d[f[j].at] + j <= d[x]}
<1>3. d[x] \in Nat /\ b.parent = p /\ b.at = x
  BY DEF Heights
<1> HIDE DEF b
<1>4. 0 \in S
  BY <1>1, <1>2, <1>3
<1>5. ASSUME NEW j \in 0 .. n - 1, j \in S PROVE j + 1 \in S
  <2>1. j \in 0 .. n /\ j + 1 \in 1 .. n /\ j + 1 \in 0 .. n /\ (j + 1) - 1 = j /\ j \in Nat
    BY <1>1
  <2>2. PICK c : c = f[j]
    OBVIOUS
  <2>3. PICK h : h = Halve[c]
    OBVIOUS
  <2>4. f[j + 1] = h
    BY <1>2, <2>1, <2>2, <2>3
  <2>5. c \in Climbs /\ Sits(r, c.parent, d) /\ r[c.at] = r[x]
        /\ (r[c.at] = c.at \/ d[c.at] + j <= d[x])
    BY <1>2, <1>5, <2>1, <2>2
  <2>6. /\ h \in Climbs
        /\ Sits(r, h.parent, d)
        /\ r[h.at] = r[c.at]
        /\ r[h.at] = h.at \/ d[h.at] < d[c.at]
    BY <2>3, <2>5, HalveKeeps
  <2>7. d[c.at] \in Nat /\ d[h.at] \in Nat
    BY <2>5, <2>6 DEF Climbs, Heights
  <2>8. r[h.at] = h.at \/ d[h.at] + (j + 1) <= d[x]
    <3>1. CASE r[h.at] = h.at
      BY <3>1
    <3>2. CASE r[h.at] # h.at
      <4>1. d[h.at] < d[c.at]
        BY <2>6, <3>2
      <4>2. r[c.at] # c.at
        <5> SUFFICES ASSUME r[c.at] = c.at PROVE FALSE
          OBVIOUS
        <5>1. c.at \in States(core)
          BY <2>5 DEF Climbs
        <5>2. d[c.at] = 0
          BY <2>5, <5>1 DEF Sits
        <5> QED
          BY <2>7, <4>1, <5>2
      <4> QED
        BY <1>3, <2>1, <2>5, <2>7, <4>1, <4>2
    <3> QED
      BY <3>1, <3>2
  <2>9. /\ Sits(r, f[j + 1].parent, d)
        /\ r[f[j + 1].at] = r[x]
        /\ r[f[j + 1].at] = f[j + 1].at \/ d[f[j + 1].at] + (j + 1) <= d[x]
    BY <2>4, <2>5, <2>6, <2>8
  <2> QED
    BY <2>1, <2>9
<1>6. n \in S
  <2> HIDE DEF S, n
  <2>1. \A j \in 0 .. n : j \in S
    BY <1>1, <1>4, <1>5, UpTo
  <2> QED
    BY <1>1, <2>1
<1>7. f[n] \in Climbs
  BY <1>1, <1>2
<1>8. f[n].at \in States(core) /\ d[f[n].at] \in Nat
  BY <1>7 DEF Climbs, Heights
<1>9. r[f[n].at] = f[n].at
  BY <1>1, <1>3, <1>6, <1>8
<1> QED
  BY <1>2, <1>6, <1>7, <1>9


\* Climbing without halving ends there too.
LEMMA ClimbFacts ==
  ASSUME IsCore(core), NEW p \in Labellings, NEW x \in States(core),
         NEW r \in Labellings, Rooted(r), NEW d \in Heights, Sits(r, p, d),
         d[x] < core.states
  PROVE  Climb(p, x)[core.states] = r[x]
<1> DEFINE n == core.states
<1>1. n \in Nat /\ n \in 0 .. n
  BY DEF IsCore
<1>2. PICK f : /\ Climb(p, x) = f
               /\ f \in [0 .. n -> States(core)]
               /\ f[0] = x
               /\ \A j \in 1 .. n : f[j] = p[f[j - 1]]
  <2>1. PICK e : e = Climb(p, x)
    OBVIOUS
  <2>2. Iterates(e, n, x, p)
    BY <2>1 DEF Climb, Iterates
  <2>3. p \in [States(core) -> States(core)]
    BY DEF Labellings
  <2> HIDE DEF n
  <2>4. /\ e \in [0 .. n -> States(core)]
        /\ e[0] = x
        /\ \A j \in 1 .. n : e[j] = p[e[j - 1]]
    BY <1>1, <2>2, <2>3, Iteration
  <2> QED
    BY <2>1, <2>4
<1> DEFINE S == {j \in 0 .. n : r[f[j]] = r[x] /\ (r[f[j]] = f[j] \/ d[f[j]] + j <= d[x])}
<1>3. d[x] \in Nat
  BY DEF Heights
<1>4. 0 \in S
  BY <1>1, <1>2, <1>3
<1>5. ASSUME NEW j \in 0 .. n - 1, j \in S PROVE j + 1 \in S
  <2>1. j \in 0 .. n /\ j + 1 \in 1 .. n /\ j + 1 \in 0 .. n /\ (j + 1) - 1 = j /\ j \in Nat
    BY <1>1
  <2>2. PICK c \in States(core) : c = f[j]
    BY <1>2, <2>1
  <2>3. f[j + 1] = p[c] /\ p[c] \in States(core)
    BY <1>2, <2>1, <2>2 DEF Labellings
  <2>4. r[c] = r[x] /\ (r[c] = c \/ d[c] + j <= d[x])
    BY <1>5, <2>2
  <2>5. d[c] \in Nat /\ d[p[c]] \in Nat
    BY <2>3 DEF Heights
  <2>6. /\ r[p[c]] = r[c]
        /\ p[c] = c <=> r[c] = c
        /\ p[c] # c => d[p[c]] < d[c]
    BY DEF Sits
  <2>7. r[p[c]] = p[c] \/ d[p[c]] + (j + 1) <= d[x]
    <3>1. CASE r[c] = c
      BY <3>1, <2>6
    <3>2. CASE r[c] # c
      BY <3>2, <2>1, <2>4, <2>5, <2>6, <1>3
    <3> QED
      BY <3>1, <3>2
  <2> QED
    BY <2>1, <2>3, <2>4, <2>6, <2>7
<1>6. n \in S
  <2> HIDE DEF S, n
  <2>1. \A j \in 0 .. n : j \in S
    BY <1>1, <1>4, <1>5, UpTo
  <2> QED
    BY <1>1, <2>1
<1>7. f[n] \in States(core) /\ d[f[n]] \in Nat
  BY <1>1, <1>2 DEF Heights
<1>8. r[f[n]] = f[n]
  BY <1>1, <1>3, <1>6, <1>7
<1> QED
  BY <1>2, <1>6, <1>8

\* The forests that keep the blocks of r and descend along d.
Sitting(r, d) == {q \in Labellings : Sits(r, q, d)}

\* A find leaves such a forest such a forest.
LEMMA FindKeeps ==
  ASSUME IsCore(core), NEW r \in Labellings, Rooted(r), NEW d \in Heights,
         \A s \in States(core) : d[s] < core.states,
         NEW p \in Sitting(r, d), NEW x \in States(core)
  PROVE  Find(p, x).parent \in Sitting(r, d) /\ Find(p, x).at = r[x]
<1>1. p \in Labellings /\ Sits(r, p, d) /\ d[x] < core.states
  BY DEF Sitting
<1>2. PICK c : c = Find(p, x)
  OBVIOUS
<1>3. c \in Climbs /\ Sits(r, c.parent, d) /\ c.at = r[x]
  BY <1>1, <1>2, FindFacts
<1>4. c.parent \in Labellings
  BY <1>3 DEF Climbs
<1> QED
  BY <1>2, <1>3, <1>4 DEF Sitting

\* So do two, and one for every state.
LEMMA FindBothKeeps ==
  ASSUME IsCore(core), NEW r \in Labellings, Rooted(r), NEW d \in Heights,
         \A s \in States(core) : d[s] < core.states,
         NEW p \in Sitting(r, d), NEW x \in States(core), NEW y \in States(core)
  PROVE  FindBoth(p, x, y) \in Sitting(r, d)
<1>1. PICK q : q = Find(p, x).parent
  OBVIOUS
<1>2. q \in Sitting(r, d)
  BY <1>1, FindKeeps
<1>3. Find(q, y).parent \in Sitting(r, d)
  BY <1>2, FindKeeps
<1> QED
  BY <1>1, <1>3 DEF FindBoth

LEMMA FindAllKeeps ==
  ASSUME IsCore(core), NEW r \in Labellings, Rooted(r), NEW d \in Heights,
         \A s \in States(core) : d[s] < core.states,
         NEW p \in Sitting(r, d)
  PROVE  FindAll(p) \in Sitting(r, d)
<1> DEFINE n == core.states
           B == Sitting(r, d)
           row == [j \in 1 .. n |-> [q \in B |-> Find(q, j - 1).parent]]
           Is(f) == f = [s \in 0 .. n |-> IF s = 0 THEN p ELSE Find(f[s - 1], s - 1).parent]
<1>1. n \in Nat /\ n \in 0 .. n
  BY DEF IsCore
<1>2. ASSUME NEW q \in B, NEW j \in 1 .. n PROVE Find(q, j - 1).parent \in B
  <2>1. j - 1 \in States(core)
    BY <1>1 DEF States
  <2>2. PICK x \in States(core) : x = j - 1
    BY <2>1
  <2>3. Find(q, x).parent \in B
    BY FindKeeps
  <2> QED
    BY <2>2, <2>3
<1> HIDE DEF n, B
<1>3. row \in Rows(n, B)
  BY <1>2 DEF Rows
<1>4. p \in B
  BY DEF B
<1>5. PICK f \in [0 .. n -> B] : Fills(f, n, p, row)
  <2> HIDE DEF row
  <2> QED
    BY <1>1, <1>3, <1>4, FilledFromFront
<1>6. Is(f)
  <2>1. f[0] = p
    BY <1>5 DEF Fills
  <2>2. ASSUME NEW s \in 0 .. n
        PROVE  f[s] = IF s = 0 THEN p ELSE Find(f[s - 1], s - 1).parent
    <3>1. CASE s = 0
      BY <2>1, <3>1
    <3>2. CASE s # 0
      <4>1. s \in 1 .. n /\ s - 1 \in 0 .. n
        BY <1>1, <3>2
      <4>2. f[s - 1] \in B
        BY <4>1
      <4>3. f[s] = row[s][f[s - 1]]
        BY <1>5, <4>1 DEF Fills
      <4>4. row[s][f[s - 1]] = Find(f[s - 1], s - 1).parent
        BY <4>1, <4>2
      <4> QED
        BY <3>2, <4>3, <4>4
    <3> QED
      BY <3>1, <3>2
  <2> HIDE DEF row
  <2>3. f = [s \in 0 .. n |-> f[s]]
    OBVIOUS
  <2> QED
    BY <2>2, <2>3
<1>7. PICK g : g = CHOOSE e : Is(e)
  OBVIOUS
<1>8. FindAll(p) = g[n]
  BY <1>7 DEF FindAll, n
<1>9. Is(g)
  <2> HIDE DEF Is
  <2> QED
    BY <1>6, <1>7
<1>10. n \in {j \in 0 .. n : g[j] \in B}
  <2> DEFINE S == {j \in 0 .. n : g[j] \in B}
  <2>1. \A s \in 0 .. n : g[s] = IF s = 0 THEN p ELSE Find(g[s - 1], s - 1).parent
    BY <1>9, Zenon
  <2>2. 0 \in S
    BY <1>1, <1>4, <2>1
  <2>3. ASSUME NEW j \in 0 .. n - 1, j \in S PROVE j + 1 \in S
    <3>1. j + 1 \in 1 .. n /\ j + 1 \in 0 .. n /\ j + 1 # 0 /\ (j + 1) - 1 = j
      BY <1>1
    <3>2. g[j + 1] = Find(g[j], j).parent
      <4>1. g[j + 1] = Find(g[(j + 1) - 1], (j + 1) - 1).parent
        BY <2>1, <3>1, Zenon
      <4> QED
        BY <3>1, <4>1
    <3>3. PICK q \in B : q = g[j]
      BY <2>3
    <3>4. PICK i : i = j + 1
      OBVIOUS
    <3>5. i \in 1 .. n /\ i - 1 = j
      BY <3>1, <3>4
    <3>6. Find(q, i - 1).parent \in B
      BY <1>2, <3>5
    <3>7. g[j + 1] \in B
      BY <3>2, <3>3, <3>5, <3>6
    <3> QED
      BY <3>1, <3>7
  <2>4. \A j \in 0 .. n : j \in S
    <3> HIDE DEF S
    <3> QED
      BY <1>1, <2>2, <2>3, UpTo
  <2> QED
    BY <1>1, <2>4
<1> QED
  BY <1>8, <1>10 DEF B


-----------------------------------------------------------------------------
\* A merge of two states of one block keeps blocks and heights.
LEMMA HangMerged ==
  ASSUME IsCore(core), NEW r \in Labellings, Rooted(r), NEW d \in Heights,
         \A s \in States(core) : d[s] < core.states,
         NEW p \in Sitting(r, d), NEW a \in States(core), NEW b \in States(core),
         r[a] = r[b]
  PROVE  Hang(p, a, b) \in Sitting(r, d)
<1>1. PICK ra : ra = Find(p, a)
  OBVIOUS
<1>2. ra.parent \in Sitting(r, d) /\ ra.at = r[a]
  BY <1>1, FindKeeps
<1>3. PICK rb : rb = Find(ra.parent, b)
  OBVIOUS
<1>4. rb.parent \in Sitting(r, d) /\ rb.at = r[b]
  BY <1>2, <1>3, FindKeeps
<1>5. Hang(p, a, b) = IF ra.at = rb.at THEN rb.parent ELSE [rb.parent EXCEPT ![ra.at] = rb.at]
  BY <1>1, <1>3 DEF Hang
<1> QED
  BY <1>2, <1>4, <1>5

\* The block that is hung below another gains one in height.
Raised(r, d, a) == [s \in States(core) |-> IF r[s] = r[a] THEN d[s] + 1 ELSE d[s]]

\* A merge of two blocks is what Lattice says it is.
LEMMA HangJoins ==
  ASSUME IsCore(core), NEW r \in Labellings, Rooted(r), NEW d \in Heights,
         \A s \in States(core) : d[s] < core.states,
         NEW p \in Sitting(r, d), NEW a \in States(core), NEW b \in States(core),
         r[a] # r[b]
  PROVE  /\ Rooted(Join(r, a, b))
         /\ Raised(r, d, a) \in Heights
         /\ Hang(p, a, b) \in Sitting(Join(r, a, b), Raised(r, d, a))
<1>1. PICK ra : ra = Find(p, a)
  OBVIOUS
<1>2. ra.parent \in Sitting(r, d) /\ ra.at = r[a]
  BY <1>1, FindKeeps
<1>3. PICK rb : rb = Find(ra.parent, b)
  OBVIOUS
<1>4. rb.parent \in Sitting(r, d) /\ rb.at = r[b]
  BY <1>2, <1>3, FindKeeps
<1>5. PICK q : q = rb.parent
  OBVIOUS
<1>6. Hang(p, a, b) = [q EXCEPT ![r[a]] = r[b]]
  <2>1. Hang(p, a, b) = IF ra.at = rb.at THEN q ELSE [q EXCEPT ![ra.at] = rb.at]
    BY <1>1, <1>3, <1>5 DEF Hang
  <2> QED
    BY <1>2, <1>4, <2>1
<1>7. q \in Labellings /\ Sits(r, q, d)
  BY <1>4, <1>5 DEF Sitting
<1>8. r[a] \in States(core) /\ r[b] \in States(core) /\ r[r[a]] = r[a] /\ r[r[b]] = r[b]
  BY DEF Labellings, Rooted
<1> DEFINE J == Join(r, a, b)
           e == Raised(r, d, a)
           h == [q EXCEPT ![r[a]] = r[b]]
<1>9. ASSUME NEW s \in States(core)
      PROVE  /\ J[s] = IF r[s] = r[a] THEN r[b] ELSE r[s]
             /\ e[s] = IF r[s] = r[a] THEN d[s] + 1 ELSE d[s]
             /\ h[s] = IF s = r[a] THEN r[b] ELSE q[s]
             /\ r[s] \in States(core) /\ r[r[s]] = r[s]
             /\ d[s] \in Nat
             /\ q[s] \in States(core) /\ h[s] \in States(core)
             /\ r[q[s]] = r[s]
             /\ q[s] = s <=> r[s] = s
             /\ q[s] # s => d[q[s]] < d[s]
             /\ r[s] = s => d[s] = 0
  <2>1. J[s] = IF r[s] = r[a] THEN r[b] ELSE r[s]
    BY DEF Join, Labellings
  <2>2. e[s] = IF r[s] = r[a] THEN d[s] + 1 ELSE d[s]
    BY DEF Raised
  <2>3. /\ r[s] \in States(core) /\ r[r[s]] = r[s]
        /\ d[s] \in Nat /\ q[s] \in States(core)
    BY <1>7 DEF Labellings, Rooted, Heights
  <2>4. h[s] = IF s = r[a] THEN r[b] ELSE q[s]
    BY <1>7 DEF Labellings
  <2>5. h[s] \in States(core)
    BY <1>8, <2>3, <2>4
  <2>6. /\ r[q[s]] = r[s]
        /\ q[s] = s <=> r[s] = s
        /\ q[s] # s => d[q[s]] < d[s]
        /\ r[s] = s => d[s] = 0
    BY <1>7 DEF Sits
  <2> HIDE DEF J, e, h
  <2> QED
    BY <2>1, <2>2, <2>3, <2>4, <2>5, <2>6
<1>10. Rooted(J)
  <2> HIDE DEF J, e, h
  <2>1. ASSUME NEW s \in States(core) PROVE J[J[s]] = J[s]
    <3>1. CASE r[s] = r[a]
      BY <1>8, <1>9, <3>1
    <3>2. CASE r[s] # r[a]
      <4>1. J[s] = r[s] /\ r[s] \in States(core) /\ r[r[s]] = r[s]
        BY <1>9, <3>2
      <4>2. J[r[s]] = r[s]
        BY <1>9, <3>2, <4>1
      <4> QED
        BY <4>1, <4>2
    <3> QED
      BY <3>1, <3>2
  <2> QED
    BY <2>1 DEF Rooted
<1>11. e \in Heights
  <2>1. \A s \in States(core) : d[s] \in Nat
    BY <1>9
  <2> QED
    BY <2>1 DEF Raised, Heights
<1>12. h \in Labellings
  BY <1>7, <1>8 DEF Labellings
<1>13. ASSUME NEW s \in States(core)
       PROVE  /\ J[h[s]] = J[s]
              /\ h[s] = s <=> J[s] = s
              /\ h[s] # s => e[h[s]] < e[s]
              /\ J[s] = s => e[s] = 0
  <2> HIDE DEF J, e, h
  <2>1. CASE s = r[a]
    <3>1. /\ h[s] = r[b] /\ J[s] = r[b] /\ e[s] = d[s] + 1 /\ s # r[b] /\ d[s] \in Nat
      BY <1>8, <1>9, <2>1
    <3>2. J[r[b]] = r[b] /\ e[r[b]] = d[r[b]] /\ d[r[b]] = 0
      BY <1>8, <1>9
    <3> QED
      BY <3>1, <3>2
  <2>2. CASE s # r[a]
    <3>1. h[s] = q[s] /\ q[s] \in States(core) /\ r[q[s]] = r[s]
      BY <1>9, <2>2
    <3>2. J[q[s]] = J[s]
      BY <1>9, <3>1
    <3>3. q[s] = s <=> J[s] = s
      <4>1. CASE r[s] = r[a]
        <5>1. J[s] = r[b] /\ r[s] # s /\ s # r[b]
          BY <1>8, <1>9, <2>2, <4>1
        <5> QED
          BY <1>9, <5>1
      <4>2. CASE r[s] # r[a]
        BY <1>9, <4>2
      <4> QED
        BY <4>1, <4>2
    <3>4. d[s] \in Nat /\ d[q[s]] \in Nat /\ (q[s] # s => d[q[s]] < d[s])
      BY <1>9, <3>1
    <3>5. q[s] # s => e[q[s]] < e[s]
      <4>1. CASE r[s] = r[a]
        <5>1. e[q[s]] = d[q[s]] + 1 /\ e[s] = d[s] + 1
          BY <1>9, <3>1, <4>1
        <5> QED
          BY <3>4, <5>1
      <4>2. CASE r[s] # r[a]
        <5>1. e[q[s]] = d[q[s]] /\ e[s] = d[s]
          BY <1>9, <3>1, <4>2
        <5> QED
          BY <3>4, <5>1
      <4> QED
        BY <4>1, <4>2
    <3>6. J[s] = s => e[s] = 0
      <4> SUFFICES ASSUME J[s] = s PROVE e[s] = 0
        OBVIOUS
      <4>1. r[s] = s
        BY <1>9, <3>3
      <4>2. r[s] # r[a] /\ d[s] = 0
        BY <1>9, <2>2, <4>1
      <4> QED
        BY <1>9, <4>2
    <3> QED
      BY <3>1, <3>2, <3>3, <3>5, <3>6
  <2> QED
    BY <2>1, <2>2
<1>14. Sits(J, h, e)
  <2> HIDE DEF J, e, h
  <2> QED
    BY <1>13 DEF Sits
<1>15. h \in Sitting(J, e)
  BY <1>12, <1>14 DEF Sitting
<1> QED
  BY <1>6, <1>10, <1>11, <1>15


\* The parents keep the blocks of `rep`, and no path is longer than the merges made.
ForestInv ==
  /\ Rooted(rep)
  /\ \E d \in Heights :
       /\ parent \in Sitting(rep, d)
       /\ \A s \in States(core) : d[s] <= Joins

\* With the forest, the harvest is still the harvest of Lattice.
LEMMA ForestIsLattice == ForestSpec => Spec
<1>1. ForestInit => Init
  BY DEF ForestInit
<1>2. [ForestNext]_forestVars => [Next]_vars
  BY DEF ForestNext, forestVars, ForestOpen, ForestPop, ForestPush, ForestClose, ForestIdle,
         Next
<1> QED
  BY <1>1, <1>2, PTL DEF ForestSpec, Spec

\* There is always one block left, so there are fewer merges than states.
LEMMA JoinsBelowStates == TypeOK => Joins \in Int /\ Joins < core.states
<1> SUFFICES ASSUME TypeOK PROVE Joins \in Int /\ Joins < core.states
  OBVIOUS
<1> DEFINE S == States(core)
           R == {rep[s] : s \in S}
<1>1. IsCore(core) /\ core.states \in Int /\ 0 \in S /\ IsFiniteSet(S)
  BY CoreFacts, StatesFinite DEF TypeOK
<1>2. R \subseteq S /\ rep[0] \in R
  BY <1>1 DEF TypeOK, Labellings
<1>3. IsFiniteSet(R)
  <2> HIDE DEF R, S
  <2> QED
    BY <1>1, <1>2, FS_Subset
<1>4. Cardinality(R) \in Nat /\ Cardinality(R) # 0
  <2> HIDE DEF R, S
  <2> QED
    BY <1>2, <1>3, FS_CardinalityType, FS_EmptySet
<1>5. Joins = core.states - Cardinality(R)
  BY DEF Joins
<1> HIDE DEF R, S
<1> QED
  BY <1>1, <1>4, <1>5

\* A forest that was just reset.
LEMMA ResetSits ==
  ASSUME IsCore(core), NEW r, r = Identity(core)
  PROVE  /\ Rooted(r)
         /\ \E d \in Heights : r \in Sitting(r, d) /\ \A s \in States(core) : d[s] <= 0
<1> DEFINE d == [s \in States(core) |-> 0]
<1>1. \A s \in States(core) : r[s] = s
  BY DEF Identity
<1>2. r \in Labellings /\ d \in Heights
  BY DEF Identity, Labellings, Heights
<1>3. r \in Sitting(r, d)
  BY <1>1, <1>2 DEF Sitting, Sits
<1>4. Rooted(r)
  BY <1>1 DEF Rooted
<1>5. \A s \in States(core) : d[s] <= 0
  OBVIOUS
<1> HIDE DEF d
<1> QED
  BY <1>2, <1>3, <1>4, <1>5

\* The invariant of a state with the same core, spelt out.
LEMMA ForestInvNext ==
  ASSUME core' = core, Rooted(rep'), NEW d \in Heights, parent' \in Sitting(rep', d),
         \A s \in States(core) : d[s] <= Joins'
  PROVE  ForestInv'
<1>1. Rooted(rep)'
  BY DEF Rooted
<1>2. d \in Heights'
  BY DEF Heights
<1>3. (parent \in Sitting(rep, d))'
  BY DEF Sitting, Sits, Labellings
<1> QED
  BY <1>1, <1>2, <1>3 DEF ForestInv

\* Halving paths while other blocks are hung below each other never moves a state to
\* another block and never closes a cycle, for any core: climbing from a state always ends
\* at the root Lattice knows its block by.
THEOREM ForestKeepsItsRoots == ForestSpec => []ParentsLeadToRep
<1>1. TypeOK /\ ForestInit => ForestInv
  <2> SUFFICES ASSUME TypeOK, ForestInit PROVE ForestInv
    OBVIOUS
  <2>1. IsCore(core) /\ rep = Identity(core) /\ parent = rep
    BY DEF TypeOK, ForestInit, Init
  <2>2. Joins = 0
    BY <2>1, NoJoins DEF Joins
  <2>3. Rooted(rep) /\ \E d \in Heights : rep \in Sitting(rep, d)
                                           /\ \A s \in States(core) : d[s] <= 0
    BY <2>1, ResetSits
  <2> QED
    BY <2>1, <2>2, <2>3 DEF ForestInv
<1>2. TypeOK /\ ForestInv /\ [ForestNext]_forestVars => ForestInv'
  <2> SUFFICES ASSUME TypeOK, ForestInv, [ForestNext]_forestVars PROVE ForestInv'
    OBVIOUS
  <2>0. /\ IsCore(core) /\ rep \in Labellings /\ Rooted(rep)
        /\ Joins \in Int /\ Joins < core.states /\ core.states \in Int
    BY JoinsBelowStates, CoreFacts DEF TypeOK, ForestInv
  <2>1. PICK d \in Heights : parent \in Sitting(rep, d) /\ \A s \in States(core) : d[s] <= Joins
    BY DEF ForestInv
  <2>2. \A s \in States(core) : d[s] \in Nat /\ d[s] < core.states
    BY <2>0, <2>1 DEF Heights
  <2>3. ASSUME UNCHANGED <<core, rep>>, parent' \in Sitting(rep, d) PROVE ForestInv'
    <3>1. Joins' = Joins /\ rep' = rep /\ core' = core
      BY <2>3 DEF Joins
    <3>2. Rooted(rep') /\ parent' \in Sitting(rep', d)
      BY <2>0, <2>3, <3>1
    <3>3. \A s \in States(core) : d[s] <= Joins'
      BY <2>1, <3>1
    <3> QED
      BY <2>1, <3>1, <3>2, <3>3, ForestInvNext
  <2>4. CASE ForestOpen
    <3>1. core' = core /\ rep' = Identity(core) /\ parent' = rep'
      BY <2>4 DEF ForestOpen, Open
    <3>2. Joins' = 0
      BY <2>0, <3>1, NoJoins DEF Joins
    <3>3. PICK r : r = rep'
      OBVIOUS
    <3>4. Rooted(r) /\ \E e \in Heights : r \in Sitting(r, e)
                                          /\ \A s \in States(core) : e[s] <= 0
      BY <2>0, <3>1, <3>3, ResetSits
    <3>5. PICK e \in Heights : r \in Sitting(r, e) /\ \A s \in States(core) : e[s] <= 0
      BY <3>4
    <3>6. /\ Rooted(rep') /\ parent' \in Sitting(rep', e)
          /\ \A s \in States(core) : e[s] <= Joins'
      BY <3>1, <3>2, <3>3, <3>4, <3>5
    <3> QED
      BY <3>1, <3>5, <3>6, ForestInvNext
  <2>5. CASE ForestPop
    <3>1. PICK a, b : a = Top[1] /\ b = Top[2]
      OBVIOUS
    <3>2. work[Len(work)] \in Pairs
      BY <2>5, DroppingLast DEF ForestPop, PopMerged, PopJoin, TypeOK
    <3>3. a \in States(core) /\ b \in States(core) /\ parent' = Hang(parent, a, b)
      BY <2>5, <3>1, <3>2 DEF ForestPop, Top, Pairs
    <3>4. CASE PopMerged
      <4>1. rep[a] = rep[b] /\ UNCHANGED <<core, rep>>
        BY <3>1, <3>4 DEF PopMerged
      <4>2. Hang(parent, a, b) \in Sitting(rep, d)
        BY <2>0, <2>1, <2>2, <3>3, <4>1, HangMerged
      <4> QED
        BY <2>3, <3>3, <4>1, <4>2
    <3>5. CASE PopJoin
      <4>1. rep[a] # rep[b] /\ core' = core /\ rep' = Join(rep, a, b)
        BY <3>1, <3>5 DEF PopJoin
      <4>2. Joins' = Joins + 1
        BY <3>5, JoinCounts
      <4>3. PICK e : e = Raised(rep, d, a)
        OBVIOUS
      <4>4. /\ Rooted(Join(rep, a, b)) /\ e \in Heights
            /\ Hang(parent, a, b) \in Sitting(Join(rep, a, b), e)
        BY <2>0, <2>1, <2>2, <3>3, <4>1, <4>3, HangJoins
      <4>5. Rooted(rep') /\ parent' \in Sitting(rep', e)
        BY <3>3, <4>1, <4>4
      <4>6. ASSUME NEW s \in States(core) PROVE e[s] <= Joins'
        <5>1. d[s] \in Nat /\ d[s] <= Joins
          BY <2>1, <2>2
        <5>2. e[s] = IF rep[s] = rep[a] THEN d[s] + 1 ELSE d[s]
          BY <4>3 DEF Raised
        <5> HIDE DEF Joins
        <5> QED
          BY <2>0, <4>2, <5>1, <5>2
      <4> QED
        BY <4>1, <4>4, <4>5, <4>6, ForestInvNext
    <3> QED
      BY <2>5, <3>4, <3>5 DEF ForestPop
  <2>6. CASE ForestPush
    <3>1. PICK x, y : x = Step(core, merged[1], k) /\ y = Step(core, merged[2], k)
      OBVIOUS
    <3>2. x \in States(core) /\ y \in States(core)
      <4>1. k \in Classes(core) /\ merged[1] \in States(core) /\ merged[2] \in States(core)
        BY <2>6 DEF ForestPush, Push, TypeOK, Pairs
      <4> QED
        BY <2>0, <3>1, <4>1, CoreFacts
    <3>3. UNCHANGED <<core, rep>> /\ parent' = FindBoth(parent, x, y)
      BY <2>6, <3>1 DEF ForestPush, Push
    <3>4. FindBoth(parent, x, y) \in Sitting(rep, d)
      BY <2>0, <2>1, <2>2, <3>2, FindBothKeeps
    <3> QED
      BY <2>3, <3>3, <3>4
  <2>7. CASE ForestClose
    <3>1. UNCHANGED <<core, rep>> /\ parent' = FindAll(parent)
      BY <2>7 DEF ForestClose, Keep, Discard
    <3>2. FindAll(parent) \in Sitting(rep, d)
      BY <2>0, <2>1, <2>2, FindAllKeeps
    <3> QED
      BY <2>3, <3>1, <3>2
  <2>8. CASE ForestIdle
    <3>1. UNCHANGED <<core, rep, parent>>
      BY <2>8 DEF ForestIdle, EndSweep, Take, PassOver, Finish
    <3> QED
      BY <2>1, <2>3, <3>1
  <2>9. CASE UNCHANGED forestVars
    <3>1. UNCHANGED <<core, rep, parent>>
      BY <2>9 DEF forestVars, vars
    <3> QED
      BY <2>1, <2>3, <3>1
  <2> QED
    BY <2>4, <2>5, <2>6, <2>7, <2>8, <2>9 DEF ForestNext
<1>3. TypeOK /\ ForestInv => ParentsLeadToRep
  <2> SUFFICES ASSUME TypeOK, ForestInv, NEW s \in States(core)
               PROVE  Climb(parent, s)[core.states] = rep[s] /\ parent[rep[s]] = rep[s]
    BY DEF ParentsLeadToRep
  <2>0. /\ IsCore(core) /\ rep \in Labellings /\ Rooted(rep) /\ rep[s] \in States(core)
        /\ Joins \in Int /\ Joins < core.states /\ core.states \in Int
    <3>1. IsCore(core) /\ rep \in Labellings
      BY DEF TypeOK
    <3>2. Rooted(rep)
      BY DEF ForestInv
    <3>3. Joins \in Int /\ Joins < core.states /\ core.states \in Int
      BY <3>1, <3>2, JoinsBelowStates, CoreFacts
    <3>4. rep[s] \in States(core)
      BY <3>1 DEF Labellings
    <3> QED
      BY <3>1, <3>2, <3>3, <3>4
  <2>1. PICK d \in Heights : parent \in Sitting(rep, d) /\ \A t \in States(core) : d[t] <= Joins
    BY DEF ForestInv
  <2>2. d[s] < core.states /\ parent \in Labellings /\ Sits(rep, parent, d)
    BY <2>0, <2>1 DEF Heights, Sitting
  <2>3. Climb(parent, s)[core.states] = rep[s]
    BY <2>0, <2>1, <2>2, ClimbFacts
  <2>4. parent[rep[s]] = rep[s]
    BY <2>0, <2>2 DEF Rooted, Sits
  <2> QED
    BY <2>3, <2>4
<1> QED
  BY <1>1, <1>2, <1>3, Typing, ForestIsLattice, PTL DEF ForestSpec
=============================================================================
