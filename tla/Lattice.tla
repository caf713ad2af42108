------------------------------- MODULE Lattice -------------------------------
(***************************************************************************)
(* The harvest (lattice.rs, `harvest`, `close` and `select`): every pair of *)
(* states is merged, the merge is propagated through a disjoint-set forest  *)
(* under a step budget shared by the whole sweep, and the partitions that   *)
(* induce a usable quotient are ranked and thinned to a short conjunction.  *)
(***************************************************************************)
EXTENDS Quotient, Sequences

CONSTANTS
  Cores,             \* the automata a harvest may be asked about
  MaxClosureSteps,   \* MAX_CLOSURE_STEPS
  MaxCandidates,     \* MAX_CANDIDATES
  MaxConjuncts       \* MAX_CONJUNCTS

ASSUME CoresAssumption == \A c \in Cores : IsCore(c)
ASSUME BoundsAssumption ==
  /\ MaxClosureSteps \in Nat
  /\ MaxCandidates \in Nat \ {0}
  /\ MaxConjuncts \in Nat \ {0}

\* LANES, which the score counts on: its second term decides between equal shares only
\* while the blocks are so few.
ASSUME WidthAssumption == Lanes <= 16

VARIABLES
  core,     \* the automaton; never changes
  pc,       \* "sweep", "pop", "push", "select" or "done"
  pair,     \* the pair of states the sweep is at
  rep,      \* the forest, as the root `find` answers for every state
  work,     \* Scratch.work, the propagation stack; its top is the last element
  merged,   \* the pair `join` merged last
  k,        \* the class whose successors of `merged` are looked at next
  steps,    \* union-find steps spent by the whole sweep
  kept,     \* the candidates held, in the order they were found
  rest,     \* positions of `kept` that `select` has not visited
  chosen    \* the partitions `select` took, most selective first

vars == <<core, pc, pair, rep, work, merged, k, steps, kept, rest, chosen>>

Identity(c) == [s \in States(c) |-> s]

Init ==
  /\ core \in Cores
  /\ pc = "sweep"
  /\ pair = <<0, 1>>
  /\ rep = Identity(core)
  /\ work = <<>>
  /\ merged = <<0, 0>>
  /\ k = 0
  /\ steps = 0
  /\ kept = <<>>
  /\ rest = {}
  /\ chosen = <<>>

-----------------------------------------------------------------------------
(* `close`: the least closed partition that identifies `pair`.             *)

\* The two nested loops over p < q.
SweepOver(pr) == pr[2] >= core.states
\* Mutant: the next row starts on the diagonal.
PairAfterOnDiagonal(pr) ==
  IF pr[2] + 1 < core.states THEN <<pr[1], pr[2] + 1>>
                             ELSE <<pr[1] + 1, pr[1] + 1>>

PairAfter(pr) ==
  IF pr[2] + 1 < core.states THEN <<pr[1], pr[2] + 1>>
                             ELSE <<pr[1] + 1, pr[1] + 2>>

\* Mutant: a itself is hung below the root of b, its block left behind.
JoinWithoutRoot(r, a, b) == [r EXCEPT ![a] = r[b]]

\* `Forest::join`: the root of a is hung below the root of b.
Join(r, a, b) == [s \in DOMAIN r |-> IF r[s] = r[a] THEN r[b] ELSE r[s]]

Top == work[Len(work)]
Popped == SubSeq(work, 1, Len(work) - 1)

\* Entry of `close`: the forest is reset and the pair is all there is to do.
Open ==
  /\ pc = "sweep"
  /\ ~SweepOver(pair)
  /\ rep' = Identity(core)
  /\ work' = <<pair>>
  /\ pc' = "pop"
  /\ UNCHANGED <<core, pair, merged, k, steps, kept, rest, chosen>>

\* Mutant: the pair is read off the stack and never popped.
PopMergedPeek ==
  /\ pc = "pop"
  /\ work # <<>>
  /\ rep[Top[1]] = rep[Top[2]]
  /\ UNCHANGED vars

\* A popped pair that is already one block: `continue`.
PopMerged ==
  /\ pc = "pop"
  /\ work # <<>>
  /\ rep[Top[1]] = rep[Top[2]]
  /\ work' = Popped
  /\ UNCHANGED <<core, pc, pair, rep, merged, k, steps, kept, rest, chosen>>

\* Mutant: the merged pair stays on the stack.
PopJoinPeek ==
  /\ pc = "pop"
  /\ work # <<>>
  /\ rep[Top[1]] # rep[Top[2]]
  /\ rep' = Join(rep, Top[1], Top[2])
  /\ merged' = Top
  /\ k' = 0
  /\ steps' = steps + core.classes
  /\ pc' = IF steps' > MaxClosureSteps THEN "select" ELSE "push"
  /\ rest' = IF steps' > MaxClosureSteps THEN DOMAIN kept ELSE rest
  /\ UNCHANGED <<core, pair, work, kept, chosen>>

\* A popped pair that `join` merges.  The budget is charged after the merge;
\* running over it abandons this closure and the rest of the sweep.
PopJoin ==
  /\ pc = "pop"
  /\ work # <<>>
  /\ rep[Top[1]] # rep[Top[2]]
  /\ rep' = Join(rep, Top[1], Top[2])
  /\ work' = Popped
  /\ merged' = Top
  /\ k' = 0
  /\ steps' = steps + core.classes
  /\ pc' = IF steps' > MaxClosureSteps THEN "select" ELSE "push"
  /\ rest' = IF steps' > MaxClosureSteps THEN DOMAIN kept ELSE rest
  /\ UNCHANGED <<core, pair, kept, chosen>>

\* Mutant: the successors that are already one block are the ones pushed.
PushBackwards ==
  LET x == Step(core, merged[1], k)
      y == Step(core, merged[2], k)
  IN /\ pc = "push"
     /\ work' = IF rep[x] = rep[y] THEN Append(work, <<x, y>>) ELSE work
     /\ k' = k + 1
     /\ pc' = IF k + 1 = core.classes THEN "pop" ELSE "push"
     /\ UNCHANGED <<core, pair, rep, merged, steps, kept, rest, chosen>>

\* Mutant: a state is paired with its own successor.
PushCrossed ==
  LET x == merged[1]
      y == Step(core, merged[2], k)
  IN /\ pc = "push"
     /\ work' = IF rep[x] # rep[y] THEN Append(work, <<x, y>>) ELSE work
     /\ k' = k + 1
     /\ pc' = IF k + 1 = core.classes THEN "pop" ELSE "push"
     /\ UNCHANGED <<core, pair, rep, merged, steps, kept, rest, chosen>>

\* One turn of the loop over classes: successors not yet in one block are left
\* on the stack for later.
Push ==
  LET x == Step(core, merged[1], k)
      y == Step(core, merged[2], k)
  IN /\ pc = "push"
     /\ work' = IF rep[x] # rep[y] THEN Append(work, <<x, y>>) ELSE work
     /\ k' = k + 1
     /\ pc' = IF k + 1 = core.classes THEN "pop" ELSE "push"
     /\ UNCHANGED <<core, pair, rep, merged, steps, kept, rest, chosen>>

-----------------------------------------------------------------------------
(* The sweep's verdict on a finished closure.                              *)

\* The states that open a block when the states are read in order.
FirstSeen(c, r) == {s \in States(c) : \A t \in 0 .. s - 1 : r[t] # r[s]}

\* The canonical numbering: a block's id is the number of blocks opened before
\* its own first state.
Canon(c, r) ==
  [s \in States(c) |->
     Cardinality({t \in FirstSeen(c, r) : \A u \in States(c) :
                    r[u] = r[s] => t < u})]

\* Mutant: a partition already held is held again.
WorthTwice(block) ==
  /\ BlockCount(core, block) > 1
  /\ BlockCount(core, block) <= Lanes
  /\ Induces(core, block)

\* What the sweep asks of a partition before it keeps it.
Worth(block) ==
  /\ BlockCount(core, block) > 1
  /\ BlockCount(core, block) <= Lanes
  /\ \A i \in DOMAIN kept : kept[i] # block
  /\ Induces(core, block)

Finished == pc = "pop" /\ work = <<>>

\* The partition is new and induces a quotient.
Keep ==
  LET block == Canon(core, rep)
      full  == Len(kept) + 1 = MaxCandidates
  IN /\ Finished
     /\ Worth(block)
     /\ kept' = Append(kept, block)
     /\ pair' = PairAfter(pair)
     /\ pc' = IF full THEN "select" ELSE "sweep"
     /\ rest' = IF full THEN DOMAIN kept' ELSE rest
     /\ UNCHANGED <<core, rep, work, merged, k, steps, chosen>>

\* Too coarse, too wide, a duplicate, or nothing `induce` can use.
Discard ==
  /\ Finished
  /\ ~Worth(Canon(core, rep))
  /\ pair' = PairAfter(pair)
  /\ pc' = "sweep"
  /\ UNCHANGED <<core, rep, work, merged, k, steps, kept, rest, chosen>>

\* The sweep ran out of pairs.
EndSweep ==
  /\ pc = "sweep"
  /\ SweepOver(pair)
  /\ pc' = "select"
  /\ rest' = DOMAIN kept
  /\ UNCHANGED <<core, pair, rep, work, merged, k, steps, kept, chosen>>

-----------------------------------------------------------------------------
(* `select`: best score first, at most MaxConjuncts.                       *)

Accepting(c, block) == BlockCount(c, block) - Threshold(c, block)

\* Mutant: ties go to the coarser partition.
ScoreBelowCoarser(acc1, blk1, acc2, blk2) ==
  10000 * acc1 * blk2 + blk1 * blk1 * blk2
    < 10000 * acc2 * blk1 + blk2 * blk2 * blk1

\* The score accepting/blocks - blocks/10000, compared after multiplying out
\* the denominators.
ScoreBelow(acc1, blk1, acc2, blk2) ==
  10000 * acc1 * blk2 - blk1 * blk1 * blk2
    < 10000 * acc2 * blk1 - blk2 * blk2 * blk1

Better(c, f, g) ==
  ScoreBelow(Accepting(c, f), BlockCount(c, f), Accepting(c, g), BlockCount(c, g))

\* The sort is stable: on equal scores the candidate found first comes first.
Ahead(i, j) ==
  \/ Better(core, kept[i], kept[j])
  \/ i < j /\ ~Better(core, kept[j], kept[i])

Foremost(i) == i \in rest /\ \A j \in rest \ {i} : Ahead(i, j)

Choosing == pc = "select" /\ Len(chosen) < MaxConjuncts

Redundant(block) == \E i \in DOMAIN chosen : Refines(core, chosen[i], block)

\* The best candidate left adds something to what is already chosen.
Take ==
  /\ Choosing
  /\ \E i \in rest :
       /\ Foremost(i)
       /\ ~Redundant(kept[i])
       /\ chosen' = Append(chosen, kept[i])
       /\ rest' = rest \ {i}
  /\ UNCHANGED <<core, pc, pair, rep, work, merged, k, steps, kept>>

\* A chosen conjunct already distinguishes everything this one does.
PassOver ==
  /\ Choosing
  /\ \E i \in rest :
       /\ Foremost(i)
       /\ Redundant(kept[i])
       /\ rest' = rest \ {i}
  /\ UNCHANGED <<core, pc, pair, rep, work, merged, k, steps, kept, chosen>>

Finish ==
  /\ pc = "select"
  /\ rest = {} \/ Len(chosen) = MaxConjuncts
  /\ pc' = "done"
  /\ UNCHANGED <<core, pair, rep, work, merged, k, steps, kept, rest, chosen>>

Next ==
  \/ Open \/ PopMerged \/ PopJoin \/ Push
  \/ Keep \/ Discard \/ EndSweep
  \/ Take \/ PassOver \/ Finish

Spec == Init /\ [][Next]_vars

\* The harvest is a loop that runs until it returns.
FairSpec == Spec /\ WF_vars(Next)

-----------------------------------------------------------------------------
(* Properties.                                                             *)

Pairs == States(core) \X States(core)
Labellings == [States(core) -> States(core)]
Closing == pc \in {"pop", "push"}

\* Every variable holds what the code's type and bounds allow: in particular a
\* pair on the stack names states of the core, so no index can miss.
TypeOK ==
  /\ IsCore(core)
  /\ pc \in {"sweep", "pop", "push", "select", "done"}
  /\ pair \in Nat \X Nat /\ pair[1] < pair[2]
  /\ pc \in {"pop", "push"} => pair \in Pairs
  /\ rep \in Labellings
  /\ work \in Seq(Pairs)
  /\ merged \in Pairs
  /\ k \in 0 .. core.classes
  /\ pc = "push" => k \in Classes(core)
  /\ steps \in Nat
  /\ kept \in Seq([States(core) -> Nat])
  /\ rest \in SUBSET DOMAIN kept
  /\ chosen \in Seq([States(core) -> Nat])

\* f identifies all the forest has merged and all that is still waiting to be:
\* the stack, and the successors of `merged` the class loop has yet to reach.
Covers(f) ==
  /\ Coarser(core, f, rep)
  /\ \A i \in DOMAIN work : f[work[i][1]] = f[work[i][2]]
  /\ pc = "push" =>
       \A j \in Classes(core) :
         j >= k => f[Step(core, merged[1], j)] = f[Step(core, merged[2], j)]

\* Propagating one pair per merge is complete (the comment on `close`): whatever
\* identifies the forest and the work left already identifies the successors of
\* every two states the forest holds together.
Propagated ==
  Closing =>
    \A f \in Labellings :
      Covers(f) =>
        \A s, t \in States(core) :
          rep[s] = rep[t] =>
            \A j \in Classes(core) : f[Step(core, s, j)] = f[Step(core, t, j)]

\* Nothing is merged, or queued to be, that closure does not force.
NothingExtra ==
  Closing =>
    \A f \in Labellings :
      Closed(core, f) /\ f[pair[1]] = f[pair[2]] => Covers(f)

\* The pair asked about is merged already, or still the bottom of the stack.
PairHeld ==
  Closing => \/ rep[pair[1]] = rep[pair[2]]
             \/ work # <<>> /\ work[1] = pair

\* A labelling is the least closed one that identifies two states.
LeastAbove(f, p, q) ==
  /\ Closed(core, f)
  /\ f[p] = f[q]
  /\ \A g \in Labellings : Closed(core, g) /\ g[p] = g[q] => Coarser(core, g, f)

\* What `close` promises of the forest it hands to the numbering: the smallest
\* closed partition identifying the pair, neither short of closed nor coarser
\* than it has to be.
CloseIsLeast == Finished => LeastAbove(rep, pair[1], pair[2])

\* Every partition the harvest holds is closed, also when the budget cut the
\* sweep short, is the least above some pair, and induces a quotient; none is
\* held twice.
KeptClosed ==
  \A i \in DOMAIN kept :
    /\ Induces(core, kept[i])
    /\ \E pr \in Pairs : pr[1] # pr[2] /\ LeastAbove(kept[i], pr[1], pr[2])
    /\ \A j \in DOMAIN kept : kept[i] = kept[j] => i = j

\* Every merge takes one pair off the stack and leaves at most one per class, and
\* there are at most states - 1 merges: the stack `close` grows without a check has
\* a bound, the same for every order the pairs come off it.
StackBounded ==
  LET joins == core.states - Cardinality({rep[s] : s \in States(core)})
  IN Len(work) <= 1 + (core.classes - 1) * joins

\* The doc of `select`: no conjunct is bought for nothing, which it would be if
\* any other conjunct already told apart everything it does.
NoConjunctForNothing ==
  \A i, j \in DOMAIN chosen : i # j => ~Refines(core, chosen[i], chosen[j])

\* Every step the harvest takes is charged: it ends, whatever the core.
Terminates == <>(pc = "done")

-----------------------------------------------------------------------------
H == INSTANCE Harvest WITH
       phase  <- CASE pc = "done" -> "done"
                   [] pc = "select" -> "over"
                   [] OTHER -> "sweeping",
       chosen <- IF pc = "done" THEN chosen ELSE <<>>

\* The forest, the stack, the scores and the greedy loop implement the promise.
ImplementsHarvest == H!Spec
=============================================================================
