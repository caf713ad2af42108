------------------------------- MODULE Rates -------------------------------
(***************************************************************************)
(* How often a quotient accepts (selectivity.rs, `worst_case`, `Spread::of` *)
(* and `Spread::rate`): the joint chain of the block a run is in and the    *)
(* class of its last byte is stepped block by block from one buffer into    *)
(* another, and the accepting tails of all steps are averaged.              *)
(***************************************************************************)
EXTENDS Gate, Prior

CONSTANTS
  Conjunctions,   \* the sequences of quotients a rate may be asked of
  Sweeps,         \* the sequences of chains it may be asked under
  Corpora,        \* the corpora a further chain may be minted over
  Iterations,     \* ITERATIONS
  Distributions   \* the rows a corpus could have counted for a class

VARIABLES
  quotients, chains,   \* the arguments
  corpus,    \* the documents a chain is minted over; <<>> is none
  stage,     \* "mint", "chain", "fill", "draw" or "done"
  qi, ci,    \* the quotient and the chain being rated
  block,     \* the block drawn from next
  round,     \* iterations finished
  held,      \* the mass of every (block, class) before the step
  next,      \* and after it, as far as the step has come
  cesaro,    \* the accepting tails added up so far
  worst,     \* the largest rate of this quotient so far
  best       \* the smallest of the largest so far

args == <<quotients, chains, corpus>>
ratesVars == <<args, stage, qi, ci, block, round, held, next, cesaro, worst, best>>

Q == quotients[qi]
Chain == chains[ci]
Blocks(q) == 0 .. q.blocks - 1
Slots(q) == Blocks(q) \X Classes
Sum(f, over) == FoldSet(LAMBDA x, sum : Plus(sum, f[x]), Zero, over)

Shares == {x \in Floats : Finite(x)}
Listed(s, Is(_)) == s \in Seq({s[i] : i \in DOMAIN s}) /\ \A i \in DOMAIN s : Is(s[i])

IsQuotient(q) ==
  /\ q.blocks \in Nat /\ q.threshold \in Int /\ q.start \in Blocks(q)
  /\ q.rows \in [DOMAIN ClassOf -> [Blocks(q) -> Blocks(q)]]
IsChain(chain) ==
  chain.start \in [Classes -> Shares] /\ chain.next \in [Classes -> [Classes -> Shares]]
IsDocument(doc) == Listed(doc, LAMBDA y : y \in DOMAIN ClassOf)
IsDistribution(row) ==
  /\ row \in [Classes -> Shares] /\ \A class \in Classes : ~Less(row[class], Zero)
  /\ Same(Sum(row, Classes), One)

ASSUME RatesAssumption ==
  /\ IsFiniteSet(DOMAIN ClassOf)
  /\ Iterations \in Nat \ {0} /\ Support \in Nat \ {0}
  /\ \A conjunction \in Conjunctions : Listed(conjunction, IsQuotient)
  /\ \A sweep \in Sweeps : Listed(sweep, IsChain)
  /\ \A docs \in Corpora : Listed(docs, IsDocument)
  /\ \A row \in Distributions : IsDistribution(row)

\* `Spread::of`: what share of a class carries one block to another.
EdgeShare(q, from, class, to) ==
  Divided(F(Cardinality({y \in DOMAIN ClassOf : ClassOf[y] = class /\ q.rows[y][from] = to})),
          F(Members(class)))

RatesInit ==
  /\ quotients \in Conjunctions
  /\ chains \in Sweeps
  /\ corpus \in Corpora \cup {<<>>}
  /\ stage = "mint"
  /\ qi = 1 /\ ci = 1 /\ block = 0 /\ round = 0
  /\ held = <<>> /\ next = <<>>
  /\ cesaro = Zero /\ worst = Zero /\ best = One

\* What `mint` prints for a corpus of the caller's is swept with the rest.
Mint ==
  /\ stage = "mint"
  /\ chains' = IF corpus = <<>> THEN chains ELSE Append(chains, Persistence(corpus))
  /\ stage' = "chain"
  /\ UNCHANGED <<quotients, corpus, qi, ci, block, round, held, next, cesaro, worst, best>>

\* Entry of `rate`: both buffers are zeroed and one is seeded.
Seed ==
  /\ stage = "chain" /\ qi <= Len(quotients) /\ ci <= Len(chains)
  /\ stage' = "fill"
  /\ round' = 0
  /\ cesaro' = Zero
  /\ held' = [s \in Slots(Q) |-> IF s[1] = Q.start THEN Chain.start[s[2]] ELSE Zero]
  /\ next' = [s \in Slots(Q) |-> Zero]
  /\ UNCHANGED <<args, qi, ci, block, worst, best>>

\* Mutant: what the buffer held two steps ago is added to.
FillNothing ==
  /\ stage = "fill" /\ round < Iterations
  /\ stage' = "draw"
  /\ block' = 0
  /\ UNCHANGED <<args, qi, ci, round, held, next, cesaro, worst, best>>

Fill ==
  /\ stage = "fill" /\ round < Iterations
  /\ stage' = "draw"
  /\ block' = 0
  /\ next' = [s \in DOMAIN next |-> Zero]
  /\ UNCHANGED <<args, qi, ci, round, held, cesaro, worst, best>>

\* How much of the block's mass draws a byte of a class next.
DrawOf(class) ==
  LET was == [from \in Classes |-> held[<<block, from>>]]
      drawn == [from \in Classes |-> Times(was[from], Chain.next[from][class])]
  IN IF Marginal(Chain) # {}
       THEN Times(Sum(was, Classes), (CHOOSE row \in Marginal(Chain) : TRUE)[class])
       ELSE Sum(drawn, Classes)

Draw ==
  /\ stage = "draw" /\ block < Q.blocks
  /\ next' = LET draw == [class \in Classes |-> DrawOf(class)]
             IN [s \in DOMAIN next |->
                   Plus(next[s], Times(draw[s[2]], EdgeShare(Q, block, s[2], s[1])))]
  /\ block' = block + 1
  /\ UNCHANGED <<args, stage, qi, ci, round, held, cesaro, worst, best>>

\* The buffers change places, and the accepting tail is added.
Swap ==
  /\ stage = "draw" /\ block = Q.blocks
  /\ held' = next
  /\ next' = held
  /\ cesaro' = Plus(cesaro, Sum(held', {s \in Slots(Q) : s[1] >= Q.threshold}))
  /\ round' = round + 1
  /\ stage' = "fill"
  /\ UNCHANGED <<args, qi, ci, block, worst, best>>

\* `rate` returns, into the fold over the chains.
EndChain ==
  /\ stage = "fill" /\ round = Iterations
  /\ worst' = Most(worst, Divided(cesaro, F(Iterations)))
  /\ ci' = ci + 1
  /\ stage' = "chain"
  /\ UNCHANGED <<args, qi, block, round, held, next, cesaro, best>>

\* The fold over the quotients.
EndQuotient ==
  /\ stage = "chain" /\ qi <= Len(quotients) /\ ci > Len(chains)
  /\ best' = Least(best, worst)
  /\ worst' = Zero
  /\ qi' = qi + 1
  /\ ci' = 1
  /\ UNCHANGED <<args, stage, block, round, held, next, cesaro>>

Return ==
  /\ stage = "chain" /\ qi > Len(quotients)
  /\ stage' = "done"
  /\ UNCHANGED <<args, qi, ci, block, round, held, next, cesaro, worst, best>>

RatesNext == Mint \/ Seed \/ Fill \/ Draw \/ Swap \/ EndChain \/ EndQuotient \/ Return

RatesSpec == RatesInit /\ [][RatesNext]_ratesVars

-----------------------------------------------------------------------------
(* Properties.                                                             *)

\* The byte-level model: a document, read after a byte of an unknown class, is as likely
\* as its bytes are, each after the one before it.
Documents(n) == [1 .. n -> DOMAIN ClassOf]
After(chain) == [from \in Classes |-> BytesAfter(chain, from)]
LikelihoodAfter(first, chain, after, doc) ==
  LET upTo[i \in 0 .. Len(doc)] ==
        IF i = 0 THEN chain.start[first]
        ELSE Times(upTo[i - 1], after[IF i = 1 THEN first ELSE ClassOf[doc[i - 1]]][doc[i]])
  IN upTo[Len(doc)]
Likelihood(chain, after, doc) ==
  Sum([first \in Classes |-> LikelihoodAfter(first, chain, after, doc)], Classes)

BlockAfter(q, doc) ==
  LET run[i \in 0 .. Len(doc)] == IF i = 0 THEN q.start ELSE q.rows[doc[i]][run[i - 1]]
  IN run[Len(doc)]

\* How likely it is that a document is one of a set, by its first byte and its last.
Chance(chain, docs) ==
  LET after == After(chain)
      likely == [doc \in docs |-> Likelihood(chain, after, doc)]
      between == [ends \in (DOMAIN ClassOf) \X (DOMAIN ClassOf) |->
                    Sum(likely, {doc \in docs : doc[1] = ends[1] /\ doc[Len(doc)] = ends[2]})]
  IN Sum(between, DOMAIN between)

EndingAt(q, n, s) ==
  {doc \in Documents(n) : BlockAfter(q, doc) = s[1] /\ ClassOf[doc[n]] = s[2]}
Accepted(q, n) == {doc \in Documents(n) : BlockAfter(q, doc) >= q.threshold}

\* The share of positions, averaged over the lengths, at which the quotient accepts.
Expected(q, chain) ==
  LET at == [n \in 1 .. Iterations |-> Chance(chain, Accepted(q, n))]
  IN Divided(Sum(at, DOMAIN at), F(Iterations))

\* The regrouping is not an approximation: after every step the mass of a block and a
\* class is the likelihood of the documents of that length that end there, memoryless
\* chain or not, and the two folds answer the worst chain's average for the best
\* quotient.
RatesAreExact ==
  /\ stage = "fill" /\ round > 0 =>
       \A s \in Slots(Q) : Same(held[s], Chance(Chain, EndingAt(Q, round, s)))
  /\ stage = "done" =>
       Same(best, WorstCase([i \in DOMAIN quotients |->
                     [rates |-> [c \in DOMAIN chains |-> Expected(quotients[i], chains[c])]]],
                     DOMAIN chains))

\* Two bytes of a class in a row.
RunOf(class) ==
  [blocks |-> 3, threshold |-> 2, start |-> 0,
   rows |-> [y \in DOMAIN ClassOf |->
               [b \in 0 .. 2 |-> IF ClassOf[y] # class THEN 0 ELSE Min({b + 1, 2})]]]

\* What a corpus was too thin to measure reads as the worst case: no row it could have
\* had prices a run through the class higher than the absorbing one it is given.
ThinRowsReadAsWorst ==
  stage = "done" /\ corpus # <<>> =>
    \A class \in Classes :
      SupportOf(corpus, class) < Support /\ quotients = <<RunOf(class)>> =>
        \A row \in Distributions :
          ~Less(best, Expected(RunOf(class),
                               [Persistence(corpus) EXCEPT !.next[class] = row]))
=============================================================================
