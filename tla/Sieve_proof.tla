----------------------------- MODULE Sieve_proof -----------------------------
(***************************************************************************)
(* A sieve answers what the scalar runs of its lanes answer, for every     *)
(* document, every quotient, every chunk, every width of register, every   *)
(* step of a classifier, and whichever kernel each scan and each find is   *)
(* given.                                                                  *)
(***************************************************************************)
EXTENDS Sieve, Quotient_proof, SequenceTheorems

-----------------------------------------------------------------------------
(* The run.                                                                *)

BlocksOf(quotient) == 0 .. quotient.blocks - 1

\* The run is the function its recursive definition describes.
LEMMA RunFacts ==
  ASSUME NEW quotient, IsQuotient(quotient), NEW doc \in Seq(DOMAIN quotient.rows),
         NEW from \in 0 .. Len(doc), NEW b \in BlocksOf(quotient)
  PROVE  /\ RunOf(quotient, doc, from, b) \in [0 .. Len(doc) - from -> BlocksOf(quotient)]
         /\ RunOf(quotient, doc, from, b)[0] = b
         /\ \A j \in 1 .. Len(doc) - from :
              RunOf(quotient, doc, from, b)[j]
                = quotient.rows[doc[from + j]][RunOf(quotient, doc, from, b)[j - 1]]
<1> DEFINE n == Len(doc) - from
           row == [j \in 1 .. n |-> quotient.rows[doc[from + j]]]
           IsRun(f) == f = [j \in 0 .. n |->
                              IF j = 0 THEN b ELSE quotient.rows[doc[from + j]][f[j - 1]]]
<1>1. n \in Nat
  OBVIOUS
<1>2. row \in [1 .. n -> [BlocksOf(quotient) -> BlocksOf(quotient)]]
  <2>1. ASSUME NEW j \in 1 .. n
        PROVE  quotient.rows[doc[from + j]] \in [BlocksOf(quotient) -> BlocksOf(quotient)]
    <3>1. doc[from + j] \in DOMAIN quotient.rows
      BY <1>1
    <3> QED
      BY <3>1 DEF IsQuotient, BlocksOf
  <2> QED
    BY <2>1
<1>3. PICK f \in [0 .. n -> BlocksOf(quotient)] :
        f[0] = b /\ \A j \in 1 .. n : f[j] = row[j][f[j - 1]]
  <2>1. row \in Rows(n, BlocksOf(quotient))
    BY <1>2 DEF Rows
  <2> HIDE DEF n, row
  <2>2. PICK f \in [0 .. n -> BlocksOf(quotient)] : Fills(f, n, b, row)
    BY <1>1, <2>1, FilledFromFront
  <2>3. f[0] = b /\ \A j \in 1 .. n : f[j] = row[j][f[j - 1]]
    BY <2>2 DEF Fills
  <2> QED
    BY <2>3
<1>4. IsRun(f)
  <2>1. \A j \in 0 .. n : f[j] = IF j = 0 THEN b ELSE row[j][f[j - 1]]
    BY <1>3
  <2>2. \A j \in 0 .. n : j # 0 => row[j] = quotient.rows[doc[from + j]]
    BY <1>1
  <2>3. \A j \in 0 .. n : f[j] = IF j = 0 THEN b ELSE quotient.rows[doc[from + j]][f[j - 1]]
    <3> HIDE DEF row, n
    <3> QED
      BY <2>1, <2>2, Zenon
  <2> QED
    BY <2>3
<1>5. RunOf(quotient, doc, from, b) = CHOOSE g : IsRun(g)
  BY DEF RunOf
<1>6. IsRun(RunOf(quotient, doc, from, b))
  <2> HIDE DEF IsRun
  <2> QED
    BY <1>4, <1>5
<1>7. \A g : IsRun(g) => g = f
  <2> SUFFICES ASSUME NEW g, IsRun(g) PROVE g = f
    OBVIOUS
  <2> DEFINE S == {j \in 0 .. n : g[j] = f[j]}
  <2>1. 0 \in S
    BY <1>4, <1>1
  <2>2. ASSUME NEW j \in 0 .. n - 1, j \in S PROVE j + 1 \in S
    <3>1. /\ g[j + 1] = quotient.rows[doc[from + (j + 1)]][g[(j + 1) - 1]]
          /\ f[j + 1] = quotient.rows[doc[from + (j + 1)]][f[(j + 1) - 1]]
      <4>1. j + 1 \in 0 .. n /\ j + 1 # 0
        BY <1>1
      <4>2. g[j + 1] = quotient.rows[doc[from + (j + 1)]][g[(j + 1) - 1]]
        BY <4>1, Zenon
      <4>3. f[j + 1] = quotient.rows[doc[from + (j + 1)]][f[(j + 1) - 1]]
        BY <1>4, <4>1, Zenon
      <4> QED
        BY <4>2, <4>3
    <3>2. (j + 1) - 1 = j /\ j + 1 \in 0 .. n /\ g[j] = f[j]
      BY <2>2, <1>1
    <3> QED
      BY <3>1, <3>2
  <2>3. \A j \in 0 .. n : j \in S
    <3> HIDE DEF S, n
    <3> QED
      BY <1>1, <2>1, <2>2, UpTo
  <2> QED
    BY <2>3, <1>4
<1>8. RunOf(quotient, doc, from, b) = f
  <2> HIDE DEF IsRun
  <2> QED
    BY <1>6, <1>7
<1>9. /\ f \in [0 .. n -> BlocksOf(quotient)]
      /\ f[0] = b
      /\ \A j \in 1 .. n : f[j] = quotient.rows[doc[from + j]][f[j - 1]]
  BY <1>1, <1>3
<1> QED
  BY <1>8, <1>9

\* Reading on is a run of its own, from the block the first one has come to.
LEMMA RunSplits ==
  ASSUME NEW quotient, IsQuotient(quotient), NEW doc \in Seq(DOMAIN quotient.rows),
         NEW from \in 0 .. Len(doc), NEW b \in BlocksOf(quotient),
         NEW m \in 0 .. Len(doc) - from
  PROVE  LET run == RunOf(quotient, doc, from, b) IN
         \A j \in 0 .. Len(doc) - from - m :
           run[m + j] = RunOf(quotient, doc, from + m, run[m])[j]
<1> DEFINE run == RunOf(quotient, doc, from, b)
           on == RunOf(quotient, doc, from + m, run[m])
           n == Len(doc) - from - m
           S == {j \in 0 .. n : run[m + j] = on[j]}
<1>1. /\ run \in [0 .. Len(doc) - from -> BlocksOf(quotient)]
      /\ \A j \in 1 .. Len(doc) - from : run[j] = quotient.rows[doc[from + j]][run[j - 1]]
  BY RunFacts
<1>2. from + m \in 0 .. Len(doc) /\ run[m] \in BlocksOf(quotient) /\ n = Len(doc) - (from + m)
  <2> HIDE DEF run
  <2> QED
    BY <1>1
<1>3. /\ on[0] = run[m]
      /\ \A j \in 1 .. n : on[j] = quotient.rows[doc[from + m + j]][on[j - 1]]
  <2> HIDE DEF run
  <2>1. \A a \in 0 .. Len(doc), c \in BlocksOf(quotient) :
          /\ RunOf(quotient, doc, a, c)[0] = c
          /\ \A j \in 1 .. Len(doc) - a :
               RunOf(quotient, doc, a, c)[j]
                 = quotient.rows[doc[a + j]][RunOf(quotient, doc, a, c)[j - 1]]
    <3> TAKE a \in 0 .. Len(doc), c \in BlocksOf(quotient)
    <3> QED
      BY RunFacts
  <2> HIDE DEF n
  <2> QED
    BY <1>2, <2>1
<1> HIDE DEF run, on
<1>4. n \in Nat /\ 0 \in S
  BY <1>2, <1>3
<1>5. ASSUME NEW j \in 0 .. n - 1, j \in S PROVE j + 1 \in S
  <2>1. /\ m + j + 1 \in 1 .. Len(doc) - from /\ j + 1 \in 1 .. n /\ j + 1 \in 0 .. n
        /\ (m + j + 1) - 1 = m + j /\ (j + 1) - 1 = j /\ m + (j + 1) = m + j + 1
        /\ from + (m + j + 1) = from + m + (j + 1)
    BY <1>4
  <2>2. run[m + j + 1] = quotient.rows[doc[from + (m + j + 1)]][run[(m + j + 1) - 1]]
    BY <1>1, <2>1
  <2>3. on[j + 1] = quotient.rows[doc[from + m + (j + 1)]][on[(j + 1) - 1]]
    BY <1>3, <2>1
  <2>4. run[m + j] = on[j]
    BY <1>5
  <2>5. run[m + (j + 1)] = on[j + 1]
    BY <2>1, <2>2, <2>3, <2>4, Zenon
  <2> QED
    BY <2>1, <2>5
<1>6. \A j \in 0 .. n : j \in S
  <2> HIDE DEF S, n
  <2> QED
    BY <1>4, <1>5, UpTo
<1> QED
  BY <1>6 DEF run, on

\* The run of a quotient over a document, from its start block.
LEMMA RunFromStart ==
  ASSUME NEW quotient, IsQuotient(quotient), NEW doc \in Seq(DOMAIN quotient.rows)
  PROVE  LET run == RunOf(quotient, doc, 0, quotient.start) IN
         /\ run \in [0 .. Len(doc) -> BlocksOf(quotient)]
         /\ run[0] = quotient.start
         /\ \A j \in 0 .. Len(doc) - 1 :
              run[j + 1] = quotient.rows[doc[j + 1]][run[j]]
<1> DEFINE run == RunOf(quotient, doc, 0, quotient.start)
<1>1. 0 \in 0 .. Len(doc) /\ Len(doc) - 0 = Len(doc) /\ quotient.start \in BlocksOf(quotient)
  BY DEF IsQuotient, BlocksOf
<1>2. \A from \in 0 .. Len(doc), b \in BlocksOf(quotient) :
        /\ RunOf(quotient, doc, from, b) \in [0 .. Len(doc) - from -> BlocksOf(quotient)]
        /\ RunOf(quotient, doc, from, b)[0] = b
        /\ \A j \in 1 .. Len(doc) - from :
             RunOf(quotient, doc, from, b)[j]
               = quotient.rows[doc[from + j]][RunOf(quotient, doc, from, b)[j - 1]]
  <2> TAKE from \in 0 .. Len(doc), b \in BlocksOf(quotient)
  <2> QED
    BY RunFacts
<1>3. /\ run \in [0 .. Len(doc) - 0 -> BlocksOf(quotient)]
      /\ run[0] = quotient.start
      /\ \A j \in 1 .. Len(doc) - 0 : run[j] = quotient.rows[doc[0 + j]][run[j - 1]]
  BY <1>1, <1>2
<1> HIDE DEF run
<1>4. ASSUME NEW j \in 0 .. Len(doc) - 1
      PROVE  run[j + 1] = quotient.rows[doc[j + 1]][run[j]]
  <2>1. j + 1 \in 1 .. Len(doc) - 0 /\ (j + 1) - 1 = j /\ 0 + (j + 1) = j + 1
    OBVIOUS
  <2>2. run[j + 1] = quotient.rows[doc[0 + (j + 1)]][run[(j + 1) - 1]]
    BY <1>3, <2>1
  <2> QED
    BY <2>1, <2>2
<1> QED
  BY <1>1, <1>3, <1>4 DEF run

\* A run stays where it is on bytes that do not leave the block it is in.
LEMMA RunStays ==
  ASSUME NEW quotient, IsQuotient(quotient), NEW doc \in Seq(DOMAIN quotient.rows),
         NEW block \in BlocksOf(quotient),
         NEW a \in 0 .. Len(doc), NEW z \in a .. Len(doc),
         RunOf(quotient, doc, 0, quotient.start)[a] = block,
         \A i \in a + 1 .. z : quotient.rows[doc[i]][block] = block
  PROVE  \A j \in a .. z : RunOf(quotient, doc, 0, quotient.start)[j] = block
<1> DEFINE run == RunOf(quotient, doc, 0, quotient.start)
           S == {i \in 0 .. z - a : run[a + i] = block}
<1>1. \A j \in 1 .. Len(doc) : run[j] = quotient.rows[doc[j]][run[j - 1]]
  <2> TAKE j \in 1 .. Len(doc)
  <2>1. j - 1 \in 0 .. Len(doc) - 1 /\ (j - 1) + 1 = j
    OBVIOUS
  <2>2. run[(j - 1) + 1] = quotient.rows[doc[(j - 1) + 1]][run[j - 1]]
    BY <2>1, RunFromStart
  <2> QED
    BY <2>1, <2>2
<1> HIDE DEF run
<1>2. z - a \in Nat /\ 0 \in S
  BY DEF run
<1>3. ASSUME NEW i \in 0 .. (z - a) - 1, i \in S PROVE i + 1 \in S
  <2>1. a + i + 1 \in a + 1 .. z /\ a + i + 1 \in 1 .. Len(doc) /\ i + 1 \in 0 .. z - a
    BY <1>2
  <2>2. run[a + i + 1] = quotient.rows[doc[a + i + 1]][run[(a + i + 1) - 1]]
    BY <2>1, <1>1
  <2>3. (a + i + 1) - 1 = a + i /\ a + (i + 1) = a + i + 1
    OBVIOUS
  <2>4. run[a + i + 1] = block
    BY <2>1, <2>2, <2>3, <1>3
  <2> QED
    BY <2>1, <2>3, <2>4
<1>4. \A i \in 0 .. z - a : i \in S
  <2> HIDE DEF S
  <2> QED
    BY <1>2, <1>3, UpTo
<1>5. ASSUME NEW j \in a .. z PROVE run[j] = block
  <2>1. j - a \in 0 .. z - a /\ a + (j - a) = j
    OBVIOUS
  <2>2. j - a \in S
    <3> HIDE DEF S
    <3> QED
      BY <2>1, <1>4
  <2>3. run[a + (j - a)] = block
    BY <2>2
  <2> QED
    BY <2>1, <2>3
<1> QED
  BY <1>5 DEF run

-----------------------------------------------------------------------------
(* The instruments.                                                        *)

\* A byte is its two nibbles.
LEMMA NibblesIdentify ==
  ASSUME NEW y \in K!Bytes, NEW z \in K!Bytes, K!Low(y) = K!Low(z), K!High(y) = K!High(z)
  PROVE  y = z
<1>1. Nibble \in Nat \ {0} /\ y \in Nat /\ z \in Nat
  <2>1. Nibble \in Nat \ {0}
    BY SkipAssumption
  <2> QED
    BY <2>1 DEF K!Bytes
<1>2. /\ y = Nibble * (y \div Nibble) + (y % Nibble)
      /\ z = Nibble * (z \div Nibble) + (z % Nibble)
  BY <1>1, Division
<1> QED
  BY <1>2 DEF K!Low, K!High

\* The two tables of the wide instrument are the set, for every nibble width.
LEMMA TablesAreTheSet ==
  ASSUME NEW escape \in SUBSET K!Bytes, K!Instrument(escape) = "wide",
         NEW y \in K!Bytes
  PROVE  K!Member(escape, y) <=> y \in escape
<1>1. \A x \in escape : K!Ascii(x)
  BY DEF K!Instrument
<1>2. ASSUME y \in escape PROVE K!Member(escape, y)
  <2>1. K!High(y) \in K!Picked(escape, K!Low(y))
    BY <1>2 DEF K!Picked
  <2>2. K!High(y) \in K!Select(K!High(y))
    BY <1>1, <1>2 DEF K!Ascii, K!Select
  <2> QED
    BY <2>1, <2>2 DEF K!Member
<1>3. ASSUME K!Member(escape, y) PROVE y \in escape
  <2>1. K!High(y) \in K!Picked(escape, K!Low(y))
    BY <1>3 DEF K!Member, K!Select
  <2>2. PICK z \in escape : K!Low(z) = K!Low(y) /\ K!High(z) = K!High(y)
    BY <2>1 DEF K!Picked
  <2> QED
    BY <2>2, NibblesIdentify
<1> QED
  BY <1>2, <1>3

\* The first of some positions.
LEMMA FirstIsFirst ==
  ASSUME NEW positions \in SUBSET Nat, positions # {}
  PROVE  /\ K!First(positions) \in positions
         /\ \A j \in positions : K!First(positions) <= j
<1>1. \E i \in positions : \A j \in positions : i <= j
  BY LeastNatural
<1> QED
  BY <1>1 DEF K!First

-----------------------------------------------------------------------------
(* The slices.                                                             *)

\* The n-th slice to be collapsed is a slice: its number is told from its lane and its
\* register.
LEMMA SlicesInOrder ==
  ASSUME kernel \in Nat \ {0}, NEW n \in 0 .. Ways - 1
  PROVE  /\ InOrder(n) \in Slices
         /\ InOrder(n)[1] \in Nat /\ InOrder(n)[2] \in Nat
         /\ n = kernel * InOrder(n)[1] + InOrder(n)[2]
<1> DEFINE r == n \div kernel
           l == n % kernel
<1>1. n \in Nat /\ Regs \in Nat /\ n < kernel * Regs
  BY ChunkAssumption DEF Ways
<1>2. r \in Nat /\ l \in 0 .. kernel - 1 /\ n = kernel * r + l
  BY <1>1, Division
<1> HIDE DEF r, l
<1>3. r \in 0 .. Regs - 1
  <2>1. ASSUME r >= Regs PROVE FALSE
    <3>1. kernel * r >= kernel * Regs
      BY <1>1, <1>2, <2>1
    <3> QED
      BY <1>1, <1>2, <3>1
  <2> QED
    BY <1>1, <1>2, <2>1
<1> QED
  BY <1>2, <1>3 DEF InOrder, Slices, r, l

\* The n-th slice reads the n-th stride of bytes.
LEMMA SlicesReadInOrder ==
  ASSUME kernel \in Nat \ {0}, stride \in Nat, NEW n \in 0 .. Ways - 1
  PROVE  kernel * InOrder(n)[1] * stride + InOrder(n)[2] * stride = n * stride
<1> DEFINE r == InOrder(n)[1]
           l == InOrder(n)[2]
<1>1. r \in Nat /\ l \in Nat /\ n = kernel * r + l
  BY SlicesInOrder
<1> HIDE DEF r, l
<1>2. kernel * r * stride + l * stride = (kernel * r + l) * stride
  BY <1>1
<1> QED
  BY <1>1, <1>2 DEF r, l

\* No kernel is of width zero, and neither is the chunk.
LEMMA Widths ==
  ASSUME kernel \in PerReg
  PROVE  /\ kernel \in Nat \ {0} /\ kernel # Scalar
         /\ Ways \in Nat \ {0} /\ Ways * (Chunk \div Ways) = Chunk
<1>1. kernel \in Nat \ {0} /\ Regs \in Nat \ {0} /\ Chunk \in Nat \ {0} /\ kernel # Scalar
  BY ChunkAssumption
<1>2. Ways \in Nat \ {0} /\ Chunk % Ways = 0
  BY <1>1, ChunkAssumption DEF Ways
<1>3. Chunk = Ways * (Chunk \div Ways) + (Chunk % Ways) /\ Chunk \div Ways \in Nat
  BY <1>1, <1>2, Division
<1> QED
  BY <1>1, <1>2, <1>3

\* A stretch of whole strides ends where the next begins, and none reaches past the last.
LEMMA Strides ==
  ASSUME NEW a \in Nat, NEW s \in Nat, NEW n \in Nat, NEW m \in Nat, NEW len \in Nat,
         n + 1 <= m, a + m * s <= len
  PROVE  /\ a + n * s \in 0 .. len
         /\ a + n * s + s <= len
         /\ a + (n + 1) * s = a + n * s + s
<1>1. n * s \in Nat /\ (n + 1) * s = n * s + s
  OBVIOUS
<1>2. (n + 1) * s <= m * s
  OBVIOUS
<1> QED
  BY <1>1, <1>2

-----------------------------------------------------------------------------
(* The largest block visited.                                              *)

LargestIn(h, run, a, z) == /\ \A j \in a .. z : run[j] <= h
                           /\ \E j \in a .. z : run[j] = h

\* The larger of two is the largest of two stretches that leave no gap.
LEMMA LargerOfTwo ==
  ASSUME NEW run, NEW a \in Int, NEW m \in Int, NEW k \in Int, NEW z \in Int,
         a <= k, k <= m + 1, k <= z, m <= z,
         \A j \in a .. z : run[j] \in Int,
         NEW h \in Int, LargestIn(h, run, a, m), NEW g \in Int, LargestIn(g, run, k, z)
  PROVE  LargestIn(Greater(h, g), run, a, z)
<1>1. \A j \in a .. z : run[j] <= Greater(h, g)
  <2> SUFFICES ASSUME NEW j \in a .. z PROVE run[j] <= Greater(h, g)
    OBVIOUS
  <2>1. j \in a .. m \/ j \in k .. z
    OBVIOUS
  <2>2. run[j] <= h \/ run[j] <= g
    BY <2>1 DEF LargestIn
  <2> QED
    BY <2>2 DEF Greater
<1>2. \E j \in a .. z : run[j] = Greater(h, g)
  BY DEF LargestIn, Greater
<1> QED
  BY <1>1, <1>2 DEF LargestIn

\* There is only one.
LEMMA LargestIsUnique ==
  ASSUME NEW run, NEW n \in Nat, \A j \in 0 .. n : run[j] \in Block,
         NEW h, LargestIn(h, run, 0, n), q.blocks \in Nat
  PROVE  Largest(run, n) = h
<1>1. h \in Block /\ (\E j \in 0 .. n : run[j] = h) /\ (\A j \in 0 .. n : run[j] <= h)
  BY DEF LargestIn
<1>2. \A b \in Block : (\E j \in 0 .. n : run[j] = b) /\ (\A j \in 0 .. n : run[j] <= b)
                          => b = h
  BY <1>1 DEF Block
<1> QED
  BY <1>1, <1>2 DEF Largest

-----------------------------------------------------------------------------
(* The invariant.                                                          *)

\* The run of the lane being read.
Truth == RunOf(q, hay, 0, q.start)

\* No block visited up to here accepts.
Below(n) == \A j \in 0 .. n : Truth[j] < q.threshold

\* A lane that may be asked about a document.
Fit(l, doc) ==
  /\ IsQuotient(l.quotient)
  /\ doc \in Seq(DOMAIN l.quotient.rows)
  /\ Skips(l) => DOMAIN l.quotient.rows = K!Bytes
  /\ Plannable(l)

ComposePcs == {"next", "sweep", "collapse", "walk"}
SkipPcs == {"loop", "classify", "tail", "read"}
RestPcs == {"lanes", "done", "answered"}

\* Which lane is being read, and by which of the two scans.
Shape ==
  /\ DOMAIN sieve = 1 .. Len(sieve) /\ Len(sieve) \in Nat
  /\ \A i \in DOMAIN sieve : Fit(sieve[i], hay)
  /\ lane \in 0 .. Len(sieve)
  /\ lane > 0 => q = sieve[lane].quotient
  /\ lane = 0 => pc \in {"lanes", "answered"}
  /\ pc \in ComposePcs \cup SkipPcs \cup RestPcs
  /\ pc \in ComposePcs => Composing
  /\ pc \in SkipPcs => Skipping
  /\ Skipping => resident = sieve[lane].resident /\ leaves = K!Leaves(q, resident)

\* A scan in progress, of either kind.
Scanning ==
  pc \in ComposePcs \cup SkipPcs =>
    /\ verdict = "none"
    /\ at \in 0 .. Len(hay)
    /\ Below(at)

\* Each slice is the run over its part of the document, whatever block it is entered on.
SliceRun(n, b) == RunOf(q, hay, at + n * stride, b)
Slice(n, b) ==
  /\ compose[InOrder(n)][b] = SliceRun(n, b)[step]
  /\ LargestIn(high[InOrder(n)][b], SliceRun(n, b), 0, step)
Tiled == \A n \in 0 .. Ways - 1, b \in Block : Slice(n, b)

Sweeping ==
  /\ kernel # Scalar
  /\ stride \in Nat
  /\ at + Ways * stride <= Len(hay)
  /\ step \in 0 .. stride
  /\ Ways * stride = Chunk \/ Rest < Chunk
  /\ DOMAIN compose = Slices /\ DOMAIN high = Slices
  /\ Tiled

\* A lane that composes.
ComposeInv ==
  pc \in ComposePcs =>
    /\ kernel \in PerReg \cup {Scalar}
    /\ pc \in {"sweep", "collapse"} => Sweeping
    /\ pc \in {"next", "sweep"} => live = Truth[at]
    /\ pc = "collapse" => /\ step = stride
                          /\ way \in 0 .. Ways
                          /\ live = Truth[at + way * stride]
                          /\ LargestIn(seen, Truth, at, at + way * stride)
    /\ pc = "walk" => /\ step \in 0 .. Rest /\ step <= Chunk
                      /\ kernel # Scalar => Rest < Chunk
                      /\ live = Truth[at + step]
                      /\ LargestIn(seen, Truth, at, at + step)

\* A lane that skips.
SkipInv ==
  pc \in SkipPcs =>
    /\ live = Truth[at]
    /\ pc # "loop" => at < Len(hay)
    /\ pc \in {"classify", "tail"} =>
         /\ live = resident
         /\ K!Instrument(leaves) = "wide"
         /\ step \in StepWidths
         /\ window \in 0 .. Rest
         /\ \E m \in Nat : window = m * step
         /\ \A i \in at + 1 .. at + window : hay[i] \notin leaves
    /\ pc = "tail" => window + step > Rest

\* A lane that has been read.
Rested ==
  pc \in RestPcs /\ lane > 0 =>
    /\ verdict \in {"refuted", "survives"}
    /\ verdict = "refuted" <=> StaysBelow(q)
    /\ verdict = "refuted" => at \in 0 .. Len(hay) /\ live = Truth[at]
    /\ pc = "lanes" => verdict = "survives"

\* What `any` has come to.
Answered ==
  /\ \A i \in 1 .. lane - 1 : ~StaysBelow(sieve[i].quotient)
  /\ answer = "none" <=> pc # "answered"
  /\ answer \in {"none", "refuted", "survives"}
  /\ answer = "refuted" => lane > 0 /\ StaysBelow(q)
  /\ answer = "survives" => lane = Len(sieve) /\ (lane > 0 => ~StaysBelow(q))

IInv == Shape /\ Scanning /\ ComposeInv /\ SkipInv /\ Rested /\ Answered

-----------------------------------------------------------------------------
(* What the invariant says of the lane being read.                         *)

LEMMA Reading ==
  ASSUME Shape, lane > 0
  PROVE  /\ Fit(sieve[lane], hay) /\ q = sieve[lane].quotient
         /\ IsQuotient(q) /\ hay \in Seq(DOMAIN q.rows)
         /\ Len(hay) \in Nat /\ q.threshold \in Nat /\ q.blocks \in Nat
         /\ q.start \in Block /\ q.start < q.threshold
         /\ Block = BlocksOf(q) /\ Block \subseteq Nat
         /\ Truth \in [0 .. Len(hay) -> Block] /\ Truth[0] = q.start
         /\ \A j \in 0 .. Len(hay) : Truth[j] \in Nat
         /\ \A j \in 0 .. Len(hay) - 1 : Truth[j + 1] = q.rows[hay[j + 1]][Truth[j]]
<1>1. Fit(sieve[lane], hay) /\ q = sieve[lane].quotient
  BY DEF Shape
<1>2. IsQuotient(q) /\ hay \in Seq(DOMAIN q.rows)
  BY <1>1 DEF Fit
<1>3. /\ Len(hay) \in Nat /\ q.threshold \in Nat /\ q.blocks \in Nat
      /\ q.start \in Block /\ q.start < q.threshold
      /\ Block = BlocksOf(q) /\ Block \subseteq Nat
  BY <1>2 DEF IsQuotient, Block, BlocksOf
<1>4. /\ Truth \in [0 .. Len(hay) -> Block] /\ Truth[0] = q.start
      /\ \A j \in 0 .. Len(hay) - 1 : Truth[j + 1] = q.rows[hay[j + 1]][Truth[j]]
  BY <1>2, <1>3, RunFromStart DEF Truth
<1>5. ASSUME NEW j \in 0 .. Len(hay) PROVE Truth[j] \in Nat
  <2>1. Truth[j] \in Block
    BY <1>4
  <2> QED
    BY <1>3, <2>1, Zenon
<1> QED
  BY <1>1, <1>2, <1>3, <1>4, <1>5

\* What a check of the blocks visited since the last one says of the run.
LEMMA Checked ==
  ASSUME Shape, lane > 0, at \in 0 .. Len(hay), Below(at),
         NEW n \in at .. Len(hay), LargestIn(seen, Truth, at, n)
  PROVE  /\ seen \in Nat
         /\ seen < q.threshold => Below(n)
         /\ seen >= q.threshold => ~StaysBelow(q)
<1>1. Len(hay) \in Nat /\ q.threshold \in Nat /\ Block \subseteq Nat
      /\ \A j \in 0 .. Len(hay) : Truth[j] \in Nat
  BY Reading
<1>2. PICK j \in at .. n : Truth[j] = seen
  BY DEF LargestIn
<1>3. j \in 0 .. Len(hay) /\ seen \in Nat
  <2>1. j \in 0 .. Len(hay)
    BY <1>1
  <2> QED
    BY <1>1, <1>2, <2>1
<1>4. ASSUME seen < q.threshold PROVE Below(n)
  <2> SUFFICES ASSUME NEW i \in 0 .. n PROVE Truth[i] < q.threshold
    BY DEF Below
  <2>1. i \in 0 .. at \/ i \in at .. n
    OBVIOUS
  <2>2. Truth[i] \in Nat
    <3>1. i \in 0 .. Len(hay)
      BY <1>1
    <3> QED
      BY <1>1, <3>1
  <2> QED
    BY <1>1, <1>3, <1>4, <2>1, <2>2 DEF Below, LargestIn
<1>5. ASSUME seen >= q.threshold PROVE ~StaysBelow(q)
  <2>1. ~(Truth[j] < q.threshold)
    BY <1>1, <1>2, <1>3, <1>5
  <2> QED
    BY <1>3, <2>1 DEF StaysBelow, Truth
<1> QED
  BY <1>3, <1>4, <1>5

\* To the end of the document nothing accepts, and to have met a block that does.
LEMMA BelowToTheEnd ==
  ASSUME Shape, lane > 0
  PROVE  /\ StaysBelow(q) <=> Below(Len(hay))
         /\ \A n \in 0 .. Len(hay) : Truth[n] >= q.threshold => ~StaysBelow(q)
<1>1. Len(hay) \in Nat /\ q.threshold \in Nat /\ Block \subseteq Nat
      /\ \A j \in 0 .. Len(hay) : Truth[j] \in Nat
  BY Reading
<1>2. StaysBelow(q) <=> Below(Len(hay))
  BY DEF StaysBelow, Below, Truth
<1>3. ASSUME NEW n \in 0 .. Len(hay), Truth[n] >= q.threshold PROVE ~Below(Len(hay))
  <2>1. ~(Truth[n] < q.threshold)
    BY <1>1, <1>3
  <2>2. n \in 0 .. Len(hay)
    OBVIOUS
  <2> QED
    BY <2>1, <2>2 DEF Below
<1> QED
  BY <1>2, <1>3

-----------------------------------------------------------------------------
(* The initial states.                                                     *)

LEMMA InitIInv == Init => IInv
<1> SUFFICES ASSUME Init PROVE IInv
  OBVIOUS
<1>1. PICK reading \in Readings :
        /\ \A i \in DOMAIN reading.sieve : Plannable(reading.sieve[i])
        /\ sieve = reading.sieve
        /\ hay \in reading.hays
  BY DEF Init
<1>2. sieve \in Seq({sieve[i] : i \in DOMAIN sieve})
  BY <1>1, ReadingsAssumption
<1>3. DOMAIN sieve = 1 .. Len(sieve) /\ Len(sieve) \in Nat
  BY <1>2
<1>4. ASSUME NEW i \in DOMAIN sieve PROVE Fit(sieve[i], hay)
  BY <1>1, ReadingsAssumption DEF Fit
<1>5. lane = 0 /\ pc = "lanes" /\ answer = "none"
  BY DEF Init
<1>6. Shape
  BY <1>3, <1>4, <1>5 DEF Shape, Composing, Skipping, ComposePcs, SkipPcs, RestPcs
<1>7. Scanning /\ ComposeInv /\ SkipInv /\ Rested
  BY <1>5 DEF Scanning, ComposeInv, SkipInv, Rested, ComposePcs, SkipPcs
<1>8. Answered
  BY <1>3, <1>5 DEF Answered
<1> QED
  BY <1>6, <1>7, <1>8 DEF IInv

-----------------------------------------------------------------------------
(* What every step of a scan leaves alone.                                 *)

Kept == UNCHANGED <<sieve, lane, answer, q, hay, resident, leaves>>

Within(pcs) == pc \in pcs /\ pc' \in pcs \cup {"done"}

LEMMA ScanKeeps ==
  ASSUME IInv, Kept, Within(ComposePcs) \/ Within(SkipPcs)
  PROVE  Shape' /\ Answered' /\ Truth' = Truth /\ lane > 0
<1> USE DEF Kept, Within, ComposePcs, SkipPcs, RestPcs
<1>1. lane > 0 /\ lane' > 0
  BY DEF IInv, Shape, Composing, Skipping
<1>2. Shape'
  <2>1. (\A i \in DOMAIN sieve : Fit(sieve[i], hay))'
    BY DEF IInv, Shape
  <2>2. Composing' = Composing /\ Skipping' = Skipping
    BY DEF Composing, Skipping
  <2>3. (Skipping => resident = sieve[lane].resident /\ leaves = K!Leaves(q, resident))'
    BY <2>2 DEF IInv, Shape
  <2> QED
    BY <1>1, <2>1, <2>2, <2>3 DEF IInv, Shape
<1>3. Answered'
  <2>1. \A quotient : StaysBelow(quotient)' <=> StaysBelow(quotient)
    BY DEF StaysBelow
  <2> QED
    BY <2>1 DEF IInv, Answered
<1>4. Truth' = Truth
  BY DEF Truth
<1> QED
  BY <1>1, <1>2, <1>3, <1>4

\* What is left to show of a step within the scan that composes, and of one within the
\* scan that jumps.
LEMMA ComposeGoesOn ==
  ASSUME IInv, Kept, pc \in ComposePcs, pc' \in ComposePcs, Scanning', ComposeInv'
  PROVE  IInv'
<1>1. Shape' /\ Answered'
  BY ScanKeeps DEF Within
<1>2. SkipInv' /\ Rested'
  BY DEF SkipInv, Rested, ComposePcs, SkipPcs, RestPcs
<1> QED
  BY <1>1, <1>2 DEF IInv

LEMMA SkipGoesOn ==
  ASSUME IInv, Kept, pc \in SkipPcs, pc' \in SkipPcs, Scanning', SkipInv'
  PROVE  IInv'
<1>1. Shape' /\ Answered'
  BY ScanKeeps DEF Within
<1>2. ComposeInv' /\ Rested'
  BY DEF ComposeInv, Rested, ComposePcs, SkipPcs, RestPcs
<1> QED
  BY <1>1, <1>2 DEF IInv

\* What is left to show of the last step of either.
LEMMA ScanEnds ==
  ASSUME IInv, Kept, pc \in ComposePcs \cup SkipPcs, pc' = "done",
         verdict' \in {"refuted", "survives"},
         verdict' = "refuted" <=> StaysBelow(q),
         verdict' = "refuted" => at' \in 0 .. Len(hay) /\ live' = Truth[at']
  PROVE  IInv'
<1>1. Shape' /\ Answered' /\ Truth' = Truth
  BY ScanKeeps DEF Within
<1>2. StaysBelow(q)' <=> StaysBelow(q)
  BY DEF StaysBelow, Kept
<1>3. Scanning' /\ ComposeInv' /\ SkipInv'
  BY DEF Scanning, ComposeInv, SkipInv, ComposePcs, SkipPcs
<1>4. Rested'
  BY <1>1, <1>2 DEF Rested, Kept
<1> QED
  BY <1>1, <1>3, <1>4 DEF IInv

-----------------------------------------------------------------------------
(* The steps of the scan that composes.                                    *)

Aside == UNCHANGED <<resident, leaves, window, sieve, lane, answer>>

LEMMA SweepStep ==
  ASSUME IInv, Aside, pc = "next", kernel # Scalar, NEW n \in 0 .. Rest, Sweep(n),
         Ways * (n \div Ways) = n, n = Chunk \/ Rest < Chunk
  PROVE  IInv'
<1>1. Kept /\ pc \in ComposePcs /\ pc' \in ComposePcs
  BY DEF Kept, Aside, Sweep, ComposePcs
<1>2. Truth' = Truth /\ lane > 0 /\ q' = q
  BY <1>1, ScanKeeps DEF Within, Kept
<1>3. /\ IsQuotient(q) /\ hay \in Seq(DOMAIN q.rows) /\ Len(hay) \in Nat
      /\ Block = BlocksOf(q)
  BY <1>2, Reading DEF IInv
<1>4. /\ kernel \in PerReg /\ live = Truth[at]
      /\ at \in 0 .. Len(hay) /\ Below(at) /\ verdict = "none"
  BY <1>1 DEF IInv, ComposeInv, Scanning
<1>5. kernel \in Nat \ {0} /\ Ways \in Nat \ {0}
  BY <1>4, Widths
<1>6. /\ pc' = "sweep" /\ stride' = n \div Ways /\ step' = 0
      /\ compose' = Untouched /\ high' = Untouched
      /\ UNCHANGED <<hay, kernel, at, live, verdict>>
  BY DEF Sweep
<1>7. n \in Nat /\ stride' \in Nat /\ Ways * stride' = n
  <2>1. n \in Nat
    BY <1>3, <1>4 DEF Rest
  <2> QED
    BY <1>5, <1>6, <2>1, Division
<1>8. Ways' = Ways /\ Slices' = Slices /\ Block' = Block /\ Rest' = Rest
  BY <1>2, <1>6 DEF Ways, Slices, Block, Rest
<1>9. at + Ways * stride' <= Len(hay)
  BY <1>3, <1>4, <1>7 DEF Rest
<1>10. Tiled'
  <2> SUFFICES ASSUME NEW w \in 0 .. Ways - 1, NEW b \in Block PROVE Slice(w, b)'
    BY <1>8 DEF Tiled
  <2>1. InOrder(w) \in Slices /\ InOrder(w)' = InOrder(w)
    BY <1>5, <1>6, SlicesInOrder DEF InOrder
  <2>2. compose'[InOrder(w)][b] = b /\ high'[InOrder(w)][b] = b
    BY <1>6, <2>1 DEF Untouched
  <2>3. at + w * stride' \in 0 .. Len(hay)
    <3>1. w \in Nat /\ w + 1 <= Ways /\ at \in Nat /\ Ways \in Nat
      BY <1>3, <1>4, <1>5
    <3> QED
      BY <1>3, <1>7, <1>9, <3>1, Strides
  <2>4. SliceRun(w, b)' = RunOf(q, hay, at + w * stride', b)
    BY <1>2, <1>6 DEF SliceRun
  <2>5. RunOf(q, hay, at + w * stride', b)[0] = b
    BY <1>3, <2>3, RunFacts
  <2>6. b \in Int
    BY <1>3 DEF BlocksOf, IsQuotient
  <2>7. LargestIn(b, SliceRun(w, b)', 0, 0)
    BY <2>4, <2>5, <2>6 DEF LargestIn
  <2> QED
    BY <1>6, <2>1, <2>2, <2>4, <2>5, <2>7 DEF Slice
<1>11. Sweeping'
  <2>1. DOMAIN compose' = Slices /\ DOMAIN high' = Slices
    BY <1>6 DEF Untouched
  <2>2. step' \in 0 .. stride'
    BY <1>6, <1>7
  <2> QED
    BY <1>6, <1>7, <1>8, <1>9, <1>10, <2>1, <2>2 DEF Sweeping
<1>12. ComposeInv'
  BY <1>2, <1>4, <1>6, <1>11 DEF ComposeInv
<1>13. Scanning'
  BY <1>2, <1>4, <1>6 DEF Scanning, Below
<1> QED
  BY <1>1, <1>12, <1>13, ComposeGoesOn

LEMMA SweepChunkStep == ASSUME IInv, Aside, SweepChunk PROVE IInv'
<1>1. pc = "next" /\ kernel # Scalar /\ Rest >= Chunk /\ Sweep(Chunk)
  BY DEF SweepChunk
<1>2. kernel \in PerReg
  BY <1>1 DEF IInv, ComposeInv, ComposePcs
<1>3. Ways * (Chunk \div Ways) = Chunk /\ Chunk \in 0 .. Rest
  <2>1. Len(hay) \in Nat /\ at \in 0 .. Len(hay)
    BY <1>1, Reading DEF IInv, Scanning, Shape, Composing, ComposePcs
  <2> QED
    BY <1>1, <1>2, <2>1, Widths, ChunkAssumption DEF Rest
<1> QED
  BY <1>1, <1>3, SweepStep

LEMMA SweepPavedStep == ASSUME IInv, Aside, SweepPaved PROVE IInv'
<1> DEFINE n == (Rest \div Ways) * Ways
<1>1. pc = "next" /\ kernel # Scalar /\ Rest < Chunk /\ Sweep(n)
  BY DEF SweepPaved
<1>2. Ways \in Nat \ {0}
  BY <1>1, Widths DEF IInv, ComposeInv, ComposePcs
<1>3. Rest \in Nat
  <2>1. Len(hay) \in Nat /\ at \in 0 .. Len(hay)
    BY <1>1, Reading DEF IInv, Scanning, Shape, Composing, ComposePcs
  <2> QED
    BY <2>1 DEF Rest
<1>4. /\ Rest \div Ways \in Nat /\ Rest % Ways \in 0 .. Ways - 1
      /\ Rest = Ways * (Rest \div Ways) + (Rest % Ways)
  BY <1>2, <1>3, Division
<1>5. n \in 0 .. Rest /\ n = Ways * (Rest \div Ways) + 0
  <2> DEFINE k == Rest \div Ways
             m == Rest % Ways
  <2>1. k \in Nat /\ m \in 0 .. Ways - 1 /\ Rest = Ways * k + m
    BY <1>4
  <2> HIDE DEF k, m
  <2>2. k * Ways \in Nat /\ k * Ways = Ways * k
    BY <1>2, <2>1
  <2>3. k * Ways \in 0 .. Rest /\ k * Ways = Ways * k + 0
    BY <1>2, <1>3, <2>1, <2>2
  <2> QED
    BY <2>3 DEF k
<1>6. n \div Ways = Rest \div Ways
  <2>1. n \in Nat /\ 0 \in 0 .. Ways - 1
    BY <1>2, <1>3, <1>5
  <2> HIDE DEF n
  <2> QED
    BY <1>2, <1>4, <1>5, <2>1, DivisionIsUnique
<1>7. Ways * (n \div Ways) = n
  BY <1>2, <1>4, <1>5, <1>6
<1> QED
  <2> HIDE DEF n
  <2> QED
    BY <1>1, <1>5, <1>7, SweepStep

\* What is known whenever a lane is being read.
LEMMA InScan ==
  ASSUME IInv, pc \in ComposePcs \cup SkipPcs
  PROVE  /\ Shape /\ lane > 0
         /\ IsQuotient(q) /\ hay \in Seq(DOMAIN q.rows) /\ Len(hay) \in Nat
         /\ q.threshold \in Nat /\ Block = BlocksOf(q) /\ Block \subseteq Nat
         /\ Truth \in [0 .. Len(hay) -> Block]
         /\ at \in 0 .. Len(hay) /\ Below(at) /\ verdict = "none"
         /\ Rest \in Nat /\ at + Rest = Len(hay)
<1>1. Shape /\ lane > 0
  BY DEF IInv, Shape, Composing, Skipping, ComposePcs, SkipPcs
<1>2. at \in 0 .. Len(hay) /\ Below(at) /\ verdict = "none"
  BY DEF IInv, Scanning
<1>3. Len(hay) \in Nat
  BY <1>1, Reading
<1>4. Rest \in Nat /\ at + Rest = Len(hay)
  BY <1>2, <1>3 DEF Rest
<1> QED
  BY <1>1, <1>2, <1>4, Reading

\* What a slice reads: as many bytes as its stride, all of the document, and in its run.
LEMMA InSlice ==
  ASSUME IInv, pc \in {"sweep", "collapse"}, NEW n \in 0 .. Ways - 1, NEW b \in Block
  PROVE  /\ at + n * stride \in 0 .. Len(hay)
         /\ at + n * stride + stride <= Len(hay)
         /\ at + (n + 1) * stride = at + n * stride + stride
         /\ SliceRun(n, b) \in [0 .. Len(hay) - (at + n * stride) -> Block]
         /\ \A j \in 1 .. Len(hay) - (at + n * stride) :
              SliceRun(n, b)[j]
                = q.rows[hay[(at + n * stride) + j]][SliceRun(n, b)[j - 1]]
<1>1. kernel \in PerReg /\ Sweeping
  BY DEF IInv, ComposeInv, ComposePcs, Sweeping
<1>2. stride \in Nat /\ at + Ways * stride <= Len(hay)
  BY <1>1 DEF Sweeping
<1>3. /\ at \in Nat /\ Len(hay) \in Nat /\ IsQuotient(q) /\ hay \in Seq(DOMAIN q.rows)
      /\ Block = BlocksOf(q)
  <2>1. at \in 0 .. Len(hay)
    BY InScan DEF ComposePcs
  <2> QED
    BY <2>1, InScan DEF ComposePcs
<1>4. Ways \in Nat /\ n \in Nat /\ n + 1 <= Ways
  BY <1>1, Widths
<1>5. /\ at + n * stride \in 0 .. Len(hay)
      /\ at + n * stride + stride <= Len(hay)
      /\ at + (n + 1) * stride = at + n * stride + stride
  BY <1>2, <1>3, <1>4, Strides
<1> QED
  BY <1>3, <1>5, RunFacts DEF SliceRun

LEMMA ComposeStep == ASSUME IInv, Aside, Compose PROVE IInv'
<1>1. /\ pc = "sweep" /\ step < stride /\ step' = step + 1
      /\ compose' = [w \in DOMAIN compose |-> [b \in Block |-> RowFor(w)[compose[w][b]]]]
      /\ high' = [w \in DOMAIN high |->
                    [b \in Block |-> Greater(high[w][b], compose'[w][b])]]
      /\ UNCHANGED <<q, hay, kernel, pc, at, stride, way, live, seen, verdict>>
  BY DEF Compose
<1>2. Kept /\ pc \in ComposePcs /\ pc' \in ComposePcs
  BY <1>1 DEF Kept, Aside, ComposePcs
<1>3. /\ kernel \in PerReg /\ stride \in Nat /\ step \in 0 .. stride
      /\ DOMAIN compose = Slices /\ DOMAIN high = Slices /\ Tiled /\ Sweeping
      /\ live = Truth[at]
  BY <1>1 DEF IInv, ComposeInv, ComposePcs, Sweeping
<1>4. kernel \in Nat \ {0} /\ Ways \in Nat \ {0}
  BY <1>3, Widths
<1>5. Ways' = Ways /\ Slices' = Slices /\ Block' = Block /\ Rest' = Rest
  BY <1>1 DEF Ways, Slices, Block, Rest
<1>6. ASSUME NEW n \in 0 .. Ways - 1, NEW b \in Block PROVE Slice(n, b)'
  <2> DEFINE v == InOrder(n)
             run == SliceRun(n, b)
             from == at + n * stride
  <2>1. v \in Slices /\ v' = v
    BY <1>1, <1>4, SlicesInOrder DEF InOrder
  <2>2. from \in 0 .. Len(hay) /\ from + stride <= Len(hay)
        /\ run \in [0 .. Len(hay) - from -> Block]
        /\ \A j \in 1 .. Len(hay) - from : run[j] = q.rows[hay[from + j]][run[j - 1]]
    BY <1>1, InSlice
  <2>3. compose[v][b] = run[step] /\ LargestIn(high[v][b], run, 0, step)
    BY <1>3 DEF Tiled, Slice
  <2>4. RowFor(v) = q.rows[hay[from + step + 1]]
    <3>1. v[1] \in Nat /\ v[2] \in Nat
      BY <1>4, SlicesInOrder
    <3>2. kernel * v[1] * stride + v[2] * stride = n * stride
      BY <1>3, <1>4, SlicesReadInOrder
    <3>3. at \in Nat /\ kernel * v[1] * stride \in Nat /\ v[2] * stride \in Nat
      <4>1. at \in 0 .. Len(hay)
        BY <1>2, InScan
      <4> QED
        BY <1>3, <1>4, <3>1, <4>1, SMTT(30)
    <3>4. at + kernel * v[1] * stride + v[2] * stride
            = at + (kernel * v[1] * stride + v[2] * stride)
      BY <3>3
    <3> HIDE DEF v
    <3>5. at + kernel * v[1] * stride + v[2] * stride + step + 1 = at + n * stride + step + 1
      BY <3>2, <3>4
    <3> QED
      BY <3>5 DEF RowFor
  <2>5. step \in Nat /\ step + 1 \in 1 .. Len(hay) - from /\ (step + 1) - 1 = step
        /\ from + (step + 1) = from + step + 1 /\ step \in 0 .. Len(hay) - from
    <3> HIDE DEF from
    <3>1. Len(hay) \in Nat
      BY <1>2, InScan
    <3> QED
      BY <1>1, <1>3, <2>2, <3>1
  <2>6. run[step + 1] = q.rows[hay[from + (step + 1)]][run[(step + 1) - 1]]
    <3> HIDE DEF run, from
    <3> QED
      BY <2>2, <2>5
  <2>7. compose'[v][b] = run[step + 1]
    <3>1. compose'[v][b] = RowFor(v)[compose[v][b]]
      BY <1>1, <1>3, <2>1
    <3> HIDE DEF run, from, v
    <3> QED
      BY <2>3, <2>4, <2>5, <2>6, <3>1
  <2>8. high'[v][b] = Greater(high[v][b], run[step + 1])
    BY <1>1, <1>3, <2>1, <2>7
  <2>9. LargestIn(high'[v][b], run, 0, step + 1)
    <3> HIDE DEF run, from, v
    <3>1. \A j \in 0 .. step + 1 : run[j] \in Int
      <4>1. Block \subseteq Nat /\ Len(hay) \in Nat
        BY <1>2, InScan
      <4> SUFFICES ASSUME NEW j \in 0 .. step + 1 PROVE run[j] \in Int
        OBVIOUS
      <4>2. j \in 0 .. Len(hay) - from
        <5>1. step + 1 <= Len(hay) - from /\ Len(hay) - from \in Int
          BY <2>2, <2>5, <4>1
        <5> QED
          BY <2>5, <5>1
      <4>3. run[j] \in Nat
        <5>1. run[j] \in Block
          BY <2>2, <4>2
        <5> QED
          BY <4>1, <5>1, Zenon
      <4> QED
        BY <4>3
    <3>2. high[v][b] \in Int
      BY <2>3, <2>5, <3>1 DEF LargestIn
    <3>3. LargestIn(run[step + 1], run, step + 1, step + 1) /\ run[step + 1] \in Int
      BY <2>5, <3>1 DEF LargestIn
    <3>4. /\ 0 \in Int /\ step \in Int /\ step + 1 \in Int
          /\ 0 <= step + 1 /\ step <= step + 1 /\ step + 1 <= step + 1
      BY <2>5
    <3>5. LargestIn(Greater(high[v][b], run[step + 1]), run, 0, step + 1)
      BY <2>3, <3>1, <3>2, <3>3, <3>4, LargerOfTwo
    <3> QED
      BY <2>8, <3>5
  <2>10. run' = run
    BY <1>1 DEF SliceRun
  <2> QED
    BY <1>1, <2>1, <2>7, <2>9, <2>10 DEF Slice
<1>7. Tiled'
  BY <1>5, <1>6 DEF Tiled
<1>8. Sweeping'
  <2>1. DOMAIN compose' = Slices /\ DOMAIN high' = Slices
    BY <1>1, <1>3
  <2>2. step' \in 0 .. stride'
    BY <1>1, <1>3
  <2>3. (kernel # Scalar)' /\ (stride \in Nat)' /\ (at + Ways * stride <= Len(hay))'
        /\ (Ways * stride = Chunk \/ Rest < Chunk)'
    BY <1>1, <1>3, <1>5 DEF Sweeping
  <2> QED
    BY <1>5, <1>7, <2>1, <2>2, <2>3 DEF Sweeping
<1>9. Truth' = Truth
  BY <1>2, ScanKeeps DEF Within
<1>10. ComposeInv'
  BY <1>1, <1>3, <1>8, <1>9 DEF ComposeInv
<1>11. Scanning'
  BY <1>1, <1>2, <1>9 DEF IInv, Scanning, Below
<1> QED
  BY <1>2, <1>10, <1>11, ComposeGoesOn

LEMMA SweepingKept ==
  ASSUME Sweeping, UNCHANGED <<q, hay, kernel, at, stride, step, compose, high>>
  PROVE  Sweeping'
<1>1. Ways' = Ways /\ Slices' = Slices /\ Block' = Block /\ Rest' = Rest
  BY DEF Ways, Slices, Block, Rest
<1>2. Tiled'
  <2> SUFFICES ASSUME NEW n \in 0 .. Ways - 1, NEW b \in Block PROVE Slice(n, b)'
    BY <1>1 DEF Tiled
  <2>1. Slice(n, b)
    BY DEF Sweeping, Tiled
  <2> QED
    BY <2>1 DEF Slice, SliceRun, InOrder
<1> QED
  BY <1>1, <1>2 DEF Sweeping

LEMMA EndSweepStep == ASSUME IInv, Aside, EndSweep PROVE IInv'
<1>1. /\ pc = "sweep" /\ step = stride /\ pc' = "collapse" /\ way' = 0 /\ seen' = live
      /\ UNCHANGED <<q, hay, kernel, at, stride, step, compose, high, live, verdict>>
  BY DEF EndSweep
<1>2. Kept /\ pc \in ComposePcs /\ pc' \in ComposePcs
  BY <1>1 DEF Kept, Aside, ComposePcs
<1>3. kernel \in PerReg /\ Sweeping /\ live = Truth[at] /\ stride \in Nat
  BY <1>1 DEF IInv, ComposeInv, ComposePcs, Sweeping
<1>4. Truth' = Truth /\ Ways' = Ways
  BY <1>1, <1>2, ScanKeeps DEF Within, Ways
<1>5. Sweeping'
  BY <1>1, <1>3, SweepingKept
<1>6. at + way' * stride = at /\ Truth[at] \in Nat /\ at \in Nat
  <2>1. at \in 0 .. Len(hay) /\ Truth \in [0 .. Len(hay) -> Block] /\ Block \subseteq Nat
    BY <1>2, InScan
  <2>2. at \in Nat
    BY <2>1
  <2> QED
    BY <1>1, <1>3, <2>1, <2>2
<1>7. LargestIn(seen', Truth, at, at)
  BY <1>1, <1>3, <1>6 DEF LargestIn
<1>8. way' \in 0 .. Ways
  BY <1>1, <1>3, Widths
<1>9. ComposeInv'
  BY <1>1, <1>3, <1>4, <1>5, <1>6, <1>7, <1>8 DEF ComposeInv
<1>10. Scanning'
  BY <1>1, <1>2, <1>4 DEF IInv, Scanning, Below
<1> QED
  BY <1>2, <1>9, <1>10, ComposeGoesOn

\* The run from a block it has come to is the rest of it.
LEMMA TruthSplits ==
  ASSUME Shape, lane > 0, NEW m \in 0 .. Len(hay)
  PROVE  \A j \in 0 .. Len(hay) - m : Truth[m + j] = RunOf(q, hay, m, Truth[m])[j]
<1>1. IsQuotient(q) /\ hay \in Seq(DOMAIN q.rows) /\ Len(hay) \in Nat
      /\ q.start \in BlocksOf(q)
  BY Reading
<1>2. 0 \in 0 .. Len(hay) /\ Len(hay) - 0 = Len(hay) /\ 0 + m = m
  BY <1>1
<1>3. \A a \in 0 .. Len(hay), b \in BlocksOf(q) : \A k \in 0 .. Len(hay) - a :
        \A j \in 0 .. Len(hay) - a - k :
          RunOf(q, hay, a, b)[k + j] = RunOf(q, hay, a + k, RunOf(q, hay, a, b)[k])[j]
  <2> TAKE a \in 0 .. Len(hay), b \in BlocksOf(q)
  <2> TAKE k \in 0 .. Len(hay) - a
  <2> QED
    BY <1>1, RunSplits
<1>4. m \in 0 .. Len(hay) - 0 /\ Len(hay) - 0 - m = Len(hay) - m
  BY <1>1
<1>5. \A j \in 0 .. Len(hay) - 0 - m :
        RunOf(q, hay, 0, q.start)[m + j]
          = RunOf(q, hay, 0 + m, RunOf(q, hay, 0, q.start)[m])[j]
  BY <1>1, <1>2, <1>3, <1>4
<1> QED
  BY <1>2, <1>4, <1>5 DEF Truth

LEMMA CollapseStep == ASSUME IInv, Aside, Collapse PROVE IInv'
<1> DEFINE v == InOrder(way)
           m == at + way * stride
           run == SliceRun(way, live)
<1>1. /\ pc = "collapse" /\ way < Ways /\ way' = way + 1
      /\ seen' = Greater(seen, high[v][live]) /\ live' = compose[v][live]
      /\ UNCHANGED <<q, hay, kernel, pc, at, stride, step, compose, high, verdict>>
  BY DEF Collapse
<1>2. Kept /\ pc \in ComposePcs /\ pc' \in ComposePcs
  BY <1>1 DEF Kept, Aside, ComposePcs
<1>3. /\ kernel \in PerReg /\ Sweeping /\ step = stride /\ way \in 0 .. Ways
      /\ live = Truth[m] /\ LargestIn(seen, Truth, at, m) /\ stride \in Nat /\ Tiled
  BY <1>1 DEF IInv, ComposeInv, ComposePcs, Sweeping
<1>4. Truth' = Truth /\ Ways' = Ways
  BY <1>1, <1>2, ScanKeeps DEF Within, Ways
<1>5. way \in 0 .. Ways - 1 /\ way' \in 0 .. Ways
  BY <1>1, <1>3, Widths
<1>6. m \in 0 .. Len(hay) /\ m + stride <= Len(hay) /\ at + way' * stride = m + stride
      /\ live \in Block
  <2>1. /\ m \in 0 .. Len(hay) /\ m + stride <= Len(hay)
        /\ at + (way + 1) * stride = m + stride
    <3>1. Truth[0] \in Block
      BY <1>2, InScan
    <3> QED
      BY <1>1, <1>5, <3>1, InSlice
  <2>2. live \in Block
    <3> HIDE DEF m
    <3> QED
      BY <1>2, <1>3, <2>1, InScan
  <2> QED
    BY <1>1, <2>1, <2>2
<1>7. compose[v][live] = run[stride] /\ LargestIn(high[v][live], run, 0, stride)
  BY <1>3, <1>5, <1>6 DEF Tiled, Slice
<1>8. \A j \in 0 .. stride : Truth[m + j] = run[j]
  <2>1. run = RunOf(q, hay, m, Truth[m])
    BY <1>3 DEF SliceRun
  <2> HIDE DEF m, run
  <2>2. \A j \in 0 .. Len(hay) - m : Truth[m + j] = run[j]
    BY <1>2, <1>6, <2>1, InScan, TruthSplits
  <2>3. \A j \in 0 .. stride : j \in 0 .. Len(hay) - m
    <3>1. Len(hay) \in Nat
      BY <1>2, InScan
    <3> QED
      BY <1>3, <1>6, <3>1
  <2> QED
    BY <2>2, <2>3
<1> HIDE DEF v, m, run
<1>9. live' = Truth[m + stride]
  BY <1>1, <1>3, <1>7, <1>8
<1>10. /\ at \in Nat /\ m \in Nat /\ at <= m
       /\ \A j \in at .. m + stride : Truth[j] \in Nat
  <2>1. at \in 0 .. Len(hay) /\ Truth \in [0 .. Len(hay) -> Block] /\ Block \subseteq Nat
        /\ Len(hay) \in Nat
    BY <1>2, InScan
  <2>2. at \in Nat /\ m \in Nat
    BY <1>6, <2>1
  <2>3. at <= m
    <3>1. way * stride \in Nat
      BY <1>3, <1>5, Widths
    <3> QED
      BY <2>2, <3>1 DEF m
  <2>4. ASSUME NEW j \in at .. m + stride PROVE Truth[j] \in Nat
    <3>1. j \in 0 .. Len(hay)
      BY <1>3, <1>6, <2>1, <2>2
    <3>2. Truth[j] \in Block
      BY <2>1, <3>1
    <3> QED
      BY <2>1, <3>2, Zenon
  <2> QED
    BY <2>2, <2>3, <2>4
<1>11. LargestIn(high[v][live], Truth, m, m + stride)
  <2>1. ASSUME NEW j \in m .. m + stride PROVE Truth[j] <= high[v][live]
    <3>1. j - m \in 0 .. stride /\ m + (j - m) = j
      BY <1>3, <1>10
    <3>2. run[j - m] <= high[v][live]
      BY <1>7, <3>1 DEF LargestIn
    <3> QED
      BY <1>8, <3>1, <3>2
  <2>2. PICK i \in 0 .. stride : run[i] = high[v][live]
    BY <1>7 DEF LargestIn
  <2>3. m + i \in m .. m + stride /\ Truth[m + i] = high[v][live]
    BY <1>3, <1>8, <1>10, <2>2
  <2> QED
    BY <2>1, <2>3 DEF LargestIn
<1>12. LargestIn(seen', Truth, at, m + stride)
  <2>1. seen \in Int /\ high[v][live] \in Int
    <3>1. \A j \in at .. m : j \in at .. m + stride
      BY <1>3, <1>10
    <3>2. \A j \in m .. m + stride : j \in at .. m + stride
      BY <1>3, <1>10
    <3> QED
      BY <1>3, <1>10, <1>11, <3>1, <3>2 DEF LargestIn
  <2>2. /\ at \in Int /\ m \in Int /\ m + stride \in Int /\ at <= m /\ m <= m + 1
        /\ m <= m + stride /\ \A j \in at .. m + stride : Truth[j] \in Int
    BY <1>3, <1>10
  <2> QED
    BY <1>1, <1>3, <1>11, <2>1, <2>2, LargerOfTwo
<1>13. Sweeping'
  BY <1>1, <1>3, SweepingKept
<1>14. ComposeInv'
  BY <1>1, <1>3, <1>4, <1>5, <1>6, <1>9, <1>12, <1>13 DEF ComposeInv
<1>15. Scanning'
  BY <1>1, <1>2, <1>4 DEF IInv, Scanning, Below
<1> QED
  BY <1>2, <1>14, <1>15, ComposeGoesOn

LEMMA CheckSweepStep == ASSUME IInv, Aside, CheckSweep PROVE IInv'
<1> DEFINE n == at + way * stride
<1>1. /\ pc = "collapse" /\ way = Ways /\ at' = at + stride * Ways
      /\ UNCHANGED <<q, hay, kernel, stride, compose, high, way, live>>
  BY DEF CheckSweep
<1>2. Kept /\ pc \in ComposePcs /\ pc' \in ComposePcs \cup {"done"}
  BY <1>1 DEF Kept, Aside, ComposePcs, CheckSweep
<1>3. /\ kernel \in PerReg /\ Sweeping /\ live = Truth[n] /\ LargestIn(seen, Truth, at, n)
      /\ stride \in Nat /\ at + Ways * stride <= Len(hay)
      /\ Ways * stride = Chunk \/ Rest < Chunk
  BY <1>1 DEF IInv, ComposeInv, ComposePcs, Sweeping
<1>4. Ways \in Nat /\ kernel # Scalar
  BY <1>3, Widths
<1>5. Truth' = Truth
  BY <1>2, ScanKeeps DEF Within
<1>6. /\ Shape /\ lane > 0 /\ Len(hay) \in Nat /\ q.threshold \in Nat
      /\ at \in 0 .. Len(hay) /\ Below(at) /\ verdict = "none" /\ Rest \in Nat
      /\ Truth \in [0 .. Len(hay) -> Block] /\ Block \subseteq Nat
  BY <1>2, InScan
<1>7. at' = n /\ n \in at .. Len(hay) /\ n \in 0 .. Len(hay) /\ Rest' = Len(hay) - n
      /\ Rest' \in 0 .. Rest
  <2>1. way * stride \in Nat /\ way * stride = stride * Ways /\ way * stride = Ways * stride
    BY <1>1, <1>3, <1>4
  <2> DEFINE x == way * stride
  <2>2. x \in Nat /\ at' = at + x /\ at + x <= Len(hay)
    BY <1>1, <1>3, <2>1
  <2> HIDE DEF x
  <2>3. at + x \in at .. Len(hay) /\ at + x \in 0 .. Len(hay)
    BY <1>6, <2>2
  <2>4. Rest' = Len(hay) - (at + x) /\ Rest = Len(hay) - at
    BY <1>1, <2>2 DEF Rest
  <2>5. Rest' \in 0 .. Rest
    BY <1>6, <2>2, <2>3, <2>4
  <2> QED
    BY <2>2, <2>3, <2>4, <2>5 DEF x
<1>8. /\ seen \in Nat
      /\ seen < q.threshold => Below(n)
      /\ seen >= q.threshold => ~StaysBelow(q)
  <2> HIDE DEF n
  <2> QED
    BY <1>3, <1>6, <1>7, Checked
<1> HIDE DEF n
<1>9. CASE seen >= q.threshold
  <2>1. pc' = "done" /\ verdict' = "survives"
    BY <1>9 DEF CheckSweep
  <2> QED
    BY <1>2, <1>8, <1>9, <2>1, ScanEnds
<1>10. CASE ~(seen >= q.threshold)
  <2>1. Below(n) /\ verdict' = verdict /\ pc' \in {"next", "walk"}
    BY <1>6, <1>8, <1>10 DEF CheckSweep
  <2>2. Scanning'
    BY <1>1, <1>2, <1>5, <1>6, <1>7, <2>1 DEF Scanning, Below
  <2>3. CASE stride * Ways = Chunk
    <3>1. pc' = "next"
      BY <1>10, <2>3 DEF CheckSweep
    <3>2. ComposeInv'
      BY <1>1, <1>3, <1>5, <1>7, <3>1 DEF ComposeInv
    <3> QED
      BY <1>2, <2>2, <3>1, <3>2, ComposeGoesOn DEF ComposePcs
  <2>4. CASE stride * Ways # Chunk
    <3>1. pc' = "walk" /\ step' = 0 /\ seen' = live
      BY <1>10, <2>4 DEF CheckSweep
    <3>2. stride * Ways = Ways * stride
      BY <1>3, <1>4
    <3>3. Rest < Chunk /\ Rest' < Chunk
      BY <1>3, <1>6, <1>7, <2>4, <3>2, ChunkAssumption
    <3>4. live' = Truth[at' + step'] /\ LargestIn(seen', Truth, at', at' + step')
      <4>1. n + 0 = n /\ n \in Nat
        BY <1>6, <1>7
      <4>2. Truth[n] \in Nat
        <5>1. Truth[n] \in Block
          BY <1>6, <1>7
        <5> QED
          BY <1>6, <5>1, Zenon
      <4>3. LargestIn(Truth[n], Truth, n, n)
        BY <4>1, <4>2 DEF LargestIn
      <4> QED
        BY <1>1, <1>3, <1>7, <3>1, <4>1, <4>3
    <3>5. (step \in 0 .. Rest)' /\ (step <= Chunk)' /\ (kernel # Scalar => Rest < Chunk)'
      BY <1>7, <3>1, <3>3, ChunkAssumption
    <3>6. ComposeInv'
      BY <1>1, <1>3, <1>5, <3>1, <3>4, <3>5 DEF ComposeInv
    <3> QED
      BY <1>2, <2>2, <3>1, <3>6, ComposeGoesOn DEF ComposePcs
  <2> QED
    BY <2>3, <2>4
<1> QED
  BY <1>9, <1>10

LEMMA WalkChunkStep == ASSUME IInv, Aside, WalkChunk PROVE IInv'
<1>1. /\ pc = "next" /\ kernel = Scalar /\ pc' = "walk" /\ step' = 0 /\ seen' = live
      /\ UNCHANGED <<q, hay, kernel, at, stride, compose, high, way, live, verdict>>
  BY DEF WalkChunk
<1>2. Kept /\ pc \in ComposePcs /\ pc' \in ComposePcs
  BY <1>1 DEF Kept, Aside, ComposePcs
<1>3. live = Truth[at]
  BY <1>1 DEF IInv, ComposeInv, ComposePcs
<1>4. Truth' = Truth /\ Rest' = Rest
  BY <1>1, <1>2, ScanKeeps DEF Within, Rest
<1>5. /\ at \in 0 .. Len(hay) /\ Rest \in Nat
      /\ Truth \in [0 .. Len(hay) -> Block] /\ Block \subseteq Nat
  BY <1>2, InScan
<1>6. LargestIn(seen', Truth, at, at + step') /\ live' = Truth[at + step']
  <2>1. at + step' = at /\ at \in Nat
    BY <1>1, <1>5
  <2>2. Truth[at] \in Nat
    <3>1. Truth[at] \in Block
      BY <1>5
    <3> QED
      BY <1>5, <3>1, Zenon
  <2> QED
    BY <1>1, <1>3, <2>1, <2>2 DEF LargestIn
<1>7. (step \in 0 .. Rest)' /\ (step <= Chunk)'
  BY <1>1, <1>4, <1>5, ChunkAssumption
<1>8. ComposeInv'
  BY <1>1, <1>4, <1>6, <1>7 DEF ComposeInv
<1>9. Scanning'
  BY <1>1, <1>2, <1>4 DEF IInv, Scanning, Below
<1> QED
  BY <1>2, <1>8, <1>9, ComposeGoesOn

LEMMA WalkStep == ASSUME IInv, Aside, Walk PROVE IInv'
<1> DEFINE n == at + step
<1>1. /\ pc = "walk" /\ ~Walked /\ live' = q.rows[hay[at + step + 1]][live]
      /\ seen' = Greater(seen, live') /\ step' = step + 1
      /\ UNCHANGED <<q, hay, kernel, pc, at, stride, compose, high, way, verdict>>
  BY DEF Walk
<1>2. Kept /\ pc \in ComposePcs /\ pc' \in ComposePcs
  BY <1>1 DEF Kept, Aside, ComposePcs
<1>3. /\ step \in 0 .. Rest /\ step <= Chunk /\ kernel \in PerReg \cup {Scalar}
      /\ kernel # Scalar => Rest < Chunk
      /\ live = Truth[n] /\ LargestIn(seen, Truth, at, n)
  BY <1>1 DEF IInv, ComposeInv, ComposePcs
<1>4. Truth' = Truth /\ Rest' = Rest
  BY <1>1, <1>2, ScanKeeps DEF Within, Rest
<1>5. /\ Shape /\ lane > 0 /\ Len(hay) \in Nat
      /\ at \in 0 .. Len(hay) /\ Rest \in Nat /\ at + Rest = Len(hay)
      /\ Truth \in [0 .. Len(hay) -> Block] /\ Block \subseteq Nat
  BY <1>2, InScan
<1>6. step # Chunk /\ step # Rest
  BY <1>1 DEF Walked
<1>7. /\ n \in Nat /\ n + 1 <= Len(hay) /\ n \in 0 .. Len(hay) - 1 /\ at <= n
      /\ step + 1 \in 0 .. Rest /\ step + 1 <= Chunk
      /\ at + step' = n + 1 /\ at + step + 1 = n + 1 /\ at \in Nat
  BY <1>1, <1>3, <1>5, <1>6, ChunkAssumption
<1> HIDE DEF n
<1>8. live' = Truth[n + 1]
  <2>1. Truth[n + 1] = q.rows[hay[n + 1]][Truth[n]]
    BY <1>5, <1>7, Reading
  <2> QED
    BY <1>1, <1>3, <1>7, <2>1
<1>9. LargestIn(seen', Truth, at, n + 1)
  <2>1. \A j \in at .. n + 1 : Truth[j] \in Nat
    <3> TAKE j \in at .. n + 1
    <3>1. j \in 0 .. Len(hay)
      BY <1>5, <1>7
    <3>2. Truth[j] \in Block
      BY <1>5, <3>1
    <3> QED
      BY <1>5, <3>2, Zenon
  <2>2. /\ at \in Int /\ n \in Int /\ n + 1 \in Int /\ at <= n + 1 /\ n <= n + 1
        /\ n + 1 <= n + 1
    BY <1>7
  <2>3. seen \in Int /\ Truth[n + 1] \in Int
    BY <1>3, <1>7, <2>1 DEF LargestIn
  <2>4. LargestIn(Truth[n + 1], Truth, n + 1, n + 1)
    BY <1>7, <2>3 DEF LargestIn
  <2>5. \A j \in at .. n + 1 : Truth[j] \in Int
    BY <2>1
  <2>6. LargestIn(Greater(seen, Truth[n + 1]), Truth, at, n + 1)
    BY <1>3, <2>2, <2>3, <2>4, <2>5, LargerOfTwo
  <2> QED
    BY <1>1, <1>8, <2>6
<1>10. ComposeInv'
  BY <1>1, <1>3, <1>4, <1>7, <1>8, <1>9 DEF ComposeInv
<1>11. Scanning'
  BY <1>1, <1>2, <1>4 DEF IInv, Scanning, Below
<1> QED
  BY <1>2, <1>10, <1>11, ComposeGoesOn

LEMMA CheckWalkStep == ASSUME IInv, Aside, CheckWalk PROVE IInv'
<1> DEFINE n == at + step
<1>1. /\ pc = "walk" /\ Walked /\ at' = n /\ step' = 0
      /\ UNCHANGED <<q, hay, kernel, stride, compose, high, way, live, seen>>
  BY DEF CheckWalk
<1>2. Kept /\ pc \in ComposePcs /\ pc' \in ComposePcs \cup {"done"}
  BY <1>1 DEF Kept, Aside, ComposePcs, CheckWalk
<1>3. /\ step \in 0 .. Rest /\ step <= Chunk /\ kernel \in PerReg \cup {Scalar}
      /\ kernel # Scalar => Rest < Chunk
      /\ live = Truth[n] /\ LargestIn(seen, Truth, at, n)
  BY <1>1 DEF IInv, ComposeInv, ComposePcs
<1>4. Truth' = Truth
  BY <1>2, ScanKeeps DEF Within
<1>5. /\ Shape /\ lane > 0 /\ Len(hay) \in Nat /\ q.threshold \in Nat
      /\ at \in 0 .. Len(hay) /\ Below(at) /\ verdict = "none"
      /\ Rest \in Nat /\ at + Rest = Len(hay)
  BY <1>2, InScan
<1>6. /\ n \in at .. Len(hay) /\ n \in 0 .. Len(hay)
      /\ kernel # Scalar => n = Len(hay)
  BY <1>1, <1>3, <1>5, ChunkAssumption DEF Walked
<1> HIDE DEF n
<1>7. /\ seen \in Nat
      /\ seen < q.threshold => Below(n)
      /\ seen >= q.threshold => ~StaysBelow(q)
  BY <1>3, <1>5, <1>6, Checked
<1>8. CASE seen >= q.threshold
  <2>1. pc' = "done" /\ verdict' = "survives"
    BY <1>8 DEF CheckWalk
  <2> QED
    BY <1>2, <1>7, <1>8, <2>1, ScanEnds
<1>9. CASE ~(seen >= q.threshold) /\ kernel = Scalar
  <2>1. Below(n) /\ pc' = "next" /\ verdict' = verdict
    BY <1>5, <1>7, <1>9 DEF CheckWalk
  <2>2. Scanning'
    BY <1>1, <1>4, <1>5, <1>6, <2>1 DEF Scanning, Below
  <2>3. ComposeInv'
    BY <1>1, <1>3, <1>4, <2>1 DEF ComposeInv
  <2> QED
    BY <1>2, <2>1, <2>2, <2>3, ComposeGoesOn DEF ComposePcs
<1>10. CASE ~(seen >= q.threshold) /\ kernel # Scalar
  <2>1. Below(n) /\ n = Len(hay) /\ pc' = "done" /\ verdict' = "refuted"
    BY <1>5, <1>6, <1>7, <1>10 DEF CheckWalk
  <2>2. StaysBelow(q)
    BY <1>5, <2>1, BelowToTheEnd
  <2> QED
    BY <1>1, <1>2, <1>3, <1>6, <2>1, <2>2, ScanEnds
<1> QED
  BY <1>8, <1>9, <1>10

LEMMA EndScalarStep == ASSUME IInv, Aside, EndScalar PROVE IInv'
<1>1. /\ pc = "next" /\ Rest = 0 /\ pc' = "done" /\ verdict' = "refuted"
      /\ UNCHANGED <<q, hay, at, live>>
  BY DEF EndScalar
<1>2. Kept /\ pc \in ComposePcs
  BY <1>1 DEF Kept, Aside, ComposePcs
<1>3. live = Truth[at]
  BY <1>1 DEF IInv, ComposeInv, ComposePcs
<1>4. /\ Shape /\ lane > 0 /\ at \in 0 .. Len(hay) /\ Below(at) /\ at + Rest = Len(hay)
  BY <1>2, InScan
<1>5. at = Len(hay)
  BY <1>1, <1>4
<1>6. StaysBelow(q)
  BY <1>4, <1>5, BelowToTheEnd
<1> QED
  BY <1>1, <1>2, <1>3, <1>4, <1>6, ScanEnds

LEMMA ComposeNext == ASSUME IInv, Aside, Refutes PROVE IInv'
BY SweepChunkStep, SweepPavedStep, ComposeStep, EndSweepStep, CollapseStep, CheckSweepStep,
   WalkChunkStep, WalkStep, CheckWalkStep, EndScalarStep DEF Refutes

-----------------------------------------------------------------------------
(* The steps of the scan that jumps.                                       *)

AsideSkip == UNCHANGED <<Own, sieve, lane, answer>>

\* What is known whenever a lane is being read by jumps.
LEMMA InSkip ==
  ASSUME IInv, pc \in SkipPcs
  PROVE  /\ live = Truth[at]
         /\ resident \in BlocksOf(q) /\ resident < q.threshold
         /\ leaves = K!Leaves(q, resident) /\ leaves \in SUBSET K!Bytes
         /\ K!Instrument(leaves) # "none"
         /\ \A i \in 1 .. Len(hay) :
              /\ hay[i] \in K!Bytes
              /\ hay[i] \notin leaves => q.rows[hay[i]][resident] = resident
<1>1. Shape /\ lane > 0 /\ hay \in Seq(DOMAIN q.rows) /\ Len(hay) \in Nat
  BY InScan
<1>2. live = Truth[at] /\ Skipping
  BY DEF IInv, SkipInv, Shape
<1>3. /\ Fit(sieve[lane], hay) /\ q = sieve[lane].quotient
      /\ resident = sieve[lane].resident /\ leaves = K!Leaves(q, resident)
      /\ q.start \in BlocksOf(q)
  BY <1>1, <1>2, Reading DEF Shape
<1>4. /\ DOMAIN q.rows = K!Bytes /\ resident = q.start /\ resident < q.threshold
      /\ K!Instrument(leaves) # "none"
  BY <1>2, <1>3 DEF Fit, Plannable, Skipping
<1>5. leaves \in SUBSET K!Bytes
  BY <1>3 DEF K!Leaves
<1>6. \A i \in 1 .. Len(hay) : hay[i] \in K!Bytes
  BY <1>1, <1>4
<1>7. \A i \in 1 .. Len(hay) : hay[i] \notin leaves => q.rows[hay[i]][resident] = resident
  BY <1>3, <1>6 DEF K!Leaves
<1> QED
  BY <1>2, <1>3, <1>4, <1>5, <1>6, <1>7

\* The bytes that are left.
LEMMA TheRest ==
  ASSUME IInv, pc \in SkipPcs
  PROVE  /\ Len(K!Rest) = Rest /\ DOMAIN K!Rest = 1 .. Rest
         /\ \A i \in 1 .. Rest : at + i \in 1 .. Len(hay) /\ K!Rest[i] = hay[at + i]
<1>1. hay \in Seq(DOMAIN q.rows) /\ Len(hay) \in Nat /\ at \in 0 .. Len(hay)
      /\ Rest \in Nat /\ at + Rest = Len(hay)
  BY InScan
<1>2. Rest = Len(hay) - at
  BY DEF Rest
<1> DEFINE m == at + 1
           n == Len(hay)
<1>3. m \in Int /\ n \in Int /\ \A i \in m .. n : hay[i] \in DOMAIN q.rows
  BY <1>1
<1>4. Len(SubSeq(hay, m, n)) = IF m <= n THEN n - m + 1 ELSE 0
  <2> HIDE DEF m, n
  <2> QED
    BY <1>3, SubSeqProperties, Zenon
<1>5. (IF m <= n THEN n - m + 1 ELSE 0) = Rest
  BY <1>1
<1>6. \A i \in 1 .. Rest : at + i \in 1 .. Len(hay) /\ SubSeq(hay, m, n)[i] = hay[at + i]
  BY <1>1, <1>2
<1>7. DOMAIN SubSeq(hay, m, n) = 1 .. Rest
  BY <1>1, <1>2
<1> QED
  BY <1>4, <1>5, <1>6, <1>7 DEF K!Rest

\* A jump from the resident block over bytes that do not leave it reads nothing that
\* would have moved the run.
LEMMA JumpIsExact ==
  ASSUME IInv, pc \in SkipPcs, live = resident, NEW z \in at .. Len(hay),
         \A i \in at + 1 .. z : hay[i] \notin leaves
  PROVE  Below(z) /\ Truth[z] = live
<1>1. /\ IsQuotient(q) /\ hay \in Seq(DOMAIN q.rows) /\ Len(hay) \in Nat
      /\ at \in 0 .. Len(hay) /\ Below(at)
  BY InScan
<1>2. /\ live = Truth[at] /\ resident \in BlocksOf(q) /\ resident < q.threshold
      /\ \A i \in 1 .. Len(hay) :
           hay[i] \notin leaves => q.rows[hay[i]][resident] = resident
  BY InSkip
<1>3. \A i \in at + 1 .. z : q.rows[hay[i]][resident] = resident
  <2>1. \A i \in at + 1 .. z : i \in 1 .. Len(hay)
    BY <1>1
  <2> QED
    BY <1>2, <2>1
<1>4. \A j \in at .. z : Truth[j] = resident
  BY <1>1, <1>2, <1>3, RunStays DEF Truth
<1>5. ASSUME NEW j \in 0 .. z PROVE Truth[j] < q.threshold
  <2>1. j \in 0 .. at \/ j \in at .. z
    BY <1>1
  <2> QED
    BY <1>1, <1>2, <1>4, <2>1 DEF Below
<1> QED
  BY <1>1, <1>4, <1>5 DEF Below

\* What is left to show of a step that finds the next byte to read, and of one that finds
\* none.
LEMMA Found ==
  ASSUME IInv, Kept, pc \in SkipPcs, live = resident, NEW z \in at .. Len(hay) - 1,
         \A i \in at + 1 .. z : hay[i] \notin leaves,
         pc' = "read", at' = z, UNCHANGED <<live, verdict>>
  PROVE  IInv'
<1>1. Len(hay) \in Nat /\ at \in 0 .. Len(hay) /\ verdict = "none" /\ z \in at .. Len(hay)
      /\ z \in 0 .. Len(hay) /\ z < Len(hay)
  BY InScan
<1>2. Below(z) /\ Truth[z] = live
  BY <1>1, JumpIsExact
<1>3. Truth' = Truth /\ hay' = hay /\ q' = q
  BY ScanKeeps DEF Within, Kept, SkipPcs
<1>4. Scanning'
  BY <1>1, <1>2, <1>3 DEF Scanning, Below
<1>5. SkipInv'
  BY <1>1, <1>2, <1>3 DEF SkipInv
<1> QED
  BY <1>4, <1>5, SkipGoesOn DEF SkipPcs

LEMMA FoundNone ==
  ASSUME IInv, Kept, pc \in SkipPcs, live = resident,
         \A i \in at + 1 .. Len(hay) : hay[i] \notin leaves,
         pc' = "done", verdict' = "refuted", UNCHANGED <<at, live>>
  PROVE  IInv'
<1>1. Shape /\ lane > 0 /\ Len(hay) \in Nat /\ at \in 0 .. Len(hay)
      /\ Len(hay) \in at .. Len(hay)
  BY InScan
<1>2. Below(Len(hay))
  BY <1>1, JumpIsExact
<1>3. StaysBelow(q) /\ live = Truth[at]
  BY <1>1, <1>2, BelowToTheEnd, InSkip
<1> QED
  BY <1>1, <1>3, ScanEnds

LEMMA SkipKept ==
  ASSUME AsideSkip, UNCHANGED <<q, resident, leaves, hay>>
  PROVE  Kept
BY DEF AsideSkip, Kept

LEMMA ExhaustedStep == ASSUME IInv, AsideSkip, K!Exhausted PROVE IInv'
<1>1. /\ pc = "loop" /\ at >= Len(hay) /\ pc' = "done" /\ verdict' = "refuted"
      /\ UNCHANGED <<at, live>> /\ UNCHANGED <<q, resident, leaves, hay>>
  BY DEF K!Exhausted, K!Done, K!Fixed
<1>2. Kept /\ pc \in SkipPcs
  BY <1>1, SkipKept DEF SkipPcs
<1>3. /\ Shape /\ lane > 0 /\ at \in 0 .. Len(hay) /\ Below(at) /\ Len(hay) \in Nat
      /\ live = Truth[at]
  BY <1>2, InScan, InSkip
<1>4. at = Len(hay)
  BY <1>1, <1>3
<1>5. StaysBelow(q)
  BY <1>3, <1>4, BelowToTheEnd
<1> QED
  BY <1>1, <1>2, <1>3, <1>5, ScanEnds

LEMMA ElsewhereStep == ASSUME IInv, AsideSkip, K!Elsewhere PROVE IInv'
<1>1. /\ pc = "loop" /\ at < Len(hay) /\ pc' = "read"
      /\ UNCHANGED <<at, live, verdict>> /\ UNCHANGED <<q, resident, leaves, hay>>
  BY DEF K!Elsewhere, K!Fixed
<1>2. Kept /\ pc \in SkipPcs /\ pc' \in SkipPcs
  BY <1>1, SkipKept DEF SkipPcs
<1>3. Truth' = Truth
  BY <1>2, ScanKeeps DEF Within
<1>4. Scanning'
  BY <1>1, <1>2, <1>3 DEF IInv, Scanning, Below
<1>5. SkipInv'
  BY <1>1, <1>2, <1>3, InSkip DEF SkipInv
<1> QED
  BY <1>2, <1>4, <1>5, SkipGoesOn

LEMMA FindNeverStep == ASSUME IInv, AsideSkip, K!FindNever PROVE IInv'
<1>1. /\ K!Sitting("never") /\ pc' = "done" /\ verdict' = "refuted"
      /\ UNCHANGED <<at, live>> /\ UNCHANGED <<q, resident, leaves, hay>>
  BY DEF K!FindNever, K!Done, K!Fixed
<1>2. pc = "loop" /\ live = resident /\ K!Instrument(leaves) = "never"
  BY <1>1 DEF K!Sitting
<1>3. leaves = {}
  BY <1>2 DEF K!Instrument
<1> QED
  BY <1>1, <1>2, <1>3, SkipKept, FoundNone DEF SkipPcs

\* A find whose first hit is byte f of the rest, and one without.
LEMMA FoundFirst ==
  ASSUME IInv, AsideSkip, pc \in SkipPcs, live = resident, NEW f \in 1 .. Rest,
         \A i \in 1 .. f - 1 : K!Rest[i] \notin leaves,
         pc' = "read", at' = at + f - 1, UNCHANGED <<live, verdict>>,
         UNCHANGED <<q, resident, leaves, hay>>
  PROVE  IInv'
<1>1. at \in 0 .. Len(hay) /\ Len(hay) \in Nat /\ Rest \in Nat /\ at + Rest = Len(hay)
  BY InScan
<1>2. \A i \in 1 .. Rest : K!Rest[i] = hay[at + i]
  BY TheRest
<1>3. (at + f) - 1 \in at .. Len(hay) - 1 /\ at' = (at + f) - 1
  BY <1>1
<1>4. ASSUME NEW i \in at + 1 .. (at + f) - 1 PROVE hay[i] \notin leaves
  <2>1. i - at \in 1 .. f - 1 /\ i - at \in 1 .. Rest /\ at + (i - at) = i
    BY <1>1
  <2> QED
    BY <1>2, <2>1
<1> DEFINE z == (at + f) - 1
<1>5. Kept
  BY SkipKept
<1> HIDE DEF z
<1>6. z \in at .. Len(hay) - 1 /\ at' = z /\ \A i \in at + 1 .. z : hay[i] \notin leaves
  BY <1>3, <1>4 DEF z
<1> QED
  BY <1>5, <1>6, Found

LEMMA FoundNowhere ==
  ASSUME IInv, AsideSkip, pc \in SkipPcs, live = resident,
         \A i \in 1 .. Rest : K!Rest[i] \notin leaves,
         pc' = "done", verdict' = "refuted", UNCHANGED <<at, live>>,
         UNCHANGED <<q, resident, leaves, hay>>
  PROVE  IInv'
<1>1. at \in 0 .. Len(hay) /\ Len(hay) \in Nat /\ Rest \in Nat /\ at + Rest = Len(hay)
  BY InScan
<1>2. \A i \in 1 .. Rest : K!Rest[i] = hay[at + i]
  BY TheRest
<1>3. ASSUME NEW i \in at + 1 .. Len(hay) PROVE hay[i] \notin leaves
  <2>1. i - at \in 1 .. Rest /\ at + (i - at) = i
    BY <1>1
  <2> QED
    BY <1>2, <2>1
<1>4. Kept
  BY SkipKept
<1> QED
  BY <1>3, <1>4, FoundNone

LEMMA FindFewStep == ASSUME IInv, AsideSkip, K!FindFew PROVE IInv'
<1>1. /\ K!Sitting("few") /\ UNCHANGED <<q, resident, leaves, hay>> /\ UNCHANGED live
      /\ IF K!Escapes = {}
           THEN pc' = "done" /\ verdict' = "refuted" /\ UNCHANGED at
           ELSE /\ pc' = "read" /\ at' = at + K!First(K!Escapes) - 1
                /\ UNCHANGED verdict
  BY DEF K!FindFew, K!Done, K!Fixed
<1>2. pc = "loop" /\ live = resident /\ pc \in SkipPcs
  BY <1>1 DEF K!Sitting, SkipPcs
<1>3. Rest \in Nat /\ DOMAIN K!Rest = 1 .. Rest
  BY <1>2, InScan, TheRest
<1>4. K!Escapes = {i \in 1 .. Rest : K!Rest[i] \in leaves}
  BY <1>3 DEF K!Escapes
<1>5. CASE K!Escapes = {}
  BY <1>1, <1>2, <1>4, <1>5, FoundNowhere
<1>6. CASE K!Escapes # {}
  <2> DEFINE f == K!First(K!Escapes)
  <2>1. f \in K!Escapes /\ \A j \in K!Escapes : f <= j
    <3>1. K!Escapes \in SUBSET Nat
      BY <1>3, <1>4
    <3> QED
      BY <1>6, <3>1, FirstIsFirst
  <2>2. f \in 1 .. Rest
    BY <1>4, <2>1
  <2>3. ASSUME NEW i \in 1 .. f - 1 PROVE K!Rest[i] \notin leaves
    <3>1. i \in 1 .. Rest /\ ~(f <= i)
      BY <1>3, <2>2
    <3> QED
      BY <1>4, <2>1, <3>1
  <2>4. pc' = "read" /\ at' = at + f - 1 /\ UNCHANGED verdict
    BY <1>1, <1>6
  <2> HIDE DEF f
  <2> QED
    BY <1>1, <1>2, <2>2, <2>3, <2>4, FoundFirst
<1> QED
  BY <1>5, <1>6

LEMMA FindWideStep == ASSUME IInv, AsideSkip, K!FindWide PROVE IInv'
<1>1. /\ K!Sitting("wide") /\ pc' = "classify" /\ step' \in StepWidths /\ window' = 0
      /\ UNCHANGED <<at, live, verdict>> /\ UNCHANGED <<q, resident, leaves, hay>>
  BY DEF K!FindWide, K!Fixed
<1>2. /\ pc = "loop" /\ at < Len(hay) /\ live = resident /\ K!Instrument(leaves) = "wide"
  BY <1>1 DEF K!Sitting
<1>3. Kept /\ pc \in SkipPcs /\ pc' \in SkipPcs
  BY <1>1, <1>2, SkipKept DEF SkipPcs
<1>4. Truth' = Truth /\ Rest' = Rest
  BY <1>1, <1>3, ScanKeeps DEF Within, Rest
<1>5. Scanning'
  BY <1>1, <1>3, <1>4 DEF IInv, Scanning, Below
<1>6. live = Truth[at] /\ Rest \in Nat /\ at \in 0 .. Len(hay) /\ Len(hay) \in Nat
  BY <1>3, InScan, InSkip
<1>7. window' \in 0 .. Rest /\ \E m \in Nat : window' = m * step'
  <2>1. step' \in Nat
    BY <1>1, SkipAssumption
  <2>2. ASSUME NEW s \in Nat PROVE \E m \in Nat : 0 = m * s
    <3> WITNESS 0 \in Nat
    <3> QED
      OBVIOUS
  <2>3. \E m \in Nat : 0 = m * step'
    BY <2>1, <2>2
  <2> QED
    BY <1>1, <1>6, <2>3
<1>8. \A i \in at' + 1 .. at' + window' : hay'[i] \notin leaves'
  BY <1>1, <1>6
<1>9. SkipInv'
  BY <1>1, <1>2, <1>4, <1>6, <1>7, <1>8 DEF SkipInv
<1> QED
  BY <1>3, <1>5, <1>9, SkipGoesOn

\* What the classifier has passed does not leave the block, and what it takes for a
\* member is one.
LEMMA Classifying ==
  ASSUME IInv, pc \in {"classify", "tail"}
  PROVE  /\ live = resident /\ K!Instrument(leaves) = "wide"
         /\ step \in Nat \ {0} /\ window \in 0 .. Rest
         /\ \A i \in 1 .. window : K!Rest[i] \notin leaves
         /\ \A i \in 1 .. Rest : K!Member(leaves, K!Rest[i]) <=> K!Rest[i] \in leaves
<1>1. pc \in SkipPcs
  BY DEF SkipPcs
<1>2. /\ live = resident /\ K!Instrument(leaves) = "wide" /\ step \in StepWidths
      /\ window \in 0 .. Rest /\ \A i \in at + 1 .. at + window : hay[i] \notin leaves
  BY <1>1 DEF IInv, SkipInv
<1>3. step \in Nat \ {0}
  BY <1>2, SkipAssumption
<1>4. at \in 0 .. Len(hay) /\ Len(hay) \in Nat /\ Rest \in Nat
  BY <1>1, InScan
<1>5. \A i \in 1 .. Rest : at + i \in 1 .. Len(hay) /\ K!Rest[i] = hay[at + i]
  BY <1>1, TheRest
<1>6. leaves \in SUBSET K!Bytes /\ \A i \in 1 .. Len(hay) : hay[i] \in K!Bytes
  BY <1>1, InSkip
<1>7. \A i \in 1 .. window : K!Rest[i] \notin leaves
  <2> TAKE i \in 1 .. window
  <2>1. i \in 1 .. Rest /\ at + i \in at + 1 .. at + window
    BY <1>2, <1>4
  <2> QED
    BY <1>2, <1>5, <2>1
<1>8. \A i \in 1 .. Rest : K!Member(leaves, K!Rest[i]) <=> K!Rest[i] \in leaves
  <2> TAKE i \in 1 .. Rest
  <2>1. K!Rest[i] \in K!Bytes
    BY <1>5, <1>6
  <2> QED
    BY <1>2, <1>6, <2>1, TablesAreTheSet
<1> QED
  BY <1>2, <1>3, <1>7, <1>8

LEMMA ClassifyHitStep == ASSUME IInv, AsideSkip, K!ClassifyHit PROVE IInv'
<1> DEFINE f == K!First(K!Hits(step))
<1>1. /\ pc = "classify" /\ K!Whole /\ K!Hits(step) # {}
      /\ pc' = "read" /\ at' = at + window + f - 1
      /\ UNCHANGED <<live, verdict>> /\ UNCHANGED <<q, resident, leaves, hay>>
  BY DEF K!ClassifyHit, K!Fixed
<1>2. /\ live = resident /\ step \in Nat \ {0} /\ window \in 0 .. Rest
      /\ \A i \in 1 .. window : K!Rest[i] \notin leaves
      /\ \A i \in 1 .. Rest : K!Member(leaves, K!Rest[i]) <=> K!Rest[i] \in leaves
  BY <1>1, Classifying
<1>3. pc \in SkipPcs /\ Rest \in Nat /\ at \in 0 .. Len(hay) /\ Len(hay) \in Nat
  BY <1>1, InScan DEF SkipPcs
<1>4. window + step <= Rest
  BY <1>1, <1>3, TheRest DEF K!Whole
<1>5. f \in K!Hits(step) /\ \A j \in K!Hits(step) : f <= j
  <2>1. K!Hits(step) \in SUBSET Nat
    BY <1>2 DEF K!Hits
  <2> QED
    BY <1>1, <2>1, FirstIsFirst
<1> HIDE DEF f
<1>6. f \in 1 .. step
  BY <1>5 DEF K!Hits
<1>7. window + f \in 1 .. Rest
  BY <1>2, <1>3, <1>4, <1>6
<1>8. ASSUME NEW i \in 1 .. (window + f) - 1 PROVE K!Rest[i] \notin leaves
  <2>1. CASE i <= window
    BY <1>2, <1>3, <2>1
  <2>2. CASE i > window
    <3>1. i - window \in 1 .. step /\ ~(f <= i - window) /\ window + (i - window) = i
          /\ i \in 1 .. Rest
      BY <1>2, <1>3, <1>4, <1>6, <2>2
    <3>2. ~K!Member(leaves, K!Rest[window + (i - window)])
      BY <1>5, <3>1 DEF K!Hits
    <3> QED
      BY <1>2, <3>1, <3>2
  <2> QED
    BY <1>2, <1>3, <2>1, <2>2
<1>9. at' = at + (window + f) - 1
  BY <1>1, <1>2, <1>3, <1>6
<1> QED
  BY <1>1, <1>2, <1>3, <1>7, <1>8, <1>9, FoundFirst

LEMMA ClassifyMissStep == ASSUME IInv, AsideSkip, K!ClassifyMiss PROVE IInv'
<1>1. /\ pc = "classify" /\ K!Whole /\ K!Hits(step) = {} /\ window' = window + step
      /\ UNCHANGED <<pc, at, live, step, verdict>> /\ UNCHANGED <<q, resident, leaves, hay>>
  BY DEF K!ClassifyMiss, K!Fixed
<1>2. Kept /\ pc \in SkipPcs /\ pc' \in SkipPcs
  BY <1>1, SkipKept DEF SkipPcs
<1>3. /\ live = resident /\ step \in Nat \ {0} /\ window \in 0 .. Rest
      /\ K!Instrument(leaves) = "wide"
      /\ \A i \in 1 .. window : K!Rest[i] \notin leaves
      /\ \A i \in 1 .. Rest : K!Member(leaves, K!Rest[i]) <=> K!Rest[i] \in leaves
  BY <1>1, Classifying
<1>4. Rest \in Nat /\ at \in 0 .. Len(hay) /\ Len(hay) \in Nat /\ live = Truth[at]
      /\ at + Rest = Len(hay) /\ \A i \in 1 .. Rest : K!Rest[i] = hay[at + i]
  BY <1>2, InScan, InSkip, TheRest
<1>5. at < Len(hay) /\ step \in StepWidths /\ \E m \in Nat : window = m * step
  BY <1>1, <1>2 DEF IInv, SkipInv
<1>6. window' \in 0 .. Rest
  <2>1. window + step <= Rest
    BY <1>1, <1>2, TheRest DEF K!Whole
  <2> QED
    BY <1>1, <1>3, <1>4, <2>1
<1>7. \E m \in Nat : window' = m * step
  <2>1. PICK m \in Nat : window = m * step
    BY <1>5
  <2>2. m + 1 \in Nat /\ m * step + step = (m + 1) * step
    BY <1>3
  <2>3. window' = (m + 1) * step
    BY <1>1, <2>1, <2>2
  <2> QED
    BY <2>2, <2>3
<1>8. ASSUME NEW i \in at + 1 .. at + window' PROVE hay[i] \notin leaves
  <2>1. i - at \in 1 .. Rest /\ at + (i - at) = i /\ i - at \in 1 .. window + step
    BY <1>1, <1>3, <1>4, <1>6
  <2>2. CASE i - at <= window
    <3>1. i - at \in 1 .. window
      BY <1>3, <1>4, <2>1, <2>2
    <3>2. K!Rest[i - at] \notin leaves /\ K!Rest[i - at] = hay[at + (i - at)]
      BY <1>3, <1>4, <2>1, <3>1
    <3> QED
      BY <2>1, <3>2
  <2>3. CASE i - at > window
    <3>1. (i - at) - window \in 1 .. step /\ window + ((i - at) - window) = i - at
      BY <1>3, <1>4, <2>1, <2>3
    <3>2. ~K!Member(leaves, K!Rest[window + ((i - at) - window)])
      BY <1>1, <3>1 DEF K!Hits
    <3> QED
      BY <1>3, <1>4, <2>1, <3>1, <3>2
  <2> QED
    BY <1>3, <1>4, <2>1, <2>2, <2>3
<1>9. Truth' = Truth /\ Rest' = Rest
  BY <1>1, <1>2, ScanKeeps DEF Within, Rest
<1>10. Scanning'
  BY <1>1, <1>2, <1>9 DEF IInv, Scanning, Below
<1>11. SkipInv'
  BY <1>1, <1>3, <1>4, <1>5, <1>6, <1>7, <1>8, <1>9 DEF SkipInv
<1> QED
  BY <1>2, <1>10, <1>11, SkipGoesOn

LEMMA EndClassifyStep == ASSUME IInv, AsideSkip, K!EndClassify PROVE IInv'
<1>1. /\ pc = "classify" /\ ~K!Whole /\ pc' = "tail"
      /\ UNCHANGED <<at, live, step, window, verdict>>
      /\ UNCHANGED <<q, resident, leaves, hay>>
  BY DEF K!EndClassify, K!Fixed
<1>2. Kept /\ pc \in SkipPcs /\ pc' \in SkipPcs
  BY <1>1, SkipKept DEF SkipPcs
<1>3. Truth' = Truth /\ Rest' = Rest
  BY <1>1, <1>2, ScanKeeps DEF Within, Rest
<1>4. window + step > Rest
  <2>1. step \in Nat /\ window \in 0 .. Rest /\ Rest \in Nat /\ Len(K!Rest) = Rest
    BY <1>1, <1>2, Classifying, InScan, TheRest
  <2> QED
    BY <1>1, <2>1 DEF K!Whole
<1>5. Scanning'
  BY <1>1, <1>2, <1>3 DEF IInv, Scanning, Below
<1>6. SkipInv'
  BY <1>1, <1>2, <1>3, <1>4 DEF IInv, SkipInv
<1> QED
  BY <1>2, <1>5, <1>6, SkipGoesOn

\* The offset the tail works out is where the classifier stopped.
LEMMA TailBegins ==
  ASSUME IInv, pc = "tail"
  PROVE  Len(K!Rest) - (Len(K!Rest) % step) = window
<1>1. pc \in SkipPcs
  BY DEF SkipPcs
<1>2. window + step > Rest /\ \E m \in Nat : window = m * step
  BY <1>1 DEF IInv, SkipInv
<1>3. step \in Nat \ {0} /\ window \in 0 .. Rest
  BY Classifying
<1>4. Rest \in Nat /\ Len(K!Rest) = Rest
  BY <1>1, InScan, TheRest
<1>5. PICK m \in Nat : window = m * step
  BY <1>2
<1> DEFINE r == Rest - window
<1>6. r \in 0 .. step - 1 /\ Rest = window + r /\ r \in Nat
  BY <1>2, <1>3, <1>4
<1> HIDE DEF r
<1>7. Rest = step * m + r
  BY <1>3, <1>5, <1>6
<1>8. Rest % step = r
  BY <1>3, <1>4, <1>5, <1>6, <1>7, DivisionIsUnique
<1> QED
  BY <1>3, <1>4, <1>6, <1>8

LEMMA ScalarTailStep == ASSUME IInv, AsideSkip, K!ScalarTail PROVE IInv'
<1> DEFINE found == {i \in window + 1 .. Rest : K!Member(leaves, K!Rest[i])}
           f == K!First(found)
<1>1. /\ pc = "tail" /\ UNCHANGED live /\ UNCHANGED <<q, resident, leaves, hay>>
      /\ IF found = {}
           THEN pc' = "done" /\ verdict' = "refuted" /\ UNCHANGED at
           ELSE pc' = "read" /\ at' = at + f - 1 /\ UNCHANGED verdict
  <2>1. pc = "tail" /\ pc \in SkipPcs
    BY DEF K!ScalarTail, SkipPcs
  <2>2. Len(K!Rest) - (Len(K!Rest) % step) = window /\ Len(K!Rest) = Rest
    BY <2>1, TailBegins, TheRest
  <2> QED
    BY <2>1, <2>2 DEF K!ScalarTail, K!Done, K!Fixed
<1>2. /\ live = resident /\ window \in 0 .. Rest
      /\ \A i \in 1 .. window : K!Rest[i] \notin leaves
      /\ \A i \in 1 .. Rest : K!Member(leaves, K!Rest[i]) <=> K!Rest[i] \in leaves
  BY <1>1, Classifying
<1>3. pc \in SkipPcs /\ Rest \in Nat
  BY <1>1, InScan DEF SkipPcs
<1>4. ASSUME NEW i \in 1 .. Rest, i \notin found PROVE K!Rest[i] \notin leaves
  <2>1. CASE i <= window
    BY <1>2, <1>3, <2>1
  <2>2. CASE i > window
    <3>1. i \in window + 1 .. Rest
      BY <1>2, <1>3, <2>2
    <3> QED
      BY <1>2, <1>4, <3>1
  <2> QED
    BY <1>2, <1>3, <2>1, <2>2
<1>5. CASE found = {}
  <2>1. \A i \in 1 .. Rest : K!Rest[i] \notin leaves
    BY <1>4, <1>5
  <2> QED
    BY <1>1, <1>2, <1>3, <1>5, <2>1, FoundNowhere
<1>6. CASE found # {}
  <2>1. f \in found /\ \A j \in found : f <= j
    <3>1. found \in SUBSET Nat
      BY <1>2, <1>3
    <3> HIDE DEF found
    <3> QED
      BY <1>6, <3>1, FirstIsFirst
  <2>2. f \in 1 .. Rest
    BY <1>2, <1>3, <2>1
  <2>3. pc' = "read" /\ at' = at + f - 1 /\ UNCHANGED verdict
    BY <1>1, <1>6
  <2> HIDE DEF f
  <2>4. ASSUME NEW i \in 1 .. f - 1 PROVE K!Rest[i] \notin leaves
    <3>1. i \in 1 .. Rest /\ ~(f <= i)
      BY <1>3, <2>2
    <3> HIDE DEF found
    <3> QED
      BY <1>4, <2>1, <3>1
  <2> QED
    BY <1>1, <1>2, <1>3, <2>2, <2>3, <2>4, FoundFirst
<1> QED
  BY <1>5, <1>6

LEMMA ReadStep == ASSUME IInv, AsideSkip, K!Read PROVE IInv'
<1>1. /\ pc = "read" /\ live' = q.rows[hay[at + 1]][live]
      /\ IF live' >= q.threshold
           THEN pc' = "done" /\ verdict' = "survives" /\ UNCHANGED at
           ELSE pc' = "loop" /\ at' = at + 1 /\ UNCHANGED verdict
      /\ UNCHANGED <<q, resident, leaves, hay>>
  BY DEF K!Read, K!Done, K!Fixed
<1>2. Kept /\ pc \in SkipPcs
  BY <1>1, SkipKept DEF SkipPcs
<1>3. /\ Shape /\ lane > 0 /\ Len(hay) \in Nat /\ at \in 0 .. Len(hay) /\ Below(at)
      /\ verdict = "none" /\ live = Truth[at] /\ q.threshold \in Nat
      /\ Truth \in [0 .. Len(hay) -> Block] /\ Block \subseteq Nat
  BY <1>2, InScan, InSkip
<1>4. at < Len(hay)
  BY <1>1, <1>2 DEF IInv, SkipInv
<1>5. at + 1 \in 0 .. Len(hay) /\ at \in 0 .. Len(hay) - 1 /\ at \in Nat
  BY <1>3, <1>4
<1>6. live' = Truth[at + 1]
  BY <1>1, <1>3, <1>5, Reading
<1>7. live' \in Nat
  <2>1. live' \in Block
    BY <1>3, <1>5, <1>6
  <2> QED
    BY <1>3, <2>1, Zenon
<1>8. CASE live' >= q.threshold
  <2>1. ~StaysBelow(q)
    BY <1>3, <1>5, <1>6, <1>8, BelowToTheEnd
  <2>2. pc' = "done" /\ verdict' = "survives"
    BY <1>1, <1>8
  <2> QED
    BY <1>2, <2>1, <2>2, ScanEnds
<1>9. CASE ~(live' >= q.threshold)
  <2>1. pc' = "loop" /\ at' = at + 1 /\ verdict' = verdict /\ pc' \in SkipPcs
    BY <1>1, <1>9 DEF SkipPcs
  <2>2. Below(at + 1)
    <3> SUFFICES ASSUME NEW j \in 0 .. at + 1 PROVE Truth[j] < q.threshold
      BY DEF Below
    <3>1. j \in 0 .. at \/ j = at + 1
      BY <1>5
    <3> QED
      BY <1>3, <1>6, <1>7, <1>9, <3>1 DEF Below
  <2>3. Truth' = Truth
    BY <1>2, <2>1, ScanKeeps DEF Within
  <2>4. Scanning'
    BY <1>1, <1>3, <1>5, <2>1, <2>2, <2>3 DEF Scanning, Below
  <2>5. SkipInv'
    BY <1>6, <2>1, <2>3 DEF SkipInv
  <2> QED
    BY <1>2, <2>1, <2>4, <2>5, SkipGoesOn
<1> QED
  BY <1>8, <1>9

LEMMA SkipNext == ASSUME IInv, AsideSkip, K!RefutesSkipping PROVE IInv'
BY ExhaustedStep, ElsewhereStep, FindNeverStep, FindFewStep, FindWideStep, ClassifyHitStep,
   ClassifyMissStep, EndClassifyStep, ScalarTailStep, ReadStep DEF K!RefutesSkipping

-----------------------------------------------------------------------------
(* The sieve.                                                              *)

\* A lane that was read without refuting leaves only lanes that survive behind.
LEMMA LanesBehind ==
  ASSUME IInv, pc = "lanes", NEW i \in 1 .. lane
  PROVE  ~StaysBelow(sieve[i].quotient)
<1>1. lane \in Nat /\ \A k \in 1 .. lane - 1 : ~StaysBelow(sieve[k].quotient)
  BY DEF IInv, Shape, Answered
<1>2. CASE i = lane
  <2>1. lane > 0
    BY <1>1, <1>2
  <2>2. verdict = "survives" /\ (verdict = "refuted" <=> StaysBelow(q))
    BY <2>1 DEF IInv, Rested, RestPcs
  <2>3. q = sieve[lane].quotient
    BY <2>1 DEF IInv, Shape
  <2> QED
    BY <1>2, <2>2, <2>3
<1>3. CASE i # lane
  BY <1>1, <1>3
<1> QED
  BY <1>2, <1>3

LEMMA AskStep == ASSUME IInv, Ask PROVE IInv'
<1> DEFINE next == lane + 1
           quotient == sieve[next].quotient
<1>1. /\ pc = "lanes" /\ lane < Len(sieve) /\ lane' = next
      /\ UNCHANGED <<sieve, answer, hay>>
      /\ q' = quotient /\ at' = 0 /\ live' = quotient.start /\ verdict' = "none"
  BY DEF Ask, Start, K!Start
<1>2. \/ /\ ~Skips(sieve[next]) /\ kernel' \in PerReg \cup {Scalar} /\ pc' = "next"
      \/ /\ Skips(sieve[next]) /\ pc' = "loop"
         /\ resident' = sieve[next].resident /\ leaves' = K!Leaves(q', resident')
  BY DEF Ask, Start, K!Start
<1>3. /\ DOMAIN sieve = 1 .. Len(sieve) /\ Len(sieve) \in Nat /\ lane \in 0 .. Len(sieve)
      /\ \A i \in DOMAIN sieve : Fit(sieve[i], hay)
  BY DEF IInv, Shape
<1>4. next \in 1 .. Len(sieve) /\ next \in DOMAIN sieve /\ next > 0
  BY <1>1, <1>3
<1>5. IsQuotient(quotient) /\ hay \in Seq(DOMAIN quotient.rows)
  BY <1>3, <1>4 DEF Fit
<1> HIDE DEF next, quotient
<1>6. /\ Truth' = RunOf(quotient, hay, 0, quotient.start)
      /\ Truth'[0] = quotient.start /\ quotient.start < quotient.threshold
  <2>1. Truth' = RunOf(quotient, hay, 0, quotient.start)
    BY <1>1 DEF Truth
  <2> QED
    BY <1>5, <2>1, RunFromStart DEF IsQuotient
<1>7. Len(hay) \in Nat
  BY <1>5
<1>8. Shape'
  <2>1. q' = sieve'[lane'].quotient
    BY <1>1 DEF quotient
  <2>2. (Composing' <=> ~Skips(sieve[next])) /\ (Skipping' <=> Skips(sieve[next]))
    BY <1>1, <1>4 DEF Composing, Skipping
  <2>3. (Skipping => resident = sieve[lane].resident /\ leaves = K!Leaves(q, resident))'
    BY <1>1, <1>2, <2>2
  <2>4. (\A i \in DOMAIN sieve : Fit(sieve[i], hay))'
    BY <1>1, <1>3
  <2>5. pc' \in ComposePcs \cup SkipPcs
        /\ (pc' \in ComposePcs => Composing') /\ (pc' \in SkipPcs => Skipping')
    BY <1>2, <2>2 DEF ComposePcs, SkipPcs
  <2>6. lane' \in 0 .. Len(sieve') /\ ~(lane' = 0)
    BY <1>1, <1>3, <1>4
  <2> QED
    BY <1>1, <1>3, <2>1, <2>3, <2>4, <2>5, <2>6 DEF Shape
<1>9. Scanning'
  <2>1. \A j \in 0 .. at' : Truth'[j] < q'.threshold
    BY <1>1, <1>6
  <2> QED
    BY <1>1, <1>7, <2>1 DEF Scanning, Below
<1>10. live' = Truth'[at']
  BY <1>1, <1>6
<1>11. ComposeInv' /\ SkipInv'
  BY <1>2, <1>10 DEF ComposeInv, SkipInv, ComposePcs, SkipPcs
<1>12. Rested'
  BY <1>2 DEF Rested, RestPcs
<1>13. Answered'
  <2>1. \A i \in 1 .. lane' - 1 : ~StaysBelow(sieve[i].quotient)
    <3>1. \A i \in 1 .. lane' - 1 : i \in 1 .. lane
      BY <1>1, <1>3 DEF next
    <3> QED
      BY <1>1, <3>1, LanesBehind
  <2>2. (\A i \in 1 .. lane - 1 : ~StaysBelow(sieve[i].quotient))'
    BY <1>1, <2>1 DEF StaysBelow
  <2>3. answer' = "none" /\ pc' # "answered"
    BY <1>1, <1>2 DEF IInv, Answered
  <2> QED
    BY <2>2, <2>3 DEF Answered
<1> QED
  BY <1>8, <1>9, <1>11, <1>12, <1>13 DEF IInv

LEMMA AnyStep == ASSUME IInv, Any \/ AnyIsOver PROVE IInv'
<1>1. /\ pc \in {"done", "lanes"} /\ pc' \in {"lanes", "answered"}
      /\ UNCHANGED <<q, hay, at, live, verdict, resident, leaves, sieve, lane>>
  BY DEF Any, AnyIsOver
<1>2. Truth' = Truth /\ Composing' = Composing /\ Skipping' = Skipping
  BY <1>1 DEF Truth, Composing, Skipping
<1>3. \A l : StaysBelow(l)' <=> StaysBelow(l)
  BY <1>1 DEF StaysBelow
<1>4. Shape'
  <2>1. (\A i \in DOMAIN sieve : Fit(sieve[i], hay))'
    BY <1>1 DEF IInv, Shape
  <2>2. (Skipping => resident = sieve[lane].resident /\ leaves = K!Leaves(q, resident))'
    BY <1>1, <1>2 DEF IInv, Shape
  <2> QED
    BY <1>1, <2>1, <2>2 DEF IInv, Shape, ComposePcs, SkipPcs, RestPcs
<1>5. Scanning' /\ ComposeInv' /\ SkipInv'
  BY <1>1 DEF Scanning, ComposeInv, SkipInv, ComposePcs, SkipPcs
<1>6. Rested'
  <2> SUFFICES ASSUME lane' > 0 PROVE Rested'
    BY DEF Rested
  <2>1. /\ verdict \in {"refuted", "survives"}
        /\ verdict = "refuted" <=> StaysBelow(q)
        /\ verdict = "refuted" => at \in 0 .. Len(hay) /\ live = Truth[at]
        /\ pc = "lanes" => verdict = "survives"
    BY <1>1 DEF IInv, Rested, RestPcs
  <2>2. pc' = "lanes" => verdict = "survives"
    BY <2>1 DEF Any, AnyIsOver
  <2>3. StaysBelow(q)' <=> StaysBelow(q)
    BY <1>1 DEF StaysBelow
  <2> QED
    BY <1>1, <1>2, <2>1, <2>2, <2>3 DEF Rested
<1>7. Answered'
  <2>1. StaysBelow(q)' <=> StaysBelow(q)
    BY <1>1 DEF StaysBelow
  <2>2. (\A i \in 1 .. lane - 1 : ~StaysBelow(sieve[i].quotient))'
    BY <1>1, <1>3 DEF IInv, Answered
  <2>3. answer = "none" /\ lane \in 0 .. Len(sieve)
    BY <1>1 DEF IInv, Answered, Shape
  <2>4. CASE Any
    <3>1. lane > 0 /\ (verdict = "refuted" <=> StaysBelow(q))
      BY <2>4 DEF Any, IInv, Shape, Rested, RestPcs
    <3>2. CASE verdict = "refuted"
      BY <1>1, <2>1, <2>2, <2>4, <3>1, <3>2 DEF Any, Answered
    <3>3. CASE verdict # "refuted"
      BY <1>1, <2>1, <2>2, <2>3, <2>4, <3>1, <3>3 DEF Any, Answered
    <3> QED
      BY <3>2, <3>3
  <2>5. CASE AnyIsOver
    <3>1. pc' = "answered" /\ answer' = "survives" /\ lane = Len(sieve)
      BY <2>5 DEF AnyIsOver
    <3>2. lane > 0 => ~StaysBelow(q)
      BY <2>5 DEF AnyIsOver, IInv, Rested, RestPcs
    <3> QED
      BY <1>1, <2>1, <2>2, <3>1, <3>2 DEF Answered
  <2> QED
    BY <2>4, <2>5
<1> QED
  BY <1>4, <1>5, <1>6, <1>7 DEF IInv

LEMMA NextIInv == IInv /\ [Next]_vars => IInv'
<1> SUFFICES ASSUME IInv, [Next]_vars PROVE IInv'
  OBVIOUS
<1>1. CASE Ask
  BY <1>1, AskStep
<1>2. CASE ScanLane
  BY <1>2, ComposeNext DEF ScanLane, Aside
<1>3. CASE SkipLane
  BY <1>3, SkipNext DEF SkipLane, AsideSkip
<1>4. CASE Any \/ AnyIsOver
  BY <1>4, AnyStep
<1>5. CASE UNCHANGED vars
  <2>1. /\ UNCHANGED <<resident, leaves, window, sieve, lane, answer>>
        /\ UNCHANGED <<q, hay, pc, at, step, live, verdict>>
        /\ UNCHANGED <<kernel, stride, compose, high, way, seen>>
    BY <1>5 DEF vars, scan, Own
  <2>2. Truth' = Truth /\ Composing' = Composing /\ Skipping' = Skipping
    BY <2>1 DEF Truth, Composing, Skipping
  <2>3. Ways' = Ways /\ Rest' = Rest
    BY <2>1 DEF Ways, Rest
  <2>4. Shape'
    BY <2>1, <2>2 DEF IInv, Shape
  <2>5. Scanning'
    BY <2>1, <2>2 DEF IInv, Scanning, Below
  <2>6. Sweeping => Sweeping'
    BY <2>1, SweepingKept
  <2>7. ComposeInv'
    BY <2>1, <2>2, <2>3, <2>6 DEF IInv, ComposeInv
  <2>8. SkipInv'
    BY <2>1, <2>2, <2>3 DEF IInv, SkipInv
  <2>9. \A l : StaysBelow(l)' <=> StaysBelow(l)
    BY <2>1 DEF StaysBelow
  <2>10. StaysBelow(q)' <=> StaysBelow(q)
    BY <2>1 DEF StaysBelow
  <2>11. Rested' /\ Answered'
    BY <2>1, <2>2, <2>9, <2>10 DEF IInv, Rested, Answered
  <2> QED
    BY <2>4, <2>5, <2>7, <2>8, <2>11 DEF IInv
<1> QED
  BY <1>1, <1>2, <1>3, <1>4, <1>5 DEF Next

-----------------------------------------------------------------------------
(* What a sieve promises.                                                  *)

\* The invariant of the two scans and of the loop over the lanes holds throughout.
THEOREM Invariant == Spec => []IInv
BY InitIInv, NextIInv, PTL DEF Spec

\* Whatever block a slice is entered on, it has composed the run over its own stride and
\* the largest block that run visits, and no slice reaches past the document: the sweeps
\* of shuffle.rs and arch/*.rs, for every width of register and every chunk.
THEOREM SlicesComposeHolds == Spec => []SlicesCompose
<1>1. IInv => SlicesCompose
  <2> SUFFICES ASSUME IInv, Composing, pc \in {"sweep", "collapse"} PROVE Composed
    BY DEF SlicesCompose, Composed
  <2>1. pc \in ComposePcs
    BY DEF ComposePcs
  <2>2. kernel \in PerReg /\ Sweeping
    BY <2>1 DEF IInv, ComposeInv, Sweeping
  <2>3. /\ stride \in Nat /\ step \in 0 .. stride /\ at + Ways * stride <= Len(hay) /\ Tiled
    BY <2>2 DEF Sweeping
  <2>4. at + stride * Ways <= Len(hay)
    <3>1. stride * Ways = Ways * stride
      BY <2>2, <2>3, Widths
    <3> QED
      BY <2>3, <3>1
  <2>5. ASSUME NEW n \in 0 .. Ways - 1, NEW b \in Block
        PROVE  LET run == RunOf(q, hay, at + n * stride, b)
               IN /\ compose[InOrder(n)][b] = run[step]
                  /\ high[InOrder(n)][b] = Largest(run, step)
    <3> DEFINE run == SliceRun(n, b)
               from == at + n * stride
    <3>1. compose[InOrder(n)][b] = run[step] /\ LargestIn(high[InOrder(n)][b], run, 0, step)
      BY <2>3 DEF Tiled, Slice
    <3>2. /\ from \in 0 .. Len(hay) /\ from + stride <= Len(hay)
          /\ run \in [0 .. Len(hay) - from -> Block]
      BY InSlice
    <3> HIDE DEF run, from
    <3>3. Len(hay) \in Nat /\ step \in Nat /\ q.blocks \in Nat
      BY <2>1, <2>3, InScan DEF IsQuotient
    <3>4. \A j \in 0 .. step : run[j] \in Block
      <4> TAKE j \in 0 .. step
      <4>1. j \in 0 .. Len(hay) - from
        BY <2>3, <3>2, <3>3
      <4> QED
        BY <3>2, <4>1
    <3>5. Largest(run, step) = high[InOrder(n)][b]
      BY <3>1, <3>3, <3>4, LargestIsUnique
    <3> QED
      BY <3>1, <3>5 DEF run, SliceRun
  <2> QED
    BY <2>4, <2>5 DEF Composed
<1> QED
  BY <1>1, Invariant, PTL

\* The block carried from slice to slice, from sweep to sweep and into the walk is the
\* block of the run, and every check of shuffle.rs sees every block visited since the
\* last.
THEOREM LiveIsRunHolds == Spec => []LiveIsRun
<1>1. IInv => LiveIsRun
  <2> SUFFICES ASSUME IInv, Composing PROVE Carried
    BY DEF LiveIsRun
  <2>1. lane > 0 /\ ~Skipping
    BY DEF IInv, Shape, Composing, Skipping
  <2>2. pc \in ComposePcs \cup RestPcs
    BY <2>1 DEF IInv, Shape
  <2>3. CASE pc \in {"next", "sweep"}
    BY <2>3 DEF IInv, ComposeInv, ComposePcs, Carried, Read, Truth
  <2>4. CASE pc = "collapse"
    BY <2>4 DEF IInv, ComposeInv, ComposePcs, Carried, Read, Truth, LargestIn
  <2>5. CASE pc = "walk"
    BY <2>5 DEF IInv, ComposeInv, ComposePcs, Carried, Read, Truth, LargestIn
  <2>6. CASE pc \in RestPcs
    BY <2>1, <2>6 DEF IInv, Rested, RestPcs, Carried, Read, Truth
  <2> QED
    BY <2>2, <2>3, <2>4, <2>5, <2>6 DEF ComposePcs
<1> QED
  BY <1>1, Invariant, PTL

\* The two nibble tables of skip.rs are the escape set, for every set an instrument of
\* theirs is built for and every width of a nibble.
THEOREM TablesExactHolds == Spec => []TablesExact
<1>1. IInv => TablesExact
  <2> SUFFICES ASSUME IInv, Skipping, K!Instrument(leaves) = "wide", NEW y \in K!Bytes
               PROVE  K!Member(leaves, y) <=> y \in leaves
    BY DEF TablesExact, K!Exact
  <2>1. leaves \in SUBSET K!Bytes
    BY DEF IInv, Shape, K!Leaves
  <2> QED
    BY <2>1, TablesAreTheSet
<1> QED
  BY <1>1, Invariant, PTL

\* A lane that skips stands where the run stands, and jumped over nothing that would have
\* moved it: `refutes_skipping`, whichever kernel each find was given.
THEOREM JumpsAreExactHolds == Spec => []JumpsAreExact
<1>1. IInv => JumpsAreExact
  <2> SUFFICES ASSUME IInv, Skipping PROVE K!Jumped
    BY DEF JumpsAreExact
  <2>1. lane > 0 /\ ~Composing /\ Shape
    BY DEF IInv, Shape, Composing, Skipping
  <2>2. pc \in SkipPcs \cup RestPcs
    BY <2>1 DEF Shape
  <2>3. pc = "read" => at < Len(hay)
    BY DEF IInv, SkipInv, SkipPcs
  <2>4. verdict # "survives" => live = Truth[at] /\ Below(at)
    <3>1. CASE pc \in SkipPcs
      BY <3>1, InScan, InSkip
    <3>2. CASE pc \in RestPcs
      <4> SUFFICES ASSUME verdict # "survives" PROVE live = Truth[at] /\ Below(at)
        OBVIOUS
      <4>1. StaysBelow(q) /\ at \in 0 .. Len(hay) /\ live = Truth[at]
        BY <2>1, <3>2 DEF IInv, Rested
      <4>2. Below(Len(hay)) /\ Len(hay) \in Nat
        BY <2>1, <4>1, BelowToTheEnd, Reading
      <4> QED
        BY <4>1, <4>2 DEF Below
    <3> QED
      BY <2>2, <3>1, <3>2
  <2>5. ASSUME pc \in {"classify", "tail"}
        PROVE  window <= Len(K!Rest) /\ \A i \in 1 .. window : K!Rest[i] \notin leaves
    <3>1. Rest \in Nat /\ Len(K!Rest) = Rest
      BY <2>5, InScan, TheRest DEF SkipPcs
    <3> QED
      BY <2>5, <3>1, Classifying
  <2>6. K!RunOf(q, hay, 0, q.start) = Truth
    BY DEF K!RunOf, RunOf, Truth
  <2> QED
    BY <2>3, <2>4, <2>5, <2>6 DEF K!Jumped, Below
<1> QED
  BY <1>1, Invariant, PTL

\* `refutes` and `refutes_scalar` are semantically identical: every scan answers what one
\* scalar run answers, and the sieve refutes if and only if the run of one of its lanes
\* never accepts.
THEOREM RefutesAsScalarHolds == Spec => []RefutesAsScalar
<1>1. IInv => RefutesAsScalar
  <2> SUFFICES ASSUME IInv PROVE RefutesAsScalar
    OBVIOUS
  <2>1. lane \in 0 .. Len(sieve) /\ DOMAIN sieve = 1 .. Len(sieve) /\ Len(sieve) \in Nat
        /\ (lane > 0 => q = sieve[lane].quotient)
    BY DEF IInv, Shape
  <2>2. ASSUME pc = "done" PROVE verdict = "refuted" <=> StaysBelow(q)
    <3>1. lane > 0
      BY <2>1, <2>2 DEF IInv, Shape
    <3> QED
      BY <2>2, <3>1 DEF IInv, Rested, RestPcs
  <2>3. ASSUME answer # "none"
        PROVE  answer = "refuted" <=> \E i \in DOMAIN sieve : StaysBelow(sieve[i].quotient)
    <3>1. CASE answer = "refuted"
      <4>1. lane \in DOMAIN sieve /\ StaysBelow(sieve[lane].quotient)
        BY <2>1, <3>1 DEF IInv, Answered
      <4> QED
        BY <3>1, <4>1
    <3>2. CASE answer = "survives"
      <4>1. /\ lane = Len(sieve) /\ (lane > 0 => ~StaysBelow(sieve[lane].quotient))
            /\ \A i \in 1 .. lane - 1 : ~StaysBelow(sieve[i].quotient)
        BY <2>1, <3>2 DEF IInv, Answered
      <4>2. \A i \in DOMAIN sieve : i \in 1 .. lane - 1 \/ (i = lane /\ lane > 0)
        BY <2>1, <4>1
      <4> QED
        BY <3>2, <4>1, <4>2
    <3> QED
      BY <2>3, <3>1, <3>2 DEF IInv, Answered
  <2> QED
    BY <2>2, <2>3 DEF RefutesAsScalar
<1> QED
  BY <1>1, Invariant, PTL

-----------------------------------------------------------------------------
(* What a refutation proves of the core the lanes were induced from.       *)

\* Every lane is a quotient that passed `induce`.
BuiltFrom(c) ==
  \A i \in DOMAIN sieve : \E block \in [States(c) -> BlockIds] :
    Induces(c, block) /\ sieve[i].quotient = Quotient(c, block)

\* The core, read as a quotient that merges nothing.
Itself(c) ==
  [blocks |-> c.states, threshold |-> c.states, start |-> c.start,
   rows |-> [y \in Byte |-> [s \in States(c) |-> Step(c, s, c.class_of[y])]]]

\* The states the core itself goes through.
CoreRun(c) == RunOf(Itself(c), hay, 0, c.start)

LEMMA CoreRunFacts ==
  ASSUME NEW c, IsCore(c), hay \in Seq(Byte)
  PROVE  /\ CoreRun(c) \in [0 .. Len(hay) -> States(c)]
         /\ CoreRun(c)[0] = c.start
         /\ \A j \in 0 .. Len(hay) - 1 :
              CoreRun(c)[j + 1] = Step(c, CoreRun(c)[j], c.class_of[hay[j + 1]])
<1> DEFINE l == Itself(c)
<1>1. /\ l.blocks = c.states /\ l.threshold = c.states /\ l.start = c.start
      /\ DOMAIN l.rows = Byte /\ BlocksOf(l) = States(c)
      /\ \A y \in Byte, s \in States(c) : l.rows[y][s] = Step(c, s, c.class_of[y])
  BY DEF Itself, BlocksOf, States
<1>2. IsQuotient(l)
  <2>1. c.states \in Nat /\ c.start \in 0 .. c.states - 1
    BY DEF IsCore, States
  <2>2. \A y \in Byte, s \in States(c) : Step(c, s, c.class_of[y]) \in States(c)
    BY DEF IsCore, Step
  <2>3. l.rows \in [Byte -> [States(c) -> States(c)]]
    BY <2>2 DEF Itself
  <2> HIDE DEF l
  <2> QED
    BY <1>1, <2>1, <2>3 DEF IsQuotient, States
<1>3. CoreRun(c) = RunOf(l, hay, 0, l.start)
  BY DEF CoreRun, Itself
<1> HIDE DEF l
<1>4. /\ CoreRun(c) \in [0 .. Len(hay) -> States(c)]
      /\ CoreRun(c)[0] = c.start
      /\ \A j \in 0 .. Len(hay) - 1 : CoreRun(c)[j + 1] = l.rows[hay[j + 1]][CoreRun(c)[j]]
  BY <1>1, <1>2, <1>3, RunFromStart
<1>5. ASSUME NEW j \in 0 .. Len(hay) - 1
      PROVE  CoreRun(c)[j + 1] = Step(c, CoreRun(c)[j], c.class_of[hay[j + 1]])
  <2>1. hay[j + 1] \in Byte
    BY <1>5
  <2>2. CoreRun(c)[j] \in States(c)
    <3>1. j \in 0 .. Len(hay)
      OBVIOUS
    <3> QED
      BY <1>4, <3>1
  <2> QED
    BY <1>1, <1>4, <2>1, <2>2
<1> QED
  BY <1>4, <1>5

\* The run of an induced quotient is the image of the core's.
LEMMA QuotientFollowsCore ==
  ASSUME NEW c, IsCore(c), hay \in Seq(Byte),
         NEW block \in [States(c) -> BlockIds], Induces(c, block),
         IsQuotient(Quotient(c, block))
  PROVE  \A j \in 0 .. Len(hay) :
           RunOf(Quotient(c, block), hay, 0, Quotient(c, block).start)[j]
             = Home(c, block, CoreRun(c)[j])
<1> DEFINE l == Quotient(c, block)
           run == RunOf(l, hay, 0, l.start)
           S == {j \in 0 .. Len(hay) : run[j] = Home(c, block, CoreRun(c)[j])}
<1>1. /\ \A s \in States(c), y \in Byte :
           l.rows[y][Home(c, block, s)] = Home(c, block, Step(c, s, c.class_of[y]))
      /\ l.start = Home(c, block, c.start) /\ DOMAIN l.rows = Byte
  <2>1. l.start = Home(c, block, c.start) /\ DOMAIN l.rows = Byte
    BY DEF Quotient
  <2>2. \A s \in States(c), y \in Byte :
          l.rows[y][Home(c, block, s)] = Home(c, block, Step(c, s, c.class_of[y]))
    BY InducedIsSound
  <2> QED
    BY <2>1, <2>2
<1> HIDE DEF l
<1>2. /\ run[0] = l.start
      /\ \A j \in 0 .. Len(hay) - 1 : run[j + 1] = l.rows[hay[j + 1]][run[j]]
  <2>1. IsQuotient(l) /\ hay \in Seq(DOMAIN l.rows)
    BY <1>1 DEF l
  <2> QED
    BY <2>1, RunFromStart
<1> HIDE DEF run
<1>3. /\ CoreRun(c) \in [0 .. Len(hay) -> States(c)]
      /\ CoreRun(c)[0] = c.start
      /\ \A j \in 0 .. Len(hay) - 1 :
           CoreRun(c)[j + 1] = Step(c, CoreRun(c)[j], c.class_of[hay[j + 1]])
  BY CoreRunFacts
<1>4. Len(hay) \in Nat
  OBVIOUS
<1>5. 0 \in S
  BY <1>1, <1>2, <1>3, <1>4
<1>6. ASSUME NEW j \in 0 .. Len(hay) - 1, j \in S PROVE j + 1 \in S
  <2>1. hay[j + 1] \in Byte /\ j \in 0 .. Len(hay) /\ j + 1 \in 0 .. Len(hay)
    BY <1>4
  <2>2. CoreRun(c)[j] \in States(c)
    BY <1>3, <2>1
  <2>3. run[j + 1] = Home(c, block, CoreRun(c)[j + 1])
    BY <1>1, <1>2, <1>3, <1>6, <2>1, <2>2
  <2> QED
    BY <2>1, <2>3
<1>7. \A j \in 0 .. Len(hay) : j \in S
  <2> HIDE DEF S
  <2> QED
    BY <1>4, <1>5, <1>6, UpTo
<1> QED
  BY <1>7 DEF run, l

\* "A rejection proves everything" (README, Soundness), from `induce` to the answer: if
\* every lane of the sieve was induced from a core, and the sieve refutes a document by
\* whichever scans and kernels, then the core accepts at no position of that document.
THEOREM RefutationIsSound ==
  ASSUME NEW c, IsCore(c)
  PROVE  Spec => [](BuiltFrom(c) /\ answer = "refuted"
                      => \A j \in 0 .. Len(hay) : CoreRun(c)[j] \notin c.accept)
<1>1. IInv => (BuiltFrom(c) /\ answer = "refuted"
                 => \A j \in 0 .. Len(hay) : CoreRun(c)[j] \notin c.accept)
  <2> SUFFICES ASSUME IInv, BuiltFrom(c), answer = "refuted",
                      NEW j \in 0 .. Len(hay), CoreRun(c)[j] \in c.accept
               PROVE  FALSE
    OBVIOUS
  <2>1. lane > 0 /\ lane \in DOMAIN sieve /\ StaysBelow(q) /\ Shape
    BY DEF IInv, Answered, Shape
  <2>2. IsQuotient(q) /\ hay \in Seq(DOMAIN q.rows) /\ q = sieve[lane].quotient
        /\ Truth \in [0 .. Len(hay) -> Block] /\ Block \subseteq Nat /\ q.threshold \in Nat
    BY <2>1, Reading
  <2>3. PICK block \in [States(c) -> BlockIds] :
          Induces(c, block) /\ q = Quotient(c, block)
    BY <2>1, <2>2 DEF BuiltFrom
  <2>4. hay \in Seq(Byte)
    BY <2>2, <2>3 DEF Quotient
  <2>5. Truth[j] = Home(c, block, CoreRun(c)[j])
    BY <2>2, <2>3, <2>4, QuotientFollowsCore DEF Truth
  <2>6. CoreRun(c)[j] \in States(c)
    BY <2>4, CoreRunFacts
  <2>7. Truth[j] >= q.threshold
    BY <2>3, <2>5, <2>6, InducedIsSound
  <2>8. Truth[j] < q.threshold
    BY <2>1 DEF StaysBelow, Truth
  <2>9. Truth[j] \in Nat
    <3>1. Truth[j] \in Block
      BY <2>2
    <3> QED
      BY <2>2, <3>1, Zenon
  <2> QED
    BY <2>2, <2>7, <2>8, <2>9
<1> QED
  BY <1>1, Invariant, PTL
=============================================================================
