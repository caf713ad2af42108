------------------------------- MODULE Shuffle -------------------------------
(***************************************************************************)
(* The scan (shuffle.rs, `scalar` and `walk`; arch/*.rs, `sweep_shuffle`): *)
(* a chunk is cut into slices, each slice is composed into a function of   *)
(* the block it is entered on and a running maximum, all slices advance    *)
(* together, and they are collapsed in slice order.  A register carries    *)
(* one slice (SSSE3, NEON, SIMD128), two (AVX2) or four (AVX-512).  Sieve   *)
(* starts a scan for each lane that composes.                               *)
(***************************************************************************)
EXTENDS Run

CONSTANTS
  Chunk,       \* CHUNK
  Regs,        \* shuffle::WAYS, the registers advanced in lockstep
  PerReg,      \* how many slices a register carries, for each vector kernel
  Scalar       \* the kernel that shuffles nothing

ASSUME ChunkAssumption ==
  /\ Chunk \in Nat \ {0}
  /\ Regs \in Nat \ {0}
  /\ PerReg \subseteq Nat \ {0}
  /\ \A n \in PerReg : Chunk % (n * Regs) = 0
  /\ Scalar \notin PerReg

VARIABLES
  q,         \* the quotient of the lane being read
  hay,       \* the document; never changes
  kernel,    \* the slices a register carries, or Scalar: asked for once a scan
  pc,        \* "next", "sweep", "collapse", "walk" or "done"
  at,        \* bytes before the part being read
  stride,    \* bytes of a slice
  step,      \* bytes of every slice composed so far, or bytes walked
  compose,   \* the function each slice has composed to
  high,      \* the largest block each slice has visited, by entry block
  way,       \* slices collapsed so far
  live,      \* the block the run is in
  seen,      \* the largest block visited since the last check
  verdict    \* "none", or the answer: "refuted" or "survives"

Own == <<kernel, stride, compose, high, way, seen>>
scan == <<q, hay, pc, at, step, live, verdict, Own>>

Block == 0 .. q.blocks - 1
Greater(a, b) == IF a < b THEN b ELSE a

Ways == kernel * Regs
Rest == Len(hay) - at

\* A slice is held by lane l of register r.
Slices == (0 .. Regs - 1) \X (0 .. kernel - 1)

\* IDENTITY, in every lane of every register.
Untouched == [w \in Slices |-> [b \in Block |-> b]]

\* Entry of `refutes`.
Start(quotient) ==
  /\ q' = quotient
  /\ kernel' \in PerReg \cup {Scalar}
  /\ pc' = "next"
  /\ at' = 0
  /\ step' = 0
  /\ live' = quotient.start
  /\ seen' = quotient.start
  /\ verdict' = "none"
  /\ UNCHANGED <<hay, stride, compose, high, way>>

-----------------------------------------------------------------------------
(* The vector kernels.                                                     *)

\* Entry of `sweep` on the next n bytes, in slices of n / Ways.
Sweep(n) ==
  /\ pc' = "sweep"
  /\ stride' = n \div Ways
  /\ step' = 0
  /\ compose' = Untouched
  /\ high' = Untouched
  /\ UNCHANGED <<q, hay, kernel, at, way, live, seen, verdict>>

SweepChunk ==
  /\ pc = "next"
  /\ kernel # Scalar
  /\ Rest >= Chunk
  /\ Sweep(Chunk)

\* The paved part of a short rest, which may be empty: as many whole steps as fit.
SweepPaved ==
  /\ pc = "next"
  /\ kernel # Scalar
  /\ Rest < Chunk
  /\ Sweep((Rest \div Ways) * Ways)

\* Mutant: neighbouring slices are put in neighbouring registers.
RowForInterleaved(w) == q.rows[hay[at + (w[1] + Regs * w[2]) * stride + step + 1]]

\* The row the slice in lane l of register r shuffles by: a register's slices are one
\* stride apart.
RowFor(w) == q.rows[hay[at + kernel * w[1] * stride + w[2] * stride + step + 1]]

\* One step of every slice: shuffle by the row, then take the maximum.
Compose ==
  /\ pc = "sweep"
  /\ step < stride
  /\ compose' = [w \in DOMAIN compose |-> [b \in Block |-> RowFor(w)[compose[w][b]]]]
  /\ high' = [w \in DOMAIN high |-> [b \in Block |-> Greater(high[w][b], compose'[w][b])]]
  /\ step' = step + 1
  /\ UNCHANGED <<q, hay, kernel, pc, at, stride, way, live, seen, verdict>>

EndSweep ==
  /\ pc = "sweep"
  /\ step = stride
  /\ pc' = "collapse"
  /\ way' = 0
  /\ seen' = live
  /\ UNCHANGED <<q, hay, kernel, at, stride, step, compose, high, live, verdict>>

\* The n-th slice to be collapsed: register by register, low lane first.
InOrder(n) == <<n \div kernel, n % kernel>>

\* Mutant: the slices are collapsed last to first.
CollapseBackwards ==
  /\ pc = "collapse"
  /\ way < Ways
  /\ seen' = Greater(seen, high[InOrder(Ways - 1 - way)][live])
  /\ live' = compose[InOrder(Ways - 1 - way)][live]
  /\ way' = way + 1
  /\ UNCHANGED <<q, hay, kernel, pc, at, stride, step, compose, high, verdict>>

\* The next slice in order: its maximum and its function at the block it is really
\* entered on.
Collapse ==
  /\ pc = "collapse"
  /\ way < Ways
  /\ seen' = Greater(seen, high[InOrder(way)][live])
  /\ live' = compose[InOrder(way)][live]
  /\ way' = way + 1
  /\ UNCHANGED <<q, hay, kernel, pc, at, stride, step, compose, high, verdict>>

\* Mutant: a chunk that survives its check is not split off.
CheckSweepInPlace ==
  /\ pc = "collapse"
  /\ way = Ways
  /\ IF seen >= q.threshold
       THEN pc' = "done" /\ verdict' = "survives" /\ UNCHANGED <<step, seen>>
       ELSE IF stride * Ways = Chunk
       THEN pc' = "next" /\ UNCHANGED <<step, seen, verdict>>
       ELSE pc' = "walk" /\ step' = 0 /\ seen' = live /\ UNCHANGED verdict
  /\ UNCHANGED <<q, hay, kernel, at, stride, compose, high, way, live>>

\* The check after a sweep: a chunk is followed by the next one, the paved part by the
\* walk over what trails it.
CheckSweep ==
  /\ pc = "collapse"
  /\ way = Ways
  /\ at' = at + stride * Ways
  /\ IF seen >= q.threshold
       THEN pc' = "done" /\ verdict' = "survives" /\ UNCHANGED <<step, seen>>
       ELSE IF stride * Ways = Chunk
       THEN pc' = "next" /\ UNCHANGED <<step, seen, verdict>>
       ELSE pc' = "walk" /\ step' = 0 /\ seen' = live /\ UNCHANGED verdict
  /\ UNCHANGED <<q, hay, kernel, stride, compose, high, way, live>>

-----------------------------------------------------------------------------
(* The scalar path, and the walk the vector kernels end with.              *)

\* Entry of `walk` on the next chunk.
WalkChunk ==
  /\ pc = "next"
  /\ kernel = Scalar
  /\ Rest > 0
  /\ pc' = "walk"
  /\ step' = 0
  /\ seen' = live
  /\ UNCHANGED <<q, hay, kernel, at, stride, compose, high, way, live, verdict>>

Walked == step = Chunk \/ step = Rest

Walk ==
  /\ pc = "walk"
  /\ ~Walked
  /\ live' = q.rows[hay[at + step + 1]][live]
  /\ seen' = Greater(seen, live')
  /\ step' = step + 1
  /\ UNCHANGED <<q, hay, kernel, pc, at, stride, compose, high, way, verdict>>

\* The walk is over: its one check.
CheckWalk ==
  /\ pc = "walk"
  /\ Walked
  /\ at' = at + step
  /\ step' = 0
  /\ IF seen >= q.threshold
       THEN pc' = "done" /\ verdict' = "survives"
       ELSE IF kernel = Scalar
       THEN pc' = "next" /\ UNCHANGED verdict
       ELSE pc' = "done" /\ verdict' = "refuted"
  /\ UNCHANGED <<q, hay, kernel, stride, compose, high, way, live, seen>>

\* `chunks` is exhausted.
EndScalar ==
  /\ pc = "next"
  /\ kernel = Scalar
  /\ Rest = 0
  /\ pc' = "done"
  /\ verdict' = "refuted"
  /\ UNCHANGED <<q, hay, kernel, at, stride, step, compose, high, way, live, seen>>

\* `refutes`.
Refutes ==
  \/ SweepChunk \/ SweepPaved \/ Compose \/ EndSweep \/ Collapse \/ CheckSweep
  \/ WalkChunk \/ Walk \/ CheckWalk \/ EndScalar

-----------------------------------------------------------------------------
(* What its state stands for.                                              *)

Largest(run, n) == CHOOSE b \in Block : /\ \E j \in 0 .. n : run[j] = b
                                        /\ \A j \in 0 .. n : run[j] <= b

\* The slices tile a stretch of the document in the order they are collapsed: whatever
\* block the n-th is entered on, it has composed the run over the n-th stride of bytes
\* and the largest block that run visits.
Composed ==
  pc \in {"sweep", "collapse"} =>
    /\ at + stride * Ways <= Len(hay)
    /\ \A n \in 0 .. Ways - 1, b \in Block :
         LET run == RunOf(q, hay, at + n * stride, b)
         IN /\ compose[InOrder(n)][b] = run[step]
            /\ high[InOrder(n)][b] = Largest(run, step)

\* How many bytes the block in `live` accounts for.
Read == CASE pc = "collapse" -> at + way * stride
          [] pc = "walk"     -> at + step
          [] OTHER           -> at

\* The block carried from slice to slice, from sweep to sweep and into the walk is the
\* block the run is in, and the check sees every block visited since the last one.
Carried ==
  LET run == RunOf(q, hay, 0, q.start) IN
  /\ verdict # "survives" => live = run[Read]
  /\ pc \in {"collapse", "walk"} => \A j \in at .. Read : run[j] <= seen
=============================================================================
