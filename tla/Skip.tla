-------------------------------- MODULE Skip --------------------------------
(***************************************************************************)
(* The scan that jumps (shuffle.rs, `refutes_skipping`; skip.rs; arch/*.rs, *)
(* `classify`): while the run sits in the resident block, an instrument     *)
(* finds the next byte that leaves it.  A byte is two nibbles; the wide     *)
(* instrument classifies `StepWidth` bytes at a time by two nibble tables   *)
(* and hands what a whole step does not cover to the scalar tail.  Sieve    *)
(* starts a scan for each lane that holds a skip.                           *)
(***************************************************************************)
EXTENDS Run, FiniteSets

CONSTANTS
  Nibble,      \* how many values half a byte has: 16
  MaxFew,      \* the largest set `memchr` searches for: 3
  MaxWide,     \* MAX_WIDE
  StepWidths   \* STEP, for each kernel; 1 stands for the scalar one

Bytes == 0 .. Nibble * Nibble - 1
Low(y)  == y % Nibble
High(y) == y \div Nibble

\* The upper half of the bytes, from 0x80 on, is not ASCII.
HalfNibble == Nibble \div 2
Ascii(y) == High(y) < HalfNibble

-----------------------------------------------------------------------------
(* `Skip::of` and `Escape::of`.                                            *)

Blocks(q) == 0 .. q.blocks - 1

Leaves(q, block) == {y \in Bytes : q.rows[y][block] # block}

\* `hi`: one bit per high nibble of the ASCII half, none above it.
Select(h) == IF h < HalfNibble THEN {h} ELSE {}

\* `lo`: the high nibbles a low nibble is a member with.
Picked(escape, l) == {High(y) : y \in {z \in escape : Low(z) = l}}

\* `member`.
Member(escape, y) == Picked(escape, Low(y)) \cap Select(High(y)) # {}

\* Mutant: the set is not looked at for high bytes.
InstrumentAnyByte(escape) ==
  CASE escape = {} -> "never"
    [] escape # {} /\ Cardinality(escape) <= MaxFew -> "few"
    [] OTHER -> IF Cardinality(escape) > MaxWide THEN "none" ELSE "wide"

\* `Escape::of`: which instrument represents the set exactly, if any does.
Instrument(escape) ==
  CASE escape = {} -> "never"
    [] escape # {} /\ Cardinality(escape) <= MaxFew -> "few"
    [] OTHER -> IF Cardinality(escape) > MaxWide \/ \E y \in escape : ~Ascii(y)
                  THEN "none" ELSE "wide"

-----------------------------------------------------------------------------

VARIABLES
  q,          \* the quotient of the lane being read
  resident,   \* Skip.resident
  leaves,     \* Skip.leaves, the escape set
  hay,        \* the document; never changes
  pc,         \* "loop", "classify", "tail", "read" or "done"
  at,         \* bytes behind the scan
  state,      \* the block the run is in
  step,       \* the bytes the kernel that classifies takes at a time
  window,     \* bytes of &hay[at..] the classifier has passed
  verdict     \* "none", "refuted" or "survives"

Own == <<resident, leaves, window>>
scan == <<q, hay, pc, at, step, state, verdict, Own>>

\* Entry of `refutes_skipping`.
Start(quotient, block) ==
  /\ q' = quotient
  /\ resident' = block
  /\ leaves' = Leaves(quotient, block)
  /\ pc' = "loop"
  /\ at' = 0
  /\ state' = quotient.start
  /\ step' = 1
  /\ window' = 0
  /\ verdict' = "none"
  /\ UNCHANGED hay

Rest == SubSeq(hay, at + 1, Len(hay))
Done(v) == pc' = "done" /\ verdict' = v
Fixed == <<q, resident, leaves, hay>>

\* The document is read.
Exhausted ==
  /\ pc = "loop"
  /\ at >= Len(hay)
  /\ Done("refuted")
  /\ UNCHANGED <<Fixed, at, state, step, window>>

\* Outside the resident block a byte is read at once.
Elsewhere ==
  /\ pc = "loop"
  /\ at < Len(hay)
  /\ state # resident
  /\ pc' = "read"
  /\ UNCHANGED <<Fixed, at, state, step, window, verdict>>

Sitting(instrument) ==
  /\ pc = "loop"
  /\ at < Len(hay)
  /\ state = resident
  /\ Instrument(leaves) = instrument

\* Nothing leaves the block: the rest is retired unread.
FindNever ==
  /\ Sitting("never")
  /\ Done("refuted")
  /\ UNCHANGED <<Fixed, at, state, step, window>>

Escapes == {i \in DOMAIN Rest : Rest[i] \in leaves}
First(positions) == CHOOSE i \in positions : \A j \in positions : i <= j

\* `memchr` and its kin answer the first position of the set, or none.
FindFew ==
  /\ Sitting("few")
  /\ IF Escapes = {}
       THEN Done("refuted") /\ UNCHANGED at
       ELSE pc' = "read" /\ at' = at + First(Escapes) - 1 /\ UNCHANGED verdict
  /\ UNCHANGED <<Fixed, state, step, window>>

\* The kernel is asked for at every find, and another thread may have forced a
\* different one since the last.
FindWide ==
  /\ Sitting("wide")
  /\ pc' = "classify"
  /\ step' \in StepWidths
  /\ window' = 0
  /\ UNCHANGED <<Fixed, at, state, verdict>>

\* The lanes of the window that hold a member.
Hits(n) == {i \in 1 .. n : Member(leaves, Rest[window + i])}

Whole == window + step <= Len(Rest)

\* Mutant: the lane of the hit is counted from one.
ClassifyHitAfter ==
  /\ pc = "classify"
  /\ Whole
  /\ Hits(step) # {}
  /\ at' = at + window + First(Hits(step))
  /\ pc' = "read"
  /\ UNCHANGED <<Fixed, state, step, window, verdict>>

\* A whole step with a member in it: the trailing zeros of the mask locate the first.
ClassifyHit ==
  /\ pc = "classify"
  /\ Whole
  /\ Hits(step) # {}
  /\ at' = at + window + First(Hits(step)) - 1
  /\ pc' = "read"
  /\ UNCHANGED <<Fixed, state, step, window, verdict>>

ClassifyMiss ==
  /\ pc = "classify"
  /\ Whole
  /\ Hits(step) = {}
  /\ window' = window + step
  /\ UNCHANGED <<Fixed, pc, at, state, step, verdict>>

EndClassify ==
  /\ pc = "classify"
  /\ ~Whole
  /\ pc' = "tail"
  /\ UNCHANGED <<Fixed, at, state, step, window, verdict>>

\* Mutant: the tail begins where the narrowest kernel's would.
TailFromNarrowest ==
  LET done == Len(Rest) - (Len(Rest) % First(StepWidths))
      found == {i \in done + 1 .. Len(Rest) : Member(leaves, Rest[i])}
  IN /\ pc = "tail"
     /\ IF found = {}
          THEN Done("refuted") /\ UNCHANGED at
          ELSE pc' = "read" /\ at' = at + First(found) - 1 /\ UNCHANGED verdict
     /\ UNCHANGED <<Fixed, state, step, window>>

\* `tail`: the last Len % step bytes, one at a time, from an offset it works out anew.
ScalarTail ==
  LET done == Len(Rest) - (Len(Rest) % step)
      found == {i \in done + 1 .. Len(Rest) : Member(leaves, Rest[i])}
  IN /\ pc = "tail"
     /\ IF found = {}
          THEN Done("refuted") /\ UNCHANGED at
          ELSE pc' = "read" /\ at' = at + First(found) - 1 /\ UNCHANGED verdict
     /\ UNCHANGED <<Fixed, state, step, window>>

\* One byte is read, and checked at once.
Read ==
  /\ pc = "read"
  /\ state' = q.rows[hay[at + 1]][state]
  /\ IF state' >= q.threshold
       THEN Done("survives") /\ UNCHANGED at
       ELSE pc' = "loop" /\ at' = at + 1 /\ UNCHANGED verdict
  /\ UNCHANGED <<Fixed, step, window>>

\* `refutes_skipping`.
RefutesSkipping ==
  \/ Exhausted \/ Elsewhere
  \/ FindNever \/ FindFew \/ FindWide
  \/ ClassifyHit \/ ClassifyMiss \/ EndClassify \/ ScalarTail
  \/ Read

-----------------------------------------------------------------------------
(* What its state stands for.                                              *)

\* The tables represent the escape set exactly, for the high bytes they have no bits
\* for as for the others.
Exact == Instrument(leaves) = "wide" => \A y \in Bytes : Member(leaves, y) <=> y \in leaves

\* Wherever the scan stands, it stands inside the document, in the block the run is in;
\* no byte it read or jumped over took the run to an accepting block, and what the
\* classifier has passed would have left it where it is.
Jumped ==
  LET run == RunOf(q, hay, 0, q.start) IN
  /\ pc = "read" => at < Len(hay)
  /\ verdict # "survives" => state = run[at] /\ \A j \in 0 .. at : run[j] < q.threshold
  /\ pc \in {"classify", "tail"} =>
       window <= Len(Rest) /\ \A i \in 1 .. window : Rest[i] \notin leaves
=============================================================================
