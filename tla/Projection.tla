----------------------------- MODULE Projection -----------------------------
(***************************************************************************)
(* The walk that turns somebody else's automaton into a core               *)
(* (projection.rs, `Projection::of`, `explore` and `refine`): breadth      *)
(* first, one byte at a time, giving up on a quit state or on one state    *)
(* more than the cap.                                                      *)
(***************************************************************************)
EXTENDS Core, Sequences, FiniteSets

CONSTANTS
  LastByte,        \* u8::MAX
  Automata,        \* the automata a caller may hand over
  MaxCoreStates,   \* MAX_CORE_STATES
  NoStart          \* what `Dfa::start` answers when it cannot say

\* The trait `Dfa`, as a record: the methods are functions of the state, and the states
\* are the values of a type that is `Copy`, finitely many.  Which states are skipped over
\* (`accelerator`) is nothing to the projection.
IsAutomaton(d) ==
  /\ IsFiniteSet(d.states)
  /\ d.start \in d.states \cup {NoStart}
  /\ d.next \in [d.states -> [Byte -> d.states]]
  /\ d.next_eoi \in [d.states -> d.states]
  /\ d.match \in SUBSET d.states
  /\ d.quit \in SUBSET d.states

ASSUME ByteAssumption == LastByte \in Nat /\ Byte = 0 .. LastByte
ASSUME AutomataAssumption == \A d \in Automata : IsAutomaton(d) /\ NoStart \notin d.states
ASSUME CapAssumption == MaxCoreStates \in Nat \ {0}

VARIABLES
  dfa,        \* the automaton; never changes
  pc,         \* "start", "walk", "build" or "done"
  queue,      \* the states met, in the order they were met
  interned,   \* the compact id each of them was given
  head,       \* how many states have left the queue
  byte,       \* the byte the state that left last is read on next
  next,       \* the row being filled
  rows,       \* the finished rows
  answer      \* NoAnswer, a reason to decline, or the core

vars == <<dfa, pc, queue, interned, head, byte, next, rows, answer>>

NoAnswer == [kind |-> "none"]
Decline(reason) == [kind |-> "decline", reason |-> reason]

Init ==
  /\ dfa \in Automata
  /\ pc = "start"
  /\ queue = <<>>
  /\ interned = <<>>
  /\ head = 0
  /\ byte = 0
  /\ next = <<>>
  /\ rows = <<>>
  /\ answer = NoAnswer

\* `Row.accepts`: matches now, or would match at end of input.
Accepts(s) == s \in dfa.match \/ dfa.next_eoi[s] \in dfa.match

Stop(a) == pc' = "done" /\ answer' = a

\* The two early returns of `of`.
DeclineAtStart ==
  /\ pc = "start"
  /\ \/ dfa.start = NoStart /\ Stop(Decline("Quits"))
     \/ dfa.start # NoStart /\ Accepts(dfa.start) /\ Stop(Decline("MatchesEmpty"))
  /\ UNCHANGED <<dfa, queue, interned, head, byte, next, rows>>

\* Entry of `explore`.
Enter ==
  /\ pc = "start"
  /\ dfa.start # NoStart
  /\ ~Accepts(dfa.start)
  /\ queue' = <<dfa.start>>
  /\ interned' = [s \in {dfa.start} |-> 0]
  /\ pc' = "walk"
  /\ UNCHANGED <<dfa, head, byte, next, rows, answer>>

\* Mutant: the head is read and never advanced.
TakeHeadAgain ==
  /\ pc = "walk"
  /\ head = Len(rows)
  /\ head < Len(queue)
  /\ byte' = 0
  /\ next' = <<>>
  /\ UNCHANGED <<dfa, pc, queue, interned, head, rows, answer>>

\* The next state leaves the queue.
TakeHead ==
  /\ pc = "walk"
  /\ head = Len(rows)
  /\ head < Len(queue)
  /\ head' = head + 1
  /\ byte' = 0
  /\ next' = <<>>
  /\ UNCHANGED <<dfa, pc, queue, interned, rows, answer>>

Reading == pc = "walk" /\ head > Len(rows) /\ byte <= LastByte
Current == queue[head]
Successor == dfa.next[Current][byte]

WalkQuits ==
  /\ Reading
  /\ Successor \in dfa.quit
  /\ Stop(Decline("Quits"))
  /\ UNCHANGED <<dfa, queue, interned, head, byte, next, rows>>

\* The successor has an id already.
ReadKnown ==
  /\ Reading
  /\ Successor \notin dfa.quit
  /\ Successor \in DOMAIN interned
  /\ next' = Append(next, interned[Successor])
  /\ byte' = byte + 1
  /\ UNCHANGED <<dfa, pc, queue, interned, head, rows, answer>>

\* Mutant: the cap is taken for the first size refused.
WalkTooWideEarly ==
  /\ Reading
  /\ Successor \notin dfa.quit
  /\ Successor \notin DOMAIN interned
  /\ Len(queue) + 1 = MaxCoreStates
  /\ Stop(Decline("TooWide"))
  /\ UNCHANGED <<dfa, queue, interned, head, byte, next, rows>>

WalkTooWide ==
  /\ Reading
  /\ Successor \notin dfa.quit
  /\ Successor \notin DOMAIN interned
  /\ Len(queue) = MaxCoreStates
  /\ Stop(Decline("TooWide"))
  /\ UNCHANGED <<dfa, queue, interned, head, byte, next, rows>>

\* Mutant: the fresh id is taken after the push.
ReadFreshLate ==
  /\ Reading
  /\ Successor \notin dfa.quit
  /\ Successor \notin DOMAIN interned
  /\ Len(queue) # MaxCoreStates
  /\ queue' = Append(queue, Successor)
  /\ interned' = [s \in DOMAIN interned \cup {Successor} |->
                    IF s = Successor THEN Len(queue') ELSE interned[s]]
  /\ next' = Append(next, Len(queue'))
  /\ byte' = byte + 1
  /\ UNCHANGED <<dfa, pc, head, rows, answer>>

\* The successor is new: it is given the next id and queued.
ReadFresh ==
  /\ Reading
  /\ Successor \notin dfa.quit
  /\ Successor \notin DOMAIN interned
  /\ Len(queue) # MaxCoreStates
  /\ queue' = Append(queue, Successor)
  /\ interned' = [s \in DOMAIN interned \cup {Successor} |->
                    IF s = Successor THEN Len(queue) ELSE interned[s]]
  /\ next' = Append(next, Len(queue))
  /\ byte' = byte + 1
  /\ UNCHANGED <<dfa, pc, head, rows, answer>>

\* Mutant: acceptance at end of input is forgotten.
EndRowInterior ==
  /\ pc = "walk"
  /\ head > Len(rows)
  /\ byte > LastByte
  /\ rows' = Append(rows, [next |-> next, accepts |-> Current \in dfa.match])
  /\ UNCHANGED <<dfa, pc, queue, interned, head, byte, next, answer>>

\* Every byte is read: the row is pushed.
EndRow ==
  /\ pc = "walk"
  /\ head > Len(rows)
  /\ byte > LastByte
  /\ rows' = Append(rows, [next |-> next, accepts |-> Accepts(Current)])
  /\ UNCHANGED <<dfa, pc, queue, interned, head, byte, next, answer>>

EndWalk ==
  /\ pc = "walk"
  /\ head = Len(rows)
  /\ head = Len(queue)
  /\ pc' = "build"
  /\ UNCHANGED <<dfa, queue, interned, head, byte, next, rows, answer>>

-----------------------------------------------------------------------------
(* `refine` and the table.                                                 *)

\* Mutant: a column is compared by the start state's row alone.
SameColumnAtStart(x, y) == rows[1].next[x + 1] = rows[1].next[y + 1]

\* Two bytes no row routes differently have the same column.
SameColumn(x, y) == \A i \in DOMAIN rows : rows[i].next[x + 1] = rows[i].next[y + 1]

\* The bytes that open a class when bytes are read in order.
Openers == {y \in Byte : \A x \in 0 .. y - 1 : ~SameColumn(x, y)}

ClassOf == [y \in Byte |-> Cardinality({x \in Openers : \A z \in Byte :
                                          SameColumn(z, y) => x < z})]

\* A column is written once per byte of its class, each time with the same value;
\* the last one stays.
LastOf(j) == CHOOSE y \in Byte : ClassOf[y] = j /\ \A z \in Byte : ClassOf[z] = j => z <= y

Table ==
  [states   |-> Len(rows),
   classes  |-> Cardinality(Openers),
   delta    |-> [s \in 0 .. Len(rows) - 1 |->
                   [j \in 0 .. Cardinality(Openers) - 1 |-> rows[s + 1].next[LastOf(j) + 1]]],
   accept   |-> {s \in 0 .. Len(rows) - 1 : rows[s + 1].accepts},
   start    |-> 0,
   class_of |-> ClassOf]

Build ==
  /\ pc = "build"
  /\ Stop([kind |-> "core", core |-> Table])
  /\ UNCHANGED <<dfa, queue, interned, head, byte, next, rows>>

Next ==
  \/ DeclineAtStart \/ Enter
  \/ TakeHead \/ WalkQuits \/ ReadKnown \/ WalkTooWide \/ ReadFresh \/ EndRow \/ EndWalk
  \/ Build

Spec == Init /\ [][Next]_vars

\* `of` runs until it returns.
FairSpec == Spec /\ WF_vars(Next)

-----------------------------------------------------------------------------
(* Properties.                                                             *)

\* The states a search can be in after some bytes: in every set that holds the
\* start state and is closed under `next`.
ClosedSet(set) == dfa.start \in set /\ \A s \in set, y \in Byte : dfa.next[s][y] \in set
Reachable == {s \in dfa.states : \A set \in SUBSET dfa.states : ClosedSet(set) => s \in set}

\* The states reached on at least one byte.
Entered == {dfa.next[s][y] : s \in Reachable, y \in Byte}

Built == answer.kind = "core"
Declined(reason) == answer = Decline(reason)

\* The sorted intern table and the queue stay inverse to each other while both
\* grow in the middle of a row, and nothing is met that no input leads to: an id
\* handed out is the position its row will have.
InternedIsQueue ==
  /\ pc # "start" => DOMAIN interned = {queue[i] : i \in DOMAIN queue}
  /\ \A i \in DOMAIN queue : interned[queue[i]] = i - 1
  /\ \A i \in DOMAIN queue : queue[i] \in Reachable

\* The core is the reachable automaton under new names: every reachable state is
\* in it, no other, and a step on any byte leads to the same place in both.
Faithful ==
  Built =>
    /\ DOMAIN interned = Reachable
    /\ answer.core.states = Cardinality(Reachable)
    /\ interned[dfa.start] = answer.core.start
    /\ \A s \in Reachable :
         /\ interned[s] \in answer.core.accept <=> Accepts(s)
         /\ \A y \in Byte :
              Step(answer.core, interned[s], answer.core.class_of[y])
                = interned[dfa.next[s][y]]

\* The classes are the exact partition (the comment on `refine`): bytes share one
\* if and only if no reachable state tells them apart.
ClassesExact ==
  Built =>
    \A x, y \in Byte :
      answer.core.class_of[x] = answer.core.class_of[y]
        <=> \A s \in Reachable : dfa.next[s][x] = dfa.next[s][y]

\* Every reason given is true of the automaton: neither a walk that stops early nor the
\* order of the checks makes one up.  And what `of` looks for is not in the core it hands
\* over; a quit state it looks for among the successors (`explore`), not at the start.
DeclineIsTrue ==
  /\ Declined("Quits") => dfa.start = NoStart \/ Entered \cap dfa.quit # {}
  /\ Declined("MatchesEmpty") => Accepts(dfa.start)
  /\ Declined("TooWide") => Cardinality(Reachable) > MaxCoreStates
  /\ Built => /\ dfa.start # NoStart
              /\ ~Accepts(dfa.start)
              /\ Entered \cap dfa.quit = {}
              /\ Cardinality(Reachable) <= MaxCoreStates

\* The doc of `is_quit`: an automaton that reaches a quit state is declined.  A search is
\* in its start state before any byte, and nothing asks that state: the run that checks
\* this finds it handed over, where no byte leads back to it.
NoQuitStateInCore == Built => Reachable \cap dfa.quit = {}

\* Every state met is expanded once, and there are at most MaxCoreStates of them.
Terminates == <>(pc = "done")
=============================================================================
