---------------------------- MODULE Projection_proof ----------------------------
(***************************************************************************)
(* Proofs about Projection: for every automaton, every alphabet of bytes   *)
(* and every cap, the walk hands over a core that is the reachable         *)
(* automaton under new names with the exact partition of the bytes, or     *)
(* declines for a reason that is true.                                     *)
(***************************************************************************)
EXTENDS Projection, NumberFacts

-----------------------------------------------------------------------------
(* The invariant.                                                          *)

\* The states met so far, and where the one in place i of the queue goes on byte y.
Met == {queue[i] : i \in DOMAIN queue}
To(i, y) == dfa.next[queue[i]][y]

TypeOK ==
  /\ dfa \in Automata
  /\ pc \in {"start", "walk", "build", "done"}
  /\ queue \in Seq(dfa.states) /\ Len(queue) <= MaxCoreStates
  /\ head \in 0 .. Len(queue)
  /\ byte \in 0 .. LastByte + 1
  /\ next \in Seq(Nat)
  /\ rows \in Seq([next : Seq(Nat), accepts : BOOLEAN])
  /\ Len(rows) = head \/ Len(rows) + 1 = head

\* An id is a place in the queue.
Ids ==
  /\ DOMAIN interned = Met
  /\ \A i \in DOMAIN queue : interned[queue[i]] = i - 1

\* Nothing is in the queue that a search does not get to.
NothingElse ==
  \A set \in SUBSET dfa.states : ClosedSet(set) => \A i \in DOMAIN queue : queue[i] \in set

\* A row is where `to` leads on the bytes before `upto`, by ids, and to no quit state.
IsRow(row, upto, to, ids, quit) ==
  /\ Len(row) = upto
  /\ \A y \in 0 .. upto - 1 :
       to[y] \in DOMAIN ids /\ to[y] \notin quit /\ row[y + 1] = ids[to[y]]

RowsRight ==
  /\ \A i \in 1 .. Len(rows) :
       /\ IsRow(rows[i].next, LastByte + 1, dfa.next[queue[i]], interned, dfa.quit)
       /\ (rows[i].accepts <=> Accepts(queue[i]))
  /\ pc = "walk" /\ Len(rows) < head =>
       IsRow(next, byte, dfa.next[queue[head]], interned, dfa.quit)

\* Every state met has its row.
Complete == Len(rows) = Len(queue) /\ queue # <<>>

Phases ==
  /\ pc = "start" => queue = <<>> /\ head = 0
  /\ pc = "walk" => queue # <<>>
  /\ pc = "build" => Complete
  /\ pc # "done" => answer = NoAnswer
  /\ queue # <<>> => dfa.start # NoStart /\ ~Accepts(dfa.start) /\ queue[1] = dfa.start

\* Why a walk declined, of the queue it left behind.
Reasons ==
  /\ Declined("MatchesEmpty") => Accepts(dfa.start)
  /\ Declined("Quits") =>
       dfa.start = NoStart \/ \E i \in DOMAIN queue, y \in Byte : To(i, y) \in dfa.quit
  /\ Declined("TooWide") =>
       Len(queue) = MaxCoreStates /\ \E i \in DOMAIN queue, y \in Byte : To(i, y) \notin Met

\* A core that is the queue under the ids.
CoreOfQueue(c) ==
  /\ IsCore(c)
  /\ c.states = Len(queue)
  /\ c.start = 0
  /\ \A i \in DOMAIN queue :
       /\ i - 1 \in c.accept <=> Accepts(queue[i])
       /\ \A y \in Byte : Step(c, i - 1, c.class_of[y]) = interned[To(i, y)]
  /\ \A x, y \in Byte :
       c.class_of[x] = c.class_of[y] <=> \A i \in DOMAIN queue : To(i, x) = To(i, y)

CoreRight == Built => Complete /\ CoreOfQueue(answer.core)

IInv ==
  TypeOK /\ Ids /\ NothingElse /\ RowsRight /\ Phases /\ Reasons /\ CoreRight

-----------------------------------------------------------------------------
(* What the invariant says of the state a step starts in.                  *)

LEMMA AutomatonFacts ==
  ASSUME TypeOK
  PROVE  /\ IsAutomaton(dfa) /\ NoStart \notin dfa.states
         /\ \A s \in dfa.states, y \in Byte : dfa.next[s][y] \in dfa.states
         /\ LastByte \in Nat /\ Byte = 0 .. LastByte /\ MaxCoreStates \in Nat \ {0}
<1>1. IsAutomaton(dfa) /\ NoStart \notin dfa.states
  BY AutomataAssumption DEF TypeOK
<1>2. \A s \in dfa.states, y \in Byte : dfa.next[s][y] \in dfa.states
  BY <1>1 DEF IsAutomaton
<1> QED
  BY <1>1, <1>2, ByteAssumption, CapAssumption

\* No two places hold the same state.
LEMMA PlacesDiffer ==
  ASSUME TypeOK, Ids, NEW i \in DOMAIN queue, NEW j \in DOMAIN queue, queue[i] = queue[j]
  PROVE  i = j
<1>1. interned[queue[i]] = i - 1 /\ interned[queue[j]] = j - 1
  BY DEF Ids
<1>2. i \in Int /\ j \in Int
  BY DEF TypeOK
<1> QED
  BY <1>1, <1>2

\* The answers are told apart by their kind.
LEMMA Kinds ==
  /\ NoAnswer.kind = "none"
  /\ \A reason : Decline(reason).kind = "decline" /\ Decline(reason).reason = reason
BY DEF NoAnswer, Decline

LEMMA Start == Init => IInv
<1> SUFFICES ASSUME Init PROVE IInv
  OBVIOUS
<1>1. TypeOK
  <2>1. <<>> \in Seq(dfa.states) /\ <<>> \in Seq(Nat)
        /\ <<>> \in Seq([next : Seq(Nat), accepts : BOOLEAN]) /\ Len(<<>>) = 0
    OBVIOUS
  <2> QED
    BY <2>1, ByteAssumption, CapAssumption DEF Init, TypeOK
<1>2. DOMAIN queue = {} /\ Len(queue) = 0 /\ Len(rows) = 0
  BY DEF Init
<1>3. answer.kind = "none" /\ \A reason : ~Declined(reason)
  BY Kinds DEF Init, Declined
<1>4. Ids
  BY <1>2 DEF Ids, Met, Init
<1> QED
  BY <1>1, <1>2, <1>3, <1>4
  DEF Init, IInv, NothingElse, RowsRight, Phases, Reasons, CoreRight, Built


-----------------------------------------------------------------------------
(* The steps.                                                              *)

\* What depends on the queue and the ids alone stays as it is while they do.
LEMMA QueueKept ==
  ASSUME IInv, UNCHANGED <<dfa, queue, interned>>
  PROVE  /\ Met' = Met /\ Ids' /\ NothingElse'
         /\ \A i \in DOMAIN queue : Accepts(queue[i])' <=> Accepts(queue[i])
<1>1. Met' = Met
  BY DEF Met
<1>2. Ids'
  BY <1>1 DEF IInv, Ids
<1>3. NothingElse'
  BY DEF IInv, NothingElse, ClosedSet
<1>4. \A i \in DOMAIN queue : Accepts(queue[i])' <=> Accepts(queue[i])
  BY DEF Accepts
<1> QED
  BY <1>1, <1>2, <1>3, <1>4

\* The rows stay as they are, and so does the row being filled.
LEMMA RowsKept ==
  ASSUME IInv, UNCHANGED <<dfa, queue, interned, rows>>,
         pc' = "walk" /\ Len(rows) < head' => UNCHANGED <<pc, head, next, byte>>
  PROVE  RowsRight'
<1>1. \A i \in 1 .. Len(rows) : i \in DOMAIN queue
  BY DEF IInv, TypeOK
<1> QED
  BY <1>1 DEF IInv, RowsRight, Accepts

\* No answer is given and none was.
LEMMA StillNoAnswer ==
  ASSUME answer' = NoAnswer
  PROVE  Reasons' /\ CoreRight'
<1>1. answer'.kind = "none" /\ \A reason : answer' # Decline(reason)
  BY Kinds
<1> QED
  BY <1>1 DEF Reasons, CoreRight, Declined, Built

LEMMA TakeHeadKeeps ==
  ASSUME IInv, TakeHead
  PROVE  IInv'
<1>1. TypeOK'
  BY AutomatonFacts DEF IInv, TypeOK, TakeHead
<1>2. RowsRight'
  <2>1. IsRow(<<>>, 0, dfa.next[queue[head']], interned, dfa.quit)
    BY DEF IsRow
  <2>2. \A i \in 1 .. Len(rows) : i \in DOMAIN queue
    BY DEF IInv, TypeOK
  <2> QED
    BY <2>1, <2>2 DEF IInv, RowsRight, TakeHead, Accepts
<1>3. Phases'
  BY DEF IInv, Phases, TakeHead, Accepts
<1>4. answer' = NoAnswer
  BY DEF IInv, Phases, TakeHead
<1> QED
  BY <1>1, <1>2, <1>3, <1>4, QueueKept, StillNoAnswer DEF IInv, TakeHead

LEMMA SeqOfOne ==
  ASSUME NEW S, NEW x \in S
  PROVE  <<x>> \in Seq(S)
OBVIOUS

LEMMA EnterKeeps ==
  ASSUME IInv, Enter
  PROVE  IInv'
<1>1. queue = <<>> /\ head = 0 /\ Len(rows) = 0 /\ answer = NoAnswer
  BY DEF IInv, TypeOK, Phases, Enter
<1>2. queue' = <<dfa.start>> /\ dfa.start \in dfa.states
  <2>1. dfa.start \in dfa.states \cup {NoStart}
    BY AutomatonFacts DEF IInv, IsAutomaton
  <2> QED
    BY <2>1 DEF Enter
<1>3. Len(queue') = 1 /\ DOMAIN queue' = {1} /\ queue'[1] = dfa.start
      /\ queue' \in Seq(dfa.states)
  <2> DEFINE one == <<dfa.start>>
  <2>1. Len(one) = 1 /\ DOMAIN one = {1} /\ one[1] = dfa.start
    OBVIOUS
  <2>2. one \in Seq(dfa.states)
    BY <1>2, SeqOfOne
  <2> QED
    BY <1>2, <2>1, <2>2
<1>4. TypeOK'
  BY <1>1, <1>3, AutomatonFacts DEF IInv, TypeOK, Enter
<1>5. Ids'
  BY <1>3 DEF Ids, Met, Enter
<1>6. NothingElse'
  BY <1>3 DEF NothingElse, ClosedSet, Enter
<1>7. RowsRight'
  BY <1>1 DEF RowsRight, Enter
<1>8. Phases'
  BY <1>1, <1>3 DEF Phases, Enter, Accepts
<1>9. answer' = NoAnswer
  BY <1>1 DEF Enter
<1> QED
  BY <1>4, <1>5, <1>6, <1>7, <1>8, <1>9, StillNoAnswer DEF IInv


\* Where a walk that is reading has got to.
LEMMA ReadingFacts ==
  ASSUME IInv, Reading
  PROVE  /\ head \in DOMAIN queue /\ head = Len(rows) + 1 /\ Current \in dfa.states
         /\ byte \in 0 .. LastByte /\ byte \in Byte
         /\ Successor = To(head, byte) /\ Successor \in dfa.states
         /\ IsRow(next, byte, dfa.next[queue[head]], interned, dfa.quit)
         /\ answer = NoAnswer /\ queue # <<>> /\ pc = "walk"
<1>1. head = Len(rows) + 1 /\ head \in DOMAIN queue /\ Current \in dfa.states
  BY DEF IInv, TypeOK, Reading, Current
<1>2. byte \in 0 .. LastByte /\ byte \in Byte
  BY AutomatonFacts DEF IInv, TypeOK, Reading
<1>3. Successor = To(head, byte)
  BY DEF Successor, Current, To
<1>4. Successor \in dfa.states
  BY <1>1, <1>2, AutomatonFacts DEF IInv, Successor
<1>5. IsRow(next, byte, dfa.next[queue[head]], interned, dfa.quit)
  BY <1>1 DEF IInv, TypeOK, RowsRight, Reading
<1> QED
  BY <1>1, <1>2, <1>3, <1>4, <1>5 DEF IInv, Phases, Reading

LEMMA ReadKnownKeeps ==
  ASSUME IInv, ReadKnown
  PROVE  IInv'
<1>1. interned[Successor] \in Nat
  <2>1. PICK i \in DOMAIN queue : Successor = queue[i]
    BY DEF ReadKnown, IInv, Ids, Met
  <2> QED
    BY <2>1 DEF IInv, Ids, TypeOK
<1>2. next' \in Seq(Nat) /\ Len(next') = Len(next) + 1
      /\ next'[Len(next) + 1] = interned[Successor]
      /\ \A i \in 1 .. Len(next) : next'[i] = next[i]
  <2>1. next \in Seq(Nat)
    BY DEF IInv, TypeOK
  <2> QED
    BY <1>1, <2>1 DEF ReadKnown
<1>3. TypeOK'
  BY <1>2, ReadingFacts, AutomatonFacts DEF IInv, TypeOK, ReadKnown
<1>4. IsRow(next', byte', dfa.next[queue[head]], interned, dfa.quit)
  <2>1. byte \in Nat /\ byte' = byte + 1 /\ Len(next) = byte
    BY ReadingFacts DEF ReadKnown, IsRow
  <2>2. ASSUME NEW y \in 0 .. byte' - 1
        PROVE  /\ dfa.next[queue[head]][y] \in DOMAIN interned
               /\ dfa.next[queue[head]][y] \notin dfa.quit
               /\ next'[y + 1] = interned[dfa.next[queue[head]][y]]
    <3>1. CASE y = byte
      BY <1>2, <2>1, <3>1 DEF ReadKnown, Successor, Current
    <3>2. CASE y # byte
      <4>1. y \in 0 .. byte - 1 /\ y + 1 \in 1 .. Len(next)
        BY <2>1, <3>2
      <4> QED
        BY <4>1, <1>2, ReadingFacts DEF ReadKnown, IsRow
    <3> QED
      BY <3>1, <3>2
  <2> QED
    BY <1>2, <2>1, <2>2 DEF IsRow
<1>5. RowsRight'
  <2>1. \A i \in 1 .. Len(rows) : i \in DOMAIN queue
    BY DEF IInv, TypeOK
  <2> QED
    BY <1>4, <2>1 DEF IInv, RowsRight, ReadKnown, Accepts
<1>6. Phases'
  BY DEF IInv, Phases, ReadKnown, Accepts, Reading
<1>7. answer' = NoAnswer
  BY ReadingFacts DEF ReadKnown
<1>8. Met' = Met /\ Ids' /\ NothingElse'
  BY QueueKept DEF ReadKnown
<1> QED
  BY <1>3, <1>5, <1>6, <1>7, <1>8, StillNoAnswer DEF IInv


\* A row stays a row when more states are given ids.
LEMMA RowGrows ==
  ASSUME NEW row, NEW upto, NEW to, NEW ids, NEW more, NEW quit,
         IsRow(row, upto, to, ids, quit),
         DOMAIN ids \subseteq DOMAIN more, \A s \in DOMAIN ids : more[s] = ids[s]
  PROVE  IsRow(row, upto, to, more, quit)
BY DEF IsRow

LEMMA ReadFreshKeeps ==
  ASSUME IInv, ReadFresh
  PROVE  IInv'
<1> DEFINE n == Len(queue)
<1>0. Reading
  BY DEF ReadFresh
<1>1. /\ queue \in Seq(dfa.states) /\ n \in Nat /\ DOMAIN queue = 1 .. n
      /\ n + 1 <= MaxCoreStates
  BY AutomatonFacts DEF IInv, TypeOK, ReadFresh
<1>2. /\ queue' \in Seq(dfa.states) /\ Len(queue') = n + 1 /\ DOMAIN queue' = 1 .. n + 1
      /\ queue'[n + 1] = Successor
      /\ \A i \in 1 .. n : queue'[i] = queue[i]
  BY <1>1, ReadingFacts DEF ReadFresh
<1>3. Met' = Met \cup {Successor}
  <2>1. \A i \in 1 .. n : queue'[i] \in Met
    BY <1>1, <1>2 DEF Met
  <2>2. \A s \in Met : \E i \in 1 .. n : s = queue'[i]
    BY <1>1, <1>2 DEF Met
  <2>3. 1 .. n + 1 = (1 .. n) \cup {n + 1}
    BY <1>1
  <2>4. Met' = {queue'[i] : i \in 1 .. n + 1}
    BY <1>2 DEF Met
  <2> QED
    BY <1>2, <2>1, <2>2, <2>3, <2>4
<1>4. /\ DOMAIN interned' = DOMAIN interned \cup {Successor}
      /\ interned'[Successor] = n
      /\ \A s \in DOMAIN interned : interned'[s] = interned[s]
  BY DEF ReadFresh
<1>5. Ids'
  <2>1. DOMAIN interned' = Met'
    BY <1>3, <1>4 DEF IInv, Ids
  <2>2. ASSUME NEW i \in DOMAIN queue' PROVE interned'[queue'[i]] = i - 1
    <3>1. CASE i = n + 1
      BY <1>1, <1>2, <1>4, <3>1
    <3>2. CASE i # n + 1
      <4>1. i \in DOMAIN queue /\ queue'[i] = queue[i] /\ queue[i] \in DOMAIN interned
        BY <1>1, <1>2, <3>2 DEF IInv, Ids, Met
      <4> QED
        BY <4>1, <1>4 DEF IInv, Ids
    <3> QED
      BY <3>1, <3>2
  <2> QED
    BY <2>1, <2>2 DEF Ids
<1>6. NothingElse'
  <2>1. ASSUME NEW set \in SUBSET dfa.states, ClosedSet(set), NEW i \in DOMAIN queue'
        PROVE  queue'[i] \in set
    <3>1. \A j \in DOMAIN queue : queue[j] \in set
      BY <2>1 DEF IInv, NothingElse
    <3>2. Successor \in set
      BY <1>0, <3>1, <2>1, ReadingFacts DEF ClosedSet, Successor, Current
    <3> QED
      BY <1>1, <1>2, <3>1, <3>2
  <2> QED
    BY <2>1 DEF NothingElse, ClosedSet, ReadFresh
<1>7. next' \in Seq(Nat) /\ Len(next') = Len(next) + 1
      /\ next'[Len(next) + 1] = n
      /\ \A i \in 1 .. Len(next) : next'[i] = next[i]
  <2>1. next \in Seq(Nat)
    BY DEF IInv, TypeOK
  <2> QED
    BY <1>1, <2>1 DEF ReadFresh
<1>8. TypeOK'
  <2>1. /\ dfa' \in Automata /\ pc' \in {"start", "walk", "build", "done"}
        /\ rows' \in Seq([next : Seq(Nat), accepts : BOOLEAN])
        /\ Len(rows') = head' \/ Len(rows') + 1 = head'
    BY DEF IInv, TypeOK, ReadFresh
  <2>2. head' \in 0 .. Len(queue')
    BY <1>1, <1>2 DEF IInv, TypeOK, ReadFresh
  <2>3. byte' \in 0 .. LastByte + 1
    BY ReadingFacts, AutomatonFacts DEF IInv, ReadFresh
  <2>4. queue' \in Seq(dfa'.states) /\ Len(queue') <= MaxCoreStates
    BY <1>1, <1>2 DEF ReadFresh
  <2> QED
    BY <1>7, <2>1, <2>2, <2>3, <2>4 DEF TypeOK
<1>9. IsRow(next', byte', dfa.next[queue[head]], interned', dfa.quit)
  <2>1. byte \in Nat /\ byte' = byte + 1 /\ Len(next) = byte
    BY ReadingFacts DEF ReadFresh, IsRow
  <2>2. IsRow(next, byte, dfa.next[queue[head]], interned', dfa.quit)
    BY <1>0, <1>4, RowGrows, ReadingFacts
  <2>3. ASSUME NEW y \in 0 .. byte' - 1
        PROVE  /\ dfa.next[queue[head]][y] \in DOMAIN interned'
               /\ dfa.next[queue[head]][y] \notin dfa.quit
               /\ next'[y + 1] = interned'[dfa.next[queue[head]][y]]
    <3>1. CASE y = byte
      <4>1. dfa.next[queue[head]][y] = Successor
        BY <3>1 DEF Successor, Current
      <4> QED
        BY <1>4, <1>7, <2>1, <3>1, <4>1 DEF ReadFresh
    <3>2. CASE y # byte
      <4>1. y \in 0 .. byte - 1 /\ y + 1 \in 1 .. Len(next)
        BY <2>1, <3>2
      <4>2. next'[y + 1] = next[y + 1]
        BY <4>1, <1>7
      <4> QED
        BY <4>1, <4>2, <2>2 DEF IsRow
    <3> QED
      BY <3>1, <3>2
  <2> QED
    BY <1>7, <2>1, <2>3 DEF IsRow
<1>10. RowsRight'
  <2>1. \A i \in 1 .. Len(rows) : i \in DOMAIN queue /\ queue'[i] = queue[i]
    BY <1>1, <1>2 DEF IInv, TypeOK
  <2>2. queue'[head] = queue[head]
    BY <1>0, <1>1, <1>2, ReadingFacts
  <2>3. \A i \in 1 .. Len(rows) :
          IsRow(rows[i].next, LastByte + 1, dfa.next[queue[i]], interned', dfa.quit)
    BY <1>4, RowGrows DEF IInv, RowsRight
  <2> QED
    BY <1>9, <2>1, <2>2, <2>3 DEF IInv, RowsRight, ReadFresh, Accepts
<1>11. Phases'
  <2>1. 1 \in DOMAIN queue /\ queue' # <<>> /\ queue'[1] = queue[1]
    BY <1>0, <1>1, <1>2, ReadingFacts
  <2> QED
    BY <2>1, ReadingFacts DEF IInv, Phases, ReadFresh, Accepts
<1>12. answer' = NoAnswer
  BY ReadingFacts DEF ReadFresh
<1> QED
  BY <1>5, <1>6, <1>8, <1>10, <1>11, <1>12, StillNoAnswer DEF IInv

LEMMA EndRowKeeps ==
  ASSUME IInv, EndRow
  PROVE  IInv'
<1> DEFINE row == [next |-> next, accepts |-> Accepts(Current)]
<1>1. head = Len(rows) + 1 /\ head \in DOMAIN queue /\ Len(queue) \in Nat
  BY DEF IInv, TypeOK, EndRow
<1>2. byte = LastByte + 1
  BY AutomatonFacts DEF IInv, TypeOK, EndRow
<1>3. IsRow(next, LastByte + 1, dfa.next[queue[head]], interned, dfa.quit)
  BY <1>1, <1>2 DEF IInv, TypeOK, RowsRight, EndRow
<1>4. rows' = Append(rows, row) /\ rows \in Seq([next : Seq(Nat), accepts : BOOLEAN])
      /\ row \in [next : Seq(Nat), accepts : BOOLEAN]
  <2>1. Accepts(Current) \in BOOLEAN
    BY DEF Accepts
  <2> QED
    BY <2>1 DEF IInv, TypeOK, EndRow
<1>5. row.next = next /\ (row.accepts <=> Accepts(queue[head]))
  BY DEF Current
<1> HIDE DEF row
<1>6. /\ rows' \in Seq([next : Seq(Nat), accepts : BOOLEAN])
      /\ Len(rows') = head /\ rows'[head] = row
      /\ \A i \in 1 .. Len(rows) : rows'[i] = rows[i]
  BY <1>1, <1>4
<1>7. TypeOK'
  BY <1>1, <1>6 DEF IInv, TypeOK, EndRow
<1>8. RowsRight'
  <2>1. ASSUME NEW i \in 1 .. Len(rows')
        PROVE  /\ IsRow(rows'[i].next, LastByte + 1, dfa.next[queue[i]], interned, dfa.quit)
               /\ rows'[i].accepts <=> Accepts(queue[i])
    <3>1. CASE i = head
      BY <1>3, <1>5, <1>6, <3>1
    <3>2. CASE i # head
      <4>1. i \in 1 .. Len(rows) /\ rows'[i] = rows[i]
        BY <1>1, <1>6, <3>2
      <4> QED
        BY <4>1 DEF IInv, RowsRight
    <3> QED
      BY <3>1, <3>2
  <2>2. ~(Len(rows') < head')
    BY <1>1, <1>6 DEF EndRow
  <2> QED
    BY <2>1, <2>2 DEF RowsRight, EndRow, Accepts
<1>9. Phases'
  BY DEF IInv, Phases, EndRow, Accepts
<1>10. answer' = NoAnswer
  BY DEF IInv, Phases, EndRow
<1>11. Ids' /\ NothingElse'
  BY QueueKept DEF EndRow
<1> QED
  BY <1>7, <1>8, <1>9, <1>10, <1>11, StillNoAnswer DEF IInv

LEMMA EndWalkKeeps ==
  ASSUME IInv, EndWalk
  PROVE  IInv'
<1>1. TypeOK'
  BY DEF IInv, TypeOK, EndWalk
<1>2. RowsRight'
  BY RowsKept DEF EndWalk
<1>3. Phases'
  BY DEF IInv, TypeOK, Phases, EndWalk, Accepts, Complete
<1>4. answer' = NoAnswer
  BY DEF IInv, Phases, EndWalk
<1>5. Ids' /\ NothingElse'
  BY QueueKept DEF EndWalk
<1> QED
  BY <1>1, <1>2, <1>3, <1>4, <1>5, StillNoAnswer DEF IInv


\* A step that stops touches nothing else.
LEMMA StopKeeps ==
  ASSUME IInv, pc' = "done", UNCHANGED <<dfa, queue, interned, head, byte, next, rows>>,
         Reasons', CoreRight'
  PROVE  IInv'
<1>1. TypeOK'
  BY DEF IInv, TypeOK
<1>2. RowsRight'
  BY RowsKept
<1>3. Phases'
  BY DEF IInv, Phases, Accepts
<1>4. Ids' /\ NothingElse'
  BY QueueKept
<1> QED
  BY <1>1, <1>2, <1>3, <1>4 DEF IInv

\* To decline is to give a reason.
LEMMA DeclineKeeps ==
  ASSUME IInv, UNCHANGED <<dfa, queue, interned, head, byte, next, rows>>,
         NEW reason, Stop(Decline(reason)), Reasons'
  PROVE  IInv'
<1>1. CoreRight'
  BY Kinds DEF CoreRight, Built, Stop
<1> QED
  BY <1>1, StopKeeps DEF Stop

LEMMA DeclineAtStartKeeps ==
  ASSUME IInv, DeclineAtStart
  PROVE  IInv'
<1>1. CASE dfa.start = NoStart /\ Stop(Decline("Quits"))
  <2>1. Reasons'
    BY <1>1, Kinds DEF Reasons, Declined, Stop, DeclineAtStart
  <2> QED
    BY <1>1, <2>1, DeclineKeeps DEF DeclineAtStart
<1>2. CASE dfa.start # NoStart /\ Accepts(dfa.start) /\ Stop(Decline("MatchesEmpty"))
  <2>1. Reasons'
    <3>1. Accepts(dfa.start)'
      BY <1>2 DEF Accepts, DeclineAtStart
    <3>2. \A reason : Declined(reason)' => reason = "MatchesEmpty"
      BY <1>2, Kinds DEF Declined, Stop
    <3> QED
      BY <3>1, <3>2 DEF Reasons
  <2> QED
    BY <1>2, <2>1, DeclineKeeps DEF DeclineAtStart
<1> QED
  BY <1>1, <1>2 DEF DeclineAtStart

LEMMA WalkQuitsKeeps ==
  ASSUME IInv, WalkQuits
  PROVE  IInv'
<1>1. head \in DOMAIN queue' /\ byte \in Byte /\ To(head, byte) \in dfa.quit
  BY ReadingFacts DEF WalkQuits
<1>2. \E i \in DOMAIN queue', y \in Byte : To(i, y)' \in dfa'.quit
  BY <1>1 DEF WalkQuits, To
<1>3. \A reason : Declined(reason)' => reason = "Quits"
  BY Kinds DEF Declined, Stop, WalkQuits
<1>4. Reasons'
  BY <1>2, <1>3 DEF Reasons
<1> QED
  BY <1>4, DeclineKeeps DEF WalkQuits

LEMMA WalkTooWideKeeps ==
  ASSUME IInv, WalkTooWide
  PROVE  IInv'
<1>1. head \in DOMAIN queue' /\ byte \in Byte /\ To(head, byte) \notin Met
  BY ReadingFacts DEF WalkTooWide, IInv, Ids
<1>2. Met' = Met
  BY QueueKept DEF WalkTooWide
<1>3. \E i \in DOMAIN queue', y \in Byte : To(i, y)' \notin Met'
  BY <1>1, <1>2 DEF WalkTooWide, To
<1>4. \A reason : Declined(reason)' => reason = "TooWide"
  BY Kinds DEF Declined, Stop, WalkTooWide
<1>5. Reasons'
  BY <1>3, <1>4 DEF Reasons, WalkTooWide
<1> QED
  BY <1>5, DeclineKeeps DEF WalkTooWide


-----------------------------------------------------------------------------
(* The core that is handed over.                                           *)

\* What the finished rows say: where each state goes, by ids, which are places.
LEMMA FinishedRows ==
  ASSUME IInv, Complete
  PROVE  /\ Len(queue) \in Nat \ {0} /\ DOMAIN queue = 1 .. Len(queue)
         /\ DOMAIN rows = 1 .. Len(queue)
         /\ \A i \in 1 .. Len(queue), y \in Byte :
              /\ To(i, y) \in Met /\ To(i, y) \notin dfa.quit
              /\ rows[i].next[y + 1] = interned[To(i, y)]
         /\ \A i \in 1 .. Len(queue) : rows[i].accepts <=> Accepts(queue[i])
         /\ \A s \in Met : interned[s] \in 0 .. Len(queue) - 1
         /\ \A s, t \in Met : interned[s] = interned[t] => s = t
<1>1. /\ Len(queue) \in Nat \ {0} /\ DOMAIN queue = 1 .. Len(queue)
      /\ DOMAIN rows = 1 .. Len(queue)
  BY DEF IInv, TypeOK, Complete
<1>2. ASSUME NEW i \in 1 .. Len(queue)
      PROVE  /\ IsRow(rows[i].next, LastByte + 1, dfa.next[queue[i]], interned, dfa.quit)
             /\ rows[i].accepts <=> Accepts(queue[i])
  BY <1>1 DEF IInv, RowsRight, Complete
<1>3. Byte = 0 .. (LastByte + 1) - 1
  BY AutomatonFacts DEF IInv
<1>4. ASSUME NEW i \in 1 .. Len(queue), NEW y \in Byte
      PROVE  /\ To(i, y) \in Met /\ To(i, y) \notin dfa.quit
             /\ rows[i].next[y + 1] = interned[To(i, y)]
  BY <1>2, <1>3 DEF IsRow, To, IInv, Ids
<1>5. ASSUME NEW s \in Met PROVE interned[s] \in 0 .. Len(queue) - 1
  BY <1>1 DEF Met, IInv, Ids
<1>6. ASSUME NEW s \in Met, NEW t \in Met, interned[s] = interned[t] PROVE s = t
  <2>1. PICK i \in DOMAIN queue : s = queue[i]
    BY DEF Met
  <2>2. PICK j \in DOMAIN queue : t = queue[j]
    BY DEF Met
  <2>3. i - 1 = j - 1
    BY <1>6, <2>1, <2>2 DEF IInv, Ids
  <2>4. i = j
    BY <1>1, <2>3
  <2> QED
    BY <2>1, <2>2, <2>4
<1> QED
  BY <1>1, <1>2, <1>4, <1>5, <1>6

\* Columns are the same just when no state met tells their bytes apart.
LEMMA ColumnFacts ==
  ASSUME IInv, Complete, NEW x \in Byte, NEW y \in Byte
  PROVE  SameColumn(x, y) <=> \A i \in DOMAIN queue : To(i, x) = To(i, y)
<1>1. ASSUME NEW i \in 1 .. Len(queue)
      PROVE  rows[i].next[x + 1] = rows[i].next[y + 1] <=> To(i, x) = To(i, y)
  BY FinishedRows
<1> QED
  BY <1>1, FinishedRows DEF SameColumn

\* The first byte of a class opens it, and what is counted to number the class is the
\* openers before that one.
LEMMA OpenerFacts ==
  ASSUME IInv, NEW y \in Byte
  PROVE  \E o \in Openers :
           /\ SameColumn(o, y)
           /\ {x \in Openers : \A z \in Byte : SameColumn(z, y) => x < z}
                = {x \in Openers : x < o}
<1>0. Byte = 0 .. LastByte /\ LastByte \in Nat
  BY AutomatonFacts DEF IInv
<1> DEFINE Class == {z \in Byte : SameColumn(z, y)}
<1>1. y \in Class
  BY DEF SameColumn
<1>2. PICK o \in Class : \A z \in Class : o <= z
  <2>1. Class \subseteq Nat /\ Class # {}
    BY <1>0, <1>1
  <2> HIDE DEF Class
  <2> QED
    BY <2>1, LeastNatural
<1>3. o \in Byte /\ SameColumn(o, y) /\ \A z \in Byte : SameColumn(z, y) => o <= z
  BY <1>2
<1> HIDE DEF Class
<1>4. ASSUME NEW x \in 0 .. o - 1 PROVE ~SameColumn(x, o)
  <2>1. x \in Byte /\ ~(o <= x)
    BY <1>0, <1>3
  <2>2. ~SameColumn(x, y)
    BY <1>3, <2>1
  <2> QED
    BY <1>3, <2>2 DEF SameColumn
<1>5. o \in Openers
  BY <1>3, <1>4 DEF Openers
<1>6. ASSUME NEW x \in Openers
      PROVE  (\A z \in Byte : SameColumn(z, y) => x < z) <=> x < o
  <2>1. x \in Int /\ \A z \in Byte : z \in Int
    BY <1>0 DEF Openers
  <2> QED
    BY <1>3, <2>1
<1> QED
  BY <1>3, <1>5, <1>6


\* The openers are finitely many numbers.
LEMMA OpenersFinite ==
  ASSUME IInv
  PROVE  Openers \subseteq Nat /\ IsFiniteSet(Openers)
<1>1. LastByte \in Nat /\ Openers \in SUBSET (0 .. LastByte)
  BY AutomatonFacts DEF IInv, Openers
<1>2. IsFiniteSet(0 .. LastByte)
  BY <1>1, FS_Interval
<1>3. IsFiniteSet(Openers)
  BY <1>1, <1>2, FS_Subset
<1> QED
  BY <1>1, <1>3

\* Bytes are in one class just when their columns are the same, and no class is empty.
LEMMA ClassFacts ==
  ASSUME IInv
  PROVE  /\ Cardinality(Openers) \in Nat \ {0}
         /\ ClassOf \in [Byte -> 0 .. Cardinality(Openers) - 1]
         /\ \A x, y \in Byte : ClassOf[x] = ClassOf[y] <=> SameColumn(x, y)
         /\ \A j \in 0 .. Cardinality(Openers) - 1 :
              LastOf(j) \in Byte /\ ClassOf[LastOf(j)] = j
<1>0. Byte = 0 .. LastByte /\ LastByte \in Nat
  BY AutomatonFacts DEF IInv
<1>1. ASSUME NEW y \in Byte
      PROVE  \E o \in Openers : SameColumn(o, y) /\ ClassOf[y] = Rank(Openers, o)
  <2>1. PICK o \in Openers :
          /\ SameColumn(o, y)
          /\ {x \in Openers : \A z \in Byte : SameColumn(z, y) => x < z}
               = {x \in Openers : x < o}
    BY OpenerFacts
  <2>2. ClassOf[y]
          = Cardinality({x \in Openers : \A z \in Byte : SameColumn(z, y) => x < z})
    BY DEF ClassOf
  <2> QED
    BY <2>1, <2>2 DEF Rank
<1>2. ASSUME NEW x \in Byte, NEW y \in Byte
      PROVE  ClassOf[x] = ClassOf[y] <=> SameColumn(x, y)
  <2>1. PICK o \in Openers : SameColumn(o, x) /\ ClassOf[x] = Rank(Openers, o)
    BY <1>1
  <2>2. PICK p \in Openers : SameColumn(p, y) /\ ClassOf[y] = Rank(Openers, p)
    BY <1>1
  <2>3. ASSUME ClassOf[x] = ClassOf[y] PROVE SameColumn(x, y)
    <3>1. o = p
      BY <2>1, <2>2, <2>3, OpenersFinite, RankFacts
    <3> QED
      BY <2>1, <2>2, <3>1 DEF SameColumn
  <2>4. ASSUME SameColumn(x, y) PROVE ClassOf[x] = ClassOf[y]
    <3>1. \A z \in Byte : SameColumn(z, x) <=> SameColumn(z, y)
      BY <2>4 DEF SameColumn
    <3>2. {w \in Openers : \A z \in Byte : SameColumn(z, x) => w < z}
            = {w \in Openers : \A z \in Byte : SameColumn(z, y) => w < z}
      BY <3>1
    <3> QED
      BY <3>2 DEF ClassOf
  <2> QED
    BY <2>3, <2>4
<1>3. ClassOf \in [Byte -> 0 .. Cardinality(Openers) - 1]
  <2>1. \A y \in Byte : ClassOf[y] \in 0 .. Cardinality(Openers) - 1
    <3> TAKE y \in Byte
    <3>1. PICK o \in Openers : ClassOf[y] = Rank(Openers, o)
      BY <1>1
    <3> QED
      BY <3>1, OpenersFinite, RankFacts
  <2>2. ClassOf = [y \in Byte |-> ClassOf[y]]
    BY DEF ClassOf
  <2> QED
    BY <2>1, <2>2
<1>4. Cardinality(Openers) \in Nat \ {0}
  <2>1. 0 \in Byte
    BY <1>0
  <2>2. ClassOf[0] \in 0 .. Cardinality(Openers) - 1
    BY <1>3, <2>1
  <2> QED
    BY <2>2, OpenersFinite, RankFacts
<1>5. ASSUME NEW j \in 0 .. Cardinality(Openers) - 1
      PROVE  LastOf(j) \in Byte /\ ClassOf[LastOf(j)] = j
  <2> DEFINE Class == {y \in Byte : ClassOf[y] = j}
  <2>1. PICK o \in Openers : Rank(Openers, o) = j
    BY OpenersFinite, RankFacts
  <2>2. o \in Byte
    BY DEF Openers
  <2>3. ClassOf[o] = j
    <3>1. PICK p \in Openers : SameColumn(p, o) /\ ClassOf[o] = Rank(Openers, p)
      BY <1>1, <2>2
    <3>2. o = p
      <4>1. p \in Byte /\ o \in Int /\ p \in Int
        BY <1>0, <2>2 DEF Openers
      <4>2. SameColumn(o, p)
        BY <3>1 DEF SameColumn
      <4>3. ~(p < o)
        BY <1>0, <3>1, <4>1 DEF Openers
      <4>4. ~(o < p)
        BY <1>0, <2>2, <4>1, <4>2 DEF Openers
      <4> QED
        BY <4>1, <4>3, <4>4
    <3> QED
      BY <2>1, <3>1, <3>2
  <2>4. Class \in SUBSET (0 .. LastByte) /\ Class # {}
    BY <1>0, <2>2, <2>3
  <2> HIDE DEF Class
  <2>5. \E y \in Class : \A z \in Class : z <= y
    BY <1>0, <2>4, GreatestNatural
  <2> USE DEF Class
  <2>6. \E y \in Byte : ClassOf[y] = j /\ \A z \in Byte : ClassOf[z] = j => z <= y
    BY <2>5
  <2> QED
    BY <2>6 DEF LastOf
<1> QED
  BY <1>2, <1>3, <1>4, <1>5


\* The table under the ids is the automaton on the states met.
LEMMA TableRight ==
  ASSUME IInv, Complete
  PROVE  CoreOfQueue(Table)
<1> DEFINE n == Len(queue)
           m == Cardinality(Openers)
<1>1. /\ n \in Nat \ {0} /\ DOMAIN queue = 1 .. n /\ Len(rows) = n
      /\ \A i \in 1 .. n, y \in Byte :
           /\ To(i, y) \in Met /\ rows[i].next[y + 1] = interned[To(i, y)]
           /\ interned[To(i, y)] \in 0 .. n - 1
      /\ \A i \in 1 .. n : rows[i].accepts <=> Accepts(queue[i])
  BY FinishedRows DEF Complete
<1>2. /\ m \in Nat \ {0}
      /\ ClassOf \in [Byte -> 0 .. m - 1]
      /\ \A x, y \in Byte : ClassOf[x] = ClassOf[y] <=> SameColumn(x, y)
      /\ \A j \in 0 .. m - 1 : LastOf(j) \in Byte /\ ClassOf[LastOf(j)] = j
  BY ClassFacts
<1>3. /\ Table.states = n /\ Table.classes = m /\ Table.start = 0
      /\ Table.class_of = ClassOf
      /\ Table.accept = {s \in 0 .. n - 1 : rows[s + 1].accepts}
      /\ Table.delta = [s \in 0 .. n - 1 |->
                          [j \in 0 .. m - 1 |-> rows[s + 1].next[LastOf(j) + 1]]]
  BY <1>1 DEF Table
<1> HIDE DEF n, m
<1>4. ASSUME NEW i \in 1 .. n, NEW j \in 0 .. m - 1
      PROVE  Table.delta[i - 1][j] = interned[To(i, LastOf(j))]
  <2>1. i - 1 \in 0 .. n - 1 /\ (i - 1) + 1 = i
    BY <1>1
  <2>2. Table.delta[i - 1][j] = rows[i].next[LastOf(j) + 1]
    BY <1>3, <2>1
  <2> QED
    BY <1>1, <1>2, <2>2
<1>5. IsCore(Table)
  <2>1. Table.delta \in [0 .. n - 1 -> [0 .. m - 1 -> 0 .. n - 1]]
    <3>1. ASSUME NEW s \in 0 .. n - 1, NEW j \in 0 .. m - 1
          PROVE  rows[s + 1].next[LastOf(j) + 1] \in 0 .. n - 1
      <4>1. s + 1 \in 1 .. n
        BY <1>1
      <4>2. LastOf(j) \in Byte
        BY <1>2
      <4> QED
        BY <1>1, <4>1, <4>2
    <3> QED
      BY <1>3, <3>1
  <2>2. 0 \in 0 .. n - 1
    BY <1>1
  <2> QED
    BY <1>1, <1>2, <1>3, <2>1, <2>2 DEF IsCore, States, Classes
<1>6. ASSUME NEW i \in DOMAIN queue
      PROVE  i - 1 \in Table.accept <=> Accepts(queue[i])
  <2>1. i - 1 \in 0 .. n - 1 /\ (i - 1) + 1 = i
    BY <1>1
  <2> QED
    BY <1>1, <1>3, <2>1
<1>7. ASSUME NEW i \in DOMAIN queue, NEW y \in Byte
      PROVE  Step(Table, i - 1, Table.class_of[y]) = interned[To(i, y)]
  <2> DEFINE last == LastOf(ClassOf[y])
  <2>1. ClassOf[y] \in 0 .. m - 1 /\ last \in Byte /\ ClassOf[last] = ClassOf[y]
    BY <1>2
  <2>2. SameColumn(last, y)
    BY <1>2, <2>1
  <2>3. To(i, last) = To(i, y)
    BY <2>1, <2>2, ColumnFacts
  <2>4. Table.delta[i - 1][ClassOf[y]] = interned[To(i, last)]
    BY <1>1, <1>4, <2>1
  <2> QED
    BY <1>3, <2>3, <2>4 DEF Step
<1>8. ASSUME NEW x \in Byte, NEW y \in Byte
      PROVE  Table.class_of[x] = Table.class_of[y]
               <=> \A i \in DOMAIN queue : To(i, x) = To(i, y)
  BY <1>2, <1>3, ColumnFacts
<1> QED
  BY <1>3, <1>5, <1>6, <1>7, <1>8 DEF CoreOfQueue, n

LEMMA BuildKeeps ==
  ASSUME IInv, Build
  PROVE  IInv'
<1>1. Complete /\ CoreOfQueue(Table)
  BY TableRight DEF IInv, Phases, Build
<1>2. answer' = [kind |-> "core", core |-> Table]
  BY DEF Build, Stop
<1>3. answer'.kind = "core" /\ answer'.core = Table
  BY <1>2
<1>4. CoreRight'
  BY <1>1, <1>3 DEF CoreRight, CoreOfQueue, Complete, Build, To, Accepts
<1>5. \A reason : ~Declined(reason)'
  BY <1>3, Kinds DEF Declined
<1>6. Reasons'
  BY <1>5 DEF Reasons
<1> QED
  BY <1>4, <1>6, StopKeeps DEF Build, Stop

LEMMA StutterKeeps ==
  ASSUME IInv, UNCHANGED vars
  PROVE  IInv'
<1>1. TypeOK' /\ Phases'
  BY DEF IInv, TypeOK, Phases, vars, Accepts, Complete
<1>2. RowsRight'
  BY RowsKept DEF vars
<1>3. Ids' /\ NothingElse' /\ Met' = Met
  BY QueueKept DEF vars
<1>4. Reasons'
  BY <1>3 DEF IInv, Reasons, Declined, To, Accepts, vars
<1>5. CoreRight'
  BY DEF IInv, CoreRight, Built, CoreOfQueue, Complete, To, Accepts, vars
<1> QED
  BY <1>1, <1>2, <1>3, <1>4, <1>5 DEF IInv

THEOREM Invariance == Spec => []IInv
<1>1. IInv /\ [Next]_vars => IInv'
  BY DeclineAtStartKeeps, EnterKeeps, TakeHeadKeeps, WalkQuitsKeeps, ReadKnownKeeps,
     WalkTooWideKeeps, ReadFreshKeeps, EndRowKeeps, EndWalkKeeps, BuildKeeps, StutterKeeps
  DEF Next
<1> QED
  BY Start, <1>1, PTL DEF Spec

-----------------------------------------------------------------------------
(* The properties.                                                         *)

\* What is reached is closed, and everything met is reached.
LEMMA ReachableFacts ==
  ASSUME IInv
  PROVE  /\ Reachable \subseteq dfa.states /\ Met \subseteq Reachable
         /\ \A s \in Reachable, y \in Byte : dfa.next[s][y] \in Reachable
         /\ IsFiniteSet(Reachable)
<1>1. Reachable \subseteq dfa.states
  BY DEF Reachable
<1>2. Met \subseteq Reachable
  BY DEF IInv, TypeOK, NothingElse, Met, Reachable
<1>3. \A s \in Reachable, y \in Byte : dfa.next[s][y] \in Reachable
  BY AutomatonFacts DEF IInv, Reachable, ClosedSet
<1>4. IsFiniteSet(Reachable)
  BY <1>1, AutomatonFacts, FS_Subset DEF IInv, IsAutomaton
<1> QED
  BY <1>1, <1>2, <1>3, <1>4

\* There are as many states met as places.
LEMMA MetCounted ==
  ASSUME IInv
  PROVE  IsFiniteSet(Met) /\ Cardinality(Met) = Len(queue)
<1> DEFINE Places == 1 .. Len(queue)
           f == [i \in Places |-> queue[i]]
<1>1. Len(queue) \in Nat /\ DOMAIN queue = Places
  BY DEF IInv, TypeOK
<1>2. f \in Bijection(Places, Met)
  <2>1. f \in [Places -> Met] /\ \A s \in Met : \E i \in Places : f[i] = s
    BY <1>1 DEF Met
  <2>2. \A i, j \in Places : f[i] = f[j] => i = j
    BY <1>1, PlacesDiffer DEF IInv
  <2> QED
    BY <2>1, <2>2 DEF Bijection, Injection, Surjection, IsInjective
<1>3. IsFiniteSet(Places) /\ Cardinality(Places) = Len(queue)
  <2>1. ASSUME NEW n \in Nat PROVE IsFiniteSet(1 .. n) /\ Cardinality(1 .. n) = n
    <3>1. 1 \in Int /\ n \in Int
      OBVIOUS
    <3>2. IsFiniteSet(1 .. n) /\ Cardinality(1 .. n) = IF 1 > n THEN 0 ELSE n - 1 + 1
      BY <3>1, FS_Interval
    <3> QED
      BY <3>2
  <2> QED
    BY <1>1, <2>1
<1> HIDE DEF Places, f
<1>4. ExistsBijection(Places, Met)
  BY <1>2 DEF ExistsBijection
<1> QED
  BY <1>3, <1>4, FS_Bijection

\* When every state met has its row, everything reached has been met.
LEMMA AllMet ==
  ASSUME IInv, Complete
  PROVE  /\ Met = Reachable /\ Cardinality(Reachable) = Len(queue)
         /\ dfa.start # NoStart /\ ~Accepts(dfa.start)
         /\ dfa.start \in Met /\ interned[dfa.start] = 0
<1>1. dfa.start # NoStart /\ ~Accepts(dfa.start) /\ queue[1] = dfa.start
  BY DEF IInv, Phases, Complete
<1>2. 1 \in DOMAIN queue
  BY FinishedRows
<1>3. dfa.start \in Met /\ interned[dfa.start] = 0
  BY <1>1, <1>2 DEF IInv, Ids, Met
<1>4. ClosedSet(Met)
  <2>1. ASSUME NEW s \in Met, NEW y \in Byte PROVE dfa.next[s][y] \in Met
    <3>1. PICK i \in DOMAIN queue : s = queue[i]
      BY DEF Met
    <3> QED
      BY <3>1, FinishedRows DEF To
  <2> QED
    BY <1>3, <2>1 DEF ClosedSet
<1>5. Met \in SUBSET dfa.states
  BY DEF IInv, TypeOK, Met
<1>6. Met = Reachable
  BY <1>4, <1>5, ReachableFacts DEF Reachable
<1> QED
  BY <1>1, <1>3, <1>6, MetCounted

\* An id handed out is the place its row will have, and nothing is met that no input
\* leads to.
THEOREM InternedIsQueueHolds == Spec => []InternedIsQueue
<1>1. IInv => InternedIsQueue
  BY ReachableFacts DEF IInv, Ids, Met, InternedIsQueue
<1> QED
  BY Invariance, <1>1, PTL

\* The core is the reachable automaton under new names, whatever the automaton.
THEOREM FaithfulHolds == Spec => []Faithful
<1>1. IInv => Faithful
  <2> SUFFICES ASSUME IInv, Built PROVE Faithful
    BY DEF Faithful
  <2>1. Complete /\ CoreOfQueue(answer.core)
    BY DEF IInv, CoreRight
  <2>2. /\ Met = Reachable /\ Cardinality(Reachable) = Len(queue)
        /\ interned[dfa.start] = 0
    BY <2>1, AllMet
  <2>3. ASSUME NEW s \in Reachable
        PROVE  /\ interned[s] \in answer.core.accept <=> Accepts(s)
               /\ \A y \in Byte :
                    Step(answer.core, interned[s], answer.core.class_of[y])
                      = interned[dfa.next[s][y]]
    <3>1. PICK i \in DOMAIN queue : s = queue[i]
      BY <2>2 DEF Met
    <3>2. interned[s] = i - 1
      BY <3>1 DEF IInv, Ids
    <3> QED
      BY <2>1, <3>1, <3>2 DEF CoreOfQueue, To
  <2>4. DOMAIN interned = Reachable
    BY <2>2 DEF IInv, Ids
  <2> QED
    BY <2>1, <2>2, <2>3, <2>4 DEF Faithful, CoreOfQueue
<1> QED
  BY Invariance, <1>1, PTL

\* Bytes share a class just when no reachable state tells them apart.
THEOREM ClassesExactHolds == Spec => []ClassesExact
<1>1. IInv => ClassesExact
  <2> SUFFICES ASSUME IInv, Built, NEW x \in Byte, NEW y \in Byte
               PROVE  answer.core.class_of[x] = answer.core.class_of[y]
                        <=> \A s \in Reachable : dfa.next[s][x] = dfa.next[s][y]
    BY DEF ClassesExact
  <2>1. Complete /\ CoreOfQueue(answer.core)
    BY DEF IInv, CoreRight
  <2>2. Met = Reachable
    BY <2>1, AllMet
  <2> QED
    BY <2>1, <2>2 DEF CoreOfQueue, To, Met
<1> QED
  BY Invariance, <1>1, PTL

\* A reason to decline is true of the automaton, and in a core that is handed over there is
\* no quit state that a byte leads to.
THEOREM DeclineIsTrueHolds == Spec => []DeclineIsTrue
<1>1. IInv => DeclineIsTrue
  <2> SUFFICES ASSUME IInv PROVE DeclineIsTrue
    OBVIOUS
  <2>1. ASSUME Declined("Quits") PROVE dfa.start = NoStart \/ Entered \cap dfa.quit # {}
    <3>1. CASE \E i \in DOMAIN queue, y \in Byte : To(i, y) \in dfa.quit
      <4>1. PICK i \in DOMAIN queue, y \in Byte : To(i, y) \in dfa.quit
        BY <3>1
      <4>2. To(i, y) \in Entered
        BY ReachableFacts DEF Met, To, Entered
      <4> QED
        BY <4>1, <4>2
    <3> QED
      BY <2>1, <3>1 DEF IInv, Reasons
  <2>2. ASSUME Declined("TooWide") PROVE Cardinality(Reachable) > MaxCoreStates
    <3>1. PICK i \in DOMAIN queue, y \in Byte : To(i, y) \notin Met
      BY <2>2 DEF IInv, Reasons
    <3>2. To(i, y) \in Reachable
      BY ReachableFacts DEF Met, To
    <3>3. Met \cup {To(i, y)} \in SUBSET Reachable
      BY <3>2, ReachableFacts
    <3>4. Cardinality(Met \cup {To(i, y)}) = MaxCoreStates + 1
      BY <2>2, <3>1, MetCounted, FS_AddElement DEF IInv, Reasons
    <3>5. Cardinality(Met \cup {To(i, y)}) <= Cardinality(Reachable)
      BY <3>3, ReachableFacts, FS_Subset
    <3>6. Cardinality(Reachable) \in Nat /\ MaxCoreStates \in Nat
      BY ReachableFacts, FS_CardinalityType, CapAssumption
    <3> QED
      BY <3>4, <3>5, <3>6
  <2>3. ASSUME Built
        PROVE  /\ dfa.start # NoStart /\ ~Accepts(dfa.start)
               /\ Entered \cap dfa.quit = {}
               /\ Cardinality(Reachable) <= MaxCoreStates
    <3>1. Complete
      BY <2>3 DEF IInv, CoreRight
    <3>2. Met = Reachable
      BY <3>1, AllMet
    <3>3. ASSUME NEW s \in Reachable, NEW y \in Byte PROVE dfa.next[s][y] \notin dfa.quit
      <4>1. PICK i \in DOMAIN queue : s = queue[i]
        BY <3>2 DEF Met
      <4> QED
        BY <3>1, <4>1, FinishedRows DEF To
    <3> QED
      BY <3>1, <3>3, AllMet DEF Entered, IInv, TypeOK
  <2> QED
    BY <2>1, <2>2, <2>3 DEF DeclineIsTrue, IInv, Reasons
<1> QED
  BY Invariance, <1>1, PTL

\* What the doc of `is_quit` says but for the start state: an automaton that reaches any
\* other quit state, or comes back to that one, is declined.
THEOREM OnlyTheStartMayQuit ==
  Spec => [](Built => Reachable \cap dfa.quit \subseteq {dfa.start} \ Entered)
<1>1. IInv /\ DeclineIsTrue => (Built => Reachable \cap dfa.quit \subseteq {dfa.start} \ Entered)
  <2> SUFFICES ASSUME IInv, DeclineIsTrue, Built, NEW s \in Reachable \cap dfa.quit
               PROVE  s = dfa.start /\ s \notin Entered
    OBVIOUS
  <2>1. Entered \cap dfa.quit = {}
    BY DEF DeclineIsTrue
  <2>2. PICK A : A = {dfa.start} \cup Entered
    OBVIOUS
  <2>3. dfa.start \in Reachable
    <3>1. Complete
      BY DEF IInv, CoreRight
    <3> QED
      BY <3>1, AllMet
  <2>4. A \in SUBSET dfa.states /\ ClosedSet(A)
    <3>1. \A x \in A : x \in Reachable
      BY <2>2, <2>3, ReachableFacts DEF Entered
    <3>2. \A x \in A, y \in Byte : dfa.next[x][y] \in A
      BY <2>2, <3>1 DEF Entered
    <3> QED
      BY <2>2, <3>1, <3>2, ReachableFacts DEF ClosedSet
  <2>5. s \in A
    BY <2>4 DEF Reachable
  <2> QED
    BY <2>1, <2>2, <2>5
<1> QED
  BY Invariance, DeclineIsTrueHolds, <1>1, PTL

\* What is handed over is a core: what the harvest, the quotients and the refutation take
\* for granted of the one they are given.
THEOREM CoreIsCore == Spec => [](Built => IsCore(answer.core))
<1>1. IInv => (Built => IsCore(answer.core))
  BY DEF IInv, CoreRight, CoreOfQueue
<1> QED
  BY Invariance, <1>1, PTL
=============================================================================
