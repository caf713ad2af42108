----------------------------- MODULE Pricing_proof -----------------------------
(***************************************************************************)
(* Proofs about Dispatch and about Pricing on top of it.  For any number   *)
(* of threads, any machine and any price table, no kernel is ever answered *)
(* that the machine cannot execute, and without a force all answers are    *)
(* the same.  With the rows that are shipped, no election strands a policy *)
(* on UNMEASURED, and a policy is priced by a row of the kernel that runs. *)
(*                                                                         *)
(* And about Rates, which a policy is priced with as well: for any chains, *)
(* quotients and number of iterations, stepping the mass of blocks and     *)
(* classes comes to what adding up the documents one by one comes to; and  *)
(* a class a corpus is too thin to measure is priced no lower than any row *)
(* the corpus could have had would price it.                               *)
(***************************************************************************)
EXTENDS Pricing, Rates, NumberFacts, SequenceTheorems, TLAPS

-----------------------------------------------------------------------------
(* Dispatch, whatever the table.                                           *)

\* A kernel's code is a code, and decodes to the kernel.
LEMMA CodeFacts ==
  ASSUME NEW kn \in Kernels
  PROVE  /\ Code(kn) \in 1 .. Len(Variants)
         /\ Decode(Code(kn)) = kn
<1>1. Len(Variants) = 6 /\ DOMAIN Variants = 1 .. 6
  BY DEF Variants
<1>2. \E i \in DOMAIN Variants : Variants[i] = kn
  BY DEF Kernels
<1>3. Code(kn) \in DOMAIN Variants /\ Variants[Code(kn)] = kn
  BY <1>2 DEF Code
<1> QED
  BY <1>1, <1>3 DEF Decode

\* The code that is stored before an answer decodes to none.
LEMMA NoAnswerYet == Decode(0) = None
<1>1. DOMAIN Variants = 1 .. 6
  BY DEF Variants
<1> QED
  BY <1>1 DEF Decode

\* The kernels there are.
LEMMA KernelNames ==
  Kernels = {"Avx512", "Avx2", "Neon", "Ssse3", "Simd128", "Scalar"}
<1>1. DOMAIN Variants = 1 .. 6
  BY DEF Variants
<1>2. /\ Variants[1] = "Avx512" /\ Variants[2] = "Avx2" /\ Variants[3] = "Neon"
      /\ Variants[4] = "Ssse3" /\ Variants[5] = "Simd128" /\ Variants[6] = "Scalar"
  BY DEF Variants
<1>3. 1 .. 6 = {1, 2, 3, 4, 5, 6}
  OBVIOUS
<1> QED
  BY <1>1, <1>2, <1>3 DEF Kernels

\* The probes answer yes only where the kernel can execute, and the width order
\* lists after a kernel only kernels that can execute wherever it can.
LEMMA ProbesAreHonest ==
  ASSUME NEW m, IsMachine(m), m.arch = "x86_64"
  PROVE  /\ HasAvx512(m) => CanExecute(m, "Avx512")
         /\ HasAvx2(m) => CanExecute(m, "Avx2")
         /\ HasSsse3(m) => CanExecute(m, "Ssse3")
         /\ CanExecute(m, "Avx512") => CanExecute(m, "Avx2")
         /\ CanExecute(m, "Avx2") => CanExecute(m, "Ssse3")
         /\ CanExecute(m, "Scalar")
<1>1. /\ Instructions("Avx512") = {"avx512f", "avx512bw", "avx2", "avx", "ssse3"}
      /\ Instructions("Avx2") = {"avx2", "avx", "ssse3"}
      /\ Instructions("Ssse3") = {"ssse3"}
      /\ Instructions("Scalar") = {}
  BY DEF Instructions
<1>2. /\ Registers("Avx512") = XCR0_ZMM /\ Registers("Avx2") = XCR0_YMM
      /\ Registers("Ssse3") = {} /\ Registers("Scalar") = {}
  BY DEF Registers
<1>3. /\ "x86_64" \in Home("Avx512") /\ "x86_64" \in Home("Avx2")
      /\ "x86_64" \in Home("Ssse3") /\ "x86_64" \in Home("Scalar")
  BY DEF Home
<1>4. XCR0_YMM \subseteq XCR0_ZMM
  BY DEF XCR0_ZMM
<1>5. HasAvx512(m) => CanExecute(m, "Avx512")
  BY <1>1, <1>2, <1>3 DEF HasAvx512, Preserved, IsMachine, CanExecute
<1>6. HasAvx2(m) => CanExecute(m, "Avx2")
  BY <1>1, <1>2, <1>3 DEF HasAvx2, Preserved, IsMachine, CanExecute
<1>7. HasSsse3(m) => CanExecute(m, "Ssse3")
  BY <1>1, <1>2, <1>3 DEF HasSsse3, IsMachine, CanExecute
<1>8. CanExecute(m, "Avx512") => CanExecute(m, "Avx2")
  BY <1>1, <1>2, <1>3, <1>4 DEF CanExecute
<1>9. CanExecute(m, "Avx2") => CanExecute(m, "Ssse3")
  BY <1>1, <1>2, <1>3 DEF CanExecute
<1>10. CanExecute(m, "Scalar")
  BY <1>1, <1>2, <1>3 DEF CanExecute
<1> QED
  BY <1>5, <1>6, <1>7, <1>8, <1>9, <1>10

\* The ladder is never empty, and every rung of it can execute.
LEMMA LadderFacts ==
  ASSUME NEW m, IsMachine(m)
  PROVE  \E n \in Nat \ {0} :
           /\ DOMAIN Available(m) = 1 .. n
           /\ \A i \in 1 .. n : Available(m)[i] \in Kernels /\ CanExecute(m, Available(m)[i])
<1> USE KernelNames
<1>1. CASE m.arch = "x86_64"
  <2>1. CASE HasAvx512(m)
    <3>1. Available(m) = <<"Avx512", "Avx2", "Ssse3", "Scalar">>
      BY <1>1, <2>1 DEF Available
    <3>2. DOMAIN Available(m) = 1 .. 4
      BY <3>1
    <3>3. \A i \in 1 .. 4 : Available(m)[i] \in {"Avx512", "Avx2", "Ssse3", "Scalar"}
      BY <3>1
    <3>4. \A kn \in {"Avx512", "Avx2", "Ssse3", "Scalar"} : CanExecute(m, kn)
      BY <1>1, <2>1, ProbesAreHonest
    <3> QED
      BY <3>2, <3>3, <3>4
  <2>2. CASE ~HasAvx512(m) /\ HasAvx2(m)
    <3>1. Available(m) = <<"Avx2", "Ssse3", "Scalar">>
      BY <1>1, <2>2 DEF Available
    <3>2. DOMAIN Available(m) = 1 .. 3
      BY <3>1
    <3>3. \A i \in 1 .. 3 : Available(m)[i] \in {"Avx2", "Ssse3", "Scalar"}
      BY <3>1
    <3>4. \A kn \in {"Avx2", "Ssse3", "Scalar"} : CanExecute(m, kn)
      BY <1>1, <2>2, ProbesAreHonest
    <3> QED
      BY <3>2, <3>3, <3>4
  <2>3. CASE ~HasAvx512(m) /\ ~HasAvx2(m) /\ HasSsse3(m)
    <3>1. Available(m) = <<"Ssse3", "Scalar">>
      BY <1>1, <2>3 DEF Available
    <3>2. DOMAIN Available(m) = 1 .. 2
      BY <3>1
    <3>3. \A i \in 1 .. 2 : Available(m)[i] \in {"Ssse3", "Scalar"}
      BY <3>1
    <3>4. \A kn \in {"Ssse3", "Scalar"} : CanExecute(m, kn)
      BY <1>1, <2>3, ProbesAreHonest
    <3> QED
      BY <3>2, <3>3, <3>4
  <2>4. CASE ~HasAvx512(m) /\ ~HasAvx2(m) /\ ~HasSsse3(m)
    <3>1. Available(m) = <<"Scalar">>
      BY <1>1, <2>4 DEF Available
    <3>2. DOMAIN Available(m) = 1 .. 1
      BY <3>1
    <3>3. \A i \in 1 .. 1 : Available(m)[i] = "Scalar"
      BY <3>1
    <3> QED
      BY <1>1, <3>2, <3>3, ProbesAreHonest
  <2> QED
    BY <2>1, <2>2, <2>3, <2>4
<1>2. CASE m.arch = "aarch64"
  <2>1. Available(m) = <<"Neon", "Scalar">>
    BY <1>2 DEF Available
  <2>2. CanExecute(m, "Neon") /\ CanExecute(m, "Scalar")
    BY <1>2 DEF CanExecute, Instructions, Registers, Home
  <2>3. DOMAIN Available(m) = 1 .. 2
    BY <2>1
  <2>4. \A i \in 1 .. 2 : Available(m)[i] \in {"Neon", "Scalar"}
    BY <2>1
  <2> QED
    BY <2>2, <2>3, <2>4
<1>3. CASE m.arch = "wasm32"
  <2>1. Available(m) = <<"Simd128", "Scalar">>
    BY <1>3 DEF Available
  <2>2. CanExecute(m, "Simd128") /\ CanExecute(m, "Scalar")
    BY <1>3 DEF CanExecute, Instructions, Registers, Home
  <2>3. DOMAIN Available(m) = 1 .. 2
    BY <2>1
  <2>4. \A i \in 1 .. 2 : Available(m)[i] \in {"Simd128", "Scalar"}
    BY <2>1
  <2> QED
    BY <2>2, <2>3, <2>4
<1> QED
  BY <1>1, <1>2, <1>3 DEF IsMachine

-----------------------------------------------------------------------------

\* Whatever is priced, the elected kernel is a rung, a cheapest, first one existing, and
\* one that is priced where any rung is.
LEMMA ElectedIsRung ==
  ASSUME NEW m, IsMachine(m),
         NEW costs \in [Kernels -> Nat \cup {None}]
  PROVE  /\ Elected(m, costs) \in Rungs(m)
         /\ Rungs(m) \subseteq Kernels
         /\ \A kn \in Rungs(m) : CanExecute(m, kn)
         /\ (\E kn \in Rungs(m) : costs[kn] # None) => costs[Elected(m, costs)] # None
<1> DEFINE ladder == Available(m)
           timed == {i \in DOMAIN ladder : costs[ladder[i]] # None}
           least == CHOOSE i \in timed : \A j \in timed :
                      \/ costs[ladder[i]] < costs[ladder[j]]
                      \/ costs[ladder[i]] = costs[ladder[j]] /\ i <= j
<1>1. PICK n \in Nat \ {0} :
        /\ DOMAIN ladder = 1 .. n
        /\ \A i \in 1 .. n : ladder[i] \in Kernels /\ CanExecute(m, ladder[i])
  BY LadderFacts
<1>2. Elected(m, costs) = IF timed = {} THEN ladder[1] ELSE ladder[least]
  BY DEF Elected
<1>3. \A i \in 1 .. n : ladder[i] \in Rungs(m)
  BY <1>1 DEF Rungs
<1>4. ASSUME timed # {} PROVE least \in timed /\ least \in 1 .. n
  <2> DEFINE prices == {costs[ladder[i]] : i \in timed}
  <2>1. timed \subseteq 1 .. n /\ \A i \in timed : costs[ladder[i]] \in Nat
    BY <1>1
  <2> HIDE DEF timed, ladder
  <2>10. prices \subseteq Nat /\ prices # {}
    <3>1. prices \subseteq Nat
      BY <2>1
    <3>2. PICK i : i \in timed
      BY <1>4
    <3>3. costs[ladder[i]] \in prices
      BY <3>2
    <3> QED
      BY <3>1, <3>3
  <2> HIDE DEF prices
  <2>2. PICK low \in prices : \A price \in prices : low <= price
    BY <2>10, LeastNatural
  <2> USE DEF prices
  <2> DEFINE cheapest == {i \in timed : costs[ladder[i]] = low}
  <2>3. cheapest \subseteq Nat /\ cheapest # {}
    <3>1. PICK i \in timed : costs[ladder[i]] = low
      BY <2>2
    <3>2. i \in cheapest
      BY <3>1
    <3>3. cheapest \subseteq timed
      OBVIOUS
    <3>4. timed \subseteq Nat
      BY <1>1, <2>1
    <3> HIDE DEF cheapest
    <3> QED
      BY <3>2, <3>3, <3>4
  <2>4. PICK first \in cheapest : \A i \in cheapest : first <= i
    BY <2>3, LeastNatural
  <2>5. first \in timed /\ costs[ladder[first]] = low
    BY <2>4
  <2>6. ASSUME NEW j \in timed
        PROVE  \/ costs[ladder[first]] < costs[ladder[j]]
               \/ costs[ladder[first]] = costs[ladder[j]] /\ first <= j
    <3>1. low <= costs[ladder[j]] /\ low \in Nat /\ costs[ladder[j]] \in Nat
      BY <2>1, <2>2
    <3>2. CASE costs[ladder[j]] = low
      BY <2>4, <2>5, <3>2
    <3>3. CASE costs[ladder[j]] # low
      BY <2>5, <3>1, <3>3
    <3> QED
      BY <3>2, <3>3
  <2>7. least \in timed
    BY <2>5, <2>6
  <2> QED
    BY <2>1, <2>7
<1>5. Elected(m, costs) \in Rungs(m)
  <2>1. CASE timed = {}
    BY <1>1, <1>2, <1>3, <2>1
  <2>2. CASE timed # {}
    BY <1>2, <1>3, <1>4, <2>2
  <2> QED
    BY <2>1, <2>2
<1>6. \A kn \in Rungs(m) : kn \in Kernels /\ CanExecute(m, kn)
  BY <1>1 DEF Rungs
<1>7. ASSUME NEW kn \in Rungs(m), costs[kn] # None PROVE costs[Elected(m, costs)] # None
  <2>1. timed # {}
    BY <1>7 DEF Rungs
  <2>2. least \in timed
    BY <1>4, <2>1
  <2>3. costs[ladder[least]] # None
    <3> HIDE DEF least
    <3> QED
      BY <2>2
  <2> QED
    BY <1>2, <2>1, <2>3
<1> QED
  BY <1>5, <1>6, <1>7

-----------------------------------------------------------------------------
(* The invariant.                                                          *)

\* After a force that no thread was inside `kernel` to undo, the memo holds the forced
\* kernel, and so no thread starts to resolve anything again.
Settled ==
  forced # None /\ overtaken = {} =>
    Decode(resolved) = forced /\ \A t \in Threads : pc[t] = None

IInv == TypeOK /\ RunnableAlways /\ UnforcedAgree /\ Settled

\* What a type-correct state says of its machine and its table.
LEMMA TypeFacts ==
  ASSUME TypeOK
  PROVE  /\ IsMachine(machine)
         /\ table \in [Kernels -> Nat \cup {None}]
         /\ None \notin Kernels
         /\ Elected(machine, table) \in Rungs(machine)
         /\ Rungs(machine) \subseteq Kernels
         /\ \A kn \in Rungs(machine) : CanExecute(machine, kn)
<1>1. IsMachine(machine) /\ table \in [Kernels -> Nat \cup {None}] /\ None \notin Kernels
  BY TablesAssumption, NoneAssumption DEF TypeOK
<1> QED
  BY <1>1, ElectedIsRung

\* No kernel is answered yet.
LEMMA Start == Init => IInv
<1> SUFFICES ASSUME Init PROVE IInv
  OBVIOUS
<1>1. TypeOK
  <2>1. 0 \in 0 .. Len(Variants)
    BY DEF Variants
  <2> QED
    BY <2>1, MachinesAssumption DEF Init, TypeOK
<1>2. Answers \subseteq {None}
  BY NoAnswerYet DEF Init, Answers
<1> QED
  BY <1>1, <1>2 DEF Init, IInv, RunnableAlways, UnforcedAgree, Settled

\* What a thread is told when kernel kn is delivered to it.
LEMMA Delivered ==
  ASSUME TypeOK, NEW t \in Threads, NEW purpose, NEW kn \in Kernels,
         Deliver(t, purpose, kn)
  PROVE  /\ priced' \in [Threads -> Kernels \cup {None}]
         /\ ran' \in [Threads -> Kernels \cup {None}]
         /\ Answers' \subseteq Answers \cup {Decode(resolved)', kn}
<1>1. \A u \in Threads : priced'[u] \in {priced[u], kn} /\ ran'[u] \in {ran[u], kn}
  BY DEF Deliver, TypeOK
<1> QED
  BY <1>1 DEF Deliver, TypeOK, Answers

\* A memo that is read was a runnable answer.
LEMMA HitKeeps ==
  ASSUME IInv, NEW t \in Threads, Hit(t)
  PROVE  IInv'
<1>1. Decode(resolved) \in Kernels
  BY DEF Hit, Decode, Kernels
<1>2. PICK purpose \in Purposes : Deliver(t, purpose, Decode(resolved))
  BY DEF Hit
<1>3. /\ priced' \in [Threads -> Kernels \cup {None}]
      /\ ran' \in [Threads -> Kernels \cup {None}]
      /\ Answers' \subseteq Answers \cup {Decode(resolved)', Decode(resolved)}
  BY <1>1, <1>2, Delivered DEF IInv
<1>4. Answers' \subseteq Answers
  BY <1>3 DEF Hit, Answers
<1> QED
  BY <1>3, <1>4 DEF IInv, Hit, TypeOK, RunnableAlways, UnforcedAgree, Settled

\* A miss answers nobody yet.
LEMMA MissKeeps ==
  ASSUME IInv, NEW t \in Threads, Miss(t)
  PROVE  IInv'
<1>1. forced # None => overtaken # {}
  BY DEF IInv, Settled, Miss
<1>2. Answers' = Answers
  BY DEF Miss, Answers
<1>3. TypeOK'
  BY DEF IInv, TypeOK, Miss
<1> QED
  BY <1>1, <1>2, <1>3 DEF IInv, Miss, RunnableAlways, UnforcedAgree, Settled

\* What is stored is what is elected from the tables.
LEMMA StoreKeeps ==
  ASSUME IInv, NEW t \in Threads, Store(t)
  PROVE  IInv'
<1> DEFINE kn == Elected(machine, table)
<1>1. kn \in Kernels /\ CanExecute(machine, kn)
  BY TypeFacts DEF IInv
<1>2. Code(kn) \in 1 .. Len(Variants) /\ Decode(Code(kn)) = kn
  BY <1>1, CodeFacts
<1>3. /\ priced' \in [Threads -> Kernels \cup {None}]
      /\ ran' \in [Threads -> Kernels \cup {None}]
      /\ Answers' \subseteq Answers \cup {Decode(resolved)', kn}
  BY <1>1, Delivered DEF IInv, Store
<1>4. Decode(resolved)' = kn
  BY <1>2 DEF Store
<1>5. Answers' \subseteq Answers \cup {kn}
  BY <1>3, <1>4
<1>6. TypeOK'
  <2>1. resolved' \in 0 .. Len(Variants)
    <3>1. Len(Variants) = 6
      BY DEF Variants
    <3> QED
      BY <1>2, <3>1 DEF Store
  <2> QED
    BY <1>3, <2>1 DEF IInv, TypeOK, Store
<1>7. RunnableAlways'
  BY <1>1, <1>5 DEF IInv, RunnableAlways, Store
<1>8. UnforcedAgree'
  BY <1>5 DEF IInv, UnforcedAgree, Store
<1>9. Settled'
  <2>1. forced # None => overtaken # {}
    BY DEF IInv, Settled, Store
  <2> QED
    BY <2>1 DEF Settled, Store
<1> QED
  BY <1>6, <1>7, <1>8, <1>9 DEF IInv

\* A force is of a kernel the machine executes.
LEMMA ForceKeeps ==
  ASSUME IInv, NEW t \in Threads, ForceKernel(t)
  PROVE  IInv'
<1>1. PICK kn \in Rungs(machine) : resolved' = Code(kn) /\ forced' = kn
  BY DEF ForceKernel
<1>2. kn \in Kernels /\ CanExecute(machine, kn) /\ kn # None
  BY <1>1, TypeFacts DEF IInv
<1>3. Code(kn) \in 1 .. Len(Variants) /\ Decode(Code(kn)) = kn
  BY <1>2, CodeFacts
<1>4. Decode(resolved)' = kn
  BY <1>1, <1>3
<1>5. Answers' \subseteq Answers \cup {kn}
  BY <1>4 DEF ForceKernel, Answers
<1>6. TypeOK'
  <2>1. resolved' \in 0 .. Len(Variants)
    <3>1. Len(Variants) = 6
      BY DEF Variants
    <3> QED
      BY <1>1, <1>3, <3>1
  <2> QED
    BY <1>1, <1>2, <2>1 DEF IInv, TypeOK, ForceKernel
<1>7. RunnableAlways'
  BY <1>2, <1>5 DEF IInv, RunnableAlways, ForceKernel
<1>8. UnforcedAgree'
  BY <1>1, <1>2 DEF UnforcedAgree
<1>9. Settled'
  BY <1>1, <1>4 DEF Settled, ForceKernel
<1> QED
  BY <1>6, <1>7, <1>8, <1>9 DEF IInv

\* Nothing changes, nothing is broken.
LEMMA StutterKeeps ==
  ASSUME IInv, UNCHANGED vars
  PROVE  IInv'
<1>1. Answers' = Answers
  BY DEF vars, Answers
<1> QED
  BY <1>1 DEF vars, IInv, TypeOK, RunnableAlways, UnforcedAgree, Settled

\* Every reachable state satisfies the invariant, whatever the machine and the table.
THEOREM Invariance == Spec => []IInv
<1>1. IInv /\ [Next]_vars => IInv'
  BY HitKeeps, MissKeeps, StoreKeeps, ForceKeeps, StutterKeeps DEF Next
<1> QED
  BY Start, <1>1, PTL DEF Spec

\* Every variable holds what the code's types allow, for any number of threads.
THEOREM Typing == Spec => []TypeOK
<1>1. IInv => TypeOK
  BY DEF IInv
<1> QED
  BY Invariance, <1>1, PTL

\* The precondition of every `unsafe` dispatch arm, on every machine: whatever is
\* memoized, priced or run can be executed, elected or forced.
THEOREM DispatchIsSafe == Spec => []RunnableAlways
<1>1. IInv => RunnableAlways
  BY DEF IInv
<1> QED
  BY Invariance, <1>1, PTL

\* The relaxed race on the memo is harmless until somebody forces: every answer any
\* thread got is the elected kernel.
THEOREM RaceIsHarmless == Spec => []UnforcedAgree
<1>1. IInv => UnforcedAgree
  BY DEF IInv
<1> QED
  BY Invariance, <1>1, PTL

\* A force that returned while no thread was resolving is for good.
THEOREM SettledForceIsForGood == Spec => []SettledForceHolds
<1>1. IInv => SettledForceHolds
  BY DEF IInv, Settled, SettledForceHolds
<1> QED
  BY Invariance, <1>1, PTL

-----------------------------------------------------------------------------
(* The arithmetic of the rows.                                             *)

\* The maximum of a set that has one member.
LEMMA MaxOfOne ==
  ASSUME NEW x \in Int
  PROVE  Max({x}) = x
BY DEF Max

-----------------------------------------------------------------------------
(* The rows.                                                               *)

\* What a row is made of.
LEMMA RowFacts ==
  ASSUME NEW key, NEW skip, NEW walk, NEW excursion, NEW instruments, NEW sieve,
         NEW row, row = Row(key, skip, walk, excursion, instruments, sieve),
         key = <<key[1], key[2], key[3]>>
  PROVE  /\ Triple(row) = key /\ row.os = key[1] /\ row.arch = key[2]
         /\ row.dfa_walk = F(walk)
         /\ row.dfa_skip["Cache"] = F(skip[1]) /\ row.dfa_skip["Memory"] = F(skip[2])
         /\ row.sieve = [n \in DOMAIN sieve |-> F(sieve[n])]
BY DEF Row, Triple, PerRegime

\* A row with a sieve column for the widest count and a walk column is measured in the
\* regimes its skip column is.
LEMMA MeasuredWhere ==
  ASSUME NEW row, NEW x \in Int, x > 0, NEW walk \in Int, walk > 0,
         NEW cache \in Int, NEW memory \in Int,
         row.sieve = <<F(0), F(x)>>, row.dfa_walk = F(walk),
         row.dfa_skip["Cache"] = F(cache), row.dfa_skip["Memory"] = F(memory)
  PROVE  /\ MeasuredAt(row, "Cache") <=> cache > 0
         /\ MeasuredAt(row, "Memory") <=> memory > 0
<1>1. ASSUME NEW at
      PROVE  MeasuredAt(row, at) <=> Positive(row.dfa_skip[at])
  <2> DEFINE cal == Column(row, at)
  <2>1. /\ cal.sieve = <<F(0), F(x)>> /\ cal.dfa_walk = F(walk)
        /\ cal.dfa_skip = row.dfa_skip[at]
    BY DEF Column
  <2>2. 2 \in DOMAIN cal.sieve /\ cal.sieve[2] = F(x)
    BY <2>1
  <2>3. Positive(F(x)) /\ Positive(F(walk))
    BY PositiveWhole
  <2> QED
    BY <2>1, <2>2, <2>3 DEF MeasuredAt, IsMeasured
<1> QED
  BY <1>1, PositiveWhole

\* What such a row costs the election: its column for the widest count, unscaled.
LEMMA PriceOfRow ==
  ASSUME NEW row, NEW x \in Int, x > 0, row.sieve = <<F(0), F(x)>>,
         MaxConjuncts = 2
  PROVE  SievePerByte(row, 2) = F(x)
<1> DEFINE timed == {i \in DOMAIN row.sieve : Positive(row.sieve[i])}
           below == {i \in timed : i <= 2}
<1>1. DOMAIN row.sieve = {1, 2} /\ row.sieve[1] = F(0) /\ row.sieve[2] = F(x)
  OBVIOUS
<1>2. Positive(F(x)) /\ ~Positive(F(0))
  BY PositiveWhole
<1>3. below = {2}
  BY <1>1, <1>2
<1>4. Max(below) = 2
  BY <1>3, MaxOfOne
<1>5. 2 ^ (2 - 2) = 1
  OBVIOUS
<1>6. SievePerByte(row, 2) = IF below # {} THEN Times(row.sieve[Max(below)], F(2 ^ (2 - Max(below))))
                             ELSE IF timed # {} THEN row.sieve[Min(timed)] ELSE Inf
  BY DEF SievePerByte
<1>7. SievePerByte(row, 2) = Times(F(x), F(1))
  <2> HIDE DEF below, timed
  <2> QED
    BY <1>1, <1>3, <1>4, <1>5, <1>6
<1> QED
  BY <1>7, TimesOne

\* What the dispatch and a policy read of a row of the shipped form.
LEMMA RowSummary ==
  ASSUME NEW os, NEW arch, NEW kernel,
         NEW cache \in Nat, NEW memory \in Nat, memory > 0, NEW walk \in Nat, walk > 0,
         NEW x \in Nat, x > 0, NEW excursion, NEW instruments,
         NEW row,
         row = Row(<<os, arch, kernel>>, <<cache, memory>>, walk, excursion, instruments,
                   <<0, x>>)
  PROVE  /\ Triple(row) = <<os, arch, kernel>> /\ row.os = os /\ row.arch = arch
         /\ row.sieve = <<F(0), F(x)>>
         /\ MeasuredAt(row, "Memory")
         /\ MeasuredAt(row, "Cache") <=> cache > 0
<1>1. /\ Triple(row) = <<os, arch, kernel>> /\ row.os = os /\ row.arch = arch
      /\ row.dfa_walk = F(walk)
      /\ row.dfa_skip["Cache"] = F(cache) /\ row.dfa_skip["Memory"] = F(memory)
      /\ row.sieve = [n \in DOMAIN <<0, x>> |-> F(<<0, x>>[n])]
  BY RowFacts
<1>2. row.sieve = <<F(0), F(x)>>
  BY <1>1
<1> QED
  BY <1>1, <1>2, MeasuredWhere

\* The machines whose rows hold a cache column.
CachedAt == {<<"linux", "x86_64">>, <<"macos", "aarch64">>}

\* Each shipped row is above zero where it must be, and holds a cache column just when its
\* operating system and architecture do.
LEMMA ShippedRow ==
  ASSUME NEW i \in DOMAIN MINTED
  PROVE  /\ MINTED[i].os # "unmeasured"
         /\ Triple(MINTED[i])[1] = MINTED[i].os /\ Triple(MINTED[i])[2] = MINTED[i].arch
         /\ \E x \in Nat : x > 0 /\ MINTED[i].sieve = <<F(0), F(x)>>
         /\ MeasuredAt(MINTED[i], "Memory")
         /\ MeasuredAt(MINTED[i], "Cache") <=> <<MINTED[i].os, MINTED[i].arch>> \in CachedAt
<1> DEFINE Shape(row) ==
             /\ row.os # "unmeasured"
             /\ Triple(row)[1] = row.os /\ Triple(row)[2] = row.arch
             /\ \E x \in Nat : x > 0 /\ row.sieve = <<F(0), F(x)>>
             /\ MeasuredAt(row, "Memory")
             /\ MeasuredAt(row, "Cache") <=> <<row.os, row.arch>> \in CachedAt
<1>0. DOMAIN MINTED = 1 .. 10
  BY DEF MINTED
<1>1. Shape(LinuxArmNeon)
  <2> DEFINE row == LinuxArmNeon
  <2>1. /\ Triple(row) = <<"linux", "aarch64", "Neon">>
        /\ row.os = "linux" /\ row.arch = "aarch64"
        /\ row.sieve = <<F(0), F(399124)>>
        /\ MeasuredAt(row, "Memory")
        /\ ~MeasuredAt(row, "Cache")
    BY RowSummary DEF LinuxArmNeon
  <2> QED
    BY <2>1 DEF CachedAt
<1>2. Shape(LinuxX86Avx2)
  <2> DEFINE row == LinuxX86Avx2
  <2>1. /\ Triple(row) = <<"linux", "x86_64", "Avx2">>
        /\ row.os = "linux" /\ row.arch = "x86_64"
        /\ row.sieve = <<F(0), F(325473)>>
        /\ MeasuredAt(row, "Memory")
        /\ MeasuredAt(row, "Cache")
    BY RowSummary, SMTT(30) DEF LinuxX86Avx2
  <2> QED
    BY <2>1 DEF CachedAt
<1>3. Shape(LinuxX86Ssse3)
  <2> DEFINE row == LinuxX86Ssse3
  <2>1. /\ Triple(row) = <<"linux", "x86_64", "Ssse3">>
        /\ row.os = "linux" /\ row.arch = "x86_64"
        /\ row.sieve = <<F(0), F(366377)>>
        /\ MeasuredAt(row, "Memory")
        /\ MeasuredAt(row, "Cache")
    BY RowSummary, SMTT(30) DEF LinuxX86Ssse3
  <2> QED
    BY <2>1 DEF CachedAt
<1>4. Shape(MacosArmNeon)
  <2> DEFINE row == MacosArmNeon
  <2>1. /\ Triple(row) = <<"macos", "aarch64", "Neon">>
        /\ row.os = "macos" /\ row.arch = "aarch64"
        /\ row.sieve = <<F(0), F(196478)>>
        /\ MeasuredAt(row, "Memory")
        /\ MeasuredAt(row, "Cache")
    BY RowSummary, SMTT(30) DEF MacosArmNeon
  <2> QED
    BY <2>1 DEF CachedAt
<1>5. Shape(MacosX86Avx2)
  <2> DEFINE row == MacosX86Avx2
  <2>1. /\ Triple(row) = <<"macos", "x86_64", "Avx2">>
        /\ row.os = "macos" /\ row.arch = "x86_64"
        /\ row.sieve = <<F(0), F(527253)>>
        /\ MeasuredAt(row, "Memory")
        /\ ~MeasuredAt(row, "Cache")
    BY RowSummary DEF MacosX86Avx2
  <2> QED
    BY <2>1 DEF CachedAt
<1>6. Shape(MacosX86Ssse3)
  <2> DEFINE row == MacosX86Ssse3
  <2>1. /\ Triple(row) = <<"macos", "x86_64", "Ssse3">>
        /\ row.os = "macos" /\ row.arch = "x86_64"
        /\ row.sieve = <<F(0), F(921573)>>
        /\ MeasuredAt(row, "Memory")
        /\ ~MeasuredAt(row, "Cache")
    BY RowSummary DEF MacosX86Ssse3
  <2> QED
    BY <2>1 DEF CachedAt
<1>7. Shape(WindowsArmNeon)
  <2> DEFINE row == WindowsArmNeon
  <2>1. /\ Triple(row) = <<"windows", "aarch64", "Neon">>
        /\ row.os = "windows" /\ row.arch = "aarch64"
        /\ row.sieve = <<F(0), F(405517)>>
        /\ MeasuredAt(row, "Memory")
        /\ ~MeasuredAt(row, "Cache")
    BY RowSummary DEF WindowsArmNeon
  <2> QED
    BY <2>1 DEF CachedAt
<1>8. Shape(WindowsX86Avx512)
  <2> DEFINE row == WindowsX86Avx512
  <2>1. /\ Triple(row) = <<"windows", "x86_64", "Avx512">>
        /\ row.os = "windows" /\ row.arch = "x86_64"
        /\ row.sieve = <<F(0), F(458317)>>
        /\ MeasuredAt(row, "Memory")
        /\ ~MeasuredAt(row, "Cache")
    BY RowSummary DEF WindowsX86Avx512
  <2> QED
    BY <2>1 DEF CachedAt
<1>9. Shape(WindowsX86Avx2)
  <2> DEFINE row == WindowsX86Avx2
  <2>1. /\ Triple(row) = <<"windows", "x86_64", "Avx2">>
        /\ row.os = "windows" /\ row.arch = "x86_64"
        /\ row.sieve = <<F(0), F(375878)>>
        /\ MeasuredAt(row, "Memory")
        /\ ~MeasuredAt(row, "Cache")
    BY RowSummary DEF WindowsX86Avx2
  <2> QED
    BY <2>1 DEF CachedAt
<1>10. Shape(WindowsX86Ssse3)
  <2> DEFINE row == WindowsX86Ssse3
  <2>1. /\ Triple(row) = <<"windows", "x86_64", "Ssse3">>
        /\ row.os = "windows" /\ row.arch = "x86_64"
        /\ row.sieve = <<F(0), F(436670)>>
        /\ MeasuredAt(row, "Memory")
        /\ ~MeasuredAt(row, "Cache")
    BY RowSummary DEF WindowsX86Ssse3
  <2> QED
    BY <2>1 DEF CachedAt
<1> HIDE DEF Shape
<1>11. Shape(MINTED[i])
  <2>1. i \in 1 .. 10
    BY <1>0
  <2>2. \/ i = 1 \/ i = 2 \/ i = 3 \/ i = 4 \/ i = 5 \/ i = 6 \/ i = 7 \/ i = 8
        \/ i = 9 \/ i = 10
    BY <2>1
  <2> QED
    BY <2>2, <1>1, <1>2, <1>3, <1>4, <1>5, <1>6, <1>7, <1>8, <1>9, <1>10 DEF MINTED
<1> QED
  BY <1>11 DEF Shape

\* The first of some places of the slice is one of them.
LEMMA FirstRow ==
  ASSUME NEW T, T \subseteq DOMAIN MINTED, T # {}
  PROVE  Min(T) \in T
<1>1. DOMAIN MINTED = 1 .. 10
  BY DEF MINTED
<1>2. T \subseteq Nat
  BY <1>1
<1>3. \E x \in T : \A y \in T : x <= y
  BY <1>2, LeastNatural
<1> QED
  BY <1>3 DEF Min

\* A policy is priced by a row of its triple that can answer for its regime, if there is
\* one, and by UNMEASURED, which is no row of the slice, if there is none.
LEMMA ActiveFacts ==
  ASSUME NEW os, NEW arch, NEW kn, NEW at
  PROVE  IF \E i \in RowsOf(os, arch, kn) : MeasuredAt(MINTED[i], at)
           THEN /\ Triple(Active(os, arch, kn, at)) = <<os, arch, kn>>
                /\ Active(os, arch, kn, at) # Unmeasured
           ELSE Active(os, arch, kn, at) = Unmeasured
<1> DEFINE measured == {i \in RowsOf(os, arch, kn) : MeasuredAt(MINTED[i], at)}
<1>1. measured \subseteq RowsOf(os, arch, kn) /\ RowsOf(os, arch, kn) \subseteq DOMAIN MINTED
  BY DEF RowsOf
<1>2. Active(os, arch, kn, at) = IF measured = {} THEN Unmeasured ELSE MINTED[Min(measured)]
  BY DEF Active
<1>3. CASE measured = {}
  <2>1. ~ \E i \in RowsOf(os, arch, kn) : MeasuredAt(MINTED[i], at)
    BY <1>3
  <2> HIDE DEF measured
  <2> QED
    BY <1>2, <1>3, <2>1
<1>4. CASE measured # {}
  <2>1. \E i \in RowsOf(os, arch, kn) : MeasuredAt(MINTED[i], at)
    BY <1>4
  <2> HIDE DEF measured
  <2>2. Min(measured) \in RowsOf(os, arch, kn) /\ Min(measured) \in DOMAIN MINTED
    BY <1>1, <1>4, FirstRow
  <2>3. Triple(MINTED[Min(measured)]) = <<os, arch, kn>>
    BY <2>2 DEF RowsOf
  <2>4. MINTED[Min(measured)].os # "unmeasured"
    BY <2>2, ShippedRow
  <2>5. Unmeasured.os = "unmeasured"
    BY DEF Unmeasured, Row
  <2> QED
    BY <1>2, <1>4, <2>1, <2>3, <2>4, <2>5
<1> QED
  BY <1>3, <1>4

\* What the election sees: a kernel is priced just when somebody has timed it here.
LEMMA CostsFacts ==
  ASSUME NEW os, NEW arch, NEW kn \in Kernels
  PROVE  Costs(os, arch)[kn] = None <=> RowsOf(os, arch, kn) = {}
<1>1. Costs(os, arch)[kn] = IF RowsOf(os, arch, kn) = {} THEN None ELSE PriceOf(os, arch, kn)[1]
  BY DEF Costs
<1>2. ASSUME RowsOf(os, arch, kn) # {} PROVE PriceOf(os, arch, kn)[1] \in Nat
  <2> DEFINE row == MINTED[Min(RowsOf(os, arch, kn))]
  <2>1. RowsOf(os, arch, kn) \subseteq DOMAIN MINTED
    BY DEF RowsOf
  <2>2. Min(RowsOf(os, arch, kn)) \in DOMAIN MINTED
    BY <1>2, <2>1, FirstRow
  <2>3. PICK x \in Nat : x > 0 /\ row.sieve = <<F(0), F(x)>>
    BY <2>2, ShippedRow
  <2>4. MaxConjuncts = 2
    <3>1. DOMAIN row.sieve = 1 .. 2
      BY <2>3
    <3>2. DOMAIN row.sieve = 1 .. MaxConjuncts
      BY <2>2, ColumnsAssumption
    <3>3. MaxConjuncts \in Nat
      BY ColumnsAssumption
    <3>4. 1 .. MaxConjuncts = 1 .. 2
      BY <3>1, <3>2, Zenon
    <3>5. 2 \in 1 .. MaxConjuncts /\ 3 \notin 1 .. MaxConjuncts
      BY <3>4
    <3> QED
      BY <3>3, <3>5
  <2> HIDE DEF row
  <2>5. SievePerByte(row, 2) = F(x)
    BY <2>3, <2>4, PriceOfRow
  <2> USE DEF row
  <2> QED
    BY <2>4, <2>5 DEF PriceOf, F
<1> QED
  BY <1>1, <1>2, NoneAssumption

\* On one operating system and architecture, whoever has a row has one for the same regimes.
LEMMA SameRegimes ==
  ASSUME NEW i \in DOMAIN MINTED, NEW j \in DOMAIN MINTED,
         MINTED[i].os = MINTED[j].os, MINTED[i].arch = MINTED[j].arch,
         NEW at \in Residency
  PROVE  MeasuredAt(MINTED[i], at) <=> MeasuredAt(MINTED[j], at)
<1>1. at = "Cache" \/ at = "Memory"
  BY DEF Residency
<1> QED
  BY <1>1, ShippedRow

-----------------------------------------------------------------------------
(* The properties.                                                         *)

\* Without a force, every answer is the election's, and where the rows are those of the
\* operating system, a policy reads them at the process's own architecture.
LEMMA Unforced ==
  ASSUME IInv, forced = None, NEW os \in Systems, Runs(os)
  PROVE  /\ \A k \in ({priced[t] : t \in Threads} \cup {ran[t] : t \in Threads}) \ {None} :
              k = Elected(machine, table) /\ k \in Kernels
         /\ table = Costs(os, machine.arch)
         /\ \A k \in Kernels, at \in Residency :
              PolicyRow(os, k, at) = Active(os, machine.arch, k, at)
<1>1. \A t \in Threads : priced[t] \in Answers /\ ran[t] \in Answers
  BY DEF Answers
<1>2. Elected(machine, table) \in Kernels /\ IsMachine(machine)
  BY TypeFacts DEF IInv
<1>3. machine.arch \in Arches
  BY <1>2 DEF IsMachine, Arches
<1>4. <<os, machine.arch>> \in Systems \X Arches
  BY <1>3
<1>5. table = Costs(os, machine.arch)
  BY <1>4 DEF Runs, Shipped
<1>6. \A k \in Kernels, at \in Residency :
        PolicyRow(os, k, at) = Active(os, machine.arch, k, at)
  BY <1>4 DEF PolicyRow, Answered
<1> QED
  BY <1>1, <1>2, <1>5, <1>6 DEF IInv, UnforcedAgree

\* What a policy was priced with was timed on the kernel that runs.
LEMMA PricedByItsKernel == IInv => PricedAsItRuns
<1> SUFFICES ASSUME IInv, forced = None, NEW os \in Systems, Runs(os), NEW at \in Residency,
                    NEW k \in {priced[t] : t \in Threads} \ {None},
                    NEW run \in {ran[t] : t \in Threads} \ {None}
             PROVE  \/ PolicyRow(os, k, at) = Unmeasured
                    \/ Triple(PolicyRow(os, k, at)) = <<os, machine.arch, run>>
  BY DEF PricedAsItRuns
<1>1. k = run /\ k \in Kernels
  <2>1. \A each \in ({priced[t] : t \in Threads} \cup {ran[t] : t \in Threads}) \ {None} :
          each = Elected(machine, table) /\ each \in Kernels
    BY Unforced, Zenon
  <2>2. PICK all : all = ({priced[t] : t \in Threads} \cup {ran[t] : t \in Threads}) \ {None}
    OBVIOUS
  <2>3. k \in all /\ run \in all
    BY <2>2
  <2> QED
    BY <2>1, <2>2, <2>3, Zenon
<1>2. PolicyRow(os, k, at) = Active(os, machine.arch, k, at)
  BY <1>1, Unforced
<1> QED
  BY <1>1, <1>2, ActiveFacts

\* The election leaves no policy without a row that another rung has.
LEMMA ElectionStrandsNobody == IInv => NobodyStranded
<1> SUFFICES ASSUME IInv, forced = None, NEW os \in Systems, Runs(os), NEW at \in Residency,
                    NEW rung \in Rungs(machine), PolicyRow(os, rung, at) # Unmeasured,
                    NEW k \in {priced[t] : t \in Threads} \ {None}
             PROVE  PolicyRow(os, k, at) # Unmeasured
  BY DEF NobodyStranded
<1>1. k = Elected(machine, table) /\ k \in Kernels /\ table = Costs(os, machine.arch)
  BY Unforced
<1>2. rung \in Kernels
  BY TypeFacts DEF IInv
<1>3. /\ PolicyRow(os, k, at) = Active(os, machine.arch, k, at)
      /\ PolicyRow(os, rung, at) = Active(os, machine.arch, rung, at)
  BY <1>1, <1>2, Unforced
<1>4. PICK i \in RowsOf(os, machine.arch, rung) : MeasuredAt(MINTED[i], at)
  BY <1>3, ActiveFacts
<1>5. table[rung] # None
  BY <1>1, <1>2, <1>4, CostsFacts
<1>6. table[k] # None
  <2>1. IsMachine(machine) /\ table \in [Kernels -> Nat \cup {None}]
    BY TypeFacts DEF IInv
  <2> QED
    BY <1>1, <1>5, <2>1, ElectedIsRung
<1>7. PICK j \in RowsOf(os, machine.arch, k) : TRUE
  BY <1>1, <1>6, CostsFacts
<1>8. /\ i \in DOMAIN MINTED /\ j \in DOMAIN MINTED
      /\ MINTED[i].os = MINTED[j].os /\ MINTED[i].arch = MINTED[j].arch
  <2>1. /\ i \in DOMAIN MINTED /\ Triple(MINTED[i]) = <<os, machine.arch, rung>>
        /\ j \in DOMAIN MINTED /\ Triple(MINTED[j]) = <<os, machine.arch, k>>
    BY DEF RowsOf
  <2> QED
    BY <2>1 DEF Triple
<1>9. MeasuredAt(MINTED[j], at)
  BY <1>4, <1>8, SameRegimes
<1> QED
  BY <1>3, <1>9, ActiveFacts

\* The unforced election's price is a price of the kernel that runs: for any number of
\* threads, on any machine, under the rows that are shipped, whatever row a policy was
\* given was measured with the kernel every scan runs on.
THEOREM PricesAreOfTheKernel == Spec => []PricedAsItRuns
BY Invariance, PricedByItsKernel, PTL

\* No kernel wins a dispatch and thereby strands a policy on UNMEASURED, in either regime,
\* on any machine, when another kernel the machine can execute has a row that answers.
THEOREM NoElectionStrands == Spec => []NobodyStranded
BY Invariance, ElectionStrandsNobody, PTL

-----------------------------------------------------------------------------
(* Rates: sums, in whatever order they are added up.                       *)

Adds(g, S, f) ==
  g = [s \in SUBSET S |->
         IF s = {} THEN Zero
         ELSE LET x == CHOOSE x \in s : TRUE IN Plus(g[s \ {x}], f[x])]

Summable(f, S) == IsFiniteSet(S) /\ \A x \in S : f[x] \in Finites

\* `Sum` is the table the fold chooses, at the whole set.
LEMMA SumUnfolds ==
  ASSUME NEW f, NEW S
  PROVE  Sum(f, S) = (CHOOSE g : Adds(g, S, f))[S]
BY DEF Sum, FoldSet, MapThenFoldSet, Adds

\* That table exists, and holds the sum of every subset.
LEMMA SumTable ==
  ASSUME NEW f, NEW S, Summable(f, S)
  PROVE  \E g \in [SUBSET S -> Finites] :
           Adds(g, S, f) /\ \A T \in SUBSET S : g[T] = Sum(f, T)
<1> USE DEF Summable
<1> DEFINE h(T) == [p \in T \X Finites |-> Plus(p[2], f[p[1]])]
<1>1. Zero \in Finites
  BY ZeroOne
<1>2. ASSUME NEW T \in SUBSET S
      PROVE  h(T) \in [T \X Finites -> Finites]
  BY AddIs
<1>3. ASSUME NEW T \in SUBSET S
      PROVE  \E g \in [SUBSET T -> Finites] : Adds(g, T, f)
  <2>1. PICK g \in [SUBSET T -> Finites] : FoldsTo(g, T, Zero, h(T))
    <3>1. IsFiniteSet(T)
      BY FS_Subset
    <3> HIDE DEF h
    <3> QED
      BY <1>1, <1>2, <3>1, FoldExists
  <2>2. Adds(g, T, f)
    <3>1. ASSUME NEW s \in SUBSET T, s # {}
          PROVE  h(T)[<<First(s), g[s \ {First(s)}]>>] = Plus(g[s \ {First(s)}], f[First(s)])
      <4>1. First(s) \in T
        BY <3>1 DEF First
      <4>2. s \ {First(s)} \in SUBSET T
        OBVIOUS
      <4> QED
        BY <4>1, <4>2
    <3>2. g = [s \in SUBSET T |-> IF s = {} THEN Zero ELSE Plus(g[s \ {First(s)}], f[First(s)])]
      BY <2>1, <3>1 DEF FoldsTo
    <3> QED
      BY <3>2 DEF Adds, First
  <2> QED
    BY <2>2
<1>4. ASSUME NEW g, Adds(g, S, f), NEW T \in SUBSET S PROVE g[T] = Sum(f, T)
  <2>1. PICK k : k = CHOOSE c : Adds(c, T, f)
    OBVIOUS
  <2>2. Adds(k, T, f)
    BY <1>3, <2>1
  <2> DEFINE Good == {R \in SUBSET T : g[R] = k[R]}
  <2>3. ASSUME NEW R \in SUBSET T, \A x \in R : R \ {x} \in Good PROVE R \in Good
    <3>1. /\ g[R] = IF R = {} THEN Zero
                    ELSE LET x == CHOOSE x \in R : TRUE IN Plus(g[R \ {x}], f[x])
          /\ k[R] = IF R = {} THEN Zero
                    ELSE LET x == CHOOSE x \in R : TRUE IN Plus(k[R \ {x}], f[x])
      BY <1>4, <2>2 DEF Adds
    <3> QED
      BY <2>3, <3>1
  <2>4. T \in Good
    <3>1. IsFiniteSet(T)
      BY FS_Subset
    <3> HIDE DEF Good
    <3> QED
      BY <2>3, <3>1, SubsetsInOrder
  <2> QED
    BY <2>1, <2>4, SumUnfolds
<1>5. PICK g \in [SUBSET S -> Finites] : Adds(g, S, f)
  BY <1>3
<1>6. \A T \in SUBSET S : g[T] = Sum(f, T)
  BY <1>4, <1>5
<1> QED
  BY <1>5, <1>6

\* By value, a sum is any of its terms and the sum of the rest.
Worth(f, S) == Value(Sum(f, S))

\* A sum of finite numbers is one.
LEMMA SumCloses ==
  ASSUME NEW f, NEW S, Summable(f, S)
  PROVE  Sum(f, S) \in Finites /\ Worth(f, S) \in Values /\ Worth(f, S) \in Finites
<1>1. PICK g \in [SUBSET S -> Finites] : \A T \in SUBSET S : g[T] = Sum(f, T)
  BY SumTable
<1>2. g[S] = Sum(f, S) /\ g[S] \in Finites
  BY <1>1
<1> QED
  BY <1>2, ValueFacts DEF Worth

\* Nothing adds up to Zero.
LEMMA SumOfNone == ASSUME NEW f PROVE Sum(f, {}) = Zero /\ Worth(f, {}) = Value(Zero)
<1>1. Summable(f, {})
  BY FS_EmptySet DEF Summable
<1>2. PICK g \in [SUBSET {} -> Finites] :
        Adds(g, {}, f) /\ \A T \in SUBSET {} : g[T] = Sum(f, T)
  BY <1>1, SumTable
<1>3. g[{}] = Sum(f, {}) /\ g[{}] = Zero
  BY <1>2 DEF Adds
<1> QED
  BY <1>3 DEF Worth

\* What can be added up over a set can over its subsets.
LEMMA Smaller ==
  ASSUME NEW f, NEW S, Summable(f, S), NEW T \in SUBSET S
  PROVE  Summable(f, T)
BY FS_Subset DEF Summable

\* A sum is any one of its terms and the sum of the others.
LEMMA OneOut ==
  ASSUME NEW f, NEW S, Summable(f, S), NEW x \in S
  PROVE  /\ Summable(f, S \ {x})
         /\ Worth(f, S) = Add(Worth(f, S \ {x}), f[x])
<1> DEFINE Good == {T \in SUBSET S : \A y \in T : Worth(f, T) = Add(Worth(f, T \ {y}), f[y])}
<1>1. PICK g \in [SUBSET S -> Finites] :
        Adds(g, S, f) /\ \A T \in SUBSET S : g[T] = Sum(f, T)
  BY SumTable
<1>2. \A T \in SUBSET S : g[T] = Sum(f, T)
  BY <1>1
<1>3. ASSUME NEW T \in SUBSET S, NEW c, c = First(T), T # {}
      PROVE  c \in T /\ Worth(f, T) = Add(Worth(f, T \ {c}), f[c])
  <2>1. c \in T
    BY <1>3 DEF First
  <2>2. Sum(f, T) = Plus(Sum(f, T \ {c}), f[c])
    <3>1. g[T] = Plus(g[T \ {c}], f[c])
      BY <1>1, <1>3 DEF Adds, First
    <3> QED
      BY <1>2, <3>1
  <2>3. Summable(f, T \ {c}) /\ f[c] \in Finites
    BY <2>1, Smaller DEF Summable
  <2>4. Sum(f, T \ {c}) \in Finites
    BY <2>3, SumCloses
  <2> QED
    BY <2>1, <2>2, <2>3, <2>4, AddIs DEF Worth
<1>4. ASSUME NEW T \in SUBSET S, \A y \in T : T \ {y} \in Good PROVE T \in Good
  <2>1. ASSUME NEW y \in T PROVE Worth(f, T) = Add(Worth(f, T \ {y}), f[y])
    <3>1. PICK c : c = First(T)
      OBVIOUS
    <3>2. c \in T /\ Worth(f, T) = Add(Worth(f, T \ {c}), f[c])
      BY <1>3, <2>1, <3>1
    <3>3. CASE y = c
      BY <3>2, <3>3
    <3>4. CASE y # c
      <4>1. PICK R : R = (T \ {c}) \ {y}
        OBVIOUS
      <4>2. Worth(f, T \ {c}) = Add(Worth(f, R), f[y])
        <5>1. T \ {c} \in Good /\ y \in T \ {c}
          BY <1>4, <2>1, <3>2, <3>4
        <5> QED
          BY <4>1, <5>1
      <4>3. Worth(f, T \ {y}) = Add(Worth(f, R), f[c])
        <5>1. T \ {y} \in Good /\ c \in T \ {y}
          BY <1>4, <2>1, <3>2, <3>4
        <5>2. (T \ {y}) \ {c} = R
          BY <4>1
        <5> QED
          BY <5>1, <5>2
      <4>4. Worth(f, R) \in Finites /\ f[y] \in Finites /\ f[c] \in Finites
        <5>1. Summable(f, R)
          BY <4>1, Smaller
        <5> QED
          BY <2>1, <3>2, <5>1, SumCloses DEF Summable
      <4>5. /\ Add(Add(Worth(f, R), f[y]), f[c]) = Add(Worth(f, R), Add(f[y], f[c]))
            /\ Add(Add(Worth(f, R), f[c]), f[y]) = Add(Worth(f, R), Add(f[c], f[y]))
            /\ Add(f[y], f[c]) = Add(f[c], f[y])
        BY <4>4, AddLaws
      <4> QED
        BY <3>2, <4>2, <4>3, <4>5
    <3> QED
      BY <3>3, <3>4
  <2> QED
    BY <2>1
<1>5. S \in Good
  <2>1. IsFiniteSet(S)
    BY DEF Summable
  <2> HIDE DEF Good
  <2> QED
    BY <1>4, <2>1, SubsetsInOrder
<1> QED
  BY <1>5, Smaller

\* The same, of a subset, with what a proof by subsets needs of it.
LEMMA TermsAre ==
  ASSUME NEW f, NEW S, Summable(f, S), NEW T \in SUBSET S, NEW x \in T
  PROVE  /\ f[x] \in Finites /\ T \ {x} \in SUBSET S
         /\ Worth(f, T) = Add(Worth(f, T \ {x}), f[x])
         /\ Worth(f, T \ {x}) \in Values /\ Worth(f, T \ {x}) \in Finites
         /\ Worth(f, T) \in Values
BY Smaller, OneOut, SumCloses DEF Summable

\* Terms of the same values add up to the same value.
LEMMA TotalsAlike ==
  ASSUME NEW f, NEW g, NEW S, Summable(f, S), Summable(g, S),
         \A x \in S : Value(f[x]) = Value(g[x])
  PROVE  Worth(f, S) = Worth(g, S)
<1> DEFINE Good == {T \in SUBSET S : Worth(f, T) = Worth(g, T)}
<1>1. ASSUME NEW T \in SUBSET S, \A x \in T : T \ {x} \in Good PROVE T \in Good
  <2>1. CASE T = {}
    BY <2>1, SumOfNone
  <2>2. ASSUME NEW x \in T PROVE Worth(f, T) = Worth(g, T)
    <3>1. Worth(f, T \ {x}) = Worth(g, T \ {x})
      BY <1>1, <2>2
    <3>2. /\ Worth(f, T) = Add(Worth(f, T \ {x}), f[x]) /\ f[x] \in Finites
          /\ Worth(g, T) = Add(Worth(g, T \ {x}), g[x]) /\ g[x] \in Finites
          /\ Worth(f, T \ {x}) \in Finites
      BY TermsAre
    <3>3. /\ Add(Worth(f, T \ {x}), f[x]) = Add(Worth(f, T \ {x}), Value(f[x]))
          /\ Add(Worth(f, T \ {x}), g[x]) = Add(Worth(f, T \ {x}), Value(g[x]))
      BY <3>2, AddIs
    <3>4. Value(f[x]) = Value(g[x])
      OBVIOUS
    <3> QED
      BY <3>1, <3>2, <3>3, <3>4
  <2> QED
    BY <2>1, <2>2
<1>2. S \in Good
  <2> HIDE DEF Good
  <2> QED
    BY <1>1, SubsetsInOrder DEF Summable
<1> QED
  BY <1>2

\* A sum of sums.
LEMMA TotalOfSums ==
  ASSUME NEW f, NEW g, NEW h, NEW S, Summable(f, S), Summable(g, S), Summable(h, S),
         \A x \in S : Value(h[x]) = Add(f[x], g[x])
  PROVE  Worth(h, S) = Add(Worth(f, S), Worth(g, S))
<1> DEFINE Good == {T \in SUBSET S : Worth(h, T) = Add(Worth(f, T), Worth(g, T))}
<1>1. ASSUME NEW T \in SUBSET S, \A x \in T : T \ {x} \in Good PROVE T \in Good
  <2>1. CASE T = {}
    <3>1. Add(Value(Zero), Value(Zero)) = Value(Zero)
      BY ZeroOne, ValueFacts, AddIs, AddLaws
    <3> QED
      BY <2>1, <3>1, SumOfNone
  <2>2. ASSUME NEW x \in T PROVE Worth(h, T) = Add(Worth(f, T), Worth(g, T))
    <3>1. PICK a, b, c : a = Worth(f, T \ {x}) /\ b = Worth(g, T \ {x}) /\ c = Worth(h, T \ {x})
      OBVIOUS
    <3>2. PICK u, v, w : u = f[x] /\ v = g[x] /\ w = h[x]
      OBVIOUS
    <3>3. c = Add(a, b)
      BY <1>1, <2>2, <3>1
    <3>4. /\ Worth(f, T) = Add(a, u) /\ Worth(g, T) = Add(b, v) /\ Worth(h, T) = Add(c, w)
          /\ a \in Finites /\ b \in Finites /\ u \in Finites /\ v \in Finites /\ w \in Finites
      BY <3>1, <3>2, TermsAre
    <3>5. Value(w) = Add(u, v)
      BY <3>2
    <3>6. Add(c, w) = Add(Add(a, b), Add(u, v))
      <4>1. c \in Finites
        BY <3>3, <3>4, AddIs
      <4> QED
        BY <3>3, <3>4, <3>5, <4>1, AddIs
    <3>7. Add(Add(a, b), Add(u, v)) = Add(Add(a, u), Add(b, v))
      <4>1. /\ Add(u, v) \in Finites /\ Add(b, v) \in Finites /\ Add(b, Add(u, v)) \in Finites
        BY <3>4, AddIs
      <4>2. Add(Add(a, b), Add(u, v)) = Add(a, Add(b, Add(u, v)))
        BY <3>4, <4>1, AddLaws
      <4>3. Add(b, Add(u, v)) = Add(u, Add(b, v))
        <5>1. Add(b, Add(u, v)) = Add(Add(b, u), v)
          BY <3>4, AddLaws
        <5>2. Add(b, u) = Add(u, b)
          BY <3>4, AddLaws
        <5>3. Add(Add(u, b), v) = Add(u, Add(b, v))
          BY <3>4, AddLaws
        <5> QED
          BY <5>1, <5>2, <5>3
      <4>4. Add(Add(a, u), Add(b, v)) = Add(a, Add(u, Add(b, v)))
        BY <3>4, <4>1, AddLaws
      <4> QED
        BY <4>2, <4>3, <4>4
    <3> QED
      BY <3>4, <3>6, <3>7
  <2> QED
    BY <2>1, <2>2
<1>2. S \in Good
  <2> HIDE DEF Good
  <2> QED
    BY <1>1, SubsetsInOrder DEF Summable
<1> QED
  BY <1>2

\* A common factor.
LEMMA TotalScaled ==
  ASSUME NEW f, NEW h, NEW S, Summable(f, S), Summable(h, S), NEW c \in Finites,
         \A x \in S : Value(h[x]) = Mul(c, f[x])
  PROVE  Worth(h, S) = Mul(c, Worth(f, S))
<1> DEFINE Good == {T \in SUBSET S : Worth(h, T) = Mul(c, Worth(f, T))}
<1>1. ASSUME NEW T \in SUBSET S, \A x \in T : T \ {x} \in Good PROVE T \in Good
  <2>1. CASE T = {}
    <3>1. Mul(c, Value(Zero)) = Value(Zero)
      BY ZeroOne, ValueFacts, MulIs, MulLaws
    <3> QED
      BY <2>1, <3>1, SumOfNone
  <2>2. ASSUME NEW x \in T PROVE Worth(h, T) = Mul(c, Worth(f, T))
    <3>1. PICK a, b, u, w : a = Worth(f, T \ {x}) /\ b = Worth(h, T \ {x}) /\ u = f[x] /\ w = h[x]
      OBVIOUS
    <3>2. b = Mul(c, a)
      BY <1>1, <2>2, <3>1
    <3>3. /\ Worth(f, T) = Add(a, u) /\ Worth(h, T) = Add(b, w)
          /\ a \in Finites /\ b \in Finites /\ u \in Finites /\ w \in Finites
      BY <3>1, TermsAre
    <3>4. Value(w) = Mul(c, u)
      BY <3>1
    <3>5. Add(b, w) = Add(Mul(c, a), Mul(c, u))
      BY <3>2, <3>3, <3>4, AddIs
    <3>6. Mul(c, Add(a, u)) = Add(Mul(c, a), Mul(c, u))
      BY <3>3, MulLaws
    <3> QED
      BY <3>3, <3>5, <3>6
  <2> QED
    BY <2>1, <2>2
<1>2. S \in Good
  <2> HIDE DEF Good
  <2> QED
    BY <1>1, SubsetsInOrder DEF Summable
<1> QED
  BY <1>2

\* Terms that are nothing can be left out.
LEMMA TotalOfOnly ==
  ASSUME NEW f, NEW S, Summable(f, S), NEW R \in SUBSET S,
         \A x \in S \ R : Value(f[x]) = Value(Zero)
  PROVE  Worth(f, S) = Worth(f, R)
<1> DEFINE Good == {T \in SUBSET S : Worth(f, T) = Worth(f, T \cap R)}
<1>1. ASSUME NEW T \in SUBSET S, \A x \in T : T \ {x} \in Good PROVE T \in Good
  <2>1. CASE T = {}
    BY <2>1
  <2>2. ASSUME NEW x \in T, x \notin R PROVE Worth(f, T) = Worth(f, T \cap R)
    <3>1. Worth(f, T \ {x}) = Worth(f, (T \ {x}) \cap R)
      BY <1>1, <2>2
    <3>2. (T \ {x}) \cap R = T \cap R
      BY <2>2
    <3>3. /\ Worth(f, T) = Add(Worth(f, T \ {x}), f[x]) /\ f[x] \in Finites
          /\ Worth(f, T \ {x}) \in Values /\ Worth(f, T \ {x}) \in Finites
      BY <2>2, TermsAre
    <3>4. Value(f[x]) = Value(Zero)
      BY <2>2
    <3>5. Add(Worth(f, T \ {x}), f[x]) = Add(Worth(f, T \ {x}), Value(Zero))
      BY <3>3, <3>4, AddIs
    <3>6. Add(Worth(f, T \ {x}), Value(Zero)) = Value(Worth(f, T \ {x}))
      BY <3>3, ZeroOne, AddIs, AddLaws
    <3>7. Value(Worth(f, T \ {x})) = Worth(f, T \ {x})
      BY <3>3 DEF Values
    <3> QED
      BY <3>1, <3>2, <3>3, <3>5, <3>6, <3>7
  <2>3. CASE T \subseteq R
    <3>1. T \cap R = T
      BY <2>3
    <3> QED
      BY <3>1
  <2> QED
    BY <2>1, <2>2, <2>3
<1>2. S \in Good
  <2> HIDE DEF Good
  <2> QED
    BY <1>1, SubsetsInOrder DEF Summable
<1>3. S \cap R = R
  OBVIOUS
<1> QED
  BY <1>2, <1>3

\* One term is its own sum.
LEMMA TotalOfOne ==
  ASSUME NEW f, NEW x, f[x] \in Finites
  PROVE  Summable(f, {x}) /\ Worth(f, {x}) = Value(f[x])
<1>1. Summable(f, {x})
  BY FS_Singleton DEF Summable
<1>2. Worth(f, {x}) = Add(Worth(f, {x} \ {x}), f[x])
  BY <1>1, OneOut
<1>3. {x} \ {x} = {}
  OBVIOUS
<1>4. Worth(f, {x}) = Add(Value(Zero), f[x])
  BY <1>2, <1>3, SumOfNone
<1>5. Add(Value(Zero), f[x]) = Value(f[x])
  BY ZeroOne, AddIs, AddLaws
<1> QED
  BY <1>1, <1>4, <1>5

\* Adding up by groups.
Those(S, g, k) == {x \in S : g[x] = k}

\* Adding up group by group, each group under its key, is adding up.
LEMMA TotalGrouped ==
  ASSUME NEW f, NEW S, Summable(f, S), NEW K, NEW g, \A x \in S : g[x] \in K,
         NEW h, Summable(h, K),
         \A k \in K : Value(h[k]) = Worth(f, Those(S, g, k))
  PROVE  Worth(h, K) = Worth(f, S)
<1> USE DEF Those
<1> DEFINE Group(T, k) == {x \in T : g[x] = k}
           by(T) == [k \in K |-> Sum(f, Group(T, k))]
           Good == {T \in SUBSET S : Worth(by(T), K) = Worth(f, T)}
<1>1. ASSUME NEW T \in SUBSET S
      PROVE  Summable(by(T), K) /\ \A k \in K : Value(by(T)[k]) = Worth(f, Group(T, k))
  <2>1. ASSUME NEW k \in K PROVE by(T)[k] \in Finites /\ Value(by(T)[k]) = Worth(f, Group(T, k))
    <3>1. Group(T, k) \in SUBSET S
      OBVIOUS
    <3>2. Sum(f, Group(T, k)) \in Finites
      BY <3>1, Smaller, SumCloses
    <3> QED
      BY <3>2 DEF Worth
  <2> QED
    BY <2>1 DEF Summable
<1>2. ASSUME NEW T \in SUBSET S, \A x \in T : T \ {x} \in Good PROVE T \in Good
  <2>1. CASE T = {}
    <3>1. ASSUME NEW k \in K PROVE Value(by(T)[k]) = Value(Zero)
      <4>1. Group(T, k) = {}
        BY <2>1
      <4> QED
        BY <4>1, SumOfNone
    <3>2. PICK h0 : h0 = by(T)
      OBVIOUS
    <3>3. Worth(h0, K) = Worth(h0, {})
      <4>1. Summable(h0, K) /\ {} \in SUBSET K /\ \A k \in K \ {} : Value(h0[k]) = Value(Zero)
        BY <1>1, <3>1, <3>2
      <4> QED
        BY <4>1, TotalOfOnly
    <3> QED
      BY <2>1, <3>2, <3>3, SumOfNone
  <2>2. ASSUME NEW x \in T PROVE Worth(by(T), K) = Worth(f, T)
    <3>1. PICK k0, R, h1, h2 : k0 = g[x] /\ R = T \ {x} /\ h1 = by(T) /\ h2 = by(R)
      OBVIOUS
    <3>2. R \in SUBSET S /\ k0 \in K
      BY <2>2, <3>1
    <3>3. /\ Summable(h1, K) /\ \A k \in K : Value(h1[k]) = Worth(f, Group(T, k))
          /\ Summable(h2, K) /\ \A k \in K : Value(h2[k]) = Worth(f, Group(R, k))
      BY <1>1, <3>1, <3>2
    <3>4. ASSUME NEW k \in K \ {k0} PROVE Value(h1[k]) = Value(h2[k])
      <4>1. Group(T, k) = Group(R, k)
        BY <3>1, <3>4
      <4> QED
        BY <3>3, <4>1
    <3>5. Value(h1[k0]) = Add(h2[k0], f[x])
      <4>1. Group(T, k0) \in SUBSET S /\ x \in Group(T, k0) /\ Group(T, k0) \ {x} = Group(R, k0)
        BY <2>2, <3>1
      <4>2. Worth(f, Group(T, k0)) = Add(Worth(f, Group(R, k0)), f[x]) /\ f[x] \in Finites
        BY <4>1, TermsAre
      <4>3. h2[k0] \in Finites
        BY <3>2, <3>3 DEF Summable
      <4> QED
        BY <3>2, <3>3, <4>2, <4>3, AddIs
    <3>6. Worth(h1, K \ {k0}) = Worth(h2, K \ {k0})
      <4>1. Summable(h1, K \ {k0}) /\ Summable(h2, K \ {k0})
        BY <3>3, Smaller
      <4> QED
        BY <3>4, <4>1, TotalsAlike
    <3>7. PICK p, a, u : p = Worth(h2, K \ {k0}) /\ a = h2[k0] /\ u = f[x]
      OBVIOUS
    <3>8. p \in Finites /\ a \in Finites /\ u \in Finites
      <4>1. Summable(h2, K \ {k0})
        BY <3>3, Smaller
      <4> QED
        BY <2>2, <3>2, <3>3, <3>7, <4>1, SumCloses DEF Summable
    <3>9. Worth(h1, K) = Add(p, Add(a, u))
      <4>1. Worth(h1, K) = Add(Worth(h1, K \ {k0}), h1[k0]) /\ h1[k0] \in Finites
        BY <3>2, <3>3, OneOut DEF Summable
      <4>2. Add(p, h1[k0]) = Add(p, Add(a, u))
        BY <3>5, <3>7, <3>8, <4>1, AddIs
      <4> QED
        BY <3>6, <3>7, <4>1, <4>2
    <3>10. Worth(h2, K) = Add(p, a)
      BY <3>2, <3>3, <3>7, OneOut
    <3>11. Worth(h2, K) = Worth(f, R)
      BY <1>2, <2>2, <3>1
    <3>12. Worth(f, T) = Add(Worth(f, R), u)
      BY <2>2, <3>1, <3>7, TermsAre
    <3>13. Add(p, Add(a, u)) = Add(Add(p, a), u)
      BY <3>8, AddLaws
    <3> QED
      BY <3>1, <3>9, <3>10, <3>11, <3>12, <3>13
  <2> QED
    BY <2>1, <2>2
<1>3. S \in Good
  <2> HIDE DEF Good
  <2> QED
    BY <1>2, SubsetsInOrder DEF Summable
<1>4. Worth(h, K) = Worth(by(S), K)
  <2>1. PICK hs : hs = by(S)
    OBVIOUS
  <2>2. Summable(hs, K) /\ \A k \in K : Value(hs[k]) = Value(h[k])
    BY <1>1, <2>1
  <2>3. Worth(h, K) = Worth(hs, K)
    BY <2>2, TotalsAlike
  <2> QED
    BY <2>1, <2>3
<1> QED
  BY <1>3, <1>4

\* Under other names.
LEMMA TotalRenamed ==
  ASSUME NEW f, NEW T, Summable(f, T), NEW h, NEW S, Summable(h, S), NEW b,
         \A x \in S : b[x] \in T /\ Value(h[x]) = Value(f[b[x]]),
         \A t \in T : \E x \in S : b[x] = t,
         \A x, y \in S : b[x] = b[y] => x = y
  PROVE  Worth(h, S) = Worth(f, T)
<1>1. ASSUME NEW t \in T PROVE Value(f[t]) = Worth(h, Those(S, b, t))
  <2>1. PICK x \in S : b[x] = t
    OBVIOUS
  <2>2. Those(S, b, t) = {x}
    BY <2>1 DEF Those
  <2>3. h[x] \in Finites
    BY DEF Summable
  <2>4. Worth(h, {x}) = Value(h[x])
    BY <2>3, TotalOfOne
  <2> QED
    BY <2>1, <2>2, <2>4
<1>2. \A x \in S : b[x] \in T
  OBVIOUS
<1>3. Worth(f, T) = Worth(h, S)
  BY <1>1, <1>2, TotalGrouped
<1> QED
  BY <1>3

\* The same term many times.
LEMMA TotalOfEqual ==
  ASSUME NEW f, NEW S, Summable(f, S), NEW v \in Finites, \A x \in S : Value(f[x]) = Value(v)
  PROVE  /\ F(Cardinality(S)) \in Finites
         /\ Worth(f, S) = Mul(F(Cardinality(S)), v)
<1> DEFINE Good == {T \in SUBSET S : Worth(f, T) = Mul(F(Cardinality(T)), v)}
<1>1. PICK a \in Int, d \in Nat \ {0} : Amounts(v, a, d)
  BY OfFinites
<1>2. ASSUME NEW T \in SUBSET S
      PROVE  IsFiniteSet(T) /\ Cardinality(T) \in Nat /\ F(Cardinality(T)) \in Finites
  <2>1. IsFiniteSet(T)
    BY FS_Subset DEF Summable
  <2> QED
    BY <2>1, FS_CardinalityType, Whole
<1>3. ASSUME NEW T \in SUBSET S, \A x \in T : T \ {x} \in Good PROVE T \in Good
  <2>1. CASE T = {}
    <3>1. F(Cardinality(T)) = Zero
      BY <2>1, FS_EmptySet DEF Zero
    <3>2. Mul(Zero, v) = Value(Zero)
      BY MulLaws
    <3> QED
      BY <2>1, <3>1, <3>2, SumOfNone
  <2>2. ASSUME NEW x \in T PROVE Worth(f, T) = Mul(F(Cardinality(T)), v)
    <3>1. PICK n \in Nat : n = Cardinality(T \ {x})
      BY <1>2
    <3>2. Cardinality(T) = n + 1
      BY <1>2, <2>2, <3>1, FS_RemoveElement
    <3>3. Worth(f, T \ {x}) = Mul(F(n), v)
      BY <1>3, <2>2, <3>1
    <3>4. Worth(f, T) = Add(Worth(f, T \ {x}), f[x]) /\ f[x] \in Finites /\ Value(f[x]) = Value(v)
      BY <2>2, TermsAre
    <3>5. F(n) \in Finites /\ Amounts(F(n), n, 1) /\ F(n + 1) \in Finites /\ Amounts(F(n + 1), n + 1, 1)
      BY Whole
    <3>6. Worth(f, T) = Add(Mul(F(n), v), v)
      <4>1. Mul(F(n), v) \in Finites
        BY <3>5, MulIs
      <4> QED
        BY <3>3, <3>4, <4>1, AddIs
    <3>7. Add(Mul(F(n), v), v) = Mul(F(n + 1), v)
      <4>5. PICK m \in Int : m = n + 1
        OBVIOUS
      <4>6. /\ Mul(F(n), v) \in Finites /\ Amounts(Mul(F(n), v), n * a, 1 * d)
            /\ n * a \in Int
        BY <1>1, <3>5, MulIs
      <4>7. F(m) \in Finites /\ Amounts(F(m), m, 1)
        BY Whole
      <4>8. Mul(F(m), v) \in Values /\ Amounts(Mul(F(m), v), m * a, 1 * d)
        BY <1>1, <4>7, MulIs
      <4>1. /\ Mul(F(n), v) \in Finites /\ Amounts(Mul(F(n), v), n * a, 1 * d)
            /\ Mul(F(n + 1), v) \in Values /\ Amounts(Mul(F(n + 1), v), (n + 1) * a, 1 * d)
            /\ n * a \in Int
        BY <4>5, <4>6, <4>8
      <4>2. 1 * d = d
        OBVIOUS
      <4>3. /\ Add(Mul(F(n), v), v) \in Values
            /\ Amounts(Add(Mul(F(n), v), v), n * a + a, d)
        BY <1>1, <4>1, <4>2, AddIs
      <4>4. n * a + a = (n + 1) * a /\ n * a + a \in Int
        OBVIOUS
      <4> QED
        BY <4>1, <4>2, <4>3, <4>4, EqualValues
    <3> QED
      BY <3>2, <3>6, <3>7
  <2> QED
    BY <2>1, <2>2
<1>4. S \in Good
  <2> HIDE DEF Good
  <2> QED
    BY <1>3, SubsetsInOrder DEF Summable
<1> QED
  BY <1>2, <1>4

-----------------------------------------------------------------------------
(* Rates: a document, one byte longer.                                     *)

Alphabet == DOMAIN ClassOf
Front(doc, n) == [i \in 1 .. n |-> doc[i]]

\* The bytes that count: the class before the first of them is the one that opens.
ClassAt(first, doc, n) == IF n = 0 THEN first ELSE ClassOf[doc[n]]

\* The bytes of a document, and its beginnings.
LEMMA DocumentsAre ==
  ASSUME NEW n \in Nat, NEW doc \in Documents(n)
  PROVE  /\ Len(doc) = n /\ doc \in Seq(Alphabet)
         /\ \A i \in 1 .. n : doc[i] \in Alphabet /\ ClassOf[doc[i]] \in Classes
         /\ \A m \in 0 .. n : Front(doc, m) \in Documents(m)
<1>1. doc \in [1 .. n -> Alphabet]
  BY DEF Documents, Alphabet
<1>2. doc \in Seq(Alphabet)
  BY <1>1, SeqDef
<1>3. Len(doc) = n
  BY <1>1, <1>2, LenProperties
<1>4. ASSUME NEW i \in 1 .. n PROVE doc[i] \in Alphabet /\ ClassOf[doc[i]] \in Classes
  BY <1>1 DEF Alphabet, Classes
<1>5. ASSUME NEW m \in 0 .. n PROVE Front(doc, m) \in Documents(m)
  <2>1. \A i \in 1 .. m : i \in 1 .. n
    OBVIOUS
  <2> QED
    BY <1>4, <2>1 DEF Front, Documents, Alphabet
<1> QED
  BY <1>2, <1>3, <1>4, <1>5

\* Two tables that start alike and go on alike.
GoOnAlike(f, g, n) ==
  f[0] = g[0] /\ \A j \in 1 .. n : f[j - 1] = g[j - 1] => f[j] = g[j]

\* Two tables that go on alike agree.
LEMMA TablesAgree ==
  ASSUME NEW n \in Nat, NEW f, NEW g, GoOnAlike(f, g, n)
  PROVE  \A j \in 0 .. n : f[j] = g[j]
<1> USE DEF GoOnAlike
<1> DEFINE S == {j \in 0 .. n : f[j] = g[j]}
<1>1. 0 \in S
  OBVIOUS
<1>2. ASSUME NEW i \in 0 .. n - 1, i \in S PROVE i + 1 \in S
  <2>1. i + 1 \in 1 .. n /\ (i + 1) - 1 = i
    OBVIOUS
  <2>2. f[i + 1] = g[i + 1]
    BY <1>2, <2>1
  <2> QED
    BY <2>1, <2>2
<1>3. \A i \in 0 .. n : i \in S
  <2> HIDE DEF S
  <2> QED
    BY <1>1, <1>2, UpTo
<1> QED
  BY <1>3

\* Where a document leads.
Leads(f, q, doc, n) ==
  f[0] = q.start /\ \A j \in 1 .. n : f[j] = q.rows[doc[j]][f[j - 1]]

\* The table `BlockAfter` chooses exists.
LEMMA LeadsSomewhere ==
  ASSUME NEW q, IsQuotient(q), NEW n \in Nat, NEW doc \in Documents(n)
  PROVE  \E f \in [0 .. n -> Blocks(q)] : Leads(f, q, doc, n) /\ f[n] = BlockAfter(q, doc)
<1> DEFINE row == [j \in 1 .. n |-> q.rows[doc[j]]]
           IsRun(f) == f = [i \in 0 .. Len(doc) |->
                              IF i = 0 THEN q.start ELSE q.rows[doc[i]][f[i - 1]]]
<1>1. /\ q.start \in Blocks(q) /\ Len(doc) = n
      /\ \A j \in 1 .. n : q.rows[doc[j]] \in [Blocks(q) -> Blocks(q)]
  BY DocumentsAre DEF IsQuotient, Alphabet
<1>2. row \in Rows(n, Blocks(q))
  BY <1>1 DEF Rows
<1>3. PICK f \in [0 .. n -> Blocks(q)] : Fills(f, n, q.start, row)
  <2> HIDE DEF row
  <2> QED
    BY <1>1, <1>2, FilledFromFront
<1>4. Leads(f, q, doc, n)
  BY <1>3 DEF Fills, Leads
<1>5. IsRun(f)
  <2>1. f = [i \in 0 .. n |-> IF i = 0 THEN q.start ELSE q.rows[doc[i]][f[i - 1]]]
    BY <1>4 DEF Leads
  <2> QED
    BY <1>1, <2>1
<1>6. PICK g : g = CHOOSE h : IsRun(h)
  OBVIOUS
<1>7. IsRun(g)
  BY <1>5, <1>6
<1>8. BlockAfter(q, doc) = g[n]
  BY <1>1, <1>6 DEF BlockAfter
<1>9. g[n] = f[n]
  <2>1. g[0] = f[0] /\ \A j \in 1 .. n : g[j] = q.rows[doc[j]][g[j - 1]]
    BY <1>1, <1>4, <1>7 DEF Leads
  <2>2. \A j \in 0 .. n : g[j] = f[j]
    <3>1. \A j \in 1 .. n : g[j - 1] = f[j - 1] => g[j] = f[j]
      BY <1>4, <2>1 DEF Leads
    <3>2. GoOnAlike(g, f, n)
      BY <2>1, <3>1 DEF GoOnAlike
    <3> QED
      BY <3>2, TablesAgree
  <2> QED
    BY <2>2
<1> QED
  BY <1>3, <1>4, <1>8, <1>9

\* The block after a document is one row further than the block after all but its last
\* byte.
LEMMA BlockIs ==
  ASSUME NEW q, IsQuotient(q), NEW n \in Nat, NEW doc \in Documents(n)
  PROVE  /\ BlockAfter(q, doc) \in Blocks(q)
         /\ n = 0 => BlockAfter(q, doc) = q.start
         /\ n > 0 => BlockAfter(q, doc) = q.rows[doc[n]][BlockAfter(q, Front(doc, n - 1))]
<1>1. PICK f \in [0 .. n -> Blocks(q)] : Leads(f, q, doc, n) /\ f[n] = BlockAfter(q, doc)
  BY LeadsSomewhere
<1>2. ASSUME n > 0
      PROVE  BlockAfter(q, doc) = q.rows[doc[n]][BlockAfter(q, Front(doc, n - 1))]
  <2>1. PICK m \in Nat, p \in {Front(doc, n - 1)} : m = n - 1 /\ p = Front(doc, m)
    BY <1>2
  <2>2. p \in Documents(m)
    BY <2>1, DocumentsAre
  <2>3. PICK g \in [0 .. m -> Blocks(q)] : Leads(g, q, p, m) /\ g[m] = BlockAfter(q, p)
    BY <2>2, LeadsSomewhere
  <2>4. \A j \in 0 .. m : g[j] = f[j]
    <3>1. g[0] = f[0]
      BY <1>1, <2>3 DEF Leads
    <3>2. ASSUME NEW j \in 1 .. m, g[j - 1] = f[j - 1] PROVE g[j] = f[j]
      <4>1. p[j] = doc[j] /\ j \in 1 .. n
        BY <2>1 DEF Front
      <4> QED
        BY <1>1, <2>3, <3>2, <4>1 DEF Leads
    <3>3. GoOnAlike(g, f, m)
      BY <3>1, <3>2 DEF GoOnAlike
    <3> QED
      BY <3>3, TablesAgree
  <2>5. f[n] = q.rows[doc[n]][f[m]] /\ f[m] = g[m]
    BY <1>1, <1>2, <2>1, <2>4 DEF Leads
  <2> QED
    BY <1>1, <2>1, <2>3, <2>5
<1>3. n = 0 => f[n] = q.start
  BY <1>1 DEF Leads
<1>4. f[n] \in Blocks(q)
  OBVIOUS
<1> QED
  BY <1>1, <1>2, <1>3, <1>4

\* How likely it is.
LEMMA SharesAre == Shares = Finites
BY FinitesFacts, OfFinites DEF Shares

\* There are finitely many bytes, so finitely many classes, and each has a byte.
LEMMA ClassesAre ==
  /\ IsFiniteSet(Alphabet) /\ IsFiniteSet(Classes)
  /\ \A class \in Classes : Members(class) \in Nat \ {0}
<1>1. IsFiniteSet(Alphabet)
  BY RatesAssumption DEF Alphabet
<1>2. IsFiniteSet(Classes)
  <2>1. PICK f : f = [y \in Alphabet |-> ClassOf[y]]
    OBVIOUS
  <2>2. DOMAIN f = Alphabet /\ f = [y \in Alphabet |-> f[y]] /\ Classes = {f[y] : y \in Alphabet}
    BY <2>1 DEF Classes, Alphabet
  <2> QED
    BY <1>1, <2>2, FiniteImage
<1>3. ASSUME NEW class \in Classes PROVE Members(class) \in Nat \ {0}
  <2>1. PICK Y : Y = {y \in DOMAIN ClassOf : ClassOf[y] = class}
    OBVIOUS
  <2>2. Y \in SUBSET Alphabet /\ Y # {}
    BY <2>1 DEF Alphabet, Classes
  <2>3. IsFiniteSet(Y)
    BY <1>1, <2>2, FS_Subset
  <2>4. Cardinality(Y) \in Nat /\ Cardinality(Y) # 0
    BY <2>2, <2>3, FS_EmptySet, FS_CardinalityType
  <2> QED
    BY <2>1, <2>4 DEF Members
<1> QED
  BY <1>1, <1>2, <1>3

\* The chance of a byte is its class over the bytes of the class.
LEMMA AfterIs ==
  ASSUME NEW chain, IsChain(chain), NEW from \in Classes, NEW y \in Alphabet
  PROVE  /\ ClassOf[y] \in Classes
         /\ chain.next[from][ClassOf[y]] \in Finites
         /\ After(chain)[from][y] = Divided(chain.next[from][ClassOf[y]], F(Members(ClassOf[y])))
         /\ After(chain)[from][y] \in Finites
<1>1. ClassOf[y] \in Classes
  BY DEF Classes, Alphabet
<1>2. PICK x, m : x = chain.next[from][ClassOf[y]] /\ m = Members(ClassOf[y])
  OBVIOUS
<1>3. x \in Finites /\ m \in Nat \ {0}
  BY <1>1, <1>2, SharesAre, ClassesAre DEF IsChain
<1>4. After(chain)[from][y] = Divided(x, F(m))
  BY <1>2 DEF After, BytesAfter, Alphabet
<1>5. Divided(x, F(m)) \in Finites
  <2>1. PICK a \in Int, d \in Nat \ {0} : Amounts(x, a, d)
    BY <1>3, OfFinites
  <2>2. F(m) \in Finites /\ Amounts(F(m), m, 1)
    BY <1>3, Whole
  <2> QED
    BY <1>3, <2>1, <2>2, DividedIs
<1> QED
  BY <1>1, <1>2, <1>3, <1>4, <1>5

Tells(f, first, chain, doc, n) ==
  /\ f[0] = chain.start[first]
  /\ \A j \in 1 .. n :
       f[j] = Times(f[j - 1], After(chain)[ClassAt(first, doc, j - 1)][doc[j]])

\* The table `LikelihoodAfter` chooses exists.
LEMMA TellsSomething ==
  ASSUME NEW chain, IsChain(chain), NEW first \in Classes, NEW n \in Nat, NEW doc \in Documents(n)
  PROVE  \E f \in [0 .. n -> Finites] :
           /\ Tells(f, first, chain, doc, n)
           /\ f[n] = LikelihoodAfter(first, chain, After(chain), doc)
<1> DEFINE by(j) == After(chain)[ClassAt(first, doc, j - 1)][doc[j]]
           row == [j \in 1 .. n |-> [x \in Finites |-> Times(x, by(j))]]
           IsTold(f) == f = [i \in 0 .. Len(doc) |->
                               IF i = 0 THEN chain.start[first]
                               ELSE Times(f[i - 1],
                                          After(chain)[IF i = 1 THEN first ELSE ClassOf[doc[i - 1]]][doc[i]])]
<1>1. Len(doc) = n /\ chain.start[first] \in Finites
  BY DocumentsAre, SharesAre DEF IsChain
<1>2. ASSUME NEW j \in 1 .. n
      PROVE  /\ by(j) \in Finites
             /\ by(j) = After(chain)[IF j = 1 THEN first ELSE ClassOf[doc[j - 1]]][doc[j]]
  <2>1. ClassAt(first, doc, j - 1) = IF j = 1 THEN first ELSE ClassOf[doc[j - 1]]
    BY DEF ClassAt
  <2>2. j # 1 => j - 1 \in 1 .. n
    OBVIOUS
  <2>3. ClassAt(first, doc, j - 1) \in Classes /\ doc[j] \in Alphabet
    BY <2>1, <2>2, DocumentsAre
  <2>4. by(j) \in Finites
    BY <2>3, AfterIs
  <2> QED
    BY <2>1, <2>4
<1>3. row \in Rows(n, Finites)
  <2>1. ASSUME NEW j \in 1 .. n PROVE [x \in Finites |-> Times(x, by(j))] \in [Finites -> Finites]
    <3>1. PICK v : v = by(j)
      OBVIOUS
    <3>2. v \in Finites
      BY <1>2, <3>1
    <3>3. \A x \in Finites : Times(x, v) \in Finites
      BY <3>2, MulIs
    <3> QED
      BY <3>1, <3>3
  <2> HIDE DEF by
  <2> QED
    BY <2>1 DEF Rows
<1>4. PICK f \in [0 .. n -> Finites] : Fills(f, n, chain.start[first], row)
  <2> HIDE DEF row
  <2> QED
    BY <1>1, <1>3, FilledFromFront
<1>5. Tells(f, first, chain, doc, n)
  <2>1. ASSUME NEW j \in 1 .. n PROVE f[j] = Times(f[j - 1], by(j))
    <3>1. f[j] = row[j][f[j - 1]] /\ f[j - 1] \in Finites
      <4> HIDE DEF row
      <4> QED
        BY <1>4 DEF Fills
    <3> HIDE DEF by
    <3> QED
      BY <3>1
  <2> QED
    BY <1>4, <2>1 DEF Fills, Tells
<1>6. IsTold(f)
  <2>1. ASSUME NEW j \in 1 .. n
        PROVE  f[j] = Times(f[j - 1], After(chain)[IF j = 1 THEN first ELSE ClassOf[doc[j - 1]]][doc[j]])
    BY <1>2, <1>5 DEF Tells
  <2>2. f[0] = chain.start[first]
    BY <1>5 DEF Tells
  <2>3. f = [i \in 0 .. n |-> IF i = 0 THEN chain.start[first]
                               ELSE Times(f[i - 1],
                                          After(chain)[IF i = 1 THEN first ELSE ClassOf[doc[i - 1]]][doc[i]])]
    BY <2>1, <2>2
  <2> QED
    BY <1>1, <2>3
<1>7. PICK g : g = CHOOSE h : IsTold(h)
  OBVIOUS
<1>8. IsTold(g)
  BY <1>6, <1>7
<1>9. LikelihoodAfter(first, chain, After(chain), doc) = g[n]
  BY <1>1, <1>7 DEF LikelihoodAfter
<1>10. g[n] = f[n]
  <2>1. ASSUME NEW j \in 1 .. n
        PROVE  g[j] = Times(g[j - 1], After(chain)[IF j = 1 THEN first ELSE ClassOf[doc[j - 1]]][doc[j]])
    <3>1. g = [i \in 0 .. n |-> IF i = 0 THEN chain.start[first]
                                 ELSE Times(g[i - 1],
                                            After(chain)[IF i = 1 THEN first ELSE ClassOf[doc[i - 1]]][doc[i]])]
      BY <1>1, <1>8
    <3>2. j \in 0 .. n /\ j # 0
      OBVIOUS
    <3> QED
      BY <3>1, <3>2
  <2>2. ASSUME NEW j \in 1 .. n
        PROVE  f[j] = Times(f[j - 1], After(chain)[IF j = 1 THEN first ELSE ClassOf[doc[j - 1]]][doc[j]])
    BY <1>1, <1>6
  <2>3. g[0] = f[0]
    BY <1>1, <1>6, <1>8
  <2>4. GoOnAlike(g, f, n)
    BY <2>1, <2>2, <2>3 DEF GoOnAlike
  <2> QED
    BY <2>4, TablesAgree
<1> QED
  BY <1>4, <1>5, <1>9, <1>10

\* The likelihood of a document is one factor more than that of all but its last byte.
LEMMA LikelihoodIs ==
  ASSUME NEW chain, IsChain(chain), NEW first \in Classes, NEW n \in Nat, NEW doc \in Documents(n)
  PROVE  /\ LikelihoodAfter(first, chain, After(chain), doc) \in Finites
         /\ n = 0 => LikelihoodAfter(first, chain, After(chain), doc) = chain.start[first]
         /\ n > 0 =>
              LikelihoodAfter(first, chain, After(chain), doc)
                = Times(LikelihoodAfter(first, chain, After(chain), Front(doc, n - 1)),
                        After(chain)[ClassAt(first, doc, n - 1)][doc[n]])
<1> DEFINE L(d) == LikelihoodAfter(first, chain, After(chain), d)
<1>1. PICK f \in [0 .. n -> Finites] : Tells(f, first, chain, doc, n) /\ f[n] = L(doc)
  BY TellsSomething
<1>2. ASSUME n > 0
      PROVE  L(doc) = Times(L(Front(doc, n - 1)), After(chain)[ClassAt(first, doc, n - 1)][doc[n]])
  <2>1. PICK m \in Nat, p \in {Front(doc, n - 1)} : m = n - 1 /\ p = Front(doc, m)
    BY <1>2
  <2>2. p \in Documents(m)
    BY <2>1, DocumentsAre
  <2>3. PICK g \in [0 .. m -> Finites] : Tells(g, first, chain, p, m) /\ g[m] = L(p)
    BY <2>2, TellsSomething
  <2>4. \A j \in 0 .. m : g[j] = f[j]
    <3>1. g[0] = f[0]
      BY <1>1, <2>3 DEF Tells
    <3>2. ASSUME NEW j \in 1 .. m, g[j - 1] = f[j - 1] PROVE g[j] = f[j]
      <4>1. p[j] = doc[j] /\ j \in 1 .. n /\ (j - 1 # 0 => p[j - 1] = doc[j - 1])
        BY <2>1 DEF Front
      <4>2. ClassAt(first, p, j - 1) = ClassAt(first, doc, j - 1)
        BY <4>1 DEF ClassAt
      <4> QED
        BY <1>1, <2>3, <3>2, <4>1, <4>2 DEF Tells
    <3>3. GoOnAlike(g, f, m)
      BY <3>1, <3>2 DEF GoOnAlike
    <3> QED
      BY <3>3, TablesAgree
  <2>5. f[m] = g[m]
    BY <2>4
  <2>6. f[n] = Times(f[n - 1], After(chain)[ClassAt(first, doc, n - 1)][doc[n]])
    BY <1>1, <1>2 DEF Tells
  <2> QED
    BY <1>1, <2>1, <2>3, <2>5, <2>6
<1>3. n = 0 => f[n] = chain.start[first]
  BY <1>1 DEF Tells
<1>4. f[n] \in Finites
  OBVIOUS
<1> QED
  BY <1>1, <1>2, <1>3, <1>4

-----------------------------------------------------------------------------
(* Rates: what all the documents of a length come to, block by block.      *)

Extended(doc, n, y) == [i \in 1 .. n + 1 |-> IF i = n + 1 THEN y ELSE doc[i]]

\* A document with one byte more.
LEMMA ExtendedIs ==
  ASSUME NEW n \in Nat, NEW doc \in Documents(n), NEW y \in Alphabet
  PROVE  /\ Extended(doc, n, y) \in Documents(n + 1)
         /\ Front(Extended(doc, n, y), n) = doc /\ Extended(doc, n, y)[n + 1] = y
<1>1. doc \in [1 .. n -> Alphabet]
  BY DEF Documents, Alphabet
<1>2. \A i \in 1 .. n : i \in 1 .. n + 1 /\ i # n + 1 /\ Extended(doc, n, y)[i] = doc[i]
  BY DEF Extended
<1>3. n + 1 \in 1 .. n + 1 /\ Extended(doc, n, y)[n + 1] = y
  BY DEF Extended
<1>4. Front(Extended(doc, n, y), n) = doc
  BY <1>1, <1>2 DEF Front
<1>5. \A i \in 1 .. n + 1 : i = n + 1 \/ i \in 1 .. n
  OBVIOUS
<1>6. Extended(doc, n, y) \in [1 .. n + 1 -> Alphabet]
  <2>1. \A i \in 1 .. n + 1 : Extended(doc, n, y)[i] \in Alphabet
    BY <1>1, <1>2, <1>3, <1>5
  <2>2. Extended(doc, n, y) = [i \in 1 .. n + 1 |-> Extended(doc, n, y)[i]]
    BY DEF Extended
  <2> QED
    BY <2>1, <2>2
<1> QED
  BY <1>3, <1>4, <1>6 DEF Documents, Alphabet

\* Every longer document is one with one byte more.
LEMMA FrontExtended ==
  ASSUME NEW n \in Nat, NEW doc \in Documents(n + 1)
  PROVE  /\ Front(doc, n) \in Documents(n) /\ doc[n + 1] \in Alphabet
         /\ doc = Extended(Front(doc, n), n, doc[n + 1])
<1>1. n + 1 \in Nat /\ n \in 0 .. n + 1 /\ n + 1 \in 1 .. n + 1
  OBVIOUS
<1>2. Front(doc, n) \in Documents(n) /\ doc[n + 1] \in Alphabet
  BY <1>1, DocumentsAre
<1>3. doc = [i \in 1 .. n + 1 |-> doc[i]]
  BY DEF Documents
<1>4. ASSUME NEW i \in 1 .. n + 1
      PROVE  Extended(Front(doc, n), n, doc[n + 1])[i] = doc[i]
  <2>1. i # n + 1 => i \in 1 .. n
    OBVIOUS
  <2> QED
    BY <2>1 DEF Extended, Front
<1>5. doc = Extended(Front(doc, n), n, doc[n + 1])
  <2>1. Extended(Front(doc, n), n, doc[n + 1])
          = [i \in 1 .. n + 1 |-> Extended(Front(doc, n), n, doc[n + 1])[i]]
    BY DEF Extended
  <2> QED
    BY <1>3, <1>4, <2>1
<1> QED
  BY <1>2, <1>5

\* There are finitely many documents of a length.
LEMMA DocumentsFinite == ASSUME NEW n \in Nat PROVE IsFiniteSet(Documents(n))
<1> DEFINE S == {m \in Nat : IsFiniteSet(Documents(m))}
<1>1. 0 \in S
  <2>1. PICK e : e = [i \in 1 .. 0 |-> i]
    OBVIOUS
  <2>2. ASSUME NEW doc \in Documents(0) PROVE doc = e
    BY <2>1 DEF Documents
  <2>3. Documents(0) \in SUBSET {e}
    BY <2>2
  <2>4. IsFiniteSet({e})
    BY FS_Singleton
  <2> QED
    BY <2>3, <2>4, FS_Subset
<1>2. ASSUME NEW i \in 0 .. n - 1, i \in S PROVE i + 1 \in S
  <2>1. PICK f : f = [x \in Documents(i) \X Alphabet |-> Extended(x[1], i, x[2])]
    OBVIOUS
  <2>2. IsFiniteSet(Documents(i) \X Alphabet)
    BY <1>2, ClassesAre, FS_Product
  <2>3. PICK T : T = {f[x] : x \in Documents(i) \X Alphabet}
    OBVIOUS
  <2>4. IsFiniteSet(T)
    <3>1. DOMAIN f = Documents(i) \X Alphabet /\ f = [x \in Documents(i) \X Alphabet |-> f[x]]
      BY <2>1
    <3> QED
      BY <2>2, <2>3, <3>1, FiniteImage
  <2>5. ASSUME NEW doc \in Documents(i + 1) PROVE doc \in T
    <3>1. /\ Front(doc, i) \in Documents(i) /\ doc[i + 1] \in Alphabet
          /\ doc = Extended(Front(doc, i), i, doc[i + 1])
      BY FrontExtended
    <3>2. PICK x \in Documents(i) \X Alphabet : x = <<Front(doc, i), doc[i + 1]>>
      BY <3>1
    <3>3. f[x] = doc
      BY <2>1, <3>1, <3>2
    <3> QED
      BY <2>3, <3>3
  <2>6. Documents(i + 1) \in SUBSET T
    BY <2>5
  <2> QED
    BY <2>4, <2>6, FS_Subset
<1>3. \A i \in 0 .. n : i \in S
  <2> HIDE DEF S
  <2> QED
    BY <1>1, <1>2, UpTo
<1> QED
  BY <1>3

\* A document, and the class it is read after.
Openings(n) == Classes \X Documents(n)
Weigh(chain, n) == [o \in Openings(n) |-> LikelihoodAfter(o[1], chain, After(chain), o[2])]
Arrives(q, n) == [o \in Openings(n) |-> <<BlockAfter(q, o[2]), ClassAt(o[1], o[2], n)>>]
Mass(q, chain, n, s) == Worth(Weigh(chain, n), Those(Openings(n), Arrives(q, n), s))

\* The openings of a length can be added up, whatever slot they end at.
LEMMA OpeningsAre ==
  ASSUME NEW chain, IsChain(chain), NEW q, IsQuotient(q), NEW n \in Nat
  PROVE  /\ Summable(Weigh(chain, n), Openings(n))
         /\ \A o \in Openings(n) : Arrives(q, n)[o] \in Slots(q)
         /\ \A s : Summable(Weigh(chain, n), Those(Openings(n), Arrives(q, n), s))
<1>1. IsFiniteSet(Openings(n))
  BY ClassesAre, DocumentsFinite, FS_Product DEF Openings
<1>2. ASSUME NEW o \in Openings(n)
      PROVE  Weigh(chain, n)[o] \in Finites /\ Arrives(q, n)[o] \in Slots(q)
  <2>1. o[1] \in Classes /\ o[2] \in Documents(n)
    BY DEF Openings
  <2>2. LikelihoodAfter(o[1], chain, After(chain), o[2]) \in Finites
    BY <2>1, LikelihoodIs
  <2>3. BlockAfter(q, o[2]) \in Blocks(q)
    BY <2>1, BlockIs
  <2>4. ClassAt(o[1], o[2], n) \in Classes
    <3>1. n # 0 => n \in 1 .. n
      OBVIOUS
    <3> QED
      BY <2>1, <3>1, DocumentsAre DEF ClassAt
  <2> QED
    BY <2>2, <2>3, <2>4 DEF Weigh, Arrives, Slots
<1>3. Summable(Weigh(chain, n), Openings(n))
  BY <1>1, <1>2 DEF Summable
<1>4. \A s : Those(Openings(n), Arrives(q, n), s) \in SUBSET Openings(n)
  BY DEF Those
<1>5. \A s : Summable(Weigh(chain, n), Those(Openings(n), Arrives(q, n), s))
  BY <1>3, <1>4, Smaller
<1> QED
  BY <1>2, <1>3, <1>5

\* The share of a slot's mass that goes on to another.
Onward(q, chain, s, t) ==
  Mul(chain.next[s[2]][t[2]], EdgeShare(q, s[1], t[2], t[1]))

\* Of the bytes of a class, those that lead on to a block are all as likely.
Leading(q, from, t) == {y \in Alphabet : ClassOf[y] = t[2] /\ q.rows[y][from] = t[1]}

\* What goes on from one slot to another is a finite number.
LEMMA OnwardIs ==
  ASSUME NEW chain, IsChain(chain), NEW q, NEW s, s[2] \in Classes, NEW t, t[2] \in Classes,
         NEW v, v = Divided(chain.next[s[2]][t[2]], F(Members(t[2])))
  PROVE  /\ v \in Finites /\ EdgeShare(q, s[1], t[2], t[1]) \in Finites
         /\ IsFiniteSet(Leading(q, s[1], t)) /\ Cardinality(Leading(q, s[1], t)) \in Nat
         /\ F(Cardinality(Leading(q, s[1], t))) \in Finites
         /\ Onward(q, chain, s, t) \in Values /\ Onward(q, chain, s, t) \in Finites
         /\ Onward(q, chain, s, t) = Mul(F(Cardinality(Leading(q, s[1], t))), v)
<1>1. IsFiniteSet(Leading(q, s[1], t)) /\ Cardinality(Leading(q, s[1], t)) \in Nat
  <2>1. Leading(q, s[1], t) \in SUBSET Alphabet
    BY DEF Leading
  <2> QED
    BY <2>1, ClassesAre, FS_Subset, FS_CardinalityType
<1>2. PICK k \in Nat, m \in Nat \ {0}, x \in Finites :
        /\ k = Cardinality(Leading(q, s[1], t)) /\ m = Members(t[2])
        /\ x = chain.next[s[2]][t[2]]
  BY <1>1, ClassesAre, SharesAre DEF IsChain
<1>3. EdgeShare(q, s[1], t[2], t[1]) = Divided(F(k), F(m))
  BY <1>2 DEF EdgeShare, Leading, Alphabet
<1>4. PICK a \in Int, d \in Nat \ {0} : Amounts(x, a, d)
  BY OfFinites
<1>5. F(k) \in Finites /\ Amounts(F(k), k, 1) /\ F(m) \in Finites /\ Amounts(F(m), m, 1)
  BY Whole
<1>6. /\ v \in Finites /\ a * 1 \in Int /\ d * m \in Nat \ {0} /\ Amounts(v, a * 1, d * m)
  <2>1. PICK y \in Finites : y = F(m) /\ Amounts(y, m, 1)
    BY <1>5
  <2>2. v = Divided(x, y)
    BY <1>2, <2>1
  <2>3. /\ Divided(x, y) \in Finites /\ a * 1 \in Int /\ d * m \in Nat \ {0}
        /\ Amounts(Divided(x, y), a * 1, d * m)
    <3>1. 1 \in Nat \ {0} /\ m \in Nat \ {0} /\ x \in Finites /\ a \in Int /\ d \in Nat \ {0}
      BY <1>2, <1>4
    <3>2. Amounts(y, m, 1) /\ y \in Finites /\ Amounts(x, a, d)
      BY <1>4, <2>1
    <3> HIDE <1>2, <1>4
    <3> QED
      BY <3>1, <3>2, DividedIs
  <2> QED
    BY <2>2, <2>3
<1>7. PICK w : w = Divided(F(k), F(m))
  OBVIOUS
<1>8. w \in Finites /\ k * 1 \in Int /\ 1 * m \in Nat \ {0} /\ Amounts(w, k * 1, 1 * m)
  BY <1>5, <1>7, DividedIs
<1>9. Mul(x, w) \in Values /\ Mul(x, w) \in Finites /\ Mul(F(k), v) \in Values
  BY <1>5, <1>6, <1>8, MulIs
<1>10. PICK b \in Int, e \in Nat \ {0}, kk \in Int, mm \in Nat \ {0} :
         b = a * 1 /\ e = d * m /\ kk = k * 1 /\ mm = 1 * m
  BY <1>6, <1>8
<1>11. Amounts(Mul(x, w), a * kk, d * mm) /\ a * kk \in Int /\ d * mm \in Nat \ {0}
  BY <1>4, <1>8, <1>10, MulIs
<1>12. Amounts(Mul(F(k), v), k * b, 1 * e)
  BY <1>5, <1>6, <1>10, MulIs
<1>13. a * kk = k * b /\ d * mm = 1 * e
  <2>1. b = a /\ kk = k /\ mm = m
    BY <1>10
  <2> QED
    BY <1>10, <2>1
<1>14. Mul(x, w) = Mul(F(k), v)
  BY <1>9, <1>11, <1>12, <1>13, EqualValues
<1>15. Onward(q, chain, s, t) = Mul(x, w)
  BY <1>2, <1>3, <1>7 DEF Onward
<1> QED
  BY <1>1, <1>2, <1>3, <1>5, <1>6, <1>7, <1>8, <1>9, <1>14, <1>15

\* What reading one byte more makes of an opening that ends at a slot.
LEMMA OneByteMore ==
  ASSUME NEW chain, IsChain(chain), NEW q, IsQuotient(q), NEW n \in Nat,
         NEW first \in Classes, NEW doc \in Documents(n), NEW y \in Alphabet
  PROVE  /\ <<first, Extended(doc, n, y)>> \in Openings(n + 1)
         /\ Arrives(q, n + 1)[<<first, Extended(doc, n, y)>>]
              = <<q.rows[y][BlockAfter(q, doc)], ClassOf[y]>>
         /\ Weigh(chain, n + 1)[<<first, Extended(doc, n, y)>>]
              = Times(Weigh(chain, n)[<<first, doc>>],
                      Divided(chain.next[ClassAt(first, doc, n)][ClassOf[y]], F(Members(ClassOf[y]))))
<1>1. PICK m, ext :
        /\ m \in Nat /\ ext \in Documents(m) /\ m = n + 1 /\ m > 0 /\ m - 1 = n /\ ext = Extended(doc, n, y)
        /\ Front(ext, n) = doc /\ ext[m] = y
  BY ExtendedIs
<1>2. <<first, ext>> \in Openings(m) /\ <<first, doc>> \in Openings(n)
  BY <1>1 DEF Openings
<1>3. BlockAfter(q, ext) = q.rows[y][BlockAfter(q, doc)]
  BY <1>1, BlockIs
<1>4. ClassAt(first, ext, m) = ClassOf[y]
  BY <1>1 DEF ClassAt
<1>5. ClassAt(first, ext, n) = ClassAt(first, doc, n)
  <2>1. n # 0 => n \in 1 .. n
    OBVIOUS
  <2>2. n # 0 => Front(ext, n)[n] = ext[n]
    BY <2>1 DEF Front
  <2> QED
    BY <1>1, <2>2 DEF ClassAt
<1>6. LikelihoodAfter(first, chain, After(chain), ext)
        = Times(LikelihoodAfter(first, chain, After(chain), doc),
                After(chain)[ClassAt(first, ext, n)][y])
  BY <1>1, LikelihoodIs
<1>7. ClassAt(first, doc, n) \in Classes
  <2>1. n # 0 => n \in 1 .. n
    OBVIOUS
  <2> QED
    BY <2>1, DocumentsAre DEF ClassAt
<1>8. After(chain)[ClassAt(first, ext, n)][y]
        = Divided(chain.next[ClassAt(first, doc, n)][ClassOf[y]], F(Members(ClassOf[y])))
  BY <1>5, <1>7, AfterIs
<1>9. /\ Arrives(q, m)[<<first, ext>>] = <<BlockAfter(q, ext), ClassAt(first, ext, m)>>
      /\ Weigh(chain, m)[<<first, ext>>] = LikelihoodAfter(first, chain, After(chain), ext)
      /\ Weigh(chain, n)[<<first, doc>>] = LikelihoodAfter(first, chain, After(chain), doc)
  BY <1>2 DEF Arrives, Weigh
<1> QED
  BY <1>1, <1>2, <1>3, <1>4, <1>6, <1>8, <1>9

Shorter(n) == [o \in Openings(n + 1) |-> <<o[1], Front(o[2], n)>>]

\* All that go on from one opening to a slot.
LEMMA GoingOn ==
  ASSUME NEW chain, IsChain(chain), NEW q, IsQuotient(q), NEW n \in Nat,
         NEW o \in Openings(n), NEW t \in Slots(q)
  PROVE  Worth(Weigh(chain, n + 1),
               Those(Those(Openings(n + 1), Arrives(q, n + 1), t), Shorter(n), o))
           = Mul(Onward(q, chain, Arrives(q, n)[o], t), Weigh(chain, n)[o])
<1>1. PICK first \in Classes, doc \in Documents(n) : o = <<first, doc>>
  BY DEF Openings
<1>2. PICK s \in Slots(q) :
        /\ s = Arrives(q, n)[o] /\ s[1] = BlockAfter(q, doc) /\ s[2] = ClassAt(first, doc, n)
        /\ s[2] \in Classes
  BY <1>1, OpeningsAre DEF Arrives, Slots
<1>3. t[2] \in Classes /\ t = <<t[1], t[2]>>
  BY DEF Slots
<1>4. PICK v : v = Divided(chain.next[s[2]][t[2]], F(Members(t[2])))
  OBVIOUS
<1>5. /\ v \in Finites /\ IsFiniteSet(Leading(q, s[1], t))
      /\ Onward(q, chain, s, t) \in Finites /\ F(Cardinality(Leading(q, s[1], t))) \in Finites
      /\ Onward(q, chain, s, t) = Mul(F(Cardinality(Leading(q, s[1], t))), v)
  BY <1>2, <1>3, <1>4, OnwardIs
<1> DEFINE b(y) == <<first, Extended(doc, n, y)>>
           D == Those(Openings(n + 1), Arrives(q, n + 1), t)
           T == Those(D, Shorter(n), o)
<1>6. ASSUME NEW y \in Leading(q, s[1], t)
      PROVE  /\ y \in Alphabet /\ b(y) \in T
             /\ Weigh(chain, n + 1)[b(y)] = Times(Weigh(chain, n)[o], v)
  <2>1. y \in Alphabet /\ ClassOf[y] = t[2] /\ q.rows[y][s[1]] = t[1]
    BY DEF Leading
  <2>2. /\ b(y) \in Openings(n + 1)
        /\ Arrives(q, n + 1)[b(y)] = <<q.rows[y][BlockAfter(q, doc)], ClassOf[y]>>
        /\ Weigh(chain, n + 1)[b(y)]
             = Times(Weigh(chain, n)[<<first, doc>>],
                     Divided(chain.next[ClassAt(first, doc, n)][ClassOf[y]], F(Members(ClassOf[y]))))
    BY <2>1, OneByteMore
  <2>3. b(y) \in D
    BY <1>2, <1>3, <2>1, <2>2 DEF Those
  <2>4. Shorter(n)[b(y)] = o
    BY <1>1, <2>1, <2>2, ExtendedIs DEF Shorter
  <2> QED
    BY <1>1, <1>2, <1>4, <2>1, <2>2, <2>3, <2>4 DEF Those
<1>7. ASSUME NEW p \in T PROVE \E y \in Leading(q, s[1], t) : b(y) = p
  <2>1. p \in Openings(n + 1) /\ Arrives(q, n + 1)[p] = t /\ Shorter(n)[p] = o
    BY DEF Those
  <2>2. PICK f2 \in Classes, d2 \in Documents(n + 1) : p = <<f2, d2>>
    BY <2>1 DEF Openings
  <2>3. f2 = first /\ Front(d2, n) = doc
    BY <1>1, <2>1, <2>2 DEF Shorter
  <2>4. PICK y \in Alphabet : y = d2[n + 1] /\ d2 = Extended(doc, n, y)
    BY <2>3, FrontExtended
  <2>5. /\ b(y) \in Openings(n + 1)
        /\ Arrives(q, n + 1)[b(y)] = <<q.rows[y][BlockAfter(q, doc)], ClassOf[y]>>
        /\ Weigh(chain, n + 1)[b(y)]
             = Times(Weigh(chain, n)[<<first, doc>>],
                     Divided(chain.next[ClassAt(first, doc, n)][ClassOf[y]], F(Members(ClassOf[y]))))
    BY <2>4, OneByteMore
  <2>6. b(y) = p
    BY <2>2, <2>3, <2>4
  <2>7. y \in Leading(q, s[1], t)
    BY <1>2, <1>3, <2>1, <2>5, <2>6 DEF Leading
  <2> QED
    BY <2>6, <2>7
<1>8. ASSUME NEW y \in Leading(q, s[1], t), NEW z \in Leading(q, s[1], t), b(y) = b(z) PROVE y = z
  <2>1. y \in Alphabet /\ z \in Alphabet
    BY <1>6
  <2>2. Extended(doc, n, y)[n + 1] = y /\ Extended(doc, n, z)[n + 1] = z
    BY <2>1, ExtendedIs
  <2> QED
    BY <1>8, <2>2
<1>9. PICK bb, w :
        /\ bb = [y \in Leading(q, s[1], t) |-> b(y)]
        /\ w = [y \in Leading(q, s[1], t) |-> Weigh(chain, n + 1)[b(y)]]
  OBVIOUS
<1>10. PICK x \in Finites : x = Weigh(chain, n)[o]
  BY OpeningsAre DEF Summable
<1>11. PICK xv \in Finites : xv = Times(x, v) /\ Value(xv) = Mul(x, v)
  BY <1>5, MulIs
<1>12. Summable(Weigh(chain, n + 1), T)
  <2>1. n + 1 \in Nat
    OBVIOUS
  <2>2. Summable(Weigh(chain, n + 1), D)
    BY <2>1, OpeningsAre
  <2>3. T \in SUBSET D
    BY DEF Those
  <2> HIDE DEF D, T
  <2> QED
    BY <2>2, <2>3, Smaller
<1>13. \A y \in Leading(q, s[1], t) : w[y] = xv /\ bb[y] \in T /\ w[y] = Weigh(chain, n + 1)[bb[y]]
  BY <1>6, <1>9, <1>10, <1>11
<1>14. Summable(w, Leading(q, s[1], t))
  BY <1>5, <1>13 DEF Summable
<1> PICK L : L = Leading(q, s[1], t)
  OBVIOUS
<1>15. Worth(w, L) = Worth(Weigh(chain, n + 1), T)
  <2>1. \A p \in T : \E y \in L : bb[y] = p
    BY <1>7, <1>9
  <2>2. \A y, z \in L : bb[y] = bb[z] => y = z
    BY <1>8, <1>9
  <2> HIDE DEF T
  <2> QED
    BY <1>12, <1>13, <1>14, <2>1, <2>2, TotalRenamed
<1>16. Worth(w, L) = Mul(F(Cardinality(L)), xv)
  BY <1>13, <1>14, TotalOfEqual
<1>17. Mul(F(Cardinality(L)), xv) = Mul(Mul(F(Cardinality(L)), v), x)
  <2>1. PICK k \in Finites : k = F(Cardinality(L))
    BY <1>5
  <2>2. Mul(k, xv) = Mul(k, Mul(x, v))
    <3>1. Mul(k, xv) = Mul(k, Value(xv))
      BY MulIs
    <3> QED
      BY <1>11, <3>1
  <2>3. Mul(k, Mul(v, x)) = Mul(Mul(k, v), x) /\ Mul(x, v) = Mul(v, x)
    BY <1>5, <1>10, MulLaws
  <2> QED
    BY <2>1, <2>2, <2>3
<1> QED
  BY <1>2, <1>5, <1>10, <1>15, <1>16, <1>17

\* One byte more: the mass of a slot is what goes on to it from each.
LEMMA MassStep ==
  ASSUME NEW chain, IsChain(chain), NEW q, IsQuotient(q), NEW n \in Nat, NEW t \in Slots(q),
         NEW h, Summable(h, Slots(q)),
         \A s \in Slots(q) : Value(h[s]) = Mul(Onward(q, chain, s, t), Mass(q, chain, n, s))
  PROVE  Worth(h, Slots(q)) = Mass(q, chain, n + 1, t)
<1> PICK S, N, E, W, N2, E2, W2 :
      /\ S = Slots(q) /\ N = Openings(n) /\ E = Arrives(q, n) /\ W = Weigh(chain, n)
      /\ N2 = Openings(n + 1) /\ E2 = Arrives(q, n + 1) /\ W2 = Weigh(chain, n + 1)
  OBVIOUS
<1> PICK D : D = Those(N2, E2, t)
  OBVIOUS
<1>1. Summable(W, N) /\ \A o \in N : E[o] \in S
  BY OpeningsAre
<1>2. Summable(W2, D)
  <2>1. n + 1 \in Nat
    OBVIOUS
  <2> QED
    BY <2>1, OpeningsAre
<1>3. PICK H : H = [o \in N |-> Times(Onward(q, chain, E[o], t), W[o])]
  OBVIOUS
<1>4. ASSUME NEW s \in S PROVE Onward(q, chain, s, t) \in Finites
  <2>1. s[2] \in Classes /\ t[2] \in Classes
    BY DEF Slots
  <2> QED
    BY <2>1, OnwardIs
<1>5. ASSUME NEW o \in N
      PROVE  H[o] \in Finites /\ Value(H[o]) = Mul(Onward(q, chain, E[o], t), W[o])
  <2>1. W[o] \in Finites /\ Onward(q, chain, E[o], t) \in Finites
    BY <1>1, <1>4 DEF Summable
  <2> QED
    BY <1>3, <2>1, MulIs
<1>6. Summable(H, N)
  BY <1>1, <1>5 DEF Summable
<1>7. Worth(H, N) = Worth(W2, D)
  <2>1. \A p \in D : Shorter(n)[p] \in N
    <3>1. ASSUME NEW p \in N2 PROVE Shorter(n)[p] \in N
      <4>1. p[1] \in Classes /\ p[2] \in Documents(n + 1)
        BY DEF Openings
      <4>2. Front(p[2], n) \in Documents(n)
        BY <4>1, FrontExtended
      <4> QED
        BY <4>1, <4>2 DEF Shorter, Openings
    <3> QED
      BY <3>1 DEF Those
  <2>2. \A o \in N : Value(H[o]) = Worth(W2, Those(D, Shorter(n), o))
    BY <1>5, GoingOn
  <2> QED
    BY <1>2, <1>6, <2>1, <2>2, TotalGrouped
<1>8. Worth(h, S) = Worth(H, N)
  <2>1. ASSUME NEW s \in S PROVE Value(h[s]) = Worth(H, Those(N, E, s))
    <3>1. PICK R : R = Those(N, E, s)
      OBVIOUS
    <3>2. R \in SUBSET N /\ \A o \in R : E[o] = s
      BY <3>1 DEF Those
    <3>3. Summable(W, R) /\ Summable(H, R)
      BY <1>1, <1>6, <3>2, Smaller
    <3>4. \A o \in R : Value(H[o]) = Mul(Onward(q, chain, s, t), W[o])
      BY <1>5, <3>2
    <3>5. Worth(H, R) = Mul(Onward(q, chain, s, t), Worth(W, R))
      BY <1>4, <3>3, <3>4, TotalScaled
    <3>6. Mass(q, chain, n, s) = Worth(W, R)
      BY <3>1 DEF Mass
    <3> QED
      BY <3>1, <3>5, <3>6
  <2> QED
    BY <1>1, <1>6, <2>1, TotalGrouped
<1> QED
  BY <1>7, <1>8 DEF Mass

\* Before a byte is read, all the mass is where the quotient starts.
LEMMA MassStart ==
  ASSUME NEW chain, IsChain(chain), NEW q, IsQuotient(q), NEW s \in Slots(q)
  PROVE  /\ s[1] = q.start => Mass(q, chain, 0, s) = Value(chain.start[s[2]])
         /\ s[1] # q.start => Mass(q, chain, 0, s) = Value(Zero)
<1>1. PICK e : e \in Documents(0) /\ \A doc \in Documents(0) : doc = e
  <2>1. PICK e : e = [i \in 1 .. 0 |-> i]
    OBVIOUS
  <2>2. e \in Documents(0)
    BY <2>1 DEF Documents
  <2>3. ASSUME NEW doc \in Documents(0) PROVE doc = e
    BY <2>1 DEF Documents
  <2> QED
    BY <2>2, <2>3
<1> PICK W, R : W = Weigh(chain, 0) /\ R = Those(Openings(0), Arrives(q, 0), s)
  OBVIOUS
<1>2. s = <<s[1], s[2]>> /\ s[2] \in Classes
  BY DEF Slots
<1>3. ASSUME NEW first \in Classes
      PROVE  /\ <<first, e>> \in Openings(0) /\ W[<<first, e>>] = chain.start[first]
             /\ Arrives(q, 0)[<<first, e>>] = <<q.start, first>>
  <2>1. 0 \in Nat /\ e \in Documents(0)
    BY <1>1
  <2>2. <<first, e>> \in Openings(0)
    BY <2>1 DEF Openings
  <2>3. LikelihoodAfter(first, chain, After(chain), e) = chain.start[first]
    BY <2>1, LikelihoodIs
  <2>4. BlockAfter(q, e) = q.start
    BY <2>1, BlockIs
  <2> QED
    BY <2>2, <2>3, <2>4 DEF Weigh, Arrives, ClassAt
<1>4. ASSUME NEW o \in Openings(0) PROVE o[1] \in Classes /\ o = <<o[1], e>>
  BY <1>1 DEF Openings
<1>5. CASE s[1] = q.start
  <2>1. R = {<<s[2], e>>}
    <3>1. <<s[2], e>> \in R
      BY <1>2, <1>3, <1>5 DEF Those
    <3>2. ASSUME NEW o \in R PROVE o = <<s[2], e>>
      <4>1. o \in Openings(0) /\ Arrives(q, 0)[o] = s
        BY DEF Those
      <4>2. o[1] \in Classes /\ o = <<o[1], e>>
        BY <1>4, <4>1
      <4>3. s = <<q.start, o[1]>>
        BY <1>3, <4>1, <4>2
      <4>4. s[2] = o[1]
        BY <4>3
      <4> QED
        BY <4>2, <4>4
    <3> QED
      BY <3>1, <3>2
  <2>2. W[<<s[2], e>>] = chain.start[s[2]] /\ chain.start[s[2]] \in Finites
    BY <1>2, <1>3, SharesAre DEF IsChain
  <2>3. Worth(W, {<<s[2], e>>}) = Value(W[<<s[2], e>>])
    BY <2>2, TotalOfOne
  <2> QED
    BY <1>5, <2>1, <2>2, <2>3 DEF Mass
<1>6. CASE s[1] # q.start
  <2>1. R = {}
    <3>1. ASSUME NEW o \in R PROVE FALSE
      <4>1. o \in Openings(0) /\ Arrives(q, 0)[o] = s
        BY DEF Those
      <4>2. o[1] \in Classes /\ o = <<o[1], e>>
        BY <1>4, <4>1
      <4>3. s = <<q.start, o[1]>>
        BY <1>3, <4>1, <4>2
      <4> QED
        BY <1>6, <4>3
    <3> QED
      BY <3>1
  <2> QED
    BY <1>6, <2>1, SumOfNone DEF Mass
<1> QED
  BY <1>5, <1>6

\* A set of documents, after every class.
Read(n, docs) == {o \in Openings(n) : o[2] \in docs}

\* The chance of a set of documents adds up the openings that read one of them.
LEMMA ChanceIs ==
  ASSUME NEW chain, IsChain(chain), NEW q, IsQuotient(q), NEW n \in Nat \ {0},
         NEW docs \in SUBSET Documents(n)
  PROVE  /\ Summable(Weigh(chain, n), Read(n, docs))
         /\ Chance(chain, docs) \in Finites
         /\ Value(Chance(chain, docs)) = Worth(Weigh(chain, n), Read(n, docs))
<1> PICK W, R : W = Weigh(chain, n) /\ R = Read(n, docs)
  OBVIOUS
<1>1. n \in Nat /\ 1 \in 1 .. n
  OBVIOUS
<1>2. Summable(W, R)
  <2>1. R \in SUBSET Openings(n)
    BY DEF Read
  <2> QED
    BY <1>1, <2>1, OpeningsAre, Smaller
<1> DEFINE told(doc) == [first \in Classes |-> LikelihoodAfter(first, chain, After(chain), doc)]
<1>3. PICK likely : likely = [doc \in docs |-> Likelihood(chain, After(chain), doc)]
  OBVIOUS
<1>4. ASSUME NEW doc \in docs
      PROVE  /\ Summable(told(doc), Classes) /\ likely[doc] = Sum(told(doc), Classes)
             /\ likely[doc] \in Finites
             /\ Value(likely[doc]) = Worth(W, Those(R, [o \in R |-> o[2]], doc))
  <2>1. doc \in Documents(n)
    OBVIOUS
  <2>2. \A first \in Classes : told(doc)[first] \in Finites
    BY <1>1, <2>1, LikelihoodIs
  <2>3. Summable(told(doc), Classes)
    BY <2>2, ClassesAre DEF Summable
  <2>4. likely[doc] = Sum(told(doc), Classes)
    BY <1>3 DEF Likelihood
  <2>5. Sum(told(doc), Classes) \in Finites
    BY <2>3, SumCloses
  <2>6. PICK f, T, b :
          /\ f = told(doc) /\ T = Those(R, [o \in R |-> o[2]], doc)
          /\ b = [first \in Classes |-> <<first, doc>>]
    OBVIOUS
  <2>7. \A first \in Classes : b[first] \in T /\ f[first] = W[b[first]]
    <3>1. ASSUME NEW first \in Classes PROVE b[first] \in T /\ f[first] = W[b[first]]
      <4>1. <<first, doc>> \in Openings(n)
        BY <2>1 DEF Openings
      <4>2. <<first, doc>> \in R
        BY <4>1 DEF Read
      <4>3. W[<<first, doc>>] = LikelihoodAfter(first, chain, After(chain), doc)
        BY <4>1 DEF Weigh
      <4> QED
        BY <2>6, <4>2, <4>3 DEF Those
    <3> QED
      BY <3>1
  <2>8. \A o \in T : \E first \in Classes : b[first] = o
    <3>1. ASSUME NEW o \in T PROVE \E first \in Classes : b[first] = o
      <4>1. o \in R /\ o[2] = doc
        BY <2>6 DEF Those
      <4>2. o[1] \in Classes /\ o = <<o[1], doc>>
        BY <4>1 DEF Read, Openings
      <4> QED
        BY <2>6, <4>2
    <3> QED
      BY <3>1
  <2>9. \A x, y \in Classes : b[x] = b[y] => x = y
    BY <2>6
  <2>10. Summable(W, T)
    <3>1. T \in SUBSET R
      BY <2>6 DEF Those
    <3> QED
      BY <1>2, <3>1, Smaller
  <2>11. Worth(f, Classes) = Worth(W, T)
    BY <2>3, <2>6, <2>7, <2>8, <2>9, <2>10, TotalRenamed
  <2> QED
    BY <2>3, <2>4, <2>5, <2>6, <2>11 DEF Worth
<1> HIDE DEF told
<1>5. Summable(likely, docs)
  <2>1. IsFiniteSet(docs)
    BY <1>1, DocumentsFinite, FS_Subset
  <2> QED
    BY <1>4, <2>1 DEF Summable
<1>6. Worth(likely, docs) = Worth(W, R)
  <2>1. PICK g : g = [o \in R |-> o[2]]
    OBVIOUS
  <2>2. \A o \in R : g[o] \in docs
    BY <2>1 DEF Read
  <2>3. \A doc \in docs : Value(likely[doc]) = Worth(W, Those(R, g, doc))
    BY <1>4, <2>1
  <2> QED
    BY <1>2, <1>5, <2>2, <2>3, TotalGrouped
<1>7. PICK K : K = Alphabet \X Alphabet /\ IsFiniteSet(K)
  BY ClassesAre, FS_Product
<1>8. PICK between :
        between = [ends \in K |->
                     Sum(likely, {doc \in docs : doc[1] = ends[1] /\ doc[Len(doc)] = ends[2]})]
  OBVIOUS
<1>9. Chance(chain, docs) = Sum(between, K)
  <2>1. DOMAIN between = K
    BY <1>8
  <2> QED
    BY <1>3, <1>7, <1>8, <2>1 DEF Chance, Alphabet
<1>10. PICK g : g = [doc \in docs |-> <<doc[1], doc[Len(doc)]>>]
  OBVIOUS
<1>11. ASSUME NEW y \in K
      PROVE  /\ between[y] \in Finites
             /\ Value(between[y]) = Worth(likely, Those(docs, g, y))
  <2>1. PICK T : T = Those(docs, g, y)
    OBVIOUS
  <2>2. T = {doc \in docs : doc[1] = y[1] /\ doc[Len(doc)] = y[2]} /\ T \in SUBSET docs
    <3>1. y = <<y[1], y[2]>>
      BY <1>7
    <3>2. \A doc \in docs : g[doc] = y <=> doc[1] = y[1] /\ doc[Len(doc)] = y[2]
      BY <1>10, <3>1
    <3> QED
      BY <1>10, <2>1, <3>2 DEF Those
  <2>3. between[y] = Sum(likely, T)
    BY <1>8, <2>2
  <2>4. Summable(likely, T)
    BY <1>5, <2>2, Smaller
  <2>5. Sum(likely, T) \in Finites
    BY <2>4, SumCloses
  <2> QED
    BY <2>1, <2>3, <2>5 DEF Worth
<1>12. Summable(between, K)
  BY <1>7, <1>11 DEF Summable
<1>13. Worth(between, K) = Worth(likely, docs)
  <2>1. ASSUME NEW doc \in docs PROVE g[doc] \in K
    <3>1. doc \in Documents(n)
      OBVIOUS
    <3>2. Len(doc) = n /\ n \in 1 .. n /\ \A i \in 1 .. n : doc[i] \in Alphabet
      BY <1>1, <3>1, DocumentsAre
    <3> QED
      BY <1>1, <1>7, <1>10, <3>2
  <2>2. \A doc \in docs : g[doc] \in K
    BY <2>1
  <2>3. \A y \in K : Value(between[y]) = Worth(likely, Those(docs, g, y))
    BY <1>11
  <2> QED
    BY <1>5, <1>12, <2>2, <2>3, TotalGrouped
<1>14. Sum(between, K) \in Finites
  BY <1>12, SumCloses
<1> QED
  BY <1>2, <1>6, <1>9, <1>13, <1>14 DEF Worth

\* The chance of ending at a slot is the mass there.
LEMMA EndingAtIs ==
  ASSUME NEW chain, IsChain(chain), NEW q, IsQuotient(q), NEW n \in Nat \ {0},
         NEW s \in Slots(q)
  PROVE  /\ Chance(chain, EndingAt(q, n, s)) \in Finites
         /\ Value(Chance(chain, EndingAt(q, n, s))) = Mass(q, chain, n, s)
<1>1. EndingAt(q, n, s) \in SUBSET Documents(n)
  BY DEF EndingAt
<1>2. s = <<s[1], s[2]>>
  BY DEF Slots
<1>3. ASSUME NEW o \in Openings(n)
      PROVE  o \in Read(n, EndingAt(q, n, s)) <=> o \in Those(Openings(n), Arrives(q, n), s)
  <2>1. o[2] \in Documents(n)
    BY DEF Openings
  <2>2. Arrives(q, n)[o] = <<BlockAfter(q, o[2]), ClassOf[o[2][n]]>>
    BY DEF Arrives, ClassAt
  <2> QED
    BY <1>2, <2>1, <2>2 DEF Read, Those, EndingAt
<1>4. Read(n, EndingAt(q, n, s)) = Those(Openings(n), Arrives(q, n), s)
  BY <1>3 DEF Read, Those
<1> QED
  BY <1>1, <1>4, ChanceIs DEF Mass

\* What is accepted of a length is the mass of the slots a quotient accepts in.
LEMMA AcceptedIs ==
  ASSUME NEW chain, IsChain(chain), NEW q, IsQuotient(q), NEW n \in Nat \ {0},
         NEW h, Summable(h, Slots(q)),
         \A s \in Slots(q) : Value(h[s]) = Mass(q, chain, n, s)
  PROVE  /\ Chance(chain, Accepted(q, n)) \in Finites
         /\ Value(Chance(chain, Accepted(q, n)))
              = Worth(h, {s \in Slots(q) : s[1] >= q.threshold})
<1> PICK T, R, W, E :
      /\ T = {s \in Slots(q) : s[1] >= q.threshold} /\ R = Read(n, Accepted(q, n))
      /\ W = Weigh(chain, n) /\ E = Arrives(q, n)
  OBVIOUS
<1>1. Accepted(q, n) \in SUBSET Documents(n)
  BY DEF Accepted
<1>2. /\ Summable(W, R) /\ Chance(chain, Accepted(q, n)) \in Finites
      /\ Value(Chance(chain, Accepted(q, n))) = Worth(W, R)
  BY <1>1, ChanceIs
<1>3. ASSUME NEW o \in Openings(n)
      PROVE  E[o] \in Slots(q) /\ (o \in R <=> E[o] \in T)
  <2>1. n \in Nat /\ o[2] \in Documents(n)
    BY DEF Openings
  <2>2. E[o] \in Slots(q)
    BY <2>1, OpeningsAre
  <2>3. E[o][1] = BlockAfter(q, o[2])
    BY DEF Arrives
  <2> QED
    BY <2>1, <2>2, <2>3 DEF Read, Accepted
<1>4. \A o \in R : E[o] \in T
  BY <1>3 DEF Read
<1>5. ASSUME NEW s \in T PROVE Value(h[s]) = Worth(W, Those(R, E, s))
  <2>1. Those(R, E, s) = Those(Openings(n), E, s)
    BY <1>3 DEF Read, Those
  <2> QED
    BY <2>1 DEF Mass
<1>6. Summable(h, T)
  <2>1. T \in SUBSET Slots(q)
    OBVIOUS
  <2> QED
    BY <2>1, Smaller
<1>7. Worth(h, T) = Worth(W, R)
  BY <1>2, <1>4, <1>5, <1>6, TotalGrouped
<1> QED
  BY <1>2, <1>7

-----------------------------------------------------------------------------
(* Rates: the largest and the smallest.                                    *)

\* Two ways to write a value are ordered alike.
LEMMA AlikeOrdered ==
  ASSUME NEW x \in Finites, NEW y \in Finites, Value(x) = Value(y), NEW z \in Finites
  PROVE  /\ AtMost(x, z) <=> AtMost(y, z)
         /\ AtMost(z, x) <=> AtMost(z, y)
<1>1. PICK d \in Nat \ {0}, a \in Int, b \in Int, c \in Int :
        Amounts(x, a, d) /\ Amounts(z, b, d) /\ Amounts(z, c, d)
  BY OverOne
<1>2. Amounts(y, a, d)
  <2>1. Amounts(Value(y), a, d)
    BY <1>1, ValueIs
  <2> QED
    BY <2>1, ValueIs
<1>3. (Less(x, z) <=> a < b) /\ (Less(y, z) <=> a < b)
  BY <1>1, <1>2, LessIs
<1>4. (Less(z, x) <=> b < a) /\ (Less(z, y) <=> b < a)
  BY <1>1, <1>2, LessIs
<1> QED
  BY <1>3, <1>4 DEF AtMost

\* Two numbers neither of which is above the other have one value.
LEMMA AlikeBothWays ==
  ASSUME NEW x \in Finites, NEW y \in Finites, AtMost(x, y), AtMost(y, x)
  PROVE  Value(x) = Value(y)
<1>1. Same(x, y)
  BY OfFinites DEF Same, AtMost
<1> QED
  BY <1>1, SameIs

Largest(x, S) ==
  x \in Finites /\ (\E y \in S : Value(x) = Value(y)) /\ \A y \in S : AtMost(y, x)
Smallest(x, S) ==
  x \in Finites /\ (\E y \in S : Value(x) = Value(y)) /\ \A y \in S : AtMost(x, y)

\* The larger of two is the largest of one set more.
LEMMA LargestGrows ==
  ASSUME NEW S \in SUBSET Finites, NEW x, Largest(x, S),
         NEW y \in Finites, NEW z \in Finites, Value(y) = Value(z)
  PROVE  Largest(Most(x, y), S \cup {z})
<1>1. x \in Finites /\ x \in Numbers /\ y \in Numbers /\ z \in Numbers /\ ~IsNaN(x)
  BY NumbersFrom, OfFinites DEF Largest
<1>2. AtMost(z, y) /\ AtMost(y, y)
  <2>1. AtMost(y, y)
    BY <1>1, Ordered
  <2> QED
    BY <2>1, AlikeOrdered
<1>3. CASE Less(x, y)
  <2>1. Most(x, y) = y
    BY <1>3 DEF Most
  <2>2. AtMost(x, y)
    BY <1>1, <1>3, Ordered
  <2>3. ASSUME NEW s \in S PROVE AtMost(s, y)
    <3>1. AtMost(s, x) /\ s \in Numbers
      BY NumbersFrom DEF Largest
    <3> QED
      BY <1>1, <2>2, <3>1, AtMostTransitive
  <2> QED
    BY <1>2, <2>1, <2>3 DEF Largest
<1>4. CASE ~Less(x, y)
  <2>1. Most(x, y) = x
    BY <1>1, <1>4 DEF Most
  <2>2. AtMost(y, x)
    BY <1>4 DEF AtMost
  <2>3. AtMost(z, x)
    BY <1>1, <1>2, <2>2, AtMostTransitive
  <2> QED
    BY <1>1, <2>1, <2>3 DEF Largest
<1> QED
  BY <1>3, <1>4

\* The smaller of two is the smallest of one set more.
LEMMA SmallestGrows ==
  ASSUME NEW S \in SUBSET Finites, NEW x, Smallest(x, S),
         NEW y \in Finites, NEW z \in Finites, Value(y) = Value(z)
  PROVE  Smallest(Least(x, y), S \cup {z})
<1>1. x \in Finites /\ x \in Numbers /\ y \in Numbers /\ z \in Numbers /\ ~IsNaN(x)
  BY NumbersFrom, OfFinites DEF Smallest
<1>2. AtMost(y, z) /\ AtMost(y, y)
  <2>1. AtMost(y, y)
    BY <1>1, Ordered
  <2> QED
    BY <2>1, AlikeOrdered
<1>3. CASE Less(y, x)
  <2>1. Least(x, y) = y
    BY <1>3 DEF Least
  <2>2. AtMost(y, x)
    BY <1>1, <1>3, Ordered
  <2>3. ASSUME NEW s \in S PROVE AtMost(y, s)
    <3>1. AtMost(x, s) /\ s \in Numbers
      BY NumbersFrom DEF Smallest
    <3> QED
      BY <1>1, <2>2, <3>1, AtMostTransitive
  <2> QED
    BY <1>2, <2>1, <2>3 DEF Smallest
<1>4. CASE ~Less(y, x)
  <2>1. Least(x, y) = x
    BY <1>1, <1>4 DEF Least
  <2>2. AtMost(x, y)
    BY <1>4 DEF AtMost
  <2>3. AtMost(x, z)
    BY <1>1, <1>2, <2>2, AtMostTransitive
  <2> QED
    BY <1>1, <2>1, <2>3 DEF Smallest
<1> QED
  BY <1>3, <1>4

\* A largest one has the value of `MostOf`.
LEMMA LargestIsMost ==
  ASSUME NEW S \in SUBSET Finites, IsFiniteSet(S), NEW x, Largest(x, S)
  PROVE  MostOf(S) \in Finites /\ Value(x) = Value(MostOf(S))
<1>1. PICK y \in S : Value(x) = Value(y) /\ x \in Finites
  BY DEF Largest
<1>2. y # NaN /\ y \in Finites /\ S \in SUBSET Floats
  BY OfFinites, FinitesFacts
<1>3. PICK w : w = MostOf(S)
  OBVIOUS
<1>4. w \in S /\ w \in Finites /\ \A z \in S : z # NaN => AtMost(z, w)
  BY <1>2, <1>3, MostOfFacts
<1>5. AtMost(w, x)
  BY <1>4 DEF Largest
<1>6. AtMost(x, w)
  BY <1>1, <1>2, <1>4, AlikeOrdered
<1> QED
  BY <1>1, <1>3, <1>4, <1>5, <1>6, AlikeBothWays

\* A smallest one has the value of `LeastOf`.
LEMMA SmallestIsLeast ==
  ASSUME NEW S \in SUBSET Finites, IsFiniteSet(S), NEW x, Smallest(x, S)
  PROVE  LeastOf(S) \in Finites /\ Value(x) = Value(LeastOf(S))
<1>1. PICK y \in S : Value(x) = Value(y) /\ x \in Finites
  BY DEF Smallest
<1>2. y # NaN /\ y \in Finites /\ S \in SUBSET Floats
  BY OfFinites, FinitesFacts
<1>3. PICK w : w = LeastOf(S)
  OBVIOUS
<1>4. w \in S /\ w \in Finites /\ \A z \in S : z # NaN => AtMost(w, z)
  BY <1>2, <1>3, LeastOfFacts
<1>5. AtMost(x, w)
  BY <1>4 DEF Smallest
<1>6. AtMost(w, x)
  BY <1>1, <1>2, <1>4, AlikeOrdered
<1> QED
  BY <1>1, <1>3, <1>4, <1>5, <1>6, AlikeBothWays

\* What has one value has one value divided by a number of rounds.
LEMMA DividedAlike ==
  ASSUME NEW x \in Finites, NEW y \in Finites, Value(x) = Value(y), NEW m \in Nat \ {0}
  PROVE  /\ Divided(x, F(m)) \in Finites /\ Divided(y, F(m)) \in Finites
         /\ Value(Divided(x, F(m))) = Value(Divided(y, F(m)))
<1>1. PICK a \in Int, d \in Nat \ {0} : Amounts(x, a, d)
  BY OfFinites
<1>2. Amounts(y, a, d)
  <2>1. Amounts(Value(y), a, d)
    BY <1>1, ValueIs
  <2> QED
    BY <2>1, ValueIs
<1>3. PICK w \in Finites : w = F(m) /\ Amounts(w, m, 1) /\ 1 \in Nat \ {0}
  BY Whole
<1>4. /\ Divided(x, w) \in Finites /\ a * 1 \in Int /\ d * m \in Nat \ {0}
      /\ Amounts(Divided(x, w), a * 1, d * m)
  BY <1>1, <1>3, DividedIs
<1>5. /\ Divided(y, w) \in Finites /\ a * 1 \in Int /\ d * m \in Nat \ {0}
      /\ Amounts(Divided(y, w), a * 1, d * m)
  BY <1>1, <1>2, <1>3, DividedIs
<1> QED
  BY <1>3, <1>4, <1>5, OneValue

-----------------------------------------------------------------------------
(* Rates: the average over the lengths.                                    *)

Tails(q, chain) == [n \in 1 .. Iterations |-> Chance(chain, Accepted(q, n))]

\* A number that has the value of the tails, divided by their number, is what is
\* expected.
LEMMA ExpectedIs ==
  ASSUME NEW chain, IsChain(chain), NEW q, IsQuotient(q)
  PROVE  /\ Summable(Tails(q, chain), 1 .. Iterations)
         /\ Expected(q, chain) \in Finites
         /\ \A x \in Finites :
              Value(x) = Worth(Tails(q, chain), 1 .. Iterations) =>
                /\ Divided(x, F(Iterations)) \in Finites
                /\ Value(Divided(x, F(Iterations))) = Value(Expected(q, chain))
<1>1. Iterations \in Nat \ {0} /\ IsFiniteSet(1 .. Iterations)
  BY RatesAssumption, FS_Interval
<1>2. ASSUME NEW n \in 1 .. Iterations PROVE Tails(q, chain)[n] \in Finites
  <2>1. n \in Nat \ {0}
    BY <1>1
  <2>2. Accepted(q, n) \in SUBSET Documents(n)
    BY DEF Accepted
  <2>3. Chance(chain, Accepted(q, n)) \in Finites
    BY <2>1, <2>2, ChanceIs
  <2> QED
    BY <2>3 DEF Tails
<1>3. Summable(Tails(q, chain), 1 .. Iterations)
  BY <1>1, <1>2 DEF Summable
<1>4. PICK s \in Finites : s = Sum(Tails(q, chain), 1 .. Iterations)
  BY <1>3, SumCloses
<1>5. Expected(q, chain) = Divided(s, F(Iterations))
  <2>1. DOMAIN Tails(q, chain) = 1 .. Iterations
    BY DEF Tails
  <2> QED
    BY <1>4, <2>1 DEF Expected, Tails
<1>6. Expected(q, chain) \in Finites
  BY <1>1, <1>4, <1>5, DividedAlike
<1>7. ASSUME NEW x \in Finites, Value(x) = Worth(Tails(q, chain), 1 .. Iterations)
      PROVE  /\ Divided(x, F(Iterations)) \in Finites
             /\ Value(Divided(x, F(Iterations))) = Value(Expected(q, chain))
  <2>1. Value(x) = Value(s)
    BY <1>4, <1>7 DEF Worth
  <2> QED
    BY <1>1, <1>4, <1>5, <2>1, DividedAlike
<1> QED
  BY <1>3, <1>6, <1>7

-----------------------------------------------------------------------------
(* Rates: one step of the joint chain, block by block.                     *)

\* What goes on to a slot from each, given the mass of each.
Flow(q, chain, mass, t) == [s \in Slots(q) |-> Times(Onward(q, chain, s, t), mass[s])]
SlotsOf(b) == {b} \X Classes
FromBlock(q, chain, mass, t) ==
  [b \in Blocks(q) |-> Sum(Flow(q, chain, mass, t), SlotsOf(b))]

\* What goes on to a slot, block by block, is all that goes on to it.
LEMMA FlowIs ==
  ASSUME NEW chain, IsChain(chain), NEW q, IsQuotient(q), NEW t \in Slots(q),
         NEW mass \in [Slots(q) -> Finites]
  PROVE  /\ Summable(Flow(q, chain, mass, t), Slots(q))
         /\ \A s \in Slots(q) :
              Value(Flow(q, chain, mass, t)[s]) = Mul(Onward(q, chain, s, t), mass[s])
         /\ Summable(FromBlock(q, chain, mass, t), Blocks(q))
         /\ \A b \in Blocks(q) :
              /\ Summable(Flow(q, chain, mass, t), SlotsOf(b))
              /\ Value(FromBlock(q, chain, mass, t)[b]) = Worth(Flow(q, chain, mass, t), SlotsOf(b))
         /\ Worth(FromBlock(q, chain, mass, t), Blocks(q)) = Worth(Flow(q, chain, mass, t), Slots(q))
<1> PICK f, g : f = Flow(q, chain, mass, t) /\ g = FromBlock(q, chain, mass, t)
  OBVIOUS
<1>1. ASSUME NEW s \in Slots(q)
      PROVE  f[s] \in Finites /\ Value(f[s]) = Mul(Onward(q, chain, s, t), mass[s])
  <2>1. s[2] \in Classes /\ t[2] \in Classes
    BY DEF Slots
  <2>2. Onward(q, chain, s, t) \in Finites
    BY <2>1, OnwardIs
  <2> QED
    BY <2>2, MulIs DEF Flow
<1>2. IsFiniteSet(Blocks(q)) /\ IsFiniteSet(Slots(q))
  <2>1. IsFiniteSet(Blocks(q))
    BY FS_Interval DEF IsQuotient, Blocks
  <2> QED
    BY <2>1, ClassesAre, FS_Product DEF Slots
<1>3. Summable(f, Slots(q))
  BY <1>1, <1>2 DEF Summable
<1>4. ASSUME NEW b \in Blocks(q)
      PROVE  /\ Summable(f, SlotsOf(b)) /\ g[b] \in Finites
             /\ Value(g[b]) = Worth(f, SlotsOf(b))
             /\ SlotsOf(b) = Those(Slots(q), [s \in Slots(q) |-> s[1]], b)
  <2>1. SlotsOf(b) \in SUBSET Slots(q)
    BY DEF Slots, SlotsOf
  <2>2. Summable(f, SlotsOf(b))
    BY <1>3, <2>1, Smaller
  <2>3. g[b] = Sum(f, SlotsOf(b))
    BY DEF FromBlock
  <2>4. Sum(f, SlotsOf(b)) \in Finites
    BY <2>2, SumCloses
  <2>5. SlotsOf(b) = Those(Slots(q), [s \in Slots(q) |-> s[1]], b)
    BY DEF Those, Slots, SlotsOf
  <2> QED
    BY <2>2, <2>3, <2>4, <2>5 DEF Worth
<1>5. Summable(g, Blocks(q))
  BY <1>2, <1>4 DEF Summable
<1>6. Worth(g, Blocks(q)) = Worth(f, Slots(q))
  <2>1. PICK k : k = [s \in Slots(q) |-> s[1]]
    OBVIOUS
  <2>2. \A s \in Slots(q) : k[s] \in Blocks(q)
    BY <2>1 DEF Slots
  <2>3. \A b \in Blocks(q) : Value(g[b]) = Worth(f, Those(Slots(q), k, b))
    BY <1>4, <2>1
  <2> QED
    BY <1>3, <1>5, <2>2, <2>3, TotalGrouped
<1> QED
  BY <1>1, <1>3, <1>4, <1>5, <1>6

\* What a block's mass makes of a class, row by row of the chain.
DrawnFrom(chain, mass, b, class) ==
  [from \in Classes |-> Times(mass[<<b, from>>], chain.next[from][class])]

\* A draw, times the share of its edge, is what goes on from its block.
LEMMA DrawnIs ==
  ASSUME NEW chain, IsChain(chain), NEW q, IsQuotient(q), NEW t \in Slots(q),
         NEW mass \in [Slots(q) -> Finites], NEW b \in Blocks(q),
         NEW draw \in Finites, Value(draw) = Worth(DrawnFrom(chain, mass, b, t[2]), Classes)
  PROVE  /\ Times(draw, EdgeShare(q, b, t[2], t[1])) \in Finites
         /\ Value(Times(draw, EdgeShare(q, b, t[2], t[1]))) = Value(FromBlock(q, chain, mass, t)[b])
<1>0. PICK f, d, e, over :
      /\ f = Flow(q, chain, mass, t) /\ d = DrawnFrom(chain, mass, b, t[2])
      /\ e = EdgeShare(q, b, t[2], t[1]) /\ over = [from \in Classes |-> f[<<b, from>>]]
  OBVIOUS
<1>1. t[2] \in Classes
  BY DEF Slots
<1>2. e \in Finites
  <2>1. ASSUME NEW class \in Classes PROVE e \in Finites
    <3>1. PICK s : s = <<b, class>>
      OBVIOUS
    <3>2. s[1] = b /\ s[2] \in Classes
      BY <3>1
    <3>3. EdgeShare(q, s[1], t[2], t[1]) \in Finites
      BY <1>1, <3>2, OnwardIs
    <3> QED
      BY <1>0, <3>2, <3>3
  <2> QED
    BY <1>1, <2>1
<1>3. Times(draw, e) \in Finites /\ Value(Times(draw, e)) = Mul(draw, e) /\ Mul(draw, e) = Mul(e, draw)
  BY <1>2, MulIs, MulLaws
<1>4. ASSUME NEW from \in Classes
      PROVE  /\ d[from] \in Finites /\ over[from] \in Finites
             /\ Value(over[from]) = Mul(e, d[from])
  <2>1. PICK s \in Slots(q) : s = <<b, from>>
    BY DEF Slots
  <2>0. s[1] = b /\ s[2] = from
    BY <2>1
  <2>2. PICK m \in Finites, p \in Finites : m = mass[s] /\ p = chain.next[from][t[2]]
    BY <1>1, <2>1, SharesAre DEF IsChain
  <2>3. d[from] = Times(m, p) /\ Times(m, p) \in Finites /\ Value(Times(m, p)) = Mul(m, p)
    BY <1>0, <2>1, <2>2, MulIs DEF DrawnFrom
  <2>4. f[s] \in Finites /\ Value(f[s]) = Mul(Onward(q, chain, s, t), m) /\ over[from] = f[s]
    BY <1>0, <2>1, <2>2, FlowIs DEF Summable
  <2>5. Onward(q, chain, s, t) = Mul(p, e)
    BY <1>0, <2>0, <2>2 DEF Onward
  <2>6. Mul(Mul(p, e), m) = Mul(e, Mul(m, p))
    <3>1. Mul(p, e) = Mul(e, p) /\ Mul(Mul(e, p), m) = Mul(e, Mul(p, m)) /\ Mul(p, m) = Mul(m, p)
      BY <1>2, <2>2, MulLaws
    <3> QED
      BY <3>1
  <2>7. Mul(e, Times(m, p)) = Mul(e, Value(Times(m, p)))
    BY <1>2, <2>3, MulIs
  <2>8. Mul(e, d[from]) = Mul(e, Mul(m, p))
    BY <2>3, <2>7
  <2> QED
    BY <2>3, <2>4, <2>5, <2>6, <2>8
<1>5. Summable(d, Classes) /\ Summable(over, Classes)
  BY <1>4, ClassesAre DEF Summable
<1>6. Worth(over, Classes) = Mul(e, Worth(d, Classes))
  <2>1. \A from \in Classes : Value(over[from]) = Mul(e, d[from])
    BY <1>4
  <2> QED
    BY <1>2, <1>5, <2>1, TotalScaled
<1>7. Worth(over, Classes) = Worth(f, SlotsOf(b))
  <2>1. Summable(f, SlotsOf(b))
    BY <1>0, FlowIs
  <2>2. PICK k : k = [from \in Classes |-> <<b, from>>]
    OBVIOUS
  <2>3. \A from \in Classes :
          k[from] \in SlotsOf(b) /\ Value(over[from]) = Value(f[k[from]])
    BY <1>0, <2>2 DEF SlotsOf
  <2>4. \A s \in SlotsOf(b) : \E from \in Classes : k[from] = s
    BY <2>2 DEF SlotsOf
  <2>5. \A x, y \in Classes : k[x] = k[y] => x = y
    BY <2>2
  <2> QED
    BY <1>5, <2>1, <2>3, <2>4, <2>5, TotalRenamed
<1>8. Value(FromBlock(q, chain, mass, t)[b]) = Worth(f, SlotsOf(b))
  <2>1. /\ Summable(FromBlock(q, chain, mass, t), Blocks(q))
        /\ \A c \in Blocks(q) :
              /\ Summable(Flow(q, chain, mass, t), SlotsOf(c))
              /\ Value(FromBlock(q, chain, mass, t)[c]) = Worth(Flow(q, chain, mass, t), SlotsOf(c))
        /\ Worth(FromBlock(q, chain, mass, t), Blocks(q)) = Worth(Flow(q, chain, mass, t), Slots(q))
    BY FlowIs
  <2> QED
    BY <1>0, <2>1
<1>9. Mul(e, draw) = Mul(e, Worth(d, Classes))
  <2>1. Mul(e, draw) = Mul(e, Value(draw))
    BY <1>2, MulIs
  <2> QED
    BY <1>0, <2>1
<1> QED
  BY <1>0, <1>3, <1>6, <1>7, <1>8, <1>9

\* The memoryless shortcut draws what the rows would.
LEMMA RowsAlike ==
  ASSUME NEW chain, IsChain(chain), NEW row, Marginal(chain) # {}, row = CHOOSE r \in Marginal(chain) : TRUE
  PROVE  \A from \in Classes : chain.next[from] = row
<1>0. PICK S : S = {chain.next[class] : class \in Classes}
  OBVIOUS
<1>1. Marginal(chain) = S /\ Cardinality(S) = 1
  BY <1>0 DEF Marginal
<1>2. IsFiniteSet(S)
  <2>1. PICK f : f = [class \in Classes |-> chain.next[class]]
    OBVIOUS
  <2>2. IsFiniteSet({f[class] : class \in Classes})
    <3>1. DOMAIN f = Classes /\ f = [class \in Classes |-> f[class]]
      BY <2>1
    <3> QED
      BY <3>1, ClassesAre, FiniteImage
  <2>3. S = {f[class] : class \in Classes}
    BY <1>0, <2>1
  <2> QED
    BY <2>2, <2>3
<1>3. row \in S
  BY <1>1
<1>4. IsFiniteSet(S \ {row}) /\ Cardinality(S \ {row}) = 0
  <2>1. IsFiniteSet(S \ {row}) /\ Cardinality(S \ {row}) = Cardinality(S) - 1
    BY <1>2, <1>3, FS_RemoveElement
  <2> QED
    BY <1>1, <2>1
<1>5. S \ {row} = {}
  BY <1>4, FS_EmptySet
<1> QED
  BY <1>0, <1>5

\* `DrawOf` adds up a draw.
LEMMA DrawOfIs ==
  ASSUME IsChain(Chain), IsQuotient(Q), held \in [Slots(Q) -> Finites],
         block \in Blocks(Q), NEW class \in Classes
  PROVE  /\ DrawOf(class) \in Finites
         /\ Value(DrawOf(class)) = Worth(DrawnFrom(Chain, held, block, class), Classes)
<1>0. PICK was, drawn :
      /\ was = [from \in Classes |-> held[<<block, from>>]]
      /\ drawn = DrawnFrom(Chain, held, block, class)
  OBVIOUS
<1>1. ASSUME NEW from \in Classes
      PROVE  /\ was[from] \in Finites /\ Chain.next[from][class] \in Finites
             /\ drawn[from] = Times(was[from], Chain.next[from][class])
             /\ drawn[from] \in Finites
             /\ Value(drawn[from]) = Mul(was[from], Chain.next[from][class])
  <2>1. <<block, from>> \in Slots(Q)
    BY DEF Slots
  <2>2. was[from] \in Finites /\ was[from] = held[<<block, from>>]
    BY <1>0, <2>1
  <2>3. Chain.next[from][class] \in Finites
    BY SharesAre DEF IsChain
  <2>4. drawn[from] = Times(was[from], Chain.next[from][class])
    BY <1>0, <2>2 DEF DrawnFrom
  <2> QED
    BY <2>2, <2>3, <2>4, MulIs
<1>2. Summable(was, Classes) /\ Summable(drawn, Classes)
  BY <1>1, ClassesAre DEF Summable
<1>3. CASE Marginal(Chain) = {}
  <2>1. DrawOf(class) = Sum([from \in Classes |-> Times(was[from], Chain.next[from][class])], Classes)
    BY <1>0, <1>3 DEF DrawOf
  <2>2. drawn = [from \in Classes |-> Times(was[from], Chain.next[from][class])]
    <3>1. drawn = [from \in Classes |-> drawn[from]]
      BY <1>0 DEF DrawnFrom
    <3> QED
      BY <1>1, <3>1
  <2>3. Sum(drawn, Classes) \in Finites
    BY <1>2, SumCloses
  <2> QED
    BY <1>0, <2>1, <2>2, <2>3 DEF Worth
<1>4. CASE Marginal(Chain) # {}
  <2>1. PICK row : row = CHOOSE r \in Marginal(Chain) : TRUE
    OBVIOUS
  <2>2. \A from \in Classes : Chain.next[from] = row
    BY <1>4, <2>1, RowsAlike
  <2>3. PICK x \in Finites : x = row[class]
    BY <1>1, <2>2
  <2>4. PICK sum \in Finites : sum = Sum(was, Classes)
    BY <1>2, SumCloses
  <2>5. DrawOf(class) = Times(sum, x)
    BY <1>0, <1>4, <2>1, <2>3, <2>4 DEF DrawOf
  <2>6. Times(sum, x) \in Finites /\ Value(Times(sum, x)) = Mul(sum, x) /\ Mul(sum, x) = Mul(x, sum)
    BY MulIs, MulLaws
  <2>7. \A from \in Classes : Value(drawn[from]) = Mul(x, was[from])
    <3>1. ASSUME NEW from \in Classes PROVE Value(drawn[from]) = Mul(x, was[from])
      <4>1. Value(drawn[from]) = Mul(was[from], x) /\ was[from] \in Finites
        BY <1>1, <2>2, <2>3
      <4> QED
        BY <4>1, MulLaws
    <3> QED
      BY <3>1
  <2>8. Worth(drawn, Classes) = Mul(x, Worth(was, Classes))
    BY <1>2, <2>3, <2>7, TotalScaled
  <2>9. Mul(x, sum) = Mul(x, Worth(was, Classes))
    <3>1. Mul(x, sum) = Mul(x, Value(sum))
      BY MulIs
    <3> QED
      BY <2>4, <3>1 DEF Worth
  <2> QED
    BY <1>0, <2>5, <2>6, <2>8, <2>9
<1> QED
  BY <1>3, <1>4

-----------------------------------------------------------------------------
(* Rates: what is minted over a corpus is a chain.                         *)

\* A table of what the members of every subset were counted for.
Counting(k, S, counts) ==
  k = [s \in SUBSET S |->
         IF s = {} THEN 0 ELSE LET x == CHOOSE x \in s : TRUE IN k[s \ {x}] + counts[x]]

\* There is one, and `Tally` is its entry for the whole set.
LEMMA CountsAdd ==
  ASSUME NEW S, IsFiniteSet(S), NEW counts \in [S -> Nat]
  PROVE  \E k : /\ Counting(k, S, counts) /\ \A T \in SUBSET S : k[T] \in Nat
                /\ Tally(counts) = k[S]
<1>1. PICK h : h = [p \in S \X Nat |-> p[2] + counts[p[1]]]
  OBVIOUS
<1>2. h \in [S \X Nat -> Nat]
  BY <1>1
<1>3. Tally(counts) = (CHOOSE g : Counting(g, S, counts))[S]
  <2>1. DOMAIN counts = S
    OBVIOUS
  <2>2. FoldSet(LAMBDA i, n : n + counts[i], 0, S) = (CHOOSE g : Counting(g, S, counts))[S]
    BY DEF FoldSet, MapThenFoldSet, Counting
  <2> QED
    BY <2>1, <2>2 DEF Tally
<1>4. PICK g \in [SUBSET S -> Nat] : FoldsTo(g, S, 0, h)
  BY <1>2, FoldExists
<1>6. Counting(g, S, counts)
  <2>1. ASSUME NEW s \in SUBSET S, s # {}
        PROVE  h[<<First(s), g[s \ {First(s)}]>>] = g[s \ {First(s)}] + counts[First(s)]
    <3>1. First(s) \in S /\ s \ {First(s)} \in SUBSET S
      BY <2>1 DEF First
    <3>2. g[s \ {First(s)}] \in Nat
      BY <1>4, <3>1
    <3> QED
      BY <1>1, <3>1, <3>2
  <2>2. g = [s \in SUBSET S |-> IF s = {} THEN 0 ELSE h[<<First(s), g[s \ {First(s)}]>>]]
    BY <1>4 DEF FoldsTo
  <2>3. g = [s \in SUBSET S |-> IF s = {} THEN 0 ELSE g[s \ {First(s)}] + counts[First(s)]]
    BY <2>1, <2>2
  <2> QED
    BY <2>3 DEF First, Counting
<1>7. PICK k : k = CHOOSE f : Counting(f, S, counts)
  OBVIOUS
<1>8. Counting(k, S, counts)
  BY <1>6, <1>7
<1>9. \A T \in SUBSET S : k[T] \in Nat
  <2> DEFINE Good == {T \in SUBSET S : k[T] \in Nat}
  <2>1. ASSUME NEW T \in SUBSET S, \A x \in T : T \ {x} \in Good PROVE T \in Good
    <3>1. k[T] = IF T = {} THEN 0
                 ELSE LET x == CHOOSE x \in T : TRUE IN k[T \ {x}] + counts[x]
      BY <1>8 DEF Counting
    <3>2. CASE T = {}
      BY <3>1, <3>2
    <3>3. CASE T # {}
      <4>1. PICK x : x = CHOOSE y \in T : TRUE
        OBVIOUS
      <4>2. x \in T
        BY <3>3, <4>1
      <4>3. k[T \ {x}] \in Nat /\ counts[x] \in Nat
        BY <2>1, <4>2
      <4>4. k[T] = k[T \ {x}] + counts[x]
        BY <3>1, <3>3, <4>1
      <4> QED
        BY <4>3, <4>4
    <3> QED
      BY <3>2, <3>3
  <2> HIDE DEF Good
  <2>2. ASSUME NEW T \in SUBSET S PROVE T \in Good
    <3>1. IsFiniteSet(T)
      BY FS_Subset
    <3>2. \A R \in SUBSET T : (\A x \in R : R \ {x} \in Good) => R \in Good
      BY <2>1
    <3> QED
      BY <3>1, <3>2, SubsetsInOrder
  <2> QED
    BY <2>2 DEF Good
<1> QED
  BY <1>3, <1>7, <1>8, <1>9

\* A tally of counts is a count.
LEMMA TalliesAre ==
  ASSUME NEW S, IsFiniteSet(S), NEW counts \in [S -> Nat]
  PROVE  Tally(counts) \in Nat
BY CountsAdd

\* A ratio of counts is a finite number, also over nothing.
LEMMA RatioIs == ASSUME NEW n \in Nat, NEW of \in Nat PROVE Ratio(n, of) \in Finites
<1>1. CASE of = 0
  BY <1>1, ZeroOne DEF Ratio
<1>2. CASE of # 0
  <2>1. of \in Nat \ {0} /\ n \in Int /\ n * of = n * of
    BY <1>2
  <2>2. Fraction(n, of) \in Finites
    BY <2>1, FractionIs
  <2> QED
    BY <1>2, <2>2 DEF Ratio
<1> QED
  BY <1>1, <1>2

\* The documents of a corpus are finitely many, and finite.
LEMMA CorpusIs ==
  ASSUME NEW docs \in Corpora
  PROVE  /\ IsFiniteSet(DOMAIN docs)
         /\ \A d \in DOMAIN docs :
              /\ Len(docs[d]) \in Nat /\ DOMAIN docs[d] = 1 .. Len(docs[d])
              /\ IsFiniteSet(DOMAIN docs[d]) /\ IsFiniteSet(1 .. Len(docs[d]) - 1)
              /\ \A i \in DOMAIN docs[d] : docs[d][i] \in DOMAIN ClassOf
<1>1. /\ docs \in Seq({docs[d] : d \in DOMAIN docs})
      /\ \A d \in DOMAIN docs : IsDocument(docs[d])
  BY RatesAssumption DEF Listed
<1>2. Len(docs) \in Nat /\ DOMAIN docs = 1 .. Len(docs)
  BY <1>1, LenProperties
<1>3. IsFiniteSet(DOMAIN docs)
  BY <1>2, FS_Interval
<1>4. ASSUME NEW d \in DOMAIN docs
      PROVE  /\ Len(docs[d]) \in Nat /\ DOMAIN docs[d] = 1 .. Len(docs[d])
             /\ IsFiniteSet(DOMAIN docs[d]) /\ IsFiniteSet(1 .. Len(docs[d]) - 1)
             /\ \A i \in DOMAIN docs[d] : docs[d][i] \in DOMAIN ClassOf
  <2>1. PICK doc : doc = docs[d]
    OBVIOUS
  <2>2. doc \in Seq({doc[i] : i \in DOMAIN doc}) /\ \A i \in DOMAIN doc : doc[i] \in DOMAIN ClassOf
    BY <1>1, <2>1 DEF IsDocument, Listed
  <2>3. Len(doc) \in Nat /\ DOMAIN doc = 1 .. Len(doc)
    BY <2>2, LenProperties
  <2>4. IsFiniteSet(1 .. Len(doc)) /\ IsFiniteSet(1 .. Len(doc) - 1)
    BY <2>3, FS_Interval
  <2> QED
    BY <2>1, <2>2, <2>3, <2>4
<1> QED
  BY <1>3, <1>4

\* What is counted in a corpus are counts.
LEMMA CountsAre ==
  ASSUME NEW docs \in Corpora
  PROVE  /\ \A from, to \in Classes : Follows(docs, from, to) \in Nat
         /\ \A from \in Classes : SupportOf(docs, from) \in Nat /\ Occurs(docs, from) \in Nat
         /\ Tally([d \in DOMAIN docs |-> Len(docs[d])]) \in Nat
<1>3. IsFiniteSet(DOMAIN docs)
  BY CorpusIs
<1>4. \A d \in DOMAIN docs :
        /\ Len(docs[d]) \in Nat /\ DOMAIN docs[d] = 1 .. Len(docs[d])
        /\ IsFiniteSet(DOMAIN docs[d]) /\ IsFiniteSet(1 .. Len(docs[d]) - 1)
  BY CorpusIs
<1>5. ASSUME NEW from \in Classes, NEW to \in Classes PROVE Follows(docs, from, to) \in Nat
  <2> DEFINE at(d) == {i \in 1 .. Len(docs[d]) - 1 :
                         ClassOf[docs[d][i]] = from /\ ClassOf[docs[d][i + 1]] = to}
  <2>1. ASSUME NEW d \in DOMAIN docs PROVE Cardinality(at(d)) \in Nat
    <3>1. at(d) \in SUBSET (1 .. Len(docs[d]) - 1)
      OBVIOUS
    <3> HIDE DEF at
    <3> QED
      BY <1>4, <3>1, FS_Subset, FS_CardinalityType
  <2>2. [d \in DOMAIN docs |-> Cardinality(at(d))] \in [DOMAIN docs -> Nat]
    BY <2>1
  <2>3. Tally([d \in DOMAIN docs |-> Cardinality(at(d))]) \in Nat
    <3> HIDE DEF at
    <3> QED
      BY <1>3, <2>2, TalliesAre
  <2> QED
    BY <2>3 DEF Follows
<1>6. ASSUME NEW from \in Classes PROVE SupportOf(docs, from) \in Nat
  <2>1. [to \in Classes |-> Follows(docs, from, to)] \in [Classes -> Nat]
    BY <1>5
  <2> QED
    BY <2>1, ClassesAre, TalliesAre DEF SupportOf
<1>7. ASSUME NEW class \in Classes PROVE Occurs(docs, class) \in Nat
  <2> DEFINE at(d) == {i \in DOMAIN docs[d] : ClassOf[docs[d][i]] = class}
  <2>1. ASSUME NEW d \in DOMAIN docs PROVE Cardinality(at(d)) \in Nat
    <3>1. at(d) \in SUBSET DOMAIN docs[d]
      OBVIOUS
    <3> HIDE DEF at
    <3> QED
      BY <1>4, <3>1, FS_Subset, FS_CardinalityType
  <2>2. [d \in DOMAIN docs |-> Cardinality(at(d))] \in [DOMAIN docs -> Nat]
    BY <2>1
  <2>3. Tally([d \in DOMAIN docs |-> Cardinality(at(d))]) \in Nat
    <3> HIDE DEF at
    <3> QED
      BY <1>3, <2>2, TalliesAre
  <2> QED
    BY <2>3 DEF Occurs
<1>8. Tally([d \in DOMAIN docs |-> Len(docs[d])]) \in Nat
  <2>1. [d \in DOMAIN docs |-> Len(docs[d])] \in [DOMAIN docs -> Nat]
    BY <1>4
  <2> QED
    BY <1>3, <2>1, TalliesAre
<1> QED
  BY <1>5, <1>6, <1>7, <1>8

\* The chain that is minted over a corpus is a chain.
LEMMA MintedIsChain ==
  ASSUME NEW docs \in Corpora
  PROVE  IsChain(Persistence(docs))
<1>9. ASSUME NEW from \in Classes PROVE RowMinted(docs, from) \in [Classes -> Shares]
  <2>1. \A to \in Classes : Ratio(Follows(docs, from, to), SupportOf(docs, from)) \in Finites
    BY CountsAre, RatioIs
  <2> QED
    BY <2>1, ZeroOne, SharesAre DEF RowMinted
<1>10. [class \in Classes |->
          Ratio(Occurs(docs, class), Tally([d \in DOMAIN docs |-> Len(docs[d])]))] \in [Classes -> Shares]
  <2>1. \A class \in Classes :
          Ratio(Occurs(docs, class), Tally([d \in DOMAIN docs |-> Len(docs[d])])) \in Finites
    BY CountsAre, RatioIs
  <2> QED
    BY <2>1, SharesAre
<1>11. [from \in Classes |-> RowMinted(docs, from)] \in [Classes -> [Classes -> Shares]]
  BY <1>9
<1> QED
  BY <1>10, <1>11 DEF Persistence, IsChain

-----------------------------------------------------------------------------
(* Rates: the inductive invariant.                                         *)

\* The rates of a quotient under the first of the chains.
RatingsOf(q, sweep, n) == {Zero} \cup {Expected(q, sweep[c]) : c \in 1 .. n}
WorstsOf(conjunction, sweep, n) ==
  {One} \cup {MostOf(RatingsOf(conjunction[i], sweep, Len(sweep))) : i \in 1 .. n}

Sweeping ==
  /\ stage \in {"mint", "chain", "fill", "draw", "done"}
  /\ Listed(quotients, IsQuotient) /\ Listed(chains, IsChain)
  /\ corpus \in Corpora \cup {<<>>}
  /\ qi \in 1 .. Len(quotients) + 1 /\ ci \in 1 .. Len(chains) + 1
  /\ stage = "mint" => qi = 1 /\ ci = 1
  /\ stage \in {"fill", "draw"} => qi <= Len(quotients) /\ ci <= Len(chains)
  /\ stage = "done" => qi > Len(quotients)

Folded ==
  /\ Largest(worst, RatingsOf(quotients[qi], chains, ci - 1))
  /\ Smallest(best, WorstsOf(quotients, chains, qi - 1))

Stepped ==
  stage \in {"fill", "draw"} =>
    /\ round \in 0 .. Iterations
    /\ held \in [Slots(Q) -> Finites] /\ next \in [Slots(Q) -> Finites]
    /\ \A s \in Slots(Q) : Value(held[s]) = Mass(Q, Chain, round, s)
    /\ cesaro \in Finites /\ Value(cesaro) = Worth(Tails(Q, Chain), 1 .. round)

PartlyDrawn ==
  stage = "draw" =>
    /\ round < Iterations /\ block \in 0 .. Q.blocks
    /\ \A t \in Slots(Q) : Value(next[t]) = Worth(FromBlock(Q, Chain, held, t), 0 .. block - 1)

RatesInv == Sweeping /\ Folded /\ Stepped /\ PartlyDrawn

\* The sequences a rate is asked of.
LEMMA SequencesAre ==
  ASSUME Sweeping
  PROVE  /\ Len(quotients) \in Nat /\ DOMAIN quotients = 1 .. Len(quotients)
         /\ Len(chains) \in Nat /\ DOMAIN chains = 1 .. Len(chains)
         /\ \A i \in 1 .. Len(quotients) : IsQuotient(quotients[i])
         /\ \A c \in 1 .. Len(chains) : IsChain(chains[c])
         /\ qi \in Nat \ {0} /\ ci \in Nat \ {0}
         /\ qi <= Len(quotients) => IsQuotient(Q)
         /\ ci <= Len(chains) => IsChain(Chain)
<1>1. /\ quotients \in Seq({quotients[i] : i \in DOMAIN quotients})
      /\ \A i \in DOMAIN quotients : IsQuotient(quotients[i])
      /\ chains \in Seq({chains[i] : i \in DOMAIN chains})
      /\ \A i \in DOMAIN chains : IsChain(chains[i])
  BY DEF Sweeping, Listed
<1>2. /\ Len(quotients) \in Nat /\ DOMAIN quotients = 1 .. Len(quotients)
      /\ Len(chains) \in Nat /\ DOMAIN chains = 1 .. Len(chains)
  BY <1>1, LenProperties
<1>3. qi \in 1 .. Len(quotients) + 1 /\ ci \in 1 .. Len(chains) + 1
  BY DEF Sweeping
<1>4. /\ qi \in Nat \ {0} /\ ci \in Nat \ {0}
      /\ qi <= Len(quotients) => qi \in 1 .. Len(quotients)
      /\ ci <= Len(chains) => ci \in 1 .. Len(chains)
  BY <1>2, <1>3
<1> QED
  BY <1>1, <1>2, <1>4 DEF Q, Chain

\* The rates of a quotient are finitely many finite numbers.
LEMMA RatingsAre ==
  ASSUME NEW q, IsQuotient(q), NEW n \in Nat, NEW sweep, \A c \in 1 .. n : IsChain(sweep[c])
  PROVE  RatingsOf(q, sweep, n) \in SUBSET Finites /\ IsFiniteSet(RatingsOf(q, sweep, n))
<1>1. \A c \in 1 .. n : Expected(q, sweep[c]) \in Finites
  BY ExpectedIs
<1>2. PICK f : f = [c \in 1 .. n |-> Expected(q, sweep[c])]
  OBVIOUS
<1>3. PICK S : S = {f[c] : c \in 1 .. n}
  OBVIOUS
<1>4. IsFiniteSet(S)
  <2>1. DOMAIN f = 1 .. n /\ f = [c \in 1 .. n |-> f[c]] /\ IsFiniteSet(1 .. n)
    BY <1>2, FS_Interval
  <2> QED
    BY <1>3, <2>1, FiniteImage
<1>5. RatingsOf(q, sweep, n) = {Zero} \cup S
  BY <1>2, <1>3 DEF RatingsOf
<1>6. S \in SUBSET Finites
  BY <1>1, <1>2, <1>3
<1> QED
  <2>1. S \cup {Zero} = {Zero} \cup S
    OBVIOUS
  <2>2. IsFiniteSet(S \cup {Zero})
    BY <1>4, FS_AddElement
  <2> QED
    BY <1>5, <1>6, <2>1, <2>2, ZeroOne

\* So are the worst rates of the quotients.
LEMMA WorstsAre ==
  ASSUME NEW n \in Nat, NEW conjunction, \A i \in 1 .. n : IsQuotient(conjunction[i]),
         NEW sweep, Len(sweep) \in Nat, \A c \in 1 .. Len(sweep) : IsChain(sweep[c])
  PROVE  /\ WorstsOf(conjunction, sweep, n) \in SUBSET Finites
         /\ IsFiniteSet(WorstsOf(conjunction, sweep, n))
<1> DEFINE most(i) == MostOf(RatingsOf(conjunction[i], sweep, Len(sweep)))
<1>1. ASSUME NEW i \in 1 .. n PROVE most(i) \in Finites
  <2>1. PICK S : S = RatingsOf(conjunction[i], sweep, Len(sweep))
    OBVIOUS
  <2>2. S \in SUBSET Finites /\ IsFiniteSet(S)
    BY <2>1, RatingsAre
  <2>3. Zero \in S /\ Zero # NaN /\ S \in SUBSET Floats
    BY <2>1, <2>2, ZeroOne, OfFinites, FinitesFacts DEF RatingsOf
  <2>4. MostOf(S) \in S
    BY <2>2, <2>3, MostOfFacts
  <2> QED
    BY <2>1, <2>2, <2>4
<1> HIDE DEF most
<1>2. PICK f : f = [i \in 1 .. n |-> most(i)]
  OBVIOUS
<1>3. PICK S : S = {f[i] : i \in 1 .. n}
  OBVIOUS
<1>4. IsFiniteSet(S)
  <2>1. DOMAIN f = 1 .. n /\ f = [i \in 1 .. n |-> f[i]] /\ IsFiniteSet(1 .. n)
    BY <1>2, FS_Interval
  <2> QED
    BY <1>3, <2>1, FiniteImage
<1>5. WorstsOf(conjunction, sweep, n) = {One} \cup S
  BY <1>2, <1>3 DEF WorstsOf, most
<1>6. S \in SUBSET Finites
  BY <1>1, <1>2, <1>3
<1> QED
  <2>1. S \cup {One} = {One} \cup S
    OBVIOUS
  <2>2. IsFiniteSet(S \cup {One})
    BY <1>4, FS_AddElement
  <2> QED
    BY <1>5, <1>6, <2>1, <2>2, ZeroOne

\* Of one, and of nothing yet.
LEMMA OfNothing ==
  ASSUME NEW q, NEW sweep, NEW conjunction
  PROVE  /\ RatingsOf(q, sweep, 0) = {Zero} /\ Largest(Zero, RatingsOf(q, sweep, 0))
         /\ WorstsOf(conjunction, sweep, 0) = {One} /\ Smallest(One, WorstsOf(conjunction, sweep, 0))
<1>1. RatingsOf(q, sweep, 0) = {Zero} /\ WorstsOf(conjunction, sweep, 0) = {One}
  BY DEF RatingsOf, WorstsOf
<1>2. AtMost(Zero, Zero) /\ AtMost(One, One) /\ Zero \in Finites /\ One \in Finites
  BY ZeroOne, Ordered
<1> QED
  BY <1>1, <1>2 DEF Largest, Smallest

\* The invariant holds at the start.
LEMMA SweepStarts == RatesInit => RatesInv
<1> SUFFICES ASSUME RatesInit PROVE RatesInv
  OBVIOUS
<1>1. /\ quotients \in Conjunctions /\ chains \in Sweeps /\ corpus \in Corpora \cup {<<>>}
      /\ stage = "mint" /\ qi = 1 /\ ci = 1 /\ worst = Zero /\ best = One
  BY DEF RatesInit
<1>2. Listed(quotients, IsQuotient) /\ Listed(chains, IsChain)
  BY <1>1, RatesAssumption
<1>3. Len(quotients) \in Nat /\ Len(chains) \in Nat
  BY <1>2, LenProperties DEF Listed
<1>4. Sweeping
  <2>1. 1 \in 1 .. Len(quotients) + 1 /\ 1 \in 1 .. Len(chains) + 1
    BY <1>3
  <2> QED
    BY <1>1, <1>2, <2>1 DEF Sweeping
<1>5. Folded
  <2>1. qi - 1 = 0 /\ ci - 1 = 0
    BY <1>1
  <2> QED
    BY <1>1, <2>1, OfNothing DEF Folded
<1>6. Stepped /\ PartlyDrawn
  BY <1>1 DEF Stepped, PartlyDrawn
<1> QED
  BY <1>4, <1>5, <1>6 DEF RatesInv

\* Minting, or taking a sweep as given, keeps it.
LEMMA MintKeeps == ASSUME RatesInv, Mint PROVE RatesInv'
<1>1. /\ stage = "mint" /\ stage' = "chain"
      /\ chains' = IF corpus = <<>> THEN chains ELSE Append(chains, Persistence(corpus))
      /\ quotients' = quotients /\ corpus' = corpus /\ qi' = qi /\ ci' = ci
      /\ worst' = worst /\ best' = best
  BY DEF Mint
<1>2. Sweeping /\ Folded /\ qi = 1 /\ ci = 1
  BY <1>1 DEF RatesInv, Sweeping
<1>3. Listed(chains', IsChain)
  <2>1. CASE corpus = <<>>
    BY <1>1, <1>2, <2>1 DEF Sweeping
  <2>2. CASE corpus # <<>>
    <3>1. PICK P, s : P = Persistence(corpus) /\ s = chains
      OBVIOUS
    <3>2. IsChain(P)
      BY <1>2, <2>2, <3>1, MintedIsChain DEF Sweeping
    <3>3. PICK T : T = {s[i] : i \in DOMAIN s} \cup {P}
      OBVIOUS
    <3>4. s \in Seq({s[i] : i \in DOMAIN s}) /\ \A i \in DOMAIN s : IsChain(s[i])
      BY <1>2, <3>1 DEF Sweeping, Listed
    <3>5. Len(s) \in Nat /\ DOMAIN s = 1 .. Len(s) /\ \A i \in 1 .. Len(s) : s[i] \in T
      BY <3>3, <3>4, LenProperties
    <3>6. s \in Seq(T)
      <4>1. s = [i \in 1 .. Len(s) |-> s[i]]
        BY <3>4, LenProperties
      <4> QED
        BY <3>5, <4>1, SeqDef
    <3>7. P \in T
      BY <3>3
    <3>8. PICK z : z = Append(s, P)
      OBVIOUS
    <3>9. /\ z \in Seq(T) /\ Len(z) = Len(s) + 1
          /\ \A i \in 1 .. Len(s) : z[i] = s[i]
          /\ z[Len(s) + 1] = P
      BY <3>6, <3>7, <3>8, AppendProperties
    <3>10. DOMAIN z = 1 .. Len(s) + 1 /\ z = [i \in DOMAIN z |-> z[i]]
      BY <3>9, LenProperties
    <3>11. ASSUME NEW i \in DOMAIN z PROVE IsChain(z[i])
      <4>1. i \in 1 .. Len(s) \/ i = Len(s) + 1
        BY <3>5, <3>10
      <4> QED
        BY <3>2, <3>4, <3>5, <3>9, <4>1
    <3>12. z \in Seq({z[i] : i \in DOMAIN z})
      <4>1. Len(s) + 1 \in Nat
        BY <3>5
      <4>2. z \in [1 .. Len(s) + 1 -> {z[i] : i \in DOMAIN z}]
        BY <3>10
      <4> QED
        BY <4>1, <4>2, SeqDef
    <3>13. chains' = z
      BY <1>1, <2>2, <3>1, <3>8
    <3> QED
      BY <3>11, <3>12, <3>13 DEF Listed
  <2> QED
    BY <2>1, <2>2
<1>4. Len(quotients) \in Nat /\ Len(chains') \in Nat
  <2>1. Len(quotients) \in Nat
    BY <1>2, SequencesAre
  <2> QED
    BY <1>3, <2>1, LenProperties DEF Listed
<1>5. Sweeping'
  <2>1. qi' \in 1 .. Len(quotients') + 1 /\ ci' \in 1 .. Len(chains') + 1
    BY <1>1, <1>2, <1>4
  <2> QED
    BY <1>1, <1>2, <1>3, <2>1 DEF Sweeping
<1>6. Folded'
  <2>1. qi - 1 = 0 /\ ci - 1 = 0
    BY <1>2
  <2>2. worst = worst' /\ Largest(worst, {Zero}) /\ Smallest(best, {One})
    BY <1>1, <1>2, <2>1, OfNothing DEF Folded
  <2>3. /\ RatingsOf(quotients'[qi'], chains', ci' - 1) = {Zero}
        /\ WorstsOf(quotients', chains', qi' - 1) = {One}
    BY <1>1, <2>1, OfNothing
  <2> QED
    BY <1>1, <2>2, <2>3 DEF Folded
<1>7. Stepped' /\ PartlyDrawn'
  BY <1>1 DEF Stepped, PartlyDrawn
<1> QED
  BY <1>5, <1>6, <1>7 DEF RatesInv

\* What every later step leaves alone.
SameQuestion == quotients' = quotients /\ chains' = chains /\ corpus' = corpus
SameRating ==
  SameQuestion /\ qi' = qi /\ ci' = ci /\ worst' = worst /\ best' = best

\* Where the sweep is stays in range when the place alone moves on.
LEMMA StillSweeping ==
  ASSUME Sweeping, SameRating, stage' \in {"chain", "fill", "draw", "done"},
         stage' \in {"fill", "draw"} => qi <= Len(quotients) /\ ci <= Len(chains),
         stage' = "done" => qi > Len(quotients)
  PROVE  Sweeping'
BY DEF Sweeping, SameRating, SameQuestion

\* What is folded so far stays folded while the same quotient is rated.
LEMMA StillFolded == ASSUME Folded, SameRating PROVE Folded' /\ Q' = Q /\ Chain' = Chain
BY DEF Folded, SameRating, SameQuestion, Q, Chain

\* The seed is the mass before a byte is read.
LEMMA SeedKeeps == ASSUME RatesInv, Seed PROVE RatesInv'
<1>1. /\ stage = "chain" /\ qi <= Len(quotients) /\ ci <= Len(chains)
      /\ stage' = "fill" /\ round' = 0 /\ cesaro' = Zero
      /\ held' = [s \in Slots(Q) |-> IF s[1] = Q.start THEN Chain.start[s[2]] ELSE Zero]
      /\ next' = [s \in Slots(Q) |-> Zero]
      /\ SameRating
  BY DEF Seed, args, SameRating, SameQuestion
<1>2. Sweeping /\ Folded
  BY DEF RatesInv
<1>3. IsQuotient(Q) /\ IsChain(Chain)
  BY <1>1, <1>2, SequencesAre
<1>4. Sweeping'
  BY <1>1, <1>2, StillSweeping
<1>5. Folded' /\ Q' = Q /\ Chain' = Chain
  BY <1>1, <1>2, StillFolded
<1>6. ASSUME NEW s \in Slots(Q)
      PROVE  /\ held'[s] \in Finites /\ Value(held'[s]) = Mass(Q, Chain, 0, s)
             /\ next'[s] \in Finites
  <2>1. s[2] \in Classes
    BY DEF Slots
  <2>2. Chain.start[s[2]] \in Finites
    BY <1>3, <2>1, SharesAre DEF IsChain
  <2>3. held'[s] = IF s[1] = Q.start THEN Chain.start[s[2]] ELSE Zero
    BY <1>1
  <2>4. /\ s[1] = Q.start => Mass(Q, Chain, 0, s) = Value(Chain.start[s[2]])
        /\ s[1] # Q.start => Mass(Q, Chain, 0, s) = Value(Zero)
    BY <1>3, MassStart
  <2> QED
    BY <1>1, <2>2, <2>3, <2>4, ZeroOne
<1>7. held' \in [Slots(Q) -> Finites] /\ next' \in [Slots(Q) -> Finites]
  <2>1. held' = [s \in Slots(Q) |-> held'[s]] /\ next' = [s \in Slots(Q) |-> next'[s]]
    BY <1>1
  <2> QED
    BY <1>6, <2>1
<1>8. cesaro' \in Finites /\ Value(cesaro') = Worth(Tails(Q, Chain), 1 .. 0)
  <2>1. 1 .. 0 = {}
    OBVIOUS
  <2> QED
    BY <1>1, <2>1, SumOfNone, ZeroOne
<1>9. Stepped'
  <2>1. round' \in 0 .. Iterations
    BY <1>1, RatesAssumption
  <2> QED
    BY <1>1, <1>5, <1>6, <1>7, <1>8, <2>1 DEF Stepped
<1>10. PartlyDrawn'
  BY <1>1 DEF PartlyDrawn
<1> QED
  BY <1>4, <1>5, <1>9, <1>10 DEF RatesInv

\* Emptying the table keeps the invariant.
LEMMA FillKeeps == ASSUME RatesInv, Fill PROVE RatesInv'
<1>1. /\ stage = "fill" /\ round < Iterations /\ stage' = "draw" /\ block' = 0
      /\ next' = [s \in DOMAIN next |-> Zero]
      /\ round' = round /\ held' = held /\ cesaro' = cesaro
      /\ SameRating
  BY DEF Fill, args, SameRating, SameQuestion
<1>2. Sweeping /\ Folded /\ Stepped /\ qi <= Len(quotients) /\ ci <= Len(chains)
  BY <1>1 DEF RatesInv, Sweeping
<1>3. IsQuotient(Q) /\ IsChain(Chain)
  BY <1>2, SequencesAre
<1>4. Sweeping'
  BY <1>1, <1>2, StillSweeping
<1>5. Folded' /\ Q' = Q /\ Chain' = Chain
  BY <1>1, <1>2, StillFolded
<1>6. /\ round \in 0 .. Iterations
      /\ held \in [Slots(Q) -> Finites] /\ next \in [Slots(Q) -> Finites]
      /\ \A s \in Slots(Q) : Value(held[s]) = Mass(Q, Chain, round, s)
      /\ cesaro \in Finites /\ Value(cesaro) = Worth(Tails(Q, Chain), 1 .. round)
  BY <1>1, <1>2 DEF Stepped
<1>7. next' = [s \in Slots(Q) |-> Zero] /\ next' \in [Slots(Q) -> Finites]
  BY <1>1, <1>6, ZeroOne
<1>8. Stepped'
  BY <1>1, <1>5, <1>6, <1>7 DEF Stepped
<1>9. PartlyDrawn'
  <2>1. block' \in 0 .. Q.blocks
    BY <1>1, <1>3 DEF IsQuotient
  <2>2. 0 .. block' - 1 = {}
    BY <1>1
  <2>3. ASSUME NEW t \in Slots(Q)
        PROVE  Value(next'[t]) = Worth(FromBlock(Q, Chain, held', t), 0 .. block' - 1)
    BY <1>7, <2>2, SumOfNone
  <2> QED
    BY <1>1, <1>5, <2>1, <2>3 DEF PartlyDrawn
<1> QED
  BY <1>4, <1>5, <1>8, <1>9 DEF RatesInv

\* One block drawn is one block more of each slot.
LEMMA DrawKeeps == ASSUME RatesInv, Draw PROVE RatesInv'
<1>1. /\ stage = "draw" /\ block < Q.blocks /\ stage' = stage /\ block' = block + 1
      /\ round' = round /\ held' = held /\ cesaro' = cesaro
      /\ SameRating
  BY DEF Draw, args, SameRating, SameQuestion
<1>2. /\ Sweeping /\ Folded /\ Stepped /\ PartlyDrawn
      /\ qi <= Len(quotients) /\ ci <= Len(chains)
  BY <1>1 DEF RatesInv, Sweeping
<1>3. IsQuotient(Q) /\ IsChain(Chain)
  BY <1>2, SequencesAre
<1>4. Sweeping'
  BY <1>1, <1>2, StillSweeping
<1>5. Folded' /\ Q' = Q /\ Chain' = Chain
  BY <1>1, <1>2, StillFolded
<1>6. /\ round \in 0 .. Iterations
      /\ held \in [Slots(Q) -> Finites] /\ next \in [Slots(Q) -> Finites]
      /\ \A s \in Slots(Q) : Value(held[s]) = Mass(Q, Chain, round, s)
      /\ cesaro \in Finites /\ Value(cesaro) = Worth(Tails(Q, Chain), 1 .. round)
  BY <1>1, <1>2 DEF Stepped
<1>7. /\ round < Iterations /\ block \in 0 .. Q.blocks
      /\ \A t \in Slots(Q) : Value(next[t]) = Worth(FromBlock(Q, Chain, held, t), 0 .. block - 1)
  BY <1>1, <1>2 DEF PartlyDrawn
<1>8. /\ block \in Nat /\ block \in Blocks(Q) /\ block + 1 \in 0 .. Q.blocks
      /\ 0 .. block \in SUBSET Blocks(Q)
      /\ block \in 0 .. block /\ (0 .. block) \ {block} = 0 .. block - 1 /\ block + 1 - 1 = block
  BY <1>1, <1>3, <1>7 DEF Blocks, IsQuotient
<1>9. ASSUME NEW t \in Slots(Q)
      PROVE  /\ next'[t] \in Finites
             /\ Value(next'[t]) = Worth(FromBlock(Q, Chain, held, t), 0 .. block)
  <2>1. PICK e, d : e = EdgeShare(Q, block, t[2], t[1]) /\ d = DrawOf(t[2])
    OBVIOUS
  <2>2. t[2] \in Classes
    BY DEF Slots
  <2>3. next'[t] = Plus(next[t], Times(d, e))
    BY <1>6, <2>1, <2>2 DEF Draw
  <2>4. d \in Finites /\ Value(d) = Worth(DrawnFrom(Chain, held, block, t[2]), Classes)
    BY <1>3, <1>6, <1>8, <2>1, <2>2, DrawOfIs
  <2>5. PICK f : f = FromBlock(Q, Chain, held, t)
    OBVIOUS
  <2>6. Times(d, e) \in Finites /\ Value(Times(d, e)) = Value(f[block])
    BY <1>3, <1>6, <1>8, <2>1, <2>4, <2>5, DrawnIs
  <2>7. Summable(f, Blocks(Q))
    BY <1>3, <1>6, <2>5, FlowIs
  <2>8. /\ f[block] \in Finites /\ Worth(f, 0 .. block) = Add(Worth(f, 0 .. block - 1), f[block])
        /\ Worth(f, 0 .. block - 1) \in Finites
    <3>1. PICK S, R : S = 0 .. block /\ R = S \ {block}
      OBVIOUS
    <3>2. S \in SUBSET Blocks(Q) /\ block \in S /\ R = 0 .. block - 1
      BY <1>8, <3>1
    <3>3. f[block] \in Finites /\ Worth(f, S) = Add(Worth(f, S \ {block}), f[block])
          /\ Worth(f, S \ {block}) \in Finites
      BY <2>7, <3>2, TermsAre
    <3> QED
      BY <3>1, <3>2, <3>3
  <2>9. next[t] \in Finites /\ Value(next[t]) = Worth(f, 0 .. block - 1)
    BY <1>6, <1>7, <2>5
  <2>10. /\ Plus(next[t], Times(d, e)) \in Finites
         /\ Value(Plus(next[t], Times(d, e))) = Add(next[t], Times(d, e))
         /\ Add(next[t], Times(d, e)) = Add(Value(next[t]), Times(d, e))
    BY <2>6, <2>9, AddIs
  <2>11. /\ Add(Value(next[t]), Times(d, e)) = Add(Value(next[t]), Value(Times(d, e)))
         /\ Add(Value(next[t]), f[block]) = Add(Value(next[t]), Value(f[block]))
    <3>1. Value(next[t]) \in Finites
      BY <2>9, ValueFacts
    <3> QED
      BY <2>6, <2>8, <3>1, AddIs
  <2> QED
    BY <2>3, <2>5, <2>6, <2>8, <2>9, <2>10, <2>11
<1>10. next' \in [Slots(Q) -> Finites]
  <2>1. DOMAIN next = Slots(Q)
    BY <1>6
  <2>2. next' = [s \in Slots(Q) |-> next'[s]]
    BY <2>1 DEF Draw
  <2> QED
    BY <1>9, <2>2
<1>11. Stepped'
  BY <1>1, <1>5, <1>6, <1>10 DEF Stepped
<1>12. PartlyDrawn'
  BY <1>1, <1>5, <1>7, <1>8, <1>9 DEF PartlyDrawn
<1> QED
  BY <1>4, <1>5, <1>11, <1>12 DEF RatesInv

\* With every block drawn the table is the mass one byte on, and its tail one term more.
LEMMA SwapKeeps == ASSUME RatesInv, Swap PROVE RatesInv'
<1> PICK T : T = {s \in Slots(Q) : s[1] >= Q.threshold}
  OBVIOUS
<1>1. /\ stage = "draw" /\ block = Q.blocks /\ stage' = "fill"
      /\ held' = next /\ next' = held /\ round' = round + 1
      /\ cesaro' = Plus(cesaro, Sum(next, T))
      /\ SameRating
  BY DEF Swap, args, SameRating, SameQuestion
<1>2. /\ Sweeping /\ Folded /\ Stepped /\ PartlyDrawn
      /\ qi <= Len(quotients) /\ ci <= Len(chains)
  BY <1>1 DEF RatesInv, Sweeping
<1>3. IsQuotient(Q) /\ IsChain(Chain)
  BY <1>2, SequencesAre
<1>4. Sweeping'
  BY <1>1, <1>2, StillSweeping
<1>5. Folded' /\ Q' = Q /\ Chain' = Chain
  BY <1>1, <1>2, StillFolded
<1>6. /\ round \in 0 .. Iterations
      /\ held \in [Slots(Q) -> Finites] /\ next \in [Slots(Q) -> Finites]
      /\ \A s \in Slots(Q) : Value(held[s]) = Mass(Q, Chain, round, s)
      /\ cesaro \in Finites /\ Value(cesaro) = Worth(Tails(Q, Chain), 1 .. round)
  BY <1>1, <1>2 DEF Stepped
<1>7. /\ round < Iterations
      /\ \A t \in Slots(Q) : Value(next[t]) = Worth(FromBlock(Q, Chain, held, t), 0 .. block - 1)
  BY <1>1, <1>2 DEF PartlyDrawn
<1>8. PICK n \in Nat : /\ n = round /\ n + 1 \in 1 .. Iterations /\ n + 1 \in 0 .. Iterations
                       /\ n + 1 \in Nat \ {0} /\ (1 .. n + 1) \ {n + 1} = 1 .. n
                       /\ 1 .. n + 1 \in SUBSET (1 .. Iterations) /\ n + 1 \in 1 .. n + 1
  BY <1>6, <1>7, RatesAssumption
<1>9. ASSUME NEW t \in Slots(Q) PROVE Value(next[t]) = Mass(Q, Chain, n + 1, t)
  <2>1. PICK f, g : f = Flow(Q, Chain, held, t) /\ g = FromBlock(Q, Chain, held, t)
    OBVIOUS
  <2>2. /\ Summable(f, Slots(Q))
        /\ \A s \in Slots(Q) : Value(f[s]) = Mul(Onward(Q, Chain, s, t), held[s])
        /\ Worth(g, Blocks(Q)) = Worth(f, Slots(Q))
    BY <1>3, <1>6, <2>1, FlowIs
  <2>3. Value(next[t]) = Worth(g, Blocks(Q))
    BY <1>1, <1>7, <2>1 DEF Blocks
  <2>4. ASSUME NEW s \in Slots(Q)
        PROVE  Value(f[s]) = Mul(Onward(Q, Chain, s, t), Mass(Q, Chain, n, s))
    <3>1. s[2] \in Classes /\ t[2] \in Classes
      BY DEF Slots
    <3>2. Onward(Q, Chain, s, t) \in Finites /\ held[s] \in Finites
      BY <1>3, <1>6, <3>1, OnwardIs
    <3>3. Mul(Onward(Q, Chain, s, t), held[s]) = Mul(Onward(Q, Chain, s, t), Value(held[s]))
      BY <3>2, MulIs
    <3> QED
      BY <1>6, <1>8, <2>2, <3>3
  <2>5. Worth(f, Slots(Q)) = Mass(Q, Chain, n + 1, t)
    BY <1>3, <2>2, <2>4, MassStep
  <2> QED
    BY <2>2, <2>3, <2>5
<1>10. Summable(next, Slots(Q)) /\ T \in SUBSET Slots(Q)
  <2>1. IsFiniteSet(Slots(Q))
    <3>1. IsFiniteSet(Blocks(Q))
      <4>1. Q.blocks - 1 \in Int /\ 0 \in Int
        BY <1>3 DEF IsQuotient
      <4> QED
        BY <4>1, FS_Interval DEF Blocks
    <3> QED
      BY <3>1, ClassesAre, FS_Product DEF Slots
  <2> QED
    BY <1>6, <2>1 DEF Summable
<1>11. cesaro' \in Finites /\ Value(cesaro') = Worth(Tails(Q, Chain), 1 .. n + 1)
  <2>1. /\ Chance(Chain, Accepted(Q, n + 1)) \in Finites
        /\ Value(Chance(Chain, Accepted(Q, n + 1))) = Worth(next, T)
    BY <1>3, <1>8, <1>9, <1>10, AcceptedIs
  <2>2. PICK f : f = Tails(Q, Chain)
    OBVIOUS
  <2>3. f[n + 1] = Chance(Chain, Accepted(Q, n + 1))
    BY <1>8, <2>2 DEF Tails
  <2>4. Summable(f, 1 .. Iterations)
    BY <1>3, <2>2, ExpectedIs
  <2>5. /\ f[n + 1] \in Finites
        /\ Worth(f, 1 .. n + 1) = Add(Worth(f, 1 .. n), f[n + 1])
        /\ Worth(f, 1 .. n) \in Finites
    <3>1. PICK m, S, D : m = n + 1 /\ S = 1 .. m /\ D = 1 .. Iterations
      OBVIOUS
    <3>2. S \in SUBSET D /\ m \in S /\ Summable(f, D)
      BY <1>8, <2>4, <3>1
    <3>3. f[m] \in Finites /\ Worth(f, S) = Add(Worth(f, S \ {m}), f[m])
          /\ Worth(f, S \ {m}) \in Finites
      BY <3>2, TermsAre
    <3>4. S \ {m} = 1 .. n
      BY <1>8, <3>1
    <3> QED
      BY <3>1, <3>3, <3>4
  <2>6. PICK s \in Finites : s = Sum(next, T)
    <3>1. Summable(next, T)
      BY <1>10, Smaller
    <3> QED
      BY <3>1, SumCloses
  <2>7. Value(s) = Value(f[n + 1]) /\ Value(cesaro) = Worth(f, 1 .. n)
    BY <1>6, <1>8, <2>1, <2>2, <2>3, <2>6 DEF Worth
  <2>8. /\ Plus(cesaro, s) \in Finites /\ Value(Plus(cesaro, s)) = Add(cesaro, s)
        /\ Add(cesaro, s) = Add(Value(cesaro), s)
    BY <1>6, <2>6, AddIs
  <2>9. /\ Add(Value(cesaro), s) = Add(Value(cesaro), Value(s))
        /\ Add(Value(cesaro), f[n + 1]) = Add(Value(cesaro), Value(f[n + 1]))
    <3>1. Value(cesaro) \in Finites
      BY <1>6, ValueFacts
    <3> QED
      BY <2>5, <2>6, <3>1, AddIs
  <2> QED
    BY <1>1, <2>2, <2>5, <2>6, <2>7, <2>8, <2>9
<1>12. Stepped'
  BY <1>1, <1>5, <1>6, <1>8, <1>9, <1>11 DEF Stepped
<1>13. PartlyDrawn'
  BY <1>1 DEF PartlyDrawn
<1> QED
  BY <1>4, <1>5, <1>12, <1>13 DEF RatesInv

\* A chain that is done is one rate more.
LEMMA EndChainKeeps == ASSUME RatesInv, EndChain PROVE RatesInv'
<1>1. /\ stage = "fill" /\ round = Iterations /\ stage' = "chain" /\ ci' = ci + 1
      /\ worst' = Most(worst, Divided(cesaro, F(Iterations)))
      /\ SameQuestion /\ qi' = qi /\ best' = best
  BY DEF EndChain, args, SameQuestion
<1>2. Sweeping /\ Folded /\ Stepped /\ qi <= Len(quotients) /\ ci <= Len(chains)
  BY <1>1 DEF RatesInv, Sweeping
<1>3. /\ IsQuotient(Q) /\ IsChain(Chain) /\ ci \in Nat \ {0} /\ Len(chains) \in Nat
      /\ \A c \in 1 .. Len(chains) : IsChain(chains[c])
  BY <1>2, SequencesAre
<1>4. cesaro \in Finites /\ Value(cesaro) = Worth(Tails(Q, Chain), 1 .. Iterations)
  BY <1>1, <1>2 DEF Stepped
<1>5. Sweeping'
  <2>1. ci' \in 1 .. Len(chains) + 1
    BY <1>1, <1>2, <1>3
  <2> QED
    BY <1>1, <1>2, <2>1 DEF Sweeping, SameQuestion
<1>6. Folded'
  <2>1. PICK rate \in Finites, expected \in Finites :
          /\ rate = Divided(cesaro, F(Iterations)) /\ expected = Expected(Q, Chain)
          /\ Value(rate) = Value(expected)
    BY <1>3, <1>4, ExpectedIs
  <2>2. PICK S : S = RatingsOf(Q, chains, ci - 1)
    OBVIOUS
  <2>3. ci - 1 \in Nat /\ 1 .. ci - 1 \in SUBSET (1 .. Len(chains)) /\ 1 .. ci = (1 .. ci - 1) \cup {ci}
    BY <1>2, <1>3
  <2>4. S \in SUBSET Finites
    BY <1>3, <2>2, <2>3, RatingsAre
  <2>5. Largest(worst, S)
    BY <1>2, <2>2 DEF Folded, Q
  <2>6. Largest(worst', S \cup {expected})
    <3>1. Largest(Most(worst, rate), S \cup {expected})
      BY <2>1, <2>4, <2>5, LargestGrows
    <3> QED
      BY <1>1, <2>1, <3>1
  <2>7. S \cup {expected} = RatingsOf(Q, chains, ci)
    BY <2>1, <2>2, <2>3 DEF RatingsOf, Chain
  <2>8. quotients'[qi'] = Q /\ ci' - 1 = ci /\ chains' = chains /\ quotients' = quotients
    BY <1>1, <1>3 DEF Q, SameQuestion
  <2>9. Largest(worst', RatingsOf(quotients'[qi'], chains', ci' - 1))
    BY <2>6, <2>7, <2>8
  <2>10. Smallest(best', WorstsOf(quotients', chains', qi' - 1))
    BY <1>1, <1>2, <2>8 DEF Folded
  <2> QED
    BY <2>9, <2>10 DEF Folded
<1>7. Stepped' /\ PartlyDrawn'
  BY <1>1 DEF Stepped, PartlyDrawn
<1> QED
  BY <1>5, <1>6, <1>7 DEF RatesInv

\* A quotient that is done is one worst rate more.
LEMMA EndQuotientKeeps == ASSUME RatesInv, EndQuotient PROVE RatesInv'
<1>1. /\ stage = "chain" /\ qi <= Len(quotients) /\ ci > Len(chains) /\ stage' = stage
      /\ ci' = 1 /\ qi' = qi + 1 /\ worst' = Zero /\ best' = Least(best, worst)
      /\ SameQuestion
  BY DEF EndQuotient, args, SameQuestion
<1>2. Sweeping /\ Folded
  BY DEF RatesInv
<1>3. /\ IsQuotient(Q) /\ qi \in Nat \ {0} /\ ci \in Nat \ {0}
      /\ Len(chains) \in Nat /\ Len(quotients) \in Nat
      /\ \A c \in 1 .. Len(chains) : IsChain(chains[c])
      /\ \A i \in 1 .. Len(quotients) : IsQuotient(quotients[i])
  BY <1>1, <1>2, SequencesAre
<1>4. ci - 1 = Len(chains)
  <2>1. ci \in 1 .. Len(chains) + 1
    BY <1>2 DEF Sweeping
  <2> QED
    BY <1>1, <1>3, <2>1
<1>5. Sweeping'
  <2>1. ci' \in 1 .. Len(chains) + 1 /\ qi' \in 1 .. Len(quotients) + 1
    BY <1>1, <1>3
  <2> QED
    BY <1>1, <1>2, <2>1 DEF Sweeping, SameQuestion
<1>6. Folded'
  <2>1. PICK S, W : S = RatingsOf(Q, chains, Len(chains)) /\ W = WorstsOf(quotients, chains, qi - 1)
    OBVIOUS
  <2>2. S \in SUBSET Finites /\ IsFiniteSet(S)
    BY <1>3, <2>1, RatingsAre
  <2>3. Largest(worst, S) /\ Smallest(best, W)
    BY <1>2, <1>4, <2>1 DEF Folded, Q
  <2>4. PICK most \in Finites : most = MostOf(S) /\ Value(worst) = Value(most) /\ worst \in Finites
    BY <2>2, <2>3, LargestIsMost DEF Largest
  <2>5. qi - 1 \in Nat /\ 1 .. qi - 1 \in SUBSET (1 .. Len(quotients)) /\ 1 .. qi = (1 .. qi - 1) \cup {qi}
    BY <1>1, <1>3
  <2>6. W \in SUBSET Finites
    BY <1>3, <2>1, <2>5, WorstsAre
  <2>7. Smallest(Least(best, worst), W \cup {most})
    BY <2>3, <2>4, <2>6, SmallestGrows
  <2>8. W \cup {most} = WorstsOf(quotients, chains, qi)
    BY <2>1, <2>4, <2>5 DEF WorstsOf, Q
  <2>9. qi' - 1 = qi /\ ci' - 1 = 0 /\ chains' = chains /\ quotients' = quotients
    BY <1>1, <1>3 DEF SameQuestion
  <2>10. Largest(worst', RatingsOf(quotients'[qi'], chains', ci' - 1))
    BY <1>1, <2>9, OfNothing
  <2>11. Smallest(best', WorstsOf(quotients', chains', qi' - 1))
    BY <1>1, <2>7, <2>8, <2>9
  <2> QED
    BY <2>10, <2>11 DEF Folded
<1>7. Stepped' /\ PartlyDrawn'
  BY <1>1 DEF Stepped, PartlyDrawn
<1> QED
  BY <1>5, <1>6, <1>7 DEF RatesInv

\* Returning changes no book.
LEMMA ReturnKeeps == ASSUME RatesInv, Return PROVE RatesInv'
<1>1. /\ stage = "chain" /\ qi > Len(quotients) /\ stage' = "done" /\ SameRating
  BY DEF Return, args, SameRating, SameQuestion
<1>2. Sweeping /\ Folded
  BY DEF RatesInv
<1>3. Sweeping'
  BY <1>1, <1>2, StillSweeping
<1>4. Folded'
  BY <1>1, <1>2, StillFolded
<1>5. Stepped' /\ PartlyDrawn'
  BY <1>1 DEF Stepped, PartlyDrawn
<1> QED
  BY <1>3, <1>4, <1>5 DEF RatesInv

\* Nor does a step that changes nothing.
LEMMA RatesStutterKeeps == ASSUME RatesInv, UNCHANGED ratesVars PROVE RatesInv'
<1>1. /\ SameRating /\ stage' = stage /\ block' = block /\ round' = round
      /\ held' = held /\ next' = next /\ cesaro' = cesaro
  BY DEF ratesVars, args, SameRating, SameQuestion
<1>2. Folded' /\ Q' = Q /\ Chain' = Chain
  BY <1>1, StillFolded DEF RatesInv
<1>3. Sweeping'
  BY <1>1 DEF RatesInv, Sweeping, SameRating, SameQuestion
<1>4. Stepped' /\ PartlyDrawn'
  BY <1>1, <1>2 DEF RatesInv, Stepped, PartlyDrawn
<1> QED
  BY <1>2, <1>3, <1>4 DEF RatesInv

\* A sweep keeps its books: what each buffer holds is the likelihood of the documents
\* read so far, as much of the next as has been drawn is what goes on from those blocks,
\* and the two folds have the worst and the best of what is finished.
THEOREM TheSweepKeepsItsBooks == RatesSpec => []RatesInv
<1>1. RatesInit => RatesInv
  BY SweepStarts
<1>2. ASSUME RatesInv, [RatesNext]_ratesVars PROVE RatesInv'
  BY <1>2, MintKeeps, SeedKeeps, FillKeeps, DrawKeeps, SwapKeeps, EndChainKeeps,
     EndQuotientKeeps, ReturnKeeps, RatesStutterKeeps DEF RatesNext
<1> QED
  BY <1>1, <1>2, PTL DEF RatesSpec

\* What the invariant says is what the definition over all documents says.
LEMMA BooksAreExact == ASSUME RatesInv PROVE RatesAreExact
<1>1. Sweeping /\ Folded /\ Stepped
  BY DEF RatesInv
<1>2. ASSUME stage = "fill", round > 0, NEW s \in Slots(Q)
      PROVE  Same(held[s], Chance(Chain, EndingAt(Q, round, s)))
  <2>1. qi <= Len(quotients) /\ ci <= Len(chains)
    BY <1>1, <1>2 DEF Sweeping
  <2>2. IsQuotient(Q) /\ IsChain(Chain)
    BY <1>1, <2>1, SequencesAre
  <2>3. /\ round \in Nat \ {0} /\ held[s] \in Finites
        /\ Value(held[s]) = Mass(Q, Chain, round, s)
    BY <1>1, <1>2 DEF Stepped
  <2>4. /\ Chance(Chain, EndingAt(Q, round, s)) \in Finites
        /\ Value(Chance(Chain, EndingAt(Q, round, s))) = Mass(Q, Chain, round, s)
    BY <2>2, <2>3, EndingAtIs
  <2> QED
    BY <2>3, <2>4, SameIs
<1>3. ASSUME stage = "done"
      PROVE  Same(best, WorstCase([i \in DOMAIN quotients |->
                          [rates |-> [c \in DOMAIN chains |-> Expected(quotients[i], chains[c])]]],
                          DOMAIN chains))
  <2>1. /\ Len(quotients) \in Nat /\ DOMAIN quotients = 1 .. Len(quotients)
        /\ Len(chains) \in Nat /\ DOMAIN chains = 1 .. Len(chains)
        /\ \A i \in 1 .. Len(quotients) : IsQuotient(quotients[i])
        /\ \A c \in 1 .. Len(chains) : IsChain(chains[c])
    BY <1>1, SequencesAre
  <2>2. qi - 1 = Len(quotients)
    <3>1. qi \in 1 .. Len(quotients) + 1 /\ qi > Len(quotients)
      BY <1>1, <1>3 DEF Sweeping
    <3> QED
      BY <2>1, <3>1
  <2>3. PICK W : W = WorstsOf(quotients, chains, Len(quotients))
    OBVIOUS
  <2>4. W \in SUBSET Finites /\ IsFiniteSet(W)
    BY <2>1, <2>3, WorstsAre
  <2>5. Smallest(best, W)
    BY <1>1, <2>2, <2>3 DEF Folded
  <2>6. best \in Finites /\ LeastOf(W) \in Finites /\ Value(best) = Value(LeastOf(W))
    BY <2>4, <2>5, SmallestIsLeast DEF Smallest
  <2>7. PICK asked : asked = [i \in DOMAIN quotients |->
                       [rates |-> [c \in DOMAIN chains |-> Expected(quotients[i], chains[c])]]]
    OBVIOUS
  <2>8. ASSUME NEW i \in 1 .. Len(quotients)
        PROVE  {Zero} \cup {asked[i].rates[c] : c \in DOMAIN chains}
                 = RatingsOf(quotients[i], chains, Len(chains))
    <3>1. \A c \in 1 .. Len(chains) : asked[i].rates[c] = Expected(quotients[i], chains[c])
      BY <2>1, <2>7
    <3> QED
      BY <2>1, <3>1 DEF RatingsOf
  <2>9. WorstCase(asked, DOMAIN chains) = LeastOf(W)
    <3>1. DOMAIN asked = 1 .. Len(quotients)
      BY <2>1, <2>7
    <3>2. ASSUME NEW i \in 1 .. Len(quotients)
          PROVE  MostOf({Zero} \cup {asked[i].rates[c] : c \in DOMAIN chains})
                   = MostOf(RatingsOf(quotients[i], chains, Len(chains)))
      BY <2>8
    <3>3. {MostOf({Zero} \cup {asked[i].rates[c] : c \in DOMAIN chains}) : i \in DOMAIN asked}
            = {MostOf(RatingsOf(quotients[i], chains, Len(chains))) : i \in 1 .. Len(quotients)}
      BY <3>1, <3>2
    <3>4. WorstCase(asked, DOMAIN chains)
            = LeastOf({One} \cup {MostOf({Zero} \cup {asked[i].rates[c] : c \in DOMAIN chains})
                                    : i \in DOMAIN asked})
      BY DEF WorstCase
    <3> QED
      BY <2>3, <3>3, <3>4 DEF WorstsOf
  <2>10. Same(best, WorstCase(asked, DOMAIN chains))
    BY <2>6, <2>9, SameIs
  <2> QED
    BY <2>7, <2>10
<1> QED
  BY <1>2, <1>3 DEF RatesAreExact

\* Regrouping the bytes by class and the chain by block is not an approximation: what
\* the sweep holds after every step is the likelihood of the documents that end there,
\* and what it returns is the worst chain's average for the best quotient, for every
\* quotient, every chain (minted or not, memoryless or not) and every number of steps.
THEOREM TheRegroupingIsExact == RatesSpec => []RatesAreExact
<1>1. RatesInv => RatesAreExact
  BY BooksAreExact
<1> QED
  BY <1>1, TheSweepKeepsItsBooks, PTL

-----------------------------------------------------------------------------
(* Rates: sums in order.                                                   *)

\* Common denominators decide.
LEMMA OrderIs ==
  ASSUME NEW x \in Finites, NEW y \in Finites, NEW a \in Int, NEW b \in Int, NEW d \in Nat \ {0},
         Amounts(x, a, d), Amounts(y, b, d)
  PROVE  AtMost(x, y) <=> a <= b
<1>1. Less(y, x) <=> b < a
  BY LessIs
<1> QED
  BY <1>1 DEF AtMost

\* The same added to two keeps their order.
LEMMA AddOrdered ==
  ASSUME NEW x \in Finites, NEW y \in Finites, NEW z \in Finites
  PROVE  AtMost(Add(x, z), Add(y, z)) <=> AtMost(x, y)
<1>1. PICK d \in Nat \ {0}, a \in Int, b \in Int, c \in Int :
        Amounts(x, a, d) /\ Amounts(y, b, d) /\ Amounts(z, c, d)
  BY OverOne
<1>2. /\ Add(x, z) \in Finites /\ a + c \in Int /\ Amounts(Add(x, z), a + c, d)
      /\ Add(y, z) \in Finites /\ b + c \in Int /\ Amounts(Add(y, z), b + c, d)
  BY <1>1, AddIs
<1>3. AtMost(Add(x, z), Add(y, z)) <=> a + c <= b + c
  BY <1>2, OrderIs
<1>4. AtMost(x, y) <=> a <= b
  BY <1>1, OrderIs
<1>5. a + c <= b + c <=> a <= b
  BY <1>1
<1> QED
  BY <1>3, <1>4, <1>5

\* Both terms.
LEMMA AddBoth ==
  ASSUME NEW x \in Finites, NEW y \in Finites, NEW u \in Finites, NEW v \in Finites,
         AtMost(x, y), AtMost(u, v)
  PROVE  AtMost(Add(x, u), Add(y, v))
<1>1. AtMost(Add(x, u), Add(y, u))
  BY AddOrdered
<1>2. AtMost(Add(u, y), Add(v, y))
  BY AddOrdered
<1>3. Add(u, y) = Add(y, u) /\ Add(v, y) = Add(y, v)
  BY AddLaws
<1>4. Add(x, u) \in Numbers /\ Add(y, u) \in Numbers /\ Add(y, v) \in Numbers
  BY AddIs, NumbersFrom
<1> QED
  BY <1>1, <1>2, <1>3, <1>4, AtMostTransitive

\* So does a factor that is not negative.
LEMMA MulOrdered ==
  ASSUME NEW c \in Finites, AtMost(Zero, c), NEW x \in Finites, NEW y \in Finites, AtMost(x, y)
  PROVE  AtMost(Mul(c, x), Mul(c, y))
<1>1. PICK d \in Nat \ {0}, a \in Int, b \in Int, bb \in Int :
        Amounts(x, a, d) /\ Amounts(y, b, d) /\ Amounts(y, bb, d)
  BY OverOne
<1>2. PICK k \in Int, e \in Nat \ {0} : Amounts(c, k, e)
  BY OfFinites
<1>3. k \in Nat
  BY <1>2, NotNegative
<1>4. a <= b
  BY <1>1, OrderIs
<1>5. /\ Mul(c, x) \in Finites /\ k * a \in Int /\ e * d \in Nat \ {0} /\ Amounts(Mul(c, x), k * a, e * d)
      /\ Mul(c, y) \in Finites /\ k * b \in Int /\ Amounts(Mul(c, y), k * b, e * d)
  BY <1>1, <1>2, MulIs
<1>6. k * a <= k * b
  <2>1. PICK r \in Nat : r = b - a
    BY <1>1, <1>4
  <2>2. k * r \in Nat /\ k * r = k * b - k * a
    <3>1. k * r \in Nat
      BY <1>3
    <3>2. k * (b - a) = k * b - k * a
      BY <1>1, <1>3
    <3> QED
      BY <2>1, <3>1, <3>2
  <2> QED
    BY <1>5, <2>2
<1> QED
  BY <1>5, <1>6, OrderIs

\* Nothing is at most a product of what is not negative.
LEMMA MulNotNegative ==
  ASSUME NEW x \in Finites, NEW y \in Finites, AtMost(Zero, x), AtMost(Zero, y)
  PROVE  AtMost(Zero, Mul(x, y))
<1>1. AtMost(Mul(x, Zero), Mul(x, y))
  BY ZeroOne, MulOrdered
<1>2. Mul(x, Zero) = Value(Zero)
  BY ZeroOne, MulLaws
<1>3. Value(Zero) \in Finites /\ Value(Value(Zero)) = Value(Zero) /\ Zero \in Finites /\ Mul(x, y) \in Finites
  BY ZeroOne, ValueFacts, MulIs
<1> QED
  BY <1>1, <1>2, <1>3, AlikeOrdered

\* No share of a value is more than it.
LEMMA MulShrinks ==
  ASSUME NEW x \in Finites, NEW y \in Finites, AtMost(x, One), AtMost(Zero, y)
  PROVE  AtMost(Mul(x, y), y)
<1>1. AtMost(Mul(y, x), Mul(y, One))
  BY ZeroOne, MulOrdered
<1>2. Mul(y, x) = Mul(x, y) /\ Mul(y, One) = Value(y)
  BY ZeroOne, MulLaws
<1>3. Value(y) \in Finites /\ Value(Value(y)) = Value(y) /\ Mul(x, y) \in Finites
  BY ValueFacts, MulIs
<1> QED
  BY <1>1, <1>2, <1>3, AlikeOrdered

\* Terms in order add up in order.
LEMMA WorthOrdered ==
  ASSUME NEW f, NEW g, NEW S, Summable(f, S), Summable(g, S), \A x \in S : AtMost(f[x], g[x])
  PROVE  AtMost(Worth(f, S), Worth(g, S))
<1> DEFINE Good == {T \in SUBSET S : AtMost(Worth(f, T), Worth(g, T))}
<1>1. ASSUME NEW T \in SUBSET S, \A x \in T : T \ {x} \in Good PROVE T \in Good
  <2>1. CASE T = {}
    <3>1. Worth(f, {}) = Value(Zero) /\ Worth(g, {}) = Value(Zero) /\ Value(Zero) \in Numbers
      BY SumOfNone, ZeroOne, ValueFacts, NumbersFrom
    <3>2. AtMost(Value(Zero), Value(Zero))
      BY <3>1, Ordered
    <3> QED
      BY <2>1, <3>1, <3>2
  <2>2. CASE T # {}
    <3>1. PICK x \in T : T \ {x} \in Good
      BY <1>1, <2>2
    <3>2. /\ f[x] \in Finites /\ Worth(f, T) = Add(Worth(f, T \ {x}), f[x])
          /\ Worth(f, T \ {x}) \in Finites
      BY <3>1, TermsAre
    <3>3. /\ g[x] \in Finites /\ Worth(g, T) = Add(Worth(g, T \ {x}), g[x])
          /\ Worth(g, T \ {x}) \in Finites
      BY <3>1, TermsAre
    <3>4. AtMost(Worth(f, T \ {x}), Worth(g, T \ {x})) /\ AtMost(f[x], g[x])
      BY <3>1
    <3> QED
      BY <3>2, <3>3, <3>4, AddBoth
  <2> QED
    BY <2>1, <2>2
<1>2. S \in Good
  <2> HIDE DEF Good
  <2> QED
    BY <1>1, SubsetsInOrder DEF Summable
<1> QED
  BY <1>2

\* What is nowhere negative does not add up to less than nothing.
LEMMA WorthNotNegative ==
  ASSUME NEW f, NEW S, Summable(f, S), \A x \in S : AtMost(Zero, f[x])
  PROVE  AtMost(Zero, Worth(f, S))
<1>1. PICK z : z = [x \in S |-> Zero]
  OBVIOUS
<1>2. Summable(z, S) /\ \A x \in S : z[x] = Zero
  BY <1>1, ZeroOne DEF Summable
<1>3. AtMost(Worth(z, S), Worth(f, S))
  BY <1>2, WorthOrdered
<1>4. Worth(z, S) = Value(Zero)
  <2>1. Worth(z, S) = Worth(z, {})
    BY <1>2, TotalOfOnly
  <2> QED
    BY <2>1, SumOfNone
<1>5. Value(Zero) \in Finites /\ Value(Value(Zero)) = Value(Zero) /\ Zero \in Finites /\ Worth(f, S) \in Finites
  BY ZeroOne, ValueFacts, SumCloses
<1> QED
  BY <1>3, <1>4, <1>5, AlikeOrdered

\* Of what is not negative no term is more than the sum.
LEMMA NoMoreThanAll ==
  ASSUME NEW f, NEW S, Summable(f, S), \A x \in S : AtMost(Zero, f[x]), NEW x \in S
  PROVE  AtMost(f[x], Worth(f, S))
<1>1. /\ Summable(f, S \ {x}) /\ Worth(f, S) = Add(Worth(f, S \ {x}), f[x])
  BY OneOut
<1>2. AtMost(Zero, Worth(f, S \ {x})) /\ Worth(f, S \ {x}) \in Finites /\ f[x] \in Finites
  BY <1>1, WorthNotNegative, SumCloses DEF Summable
<1>3. AtMost(Add(Zero, f[x]), Add(Worth(f, S \ {x}), f[x]))
  BY <1>2, ZeroOne, AddOrdered
<1>4. Add(Zero, f[x]) = Value(f[x])
  BY <1>2, ZeroOne, AddLaws
<1>5. /\ Value(f[x]) \in Finites /\ Value(Value(f[x])) = Value(f[x])
      /\ Worth(f, S) \in Finites
  BY <1>2, ValueFacts, SumCloses
<1> QED
  BY <1>1, <1>2, <1>3, <1>4, <1>5, AlikeOrdered

\* With the same sum, who has no more of the rest has no less of the one.
LEMMA TheRestDecides ==
  ASSUME NEW f, NEW g, NEW S, Summable(f, S), Summable(g, S), NEW x \in S,
         \A y \in S \ {x} : AtMost(f[y], g[y]), Worth(f, S) = Worth(g, S)
  PROVE  AtMost(g[x], f[x])
<1>1. /\ Summable(f, S \ {x}) /\ Worth(f, S) = Add(Worth(f, S \ {x}), f[x])
      /\ Summable(g, S \ {x}) /\ Worth(g, S) = Add(Worth(g, S \ {x}), g[x])
  BY OneOut
<1>2. PICK u \in Finites, v \in Finites, a \in Finites, b \in Finites :
        u = Worth(f, S \ {x}) /\ v = Worth(g, S \ {x}) /\ a = f[x] /\ b = g[x]
  BY <1>1, SumCloses DEF Summable
<1>3. AtMost(u, v)
  BY <1>1, <1>2, WorthOrdered
<1>4. Add(u, a) = Add(v, b)
  BY <1>1, <1>2
<1>5. AtMost(Add(u, b), Add(v, b))
  BY <1>2, <1>3, AddOrdered
<1>6. AtMost(Add(b, u), Add(a, u))
  BY <1>2, <1>4, <1>5, AddLaws
<1>7. AtMost(b, a)
  BY <1>2, <1>6, AddOrdered
<1> QED
  BY <1>2, <1>7

-----------------------------------------------------------------------------
(* Rates: sums by rows and by columns.                                     *)

\* One table, by rows and by columns; and what the rows of one add up to.
Turned(rows, cols, A, B) ==
  \A a \in A, b \in B : rows[a][b] \in Finites /\ cols[b][a] = rows[a][b]
AddUpTo(h, rows, A, B) == Summable(h, A) /\ \A a \in A : Value(h[a]) = Worth(rows[a], B)

\* A table adds up to the same by rows and by columns.
LEMMA SumsExchange ==
  ASSUME NEW A, IsFiniteSet(A), NEW B, IsFiniteSet(B), NEW rows, NEW cols, Turned(rows, cols, A, B),
         NEW h, AddUpTo(h, rows, A, B), NEW g, AddUpTo(g, cols, B, A)
  PROVE  Worth(h, A) = Worth(g, B)
<1> USE DEF Turned, AddUpTo
<1>1. PICK P : P = A \X B /\ IsFiniteSet(P)
  BY FS_Product
<1>2. PICK first, second, f :
        /\ first = [p \in P |-> p[1]] /\ second = [p \in P |-> p[2]]
        /\ f = [p \in P |-> rows[p[1]][p[2]]]
  OBVIOUS
<1>3. ASSUME NEW p \in P
      PROVE  /\ p[1] \in A /\ p[2] \in B /\ p = <<p[1], p[2]>>
             /\ first[p] = p[1] /\ second[p] = p[2]
             /\ f[p] = rows[p[1]][p[2]] /\ f[p] \in Finites
  <2>1. p[1] \in A /\ p[2] \in B /\ p = <<p[1], p[2]>>
    BY <1>1
  <2> QED
    BY <1>2, <2>1
<1>4. ASSUME NEW a \in A, NEW b \in B
      PROVE  <<a, b>> \in P /\ first[<<a, b>>] = a /\ second[<<a, b>>] = b
  <2>1. <<a, b>> \in P /\ <<a, b>>[1] = a /\ <<a, b>>[2] = b
    BY <1>1
  <2> QED
    BY <1>3, <2>1
<1>5. Summable(f, P)
  BY <1>1, <1>3 DEF Summable
<1>6. ASSUME NEW a \in A PROVE Value(h[a]) = Worth(f, Those(P, first, a))
  <2>1. PICK T, row : T = Those(P, first, a) /\ row = rows[a]
    OBVIOUS
  <2>2. T \in SUBSET P /\ \A p \in P : p \in T <=> p[1] = a
    BY <1>3, <2>1 DEF Those
  <2>3. Summable(f, T)
    BY <1>5, <2>2, Smaller
  <2>4. Summable(row, B)
    BY <2>1 DEF Summable
  <2>5. \A p \in T : second[p] \in B /\ Value(f[p]) = Value(row[second[p]])
    BY <1>3, <2>1, <2>2
  <2>6. \A b \in B : \E p \in T : second[p] = b
    <3>1. ASSUME NEW b \in B PROVE <<a, b>> \in T /\ second[<<a, b>>] = b
      BY <1>3, <1>4, <2>2
    <3> QED
      BY <3>1
  <2>7. \A p, r \in T : second[p] = second[r] => p = r
    BY <1>3, <2>2
  <2>8. Worth(f, T) = Worth(row, B)
    BY <2>3, <2>4, <2>5, <2>6, <2>7, TotalRenamed
  <2> QED
    BY <2>1, <2>8
<1>7. ASSUME NEW b \in B PROVE Value(g[b]) = Worth(f, Those(P, second, b))
  <2>1. PICK T, row : T = Those(P, second, b) /\ row = cols[b]
    OBVIOUS
  <2>2. T \in SUBSET P /\ \A p \in P : p \in T <=> p[2] = b
    BY <1>3, <2>1 DEF Those
  <2>3. Summable(f, T)
    BY <1>5, <2>2, Smaller
  <2>4. Summable(row, A)
    BY <2>1 DEF Summable
  <2>5. \A p \in T : first[p] \in A /\ Value(f[p]) = Value(row[first[p]])
    BY <1>3, <2>1, <2>2
  <2>6. \A a \in A : \E p \in T : first[p] = a
    <3>1. ASSUME NEW a \in A PROVE <<a, b>> \in T /\ first[<<a, b>>] = a
      BY <1>3, <1>4, <2>2
    <3> QED
      BY <3>1
  <2>7. \A p, r \in T : first[p] = first[r] => p = r
    BY <1>3, <2>2
  <2>8. Worth(f, T) = Worth(row, A)
    BY <2>3, <2>4, <2>5, <2>6, <2>7, TotalRenamed
  <2> QED
    BY <2>1, <2>8
<1>8. Worth(h, A) = Worth(f, P)
  <2>1. \A p \in P : first[p] \in A
    BY <1>3
  <2>2. \A a \in A : Value(h[a]) = Worth(f, Those(P, first, a))
    BY <1>6
  <2> QED
    BY <1>5, <2>1, <2>2, TotalGrouped
<1>9. Worth(g, B) = Worth(f, P)
  <2>1. \A p \in P : second[p] \in B
    BY <1>3
  <2>2. \A b \in B : Value(g[b]) = Worth(f, Those(P, second, b))
    BY <1>7
  <2> QED
    BY <1>5, <2>1, <2>2, TotalGrouped
<1> QED
  BY <1>8, <1>9

-----------------------------------------------------------------------------
(* Rates: the chain alone, as a quotient of one block sees it.             *)

OneBlock ==
  [blocks |-> 1, threshold |-> 0, start |-> 0,
   rows |-> [y \in DOMAIN ClassOf |-> [b \in 0 .. 0 |-> 0]]]
InClass(chain, n, class) == Mass(OneBlock, chain, n, <<0, class>>)

\* The quotient that tells nothing apart.
LEMMA OneBlockIs ==
  /\ IsQuotient(OneBlock) /\ Blocks(OneBlock) = {0} /\ Slots(OneBlock) = {0} \X Classes
  /\ OneBlock.start = 0 /\ \A y \in Alphabet : OneBlock.rows[y][0] = 0
<1>1. 0 .. 1 - 1 = {0} /\ 0 .. 0 = {0}
  OBVIOUS
<1>2. Blocks(OneBlock) = {0}
  BY <1>1 DEF Blocks, OneBlock
<1>3. OneBlock.rows \in [DOMAIN ClassOf -> [{0} -> {0}]]
  BY <1>1 DEF OneBlock
<1>4. OneBlock.blocks = 1 /\ OneBlock.threshold = 0 /\ OneBlock.start = 0
  BY DEF OneBlock
<1>5. \A y \in Alphabet : OneBlock.rows[y][0] = 0
  BY <1>3 DEF Alphabet
<1> QED
  BY <1>2, <1>3, <1>4, <1>5 DEF IsQuotient, Slots

\* All of a share.
LEMMA AllOfIt ==
  ASSUME NEW m \in Nat \ {0}
  PROVE  Divided(F(m), F(m)) \in Finites /\ Value(Divided(F(m), F(m))) = Value(One)
<1>1. PICK w \in Finites : w = F(m) /\ Amounts(w, m, 1) /\ 1 \in Nat \ {0}
  BY Whole
<1>2. /\ Divided(w, w) \in Finites /\ m * 1 \in Int /\ 1 * m \in Nat \ {0}
      /\ Amounts(Divided(w, w), m * 1, 1 * m)
  BY <1>1, DividedIs
<1>3. m * 1 = m /\ 1 * m = m
  OBVIOUS
<1>4. Amounts(Divided(w, w), m, m) /\ Amounts(One, m, m) /\ One \in Finites /\ m \in Int
  BY <1>2, <1>3, ZeroOne
<1> QED
  BY <1>1, <1>2, <1>4, OneValue

\* Every byte of a class stays in the one block.
LEMMA OnwardInOne ==
  ASSUME NEW chain, IsChain(chain), NEW i \in Classes, NEW j \in Classes
  PROVE  /\ chain.next[i][j] \in Finites
         /\ Onward(OneBlock, chain, <<0, i>>, <<0, j>>) = Value(chain.next[i][j])
<1>1. PICK m \in Nat \ {0}, x \in Finites : m = Members(j) /\ x = chain.next[i][j]
  BY ClassesAre, SharesAre DEF IsChain
<1>2. {y \in DOMAIN ClassOf : ClassOf[y] = j /\ OneBlock.rows[y][0] = 0}
        = {y \in DOMAIN ClassOf : ClassOf[y] = j}
  BY OneBlockIs DEF Alphabet
<1>3. EdgeShare(OneBlock, 0, j, 0) = Divided(F(m), F(m))
  BY <1>1, <1>2 DEF EdgeShare, Members
<1>4. PICK v \in Finites : v = EdgeShare(OneBlock, 0, j, 0) /\ Value(v) = Value(One)
  BY <1>3, AllOfIt
<1>5. Mul(x, v) = Mul(x, One)
  <2>1. Mul(x, Value(v)) = Mul(x, v) /\ Mul(x, Value(One)) = Mul(x, One)
    BY ZeroOne, MulIs
  <2> QED
    BY <1>4, <2>1
<1>6. Mul(x, One) = Value(x)
  BY MulLaws
<1>7. Onward(OneBlock, chain, <<0, i>>, <<0, j>>) = Mul(x, v)
  BY <1>1, <1>4 DEF Onward
<1> QED
  BY <1>1, <1>5, <1>6, <1>7

\* How likely each class is next, of the chain alone.
LEMMA InClassIs ==
  ASSUME NEW chain, IsChain(chain), NEW n \in Nat, NEW j \in Classes
  PROVE  /\ InClass(chain, n, j) \in Finites /\ Value(InClass(chain, n, j)) = InClass(chain, n, j)
         /\ n = 0 => InClass(chain, n, j) = Value(chain.start[j])
<1>1. IsQuotient(OneBlock) /\ <<0, j>> \in Slots(OneBlock)
  BY OneBlockIs
<1>2. Summable(Weigh(chain, n), Those(Openings(n), Arrives(OneBlock, n), <<0, j>>))
  BY <1>1, OpeningsAre
<1>3. PICK s \in Finites : InClass(chain, n, j) = Value(s)
  <2>1. Sum(Weigh(chain, n), Those(Openings(n), Arrives(OneBlock, n), <<0, j>>)) \in Finites
    BY <1>2, SumCloses
  <2> QED
    BY <2>1 DEF InClass, Mass, Worth
<1>4. n = 0 => InClass(chain, n, j) = Value(chain.start[j])
  BY <1>1, OneBlockIs, MassStart DEF InClass
<1> QED
  BY <1>3, <1>4, ValueFacts

\* One byte more.
LEMMA InClassStep ==
  ASSUME NEW chain, IsChain(chain), NEW n \in Nat, NEW j \in Classes, NEW h, Summable(h, Classes),
         \A i \in Classes : Value(h[i]) = Mul(chain.next[i][j], InClass(chain, n, i))
  PROVE  Worth(h, Classes) = InClass(chain, n + 1, j)
<1>1. PICK S : S = Slots(OneBlock) /\ S = {0} \X Classes /\ IsQuotient(OneBlock) /\ <<0, j>> \in S
  BY OneBlockIs
<1>2. PICK g, b : g = [s \in S |-> h[s[2]]] /\ b = [s \in S |-> s[2]]
  OBVIOUS
<1>3. \A s \in S : s[2] \in Classes /\ s = <<0, s[2]>>
  BY <1>1
<1>4. \A s \in S : g[s] = h[s[2]] /\ b[s] = s[2] /\ b[s] \in Classes
  BY <1>2, <1>3
<1>5. Summable(g, S)
  <2>1. IsFiniteSet({0} \X Classes)
    BY ClassesAre, FS_Singleton, FS_Product
  <2> QED
    BY <1>1, <1>3, <1>4, <2>1 DEF Summable
<1>6. ASSUME NEW s \in S
      PROVE  Value(g[s]) = Mul(Onward(OneBlock, chain, s, <<0, j>>), Mass(OneBlock, chain, n, s))
  <2>1. PICK i \in Classes : s = <<0, i>> /\ g[s] = h[i]
    BY <1>3, <1>4
  <2>2. PICK x \in Finites, y \in Finites :
          /\ x = chain.next[i][j] /\ y = InClass(chain, n, i)
          /\ Onward(OneBlock, chain, s, <<0, j>>) = Value(x)
    BY <2>1, OnwardInOne, InClassIs
  <2>3. Mul(Value(x), y) = Mul(x, y)
    BY MulIs
  <2>4. Value(h[i]) = Mul(x, y)
    BY <2>2
  <2> QED
    BY <2>1, <2>2, <2>3, <2>4 DEF InClass
<1>7. Worth(g, S) = InClass(chain, n + 1, j)
  <2>1. PICK q, t : q = OneBlock /\ t = <<0, j>>
    OBVIOUS
  <2>2. \A s \in Slots(q) : Value(g[s]) = Mul(Onward(q, chain, s, t), Mass(q, chain, n, s))
    BY <1>1, <1>6, <2>1
  <2>3. Summable(g, Slots(q)) /\ IsQuotient(q) /\ t \in Slots(q)
    BY <1>1, <1>5, <2>1
  <2>4. Worth(g, Slots(q)) = Mass(q, chain, n + 1, t)
    BY <2>2, <2>3, MassStep
  <2> QED
    BY <1>1, <2>1, <2>4 DEF InClass
<1>8. Worth(g, S) = Worth(h, Classes)
  <2>1. \A s \in S : b[s] \in Classes /\ Value(g[s]) = Value(h[b[s]])
    BY <1>4
  <2>2. \A i \in Classes : \E s \in S : b[s] = i
    <3>1. ASSUME NEW i \in Classes PROVE <<0, i>> \in S /\ b[<<0, i>>] = i
      BY <1>1, <1>4
    <3> QED
      BY <3>1
  <2>3. \A s, t \in S : b[s] = b[t] => s = t
    BY <1>3, <1>4
  <2> QED
    BY <1>5, <2>1, <2>2, <2>3, TotalRenamed
<1> QED
  BY <1>7, <1>8

\* The terms of a step, made to order.
LEMMA StepTerms ==
  ASSUME NEW chain, IsChain(chain), NEW n \in Nat, NEW j \in Classes, NEW h,
         h = [i \in Classes |-> Times(chain.next[i][j], InClass(chain, n, i))]
  PROVE  /\ Summable(h, Classes)
         /\ \A i \in Classes : Value(h[i]) = Mul(chain.next[i][j], InClass(chain, n, i))
         /\ Worth(h, Classes) = InClass(chain, n + 1, j)
<1>1. ASSUME NEW i \in Classes
      PROVE  h[i] \in Finites /\ Value(h[i]) = Mul(chain.next[i][j], InClass(chain, n, i))
  <2>1. PICK x \in Finites, y \in Finites : x = chain.next[i][j] /\ y = InClass(chain, n, i)
    BY OnwardInOne, InClassIs
  <2>2. Times(x, y) \in Finites /\ Value(Times(x, y)) = Mul(x, y)
    BY MulIs
  <2>3. h[i] = Times(x, y)
    BY <2>1
  <2> QED
    BY <2>1, <2>2, <2>3
<1>2. Summable(h, Classes)
  BY <1>1, ClassesAre DEF Summable
<1>3. \A i \in Classes : Value(h[i]) = Mul(chain.next[i][j], InClass(chain, n, i))
  BY <1>1
<1>4. Worth(h, Classes) = InClass(chain, n + 1, j)
  BY <1>2, <1>3, InClassStep
<1> QED
  BY <1>2, <1>3, <1>4

-----------------------------------------------------------------------------
(* Rates: where the mass of a chain can be.                                *)

InClasses(chain, n) == [j \in Classes |-> InClass(chain, n, j)]
NoneNegative(chain) ==
  \A i \in Classes : AtMost(Zero, chain.start[i]) /\ \A j \in Classes : AtMost(Zero, chain.next[i][j])
Conserves(chain) ==
  \A i \in Classes : Summable(chain.next[i], Classes) /\ Worth(chain.next[i], Classes) = Value(One)

\* A number and its representative are ordered alike.
LEMMA ValueOrdered ==
  ASSUME NEW x \in Finites, NEW v, v = Value(x), NEW z \in Finites
  PROVE  /\ v \in Finites /\ (AtMost(v, z) <=> AtMost(x, z)) /\ (AtMost(z, v) <=> AtMost(z, x))
<1>1. v \in Finites /\ Value(v) = Value(x)
  BY ValueFacts
<1> QED
  BY <1>1, AlikeOrdered

\* What is in each class can be added up.
LEMMA InClassesAre ==
  ASSUME NEW chain, IsChain(chain), NEW n \in Nat
  PROVE  /\ Summable(InClasses(chain, n), Classes)
         /\ n = 0 => Worth(InClasses(chain, n), Classes) = Worth(chain.start, Classes)
         /\ Summable(chain.start, Classes)
<1>1. PICK g : g = InClasses(chain, n)
  OBVIOUS
<1>2. Summable(g, Classes)
  BY <1>1, ClassesAre, InClassIs DEF InClasses, Summable
<1>3. Summable(chain.start, Classes)
  BY ClassesAre, SharesAre DEF IsChain, Summable
<1>4. ASSUME n = 0 PROVE Worth(g, Classes) = Worth(chain.start, Classes)
  <2>1. ASSUME NEW j \in Classes PROVE Value(g[j]) = Value(chain.start[j])
    <3>1. chain.start[j] \in Finites
      BY <1>3 DEF Summable
    <3>2. g[j] = Value(chain.start[j])
      BY <1>1, <1>4, InClassIs DEF InClasses
    <3> QED
      BY <3>1, <3>2, ValueFacts
  <2> QED
    BY <1>2, <1>3, <2>1, TotalsAlike
<1> QED
  BY <1>1, <1>2, <1>3, <1>4

\* No class ever holds less than nothing.
LEMMA NeverNegative ==
  ASSUME NEW chain, IsChain(chain), NoneNegative(chain), NEW n \in Nat
  PROVE  \A j \in Classes : AtMost(Zero, InClass(chain, n, j))
<1> DEFINE S == {i \in 0 .. n : \A j \in Classes : AtMost(Zero, InClass(chain, i, j))}
<1>1. 0 \in S
  <2>1. ASSUME NEW j \in Classes PROVE AtMost(Zero, InClass(chain, 0, j))
    <3>1. chain.start[j] \in Finites /\ AtMost(Zero, chain.start[j])
      BY SharesAre DEF IsChain, NoneNegative
    <3>2. 0 \in Nat
      OBVIOUS
    <3>3. InClass(chain, 0, j) = Value(chain.start[j])
      BY <3>2, InClassIs
    <3> QED
      BY <3>1, <3>3, ZeroOne, ValueOrdered
  <2> QED
    BY <2>1
<1>2. ASSUME NEW i \in 0 .. n - 1, i \in S PROVE i + 1 \in S
  <2>1. i \in Nat /\ i + 1 \in 0 .. n
    OBVIOUS
  <2>2. ASSUME NEW j \in Classes PROVE AtMost(Zero, InClass(chain, i + 1, j))
    <3>1. PICK h : h = [k \in Classes |-> Times(chain.next[k][j], InClass(chain, i, k))]
      OBVIOUS
    <3>2. /\ Summable(h, Classes)
          /\ \A k \in Classes : Value(h[k]) = Mul(chain.next[k][j], InClass(chain, i, k))
          /\ Worth(h, Classes) = InClass(chain, i + 1, j)
      BY <2>1, <3>1, StepTerms
    <3>3. ASSUME NEW k \in Classes PROVE AtMost(Zero, h[k])
      <4>1. PICK x \in Finites, y \in Finites :
              x = chain.next[k][j] /\ y = InClass(chain, i, k) /\ AtMost(Zero, x) /\ AtMost(Zero, y)
        BY <1>2, <2>1, OnwardInOne, InClassIs DEF NoneNegative
      <4>2. AtMost(Zero, Mul(x, y))
        BY <4>1, MulNotNegative
      <4>3. Mul(x, y) = Value(h[k]) /\ h[k] \in Finites
        BY <3>2, <4>1 DEF Summable
      <4> QED
        BY <4>2, <4>3, ZeroOne, ValueOrdered
    <3>4. AtMost(Zero, Worth(h, Classes))
      BY <3>2, <3>3, WorthNotNegative
    <3> QED
      BY <3>2, <3>4
  <2> QED
    BY <2>1, <2>2
<1>3. \A i \in 0 .. n : i \in S
  <2> HIDE DEF S
  <2> QED
    BY <1>1, <1>2, UpTo
<1> QED
  BY <1>3

\* One more byte moves the mass and makes none.
LEMMA StepConserves ==
  ASSUME NEW chain, IsChain(chain), Conserves(chain), NEW n \in Nat
  PROVE  Worth(InClasses(chain, n + 1), Classes) = Worth(InClasses(chain, n), Classes)
<1>1. PICK C : C = Classes /\ IsFiniteSet(C)
  BY ClassesAre
<1>2. PICK f : f = [p \in C \X C |-> Times(chain.next[p[1]][p[2]], InClass(chain, n, p[1]))]
  OBVIOUS
<1>3. ASSUME NEW i \in C, NEW j \in C
      PROVE  /\ f[<<i, j>>] = Times(chain.next[i][j], InClass(chain, n, i))
             /\ f[<<i, j>>] \in Finites
             /\ Value(f[<<i, j>>]) = Mul(InClass(chain, n, i), chain.next[i][j])
  <2>1. PICK x \in Finites, y \in Finites : x = chain.next[i][j] /\ y = InClass(chain, n, i)
    BY <1>1, OnwardInOne, InClassIs
  <2>2. Times(x, y) \in Finites /\ Value(Times(x, y)) = Mul(x, y)
    BY MulIs
  <2>3. Mul(x, y) = Mul(y, x)
    BY ZeroOne, MulLaws
  <2>4. f[<<i, j>>] = Times(x, y)
    BY <1>2, <2>1
  <2> QED
    BY <2>1, <2>2, <2>3, <2>4
<1>4. n + 1 \in Nat
  OBVIOUS
<1>5. PICK now, then : now = InClasses(chain, n) /\ then = InClasses(chain, n + 1)
  OBVIOUS
<1>6. Summable(now, C) /\ Summable(then, C)
  BY <1>1, <1>4, <1>5, InClassesAre
<1>7. ASSUME NEW j \in C PROVE Value(then[j]) = Worth([i \in C |-> f[<<i, j>>]], C)
  <2>1. PICK h : h = [i \in C |-> f[<<i, j>>]]
    OBVIOUS
  <2>2. h = [i \in Classes |-> Times(chain.next[i][j], InClass(chain, n, i))]
    BY <1>1, <1>3, <2>1
  <2>3. Worth(h, Classes) = InClass(chain, n + 1, j)
    BY <1>1, <2>2, StepTerms
  <2>4. then[j] = InClass(chain, n + 1, j) /\ Value(then[j]) = InClass(chain, n + 1, j)
    BY <1>1, <1>4, <1>5, InClassIs DEF InClasses
  <2> QED
    BY <1>1, <2>1, <2>3, <2>4
<1>8. ASSUME NEW i \in C PROVE Value(now[i]) = Worth([j \in C |-> f[<<i, j>>]], C)
  <2>1. PICK h, row : h = [j \in C |-> f[<<i, j>>]] /\ row = chain.next[i]
    OBVIOUS
  <2>2. InClass(chain, n, i) \in Finites /\ Value(InClass(chain, n, i)) = InClass(chain, n, i)
    BY <1>1, InClassIs
  <2>3. PICK c \in Finites : c = InClass(chain, n, i) /\ Value(c) = c /\ now[i] = c
    BY <1>1, <1>5, <2>2 DEF InClasses
  <2>4. Summable(row, C) /\ Worth(row, C) = Value(One)
    BY <1>1, <2>1 DEF Conserves
  <2>5. \A j \in C : h[j] \in Finites /\ Value(h[j]) = Mul(c, row[j])
    BY <1>3, <2>1, <2>3
  <2>6. Summable(h, C)
    BY <1>1, <2>5 DEF Summable
  <2>7. Worth(h, C) = Mul(c, Worth(row, C))
    BY <2>4, <2>5, <2>6, TotalScaled
  <2>8. Mul(c, Value(One)) = Mul(c, One) /\ Mul(c, One) = Value(c)
    BY ZeroOne, MulIs, MulLaws
  <2> QED
    BY <2>1, <2>3, <2>4, <2>7, <2>8
<1>9. Worth(now, C) = Worth(then, C)
  <2>1. PICK rows, cols :
          /\ rows = [i \in C |-> [j \in C |-> f[<<i, j>>]]]
          /\ cols = [j \in C |-> [i \in C |-> f[<<i, j>>]]]
    OBVIOUS
  <2>2. Turned(rows, cols, C, C)
    BY <1>3, <2>1 DEF Turned
  <2>3. AddUpTo(now, rows, C, C)
    BY <1>6, <1>8, <2>1 DEF AddUpTo
  <2>4. AddUpTo(then, cols, C, C)
    BY <1>6, <1>7, <2>1 DEF AddUpTo
  <2> QED
    BY <1>1, <2>2, <2>3, <2>4, SumsExchange
<1> QED
  BY <1>1, <1>5, <1>9

\* However many bytes are read.
LEMMA MassConserved ==
  ASSUME NEW chain, IsChain(chain), Conserves(chain), NEW n \in Nat
  PROVE  Worth(InClasses(chain, n), Classes) = Worth(chain.start, Classes)
<1> DEFINE S == {i \in 0 .. n : Worth(InClasses(chain, i), Classes) = Worth(chain.start, Classes)}
<1>1. 0 \in S
  <2>1. 0 \in Nat /\ 0 \in 0 .. n
    OBVIOUS
  <2> QED
    BY <2>1, InClassesAre
<1>2. ASSUME NEW i \in 0 .. n - 1, i \in S PROVE i + 1 \in S
  <2>1. i \in Nat /\ i + 1 \in 0 .. n
    OBVIOUS
  <2> QED
    BY <1>2, <2>1, StepConserves
<1>3. \A i \in 0 .. n : i \in S
  <2> HIDE DEF S
  <2> QED
    BY <1>1, <1>2, UpTo
<1> QED
  BY <1>3

-----------------------------------------------------------------------------
(* Rates: a row that absorbs, against any other.                           *)

Absorbs(chain, c) ==
  \A j \in Classes : chain.next[c][j] = IF j = c THEN One ELSE Zero
AlikeBut(chain, other, c) ==
  chain.start = other.start /\ \A i \in Classes \ {c} : chain.next[i] = other.next[i]

\* What is absorbed is missing everywhere else.
LEMMA MissingElsewhere ==
  ASSUME NEW chain, IsChain(chain), NoneNegative(chain), NEW other, IsChain(other),
         NoneNegative(other), NEW c \in Classes, Absorbs(chain, c), AlikeBut(chain, other, c),
         NEW n \in Nat
  PROVE  \A j \in Classes \ {c} : AtMost(InClass(chain, n, j), InClass(other, n, j))
<1> DEFINE S == {i \in 0 .. n : \A j \in Classes \ {c} :
                                   AtMost(InClass(chain, i, j), InClass(other, i, j))}
<1>1. 0 \in S
  <2>1. ASSUME NEW j \in Classes PROVE AtMost(InClass(chain, 0, j), InClass(other, 0, j))
    <3>1. 0 \in Nat
      OBVIOUS
    <3>2. PICK x \in Finites : x = InClass(chain, 0, j) /\ x = InClass(other, 0, j)
      BY <3>1, InClassIs DEF AlikeBut
    <3>3. AtMost(x, x)
      BY NumbersFrom, Ordered
    <3> QED
      BY <3>2, <3>3
  <2>2. 0 \in 0 .. n
    OBVIOUS
  <2> QED
    BY <2>1, <2>2
<1>2. ASSUME NEW i \in 0 .. n - 1, i \in S PROVE i + 1 \in S
  <2>1. i \in Nat /\ i + 1 \in 0 .. n
    OBVIOUS
  <2>2. ASSUME NEW j \in Classes \ {c}
        PROVE  AtMost(InClass(chain, i + 1, j), InClass(other, i + 1, j))
    <3>1. PICK h, g :
            /\ h = [k \in Classes |-> Times(chain.next[k][j], InClass(chain, i, k))]
            /\ g = [k \in Classes |-> Times(other.next[k][j], InClass(other, i, k))]
      OBVIOUS
    <3>2. /\ Summable(h, Classes)
          /\ \A k \in Classes : Value(h[k]) = Mul(chain.next[k][j], InClass(chain, i, k))
          /\ Worth(h, Classes) = InClass(chain, i + 1, j)
      BY <2>1, <3>1, StepTerms
    <3>3. /\ Summable(g, Classes)
          /\ \A k \in Classes : Value(g[k]) = Mul(other.next[k][j], InClass(other, i, k))
          /\ Worth(g, Classes) = InClass(other, i + 1, j)
      BY <2>1, <3>1, StepTerms
    <3>4. ASSUME NEW k \in Classes PROVE AtMost(h[k], g[k])
      <4>1. h[k] \in Finites /\ g[k] \in Finites
        BY <3>2, <3>3 DEF Summable
      <4>2. PICK x \in Finites, y \in Finites, a \in Finites, b \in Finites :
              /\ x = chain.next[k][j] /\ y = InClass(chain, i, k)
              /\ a = other.next[k][j] /\ b = InClass(other, i, k)
        BY <2>1, OnwardInOne, InClassIs
      <4>3. AtMost(Zero, a) /\ AtMost(Zero, b)
        BY <2>1, <4>2, NeverNegative DEF NoneNegative
      <4>4. AtMost(Mul(x, y), Mul(a, b))
        <5>1. CASE k = c
          <6>1. x = Zero
            BY <2>2, <4>2, <5>1 DEF Absorbs
          <6>2. Mul(x, y) = Value(Zero)
            BY <6>1, ZeroOne, MulLaws
          <6>3. AtMost(Zero, Mul(a, b)) /\ Mul(a, b) \in Finites
            BY <4>3, MulNotNegative, MulIs
          <6> QED
            BY <6>2, <6>3, ZeroOne, ValueOrdered
        <5>2. CASE k # c
          <6>1. x = a
            BY <4>2, <5>2 DEF AlikeBut
          <6>2. AtMost(y, b)
            BY <1>2, <4>2, <5>2
          <6> QED
            BY <4>3, <6>1, <6>2, MulOrdered
        <5> QED
          BY <5>1, <5>2
      <4>5. Mul(x, y) = Value(h[k]) /\ Mul(a, b) = Value(g[k])
        BY <3>2, <3>3, <4>2
      <4>6. AtMost(h[k], Mul(a, b)) /\ Mul(a, b) \in Finites
        BY <4>1, <4>4, <4>5, MulIs, ValueOrdered
      <4> QED
        BY <4>1, <4>5, <4>6, ValueOrdered
    <3>5. AtMost(Worth(h, Classes), Worth(g, Classes))
      BY <3>2, <3>3, <3>4, WorthOrdered
    <3> QED
      BY <3>2, <3>3, <3>5
  <2> QED
    BY <2>1, <2>2
<1>3. \A i \in 0 .. n : i \in S
  <2> HIDE DEF S
  <2> QED
    BY <1>1, <1>2, UpTo
<1> QED
  BY <1>3

\* No row holds more in its class than the one that absorbs.
LEMMA AbsorbsTheMost ==
  ASSUME NEW chain, IsChain(chain), NoneNegative(chain), Conserves(chain),
         NEW other, IsChain(other), NoneNegative(other), Conserves(other),
         NEW c \in Classes, Absorbs(chain, c), AlikeBut(chain, other, c), NEW n \in Nat
  PROVE  AtMost(InClass(other, n, c), InClass(chain, n, c))
<1>1. PICK f, g : f = InClasses(chain, n) /\ g = InClasses(other, n)
  OBVIOUS
<1>2. \A j \in Classes : f[j] = InClass(chain, n, j) /\ g[j] = InClass(other, n, j)
  BY <1>1 DEF InClasses
<1>3. Summable(f, Classes) /\ Summable(g, Classes)
  BY <1>1, InClassesAre
<1>4. Worth(f, Classes) = Worth(chain.start, Classes)
  BY <1>1, MassConserved
<1>5. Worth(g, Classes) = Worth(other.start, Classes)
  BY <1>1, MassConserved
<1>6. Worth(f, Classes) = Worth(g, Classes)
  BY <1>4, <1>5 DEF AlikeBut
<1>7. \A j \in Classes \ {c} : AtMost(f[j], g[j])
  BY <1>2, MissingElsewhere
<1>8. AtMost(g[c], f[c])
  BY <1>3, <1>6, <1>7, TheRestDecides
<1> QED
  BY <1>2, <1>8

\* No class holds more than there is.
LEMMA NoMoreThanStarts ==
  ASSUME NEW chain, IsChain(chain), NoneNegative(chain), Conserves(chain),
         AtMost(Worth(chain.start, Classes), One), NEW n \in Nat, NEW c \in Classes
  PROVE  AtMost(InClass(chain, n, c), One)
<1>1. PICK f : f = InClasses(chain, n)
  OBVIOUS
<1>2. \A j \in Classes : f[j] = InClass(chain, n, j)
  BY <1>1 DEF InClasses
<1>3. Summable(f, Classes)
  BY <1>1, InClassesAre
<1>4. \A j \in Classes : AtMost(Zero, f[j])
  BY <1>2, NeverNegative
<1>5. AtMost(f[c], Worth(f, Classes)) /\ f[c] \in Finites /\ Worth(f, Classes) \in Finites
  BY <1>3, <1>4, NoMoreThanAll, SumCloses DEF Summable
<1>6. AtMost(Worth(f, Classes), One)
  BY <1>1, MassConserved
<1> QED
  BY <1>2, <1>5, <1>6, ZeroOne, NumbersFrom, AtMostTransitive

-----------------------------------------------------------------------------
(* Rates: two bytes of a class in a row.                                   *)

\* Where a run of a class is after one byte more.
LEMMA RunOfIs ==
  ASSUME NEW c
  PROVE  /\ IsQuotient(RunOf(c)) /\ RunOf(c).start = 0 /\ RunOf(c).threshold = 2
         /\ Blocks(RunOf(c)) = 0 .. 2
         /\ \A y \in Alphabet, b \in 0 .. 2 :
              RunOf(c).rows[y][b] = IF ClassOf[y] # c THEN 0 ELSE IF b = 0 THEN 1 ELSE 2
<1>1. ASSUME NEW b \in 0 .. 2 PROVE Min({b + 1, 2}) = IF b = 0 THEN 1 ELSE 2
  <2>1. Min({b + 1, 2}) = CHOOSE x \in {b + 1, 2} : \A y \in {b + 1, 2} : x <= y
    BY DEF Min
  <2>2. b = 0 \/ b = 1 \/ b = 2
    OBVIOUS
  <2>3. CASE b = 0
    <3>1. Min({b + 1, 2}) \in {1, 2} /\ Min({b + 1, 2}) <= 1
      <4>1. \E x \in {b + 1, 2} : \A y \in {b + 1, 2} : x <= y
        BY <2>3
      <4>2. Min({b + 1, 2}) \in {b + 1, 2} /\ \A y \in {b + 1, 2} : Min({b + 1, 2}) <= y
        BY <2>1, <4>1
      <4> QED
        BY <2>3, <4>2
    <3> QED
      BY <2>3, <3>1
  <2>4. CASE b # 0
    <3>1. \E x \in {b + 1, 2} : \A y \in {b + 1, 2} : x <= y
      BY <2>2, <2>4
    <3>2. Min({b + 1, 2}) \in {b + 1, 2} /\ Min({b + 1, 2}) <= 2
      BY <2>1, <3>1
    <3> QED
      BY <2>2, <2>4, <3>2
  <2> QED
    BY <2>3, <2>4
<1>2. RunOf(c).blocks = 3 /\ RunOf(c).threshold = 2 /\ RunOf(c).start = 0
  BY DEF RunOf
<1>3. 0 .. 3 - 1 = 0 .. 2 /\ 0 \in 0 .. 2 /\ 1 \in 0 .. 2 /\ 2 \in 0 .. 2
  OBVIOUS
<1>4. Blocks(RunOf(c)) = 0 .. 2
  BY <1>2, <1>3 DEF Blocks
<1>5. RunOf(c).rows
        = [y \in DOMAIN ClassOf |->
             [b \in 0 .. 2 |-> IF ClassOf[y] # c THEN 0 ELSE Min({b + 1, 2})]]
  BY DEF RunOf
<1>6. ASSUME NEW y \in Alphabet, NEW b \in 0 .. 2
      PROVE  RunOf(c).rows[y][b] = IF ClassOf[y] # c THEN 0 ELSE IF b = 0 THEN 1 ELSE 2
  <2>1. RunOf(c).rows[y][b] = IF ClassOf[y] # c THEN 0 ELSE Min({b + 1, 2})
    BY <1>5 DEF Alphabet
  <2> QED
    BY <1>1, <2>1
<1>7. RunOf(c).rows \in [DOMAIN ClassOf -> [0 .. 2 -> 0 .. 2]]
  <2>1. ASSUME NEW y \in DOMAIN ClassOf, NEW b \in 0 .. 2
        PROVE  (IF ClassOf[y] # c THEN 0 ELSE Min({b + 1, 2})) \in 0 .. 2
    BY <1>1, <1>3
  <2> QED
    BY <1>5, <2>1
<1> QED
  BY <1>2, <1>3, <1>4, <1>6, <1>7 DEF IsQuotient

\* A run is on after a byte of the class, and long enough after two.
LEMMA RunIsOn ==
  ASSUME NEW c, NEW n \in Nat, NEW doc \in Documents(n + 1)
  PROVE  /\ BlockAfter(RunOf(c), doc) >= 1 <=> ClassOf[doc[n + 1]] = c
         /\ n = 0 => ~(BlockAfter(RunOf(c), doc) >= 2)
         /\ n > 0 =>
              (BlockAfter(RunOf(c), doc) >= 2
                 <=> ClassOf[doc[n + 1]] = c /\ BlockAfter(RunOf(c), Front(doc, n)) >= 1)
<1>1. PICK q, m, prior :
        /\ q = RunOf(c) /\ m = n + 1 /\ m \in Nat /\ m > 0 /\ m - 1 = n /\ prior = Front(doc, n)
  OBVIOUS
<1>2. /\ IsQuotient(q) /\ q.start = 0 /\ Blocks(q) = 0 .. 2
      /\ \A y \in Alphabet, b \in 0 .. 2 :
           q.rows[y][b] = IF ClassOf[y] # c THEN 0 ELSE IF b = 0 THEN 1 ELSE 2
  BY <1>1, RunOfIs
<1>3. prior \in Documents(n) /\ doc[m] \in Alphabet
  BY <1>1, FrontExtended
<1>4. BlockAfter(q, prior) \in 0 .. 2 /\ (n = 0 => BlockAfter(q, prior) = 0)
  BY <1>2, <1>3, BlockIs
<1>5. BlockAfter(q, doc) = q.rows[doc[m]][BlockAfter(q, prior)]
  BY <1>1, <1>2, BlockIs
<1>6. PICK b \in 0 .. 2 : b = BlockAfter(q, prior)
  BY <1>4
<1>7. BlockAfter(q, doc) = IF ClassOf[doc[m]] # c THEN 0 ELSE IF b = 0 THEN 1 ELSE 2
  BY <1>2, <1>3, <1>5, <1>6
<1> QED
  BY <1>1, <1>4, <1>6, <1>7

\* Of the one block an opening ends at its last class.
LEMMA ArrivesInOne ==
  ASSUME NEW n \in Nat, NEW o \in Openings(n)
  PROVE  /\ o[1] \in Classes /\ o[2] \in Documents(n)
         /\ Arrives(OneBlock, n)[o] = <<0, ClassAt(o[1], o[2], n)>>
<1>1. o[1] \in Classes /\ o[2] \in Documents(n)
  BY DEF Openings
<1>2. BlockAfter(OneBlock, o[2]) \in {0}
  BY <1>1, OneBlockIs, BlockIs
<1> QED
  BY <1>1, <1>2 DEF Arrives

\* Of the openings that read two bytes of the class last, all but the last byte end in it.
LEMMA RunsAre ==
  ASSUME NEW c \in Classes, NEW n \in Nat \ {0}, NEW p \in Openings(n + 1)
  PROVE  /\ Shorter(n)[p] \in Openings(n)
         /\ p \in Read(n + 1, Accepted(RunOf(c), n + 1))
              <=> /\ Arrives(OneBlock, n + 1)[p] = <<0, c>>
                  /\ Arrives(OneBlock, n)[Shorter(n)[p]] = <<0, c>>
<1>1. PICK k \in Nat, m \in Nat :
        n = k + 1 /\ m = n + 1 /\ m # 0 /\ n > 0 /\ n \in Nat /\ n \in 1 .. n
  <2>1. n - 1 \in Nat /\ n = (n - 1) + 1 /\ n + 1 \in Nat /\ n + 1 # 0 /\ n > 0 /\ n \in 1 .. n
    OBVIOUS
  <2> QED
    BY <2>1
<1>2. p[1] \in Classes /\ p[2] \in Documents(m)
  BY <1>1, ArrivesInOne
<1>3. PICK doc, prior : doc = p[2] /\ prior = Front(doc, n)
  OBVIOUS
<1>4. prior \in Documents(n) /\ prior[n] = doc[n]
  BY <1>1, <1>2, <1>3, FrontExtended DEF Front
<1>5. Shorter(n)[p] = <<p[1], prior>>
  BY <1>3 DEF Shorter
<1>6. <<p[1], prior>> \in Openings(n)
  BY <1>2, <1>4 DEF Openings
<1>7. Arrives(OneBlock, n)[<<p[1], prior>>] = <<0, ClassOf[doc[n]]>>
  <2>1. Arrives(OneBlock, n)[<<p[1], prior>>] = <<0, ClassAt(p[1], prior, n)>>
    BY <1>1, <1>6, ArrivesInOne
  <2> QED
    BY <1>1, <1>4, <2>1 DEF ClassAt
<1>8. Arrives(OneBlock, m)[p] = <<0, ClassOf[doc[m]]>>
  <2>1. Arrives(OneBlock, m)[p] = <<0, ClassAt(p[1], doc, m)>>
    BY <1>1, <1>3, ArrivesInOne
  <2> QED
    BY <1>1, <2>1 DEF ClassAt
<1>9. BlockAfter(RunOf(c), doc) >= 2 <=> ClassOf[doc[m]] = c /\ BlockAfter(RunOf(c), prior) >= 1
  <2>1. n \in Nat /\ n > 0 /\ doc \in Documents(n + 1)
    BY <1>1, <1>2, <1>3
  <2>2. BlockAfter(RunOf(c), doc) >= 2
          <=> ClassOf[doc[n + 1]] = c /\ BlockAfter(RunOf(c), Front(doc, n)) >= 1
    BY <2>1, RunIsOn
  <2> QED
    BY <1>1, <1>3, <2>2
<1>10. BlockAfter(RunOf(c), prior) >= 1 <=> ClassOf[prior[n]] = c
  BY <1>1, <1>4, RunIsOn
<1>11. p \in Read(m, Accepted(RunOf(c), m)) <=> BlockAfter(RunOf(c), doc) >= 2
  <2>1. RunOf(c).threshold = 2
    BY RunOfIs
  <2> QED
    BY <1>1, <1>2, <1>3, <2>1 DEF Read, Accepted
<1> QED
  BY <1>1, <1>4, <1>5, <1>6, <1>7, <1>8, <1>9, <1>10, <1>11

\* How likely two bytes of the class are after a document of a length.
LEMMA RunTail ==
  ASSUME NEW chain, IsChain(chain), NEW c \in Classes, NEW n \in Nat \ {0}
  PROVE  /\ Chance(chain, Accepted(RunOf(c), n + 1)) \in Finites
         /\ Value(Chance(chain, Accepted(RunOf(c), n + 1))) = Mul(chain.next[c][c], InClass(chain, n, c))
<1>1. PICK m \in Nat \ {0}, t \in Slots(OneBlock) : m = n + 1 /\ t = <<0, c>> /\ n \in Nat
  <2>1. n + 1 \in Nat \ {0} /\ n \in Nat
    OBVIOUS
  <2>2. <<0, c>> \in Slots(OneBlock)
    BY OneBlockIs
  <2> QED
    BY <2>1, <2>2
<1>2. PICK R, W2, N2, E2, N, E, W, Sh :
        /\ R = Read(m, Accepted(RunOf(c), m)) /\ W2 = Weigh(chain, m)
        /\ N2 = Openings(m) /\ E2 = Arrives(OneBlock, m)
        /\ N = Openings(n) /\ E = Arrives(OneBlock, n) /\ W = Weigh(chain, n) /\ Sh = Shorter(n)
  OBVIOUS
<1>3. PICK K : K = Those(N, E, t)
  OBVIOUS
<1>4. /\ Summable(W2, R) /\ Chance(chain, Accepted(RunOf(c), m)) \in Finites
      /\ Value(Chance(chain, Accepted(RunOf(c), m))) = Worth(W2, R)
  <2>1. Accepted(RunOf(c), m) \in SUBSET Documents(m)
    BY DEF Accepted
  <2>2. IsQuotient(RunOf(c))
    BY RunOfIs
  <2> QED
    BY <1>2, <2>1, <2>2, ChanceIs
<1>5. Summable(W, K) /\ Worth(W, K) = InClass(chain, n, c)
  <2>1. Summable(Weigh(chain, n), Those(Openings(n), Arrives(OneBlock, n), t))
    BY <1>1, OneBlockIs, OpeningsAre
  <2> QED
    BY <1>1, <1>2, <1>3, <2>1 DEF InClass, Mass
<1>6. ASSUME NEW p \in N2 PROVE Sh[p] \in N /\ (p \in R <=> E2[p] = t /\ E[Sh[p]] = t)
  BY <1>1, <1>2, RunsAre
<1>7. R \in SUBSET N2
  BY <1>2 DEF Read
<1>8. \A p \in R : Sh[p] \in K
  BY <1>3, <1>6, <1>7 DEF Those
<1>9. PICK x \in Finites : x = chain.next[c][c] /\ Onward(OneBlock, chain, t, t) = Value(x)
  BY <1>1, OnwardInOne
<1>10. PICK H : H = [o \in K |-> Times(x, W[o])]
  OBVIOUS
<1>11. ASSUME NEW o \in K PROVE H[o] \in Finites /\ Value(H[o]) = Mul(x, W[o])
  <2>1. W[o] \in Finites
    BY <1>5 DEF Summable
  <2> QED
    BY <1>10, <2>1, MulIs
<1>12. Summable(H, K)
  BY <1>5, <1>11 DEF Summable
<1>13. ASSUME NEW o \in K PROVE Value(H[o]) = Worth(W2, Those(R, Sh, o))
  <2>1. o \in N /\ E[o] = t
    BY <1>3 DEF Those
  <2>2. Those(R, Sh, o) = Those(Those(N2, E2, t), Sh, o)
    <3>1. ASSUME NEW p
          PROVE  p \in Those(R, Sh, o) <=> p \in Those(Those(N2, E2, t), Sh, o)
      BY <1>6, <1>7, <2>1 DEF Those
    <3> QED
      BY <3>1
  <2>3. Worth(W2, Those(Those(N2, E2, t), Sh, o)) = Mul(Onward(OneBlock, chain, E[o], t), W[o])
    <3>1. Worth(Weigh(chain, n + 1),
                Those(Those(Openings(n + 1), Arrives(OneBlock, n + 1), t), Shorter(n), o))
            = Mul(Onward(OneBlock, chain, Arrives(OneBlock, n)[o], t), Weigh(chain, n)[o])
      BY <1>1, <1>2, <2>1, OneBlockIs, GoingOn
    <3> QED
      BY <1>1, <1>2, <3>1
  <2>4. Mul(Value(x), W[o]) = Mul(x, W[o])
    <3>1. W[o] \in Finites
      BY <1>5 DEF Summable
    <3> QED
      BY <3>1, MulIs
  <2> QED
    BY <1>9, <1>11, <2>1, <2>2, <2>3, <2>4
<1>14. Worth(H, K) = Worth(W2, R)
  BY <1>4, <1>8, <1>12, <1>13, TotalGrouped
<1>15. Worth(H, K) = Mul(x, Worth(W, K))
  <2>1. \A o \in K : Value(H[o]) = Mul(x, W[o])
    BY <1>11
  <2> QED
    BY <1>5, <1>12, <2>1, TotalScaled
<1> QED
  BY <1>1, <1>4, <1>5, <1>9, <1>14, <1>15

\* And after none.
LEMMA NoRunYet ==
  ASSUME NEW chain, IsChain(chain), NEW c \in Classes
  PROVE  /\ Chance(chain, Accepted(RunOf(c), 1)) \in Finites
         /\ Value(Chance(chain, Accepted(RunOf(c), 1))) = Value(Zero)
<1>1. PICK m \in Nat \ {0} : m = 1 /\ m = 0 + 1 /\ 0 \in Nat
  OBVIOUS
<1>2. Accepted(RunOf(c), m) = {}
  <2>1. ASSUME NEW doc \in Documents(m) PROVE ~(BlockAfter(RunOf(c), doc) >= 2)
    BY <1>1, RunIsOn
  <2>2. RunOf(c).threshold = 2
    BY RunOfIs
  <2> QED
    BY <2>1, <2>2 DEF Accepted
<1>3. /\ Chance(chain, Accepted(RunOf(c), m)) \in Finites
      /\ Value(Chance(chain, Accepted(RunOf(c), m)))
           = Worth(Weigh(chain, m), Read(m, Accepted(RunOf(c), m)))
  <2>1. Accepted(RunOf(c), m) \in SUBSET Documents(m)
    BY DEF Accepted
  <2>2. IsQuotient(RunOf(c))
    BY RunOfIs
  <2> QED
    BY <2>1, <2>2, ChanceIs
<1>4. Read(m, Accepted(RunOf(c), m)) = {}
  BY <1>2 DEF Read
<1> QED
  BY <1>1, <1>3, <1>4, SumOfNone

-----------------------------------------------------------------------------
(* Rates: a corpus is counted into chances.                                *)

\* Whole numbers add up as numbers do.
LEMMA WholesAdd ==
  ASSUME NEW a \in Nat, NEW b \in Nat
  PROVE  F(a) \in Finites /\ F(b) \in Finites /\ Value(F(a + b)) = Add(F(a), F(b))
<1>1. PICK x \in Finites, y \in Finites, z \in Finites :
        /\ x = F(a) /\ y = F(b) /\ z = F(a + b)
        /\ Amounts(x, a, 1) /\ Amounts(y, b, 1) /\ Amounts(z, a + b, 1)
  <2>1. a \in Int /\ b \in Int /\ a + b \in Int
    OBVIOUS
  <2> QED
    BY <2>1, Whole
<1>2. a \in Int /\ b \in Int /\ a + b \in Int /\ 1 \in Nat \ {0}
  OBVIOUS
<1>3. Add(x, y) \in Values /\ Amounts(Add(x, y), a + b, 1)
  BY <1>1, <1>2, AddIs
<1>4. Value(z) \in Values /\ Amounts(Value(z), a + b, 1)
  BY <1>1, <1>2, ValueFacts, ValueIs
<1> QED
  BY <1>1, <1>2, <1>3, <1>4, EqualValues

\* A tally, as a sum of numbers.
LEMMA TallyAdds ==
  ASSUME NEW S, IsFiniteSet(S), NEW counts \in [S -> Nat],
         NEW g, g = [x \in S |-> F(counts[x])]
  PROVE  Tally(counts) \in Nat /\ Summable(g, S) /\ Worth(g, S) = Value(F(Tally(counts)))
<1>1. PICK k : /\ Counting(k, S, counts) /\ \A T \in SUBSET S : k[T] \in Nat
               /\ Tally(counts) = k[S]
  BY CountsAdd
<1>2. ASSUME NEW x \in S PROVE counts[x] \in Nat /\ g[x] = F(counts[x]) /\ g[x] \in Finites
  <2>1. counts[x] \in Nat
    OBVIOUS
  <2> QED
    BY <2>1, Whole
<1>3. Summable(g, S)
  BY <1>2 DEF Summable
<1> DEFINE Good == {T \in SUBSET S : Worth(g, T) = Value(F(k[T]))}
<1>4. ASSUME NEW T \in SUBSET S, \A x \in T : T \ {x} \in Good PROVE T \in Good
  <2>1. k[T] = IF T = {} THEN 0 ELSE LET x == CHOOSE x \in T : TRUE IN k[T \ {x}] + counts[x]
    BY <1>1 DEF Counting
  <2>2. CASE T = {}
    <3>1. Worth(g, T) = Value(Zero) /\ k[T] = 0
      BY <2>1, <2>2, SumOfNone
    <3> QED
      BY <3>1 DEF Zero
  <2>3. CASE T # {}
    <3>1. PICK x : x = CHOOSE y \in T : TRUE
      OBVIOUS
    <3>2. x \in T
      BY <2>3, <3>1
    <3>3. /\ T \ {x} \in SUBSET S /\ g[x] \in Finites
          /\ Worth(g, T) = Add(Worth(g, T \ {x}), g[x])
      BY <1>3, <3>2, TermsAre
    <3>4. PICK a \in Nat, b \in Nat : a = k[T \ {x}] /\ b = counts[x] /\ k[T] = a + b /\ g[x] = F(b)
      BY <1>1, <1>2, <2>1, <2>3, <3>1, <3>2, <3>3
    <3>5. Worth(g, T \ {x}) = Value(F(a))
      BY <1>4, <3>2, <3>4
    <3>6. F(a) \in Finites /\ F(b) \in Finites /\ Value(F(a + b)) = Add(F(a), F(b))
      BY WholesAdd
    <3>7. Add(Value(F(a)), F(b)) = Add(F(a), F(b))
      BY <3>6, AddIs
    <3>8. Worth(g, T) = Value(F(k[T]))
      BY <3>3, <3>4, <3>5, <3>6, <3>7
    <3> QED
      BY <3>8
  <2> QED
    BY <2>2, <2>3
<1> HIDE DEF Good
<1>5. S \in Good
  <2>1. \A T \in SUBSET S : (\A x \in T : T \ {x} \in Good) => T \in Good
    BY <1>4
  <2> QED
    BY <2>1, SubsetsInOrder
<1>6. S \in SUBSET S
  OBVIOUS
<1> QED
  BY <1>1, <1>3, <1>5, <1>6 DEF Good

\* A ratio of counts is not negative.
LEMMA RatioNotNegative ==
  ASSUME NEW n \in Nat, NEW of \in Nat
  PROVE  Ratio(n, of) \in Finites /\ AtMost(Zero, Ratio(n, of))
<1>1. Ratio(n, of) \in Finites
  BY RatioIs
<1>2. CASE of = 0
  BY <1>1, <1>2, ZeroOne, NumbersFrom, Ordered DEF Ratio
<1>3. CASE of # 0
  <2>1. of \in Nat \ {0} /\ n \in Int /\ 0 \in Int /\ 0 <= n /\ n * of = n * of
    BY <1>3
  <2>2. Amounts(Fraction(n, of), n, of) /\ Ratio(n, of) = Fraction(n, of)
    BY <1>3, <2>1, FractionIs DEF Ratio
  <2>3. Amounts(Zero, 0, of) /\ Zero \in Finites
    BY <2>1, ZeroOne
  <2> QED
    BY <1>1, <2>1, <2>2, <2>3, OrderIs
<1> QED
  BY <1>2, <1>3

\* Parts of a whole that add up to it are shares that add up to one.
LEMMA RatiosAdd ==
  ASSUME NEW S, IsFiniteSet(S), NEW counts \in [S -> Nat], NEW total \in Nat,
         NEW g, g = [x \in S |-> F(counts[x])], Worth(g, S) = Value(F(total)),
         NEW h, \A x \in S : h[x] = Ratio(counts[x], total)
  PROVE  /\ Summable(h, S) /\ \A x \in S : AtMost(Zero, h[x])
         /\ total # 0 => Worth(h, S) = Value(One)
         /\ total = 0 => Worth(h, S) = Value(Zero)
<1>1. ASSUME NEW x \in S
      PROVE  counts[x] \in Nat /\ h[x] \in Finites /\ AtMost(Zero, h[x])
             /\ g[x] = F(counts[x]) /\ g[x] \in Finites
  <2>1. counts[x] \in Nat
    OBVIOUS
  <2> QED
    BY <2>1, RatioNotNegative, Whole
<1>2. Summable(h, S) /\ Summable(g, S)
  BY <1>1 DEF Summable
<1>3. ASSUME total = 0 PROVE Worth(h, S) = Value(Zero)
  <2>1. \A x \in S \ {} : Value(h[x]) = Value(Zero)
    BY <1>3 DEF Ratio
  <2>2. {} \in SUBSET S
    OBVIOUS
  <2>3. Worth(h, S) = Worth(h, {})
    BY <1>2, <2>1, <2>2, TotalOfOnly
  <2> QED
    BY <2>3, SumOfNone
<1>4. ASSUME total # 0 PROVE Worth(h, S) = Value(One)
  <2>1. total \in Nat \ {0} /\ 1 \in Int /\ 1 * total = 1 * total /\ total \in Int /\ 1 \in Nat \ {0}
        /\ total * 1 = total /\ 1 * total = total
    BY <1>4
  <2>2. PICK u \in Finites : u = Fraction(1, total) /\ Amounts(u, 1, total)
    BY <2>1, FractionIs
  <2>3. ASSUME NEW x \in S PROVE Value(h[x]) = Mul(u, g[x])
    <3>1. PICK n \in Nat : n = counts[x] /\ h[x] = Ratio(n, total) /\ g[x] = F(n)
      BY <1>1
    <3>2. n \in Int /\ n * total = n * total /\ 1 * n = n
      OBVIOUS
    <3>3. PICK y \in Finites : y = Ratio(n, total) /\ Amounts(y, n, total)
      BY <1>4, <2>1, <3>2, FractionIs DEF Ratio
    <3>4. PICK w \in Finites : w = F(n) /\ Amounts(w, n, 1)
      BY <3>2, Whole
    <3>5. Mul(u, w) \in Values /\ Amounts(Mul(u, w), 1 * n, total * 1)
      BY <2>1, <2>2, <3>2, <3>4, MulIs
    <3>6. Value(y) \in Values /\ Amounts(Value(y), n, total)
      BY <2>1, <3>2, <3>3, ValueFacts, ValueIs
    <3>7. Value(y) = Mul(u, w)
      BY <2>1, <3>2, <3>5, <3>6, EqualValues
    <3> QED
      BY <3>1, <3>3, <3>4, <3>7
  <2>4. Worth(h, S) = Mul(u, Worth(g, S))
    BY <1>2, <2>3, TotalScaled
  <2>5. PICK w \in Finites : w = F(total) /\ Amounts(w, total, 1)
    BY <2>1, Whole
  <2>6. Mul(u, Value(w)) = Mul(u, w) /\ Mul(u, w) \in Values /\ Amounts(Mul(u, w), 1 * total, total * 1)
    BY <2>1, <2>2, <2>5, MulIs
  <2>7. Value(One) \in Values /\ Amounts(Value(One), total, total)
    BY <2>1, ZeroOne, ValueFacts, ValueIs
  <2>8. Mul(u, w) = Value(One)
    BY <2>1, <2>6, <2>7, EqualValues
  <2> QED
    BY <2>4, <2>5, <2>6, <2>8
<1> QED
  BY <1>1, <1>2, <1>3, <1>4

\* Every byte of a document is of some class.
LEMMA PartsOfDocument ==
  ASSUME NEW docs \in Corpora, NEW d \in DOMAIN docs,
         NEW row, \A c \in Classes :
           row[c] = F(Cardinality({i \in DOMAIN docs[d] : ClassOf[docs[d][i]] = c}))
  PROVE  /\ \A c \in Classes :
              Cardinality({i \in DOMAIN docs[d] : ClassOf[docs[d][i]] = c}) \in Nat
         /\ Summable(row, Classes) /\ Worth(row, Classes) = Value(F(Len(docs[d])))
<1>1. PICK D, len :
        /\ D = DOMAIN docs[d] /\ len = Len(docs[d]) /\ len \in Nat
        /\ D = 1 .. len /\ IsFiniteSet(D)
  BY CorpusIs
<1>2. \A i \in D : docs[d][i] \in DOMAIN ClassOf
  BY <1>1, CorpusIs
<1>3. PICK ones, key : ones = [i \in D |-> One] /\ key = [i \in D |-> ClassOf[docs[d][i]]]
  OBVIOUS
<1>4. \A i \in D : ones[i] = One /\ key[i] \in Classes /\ key[i] = ClassOf[docs[d][i]]
  BY <1>2, <1>3 DEF Classes
<1>5. Summable(ones, D)
  BY <1>1, <1>4, ZeroOne DEF Summable
<1>6. ASSUME NEW T \in SUBSET D
      PROVE  /\ Cardinality(T) \in Nat /\ F(Cardinality(T)) \in Finites
             /\ Worth(ones, T) = Value(F(Cardinality(T)))
  <2>1. Summable(ones, T)
    BY <1>5, Smaller
  <2>2. Cardinality(T) \in Nat /\ F(Cardinality(T)) \in Finites
    <3>1. IsFiniteSet(T)
      BY <1>1, FS_Subset
    <3>2. PICK n \in Nat : n = Cardinality(T)
      BY <3>1, FS_CardinalityType
    <3>3. n \in Int
      OBVIOUS
    <3> QED
      BY <3>2, <3>3, Whole
  <2>3. \A i \in T : Value(ones[i]) = Value(One)
    BY <1>4
  <2>4. Worth(ones, T) = Mul(F(Cardinality(T)), One)
    BY <2>1, <2>3, ZeroOne, TotalOfEqual
  <2>5. Mul(F(Cardinality(T)), One) = Value(F(Cardinality(T)))
    BY <2>2, ZeroOne, MulLaws
  <2> QED
    BY <2>2, <2>4, <2>5
<1>7. ASSUME NEW c \in Classes
      PROVE  /\ Cardinality({i \in DOMAIN docs[d] : ClassOf[docs[d][i]] = c}) \in Nat
             /\ row[c] \in Finites /\ Value(row[c]) = Worth(ones, Those(D, key, c))
  <2>1. PICK T : T = Those(D, key, c)
    OBVIOUS
  <2>2. T \in SUBSET D /\ T = {i \in DOMAIN docs[d] : ClassOf[docs[d][i]] = c}
    BY <1>1, <1>4, <2>1 DEF Those
  <2>3. row[c] = F(Cardinality(T))
    BY <2>2
  <2> QED
    BY <1>6, <2>1, <2>2, <2>3
<1>8. Summable(row, Classes)
  BY <1>7, ClassesAre DEF Summable
<1>9. Worth(row, Classes) = Worth(ones, D)
  <2>1. \A i \in D : key[i] \in Classes
    BY <1>4
  <2>2. \A c \in Classes : Value(row[c]) = Worth(ones, Those(D, key, c))
    BY <1>7
  <2> QED
    BY <1>5, <1>8, <2>1, <2>2, TotalGrouped
<1>10. Worth(ones, D) = Value(F(len))
  <2>1. Cardinality(D) = len
    <3>1. Cardinality(1 .. len) = len
      <4>1. 1 \in Int /\ len \in Int
        BY <1>1
      <4>2. Cardinality(1 .. len) = IF 1 <= len THEN len - 1 + 1 ELSE 0
        BY <4>1, FS_Interval
      <4> QED
        BY <1>1, <4>2
    <3> QED
      BY <1>1, <3>1
  <2>2. D \in SUBSET D
    OBVIOUS
  <2> QED
    BY <1>6, <2>1, <2>2
<1> QED
  BY <1>1, <1>7, <1>8, <1>9, <1>10

\* Counted by class or by document, the bytes of a corpus are as many.
LEMMA OccursAdd ==
  ASSUME NEW docs \in Corpora, NEW g, g = [c \in Classes |-> F(Occurs(docs, c))]
  PROVE  Worth(g, Classes) = Value(F(Tally([d \in DOMAIN docs |-> Len(docs[d])])))
<1> DEFINE many(d, c) == Cardinality({i \in DOMAIN docs[d] : ClassOf[docs[d][i]] = c})
<1>1. PICK D : D = DOMAIN docs /\ IsFiniteSet(D)
  BY CorpusIs
<1>2. PICK lengths : lengths = [d \in D |-> Len(docs[d])]
  OBVIOUS
<1>12. PICK h : h = [d \in D |-> F(lengths[d])]
  OBVIOUS
<1>13. PICK f : f = [p \in D \X Classes |-> F(many(p[1], p[2]))]
  OBVIOUS
<1>3. ASSUME NEW d \in D
      PROVE  /\ \A c \in Classes : many(d, c) \in Nat
             /\ Worth([c \in Classes |-> F(many(d, c))], Classes) = Value(F(Len(docs[d])))
  <2>1. PICK row : row = [c \in Classes |-> F(many(d, c))]
    OBVIOUS
  <2>2. \A c \in Classes :
          row[c] = F(Cardinality({i \in DOMAIN docs[d] : ClassOf[docs[d][i]] = c}))
    BY <2>1
  <2>3. /\ \A c \in Classes :
             Cardinality({i \in DOMAIN docs[d] : ClassOf[docs[d][i]] = c}) \in Nat
        /\ Summable(row, Classes) /\ Worth(row, Classes) = Value(F(Len(docs[d])))
    BY <1>1, <2>2, PartsOfDocument
  <2> QED
    BY <2>1, <2>3
<1>4. \A c \in Classes : Occurs(docs, c) = Tally([d \in D |-> many(d, c)])
  BY <1>1 DEF Occurs
<1> HIDE DEF many
<1>5. ASSUME NEW d \in D, NEW c \in Classes
      PROVE  f[<<d, c>>] = F(many(d, c)) /\ f[<<d, c>>] \in Finites
  <2>1. f[<<d, c>>] = F(many(d, c))
    BY <1>13
  <2>2. PICK n \in Nat : n = many(d, c)
    BY <1>3
  <2>3. n \in Int
    OBVIOUS
  <2> QED
    BY <2>1, <2>2, <2>3, Whole
<1>6. lengths \in [D -> Nat]
  BY <1>1, <1>2, CorpusIs
<1>7. Summable(h, D) /\ Worth(h, D) = Value(F(Tally(lengths)))
  BY <1>1, <1>6, <1>12, TallyAdds
<1>8. ASSUME NEW c \in Classes
      PROVE  g[c] \in Finites /\ Value(g[c]) = Worth([d \in D |-> f[<<d, c>>]], D)
  <2>1. PICK counts, col :
          counts = [d \in D |-> many(d, c)] /\ col = [d \in D |-> F(counts[d])]
    OBVIOUS
  <2>2. counts \in [D -> Nat]
    BY <1>3, <2>1
  <2>3. Tally(counts) \in Nat /\ Worth(col, D) = Value(F(Tally(counts)))
    BY <1>1, <2>1, <2>2, TallyAdds
  <2>4. col = [d \in D |-> f[<<d, c>>]]
    BY <1>5, <2>1
  <2>5. g[c] = F(Tally(counts))
    BY <1>4, <2>1
  <2>6. F(Tally(counts)) \in Finites
    BY <2>3, Whole
  <2> QED
    BY <2>3, <2>4, <2>5, <2>6
<1>9. Summable(g, Classes)
  BY <1>8, ClassesAre DEF Summable
<1>10. ASSUME NEW d \in D PROVE Value(h[d]) = Worth([c \in Classes |-> f[<<d, c>>]], Classes)
  <2>1. [c \in Classes |-> f[<<d, c>>]] = [c \in Classes |-> F(many(d, c))]
    BY <1>5
  <2>2. h[d] = F(Len(docs[d]))
    BY <1>2, <1>12
  <2> QED
    BY <1>3, <2>1, <2>2
<1>11. Worth(h, D) = Worth(g, Classes)
  <2>1. PICK rows, cols :
          /\ rows = [d \in D |-> [c \in Classes |-> f[<<d, c>>]]]
          /\ cols = [c \in Classes |-> [d \in D |-> f[<<d, c>>]]]
    OBVIOUS
  <2>2. Turned(rows, cols, D, Classes)
    BY <1>5, <2>1 DEF Turned
  <2>3. AddUpTo(h, rows, D, Classes)
    BY <1>7, <1>10, <2>1 DEF AddUpTo
  <2>4. AddUpTo(g, cols, Classes, D)
    BY <1>8, <1>9, <2>1 DEF AddUpTo
  <2>5. IsFiniteSet(Classes)
    BY ClassesAre
  <2> QED
    BY <1>1, <2>2, <2>3, <2>4, <2>5, SumsExchange
<1> QED
  BY <1>1, <1>2, <1>7, <1>11

\* A row that was counted is a distribution, and one that was not absorbs.
LEMMA RowIs ==
  ASSUME NEW docs \in Corpora, NEW from \in Classes, NEW row, row = RowMinted(docs, from)
  PROVE  /\ \A to \in Classes : AtMost(Zero, row[to])
         /\ Summable(row, Classes) /\ Worth(row, Classes) = Value(One)
         /\ SupportOf(docs, from) < Support =>
              \A to \in Classes : row[to] = IF to = from THEN One ELSE Zero
<1>1. PICK total \in Nat : total = SupportOf(docs, from)
  BY CountsAre
<1>2. PICK least \in Nat \ {0} : least = Support
  BY RatesAssumption
<1>3. \A to \in Classes :
        row[to] = IF total >= least THEN Ratio(Follows(docs, from, to), total)
                  ELSE IF from = to THEN One ELSE Zero
  BY <1>1, <1>2 DEF RowMinted
<1>4. IsFiniteSet(Classes)
  BY ClassesAre
<1>5. CASE total >= least
  <2>1. PICK counts : counts = [to \in Classes |-> Follows(docs, from, to)]
    OBVIOUS
  <2>2. counts \in [Classes -> Nat]
    BY <2>1, CountsAre
  <2>3. PICK g : g = [x \in Classes |-> F(counts[x])]
    OBVIOUS
  <2>4. total = Tally(counts)
    BY <1>1, <2>1 DEF SupportOf
  <2>5. Worth(g, Classes) = Value(F(total))
    BY <1>4, <2>2, <2>3, <2>4, TallyAdds
  <2>6. \A x \in Classes : row[x] = Ratio(counts[x], total)
    BY <1>3, <1>5, <2>1
  <2>7. /\ Summable(row, Classes) /\ \A x \in Classes : AtMost(Zero, row[x])
        /\ total # 0 => Worth(row, Classes) = Value(One)
    BY <1>4, <2>2, <2>3, <2>5, <2>6, RatiosAdd
  <2>8. total # 0 /\ ~(total < least)
    BY <1>5
  <2> QED
    BY <1>1, <1>2, <2>7, <2>8
<1>6. CASE ~(total >= least)
  <2>1. \A to \in Classes : row[to] = IF to = from THEN One ELSE Zero
    BY <1>3, <1>6
  <2>2. AtMost(Zero, One) /\ AtMost(Zero, Zero) /\ One \in Finites /\ Zero \in Finites
    BY ZeroOne, OneIsProbable DEF Probable
  <2>3. Summable(row, Classes)
    BY <1>4, <2>1, <2>2 DEF Summable
  <2>4. Worth(row, Classes) = Worth(row, {from})
    <3>1. PICK R : R = {from} /\ R \in SUBSET Classes
      OBVIOUS
    <3>2. \A x \in Classes \ R : Value(row[x]) = Value(Zero)
      BY <2>1, <3>1
    <3> QED
      BY <2>3, <3>1, <3>2, TotalOfOnly
  <2>5. row[from] = One
    BY <2>1
  <2>6. Worth(row, {from}) = Value(One)
    BY <2>2, <2>5, TotalOfOne
  <2> QED
    BY <2>1, <2>2, <2>3, <2>4, <2>6
<1> QED
  BY <1>5, <1>6

\* What a chain minted over a corpus starts from, and how it goes on.
LEMMA MintedIs ==
  ASSUME NEW docs \in Corpora, NEW chain, chain = Persistence(docs)
  PROVE  /\ IsChain(chain) /\ NoneNegative(chain) /\ Conserves(chain)
         /\ AtMost(Worth(chain.start, Classes), One)
         /\ \A c \in Classes : SupportOf(docs, c) < Support => Absorbs(chain, c)
<1>1. IsChain(chain)
  BY MintedIsChain
<1>2. \A from \in Classes : chain.next[from] = RowMinted(docs, from)
  BY DEF Persistence
<1>3. PICK total \in Nat : total = Tally([d \in DOMAIN docs |-> Len(docs[d])])
  BY CountsAre
<1>4. PICK counts : counts = [class \in Classes |-> Occurs(docs, class)]
  OBVIOUS
<1>5. counts \in [Classes -> Nat] /\ IsFiniteSet(Classes)
  BY <1>4, CountsAre, ClassesAre
<1>6. PICK g : g = [x \in Classes |-> F(counts[x])]
  OBVIOUS
<1>7. Worth(g, Classes) = Value(F(total))
  <2>1. g = [c \in Classes |-> F(Occurs(docs, c))]
    BY <1>4, <1>6
  <2> QED
    BY <1>3, <2>1, OccursAdd
<1>8. PICK h : h = chain.start /\ \A x \in Classes : h[x] = Ratio(counts[x], total)
  BY <1>3, <1>4 DEF Persistence
<1>9. /\ Summable(h, Classes) /\ \A x \in Classes : AtMost(Zero, h[x])
      /\ total # 0 => Worth(h, Classes) = Value(One)
      /\ total = 0 => Worth(h, Classes) = Value(Zero)
  BY <1>5, <1>6, <1>7, <1>8, RatiosAdd
<1>10. AtMost(Worth(h, Classes), One)
  <2>1. AtMost(One, One) /\ AtMost(Zero, One) /\ One \in Finites /\ Zero \in Finites
    BY ZeroOne, OneIsProbable DEF Probable
  <2>2. AtMost(Value(One), One) /\ AtMost(Value(Zero), One)
    BY <2>1, ValueOrdered
  <2> QED
    BY <1>9, <2>2
<1>11. ASSUME NEW c \in Classes
       PROVE  /\ \A j \in Classes : AtMost(Zero, chain.next[c][j])
              /\ Summable(chain.next[c], Classes) /\ Worth(chain.next[c], Classes) = Value(One)
              /\ SupportOf(docs, c) < Support =>
                   \A j \in Classes : chain.next[c][j] = IF j = c THEN One ELSE Zero
  <2>1. PICK row : row = chain.next[c] /\ row = RowMinted(docs, c)
    BY <1>2
  <2>2. /\ \A to \in Classes : AtMost(Zero, row[to])
        /\ Summable(row, Classes) /\ Worth(row, Classes) = Value(One)
        /\ SupportOf(docs, c) < Support =>
              \A to \in Classes : row[to] = IF to = c THEN One ELSE Zero
    BY <2>1, RowIs
  <2> QED
    BY <2>1, <2>2
<1> QED
  BY <1>1, <1>8, <1>9, <1>10, <1>11 DEF NoneNegative, Conserves, Absorbs

-----------------------------------------------------------------------------
(* Rates: averages in order.                                               *)

\* In order before they are divided by a number of rounds, and after.
LEMMA DividedOrdered ==
  ASSUME NEW x \in Finites, NEW y \in Finites, AtMost(x, y), NEW m \in Nat \ {0}
  PROVE  /\ Divided(x, F(m)) \in Finites /\ Divided(y, F(m)) \in Finites
         /\ AtMost(Divided(x, F(m)), Divided(y, F(m)))
<1>1. PICK d \in Nat \ {0}, a \in Int, b \in Int, c \in Int :
        Amounts(x, a, d) /\ Amounts(y, b, d) /\ Amounts(y, c, d)
  BY OverOne
<1>2. a <= b
  BY <1>1, OrderIs
<1>3. PICK w \in Finites : w = F(m) /\ Amounts(w, m, 1) /\ 1 \in Nat \ {0}
  BY Whole
<1>4. /\ Divided(x, w) \in Finites /\ a * 1 \in Int /\ d * m \in Nat \ {0}
      /\ Amounts(Divided(x, w), a * 1, d * m)
  BY <1>1, <1>3, DividedIs
<1>5. /\ Divided(y, w) \in Finites /\ b * 1 \in Int /\ d * m \in Nat \ {0}
      /\ Amounts(Divided(y, w), b * 1, d * m)
  BY <1>1, <1>3, DividedIs
<1>6. a * 1 <= b * 1
  BY <1>1, <1>2
<1> QED
  BY <1>3, <1>4, <1>5, <1>6, OrderIs

\* What is expected is the tails' sum, divided by the rounds.
LEMMA ExpectedFrom ==
  ASSUME NEW chain, IsChain(chain), NEW q, IsQuotient(q)
  PROVE  \E x \in Finites :
           /\ x = Worth(Tails(q, chain), 1 .. Iterations)
           /\ Summable(Tails(q, chain), 1 .. Iterations)
           /\ Divided(x, F(Iterations)) \in Finites /\ Expected(q, chain) \in Finites
           /\ Value(Divided(x, F(Iterations))) = Value(Expected(q, chain))
<1>1. /\ Summable(Tails(q, chain), 1 .. Iterations)
      /\ Expected(q, chain) \in Finites
      /\ \A x \in Finites :
           Value(x) = Worth(Tails(q, chain), 1 .. Iterations) =>
             /\ Divided(x, F(Iterations)) \in Finites
             /\ Value(Divided(x, F(Iterations))) = Value(Expected(q, chain))
  BY ExpectedIs
<1>2. PICK s \in Finites : s = Sum(Tails(q, chain), 1 .. Iterations)
  BY <1>1, SumCloses
<1>3. PICK x \in Finites : x = Worth(Tails(q, chain), 1 .. Iterations) /\ x = Value(s)
  BY <1>1, <1>2, SumCloses DEF Worth
<1>4. Value(x) = x
  BY <1>3, ValueFacts
<1> QED
  BY <1>1, <1>3, <1>4

\* Tails in order are averages in order.
LEMMA ExpectedOrdered ==
  ASSUME NEW chain, IsChain(chain), NEW other, IsChain(other), NEW q, IsQuotient(q),
         \A n \in 1 .. Iterations : AtMost(Tails(q, chain)[n], Tails(q, other)[n])
  PROVE  AtMost(Expected(q, chain), Expected(q, other))
<1>1. Iterations \in Nat \ {0}
  BY RatesAssumption
<1>2. PICK f, g, N, e, o :
        /\ f = Tails(q, chain) /\ g = Tails(q, other) /\ N = 1 .. Iterations
        /\ e = Expected(q, chain) /\ o = Expected(q, other)
  OBVIOUS
<1>3. PICK x \in Finites :
        /\ x = Worth(f, N) /\ Summable(f, N)
        /\ Divided(x, F(Iterations)) \in Finites /\ e \in Finites
        /\ Value(Divided(x, F(Iterations))) = Value(e)
  BY <1>2, ExpectedFrom
<1>4. PICK y \in Finites :
        /\ y = Worth(g, N) /\ Summable(g, N)
        /\ Divided(y, F(Iterations)) \in Finites /\ o \in Finites
        /\ Value(Divided(y, F(Iterations))) = Value(o)
  BY <1>2, ExpectedFrom
<1>5. AtMost(x, y)
  <2>1. \A n \in N : AtMost(f[n], g[n])
    BY <1>2
  <2> QED
    BY <1>3, <1>4, <2>1, WorthOrdered
<1>6. AtMost(Divided(x, F(Iterations)), Divided(y, F(Iterations)))
  BY <1>1, <1>5, DividedOrdered
<1>7. AtMost(e, Divided(y, F(Iterations)))
  BY <1>3, <1>4, <1>6, AlikeOrdered
<1>8. AtMost(e, o)
  BY <1>3, <1>4, <1>7, AlikeOrdered
<1> QED
  BY <1>2, <1>8

\* Tails that are chances average to one.
LEMMA ExpectedIsChance ==
  ASSUME NEW chain, IsChain(chain), NEW q, IsQuotient(q),
         \A n \in 1 .. Iterations : AtMost(Tails(q, chain)[n], One)
  PROVE  AtMost(Expected(q, chain), One)
<1>1. PICK m \in Nat \ {0} : m = Iterations
  BY RatesAssumption
<1>2. PICK f, N, e :
        f = Tails(q, chain) /\ N = 1 .. m /\ e = Expected(q, chain)
  OBVIOUS
<1>3. PICK x \in Finites :
        /\ x = Worth(f, N) /\ Summable(f, N)
        /\ Divided(x, F(m)) \in Finites /\ e \in Finites
        /\ Value(Divided(x, F(m))) = Value(e)
  BY <1>1, <1>2, ExpectedFrom
<1>4. IsFiniteSet(N) /\ Cardinality(N) = m
  <2>1. 1 \in Int /\ m \in Int /\ 1 <= m /\ m - 1 + 1 = m
    OBVIOUS
  <2>2. IsFiniteSet(1 .. m) /\ Cardinality(1 .. m) = IF 1 > m THEN 0 ELSE m - 1 + 1
    BY <2>1, FS_Interval
  <2> QED
    BY <1>2, <2>1, <2>2
<1>5. PICK ones : ones = [n \in N |-> One]
  OBVIOUS
<1>6. Summable(ones, N) /\ \A n \in N : ones[n] = One
  BY <1>4, <1>5, ZeroOne DEF Summable
<1>7. PICK w \in Finites : w = F(m)
  <2>1. m \in Int
    OBVIOUS
  <2> QED
    BY <2>1, Whole
<1>8. Worth(ones, N) = Value(w)
  <2>1. Worth(ones, N) = Mul(F(Cardinality(N)), One)
    <3>1. \A n \in N : Value(ones[n]) = Value(One)
      BY <1>6
    <3> QED
      BY <1>6, <3>1, ZeroOne, TotalOfEqual
  <2>2. Mul(w, One) = Value(w)
    BY ZeroOne, MulLaws
  <2> QED
    BY <1>4, <1>7, <2>1, <2>2
<1>9. AtMost(x, Value(w))
  <2>1. \A n \in N : AtMost(f[n], ones[n])
    BY <1>1, <1>2, <1>6
  <2> QED
    BY <1>3, <1>6, <1>8, <2>1, WorthOrdered
<1>10. AtMost(x, w)
  BY <1>9, ValueOrdered
<1>11. AtMost(Divided(x, F(m)), Divided(w, F(m))) /\ Divided(w, F(m)) \in Finites
  BY <1>10, DividedOrdered
<1>12. Value(Divided(w, F(m))) = Value(One) /\ One \in Finites
  BY <1>7, AllOfIt, ZeroOne
<1>13. AtMost(Divided(x, F(m)), One)
  BY <1>3, <1>11, <1>12, AlikeOrdered
<1>14. AtMost(e, One)
  BY <1>3, <1>12, <1>13, AlikeOrdered
<1> QED
  BY <1>2, <1>14

-----------------------------------------------------------------------------
(* Rates: what is too thin to measure reads as the worst case.             *)

\* A distribution, as numbers that add up to one.
LEMMA DistributionIs ==
  ASSUME NEW row \in Distributions
  PROVE  /\ row \in [Classes -> Finites] /\ \A c \in Classes : AtMost(Zero, row[c])
         /\ Summable(row, Classes) /\ Worth(row, Classes) = Value(One)
         /\ \A c \in Classes : row[c] \in Finites /\ AtMost(row[c], One)
<1>1. /\ row \in [Classes -> Finites] /\ \A c \in Classes : AtMost(Zero, row[c])
      /\ Same(Sum(row, Classes), One)
  BY RatesAssumption, SharesAre DEF IsDistribution, AtMost
<1>2. Summable(row, Classes)
  BY <1>1, ClassesAre DEF Summable
<1>3. PICK s \in Finites : s = Sum(row, Classes) /\ Worth(row, Classes) = Value(s)
  BY <1>2, SumCloses DEF Worth
<1>4. Worth(row, Classes) = Value(One)
  BY <1>1, <1>3, ZeroOne, SameIs
<1>5. ASSUME NEW c \in Classes PROVE row[c] \in Finites /\ AtMost(row[c], One)
  <2>1. PICK x \in Finites : x = row[c]
    BY <1>1
  <2>2. AtMost(x, Value(One))
    BY <1>1, <1>2, <1>4, <2>1, NoMoreThanAll
  <2> QED
    BY <2>1, <2>2, ZeroOne, ValueOrdered
<1> QED
  BY <1>1, <1>2, <1>4, <1>5

\* A chain with another row is a chain.
LEMMA OtherRow ==
  ASSUME NEW chain, IsChain(chain), NoneNegative(chain), Conserves(chain), NEW c \in Classes,
         NEW row \in Distributions, NEW other, AlikeBut(chain, other, c), other.next[c] = row,
         other.next = [i \in Classes |-> other.next[i]]
  PROVE  IsChain(other) /\ NoneNegative(other) /\ Conserves(other)
<1>1. /\ row \in [Classes -> Finites] /\ \A j \in Classes : AtMost(Zero, row[j])
      /\ Summable(row, Classes) /\ Worth(row, Classes) = Value(One)
  BY DistributionIs
<1>2. chain.next \in [Classes -> [Classes -> Finites]] /\ chain.start \in [Classes -> Finites]
  BY SharesAre DEF IsChain
<1>3. /\ other.start = chain.start
      /\ \A i \in Classes : other.next[i] = IF i = c THEN row ELSE chain.next[i]
  BY DEF AlikeBut
<1>4. other.next \in [Classes -> [Classes -> Finites]]
  BY <1>1, <1>2, <1>3
<1>5. IsChain(other)
  BY <1>2, <1>3, <1>4, SharesAre DEF IsChain
<1>6. NoneNegative(other)
  BY <1>1, <1>3 DEF NoneNegative
<1>7. Conserves(other)
  BY <1>1, <1>3 DEF Conserves
<1> QED
  BY <1>5, <1>6, <1>7

\* At every length a run through the class is as likely as can be with the row that absorbs,
\* and no more likely than anything.
LEMMA TailsInOrder ==
  ASSUME NEW chain, IsChain(chain), NoneNegative(chain), Conserves(chain),
         AtMost(Worth(chain.start, Classes), One),
         NEW other, IsChain(other), NoneNegative(other), Conserves(other),
         NEW c \in Classes, Absorbs(chain, c), AlikeBut(chain, other, c),
         NEW x \in Finites, x = other.next[c][c], AtMost(x, One),
         NEW n \in 1 .. Iterations
  PROVE  /\ AtMost(Tails(RunOf(c), other)[n], Tails(RunOf(c), chain)[n])
         /\ AtMost(Tails(RunOf(c), chain)[n], One)
<1>1. Iterations \in Nat \ {0}
  BY RatesAssumption
<1>2. PICK t, o :
        /\ t = Chance(chain, Accepted(RunOf(c), n)) /\ o = Chance(other, Accepted(RunOf(c), n))
  OBVIOUS
<1>3. Tails(RunOf(c), chain)[n] = t /\ Tails(RunOf(c), other)[n] = o
  BY <1>2 DEF Tails
<1>4. CASE n = 1
  <2>1. t \in Finites /\ Value(t) = Value(Zero)
    BY <1>2, <1>4, NoRunYet
  <2>2. o \in Finites /\ Value(o) = Value(Zero)
    BY <1>2, <1>4, NoRunYet
  <2>3. AtMost(Zero, Zero) /\ AtMost(Zero, One) /\ Zero \in Finites /\ One \in Finites
    BY ZeroOne, OneIsProbable DEF Probable
  <2>4. AtMost(o, Zero) /\ AtMost(t, One)
    BY <2>1, <2>2, <2>3, AlikeOrdered
  <2>5. AtMost(o, t)
    BY <2>1, <2>2, <2>3, <2>4, AlikeOrdered
  <2> QED
    BY <1>3, <2>4, <2>5
<1>5. CASE n # 1
  <2>1. PICK k \in Nat \ {0} : n = k + 1 /\ k \in Nat
    <3>1. n - 1 \in Nat \ {0} /\ n = (n - 1) + 1
      BY <1>1, <1>5
    <3> QED
      BY <3>1
  <2>2. PICK a \in Finites : a = InClass(chain, k, c) /\ Value(a) = a
    BY InClassIs
  <2>3. PICK b \in Finites : b = InClass(other, k, c) /\ Value(b) = b
    BY InClassIs
  <2>4. t \in Finites /\ Value(t) = Mul(chain.next[c][c], InClass(chain, k, c))
    BY <1>2, <2>1, RunTail
  <2>5. Value(t) = a
    <3>1. chain.next[c][c] = One
      BY DEF Absorbs
    <3>2. Mul(One, a) = Mul(a, One) /\ Mul(a, One) = Value(a)
      BY ZeroOne, MulLaws
    <3> QED
      BY <2>2, <2>4, <3>1, <3>2
  <2>6. o \in Finites /\ Value(o) = Mul(x, b)
    BY <1>2, <2>1, <2>3, RunTail
  <2>7. AtMost(Zero, b)
    BY <2>3, NeverNegative
  <2>8. AtMost(Mul(x, b), b)
    BY <2>7, MulShrinks
  <2>9. AtMost(b, a)
    BY <2>2, <2>3, AbsorbsTheMost
  <2>10. AtMost(a, One)
    BY <2>2, NoMoreThanStarts
  <2>11. Mul(x, b) \in Finites
    BY MulIs
  <2>12. AtMost(Mul(x, b), a)
    BY <2>8, <2>9, <2>11, NumbersFrom, AtMostTransitive
  <2>13. AtMost(o, a)
    BY <2>6, <2>12, ValueOrdered
  <2>14. AtMost(o, t) /\ AtMost(t, One)
    BY <2>4, <2>5, <2>6, <2>10, <2>13, ZeroOne, ValueOrdered
  <2> QED
    BY <1>3, <2>14
<1> QED
  BY <1>4, <1>5

\* So it is on the average.
LEMMA AbsorbingIsWorst ==
  ASSUME NEW docs \in Corpora, NEW c \in Classes, SupportOf(docs, c) < Support,
         NEW row \in Distributions, NEW chain, chain = Persistence(docs),
         NEW other, other = [chain EXCEPT !.next[c] = row]
  PROVE  /\ Expected(RunOf(c), chain) \in Finites /\ Expected(RunOf(c), other) \in Finites
         /\ AtMost(Expected(RunOf(c), other), Expected(RunOf(c), chain))
         /\ AtMost(Expected(RunOf(c), chain), One)
<1>1. /\ IsChain(chain) /\ NoneNegative(chain) /\ Conserves(chain)
      /\ AtMost(Worth(chain.start, Classes), One) /\ Absorbs(chain, c)
  BY MintedIs
<1>2. /\ IsChain(other) /\ NoneNegative(other) /\ Conserves(other)
      /\ AlikeBut(chain, other, c) /\ other.next[c] = row
  <2>1. chain.next = [i \in Classes |-> chain.next[i]]
    BY DEF Persistence
  <2>2. other.start = chain.start /\ other.next = [chain.next EXCEPT ![c] = row]
    BY DEF Persistence
  <2>3. AlikeBut(chain, other, c)
    BY <2>1, <2>2 DEF AlikeBut
  <2>4. other.next[c] = row /\ other.next = [i \in Classes |-> other.next[i]]
    BY <2>1, <2>2
  <2>5. IsChain(other) /\ NoneNegative(other) /\ Conserves(other)
    <3> HIDE DEF AlikeBut
    <3> QED
      BY <1>1, <2>3, <2>4, OtherRow
  <2> QED
    BY <2>3, <2>4, <2>5
<1>3. PICK x \in Finites : x = other.next[c][c] /\ AtMost(x, One)
  BY <1>2, DistributionIs
<1>4. \A n \in 1 .. Iterations :
        /\ AtMost(Tails(RunOf(c), other)[n], Tails(RunOf(c), chain)[n])
        /\ AtMost(Tails(RunOf(c), chain)[n], One)
  BY <1>1, <1>2, <1>3, TailsInOrder
<1>5. IsQuotient(RunOf(c))
  BY RunOfIs
<1>6. Expected(RunOf(c), chain) \in Finites /\ Expected(RunOf(c), other) \in Finites
  BY <1>1, <1>2, <1>5, ExpectedIs
<1>7. AtMost(Expected(RunOf(c), other), Expected(RunOf(c), chain))
  BY <1>1, <1>2, <1>4, <1>5, ExpectedOrdered
<1>8. AtMost(Expected(RunOf(c), chain), One)
  BY <1>1, <1>4, <1>5, ExpectedIsChance
<1> QED
  BY <1>6, <1>7, <1>8

\* What was minted is among the chains of the sweep.
MintedIsSwept ==
  stage # "mint" /\ corpus # <<>> => \E i \in 1 .. Len(chains) : chains[i] = Persistence(corpus)

\* Before anything is minted there is nothing to show.
LEMMA SweptStarts == RatesInit => MintedIsSwept
BY DEF RatesInit, MintedIsSwept

\* Minting appends it, and no later step changes the sweep.
LEMMA SweptStays == ASSUME RatesInv, MintedIsSwept, [RatesNext]_ratesVars PROVE MintedIsSwept'
<1>1. CASE Mint
  <2>1. /\ stage = "mint" /\ corpus' = corpus
        /\ chains' = IF corpus = <<>> THEN chains ELSE Append(chains, Persistence(corpus))
    BY <1>1 DEF Mint
  <2>2. CASE corpus # <<>>
    <3>1. chains \in Seq({chains[i] : i \in DOMAIN chains})
      BY DEF RatesInv, Sweeping, Listed
    <3>2. PICK s, P : s = chains /\ P = Persistence(corpus)
      OBVIOUS
    <3>3. PICK T : T = {s[i] : i \in DOMAIN s} \cup {P}
      OBVIOUS
    <3>4. Len(s) \in Nat /\ DOMAIN s = 1 .. Len(s) /\ s = [i \in 1 .. Len(s) |-> s[i]]
      BY <3>1, <3>2, LenProperties
    <3>5. s \in Seq(T)
      <4>1. \A i \in 1 .. Len(s) : s[i] \in T
        BY <3>3, <3>4
      <4> QED
        BY <3>4, <4>1, SeqDef
    <3>6. PICK z : z = Append(s, P)
      OBVIOUS
    <3>7. P \in T
      BY <3>3
    <3>8. Len(z) = Len(s) + 1 /\ z[Len(s) + 1] = P
      BY <3>5, <3>6, <3>7, AppendProperties
    <3>9. Len(z) \in 1 .. Len(z) /\ z[Len(z)] = P
      BY <3>4, <3>8
    <3>10. chains' = z /\ Persistence(corpus)' = P
      BY <2>1, <2>2, <3>2, <3>6
    <3> QED
      BY <3>9, <3>10 DEF MintedIsSwept
  <2> QED
    BY <2>1, <2>2 DEF MintedIsSwept
<1>2. CASE ~Mint
  <2>1. stage # "mint" \/ stage' = stage
    BY <1>2 DEF RatesNext, Seed, Fill, Draw, Swap, EndChain, EndQuotient, Return, ratesVars
  <2>2. chains' = chains /\ corpus' = corpus
    BY <1>2 DEF RatesNext, Seed, Fill, Draw, Swap, EndChain, EndQuotient, Return, ratesVars, args
  <2> QED
    BY <2>1, <2>2 DEF MintedIsSwept
<1> QED
  BY <1>1, <1>2

\* A sweep that is done has priced the run at what the minted chain expects, or more.
LEMMA ThinIsPriced == ASSUME RatesInv, MintedIsSwept PROVE ThinRowsReadAsWorst
<1> SUFFICES ASSUME stage = "done", corpus # <<>>, NEW class \in Classes,
                    SupportOf(corpus, class) < Support, quotients = <<RunOf(class)>>,
                    NEW row \in Distributions
             PROVE  ~Less(best, Expected(RunOf(class),
                                         [Persistence(corpus) EXCEPT !.next[class] = row]))
  BY DEF ThinRowsReadAsWorst
<1>1. Sweeping /\ Folded /\ corpus \in Corpora
  BY DEF RatesInv, Sweeping
<1>2. PICK chain, other, q :
        /\ chain = Persistence(corpus) /\ other = [chain EXCEPT !.next[class] = row]
        /\ q = RunOf(class)
  OBVIOUS
<1>3. PICK e \in Finites, o \in Finites :
        /\ e = Expected(q, chain) /\ o = Expected(q, other) /\ AtMost(o, e) /\ AtMost(e, One)
  BY <1>1, <1>2, AbsorbingIsWorst
<1>4. Len(quotients) = 1 /\ quotients[1] = q
  BY <1>2
<1>5. /\ Len(chains) \in Nat /\ \A c \in 1 .. Len(chains) : IsChain(chains[c])
      /\ qi - 1 = 1
  <2>1. qi \in 1 .. 1 + 1 /\ qi > 1
    BY <1>1, <1>4 DEF Sweeping
  <2> QED
    BY <1>1, <2>1, SequencesAre
<1>6. PICK S, w : S = RatingsOf(q, chains, Len(chains)) /\ w = MostOf(S)
  OBVIOUS
<1>7. S \in SUBSET Finites /\ IsFiniteSet(S)
  BY <1>2, <1>5, <1>6, RunOfIs, RatingsAre
<1>8. Zero \in S /\ Zero # NaN /\ S \in SUBSET Floats
  BY <1>6, <1>7, ZeroOne, OfFinites, FinitesFacts DEF RatingsOf
<1>9. w \in S /\ w \in Finites /\ \A z \in S : z # NaN => AtMost(z, w)
  BY <1>6, <1>7, <1>8, MostOfFacts
<1>10. e \in S
  <2>1. PICK i \in 1 .. Len(chains) : chains[i] = chain
    BY <1>2 DEF MintedIsSwept
  <2> QED
    BY <1>3, <1>6, <2>1 DEF RatingsOf
<1>11. AtMost(e, w)
  BY <1>9, <1>10, OfFinites
<1>12. WorstsOf(quotients, chains, 1) = {One, w}
  <2>1. 1 .. 1 = {1}
    OBVIOUS
  <2> QED
    BY <1>4, <1>6, <2>1 DEF WorstsOf
<1>13. Smallest(best, {One, w})
  BY <1>1, <1>5, <1>12 DEF Folded
<1>14. PICK y \in {One, w} : best \in Finites /\ Value(best) = Value(y)
  BY <1>13 DEF Smallest
<1>15. y \in Finites /\ AtMost(e, y)
  BY <1>3, <1>9, <1>11, <1>14, ZeroOne
<1>16. AtMost(o, y)
  BY <1>3, <1>15, NumbersFrom, AtMostTransitive
<1>17. AtMost(o, best)
  BY <1>14, <1>15, <1>16, AlikeOrdered
<1> QED
  BY <1>2, <1>3, <1>17 DEF AtMost

\* What a corpus was too thin to measure is priced as the worst case.
THEOREM WhatIsThinIsTheWorst == RatesSpec => []ThinRowsReadAsWorst
<1>1. RatesInv /\ MintedIsSwept => ThinRowsReadAsWorst
  BY ThinIsPriced
<1>2. RatesInit => MintedIsSwept
  BY SweptStarts
<1>3. RatesInv /\ MintedIsSwept /\ [RatesNext]_ratesVars => MintedIsSwept'
  BY SweptStays
<1> QED
  BY <1>1, <1>2, <1>3, TheSweepKeepsItsBooks, PTL DEF RatesSpec
=============================================================================
