------------------------------ MODULE Dispatch ------------------------------
(***************************************************************************)
(* Which kernel runs (arch/mod.rs): the probes that say what this silicon   *)
(* can execute, the election among the kernels somebody has timed, and the  *)
(* one relaxed atomic that memoizes the answer, read by every scan and      *)
(* every pricing of every thread and overwritten by `force`.                *)
(***************************************************************************)
EXTENDS Integers, Sequences, FiniteSets

CONSTANTS
  Threads,
  Machines,   \* the machines and builds the process may run on
  Tables,     \* what MINTED may price: a cost for each kernel, or None
  None

\* The enumeration, in the order its discriminants count from 0.
Variants == <<"Avx512", "Avx2", "Neon", "Ssse3", "Simd128", "Scalar">>
Kernels == {Variants[i] : i \in DOMAIN Variants}

Features == {"ssse3", "osxsave", "avx", "avx2", "avx512f", "avx512bw"}
XCR0_YMM == {"sse", "ymm"}
XCR0_ZMM == XCR0_YMM \cup {"opmask", "zmm_hi256", "hi16_zmm"}

\* What executing a kernel takes: instructions, and registers the operating system
\* preserves.  The instruction sets nest, as they do in every processor that exists.
Instructions(k) ==
  IF k = "Avx512" THEN {"avx512f", "avx512bw", "avx2", "avx", "ssse3"}
  ELSE IF k = "Avx2" THEN {"avx2", "avx", "ssse3"}
  ELSE IF k = "Ssse3" THEN {"ssse3"}
  ELSE {}
Registers(k) ==
  IF k = "Avx512" THEN XCR0_ZMM ELSE IF k = "Avx2" THEN XCR0_YMM ELSE {}
Home(k) ==
  IF k \in {"Avx512", "Avx2", "Ssse3"} THEN {"x86_64"}
  ELSE IF k = "Neon" THEN {"aarch64"}
  ELSE IF k = "Simd128" THEN {"wasm32"}
  ELSE {"x86_64", "aarch64", "wasm32"}

CanExecute(m, k) ==
  /\ m.arch \in Home(k)
  /\ Instructions(k) \subseteq m.cpuid
  /\ Registers(k) \subseteq m.xcr0

\* A machine: its architecture, the highest CPUID leaf `leaves` reports (0 under Miri),
\* the feature bits, the state the operating system saves, and the kernels the build
\* takes for granted.  A wide instruction set comes with the narrower ones, and a build
\* runs only where what it takes for granted can execute.
IsMachine(m) ==
  /\ m.arch \in {"x86_64", "aarch64", "wasm32"}
  /\ m.leaves \in Nat
  /\ m.cpuid \subseteq Features
  /\ "avx512bw" \in m.cpuid => "avx512f" \in m.cpuid
  /\ "avx512f" \in m.cpuid => "avx2" \in m.cpuid
  /\ "avx2" \in m.cpuid => {"avx", "ssse3"} \subseteq m.cpuid
  /\ m.xcr0 \subseteq XCR0_ZMM
  /\ m.built \subseteq {"Avx512", "Avx2", "Ssse3"}
  /\ \A k \in m.built : CanExecute(m, k)

ASSUME MachinesAssumption == \A m \in Machines : IsMachine(m)
ASSUME TablesAssumption == \A table \in Tables : table \in [Kernels -> Nat \cup {None}]
ASSUME NoneAssumption == None \notin Kernels /\ None \notin Nat

VARIABLES
  machine,    \* never changes
  table,      \* MINTED; never changes
  resolved,   \* RESOLVED: the code of a kernel, 0 before the first answer
  pc,         \* what each thread is in the middle of resolving, None if nothing
  priced,     \* the kernel each thread's policy was priced for
  ran,        \* the kernel each thread's last scan ran on
  forced,     \* the kernel the last `force` that answered true was given
  overtaken   \* the threads that were inside `kernel` when a `force` returned

vars == <<machine, table, resolved, pc, priced, ran, forced, overtaken>>

-----------------------------------------------------------------------------
(* The probes and the election: functions of the machine and the table.    *)

\* Mutant: the code is the discriminant itself.
CodeUnshifted(k) == (CHOOSE i \in DOMAIN Variants : Variants[i] = k) - 1

\* Mutant: shifted twice, so that the last kernel falls off the end.
CodeShiftedTwice(k) == (CHOOSE i \in DOMAIN Variants : Variants[i] = k) + 1

\* `code` and `decode`: discriminants shifted past 0, which stands for no answer yet.
Code(k) == CHOOSE i \in DOMAIN Variants : Variants[i] = k
Decode(code) == IF code \in DOMAIN Variants THEN Variants[code] ELSE None

\* Mutant: the operating system is not asked.
PreservedBySilicon(m, state) == {"osxsave", "avx"} \subseteq m.cpuid

\* `preserved`.
Preserved(m, state) == {"osxsave", "avx"} \subseteq m.cpuid /\ state \subseteq m.xcr0

HasSsse3(m) ==
  \/ "Ssse3" \in m.built
  \/ m.leaves >= 1 /\ "ssse3" \in m.cpuid

HasAvx2(m) ==
  \/ "Avx2" \in m.built
  \/ m.leaves >= 7 /\ Preserved(m, XCR0_YMM) /\ "avx2" \in m.cpuid

HasAvx512(m) ==
  \/ "Avx512" \in m.built
  \/ m.leaves >= 7 /\ Preserved(m, XCR0_ZMM) /\ {"avx512f", "avx512bw"} \subseteq m.cpuid

\* `available`: widest first, ending in the scalar path.
Available(m) ==
  IF m.arch = "aarch64" THEN <<"Neon", "Scalar">>
  ELSE IF m.arch = "wasm32" THEN <<"Simd128", "Scalar">>
  ELSE IF HasAvx512(m) THEN <<"Avx512", "Avx2", "Ssse3", "Scalar">>
  ELSE IF HasAvx2(m) THEN <<"Avx2", "Ssse3", "Scalar">>
  ELSE IF HasSsse3(m) THEN <<"Ssse3", "Scalar">>
  ELSE <<"Scalar">>

Rungs(m) == {Available(m)[i] : i \in DOMAIN Available(m)}

\* The body of `kernel` on a miss: the cheapest priced rung, the widest of equals,
\* and the widest of all where nothing is priced.
Elected(m, costs) ==
  LET ladder == Available(m)
      timed  == {i \in DOMAIN ladder : costs[ladder[i]] # None}
  IN IF timed = {}
       THEN ladder[1]
       ELSE ladder[CHOOSE i \in timed : \A j \in timed :
                     \/ costs[ladder[i]] < costs[ladder[j]]
                     \/ costs[ladder[i]] = costs[ladder[j]] /\ i <= j]

-----------------------------------------------------------------------------

Init ==
  /\ machine \in Machines
  /\ table \in Tables
  /\ resolved = 0
  /\ pc = [t \in Threads |-> None]
  /\ priced = [t \in Threads |-> None]
  /\ ran = [t \in Threads |-> None]
  /\ forced = None
  /\ overtaken = {}

\* The two reasons a thread calls `kernel`: `active` prices a policy for the answer,
\* `refutes` and `Skip::find` run on it.
Purposes == {"price", "scan"}

Deliver(t, purpose, k) ==
  /\ priced' = IF purpose = "price" THEN [priced EXCEPT ![t] = k] ELSE priced
  /\ ran' = IF purpose = "scan" THEN [ran EXCEPT ![t] = k] ELSE ran

\* The load finds an answer.
Hit(t) ==
  /\ pc[t] = None
  /\ Decode(resolved) # None
  /\ \E purpose \in Purposes : Deliver(t, purpose, Decode(resolved))
  /\ UNCHANGED <<machine, table, resolved, pc, forced, overtaken>>

\* The load finds none, and the thread goes on to probe and elect.
Miss(t) ==
  /\ pc[t] = None
  /\ Decode(resolved) = None
  /\ \E purpose \in Purposes : pc' = [pc EXCEPT ![t] = purpose]
  /\ UNCHANGED <<machine, table, resolved, priced, ran, forced, overtaken>>

\* The store, whatever has been stored since the load, and the answer.
Store(t) ==
  /\ pc[t] # None
  /\ resolved' = Code(Elected(machine, table))
  /\ Deliver(t, pc[t], Elected(machine, table))
  /\ pc' = [pc EXCEPT ![t] = None]
  /\ UNCHANGED <<machine, table, forced, overtaken>>

\* Mutant: a kernel already resolved is left in place.
ForceFirst(t) ==
  /\ pc[t] = None
  /\ \E k \in Rungs(machine) :
       /\ resolved' = IF Decode(resolved) = None THEN Code(k) ELSE resolved
       /\ forced' = k
  /\ overtaken' = {u \in Threads : pc[u] # None}
  /\ UNCHANGED <<machine, table, pc, priced, ran>>

\* A `force` that answers true.  One that answers false, for a kernel that is no rung,
\* changes nothing.
ForceKernel(t) ==
  /\ pc[t] = None
  /\ \E k \in Rungs(machine) :
       /\ resolved' = Code(k)
       /\ forced' = k
  /\ overtaken' = {u \in Threads : pc[u] # None}
  /\ UNCHANGED <<machine, table, pc, priced, ran>>

Next == \E t \in Threads : Hit(t) \/ Miss(t) \/ Store(t) \/ ForceKernel(t)

Spec == Init /\ [][Next]_vars

-----------------------------------------------------------------------------
(* Properties.                                                             *)

Answers == {Decode(resolved)} \cup {priced[t] : t \in Threads} \cup {ran[t] : t \in Threads}

TypeOK ==
  /\ IsMachine(machine)
  /\ table \in Tables
  /\ resolved \in 0 .. Len(Variants)
  /\ pc \in [Threads -> Purposes \cup {None}]
  /\ priced \in [Threads -> Kernels \cup {None}]
  /\ ran \in [Threads -> Kernels \cup {None}]
  /\ forced \in Kernels \cup {None}
  /\ overtaken \subseteq Threads

\* The precondition of every `unsafe` dispatch arm: whatever is memoized, priced or
\* run, by election or by force, this silicon can execute and this operating system
\* preserves the registers of.
RunnableAlways == \A k \in Answers \ {None} : CanExecute(machine, k)

\* Without a force, the memo is a pure cache: however the loads and stores of the
\* threads interleave, every answer any of them ever got is the same one.
UnforcedAgree == forced = None => Answers \subseteq {None, Elected(machine, table)}

\* A force is for good unless it raced: when no thread was inside `kernel` as it
\* returned, every later answer is the forced kernel.
SettledForceHolds == forced # None /\ overtaken = {} => Decode(resolved) = forced

\* The doc of `force`: "process-wide, for the rest of the process".
ForceHolds == forced # None => Decode(resolved) = forced
=============================================================================
