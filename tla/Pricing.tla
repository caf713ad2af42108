------------------------------ MODULE Pricing ------------------------------
(***************************************************************************)
(* Dispatch under the rows that are shipped: what `kernel` elects by is     *)
(* what `price` reads of MINTED, and a policy priced for the answer holds   *)
(* the row `active` finds for it.                                           *)
(***************************************************************************)
EXTENDS Dispatch, Minted

\* `sieve: [f64; MAX_CONJUNCTS]`: a row prices every count there is.
ASSUME ColumnsAssumption ==
  /\ MaxConjuncts \in Nat
  /\ \A i \in DOMAIN MINTED : DOMAIN MINTED[i].sieve = 1 .. MaxConjuncts

\* The targets a row names, and one that none does.
Systems == {MINTED[i].os : i \in DOMAIN MINTED} \cup {"unknown"}

\* What the election sees on one operating system and architecture.
Costs(os, arch) ==
  [k \in Kernels |-> IF RowsOf(os, arch, k) = {} THEN None ELSE PriceOf(os, arch, k)[1]]

Arches == {"x86_64", "aarch64", "wasm32"}
Shipped == [target \in Systems \X Arches |-> Costs(target[1], target[2])]

\* The process runs on a target whose rows are the table it elects by.
Runs(os) == table = Shipped[os, machine.arch]

\* What `Policy::new` stores on each target, for each kernel it may be answered.
Answered ==
  [target \in Systems \X Arches |->
     [k \in Kernels |-> [at \in Residency |-> Active(target[1], target[2], k, at)]]]
PolicyRow(os, k, at) == Answered[os, machine.arch][k][at]

-----------------------------------------------------------------------------
(* Properties.                                                             *)

\* The doc of MINTED: no kernel may win a dispatch and thereby strand an install on
\* UNMEASURED.  Without a force, a policy finds a row for its regime whenever any kernel
\* this machine can execute has one: the election never trades a row that answers for
\* one that does not.
NobodyStranded ==
  forced = None =>
    \A os \in {os \in Systems : Runs(os)}, at \in Residency :
      (\E k \in Rungs(machine) : PolicyRow(os, k, at) # Unmeasured)
        => \A k \in {priced[t] : t \in Threads} \ {None} : PolicyRow(os, k, at) # Unmeasured

\* Without a force, what a policy was priced with was measured on the kernel every scan
\* of the process runs, on this operating system and architecture.
PricedAsItRuns ==
  forced = None =>
    \A os \in {os \in Systems : Runs(os)}, at \in Residency :
      \A k \in {priced[t] : t \in Threads} \ {None}, run \in {ran[t] : t \in Threads} \ {None} :
        LET row == PolicyRow(os, k, at)
        IN row = Unmeasured \/ Triple(row) = <<os, machine.arch, run>>
=============================================================================
