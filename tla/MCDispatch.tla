------------------------------ MODULE MCDispatch ------------------------------
(* Instances of Dispatch: two threads, on machines that lack one thing each, with the *)
(* rows that are shipped and with tables nobody has minted.                           *)
EXTENDS Pricing

X86(leaves, cpuid, xcr0, built) ==
  [arch |-> "x86_64", leaves |-> leaves, cpuid |-> cpuid, xcr0 |-> xcr0, built |-> built]
Baseline(arch) ==
  [arch |-> arch, leaves |-> 0, cpuid |-> {}, xcr0 |-> {}, built |-> {}]

Avx2Bits == {"ssse3", "osxsave", "avx", "avx2"}

\* Old and new silicon under operating systems that save all of it, some of it or
\* nothing, under an interpreter that reports no leaf, and built for what it runs on.
SomeMachines ==
  {m \in {X86(l, c, x, b) :
            l \in {0, 1, 7},
            c \in {{}, {"ssse3"}, {"ssse3", "avx", "avx2"}, Avx2Bits,
                   Avx2Bits \cup {"avx512f"}, Features},
            x \in {{}, XCR0_YMM, XCR0_ZMM, XCR0_ZMM \ {"opmask"}},
            b \in {{}, {"Ssse3", "Avx2"}}} :
     IsMachine(m) /\ (m.leaves < 7 => m.xcr0 = XCR0_ZMM)}
    \cup {Baseline("aarch64"), Baseline("wasm32")}

Priced(k, cost) == [j \in Kernels |-> IF j = k THEN cost ELSE None]

\* Nothing priced; one rung only; the narrower rung cheaper; a tie.
SomeTables ==
  {Priced("none", 1), Priced("Scalar", 2),
   [Priced("Avx2", 1) EXCEPT !["Avx512"] = 2, !["Ssse3"] = 3, !["Scalar"] = 9],
   [Priced("Ssse3", 2) EXCEPT !["Avx2"] = 2, !["Neon"] = 1, !["Simd128"] = 1]}
    \cup {Shipped[os, "x86_64"] : os \in Systems} \cup {Shipped["macos", "aarch64"]}
===============================================================================
