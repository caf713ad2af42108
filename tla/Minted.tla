------------------------------- MODULE Minted -------------------------------
(***************************************************************************)
(* The rows somebody measured (price/minted.rs), in the order of MINTED.    *)
(* Prices are in millionths of a nanosecond and excursions in millionths,   *)
(* so that every number of the source is an integer; nothing here adds or   *)
(* compares a price with an excursion.                                      *)
(***************************************************************************)
EXTENDS Calibration

Row(key, skip, walk, excursion, instruments, sieve) ==
  LET column(pair) == PerRegime(F(pair[1]), F(pair[2]))
  IN [os |-> key[1], arch |-> key[2], kernel |-> key[3],
      dfa_skip |-> column(skip), dfa_walk |-> F(walk), dfa_excursion |-> column(excursion),
      skip_excursion |-> [slot \in DOMAIN instruments |-> column(instruments[slot])],
      sieve |-> [n \in DOMAIN sieve |-> F(sieve[n])]]

\* UNMEASURED.
Unmeasured ==
  Row(<<"unmeasured", "unmeasured", "Scalar">>,
      <<0, 0>>, 0, <<0, 0>>, <<<<0, 0>>, <<0, 0>>>>, <<0, 0>>)

LinuxArmNeon ==
  Row(<<"linux", "aarch64", "Neon">>, <<0, 36157>>, 1601672, <<0, 11407365>>,
      <<<<0, 8589079>>, <<0, 5912553>>>>, <<0, 399124>>)

\* Mutant: the cache column withheld, the election left as it was.
LinuxX86Avx2Withheld ==
  Row(<<"linux", "x86_64", "Avx2">>, <<0, 34197>>, 1876710, <<0, 12118318>>,
      <<<<0, 9691899>>, <<0, 5659967>>>>, <<0, 325473>>)

LinuxX86Avx2 ==
  Row(<<"linux", "x86_64", "Avx2">>, <<19787, 34197>>, 1876710, <<11667164, 12118318>>,
      <<<<8428401, 9691899>>, <<5767844, 5659967>>>>, <<0, 325473>>)

LinuxX86Ssse3 ==
  Row(<<"linux", "x86_64", "Ssse3">>, <<22706, 34235>>, 1878684, <<11675108, 12158681>>,
      <<<<8465241, 9786254>>, <<6428453, 6484189>>>>, <<0, 366377>>)

MacosArmNeon ==
  Row(<<"macos", "aarch64", "Neon">>, <<12390, 17507>>, 1313341, <<8057903, 9751283>>,
      <<<<7611088, 9647507>>, <<7788777, 6963965>>>>, <<0, 196478>>)

MacosX86Avx2 ==
  Row(<<"macos", "x86_64", "Avx2">>, <<0, 81309>>, 1910037, <<0, 13262007>>,
      <<<<0, 10880693>>, <<0, 6625020>>>>, <<0, 527253>>)

MacosX86Ssse3 ==
  Row(<<"macos", "x86_64", "Ssse3">>, <<0, 84880>>, 2136668, <<0, 13655867>>,
      <<<<0, 12677342>>, <<0, 8129890>>>>, <<0, 921573>>)

WindowsArmNeon ==
  Row(<<"windows", "aarch64", "Neon">>, <<0, 41957>>, 1622228, <<0, 11249269>>,
      <<<<0, 7890919>>, <<0, 5752287>>>>, <<0, 405517>>)

WindowsX86Avx512 ==
  Row(<<"windows", "x86_64", "Avx512">>, <<0, 77105>>, 1753297, <<0, 12018238>>,
      <<<<0, 8701636>>, <<0, 5750183>>>>, <<0, 458317>>)

WindowsX86Avx2 ==
  Row(<<"windows", "x86_64", "Avx2">>, <<0, 67181>>, 1755121, <<0, 11968558>>,
      <<<<0, 8782805>>, <<0, 6404701>>>>, <<0, 375878>>)

WindowsX86Ssse3 ==
  Row(<<"windows", "x86_64", "Ssse3">>, <<0, 69599>>, 1753784, <<0, 12136005>>,
      <<<<0, 8962550>>, <<0, 7320876>>>>, <<0, 436670>>)

MINTED ==
  <<LinuxArmNeon, LinuxX86Avx2, LinuxX86Ssse3,
    MacosArmNeon, MacosX86Avx2, MacosX86Ssse3,
    WindowsArmNeon, WindowsX86Avx512, WindowsX86Avx2,
    WindowsX86Ssse3>>

\* Mutant: any row of the machine's, whatever kernel it was timed with.
RowsOfPlace(os, arch, kernel) ==
  {i \in DOMAIN MINTED : <<MINTED[i].os, MINTED[i].arch>> = <<os, arch>>}

\* Where the rows keyed by a triple are.
RowsOf(os, arch, kernel) == {i \in DOMAIN MINTED : Triple(MINTED[i]) = <<os, arch, kernel>>}

\* `active`, of the kernel it was answered: the first row of the triple that can answer
\* for the regime, and UNMEASURED where there is none.
Active(os, arch, kernel, at) ==
  LET measured == {i \in RowsOf(os, arch, kernel) : MeasuredAt(MINTED[i], at)}
  IN IF measured = {} THEN Unmeasured ELSE MINTED[Min(measured)]

\* `price` of arch/mod.rs, of a kernel that has a row: what the dispatch ranks it by.
PriceOf(os, arch, kernel) ==
  SievePerByte(MINTED[Min(RowsOf(os, arch, kernel))], MaxConjuncts)
=============================================================================
