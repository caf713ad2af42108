------------------------------ MODULE MCMint ------------------------------
(* Instances of Mint: two rungs, two lead bytes, four probes and three patterns. *)
EXTENDS Mint

Quarter == <<1, 4>>
\* The bytes "e", "=", "p" and "x".
SomeFreq == [b \in 0 .. 3 |-> IF b = 0 THEN Quarter ELSE IF b = 2 THEN <<1, 2>> ELSE Zero]
OtherFreq == [SomeFreq EXCEPT ![1] = <<1, 8>>]

Doc(bytes) == [bytes |-> bytes, sentinel |-> FALSE]
Sample(docs, freq, accepts) == [docs |-> docs, freq |-> freq, accepts |-> accepts]

Cold == Sample(<<Doc(8), Doc(40)>>, OtherFreq, {})
Hot == Sample(<<Doc(1), Doc(2)>>, SomeFreq, {})

\* The ordinary pair; a slice too small to time, one that is no slice, one past what is
\* resident, one that holds the sentinel in its second document; a corpus under the floor;
\* and documents the slates accept.
SomeCorpora ==
  {[cache |-> hot, memory |-> Cold] :
     hot \in {Hot, [Hot EXCEPT !.docs = <<Doc(1)>>], [Hot EXCEPT !.docs = <<Doc(9)>>],
              [Hot EXCEPT !.docs = <<Doc(5)>>],
              [Hot EXCEPT !.docs = <<Doc(2), [bytes |-> 2, sentinel |-> TRUE]>>]}}
  \cup {[cache |-> Hot, memory |-> [Cold EXCEPT !.docs = <<Doc(16)>>]],
        [cache |-> Hot, memory |-> [Cold EXCEPT !.accepts = {"svc", "few1"}]]}

TheLeads == <<0, 1>>
Probe(pattern, leaves, instrument, excursion) ==
  [pattern |-> pattern, leaves |-> leaves, instrument |-> instrument, excursion |-> excursion]
TheFew == <<Probe("few1", {0}, "Few", F(1)), Probe("few2", {2}, "Few", F(2))>>
TheWide == <<Probe("wide1", {0}, "Few", F(3)), Probe("wide2", {}, "none", F(1))>>
TheSlate == <<[pattern |-> "svc", conjuncts |-> 2], [pattern |-> "odd", conjuncts |-> 0],
              [pattern |-> "ab", conjuncts |-> 2]>>

TheTarget == <<"linux", "x86_64">>
TheLadder == <<"Avx2", "Ssse3">>
TheMachine ==
  [walk |-> F(4), skip |-> [Cache |-> <<3, 4>>, Memory |-> One], excursion |-> F(2),
   sieve |-> [k \in {"Avx2", "Ssse3"} |-> IF k = "Avx2" THEN One ELSE F(2)]]
===============================================================================
