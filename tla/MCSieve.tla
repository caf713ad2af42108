------------------------------ MODULE MCSieve ------------------------------
(* Instances of Sieve: lanes that compose over short documents of two bytes, lanes that *)
(* skip over sixteen bytes of two two-bit nibbles, and sieves of several lanes.          *)
EXTENDS Sieve

Q(n, threshold, zero, one) ==
  [blocks |-> n, threshold |-> threshold, start |-> 0, rows |-> <<zero, one>>]

\* Every two-block quotient, and three-block ones that turn on byte 2, with one accepting
\* block or two, which need not be absorbing.
Turning ==
  {Q(2, 1, f, g) : f, g \in [0 .. 1 -> 0 .. 1]}
    \cup {Q(3, t, f, [b \in 0 .. 2 |-> (b + 1) % 3]) :
            t \in {1, 2}, f \in {g \in [0 .. 2 -> 0 .. 2] : g[0] = 0 /\ g[1] # 0}}

\* Nothing, less than a step, a paved part, a chunk, and a chunk with each of them
\* after it; byte 2 comes up at most twice.
TwoBytes ==
  UNION {{h \in [1 .. n -> {1, 2}] : Cardinality({i \in 1 .. n : h[i] = 2}) <= 2} :
           n \in {0, 1, 3, 5, 8, 9, 13}}

\* Byte values of all kinds: ASCII bytes of three low nibbles, two of them sharing one,
\* and 9, which shares it too but has a high nibble above the ASCII half.
Moving == {0, 1, 5, 6, 9}

\* A quotient that leaves block 0 on the bytes of a set and comes back from block 1 on
\* byte 6; byte 1 leads on to the accepting block 2 from block 1, or from both.
Leaving(escape, straight, start) ==
  [blocks |-> 3, threshold |-> 2, start |-> start,
   rows |-> [y \in K!Bytes |->
     [b \in 0 .. 2 |->
        CASE b = 0 -> IF y \notin escape THEN 0
                      ELSE IF y = 1 /\ straight THEN 2 ELSE 1
          [] b = 1 -> IF y = 6 THEN 0 ELSE IF y = 1 THEN 2 ELSE 1
          [] b = 2 -> 0]]]

Composes(quotient) == [quotient |-> quotient]
SkipsIn(quotient) == [quotient |-> quotient, resident |-> quotient.start]

Skippers ==
  {l \in {SkipsIn(Leaving(escape, straight, start)) :
            escape \in SUBSET Moving, straight \in BOOLEAN, start \in 0 .. 1} : Plannable(l)}

\* The two bytes that share a nibble with byte 1 come up at most twice.
Documents(longest) ==
  UNION {{h \in [1 .. n -> {1, 5, 6, 9}] : Cardinality({i \in 1 .. n : h[i] \in {5, 9}}) <= 2} :
           n \in 0 .. longest}

\* Two lanes of each kind, in either order.
A == Leaving({1, 5}, TRUE, 0)
B == Leaving({5}, FALSE, 0)
Pairs == {<<Composes(A), SkipsIn(B)>>, <<SkipsIn(A), Composes(B)>>,
          <<Composes(B), Composes(A)>>, <<SkipsIn(B), SkipsIn(A)>>}

SomeReadings ==
  {[sieve |-> <<>>, hays |-> {<<>>}]}
    \cup {[sieve |-> <<Composes(quotient)>>, hays |-> TwoBytes] : quotient \in Turning}
    \cup {[sieve |-> <<l>>, hays |-> Documents(5)] : l \in Skippers}
    \cup {[sieve |-> lanes, hays |-> Documents(3)] : lanes \in Pairs}
=============================================================================
