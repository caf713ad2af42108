------------------------------ MODULE MCRates ------------------------------
(* Instances of Rates: four bytes of three classes, and chains in quarters.  *)
EXTENDS Rates

SomeClasses == <<"Lower", "Lower", "Digit", "High">>
Dist(lower, digit, high) ==
  [class \in Classes |-> Fraction(CASE class = "Lower" -> lower
                                    [] class = "Digit" -> digit
                                    [] class = "High" -> high, 4)]

\* A corpus in which digits persist, and too few bytes are high to speak of.
Corpus == <<<<1, 2, 3, 3>>, <<3, 3, 3, 1, 1>>, <<2, 4, 1>>, <<1>>, <<1>>, <<3>>, <<4>>>>

Text == Memoryless(Dist(2, 1, 1))
Bursty == [next |-> [class \in Classes |->
                       CASE class = "Lower" -> Dist(3, 0, 1)
                         [] class = "Digit" -> Dist(0, 4, 0)
                         [] class = "High" -> Dist(2, 1, 1)],
           start |-> Dist(2, 1, 1)]
Table(blocks, threshold, step(_, _)) ==
  [blocks |-> blocks, threshold |-> threshold, start |-> 0,
   rows |-> [y \in DOMAIN ClassOf |-> [b \in 0 .. blocks - 1 |-> step(b, y)]]]

\* A byte that halves its class; one that comes and goes;
\* and a word that two classes spell.
Literal == Table(2, 1, LAMBDA b, y : IF b = 1 \/ y = 2 THEN 1 ELSE 0)
Parity  == Table(2, 1, LAMBDA b, y : IF y = 4 THEN b ELSE 1 - b)
Word    == Table(3, 2, LAMBDA b, y : IF b = 2 \/ (b = 1 /\ y = 3) THEN 2 ELSE IF y = 1 THEN 1 ELSE 0)

SomeConjunctions ==
  {<<>>, <<RunOf("Digit")>>, <<RunOf("High")>>, <<Literal>>, <<Parity>>, <<Word, Literal>>}
SomeSweeps == {<<>>, <<UNIFORM, Text>>, <<Bursty>>}
SomeCorpora == {Corpus}
SomeRows == {row \in [Classes -> {Fraction(n, 4) : n \in 0 .. 4}] : Sum(row, Classes) = One}
=============================================================================
