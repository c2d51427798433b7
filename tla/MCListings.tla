----------------------------- MODULE MCListings ------------------------------
(* Listings on small instances. *)
EXTENDS Listings, TLC

CONSTANT Long  \* the one description that is long

\* The gaps that an analysis names are short.
MCChars    == [d \in Descriptions |-> IF d = Long THEN 4001 ELSE 398]
MCGapChars == [d \in Descriptions |-> 200]

\* Sessions are interchangeable, and so are keys.
Symmetry ==
  Permutations(Scrapers) \cup Permutations(Evaluators) \cup Permutations(Keys)

\* The estimates against what they stand for, over small numbers.
ASSUME \A n \in 0..40 :
  EstimateTokens(n) = CHOOSE t \in 0..n : 4 * t >= n /\ (t > 0 => 4 * (t - 1) < n)
ASSUME \A n \in 0..60, d \in 1..10 :
  LET q == RoundHalfEven(n, d)
      distance(m) == IF m * d > n THEN m * d - n ELSE n - m * d
  IN  \A m \in 0..61 \ {q} :
        \/ distance(q) < distance(m)
        \/ distance(q) = distance(m) /\ q % 2 = 0
=============================================================================
