--------------------------- MODULE MCSecondaryMarket ---------------------------
(* Small instances of SecondaryMarket for TLC. *)
EXTENDS SecondaryMarket, TLC

CONSTANTS s, a, b, l1, l2, t1, t2, d1, d2

\* The buyers are alike, and so are the trades.
MCSymmetry == Permutations({a, b}) \cup Permutations(Trades)

MCSeller == [l \in Listings |-> s]
MCSize == [l \in Listings |-> 1]
MCFunds == [i \in Investors |-> IF i = s THEN 0 ELSE 2]
MCOwned1 == [i \in Investors |-> IF i = s THEN 1 ELSE 0]
MCOwned == [i \in Investors |-> IF i = s THEN 2 ELSE 0]
=============================================================================
