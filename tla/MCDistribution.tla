----------------------------- MODULE MCDistribution -----------------------------
(* Small instances of Distribution for TLC. *)
EXTENDS Distribution, TLC

CONSTANTS h1, h2, h3, b1, b2, x1, a1, a2

\* Three equal holders cannot share an amount evenly, nor can one unit and two.
MCUnits == [h \in Holders |-> IF h = h2 THEN 2 ELSE 1]
MCModes == [h \in Holders |-> IF h = h2 THEN "ON_CHAIN" ELSE "OFF_CHAIN"]
MCNetAmount == [x \in Incomes |-> 101]

\* Nothing tells the batches apart, nor the administrators.
MCSymmetry == Permutations(Batches) \cup Permutations(Admins)
=============================================================================
