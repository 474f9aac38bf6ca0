------------------------------ MODULE MCFinance ------------------------------
(* Small instances of Finance for TLC. *)
EXTENDS Finance, TLC

CONSTANTS p1, p2, p3

\* A negative top-up, larger than what there is to take.
McTopUps == {-30}

Symmetry == Permutations(Calls)
=============================================================================
