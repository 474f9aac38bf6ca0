------------------------------ MODULE MCIdentity ------------------------------
(* Small instances of Identity for TLC. *)
EXTENDS Identity

CONSTANTS a, b, x, y, w1, w2, n, m, o

\* o is a wallet written in another form: of n, or of another account's m.
MCAddress == [w \in Wallets |-> IF w = o THEN n ELSE w]
MCAddressTaken == [w \in Wallets |-> IF w = o THEN m ELSE w]

MCHolding == [t \in Tokens |-> 1]

\* Calls, requests, tokens and the wallets Privy makes are interchangeable.
Symmetry == Permutations(Operators) \cup Permutations(Recoveries)
              \cup Permutations(Tokens) \cup Permutations({w1, w2})
=============================================================================
