----------------------------- MODULE MCInvestment -----------------------------
(***************************************************************************)
(* Small instances of Investment for TLC.                                  *)
(***************************************************************************)
EXTENDS Investment, TLC

CONSTANTS i1, i2, v1, v2, k1, k2

\* Two investors with an investment each.
TwoOwners == i1 :> v1 @@ i2 :> v2
\* One investor with two.
OneOwner == i1 :> v1 @@ i2 :> v1
\* A single investment.
OwnerOne == i1 :> v1
KeyOne == i1 :> k1
UnitOne == i1 :> 1

TwoKeys == i1 :> k1 @@ i2 :> k2
\* A client repeats its request under the same transactionId.
OneKey == i1 :> k1 @@ i2 :> k1

UnitEach == i1 :> 1 @@ i2 :> 1
UnitAndTwo == i1 :> 1 @@ i2 :> 2

Rich == v1 :> 3 @@ v2 :> 3
\* A single investor, who can pay for one unit only, or for all.
OnePoor == v1 :> 1
OneRich == v1 :> 3

===============================================================================
