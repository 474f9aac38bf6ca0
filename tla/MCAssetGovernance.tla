--------------------------- MODULE MCAssetGovernance ---------------------------
(* Model values and small sets for AssetGovernance. *)
EXTENDS AssetGovernance

CONSTANTS r1, r2, r3

\* 100.01 for ten shares: a unit price of 10.00, a cent within the tolerance.
MCOffers == {<<10001, 10>>}
================================================================================
