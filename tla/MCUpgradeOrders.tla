-------------------------- MODULE MCUpgradeOrders --------------------------
(***************************************************************************)
(* UpgradeOrders on a small instance: two packages, the larger with twice  *)
(* the quota.                                                              *)
(***************************************************************************)
EXTENDS UpgradeOrders, TLC

CONSTANTS basic, pro

MCLevel == (basic :> 1) @@ (pro :> 2)

Slots == Permutations(Procs)
=============================================================================
