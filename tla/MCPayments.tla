---------------------------- MODULE MCPayments ----------------------------
(***************************************************************************)
(* Payments on a small instance: every photo on sale is the photographer's *)
(* and costs 10, so every amount is the price of a photo or twice it.      *)
(***************************************************************************)
EXTENDS Payments, TLC

CONSTANT seller

MCSellerOf == [ph \in Photos |-> seller]
MCPrice == [ph \in Photos |-> 10]

\* Requests in flight are interchangeable, and so are deliveries.
Slots == Permutations(Procs) \cup Permutations(Hooks)
===========================================================================
