------------------------------ MODULE MCOrders ------------------------------
(***************************************************************************)
(* Instances of Orders for TLC.                                             *)
(***************************************************************************)
EXTENDS Orders, TLC

Symmetry == Permutations(Keys) \cup Permutations(Events) \cup Permutations(Handlers)
=============================================================================
