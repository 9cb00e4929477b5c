----------------------------- MODULE MCPayments -----------------------------
(***************************************************************************)
(* Instances of Payments for TLC.  Ids, keys and handlers are              *)
(* interchangeable.                                                        *)
(***************************************************************************)
EXTENDS Payments, TLC

\* The status changes an operator's PATCH requests carry.
Settling == {<<"pending", "processing">>}
Confirming == {<<"pending", "processing">>, <<"pending", "succeeded">>}

Symmetry == Permutations(Keys) \cup Permutations(Orders) \cup Permutations(Attempts)
            \cup Permutations(Refunds) \cup Permutations(Handlers)
=============================================================================
