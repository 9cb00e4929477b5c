------------------------------ MODULE MCBillPay ------------------------------
(* Instances of BillPay for TLC. *)
EXTENDS BillPay, TLC

Symmetry == Permutations(Handlers)
=============================================================================
