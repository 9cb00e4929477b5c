-------------------------- MODULE MCBlockDelivery --------------------------
(***************************************************************************)
(* Instances of BlockDelivery for TLC.                                     *)
(***************************************************************************)
EXTENDS BlockDelivery, TLC

=============================================================================
