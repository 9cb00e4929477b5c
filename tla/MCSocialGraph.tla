--------------------------- MODULE MCSocialGraph ---------------------------
(***************************************************************************)
(* Instances of SocialGraph for TLC.  Users and requests are               *)
(* interchangeable.                                                        *)
(***************************************************************************)
EXTENDS SocialGraph, TLC

Symmetry == Permutations(Users) \cup Permutations(Clients)
=============================================================================
