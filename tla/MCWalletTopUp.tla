--------------------------- MODULE MCWalletTopUp ---------------------------
(***************************************************************************)
(* Instances of WalletTopUp for TLC.  Ids, references, keys and handlers   *)
(* are interchangeable.                                                    *)
(***************************************************************************)
EXTENDS WalletTopUp, TLC

Symmetry == Permutations(TopUps) \cup Permutations(Handlers) \cup Permutations(Refs)
            \cup Permutations(Keys)
=============================================================================
