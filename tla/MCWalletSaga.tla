---------------------------- MODULE MCWalletSaga ----------------------------
(***************************************************************************)
(* Instances of WalletSaga for TLC.  Ids, users, keys and handlers are     *)
(* interchangeable: uuids and goroutines carry no order the code reads.    *)
(***************************************************************************)
EXTENDS WalletSaga, TLC

Symmetry == Permutations(TxIds) \cup Permutations(Handlers) \cup Permutations(Users)
            \cup Permutations(Keys)
=============================================================================
