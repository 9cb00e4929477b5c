---------------------------- MODULE WalletStore ----------------------------
(***************************************************************************)
(* The SQL statements of wallet-service/internal/store, as functions from  *)
(* the row a statement matches to the row it leaves.  Each statement is a  *)
(* single UPDATE or INSERT, hence atomic; a service handler strings several *)
(* of them together, and the handler modules decide which of them share a  *)
(* database transaction.  Amounts are paise and stay far below the BIGINT  *)
(* range the columns have.                                                 *)
(*                                                                         *)
(* A definition whose name carries a suffix _WithoutX, _AtY is a mutated   *)
(* statement: a plausible mistake kept next to the statement it mistakes.  *)
(***************************************************************************)
EXTENDS Integers

\* "No row": a free transaction id, a key with no idempotency record.
NoRecord == [user |-> "none", op |-> "none", tx |-> "none"]

\* A wallet.balances row, the columns the money properties tell apart.
BalanceRow == [available : Int, pendingIn : Int, pendingOut : Int, frozen : BOOLEAN]

\* GREATEST(x, 0)
Floor0(x) == IF x >= 0 THEN x ELSE 0

---------------------------------------------------------------------------
\* DebitAvailableTx: WHERE available_paise >= $2 AND is_frozen = false ...
DebitAllowed_WithoutFunds(row, a) == ~row.frozen
DebitAllowed_WithoutFreeze(row, a) == row.available >= a
DebitAllowed(row, a) == row.available >= a /\ ~row.frozen

\* ... SET available_paise -= $2, pending_out_paise += $2
Debited(row, a) == [row EXCEPT !.available = @ - a, !.pendingOut = @ + a]

\* SettleDebitTx
DebitSettled(row, a) == [row EXCEPT !.pendingOut = Floor0(@ - a)]

\* ReverseDebitTx
DebitReversed_WithoutRelease(row, a) == [row EXCEPT !.available = @ + a]
DebitReversed(row, a) ==
    [row EXCEPT !.available = @ + a, !.pendingOut = Floor0(@ - a)]

\* CreditAvailableTx
Credited(row, a) == [row EXCEPT !.available = @ + a]

\* CreditAvailable: the credit of a settled top-up
TopUpCredited(row, a) ==
    [row EXCEPT !.available = @ + a, !.pendingIn = Floor0(@ - a)]

\* AdjustPendingIn: no floor
PendingInAdjusted(row, d) == [row EXCEPT !.pendingIn = @ + d]

\* SetSynced: the snapshot read from the bank replaces the column
Synced(row, v) == [row EXCEPT !.available = v]

---------------------------------------------------------------------------
\* MarkSettled: UPDATE ... WHERE id = $1 AND status = 'pending'.  A row in
\* any other status is left as it is and the call still returns nil.
MarkSettled(rows, t, s) ==
    IF rows[t].status = "pending" THEN [rows EXCEPT ![t].status = s] ELSE rows

\* FindIdempotency answers ErrIdempotencyKeyNotFound: the handler goes on.
\* With a record the handler returns (a replay, or ErrIdempotencyMismatch)
\* and writes nothing.
KeyNotFound(idem, k) == idem[k].tx = "none"

\* RecordIdempotency: INSERT ... ON CONFLICT (key) DO NOTHING
Recorded(idem, k, rec) ==
    IF KeyNotFound(idem, k) THEN [idem EXCEPT ![k] = rec] ELSE idem
=============================================================================
