----------------------------- MODULE WalletSaga -----------------------------
(***************************************************************************)
(* wallet-service: the payments that move money out of a wallet and the    *)
(* two ways the mirror is corrected from outside.                          *)
(*                                                                         *)
(*   Send           peer to peer, to another wallet or to a phone number   *)
(*   MerchantDebit  internal, called by bill-pay, commerce, food, ...      *)
(*   Refund         internal, against an earlier merchant payment          *)
(*   refreshFromBank  the background re-read GetBalance starts when the    *)
(*                    snapshot is older than 60 s                          *)
(*                                                                         *)
(* A handler is a goroutine: its local variables are the record proc[p],   *)
(* and between two statements, transactions or bank calls any other        *)
(* handler may run.  Abort ends a handler at any such point: the process   *)
(* crashed, the request was cancelled, or a statement failed.              *)
(***************************************************************************)
EXTENDS WalletStore, FiniteSets

CONSTANTS
    Users,          \* wallet owners
    Pool,           \* cfg.PoolBankRef, the merchants' settlement account
    External,       \* the recipient of a send to a phone with no wallet
    TxIds,          \* ids wallet.transactions can still hand out (bounds a run)
    Keys,           \* idempotency keys clients use
    Handlers,       \* concurrent goroutines
    Amounts,        \* amounts requests carry
    Opening,        \* the balance every wallet opens with
    MonthlyLimit,   \* monthly_limit_paise of the users' tier
    Freezable,      \* the users trust-safety may freeze in a run
    MayExpire,      \* TRUE when a run may outlast the 24 h of an idempotency row
    MayLoseReply    \* TRUE when a bank call may be applied and its reply lost

ASSUME SagaConstants ==
    /\ Amounts \subseteq Nat \ {0}
    /\ Opening \in Nat
    /\ MonthlyLimit \in Nat
    /\ Freezable \subseteq Users
    /\ MayExpire \in BOOLEAN /\ MayLoseReply \in BOOLEAN
    /\ Pool \notin Users /\ External \notin Users /\ Pool # External
    /\ "none" \notin TxIds

VARIABLES
    balances,   \* wallet.balances, by user
    txns,       \* wallet.transactions: the debit rows, by id
    receipts,   \* how many 'receive' rows name the debit as their bank_txn_ref
    refunds,    \* paise of the 'refund' rows that name the debit as original
    idem,       \* wallet.idempotency, by key
    acct,       \* what the bank holds, by account
    applied,    \* txnRefs whose Transfer the bank has carried out
    bankRefunds,\* paise the bank has refunded, by original txnRef
    resynced,   \* history: users whose mirror a refresh has overwritten
    orphans,    \* history: pending debits whose handler was aborted
    proc        \* the handlers' local variables

rows == <<txns, receipts, refunds>>
bankVars == <<acct, applied, bankRefunds>>
history == <<resynced, orphans>>
vars == <<balances, rows, idem, bankVars, history, proc>>

---------------------------------------------------------------------------
Recipients == Users \cup {External, Pool}
FreeRow == [status |-> "free"]
Statuses == {"pending", "pending_invite", "succeeded", "failed"}
DebitRow == [status : Statuses, user : Users, to : Recipients,
             amt : Amounts, key : Keys]

Used == {t \in TxIds : txns[t].status # "free"}
Idle == [pc |-> "idle"]

\* The operation name a debit's idempotency row carries.
Operation(to) == IF to = Pool THEN "merchant_pay" ELSE "send"

Init ==
    /\ balances = [u \in Users |-> [available |-> Opening, pendingIn |-> 0,
                                    pendingOut |-> 0, frozen |-> FALSE]]
    /\ txns = [t \in TxIds |-> FreeRow]
    /\ receipts = [t \in TxIds |-> 0]
    /\ refunds = [t \in TxIds |-> 0]
    /\ idem = [k \in Keys |-> NoRecord]
    /\ acct = [a \in Users \cup {Pool} |-> IF a = Pool THEN 0 ELSE Opening]
    /\ applied = {}
    /\ bankRefunds = [t \in TxIds |-> 0]
    /\ resynced = {}
    /\ orphans = {}
    /\ proc = [p \in Handlers |-> Idle]

\* Handler p is between the debit's transaction and the one that ends it.
Unfinished == {"transfer", "settle", "compensate"}
HandledBy(p, t) == proc[p].pc \in Unfinished /\ proc[p].tx = t

Goto(p, pc) == proc' = [proc EXCEPT ![p].pc = pc]
Return(p) == proc' = [proc EXCEPT ![p] = Idle]

---------------------------------------------------------------------------
(* Send and MerchantDebit: one saga, told apart by the recipient.          *)

\* The request arrives and FindIdempotency misses.
SagaCall(p, u, to, a, k) ==
    /\ proc[p].pc = "idle"
    /\ KeyNotFound(idem, k)
    /\ proc' = [proc EXCEPT ![p] = [pc |-> "check", user |-> u, to |-> to,
                                    amt |-> a, key |-> k, tx |-> "none"]]
    /\ UNCHANGED <<balances, rows, idem, bankVars, history>>

\* A send names another wallet or an outside phone, never the sender.
Send(p, u, a, k) == \E to \in (Users \cup {External}) \ {u} : SagaCall(p, u, to, a, k)
MerchantDebit(p, u, a, k) == SagaCall(p, u, Pool, a, k)

\* AssertWithinMonthlyLimit, then GetBalance and the early funds check.  The
\* snapshot is not used again: DebitAvailableTx decides.
Check(p) ==
    /\ proc[p].pc = "check"
    /\ LET row == balances[proc[p].user]
           a == proc[p].amt
       IN IF ~row.frozen /\ a <= MonthlyLimit /\ row.available >= a
          THEN Goto(p, "debit") ELSE Return(p)
    /\ UNCHANGED <<balances, rows, idem, bankVars, history>>

\* One transaction: DebitAvailableTx and the insert of the pending row, which
\* for an outside phone is a 'pending_invite' row and ends the saga.
DebitIn(p, t) ==
    LET r == proc[p]
        invite == r.to = External
    IN  /\ t \notin Used
        /\ balances' = [balances EXCEPT ![r.user] = Debited(@, r.amt)]
        /\ txns' = [txns EXCEPT ![t] =
             [status |-> IF invite THEN "pending_invite" ELSE "pending",
              user |-> r.user, to |-> r.to, amt |-> r.amt, key |-> r.key]]
        /\ proc' = [proc EXCEPT ![p].tx = t,
                                ![p].pc = IF invite THEN "record" ELSE "transfer"]

Debit_RecordsFailure(p) ==
    /\ proc[p].pc = "debit"
    /\ IF DebitAllowed(balances[proc[p].user], proc[p].amt)
       THEN \E t \in TxIds : DebitIn(p, t)
       ELSE Goto(p, "record") /\ UNCHANGED <<balances, txns>>
    /\ UNCHANGED <<receipts, refunds, idem, bankVars, history>>
Debit(p) ==
    /\ proc[p].pc = "debit"
    /\ IF DebitAllowed(balances[proc[p].user], proc[p].amt)
       THEN \E t \in TxIds : DebitIn(p, t)
       ELSE Return(p) /\ UNCHANGED <<balances, txns>>
    /\ UNCHANGED <<receipts, refunds, idem, bankVars, history>>

\* The call to the partner bank, which moves the funds unless they are short.
\* A nil error leads to the settlement, any error to the compensation: a
\* refusal, and a reply lost after the bank has carried the transfer out.
BankMoves(r) ==
    /\ acct[r.user] >= r.amt
    /\ acct' = [acct EXCEPT ![r.user] = @ - r.amt, ![r.to] = @ + r.amt]
    /\ applied' = applied \cup {r.tx}

Transfer_ReturnsError(p) ==
    /\ proc[p].pc = "transfer"
    /\ \/ BankMoves(proc[p]) /\ Goto(p, "settle")
       \/ UNCHANGED <<acct, applied>> /\ Return(p)
    /\ UNCHANGED <<balances, rows, idem, bankRefunds, history>>
Transfer(p) ==
    /\ proc[p].pc = "transfer"
    /\ \/ BankMoves(proc[p]) /\ Goto(p, "settle")
       \/ BankMoves(proc[p]) /\ MayLoseReply /\ Goto(p, "compensate")
       \/ UNCHANGED <<acct, applied>> /\ Goto(p, "compensate")
    /\ UNCHANGED <<balances, rows, idem, bankRefunds, history>>

\* One transaction: MarkSettled, SettleDebitTx and, when the recipient is a
\* wallet, CreditAvailableTx and the insert of the recipient's receive row.
SettledBalances(r) ==
    LET sender == [balances EXCEPT ![r.user] = DebitSettled(@, r.amt)]
    IN  IF r.to \in Users THEN [sender EXCEPT ![r.to] = Credited(@, r.amt)] ELSE sender

Settle_WithoutReceiveRow(p) ==
    LET r == proc[p] IN
    /\ r.pc = "settle"
    /\ txns' = MarkSettled(txns, r.tx, "succeeded")
    /\ balances' = SettledBalances(r)
    /\ Goto(p, "record")
    /\ UNCHANGED <<receipts, refunds, idem, bankVars, history>>
Settle(p) ==
    LET r == proc[p] IN
    /\ r.pc = "settle"
    /\ txns' = MarkSettled(txns, r.tx, "succeeded")
    /\ balances' = SettledBalances(r)
    /\ receipts' = IF r.to \in Users THEN [receipts EXCEPT ![r.tx] = @ + 1] ELSE receipts
    /\ Goto(p, "record")
    /\ UNCHANGED <<refunds, idem, bankVars, history>>

\* compensateSendFailure, one transaction; then the handler returns the error.
Compensate_ThenRecords(p) ==
    LET r == proc[p] IN
    /\ r.pc = "compensate"
    /\ balances' = [balances EXCEPT ![r.user] = DebitReversed(@, r.amt)]
    /\ txns' = MarkSettled(txns, r.tx, "failed")
    /\ Goto(p, "record")
    /\ UNCHANGED <<receipts, refunds, idem, bankVars, history>>
Compensate(p) ==
    LET r == proc[p] IN
    /\ r.pc = "compensate"
    /\ balances' = [balances EXCEPT ![r.user] = DebitReversed(@, r.amt)]
    /\ txns' = MarkSettled(txns, r.tx, "failed")
    /\ Return(p)
    /\ UNCHANGED <<receipts, refunds, idem, bankVars, history>>

\* The handler's last write, after the payment is final.
Record(p) ==
    LET r == proc[p] IN
    /\ r.pc = "record"
    /\ idem' = Recorded(idem, r.key, [user |-> r.user, op |-> Operation(r.to), tx |-> r.tx])
    /\ Return(p)
    /\ UNCHANGED <<balances, rows, bankVars, history>>

---------------------------------------------------------------------------
(* Refund.  Its callers are the merchant services, which pass the id their *)
(* MerchantDebit returned.                                                 *)

\* The checks against the original row: succeeded, and not more than it paid.
RefundAllowed(t, a) == txns[t].status = "succeeded" /\ a <= txns[t].amt

Refund(p, t, a) ==
    /\ proc[p].pc = "idle"
    /\ t \in Used /\ txns[t].to = Pool
    /\ RefundAllowed(t, a)
    /\ proc' = [proc EXCEPT ![p] = [pc |-> "refund", user |-> txns[t].user,
                                    amt |-> a, tx |-> t]]
    /\ UNCHANGED <<balances, rows, idem, bankVars, history>>

\* bank.Refund: paid out of the settlement account, refused, or paid with the
\* reply lost; an error ends the handler.
BankPaysBack(r) ==
    /\ acct[Pool] >= r.amt
    /\ acct' = [acct EXCEPT ![Pool] = @ - r.amt, ![r.user] = @ + r.amt]
    /\ bankRefunds' = [bankRefunds EXCEPT ![r.tx] = @ + r.amt]

RefundAtBank(p) ==
    /\ proc[p].pc = "refund"
    /\ \/ BankPaysBack(proc[p]) /\ Goto(p, "credit")
       \/ BankPaysBack(proc[p]) /\ MayLoseReply /\ Return(p)
       \/ UNCHANGED <<acct, bankRefunds>> /\ Return(p)
    /\ UNCHANGED <<balances, rows, idem, applied, history>>

\* One transaction: CreditAvailableTx and the insert of the refund row.
RefundCredit_InFull(p) ==
    LET r == proc[p] IN
    /\ r.pc = "credit"
    /\ balances' = [balances EXCEPT ![r.user] = Credited(@, txns[r.tx].amt)]
    /\ refunds' = [refunds EXCEPT ![r.tx] = @ + r.amt]
    /\ Return(p)
    /\ UNCHANGED <<txns, receipts, idem, bankVars, history>>
RefundCredit(p) ==
    LET r == proc[p] IN
    /\ r.pc = "credit"
    /\ balances' = [balances EXCEPT ![r.user] = Credited(@, r.amt)]
    /\ refunds' = [refunds EXCEPT ![r.tx] = @ + r.amt]
    /\ Return(p)
    /\ UNCHANGED <<txns, receipts, idem, bankVars, history>>

---------------------------------------------------------------------------
(* The mirror refresh, the freeze flag, time and failures.                 *)

\* refreshFromBank reads the bank's balance ...
RefreshRead(p, u) ==
    /\ proc[p].pc = "idle"
    /\ proc' = [proc EXCEPT ![p] = [pc |-> "sync", user |-> u, amt |-> acct[u]]]
    /\ UNCHANGED <<balances, rows, idem, bankVars, history>>

\* ... and some time later overwrites available_paise with it.
RefreshWrite(p) ==
    LET r == proc[p] IN
    /\ r.pc = "sync"
    /\ balances' = [balances EXCEPT ![r.user] = Synced(@, r.amt)]
    /\ resynced' = resynced \cup {r.user}
    /\ Return(p)
    /\ UNCHANGED <<rows, idem, bankVars, orphans>>

\* Freeze and Unfreeze, trust-safety's switch.
SetFrozen(u, f) ==
    /\ balances[u].frozen # f
    /\ balances' = [balances EXCEPT ![u].frozen = f]
    /\ UNCHANGED <<rows, idem, bankVars, history, proc>>

\* expires_at passes and the row is purged: FindIdempotency no longer sees it.
ExpireKey(k) ==
    /\ MayExpire /\ ~KeyNotFound(idem, k)
    /\ idem' = [idem EXCEPT ![k] = NoRecord]
    /\ UNCHANGED <<balances, rows, bankVars, history, proc>>

\* A crash, a cancelled request or a failed statement ends the handler; what
\* it has committed stays and nothing resumes it.
Abort(p) ==
    /\ proc[p].pc # "idle"
    /\ orphans' = orphans \cup {t \in TxIds : HandledBy(p, t)}
    /\ Return(p)
    /\ UNCHANGED <<balances, rows, idem, bankVars, resynced>>

---------------------------------------------------------------------------
\* What handler p does next once it has been called.
HandlerStep(p) ==
    \/ Check(p) \/ Debit(p) \/ Transfer(p) \/ Settle(p) \/ Compensate(p) \/ Record(p)
    \/ RefundAtBank(p) \/ RefundCredit(p)
    \/ RefreshWrite(p)

Next ==
    \/ \E p \in Handlers :
         \/ \E u \in Users, a \in Amounts, k \in Keys : Send(p, u, a, k)
         \/ \E u \in Users, a \in Amounts, k \in Keys : MerchantDebit(p, u, a, k)
         \/ \E t \in TxIds, a \in Amounts : Refund(p, t, a)
         \/ \E u \in Users : RefreshRead(p, u)
         \/ HandlerStep(p)
         \/ Abort(p)
    \/ \E u \in Freezable, f \in BOOLEAN : SetFrozen(u, f)
    \/ \E k \in Keys : ExpireKey(k)

Spec == Init /\ [][Next]_vars

\* A goroutine that is called keeps running: the Go scheduler and the bank
\* client's timeout give every handler its next step, unless it is aborted.
Fairness == \A p \in Handlers : WF_vars(HandlerStep(p))
FairSpec == Spec /\ Fairness

---------------------------------------------------------------------------
(* Properties.                                                             *)

\* The shapes of a handler's locals: called and not yet debited, holding a
\* debit row, refunding, refreshing.
Called == [pc : {"check", "debit"}, user : Users, to : Recipients, amt : Amounts,
           key : Keys, tx : {"none"}]
Holding == [pc : {"transfer", "settle", "compensate", "record"}, user : Users,
            to : Recipients, amt : Amounts, key : Keys, tx : TxIds]
Refunding == [pc : {"refund", "credit"}, user : Users, amt : Amounts, tx : TxIds]
Syncing == [pc : {"sync"}, user : Users, amt : Nat]
Locals == {Idle} \cup Called \cup Holding \cup Refunding \cup Syncing

\* The saga keeps pending_out_paise at or above zero.
SagaRow == [available : Int, pendingIn : Int, pendingOut : Nat, frozen : BOOLEAN]

\* Type invariant: every column and every handler's locals stay in range; the
\* bank never overdraws an account, and pending_out_paise, which the debit
\* saga owns, is never negative.
TypeOK ==
    /\ balances \in [Users -> SagaRow]
    /\ txns \in [TxIds -> DebitRow \cup {FreeRow}]
    /\ receipts \in [TxIds -> Nat]
    /\ refunds \in [TxIds -> Nat]
    /\ idem \in [Keys -> [user : Users, op : {"send", "merchant_pay"}, tx : TxIds]
                         \cup {NoRecord}]
    /\ acct \in [Users \cup {Pool} -> Nat]
    /\ applied \subseteq TxIds
    /\ bankRefunds \in [TxIds -> Nat]
    /\ resynced \subseteq Users
    /\ orphans \subseteq TxIds
    /\ proc \in [Handlers -> Locals]

\* What a handler remembers of its payment is what the payment's row still
\* says, whatever ran since it wrote it, and no two handlers work on one row:
\* the row of a handler on its way to the settlement is pending, that of a
\* handler on its way to RecordIdempotency has gone through, and a refund's
\* original has succeeded for at least the amount refunded.
SameTerms(r, row) ==
    row.user = r.user /\ row.to = r.to /\ row.amt = r.amt /\ row.key = r.key
RowOfHandler(p) ==
    LET r == proc[p]
        row == txns[r.tx]
    IN  /\ r.pc \in Unfinished => row.status = "pending" /\ SameTerms(r, row)
        /\ r.pc = "settle" => r.tx \in applied
        /\ r.pc = "record" => row.status \in {"succeeded", "pending_invite"} /\ SameTerms(r, row)
        /\ r.pc \in {"refund", "credit"} =>
             row.status = "succeeded" /\ row.user = r.user /\ r.amt <= row.amt
NoSharedRow ==
    \A p, q \in Handlers :
        p # q /\ proc[p].pc \in Unfinished /\ proc[q].pc \in Unfinished => proc[p].tx # proc[q].tx
HandlersOwnRows == NoSharedRow /\ \A p \in Handlers : RowOfHandler(p)

\* No interleaving of sends, merchant debits, refunds and refreshes takes a
\* wallet below zero, although every handler checks the balance long before
\* it debits: the WHERE clause of DebitAvailableTx is what protects it.
NeverOverdrawn == \A u \in Users : balances[u].available >= 0

\* A payment is reported as succeeded only after the bank has moved the money.
SucceededAtBank ==
    \A t \in Used : txns[t].status = "succeeded" => t \in applied

\* Both legs of a send or none: the recipient has exactly one receive row when
\* the sender's row succeeded, and none in every other status.
BothLegs ==
    \A t \in TxIds : receipts[t] =
        IF t \in Used /\ txns[t].status = "succeeded" /\ txns[t].to \in Users THEN 1 ELSE 0

\* What a replayed key returns is a payment of that user and operation, made
\* with that key, that did go through: a failed or unfinished one is never
\* cached, whatever ran between the payment and the insert.
ReplayIsFinal ==
    \A k \in Keys : ~KeyNotFound(idem, k) =>
        LET row == txns[idem[k].tx] IN
        /\ idem[k].tx \in Used
        /\ row.key = k /\ row.user = idem[k].user /\ Operation(row.to) = idem[k].op
        /\ row.status \in {"succeeded", "pending_invite"}

\* The sum of f[t] over a finite set of payments, counted paisa by paisa: f
\* gives every payment of S a natural number.
SumOver(S, f) == Cardinality(UNION {{t} \X (1..f[t]) : t \in S})
Amt == [t \in Used |-> txns[t].amt]

\* The payments of a wallet, those that hold its money, those the bank has
\* applied and its own row has not, and those it is still to be credited with.
PaymentsOf(u) == {t \in Used : txns[t].user = u}
HeldBy(u) == {t \in PaymentsOf(u) : txns[t].status \in {"pending", "pending_invite"}}
Unsettled(u) == {t \in applied : txns[t].user = u /\ txns[t].status # "succeeded"}
Uncredited(u) == {t \in applied : txns[t].to = u /\ receipts[t] = 0}

\* pending_out_paise is exactly what the wallet's unfinished debits hold: the
\* GREATEST(.., 0) floors in the store never hide a double release, and no
\* crash leaves a hold without the pending row that explains it.
PendingOutExact ==
    \A u \in Users : balances[u].pendingOut = SumOver(HeldBy(u), Amt)

\* As long as no refresh has overwritten it, the mirror differs from the bank
\* by exactly the movements only one of the two has seen: what is on hold, the
\* transfers the bank has applied and the sender's or the recipient's row has
\* not, and the refunds the bank has paid and the mirror not.
MirrorExplained ==
    \A u \in Users \ resynced :
        acct[u] + SumOver(Unsettled(u), Amt) + SumOver(PaymentsOf(u), refunds)
        = balances[u].available + balances[u].pendingOut
          + SumOver(Uncredited(u), Amt) + SumOver(PaymentsOf(u), bankRefunds)

\* A settled status is final: no later handler, replay or compensation turns
\* a succeeded payment into a failed one or back.
StatusFinal ==
    [][\A t \in Used : txns[t].status # "pending" => txns'[t] = txns[t]]_vars

\* Once trust-safety freezes a wallet no debit starts from it, not even by a
\* handler that passed its freeze check before.
FrozenMeansNoDebit ==
    [][\A t \in TxIds \ Used : t \in Used'
          => ~balances[txns'[t].user].frozen]_vars

\* A pending payment does not stay pending: its handler settles or reverses
\* it, unless the handler was aborted: nothing in the service resumes an orphan.
PendingResolves ==
    \A t \in TxIds : txns[t].status = "pending" ~> (txns[t].status # "pending" \/ t \in orphans)

---------------------------------------------------------------------------
(* The saga implements Escrow: the tables, read as purses and payments.    *)

EscrowState(s) ==
    IF s \in {"pending", "pending_invite"} THEN "held"
    ELSE IF s = "succeeded" THEN "settled" ELSE "returned"

AbsPurse == [u \in Users |-> balances[u].available]
AbsPayment ==
    [t \in TxIds |->
        IF txns[t].status = "free" THEN [state |-> "none"]
        ELSE [state |-> EscrowState(txns[t].status), from |-> txns[t].user,
              to |-> txns[t].to, amt |-> txns[t].amt]]

E == INSTANCE Escrow WITH Payees <- Recipients, Payments <- TxIds,
                          purse <- AbsPurse, payment <- AbsPayment

\* Concurrent handlers, compensation, crashes and lost replies notwithstanding,
\* every step of the tables is one Escrow step or none: no payment is credited
\* twice, or credited and given back, and no purse moves without a reason.
EscrowSpec == E!Spec

---------------------------------------------------------------------------
(* What a comment of the code promises and the code does not keep.         *)

\* send.go, MerchantDebit: "Idempotent on idempotencyKey" - one key debits a
\* wallet at most once while its idempotency row is valid.
DebitedOncePerKey ==
    \A k \in Keys, u \in Users :
        Cardinality({t \in Used : txns[t].key = k /\ txns[t].user = u /\ txns[t].to = Pool
                                  /\ txns[t].status = "succeeded"}) <= 1
=============================================================================
