-------------------------- MODULE WalletSagaProofs --------------------------
(***************************************************************************)
(* Theorems of WalletSaga, for every number of wallets, handlers, keys and *)
(* ids and all amounts.                                                    *)
(***************************************************************************)
EXTENDS WalletSaga, FiniteSetTheorems, TLAPS

\* The store's statements keep a balance row in its type.
LEMMA RowTypes ==
    ASSUME NEW row \in SagaRow, NEW a \in Nat
    PROVE  /\ Debited(row, a) \in SagaRow
           /\ DebitSettled(row, a) \in SagaRow
           /\ DebitReversed(row, a) \in SagaRow
           /\ Credited(row, a) \in SagaRow
<1>1. /\ row.available - a \in Int /\ row.available + a \in Int
      /\ row.pendingOut + a \in Nat /\ Floor0(row.pendingOut - a) \in Nat
  BY DEF SagaRow, Floor0
<1>2. [row EXCEPT !.available = row.available - a] \in SagaRow
  BY <1>1 DEF SagaRow
<1>3. [row EXCEPT !.available = row.available + a] \in SagaRow
  BY <1>1 DEF SagaRow
<1>4. Debited(row, a) \in SagaRow
  BY <1>1, <1>2 DEF Debited, SagaRow
<1>5. DebitReversed(row, a) \in SagaRow
  BY <1>1, <1>3 DEF DebitReversed, SagaRow
<1>6. DebitSettled(row, a) \in SagaRow
  BY <1>1 DEF DebitSettled, SagaRow
<1>7. Credited(row, a) \in SagaRow
  BY <1>3 DEF Credited, SagaRow
<1> QED
  BY <1>4, <1>5, <1>6, <1>7

\* What a handler's program counter says about its locals.
LEMMA Shapes ==
    ASSUME TypeOK, NEW p \in Handlers
    PROVE  /\ proc[p].pc \in {"check", "debit"} => proc[p] \in Called
           /\ proc[p].pc \in {"transfer", "settle", "compensate", "record"} => proc[p] \in Holding
           /\ proc[p].pc \in {"refund", "credit"} => proc[p] \in Refunding
           /\ proc[p].pc = "sync" => proc[p] \in Syncing
           /\ proc[p].pc = "idle" => proc[p] = Idle
<1> proc[p] \in Locals
  BY DEF TypeOK
<1> QED
  BY DEF Locals, Idle, Called, Holding, Refunding, Syncing

\* MarkSettled writes a status and nothing else.
LEMMA MarkSettledType ==
    ASSUME TypeOK, NEW t \in TxIds, NEW s \in Statuses
    PROVE  MarkSettled(txns, t, s) \in [TxIds -> DebitRow \cup {FreeRow}]
<1>1. CASE txns[t].status = "pending"
  <2>1. txns[t] \in DebitRow
    BY <1>1 DEF TypeOK, FreeRow
  <2>2. [txns[t] EXCEPT !.status = s] \in DebitRow
    BY <2>1 DEF DebitRow
  <2> QED
    BY <1>1, <2>2 DEF TypeOK, MarkSettled
<1> QED
  BY <1>1 DEF TypeOK, MarkSettled

LEMMA InitType == Init => TypeOK
BY SagaConstants DEF Init, TypeOK, SagaRow, FreeRow, NoRecord, Locals, Idle, SagaConstants

LEMMA SagaCallType ==
    ASSUME TypeOK, NEW p \in Handlers, NEW u \in Users, NEW to \in Recipients,
           NEW a \in Amounts, NEW k \in Keys, SagaCall(p, u, to, a, k)
    PROVE  TypeOK'
<1>1. [pc |-> "check", user |-> u, to |-> to, amt |-> a, key |-> k, tx |-> "none"] \in Called
  BY DEF Called
<1>2. proc' \in [Handlers -> Locals]
  BY <1>1 DEF TypeOK, SagaCall, Locals
<1> QED
  BY <1>2 DEF TypeOK, SagaCall, rows, bankVars, history

LEMMA CheckType ==
    ASSUME TypeOK, NEW p \in Handlers, Check(p)
    PROVE  TypeOK'
<1>1. proc[p] \in Called
  BY Shapes DEF Check
<1>2. [proc[p] EXCEPT !.pc = "debit"] \in Called
  BY <1>1 DEF Called
<1>3. proc' \in [Handlers -> Locals]
  BY <1>2 DEF TypeOK, Check, Goto, Return, Locals
<1> QED
  BY <1>3 DEF TypeOK, Check, rows, bankVars, history

LEMMA DebitType ==
    ASSUME TypeOK, NEW p \in Handlers, Debit(p)
    PROVE  TypeOK'
<1>1. proc[p] \in Called
  BY Shapes DEF Debit
<1> DEFINE r == proc[p]
<1>2. r.user \in Users /\ r.to \in Recipients /\ r.amt \in Amounts /\ r.amt \in Nat /\ r.key \in Keys
  BY <1>1, SagaConstants DEF Called, SagaConstants
<1>3. CASE DebitAllowed(balances[r.user], r.amt)
  <2>1. PICK t \in TxIds : DebitIn(p, t)
    BY <1>3 DEF Debit
  <2>2. Debited(balances[r.user], r.amt) \in SagaRow
    BY <1>2, RowTypes DEF TypeOK
  <2>3. balances' \in [Users -> SagaRow]
    BY <2>1, <2>2, <1>2 DEF TypeOK, DebitIn
  <2>4. txns' \in [TxIds -> DebitRow \cup {FreeRow}]
    BY <2>1, <1>2 DEF TypeOK, DebitIn, DebitRow, Statuses
  <2>5. proc'[p] \in Holding
    BY <2>1, <1>1 DEF TypeOK, DebitIn, Holding, Called
  <2>6. proc' \in [Handlers -> Locals]
    BY <2>1, <2>5 DEF TypeOK, DebitIn, Locals
  <2> QED
    BY <2>3, <2>4, <2>6 DEF TypeOK, Debit, bankVars, history
<1>4. CASE ~DebitAllowed(balances[r.user], r.amt)
  <2>1. proc' \in [Handlers -> Locals]
    BY <1>4 DEF TypeOK, Debit, Return, Locals
  <2> QED
    BY <1>4, <2>1 DEF TypeOK, Debit, bankVars, history
<1> QED
  BY <1>3, <1>4

LEMMA TransferType ==
    ASSUME TypeOK, NEW p \in Handlers, Transfer(p)
    PROVE  TypeOK'
<1> DEFINE r == proc[p]
<1>1. r \in Holding
  BY Shapes DEF Transfer
<1>2. r.user \in Users /\ r.amt \in Nat /\ r.tx \in TxIds
  BY <1>1, SagaConstants DEF Holding, SagaConstants
<1>3. [r EXCEPT !.pc = "settle"] \in Holding /\ [r EXCEPT !.pc = "compensate"] \in Holding
  BY <1>1 DEF Holding
<1>4. proc' \in [Handlers -> Locals]
  BY <1>3 DEF TypeOK, Transfer, Goto, Locals
<1>5. BankMoves(r) => acct' \in [Users \cup {Pool} -> Nat] /\ applied' \subseteq TxIds
  <2> SUFFICES ASSUME BankMoves(r)
               PROVE  acct' \in [Users \cup {Pool} -> Nat] /\ applied' \subseteq TxIds
    OBVIOUS
  <2>1. acct[r.user] \in Nat /\ acct[r.user] - r.amt \in Nat
    BY <1>2 DEF BankMoves, TypeOK
  <2> DEFINE mid == [acct EXCEPT ![r.user] = @ - r.amt]
  <2>2. mid \in [Users \cup {Pool} -> Nat]
    BY <2>1, <1>2 DEF TypeOK
  <2>3. [mid EXCEPT ![r.to] = @ + r.amt] \in [Users \cup {Pool} -> Nat]
    <3>1. CASE r.to \in Users \cup {Pool}
      <4>1. mid[r.to] + r.amt \in Nat
        BY <2>2, <3>1, <1>2
      <4> QED
        BY <2>2, <4>1
    <3>2. CASE r.to \notin Users \cup {Pool}
      BY <2>2, <3>2
    <3> QED
      BY <3>1, <3>2
  <2> QED
    BY <2>3, <1>2 DEF BankMoves, TypeOK
<1> QED
  BY <1>4, <1>5 DEF TypeOK, Transfer, rows, history

LEMMA SettleType ==
    ASSUME TypeOK, NEW p \in Handlers, Settle(p)
    PROVE  TypeOK'
<1> DEFINE r == proc[p]
<1>1. r \in Holding
  BY Shapes DEF Settle
<1>2. r.user \in Users /\ r.amt \in Nat /\ r.tx \in TxIds
  BY <1>1, SagaConstants DEF Holding, SagaConstants
<1>3. [r EXCEPT !.pc = "record"] \in Holding
  BY <1>1 DEF Holding
<1>4. proc' \in [Handlers -> Locals]
  BY <1>3 DEF TypeOK, Settle, Goto, Locals
<1>5. balances' \in [Users -> SagaRow]
  <2> DEFINE sender == [balances EXCEPT ![r.user] = DebitSettled(@, r.amt)]
  <2>1. sender \in [Users -> SagaRow]
    BY <1>2, RowTypes DEF TypeOK
  <2>2. ASSUME r.to \in Users
        PROVE  [sender EXCEPT ![r.to] = Credited(@, r.amt)] \in [Users -> SagaRow]
    <3>1. Credited(sender[r.to], r.amt) \in SagaRow
      BY <2>1, <2>2, <1>2, RowTypes
    <3> QED
      BY <2>1, <3>1
  <2> QED
    BY <2>1, <2>2 DEF Settle, SettledBalances
<1>6. txns' \in [TxIds -> DebitRow \cup {FreeRow}]
  BY <1>2, MarkSettledType DEF Statuses, Settle
<1>7. receipts' \in [TxIds -> Nat]
  BY <1>2 DEF TypeOK, Settle
<1> QED
  BY <1>4, <1>5, <1>6, <1>7 DEF TypeOK, Settle, bankVars, history

LEMMA CompensateType ==
    ASSUME TypeOK, NEW p \in Handlers, Compensate(p)
    PROVE  TypeOK'
<1> DEFINE r == proc[p]
<1>1. r \in Holding
  BY Shapes DEF Compensate
<1>2. r.user \in Users /\ r.amt \in Nat /\ r.tx \in TxIds
  BY <1>1, SagaConstants DEF Holding, SagaConstants
<1>3. DebitReversed(balances[r.user], r.amt) \in SagaRow
  BY <1>2, RowTypes DEF TypeOK
<1>4. balances' \in [Users -> SagaRow]
  BY <1>2, <1>3 DEF TypeOK, Compensate
<1>5. txns' \in [TxIds -> DebitRow \cup {FreeRow}]
  BY <1>2, MarkSettledType DEF Statuses, Compensate
<1>6. proc' \in [Handlers -> Locals]
  BY DEF TypeOK, Compensate, Return, Locals
<1> QED
  BY <1>4, <1>5, <1>6 DEF TypeOK, Compensate, bankVars, history

LEMMA RecordType ==
    ASSUME TypeOK, NEW p \in Handlers, Record(p)
    PROVE  TypeOK'
<1> DEFINE r == proc[p]
           rec == [user |-> r.user, op |-> Operation(r.to), tx |-> r.tx]
<1>1. r \in Holding
  BY Shapes DEF Record
<1>2. rec \in [user : Users, op : {"send", "merchant_pay"}, tx : TxIds]
  BY <1>1 DEF Holding, Operation
<1>3. idem' \in [Keys -> [user : Users, op : {"send", "merchant_pay"}, tx : TxIds]
                         \cup {NoRecord}]
  BY <1>1, <1>2 DEF TypeOK, Record, Recorded
<1>4. proc' \in [Handlers -> Locals]
  BY DEF TypeOK, Record, Return, Locals
<1> QED
  BY <1>3, <1>4 DEF TypeOK, Record, rows, bankVars, history

LEMMA RefundType ==
    ASSUME TypeOK, NEW p \in Handlers, NEW t \in TxIds, NEW a \in Amounts, Refund(p, t, a)
    PROVE  TypeOK'
<1>1. txns[t] \in DebitRow
  BY DEF TypeOK, Refund, Used, FreeRow
<1>2. [pc |-> "refund", user |-> txns[t].user, amt |-> a, tx |-> t] \in Refunding
  BY <1>1 DEF DebitRow, Refunding
<1>3. proc' \in [Handlers -> Locals]
  BY <1>2 DEF TypeOK, Refund, Locals
<1> QED
  BY <1>3 DEF TypeOK, Refund, rows, bankVars, history

LEMMA RefundAtBankType ==
    ASSUME TypeOK, NEW p \in Handlers, RefundAtBank(p)
    PROVE  TypeOK'
<1> DEFINE r == proc[p]
<1>1. r \in Refunding
  BY Shapes DEF RefundAtBank
<1>2. r.user \in Users /\ r.amt \in Nat /\ r.tx \in TxIds
  BY <1>1, SagaConstants DEF Refunding, SagaConstants
<1>3. [r EXCEPT !.pc = "credit"] \in Refunding
  BY <1>1 DEF Refunding
<1>4. proc' \in [Handlers -> Locals]
  BY <1>3 DEF TypeOK, RefundAtBank, Goto, Return, Locals
<1>5. BankPaysBack(r) => acct' \in [Users \cup {Pool} -> Nat] /\ bankRefunds' \in [TxIds -> Nat]
  <2> SUFFICES ASSUME BankPaysBack(r)
               PROVE  acct' \in [Users \cup {Pool} -> Nat] /\ bankRefunds' \in [TxIds -> Nat]
    OBVIOUS
  <2>1. acct[Pool] - r.amt \in Nat
    BY <1>2 DEF BankPaysBack, TypeOK
  <2> DEFINE mid == [acct EXCEPT ![Pool] = @ - r.amt]
  <2>2. mid \in [Users \cup {Pool} -> Nat]
    BY <2>1 DEF TypeOK
  <2>3. mid[r.user] = acct[r.user] /\ acct[r.user] + r.amt \in Nat
    BY <1>2, SagaConstants DEF TypeOK, SagaConstants
  <2>4. [mid EXCEPT ![r.user] = acct[r.user] + r.amt] \in [Users \cup {Pool} -> Nat]
    BY <2>2, <2>3
  <2>5. bankRefunds[r.tx] + r.amt \in Nat
    BY <1>2 DEF TypeOK
  <2>6. acct' \in [Users \cup {Pool} -> Nat]
    BY <2>3, <2>4 DEF BankPaysBack
  <2>7. bankRefunds' \in [TxIds -> Nat]
    BY <2>5, <1>2 DEF BankPaysBack, TypeOK
  <2> QED
    BY <2>6, <2>7
<1> QED
  BY <1>4, <1>5 DEF TypeOK, RefundAtBank, rows, history

LEMMA RefundCreditType ==
    ASSUME TypeOK, NEW p \in Handlers, RefundCredit(p)
    PROVE  TypeOK'
<1> DEFINE r == proc[p]
<1>1. r \in Refunding
  BY Shapes DEF RefundCredit
<1>2. r.user \in Users /\ r.amt \in Nat /\ r.tx \in TxIds
  BY <1>1, SagaConstants DEF Refunding, SagaConstants
<1>3. Credited(balances[r.user], r.amt) \in SagaRow
  BY <1>2, RowTypes DEF TypeOK
<1>4. balances' \in [Users -> SagaRow]
  BY <1>2, <1>3 DEF TypeOK, RefundCredit
<1>5. refunds' \in [TxIds -> Nat]
  BY <1>2 DEF TypeOK, RefundCredit
<1>6. proc' \in [Handlers -> Locals]
  BY DEF TypeOK, RefundCredit, Return, Locals
<1> QED
  BY <1>4, <1>5, <1>6 DEF TypeOK, RefundCredit, bankVars, history

LEMMA RefreshReadType ==
    ASSUME TypeOK, NEW p \in Handlers, NEW u \in Users, RefreshRead(p, u)
    PROVE  TypeOK'
<1>1. [pc |-> "sync", user |-> u, amt |-> acct[u]] \in Syncing
  BY DEF TypeOK, Syncing
<1>2. proc' \in [Handlers -> Locals]
  BY <1>1 DEF TypeOK, RefreshRead, Locals
<1> QED
  BY <1>2 DEF TypeOK, RefreshRead, rows, bankVars, history

LEMMA RefreshWriteType ==
    ASSUME TypeOK, NEW p \in Handlers, RefreshWrite(p)
    PROVE  TypeOK'
<1> DEFINE r == proc[p]
<1>1. r.user \in Users /\ r.amt \in Nat
  BY Shapes DEF RefreshWrite, Syncing
<1>2. Synced(balances[r.user], r.amt) \in SagaRow
  BY <1>1 DEF TypeOK, Synced, SagaRow
<1>3. balances' \in [Users -> SagaRow]
  BY <1>1, <1>2 DEF TypeOK, RefreshWrite
<1>4. proc' \in [Handlers -> Locals]
  BY DEF TypeOK, RefreshWrite, Return, Locals
<1>5. resynced' \subseteq Users
  BY <1>1 DEF TypeOK, RefreshWrite
<1> QED
  BY <1>3, <1>4, <1>5 DEF TypeOK, RefreshWrite, rows, bankVars

LEMMA SetFrozenType ==
    ASSUME TypeOK, NEW u \in Freezable, NEW f \in BOOLEAN, SetFrozen(u, f)
    PROVE  TypeOK'
<1>1. u \in Users
  BY SagaConstants DEF SagaConstants
<1>2. balances[u] \in SagaRow
  BY <1>1 DEF TypeOK
<1>3. [balances[u] EXCEPT !.frozen = f] \in SagaRow
  BY <1>2 DEF SagaRow
<1>4. balances' = [balances EXCEPT ![u] = [balances[u] EXCEPT !.frozen = f]]
  BY DEF SetFrozen
<1>5. balances' \in [Users -> SagaRow]
  BY <1>1, <1>3, <1>4 DEF TypeOK
<1> QED
  BY <1>5 DEF TypeOK, SetFrozen, rows, bankVars, history

LEMMA ExpireKeyType ==
    ASSUME TypeOK, NEW k \in Keys, ExpireKey(k)
    PROVE  TypeOK'
BY DEF TypeOK, ExpireKey, rows, bankVars, history

LEMMA AbortType ==
    ASSUME TypeOK, NEW p \in Handlers, Abort(p)
    PROVE  TypeOK'
<1>1. proc' \in [Handlers -> Locals]
  BY DEF TypeOK, Abort, Return, Locals
<1>2. orphans' \subseteq TxIds
  BY DEF TypeOK, Abort
<1> QED
  BY <1>1, <1>2 DEF TypeOK, Abort, rows, bankVars

LEMMA NextType == TypeOK /\ [Next]_vars => TypeOK'
<1> SUFFICES ASSUME TypeOK, [Next]_vars
             PROVE  TypeOK'
  OBVIOUS
<1>1. ASSUME NEW p \in Handlers, NEW u \in Users, NEW a \in Amounts, NEW k \in Keys,
             Send(p, u, a, k) \/ MerchantDebit(p, u, a, k)
      PROVE  TypeOK'
  BY <1>1, SagaCallType DEF Send, MerchantDebit, Recipients
<1>2. ASSUME NEW p \in Handlers, NEW t \in TxIds, NEW a \in Amounts, Refund(p, t, a)
      PROVE  TypeOK'
  BY <1>2, RefundType
<1>3. ASSUME NEW p \in Handlers, NEW u \in Users, RefreshRead(p, u)
      PROVE  TypeOK'
  BY <1>3, RefreshReadType
<1>4. ASSUME NEW p \in Handlers, HandlerStep(p)
      PROVE  TypeOK'
  BY <1>4, CheckType, DebitType, TransferType, SettleType, CompensateType, RecordType,
     RefundAtBankType, RefundCreditType, RefreshWriteType DEF HandlerStep
<1>5. ASSUME NEW p \in Handlers, Abort(p)
      PROVE  TypeOK'
  BY <1>5, AbortType
<1>6. ASSUME NEW u \in Freezable, NEW f \in BOOLEAN, SetFrozen(u, f)
      PROVE  TypeOK'
  BY <1>6, SetFrozenType
<1>7. ASSUME NEW k \in Keys, ExpireKey(k)
      PROVE  TypeOK'
  BY <1>7, ExpireKeyType
<1>8. CASE UNCHANGED vars
  BY <1>8 DEF TypeOK, vars, rows, bankVars, history
<1> QED
  BY <1>1, <1>2, <1>3, <1>4, <1>5, <1>6, <1>7, <1>8 DEF Next

\* TypeOK holds in every state: no column and no handler's locals leave their
\* range, pending_out_paise never goes below zero although two statements with
\* a floor release it, and the bank never pays out more than an account holds.
THEOREM TypeCorrect == Spec => []TypeOK
BY InitType, NextType, PTL DEF Spec

---------------------------------------------------------------------------
(* The inductive invariant.  What a settlement or a recorded key says of a *)
(* payment follows from the row the handler owns; HandlersOwnRows is the   *)
(* strengthening that makes the other conjuncts inductive.                 *)

IInv == TypeOK /\ HandlersOwnRows /\ SucceededAtBank /\ BothLegs /\ ReplayIsFinal

\* A handler that holds or refunds a payment works on a row in use.
LEMMA RowInUse ==
    ASSUME TypeOK, NEW p \in Handlers, RowOfHandler(p),
           proc[p].pc \in Unfinished \cup {"record", "refund", "credit"}
    PROVE  proc[p].tx \in TxIds /\ txns[proc[p].tx] \in DebitRow
<1>1. proc[p].tx \in TxIds
  BY Shapes DEF Unfinished, Holding, Refunding
<1>2. txns[proc[p].tx].status # "free"
  BY DEF RowOfHandler, Unfinished
<1> QED
  BY <1>1, <1>2 DEF TypeOK, FreeRow

\* A step of handler p that leaves the other handlers' rows alone keeps
\* HandlersOwnRows when p agrees with its own row afterwards.
LEMMA OwnStep ==
    ASSUME HandlersOwnRows, NEW p \in Handlers,
           \A q \in Handlers \ {p} : proc'[q] = proc[q],
           \A q \in Handlers \ {p} :
               proc[q].pc \in Unfinished \cup {"record", "refund", "credit"}
               => txns'[proc[q].tx] = txns[proc[q].tx],
           applied \subseteq applied',
           RowOfHandler(p)',
           proc'[p].pc \in Unfinished =>
               \A q \in Handlers \ {p} : proc[q].pc \in Unfinished => proc[q].tx # proc'[p].tx
    PROVE  HandlersOwnRows'
<1>1. ASSUME NEW q \in Handlers
      PROVE  RowOfHandler(q)'
  <2>1. CASE q = p
    BY <2>1
  <2>2. CASE q # p
    <3>1. RowOfHandler(q) /\ proc'[q] = proc[q]
      BY <2>2 DEF HandlersOwnRows
    <3>2. proc[q].pc \in Unfinished \cup {"record", "refund", "credit"}
          => txns'[proc[q].tx] = txns[proc[q].tx]
      BY <2>2
    <3> QED
      BY <3>1, <3>2 DEF RowOfHandler, SameTerms
  <2> QED
    BY <2>1, <2>2
<1>2. NoSharedRow'
  BY DEF HandlersOwnRows, NoSharedRow
<1> QED
  BY <1>1, <1>2 DEF HandlersOwnRows

\* The other conjuncts of IInv read the rows, the keys and what the bank has
\* applied: a step that leaves the first two alone keeps them.
LEMMA SameRows ==
    ASSUME SucceededAtBank, BothLegs, ReplayIsFinal,
           UNCHANGED <<txns, receipts, idem>>, applied \subseteq applied'
    PROVE  SucceededAtBank' /\ BothLegs' /\ ReplayIsFinal'
<1>1. SucceededAtBank'
  BY DEF SucceededAtBank, Used
<1>2. BothLegs'
  BY DEF BothLegs, Used
<1>3. ReplayIsFinal'
  BY DEF ReplayIsFinal, Used, KeyNotFound, Operation
<1> QED
  BY <1>1, <1>2, <1>3

\* A step that ends handler p, or starts it on nothing yet, owes it no row.
LEMMA NoRowStep ==
    ASSUME HandlersOwnRows, NEW p \in Handlers, UNCHANGED txns, applied \subseteq applied',
           \A q \in Handlers \ {p} : proc'[q] = proc[q],
           proc'[p].pc \in {"idle", "check", "debit", "sync"}
    PROVE  HandlersOwnRows'
<1>1. RowOfHandler(p)'
  BY DEF RowOfHandler, Unfinished
<1>2. proc'[p].pc \notin Unfinished
  BY DEF Unfinished
<1> QED
  BY <1>1, <1>2, OwnStep

LEMMA CallInv ==
    ASSUME IInv, NEW p \in Handlers, NEW u, NEW to, NEW a, NEW k, SagaCall(p, u, to, a, k)
    PROVE  HandlersOwnRows' /\ SucceededAtBank' /\ BothLegs' /\ ReplayIsFinal'
<1>1. proc'[p].pc = "check" /\ \A q \in Handlers \ {p} : proc'[q] = proc[q]
  BY DEF SagaCall, IInv, TypeOK
<1>2. UNCHANGED <<txns, receipts, idem, applied>>
  BY DEF SagaCall, rows, bankVars
<1> QED
  BY <1>1, <1>2, NoRowStep, SameRows DEF IInv

LEMMA CheckInv ==
    ASSUME IInv, NEW p \in Handlers, Check(p)
    PROVE  HandlersOwnRows' /\ SucceededAtBank' /\ BothLegs' /\ ReplayIsFinal'
<1>1. proc[p] \in Called
  BY Shapes DEF Check, IInv
<1>2. proc'[p].pc \in {"idle", "debit"} /\ \A q \in Handlers \ {p} : proc'[q] = proc[q]
  BY <1>1 DEF Check, Goto, Return, Idle, IInv, TypeOK, Called
<1>3. UNCHANGED <<txns, receipts, idem, applied>>
  BY DEF Check, rows, bankVars
<1> QED
  BY <1>2, <1>3, NoRowStep, SameRows DEF IInv

LEMMA DebitInv ==
    ASSUME IInv, NEW p \in Handlers, Debit(p)
    PROVE  HandlersOwnRows' /\ SucceededAtBank' /\ BothLegs' /\ ReplayIsFinal'
<1> DEFINE r == proc[p]
<1>1. r \in Called
  BY Shapes DEF Debit, IInv
<1>2. CASE ~DebitAllowed(balances[r.user], r.amt)
  <2>1. proc'[p].pc = "idle" /\ \A q \in Handlers \ {p} : proc'[q] = proc[q]
    BY <1>2 DEF Debit, Return, Idle, IInv, TypeOK
  <2>2. UNCHANGED <<txns, receipts, idem, applied>>
    BY <1>2 DEF Debit, bankVars
  <2> QED
    BY <2>1, <2>2, NoRowStep, SameRows DEF IInv
<1>3. CASE DebitAllowed(balances[r.user], r.amt)
  <2>1. PICK t \in TxIds : DebitIn(p, t)
    BY <1>3 DEF Debit
  <2>2. txns[t].status = "free" /\ UNCHANGED <<receipts, idem, applied>>
    BY <2>1 DEF DebitIn, Used, Debit, bankVars
  <2>3. /\ txns'[t].status \in {"pending", "pending_invite"}
        /\ SameTerms(r, txns'[t])
        /\ \A o \in TxIds \ {t} : txns'[o] = txns[o]
    BY <2>1 DEF DebitIn, IInv, TypeOK, SameTerms
  <2>4. \A q \in Handlers \ {p} : proc'[q] = proc[q]
    BY <2>1 DEF DebitIn, IInv, TypeOK
  <2>5. /\ proc'[p].tx = t /\ SameTerms(proc'[p], txns'[t])
        /\ \/ proc'[p].pc = "record" /\ txns'[t].status = "pending_invite"
           \/ proc'[p].pc = "transfer" /\ txns'[t].status = "pending"
    BY <2>1, <1>1 DEF DebitIn, IInv, TypeOK, SameTerms, Called
  <2>6. \A q \in Handlers \ {p} :
            proc[q].pc \in Unfinished \cup {"record", "refund", "credit"}
            => proc[q].tx # t /\ txns'[proc[q].tx] = txns[proc[q].tx]
    <3> SUFFICES ASSUME NEW q \in Handlers \ {p},
                        proc[q].pc \in Unfinished \cup {"record", "refund", "credit"}
                 PROVE  proc[q].tx # t /\ txns'[proc[q].tx] = txns[proc[q].tx]
      OBVIOUS
    <3>1. proc[q].tx \in TxIds /\ txns[proc[q].tx] \in DebitRow
      BY RowInUse DEF IInv, HandlersOwnRows
    <3>2. proc[q].tx # t
      BY <3>1, <2>2 DEF DebitRow, Statuses
    <3> QED
      BY <3>1, <3>2, <2>3
  <2>7. RowOfHandler(p)'
    BY <2>5 DEF RowOfHandler, Unfinished
  <2>8. HandlersOwnRows'
    BY <2>2, <2>4, <2>5, <2>6, <2>7, OwnStep DEF IInv, Unfinished
  <2>9. SucceededAtBank'
    BY <2>2, <2>3 DEF IInv, SucceededAtBank, Used
  <2>10. BothLegs'
    BY <2>2, <2>3 DEF IInv, BothLegs, Used
  <2>11. ReplayIsFinal'
    BY <2>2, <2>3 DEF IInv, ReplayIsFinal, Used, KeyNotFound
  <2> QED
    BY <2>8, <2>9, <2>10, <2>11
<1> QED
  BY <1>2, <1>3

LEMMA TransferInv ==
    ASSUME IInv, NEW p \in Handlers, Transfer(p)
    PROVE  HandlersOwnRows' /\ SucceededAtBank' /\ BothLegs' /\ ReplayIsFinal'
<1> DEFINE r == proc[p]
<1>1. r \in Holding
  BY Shapes DEF Transfer, IInv
<1>2. UNCHANGED <<txns, receipts, idem>> /\ applied \subseteq applied'
  BY DEF Transfer, BankMoves, rows
<1>3. \A q \in Handlers \ {p} : proc'[q] = proc[q]
  BY DEF Transfer, Goto, IInv, TypeOK
<1>4. /\ proc'[p].pc \in {"settle", "compensate"} /\ proc'[p].tx = r.tx
      /\ SameTerms(r, txns[r.tx]) => SameTerms(proc'[p], txns'[r.tx])
      /\ proc'[p].pc = "settle" => r.tx \in applied'
  BY <1>1, <1>2 DEF Transfer, BankMoves, Goto, IInv, TypeOK, Holding, SameTerms
<1>5. txns[r.tx].status = "pending" /\ SameTerms(r, txns[r.tx])
  BY DEF Transfer, IInv, HandlersOwnRows, RowOfHandler, Unfinished
<1>6. RowOfHandler(p)'
  BY <1>2, <1>4, <1>5 DEF RowOfHandler, Unfinished
<1>7. \A q \in Handlers \ {p} : proc[q].pc \in Unfinished => proc[q].tx # proc'[p].tx
  BY <1>4 DEF Transfer, IInv, HandlersOwnRows, NoSharedRow, Unfinished
<1>8. HandlersOwnRows'
  BY <1>2, <1>3, <1>6, <1>7, OwnStep DEF IInv
<1> QED
  BY <1>2, <1>8, SameRows DEF IInv

\* MarkSettled on a pending row changes that row's status and no other row.
LEMMA MarkSettledEffect ==
    ASSUME TypeOK, NEW t \in TxIds, txns[t].status = "pending", NEW s \in Statuses
    PROVE  LET new == MarkSettled(txns, t, s) IN
           /\ new[t].status = s
           /\ \A r : SameTerms(r, txns[t]) => SameTerms(r, new[t])
           /\ new[t].to = txns[t].to
           /\ \A o \in TxIds \ {t} : new[o] = txns[o]
<1>1. txns[t] \in DebitRow
  BY DEF TypeOK, FreeRow
<1>2. MarkSettled(txns, t, s) = [txns EXCEPT ![t].status = s]
  BY DEF MarkSettled
<1> QED
  BY <1>1, <1>2 DEF TypeOK, DebitRow, SameTerms

\* A handler that ends its pending row disturbs no other handler's row.
LEMMA OthersKept ==
    ASSUME IInv, NEW p \in Handlers, proc[p].pc \in Unfinished,
           \A o \in TxIds \ {proc[p].tx} : txns'[o] = txns[o]
    PROVE  \A q \in Handlers \ {p} :
               proc[q].pc \in Unfinished \cup {"record", "refund", "credit"}
               => txns'[proc[q].tx] = txns[proc[q].tx]
<1> SUFFICES ASSUME NEW q \in Handlers \ {p},
                    proc[q].pc \in Unfinished \cup {"record", "refund", "credit"}
             PROVE  txns'[proc[q].tx] = txns[proc[q].tx]
  OBVIOUS
<1>1. proc[q].tx \in TxIds
  BY RowInUse DEF IInv, HandlersOwnRows
<1>2. txns[proc[p].tx].status = "pending"
  BY DEF IInv, HandlersOwnRows, RowOfHandler
<1>3. CASE proc[q].pc \in Unfinished
  BY <1>1, <1>3 DEF IInv, HandlersOwnRows, NoSharedRow
<1>4. CASE proc[q].pc \in {"record", "refund", "credit"}
  <2>1. txns[proc[q].tx].status # "pending"
    BY <1>4 DEF IInv, HandlersOwnRows, RowOfHandler
  <2> QED
    BY <1>1, <1>2, <2>1
<1> QED
  BY <1>3, <1>4

LEMMA SettleInv ==
    ASSUME IInv, NEW p \in Handlers, Settle(p)
    PROVE  HandlersOwnRows' /\ SucceededAtBank' /\ BothLegs' /\ ReplayIsFinal'
<1> DEFINE r == proc[p]
<1>1. r \in Holding /\ r.tx \in TxIds
  BY Shapes DEF Settle, IInv, Holding
<1>2. txns[r.tx].status = "pending" /\ SameTerms(r, txns[r.tx]) /\ r.tx \in applied
  BY DEF Settle, IInv, HandlersOwnRows, RowOfHandler, Unfinished
<1>3. /\ txns'[r.tx].status = "succeeded" /\ SameTerms(r, txns'[r.tx])
      /\ \A o \in TxIds \ {r.tx} : txns'[o] = txns[o]
  BY <1>1, <1>2, MarkSettledEffect DEF Settle, IInv, Statuses
<1>4. \A q \in Handlers \ {p} : proc'[q] = proc[q]
  BY DEF Settle, Goto, IInv, TypeOK
<1>5. proc'[p].pc = "record" /\ proc'[p].tx = r.tx /\ SameTerms(proc'[p], txns'[r.tx])
  BY <1>1, <1>3 DEF Settle, Goto, IInv, TypeOK, Holding, SameTerms
<1>6. UNCHANGED <<idem, applied>>
  BY DEF Settle, bankVars
<1>7. HandlersOwnRows'
  <2>1. RowOfHandler(p)'
    BY <1>3, <1>5 DEF RowOfHandler, Unfinished
  <2>2. r.pc \in Unfinished
    BY DEF Settle, Unfinished
  <2> QED
    BY <1>3, <1>4, <1>5, <1>6, <2>1, <2>2, OthersKept, OwnStep DEF IInv, Unfinished
<1>8. SucceededAtBank'
  BY <1>2, <1>3, <1>6 DEF IInv, SucceededAtBank, Used
<1>9. BothLegs'
  <2>1. receipts[r.tx] = 0
    BY <1>1, <1>2 DEF IInv, BothLegs
  <2>2. txns'[r.tx].to = r.to /\ txns'[r.tx].status # "free"
    BY <1>3 DEF SameTerms
  <2>3. receipts'[r.tx] = IF r.to \in Users THEN 1 ELSE 0
    BY <1>1, <2>1 DEF Settle, IInv, TypeOK
  <2>4. \A o \in TxIds \ {r.tx} : receipts'[o] = receipts[o]
    BY <1>1 DEF Settle, IInv, TypeOK
  <2> QED
    BY <1>1, <1>3, <2>2, <2>3, <2>4 DEF IInv, BothLegs, Used
<1>10. ReplayIsFinal'
  BY <1>2, <1>3, <1>6 DEF IInv, ReplayIsFinal, Used, KeyNotFound
<1> QED
  BY <1>7, <1>8, <1>9, <1>10

LEMMA CompensateInv ==
    ASSUME IInv, NEW p \in Handlers, Compensate(p)
    PROVE  HandlersOwnRows' /\ SucceededAtBank' /\ BothLegs' /\ ReplayIsFinal'
<1> DEFINE r == proc[p]
<1>1. r \in Holding /\ r.tx \in TxIds
  BY Shapes DEF Compensate, IInv, Holding
<1>2. txns[r.tx].status = "pending" /\ r.pc \in Unfinished
  BY DEF Compensate, IInv, HandlersOwnRows, RowOfHandler, Unfinished
<1>3. /\ txns'[r.tx].status = "failed"
      /\ \A o \in TxIds \ {r.tx} : txns'[o] = txns[o]
  BY <1>1, <1>2, MarkSettledEffect DEF Compensate, IInv, Statuses
<1>4. proc'[p].pc = "idle" /\ \A q \in Handlers \ {p} : proc'[q] = proc[q]
  BY DEF Compensate, Return, Idle, IInv, TypeOK
<1>5. UNCHANGED <<receipts, idem, applied>>
  BY DEF Compensate, bankVars
<1>6. HandlersOwnRows'
  <2>1. RowOfHandler(p)'
    BY <1>4 DEF RowOfHandler, Unfinished
  <2> QED
    BY <1>2, <1>3, <1>4, <1>5, <2>1, OthersKept, OwnStep DEF IInv, Unfinished
<1>7. SucceededAtBank'
  BY <1>2, <1>3, <1>5 DEF IInv, SucceededAtBank, Used
<1>8. BothLegs'
  BY <1>2, <1>3, <1>5 DEF IInv, BothLegs, Used
<1>9. ReplayIsFinal'
  BY <1>2, <1>3, <1>5 DEF IInv, ReplayIsFinal, Used, KeyNotFound
<1> QED
  BY <1>6, <1>7, <1>8, <1>9

LEMMA RecordInv ==
    ASSUME IInv, NEW p \in Handlers, Record(p)
    PROVE  HandlersOwnRows' /\ SucceededAtBank' /\ BothLegs' /\ ReplayIsFinal'
<1> DEFINE r == proc[p]
           rec == [user |-> r.user, op |-> Operation(r.to), tx |-> r.tx]
<1>1. r \in Holding
  BY Shapes DEF Record, IInv
<1>2. proc'[p].pc = "idle" /\ \A q \in Handlers \ {p} : proc'[q] = proc[q]
  BY DEF Record, Return, Idle, IInv, TypeOK
<1>3. UNCHANGED <<txns, receipts, applied>>
  BY DEF Record, rows, bankVars
<1>4. txns[r.tx].status \in {"succeeded", "pending_invite"} /\ SameTerms(r, txns[r.tx])
  BY DEF Record, IInv, HandlersOwnRows, RowOfHandler
<1>5. HandlersOwnRows'
  BY <1>2, <1>3, NoRowStep DEF IInv
<1>6. SucceededAtBank' /\ BothLegs'
  BY <1>3 DEF IInv, SucceededAtBank, BothLegs, Used
<1>7. ReplayIsFinal'
  <2> SUFFICES ASSUME NEW k \in Keys, ~KeyNotFound(idem', k)
               PROVE  /\ idem'[k].tx \in Used
                      /\ txns[idem'[k].tx].key = k
                      /\ txns[idem'[k].tx].user = idem'[k].user
                      /\ Operation(txns[idem'[k].tx].to) = idem'[k].op
                      /\ txns[idem'[k].tx].status \in {"succeeded", "pending_invite"}
    BY <1>3 DEF ReplayIsFinal, Used, Operation, KeyNotFound
  <2>1. CASE idem'[k] = idem[k]
    BY <2>1 DEF IInv, ReplayIsFinal, KeyNotFound
  <2>2. CASE idem'[k] # idem[k]
    <3>1. k = r.key /\ idem'[k] = rec
      BY <1>1, <2>2 DEF Record, Recorded, IInv, TypeOK, Holding
    <3> QED
      BY <1>1, <1>4, <3>1 DEF SameTerms, Holding, Used
  <2> QED
    BY <2>1, <2>2
<1> QED
  BY <1>5, <1>6, <1>7

\* Refund keeps its original's id and owner, and an amount within it.
LEMMA RefundInv ==
    ASSUME IInv, NEW p \in Handlers, NEW t \in TxIds, NEW a \in Amounts, Refund(p, t, a)
    PROVE  HandlersOwnRows' /\ SucceededAtBank' /\ BothLegs' /\ ReplayIsFinal'
<1>1. proc'[p] = [pc |-> "refund", user |-> txns[t].user, amt |-> a, tx |-> t]
      /\ \A q \in Handlers \ {p} : proc'[q] = proc[q]
  BY DEF Refund, IInv, TypeOK
<1>2. UNCHANGED <<txns, receipts, idem, applied>>
  BY DEF Refund, rows, bankVars
<1>3. RowOfHandler(p)'
  BY <1>1, <1>2 DEF RowOfHandler, Unfinished, Refund, RefundAllowed
<1>4. HandlersOwnRows'
  BY <1>1, <1>2, <1>3, OwnStep DEF IInv, Unfinished
<1> QED
  BY <1>2, <1>4, SameRows DEF IInv

LEMMA RefundAtBankInv ==
    ASSUME IInv, NEW p \in Handlers, RefundAtBank(p)
    PROVE  HandlersOwnRows' /\ SucceededAtBank' /\ BothLegs' /\ ReplayIsFinal'
<1> DEFINE r == proc[p]
<1>1. r \in Refunding
  BY Shapes DEF RefundAtBank, IInv
<1>2. UNCHANGED <<txns, receipts, idem, applied>>
  BY DEF RefundAtBank, rows
<1>3. \A q \in Handlers \ {p} : proc'[q] = proc[q]
  BY DEF RefundAtBank, Goto, Return, IInv, TypeOK
<1>4. CASE proc'[p].pc = "idle"
  BY <1>2, <1>3, <1>4, NoRowStep, SameRows DEF IInv
<1>5. CASE proc'[p].pc = "credit" /\ proc'[p].tx = r.tx /\ proc'[p].user = r.user
           /\ proc'[p].amt = r.amt
  <2>1. RowOfHandler(p)
    BY DEF IInv, HandlersOwnRows
  <2>2. RowOfHandler(p)'
    BY <1>2, <1>5, <2>1 DEF RefundAtBank, RowOfHandler, Unfinished
  <2>3. HandlersOwnRows'
    BY <1>2, <1>3, <1>5, <2>2, OwnStep DEF IInv, Unfinished
  <2> QED
    BY <1>2, <2>3, SameRows DEF IInv
<1> QED
  BY <1>1, <1>4, <1>5 DEF RefundAtBank, Goto, Return, Idle, IInv, TypeOK, Refunding

LEMMA RefundCreditInv ==
    ASSUME IInv, NEW p \in Handlers, RefundCredit(p)
    PROVE  HandlersOwnRows' /\ SucceededAtBank' /\ BothLegs' /\ ReplayIsFinal'
<1>1. proc'[p].pc = "idle" /\ \A q \in Handlers \ {p} : proc'[q] = proc[q]
  BY DEF RefundCredit, Return, Idle, IInv, TypeOK
<1>2. UNCHANGED <<txns, receipts, idem, applied>>
  BY DEF RefundCredit, bankVars
<1> QED
  BY <1>1, <1>2, NoRowStep, SameRows DEF IInv

LEMMA RefreshInv ==
    ASSUME IInv, NEW p \in Handlers,
           RefreshWrite(p) \/ \E u \in Users : RefreshRead(p, u)
    PROVE  HandlersOwnRows' /\ SucceededAtBank' /\ BothLegs' /\ ReplayIsFinal'
<1>1. proc'[p].pc \in {"idle", "sync"} /\ \A q \in Handlers \ {p} : proc'[q] = proc[q]
  BY DEF RefreshWrite, RefreshRead, Return, Idle, IInv, TypeOK
<1>2. UNCHANGED <<txns, receipts, idem, applied>>
  BY DEF RefreshWrite, RefreshRead, rows, bankVars
<1> QED
  BY <1>1, <1>2, NoRowStep, SameRows DEF IInv

LEMMA AbortInv ==
    ASSUME IInv, NEW p \in Handlers, Abort(p)
    PROVE  HandlersOwnRows' /\ SucceededAtBank' /\ BothLegs' /\ ReplayIsFinal'
<1>1. proc'[p].pc = "idle" /\ \A q \in Handlers \ {p} : proc'[q] = proc[q]
  BY DEF Abort, Return, Idle, IInv, TypeOK
<1>2. UNCHANGED <<txns, receipts, idem, applied>>
  BY DEF Abort, rows, bankVars
<1> QED
  BY <1>1, <1>2, NoRowStep, SameRows DEF IInv

\* The steps that no handler takes: the freeze flag, a key's expiry.
LEMMA OutsideInv ==
    ASSUME IInv, \/ \E u \in Freezable, f \in BOOLEAN : SetFrozen(u, f)
                 \/ \E k \in Keys : ExpireKey(k)
                 \/ UNCHANGED vars
    PROVE  HandlersOwnRows' /\ SucceededAtBank' /\ BothLegs' /\ ReplayIsFinal'
<1>1. UNCHANGED <<txns, receipts, applied, proc>>
  BY DEF SetFrozen, ExpireKey, vars, rows, bankVars
<1>2. HandlersOwnRows'
  BY <1>1 DEF IInv, HandlersOwnRows, NoSharedRow, RowOfHandler, SameTerms
<1>3. SucceededAtBank' /\ BothLegs'
  BY <1>1 DEF IInv, SucceededAtBank, BothLegs, Used
<1>4. \A k \in Keys : ~KeyNotFound(idem', k) => idem'[k] = idem[k]
  BY DEF SetFrozen, ExpireKey, vars, IInv, TypeOK, KeyNotFound, NoRecord
<1>5. ReplayIsFinal'
  BY <1>1, <1>4 DEF IInv, ReplayIsFinal, Used, KeyNotFound, Operation
<1> QED
  BY <1>2, <1>3, <1>5

LEMMA InitInv == Init => IInv
<1> SUFFICES ASSUME Init
             PROVE  IInv
  OBVIOUS
<1>1. TypeOK
  BY InitType
<1>2. Used = {}
  BY DEF Init, Used, FreeRow
<1>3. HandlersOwnRows
  BY DEF Init, HandlersOwnRows, NoSharedRow, RowOfHandler, Unfinished, Idle
<1>4. SucceededAtBank /\ BothLegs
  BY <1>2 DEF Init, SucceededAtBank, BothLegs
<1>5. ReplayIsFinal
  BY DEF Init, ReplayIsFinal, KeyNotFound, NoRecord
<1> QED
  BY <1>1, <1>3, <1>4, <1>5 DEF IInv

LEMMA NextInv == IInv /\ [Next]_vars => IInv'
<1> SUFFICES ASSUME IInv, [Next]_vars
             PROVE  HandlersOwnRows' /\ SucceededAtBank' /\ BothLegs' /\ ReplayIsFinal'
  BY NextType DEF IInv
<1>1. ASSUME NEW p \in Handlers, NEW u \in Users, NEW a \in Amounts, NEW k \in Keys,
             Send(p, u, a, k) \/ MerchantDebit(p, u, a, k)
      PROVE  HandlersOwnRows' /\ SucceededAtBank' /\ BothLegs' /\ ReplayIsFinal'
  BY <1>1, CallInv DEF Send, MerchantDebit
<1>2. ASSUME NEW p \in Handlers, NEW t \in TxIds, NEW a \in Amounts, Refund(p, t, a)
      PROVE  HandlersOwnRows' /\ SucceededAtBank' /\ BothLegs' /\ ReplayIsFinal'
  BY <1>2, RefundInv
<1>3. ASSUME NEW p \in Handlers, NEW u \in Users, RefreshRead(p, u)
      PROVE  HandlersOwnRows' /\ SucceededAtBank' /\ BothLegs' /\ ReplayIsFinal'
  BY <1>3, RefreshInv
<1>4. ASSUME NEW p \in Handlers, HandlerStep(p)
      PROVE  HandlersOwnRows' /\ SucceededAtBank' /\ BothLegs' /\ ReplayIsFinal'
  BY <1>4, CheckInv, DebitInv, TransferInv, SettleInv, CompensateInv, RecordInv,
     RefundAtBankInv, RefundCreditInv, RefreshInv DEF HandlerStep
<1>5. ASSUME NEW p \in Handlers, Abort(p)
      PROVE  HandlersOwnRows' /\ SucceededAtBank' /\ BothLegs' /\ ReplayIsFinal'
  BY <1>5, AbortInv
<1> QED
  BY <1>1, <1>2, <1>3, <1>4, <1>5, OutsideInv DEF Next

---------------------------------------------------------------------------
(* The theorems.                                                           *)

\* Every handler's memory of its payment agrees with the payment's row and no
\* two handlers share one; what is reported as succeeded did happen at the
\* bank; both legs of a send are written or none; a replayed key answers with
\* a payment that went through.
THEOREM SagaConsistent ==
    Spec => [](HandlersOwnRows /\ SucceededAtBank /\ BothLegs /\ ReplayIsFinal)
<1>1. IInv => HandlersOwnRows /\ SucceededAtBank /\ BothLegs /\ ReplayIsFinal
  BY DEF IInv
<1> QED
  BY InitInv, NextInv, <1>1, PTL DEF Spec

\* Three statements write wallet.transactions.
LEMMA RowWriters ==
    ASSUME [Next]_vars
    PROVE  UNCHANGED txns \/ \E p \in Handlers : Debit(p) \/ Settle(p) \/ Compensate(p)
<1>1. ASSUME NEW p \in Handlers,
             \/ \E u \in Users, a \in Amounts, k \in Keys : Send(p, u, a, k)
             \/ \E u \in Users, a \in Amounts, k \in Keys : MerchantDebit(p, u, a, k)
             \/ \E t \in TxIds, a \in Amounts : Refund(p, t, a)
             \/ \E u \in Users : RefreshRead(p, u)
      PROVE  UNCHANGED txns
  BY <1>1 DEF Send, MerchantDebit, SagaCall, Refund, RefreshRead, rows
<1>2. ASSUME NEW p \in Handlers,
             Check(p) \/ Transfer(p) \/ Record(p) \/ RefundAtBank(p) \/ RefundCredit(p)
             \/ RefreshWrite(p) \/ Abort(p)
      PROVE  UNCHANGED txns
  BY <1>2 DEF Check, Transfer, Record, RefundAtBank, RefundCredit, RefreshWrite, Abort, rows
<1>3. ASSUME \/ \E u \in Freezable, f \in BOOLEAN : SetFrozen(u, f)
             \/ \E k \in Keys : ExpireKey(k)
             \/ UNCHANGED vars
      PROVE  UNCHANGED txns
  BY <1>3 DEF SetFrozen, ExpireKey, vars, rows
<1> QED
  BY <1>1, <1>2, <1>3 DEF Next, HandlerStep

LEMMA StatusFinalStep ==
    ASSUME IInv, [Next]_vars
    PROVE  \A t \in Used : txns[t].status # "pending" => txns'[t] = txns[t]
<1> SUFFICES ASSUME NEW t \in Used, txns[t].status # "pending"
             PROVE  txns'[t] = txns[t]
  OBVIOUS
<1>0. t \in TxIds /\ txns[t].status # "free"
  BY DEF Used
<1>1. CASE UNCHANGED txns
  BY <1>1
<1>2. ASSUME NEW p \in Handlers, Debit(p)
      PROVE  txns'[t] = txns[t]
  BY <1>0, <1>2 DEF Debit, DebitIn, Used, IInv, TypeOK
<1>3. ASSUME NEW p \in Handlers, Settle(p) \/ Compensate(p)
      PROVE  txns'[t] = txns[t]
  <2>1. proc[p].tx \in TxIds /\ txns[proc[p].tx].status = "pending"
    BY <1>3, Shapes DEF IInv, HandlersOwnRows, RowOfHandler, Unfinished, Settle, Compensate, Holding
  <2> QED
    BY <1>0, <1>3, <2>1, MarkSettledEffect DEF Settle, Compensate, IInv, Statuses
<1> QED
  BY <1>1, <1>2, <1>3, RowWriters

\* No step of any handler changes a payment that is no longer pending.
THEOREM SettledIsFinal == Spec => StatusFinal
BY InitInv, NextInv, StatusFinalStep, PTL DEF Spec, StatusFinal

LEMMA FrozenStep ==
    ASSUME IInv, [Next]_vars
    PROVE  \A t \in TxIds \ Used : t \in Used' => ~balances[txns'[t].user].frozen
<1> SUFFICES ASSUME NEW t \in TxIds, txns[t].status = "free", txns'[t].status # "free"
             PROVE  ~balances[txns'[t].user].frozen
  BY DEF Used
<1>1. ASSUME NEW p \in Handlers, Debit(p)
      PROVE  ~balances[txns'[t].user].frozen
  <2>1. DebitAllowed(balances[proc[p].user], proc[p].amt)
    BY <1>1 DEF Debit
  <2>2. PICK o \in TxIds : DebitIn(p, o)
    BY <1>1, <2>1 DEF Debit
  <2>3. t = o /\ txns'[t].user = proc[p].user
    BY <2>2 DEF DebitIn, IInv, TypeOK
  <2> QED
    BY <2>1, <2>3 DEF DebitAllowed
<1>2. ASSUME NEW p \in Handlers, Settle(p) \/ Compensate(p)
      PROVE  FALSE
  <2>1. proc[p].tx \in TxIds /\ txns[proc[p].tx].status = "pending"
    BY <1>2, Shapes DEF IInv, HandlersOwnRows, RowOfHandler, Unfinished, Settle, Compensate, Holding
  <2> QED
    BY <1>2, <2>1, MarkSettledEffect DEF Settle, Compensate, IInv, Statuses
<1>3. ~UNCHANGED txns
  OBVIOUS
<1> QED
  BY <1>1, <1>2, <1>3, RowWriters

\* No payment starts from a frozen wallet, whenever the freeze came.
THEOREM FrozenRespected == Spec => FrozenMeansNoDebit
BY InitInv, NextInv, FrozenStep, PTL DEF Spec, FrozenMeansNoDebit

---------------------------------------------------------------------------
(* The refinement: every step of the tables is a step of Escrow or none.   *)

\* What a statement does to the column the purse reads.
LEMMA Purses ==
    ASSUME NEW row \in SagaRow, NEW a \in Nat
    PROVE  /\ Debited(row, a).available = row.available - a
           /\ DebitSettled(row, a).available = row.available
           /\ DebitReversed(row, a).available = row.available + a
           /\ Credited(row, a).available = row.available + a
           /\ Synced(row, a).available = a
           /\ \A f \in BOOLEAN : [row EXCEPT !.frozen = f].available = row.available
<1>1. [row EXCEPT !.available = row.available - a] \in SagaRow
  BY DEF SagaRow
<1>2. [row EXCEPT !.available = row.available + a] \in SagaRow
  BY DEF SagaRow
<1>3. Debited(row, a).available = row.available - a
  BY <1>1 DEF Debited, SagaRow
<1>4. DebitReversed(row, a).available = row.available + a
  BY <1>2 DEF DebitReversed, SagaRow
<1> QED
  BY <1>3, <1>4 DEF DebitSettled, Credited, Synced, SagaRow

LEMMA EscrowInit == Init => E!Init
BY DEF Init, E!Init, E!None, AbsPurse, AbsPayment, FreeRow

\* A step that leaves every available_paise and every row alone is a stutter.
LEMMA EscrowStutter ==
    ASSUME UNCHANGED txns, \A u \in Users : balances'[u].available = balances[u].available
    PROVE  UNCHANGED E!vars
BY DEF E!vars, AbsPurse, AbsPayment, EscrowState

LEMMA DebitEscrow ==
    ASSUME IInv, NEW p \in Handlers, Debit(p)
    PROVE  [E!Next]_(E!vars)
<1> DEFINE r == proc[p]
<1>1. r \in Called
  BY Shapes DEF Debit, IInv
<1>2. r.user \in Users /\ r.to \in Recipients /\ r.amt \in Amounts /\ r.amt \in Nat
  BY <1>1, SagaConstants DEF Called, SagaConstants
<1>3. CASE ~DebitAllowed(balances[r.user], r.amt)
  BY <1>3, EscrowStutter DEF Debit
<1>4. CASE DebitAllowed(balances[r.user], r.amt)
  <2>1. PICK t \in TxIds : DebitIn(p, t)
    BY <1>4 DEF Debit
  <2>2. balances[r.user] \in SagaRow
    BY <1>2 DEF IInv, TypeOK
  <2>3. AbsPurse' = [AbsPurse EXCEPT ![r.user] = @ - r.amt]
    <3>1. balances' = [balances EXCEPT ![r.user] = Debited(@, r.amt)]
      BY <2>1 DEF DebitIn
    <3>2. Debited(balances[r.user], r.amt).available = balances[r.user].available - r.amt
      BY <2>2, <1>2, Purses
    <3> QED
      BY <3>1, <3>2, <1>2 DEF AbsPurse, IInv, TypeOK
  <2>4. txns[t].status = "free" /\ AbsPayment[t].state = "none"
    BY <2>1 DEF DebitIn, Used, AbsPayment
  <2>5. /\ txns'[t].status \in {"pending", "pending_invite"}
        /\ txns'[t].user = r.user /\ txns'[t].to = r.to /\ txns'[t].amt = r.amt
        /\ \A o \in TxIds \ {t} : txns'[o] = txns[o]
    BY <2>1 DEF DebitIn, IInv, TypeOK
  <2>6. AbsPayment' = [AbsPayment EXCEPT
            ![t] = [state |-> "held", from |-> r.user, to |-> r.to, amt |-> r.amt]]
    BY <2>5 DEF AbsPayment, EscrowState
  <2>7. AbsPurse[r.user] >= r.amt
    BY <1>2, <1>4 DEF AbsPurse, DebitAllowed
  <2>8. E!Hold(t, r.user, r.to, r.amt)
    BY <2>3, <2>4, <2>6, <2>7 DEF E!Hold
  <2> QED
    BY <2>8, <1>2 DEF E!Next
<1> QED
  BY <1>3, <1>4

\* The row an unfinished handler holds is a held payment on the handler's terms.
LEMMA HeldPayment ==
    ASSUME IInv, NEW p \in Handlers, proc[p].pc \in Unfinished
    PROVE  LET r == proc[p] IN
           /\ r \in Holding /\ r.tx \in TxIds /\ r.user \in Users /\ r.amt \in Nat
           /\ txns[r.tx].status = "pending" /\ txns[r.tx] \in DebitRow /\ SameTerms(r, txns[r.tx])
           /\ AbsPayment[r.tx] = [state |-> "held", from |-> r.user, to |-> r.to, amt |-> r.amt]
<1> DEFINE r == proc[p]
<1>1. r \in Holding /\ r.tx \in TxIds /\ r.user \in Users /\ r.amt \in Nat
  BY Shapes, SagaConstants DEF IInv, Unfinished, Holding, SagaConstants
<1>2. txns[r.tx].status = "pending" /\ SameTerms(r, txns[r.tx])
  BY DEF IInv, HandlersOwnRows, RowOfHandler
<1>3. txns[r.tx] \in DebitRow
  BY RowInUse DEF IInv, HandlersOwnRows
<1>4. AbsPayment[r.tx] = [state |-> "held", from |-> r.user, to |-> r.to, amt |-> r.amt]
  BY <1>1, <1>2 DEF AbsPayment, EscrowState, SameTerms
<1> QED
  BY <1>1, <1>2, <1>3, <1>4

LEMMA SettleEscrow ==
    ASSUME IInv, NEW p \in Handlers, Settle(p)
    PROVE  E!Next
<1> DEFINE r == proc[p]
           sender == [balances EXCEPT ![r.user] = DebitSettled(@, r.amt)]
<1>1. r.pc \in Unfinished
  BY DEF Settle, Unfinished
<1>2. /\ r \in Holding /\ r.tx \in TxIds /\ r.user \in Users /\ r.amt \in Nat
      /\ txns[r.tx].status = "pending" /\ txns[r.tx] \in DebitRow /\ SameTerms(r, txns[r.tx])
      /\ AbsPayment[r.tx] = [state |-> "held", from |-> r.user, to |-> r.to, amt |-> r.amt]
  BY <1>1, HeldPayment
<1>3. TypeOK /\ txns' = MarkSettled(txns, r.tx, "succeeded")
  BY DEF IInv, Settle
<1>4. AbsPayment' = [AbsPayment EXCEPT ![r.tx].state = "settled"]
  <2>1. /\ txns'[r.tx].status = "succeeded" /\ SameTerms(r, txns'[r.tx])
        /\ \A o \in TxIds \ {r.tx} : txns'[o] = txns[o]
    BY <1>2, <1>3, MarkSettledEffect DEF Statuses
  <2>2. AbsPayment'[r.tx] = [state |-> "settled", from |-> r.user, to |-> r.to, amt |-> r.amt]
    BY <1>2, <2>1 DEF AbsPayment, EscrowState, SameTerms
  <2>3. [AbsPayment[r.tx] EXCEPT !.state = "settled"]
        = [state |-> "settled", from |-> r.user, to |-> r.to, amt |-> r.amt]
    BY <1>2
  <2>4. \A o \in TxIds \ {r.tx} : AbsPayment'[o] = AbsPayment[o]
    BY <2>1 DEF AbsPayment, EscrowState
  <2>5. /\ AbsPayment = [o \in TxIds |-> AbsPayment[o]]
        /\ AbsPayment' = [o \in TxIds |-> AbsPayment'[o]]
    BY DEF AbsPayment
  <2> HIDE DEF r
  <2> QED
    BY <1>2, <2>2, <2>3, <2>4, <2>5
<1>5. sender \in [Users -> SagaRow] /\ \A u \in Users : sender[u].available = balances[u].available
  <2>1. balances \in [Users -> SagaRow] /\ balances[r.user] \in SagaRow
    BY <1>2 DEF IInv, TypeOK
  <2>2. /\ DebitSettled(balances[r.user], r.amt) \in SagaRow
        /\ DebitSettled(balances[r.user], r.amt).available = balances[r.user].available
    BY <1>2, <2>1, RowTypes, Purses
  <2> QED
    BY <1>2, <2>1, <2>2
<1>6. AbsPurse' = IF r.to \in Users THEN [AbsPurse EXCEPT ![r.to] = @ + r.amt] ELSE AbsPurse
  <2>1. CASE r.to \in Users
    <3>1. balances' = [sender EXCEPT ![r.to] = Credited(@, r.amt)]
      BY <2>1 DEF Settle, SettledBalances
    <3>2. Credited(sender[r.to], r.amt).available = sender[r.to].available + r.amt
      BY <2>1, <1>2, <1>5, Purses
    <3> QED
      BY <2>1, <3>1, <3>2, <1>5 DEF AbsPurse
  <2>2. CASE r.to \notin Users
    BY <2>2, <1>5 DEF AbsPurse, Settle, SettledBalances
  <2> QED
    BY <2>1, <2>2
<1>7. E!Settle(r.tx)
  BY <1>2, <1>4, <1>6 DEF E!Settle
<1> QED
  BY <1>2, <1>7 DEF E!Next

LEMMA CompensateEscrow ==
    ASSUME IInv, NEW p \in Handlers, Compensate(p)
    PROVE  E!Next
<1> DEFINE r == proc[p]
<1>1. r.pc \in Unfinished
  BY DEF Compensate, Unfinished
<1>2. /\ r \in Holding /\ r.tx \in TxIds /\ r.user \in Users /\ r.amt \in Nat
      /\ txns[r.tx].status = "pending" /\ txns[r.tx] \in DebitRow /\ SameTerms(r, txns[r.tx])
      /\ AbsPayment[r.tx] = [state |-> "held", from |-> r.user, to |-> r.to, amt |-> r.amt]
  BY <1>1, HeldPayment
<1>3. AbsPayment' = [AbsPayment EXCEPT ![r.tx].state = "returned"]
  <2>1. /\ txns'[r.tx].status = "failed" /\ SameTerms(r, txns'[r.tx])
        /\ \A o \in TxIds \ {r.tx} : txns'[o] = txns[o]
    BY <1>2, MarkSettledEffect DEF Compensate, IInv, Statuses
  <2>2. AbsPayment'[r.tx] = [state |-> "returned", from |-> r.user, to |-> r.to, amt |-> r.amt]
    BY <1>2, <2>1 DEF AbsPayment, EscrowState, SameTerms
  <2>3. [AbsPayment[r.tx] EXCEPT !.state = "returned"]
        = [state |-> "returned", from |-> r.user, to |-> r.to, amt |-> r.amt]
    BY <1>2
  <2>4. \A o \in TxIds \ {r.tx} : AbsPayment'[o] = AbsPayment[o]
    BY <2>1 DEF AbsPayment, EscrowState
  <2>5. /\ AbsPayment = [o \in TxIds |-> AbsPayment[o]]
        /\ AbsPayment' = [o \in TxIds |-> AbsPayment'[o]]
    BY DEF AbsPayment
  <2> HIDE DEF r
  <2> QED
    BY <1>2, <2>2, <2>3, <2>4, <2>5
<1>4. balances[r.user] \in SagaRow
  BY <1>2 DEF IInv, TypeOK
<1>5. AbsPurse' = [AbsPurse EXCEPT ![r.user] = @ + r.amt]
  <2>1. balances' = [balances EXCEPT ![r.user] = DebitReversed(@, r.amt)]
    BY DEF Compensate
  <2>2. DebitReversed(balances[r.user], r.amt).available = balances[r.user].available + r.amt
    BY <1>2, <1>4, Purses
  <2> QED
    BY <2>1, <2>2, <1>2 DEF AbsPurse, IInv, TypeOK
<1>6. E!GiveBack(r.tx)
  BY <1>2, <1>3, <1>5 DEF E!GiveBack
<1> QED
  BY <1>2, <1>6 DEF E!Next

LEMMA RefundCreditEscrow ==
    ASSUME IInv, NEW p \in Handlers, RefundCredit(p)
    PROVE  E!Next
<1> DEFINE r == proc[p]
<1>1. r.tx \in TxIds /\ r.user \in Users /\ r.amt \in Amounts /\ r.amt \in Nat
  BY Shapes, SagaConstants DEF IInv, RefundCredit, Refunding, SagaConstants
<1>2. txns[r.tx].status = "succeeded" /\ txns[r.tx].user = r.user /\ r.amt <= txns[r.tx].amt
  BY DEF RefundCredit, IInv, HandlersOwnRows, RowOfHandler
<1>3. /\ AbsPayment[r.tx].state = "settled" /\ AbsPayment[r.tx].from = r.user
      /\ r.amt <= AbsPayment[r.tx].amt
  BY <1>1, <1>2 DEF AbsPayment, EscrowState
<1>4. AbsPayment' = AbsPayment
  BY DEF RefundCredit, AbsPayment, EscrowState
<1>5. AbsPurse' = [AbsPurse EXCEPT ![r.user] = @ + r.amt]
  <2>1. balances' = [balances EXCEPT ![r.user] = Credited(@, r.amt)]
    BY DEF RefundCredit
  <2>2. Credited(balances[r.user], r.amt).available = balances[r.user].available + r.amt
    BY <1>1, Purses DEF IInv, TypeOK
  <2> QED
    BY <2>1, <2>2, <1>1 DEF AbsPurse, IInv, TypeOK
<1>6. E!GrantRefund(r.tx, r.amt)
  BY <1>3, <1>4, <1>5 DEF E!GrantRefund
<1> QED
  BY <1>1, <1>6 DEF E!Next

LEMMA RefreshWriteEscrow ==
    ASSUME IInv, NEW p \in Handlers, RefreshWrite(p)
    PROVE  E!Next
<1> DEFINE r == proc[p]
<1>1. r.user \in Users /\ r.amt \in Nat
  BY Shapes DEF IInv, RefreshWrite, Syncing
<1>2. balances' = [balances EXCEPT ![r.user] = Synced(@, r.amt)] /\ UNCHANGED txns
  BY DEF RefreshWrite, rows
<1>3. Synced(balances[r.user], r.amt).available = r.amt
  BY <1>1, Purses DEF IInv, TypeOK
<1>4. AbsPurse' = [AbsPurse EXCEPT ![r.user] = r.amt]
  BY <1>1, <1>2, <1>3 DEF AbsPurse, IInv, TypeOK
<1>5. AbsPurse'[r.user] = r.amt /\ AbsPayment' = AbsPayment
  BY <1>1, <1>2, <1>4 DEF AbsPurse, AbsPayment, EscrowState
<1>6. E!Restate(r.user)
  BY <1>1, <1>4, <1>5 DEF E!Restate
<1> QED
  BY <1>1, <1>6 DEF E!Next

LEMMA SetFrozenEscrow ==
    ASSUME IInv, NEW u \in Freezable, NEW f \in BOOLEAN, SetFrozen(u, f)
    PROVE  UNCHANGED E!vars
<1>1. u \in Users /\ balances[u] \in SagaRow
  BY SagaConstants DEF SagaConstants, IInv, TypeOK
<1>2. balances' = [balances EXCEPT ![u] = [balances[u] EXCEPT !.frozen = f]]
  BY DEF SetFrozen
<1>3. [balances[u] EXCEPT !.frozen = f].available = balances[u].available
  BY <1>1, Purses
<1>4. \A w \in Users : balances'[w].available = balances[w].available
  BY <1>1, <1>2, <1>3 DEF IInv, TypeOK
<1> QED
  BY <1>4, EscrowStutter DEF SetFrozen, rows

LEMMA NextEscrow == IInv /\ [Next]_vars => [E!Next]_(E!vars)
<1> SUFFICES ASSUME IInv, [Next]_vars
             PROVE  [E!Next]_(E!vars)
  OBVIOUS
<1>1. CASE UNCHANGED <<balances, txns>>
  BY <1>1, EscrowStutter
<1>2. ASSUME NEW p \in Handlers,
             Debit(p) \/ Settle(p) \/ Compensate(p) \/ RefundCredit(p) \/ RefreshWrite(p)
      PROVE  [E!Next]_(E!vars)
  BY <1>2, DebitEscrow, SettleEscrow, CompensateEscrow, RefundCreditEscrow, RefreshWriteEscrow
<1>3. ASSUME NEW u \in Freezable, NEW f \in BOOLEAN, SetFrozen(u, f)
      PROVE  [E!Next]_(E!vars)
  BY <1>3, SetFrozenEscrow
<1> QED
  BY <1>1, <1>2, <1>3 DEF Next, HandlerStep, Send, MerchantDebit, SagaCall, Check, Transfer,
     Record, Refund, RefundAtBank, RefreshRead, ExpireKey, Abort, vars, rows

\* The saga implements Escrow.
THEOREM ImplementsEscrow == Spec => EscrowSpec
BY InitInv, NextInv, EscrowInit, NextEscrow, PTL DEF Spec, EscrowSpec, E!Spec

---------------------------------------------------------------------------
(* No overdraft: through the refinement, since a purse is available_paise. *)

LEMMA PurseStep ==
    ASSUME IInv, NeverOverdrawn, [E!Next]_(E!vars)
    PROVE  NeverOverdrawn'
<1> SUFFICES ASSUME NEW w \in Users
             PROVE  AbsPurse'[w] >= 0
  BY DEF NeverOverdrawn, AbsPurse
<1>1. \A u \in Users : AbsPurse[u] \in Int /\ AbsPurse[u] >= 0
  BY DEF AbsPurse, NeverOverdrawn, IInv, TypeOK, SagaRow
<1>2. \A t \in TxIds : AbsPayment[t].state \in {"held", "settled"} => AbsPayment[t].amt \in Nat
  <2> SUFFICES ASSUME NEW t \in TxIds, txns[t].status # "free"
               PROVE  txns[t].amt \in Nat
    BY DEF AbsPayment
  <2>1. txns[t] \in DebitRow
    BY DEF IInv, TypeOK, FreeRow
  <2> QED
    BY <2>1, SagaConstants DEF DebitRow, SagaConstants
<1>3. DOMAIN AbsPurse = Users /\ AbsPurse = [u \in Users |-> AbsPurse[u]]
  BY DEF AbsPurse
<1>4. CASE UNCHANGED E!vars
  BY <1>1, <1>4 DEF E!vars
<1>5. ASSUME NEW t \in TxIds, NEW u \in Users, NEW to \in Recipients, NEW a \in Amounts,
             E!Hold(t, u, to, a)
      PROVE  AbsPurse'[w] >= 0
  <2>1. a \in Nat /\ AbsPurse[u] >= a /\ AbsPurse' = [AbsPurse EXCEPT ![u] = @ - a]
    BY <1>5, SagaConstants DEF E!Hold, SagaConstants
  <2> QED
    BY <1>1, <1>3, <2>1
<1>6. ASSUME NEW t \in TxIds, E!Settle(t)
      PROVE  AbsPurse'[w] >= 0
  <2> DEFINE m == AbsPayment[t]
  <2>1. m.amt \in Nat
    BY <1>2, <1>6 DEF E!Settle
  <2>2. AbsPurse' = AbsPurse \/ (m.to \in Users /\ AbsPurse' = [AbsPurse EXCEPT ![m.to] = @ + m.amt])
    BY <1>6 DEF E!Settle
  <2> QED
    BY <1>1, <1>3, <2>1, <2>2
<1>7. ASSUME NEW t \in TxIds, E!GiveBack(t)
      PROVE  AbsPurse'[w] >= 0
  <2> DEFINE m == AbsPayment[t]
  <2>1. m.amt \in Nat /\ AbsPurse' = [AbsPurse EXCEPT ![m.from] = @ + m.amt]
    BY <1>2, <1>7 DEF E!GiveBack
  <2> QED
    BY <1>1, <1>3, <2>1
<1>8. ASSUME NEW t \in TxIds, NEW a \in Amounts, E!GrantRefund(t, a)
      PROVE  AbsPurse'[w] >= 0
  <2> DEFINE m == AbsPayment[t]
  <2>1. a \in Nat /\ AbsPurse' = [AbsPurse EXCEPT ![m.from] = @ + a]
    BY <1>8, SagaConstants DEF E!GrantRefund, SagaConstants
  <2> QED
    BY <1>1, <1>3, <2>1
<1>9. ASSUME NEW u \in Users, E!Restate(u)
      PROVE  AbsPurse'[w] >= 0
  <2>1. AbsPurse'[u] \in Nat /\ AbsPurse' = [AbsPurse EXCEPT ![u] = AbsPurse'[u]]
    BY <1>9 DEF E!Restate
  <2>2. CASE w = u
    BY <2>1, <2>2
  <2>3. CASE w # u
    <3>1. AbsPurse'[w] = AbsPurse[w]
      BY <1>3, <2>1, <2>3
    <3> QED
      BY <1>1, <3>1
  <2> QED
    BY <2>2, <2>3
<1> QED
  BY <1>4, <1>5, <1>6, <1>7, <1>8, <1>9 DEF E!Next

\* No wallet's available_paise is ever negative.
THEOREM NoOverdraft == Spec => []NeverOverdrawn
<1>1. Init => NeverOverdrawn
  BY SagaConstants DEF Init, NeverOverdrawn, SagaConstants
<1>2. IInv /\ NeverOverdrawn /\ [Next]_vars => NeverOverdrawn'
  BY NextEscrow, PurseStep
<1> QED
  BY InitInv, NextInv, <1>1, <1>2, PTL DEF Spec

---------------------------------------------------------------------------
(* Sums over sets of payments, and of handlers.                            *)

LEMMA PaiseFacts ==
    ASSUME NEW t, NEW n \in Nat
    PROVE  IsFiniteSet({t} \X (1..n)) /\ Cardinality({t} \X (1..n)) = n
<1>1. 1 \in Int /\ n \in Int
  OBVIOUS
<1>2. IsFiniteSet(1..n) /\ Cardinality(1..n) = IF 1 > n THEN 0 ELSE n - 1 + 1
  BY <1>1, FS_Interval
<1>3. (IF 1 > n THEN 0 ELSE n - 1 + 1) = n
  OBVIOUS
<1>4. IsFiniteSet({t}) /\ Cardinality({t}) = 1
  BY FS_Singleton
<1>5. IsFiniteSet({t} \X (1..n)) /\ Cardinality({t} \X (1..n)) = Cardinality({t}) * Cardinality(1..n)
  BY <1>2, <1>4, FS_Product
<1> QED
  BY <1>2, <1>3, <1>4, <1>5

LEMMA SumFinite ==
    ASSUME NEW S, IsFiniteSet(S), NEW f, \A t \in S : f[t] \in Nat
    PROVE  IsFiniteSet(UNION {{t} \X (1..f[t]) : t \in S}) /\ SumOver(S, f) \in Nat
<1> DEFINE g == [t \in S |-> {t} \X (1..f[t])]
           T == {{t} \X (1..f[t]) : t \in S}
<1>1. g \in Surjection(S, T)
  BY DEF Surjection
<1>2. IsFiniteSet(T)
  BY <1>1, FS_Surjection
<1>3. ASSUME NEW t \in S PROVE IsFiniteSet({t} \X (1..f[t]))
  BY <1>3, PaiseFacts
<1>4. \A U \in T : IsFiniteSet(U)
  BY <1>3
<1>5. IsFiniteSet(UNION T)
  BY <1>2, <1>4, FS_UNION
<1> QED
  BY <1>5, FS_CardinalityType DEF SumOver

\* The sums over two disjoint sets add up.
LEMMA SumUnion ==
    ASSUME NEW S, IsFiniteSet(S), NEW T, IsFiniteSet(T), S \cap T = {},
           NEW f, \A t \in S \cup T : f[t] \in Nat
    PROVE  SumOver(S \cup T, f) = SumOver(S, f) + SumOver(T, f)
<1> DEFINE X == UNION {{t} \X (1..f[t]) : t \in S}
           Y == UNION {{t} \X (1..f[t]) : t \in T}
<1>1. IsFiniteSet(X) /\ IsFiniteSet(Y)
  BY SumFinite
<1>2. UNION {{t} \X (1..f[t]) : t \in S \cup T} = X \cup Y
  OBVIOUS
<1>3. X \cap Y = {}
  OBVIOUS
<1>4. SumOver(S, f) = Cardinality(X) /\ SumOver(T, f) = Cardinality(Y)
      /\ SumOver(S \cup T, f) = Cardinality(X \cup Y)
  BY <1>2 DEF SumOver
<1> HIDE DEF X, Y
<1>5. Cardinality(X) \in Nat /\ Cardinality(Y) \in Nat
  BY <1>1, FS_CardinalityType
<1>6. Cardinality(X \cup Y) = Cardinality(X) + Cardinality(Y) - Cardinality(X \cap Y)
  BY <1>1, FS_Union
<1>7. Cardinality(X \cap Y) = 0
  BY <1>3, FS_EmptySet
<1> QED
  BY <1>4, <1>5, <1>6, <1>7

LEMMA SumOne ==
    ASSUME NEW t, NEW f, f[t] \in Nat
    PROVE  SumOver({t}, f) = f[t]
<1> DEFINE n == f[t]
<1>1. UNION {{o} \X (1..f[o]) : o \in {t}} = {t} \X (1..n)
  OBVIOUS
<1>2. SumOver({t}, f) = Cardinality({t} \X (1..n))
  BY <1>1 DEF SumOver
<1>3. n \in Nat
  OBVIOUS
<1> HIDE DEF n
<1>4. SumOver({t}, f) = n
  BY <1>2, <1>3, PaiseFacts
<1> QED
  BY <1>4 DEF n

LEMMA SumEmpty == ASSUME NEW f PROVE SumOver({}, f) = 0
<1>1. UNION {{t} \X (1..f[t]) : t \in {}} = {}
  OBVIOUS
<1> QED
  BY <1>1, FS_EmptySet DEF SumOver

\* A sum reads f on the set it runs over.
LEMMA SumSame ==
    ASSUME NEW S, NEW f, NEW g, \A t \in S : f[t] = g[t]
    PROVE  SumOver(S, f) = SumOver(S, g)
<1>1. {{t} \X (1..f[t]) : t \in S} = {{t} \X (1..g[t]) : t \in S}
  OBVIOUS
<1> QED
  BY <1>1 DEF SumOver

\* One element more.
LEMMA SumAdd ==
    ASSUME NEW S, IsFiniteSet(S), NEW t, t \notin S,
           NEW f, \A o \in S : f[o] \in Nat, f[t] \in Nat
    PROVE  IsFiniteSet(S \cup {t}) /\ SumOver(S \cup {t}, f) = SumOver(S, f) + f[t]
<1>1. IsFiniteSet({t}) /\ S \cap {t} = {}
  BY FS_Singleton
<1>2. SumOver(S \cup {t}, f) = SumOver(S, f) + SumOver({t}, f)
  BY <1>1, SumUnion
<1>3. IsFiniteSet(S \cup {t})
  BY <1>1, FS_Union
<1> QED
  BY <1>2, <1>3, SumOne

\* One element less.
LEMMA SumRemove ==
    ASSUME NEW S, IsFiniteSet(S), NEW t \in S, NEW f, \A o \in S : f[o] \in Nat
    PROVE  /\ IsFiniteSet(S \ {t})
           /\ SumOver(S \ {t}, f) \in Nat
           /\ SumOver(S, f) = SumOver(S \ {t}, f) + f[t]
<1> DEFINE R == S \ {t}
<1>1. IsFiniteSet(R)
  BY FS_Subset
<1>2. S = R \cup {t} /\ t \notin R /\ \A o \in R : f[o] \in Nat
  OBVIOUS
<1>3. SumOver(R, f) \in Nat
  BY <1>1, <1>2, SumFinite
<1> HIDE DEF R
<1>4. SumOver(R \cup {t}, f) = SumOver(R, f) + f[t]
  BY <1>1, <1>2, SumAdd
<1>5. SumOver(S, f) = SumOver(R, f) + f[t]
  BY <1>2, <1>4
<1> QED
  BY <1>1, <1>3, <1>5 DEF R

\* One summand changed.
LEMMA SumChange ==
    ASSUME NEW S, IsFiniteSet(S), NEW t \in S, NEW f, NEW g, NEW a \in Nat,
           \A o \in S : f[o] \in Nat, g[t] = f[t] + a, \A o \in S \ {t} : g[o] = f[o]
    PROVE  SumOver(S, g) = SumOver(S, f) + a
<1> DEFINE R == S \ {t}
<1>1. SumOver(R, f) \in Nat /\ SumOver(S, f) = SumOver(R, f) + f[t]
  BY SumRemove
<1>2. \A o \in S : g[o] \in Nat
  OBVIOUS
<1>3. SumOver(S, g) = SumOver(R, g) + g[t]
  BY <1>2, SumRemove
<1>4. SumOver(R, g) = SumOver(R, f)
  BY SumSame
<1> QED
  BY <1>1, <1>3, <1>4

---------------------------------------------------------------------------
(* The books.  What a step does to the sums depends on whether the bank    *)
(* has seen a payment yet; these facts say so, and that at any time only   *)
(* finitely many rows and handlers are in play.                            *)

\* A row not yet inserted has left no trace at the bank or in the refunds.
Untouched ==
    \A t \in TxIds \ Used : t \notin applied /\ refunds[t] = 0 /\ bankRefunds[t] = 0
\* The bank has not carried out a transfer before the handler asks for it.
NotYetSent == \A p \in Handlers : proc[p].pc = "transfer" => proc[p].tx \notin applied
\* Nobody pays himself.
Paying == {"check", "debit"} \cup Unfinished
PaysAnother == \A p \in Handlers : proc[p].pc \in Paying => proc[p].to # proc[p].user
Crediting == {p \in Handlers : proc[p].pc = "credit"}
FiniteBooks == IsFiniteSet(Used) /\ IsFiniteSet(Crediting)
Books == Untouched /\ NotYetSent /\ PaysAnother /\ FiniteBooks
BInv == IInv /\ Books

\* A step of handler p keeps the books when the rows it adds are finite in
\* number, the bank moves no row but one in use, and p itself is in order.
LEMMA BooksStep ==
    ASSUME Books, NEW p \in Handlers, \A q \in Handlers \ {p} : proc'[q] = proc[q],
           NEW T, IsFiniteSet(T), Used' \subseteq Used \cup T,
           \A t \in TxIds \ Used' : t \notin applied' /\ refunds'[t] = 0 /\ bankRefunds'[t] = 0,
           \A q \in Handlers \ {p} : proc[q].pc = "transfer" => proc[q].tx \notin applied',
           proc'[p].pc = "transfer" => proc'[p].tx \notin applied',
           proc'[p].pc \in Paying => proc'[p].to # proc'[p].user
    PROVE  Books'
<1>1. Untouched'
  BY DEF Untouched
<1>2. NotYetSent'
  BY DEF NotYetSent
<1>3. PaysAnother'
  BY DEF Books, PaysAnother
<1>4. IsFiniteSet(Used \cup T)
  BY FS_Union DEF Books, FiniteBooks
<1>5. IsFiniteSet(Used')
  BY <1>4, FS_Subset
<1>6. IsFiniteSet(Crediting \cup {p})
  BY FS_Singleton, FS_Union DEF Books, FiniteBooks
<1>7. Crediting' \subseteq Crediting \cup {p}
  BY DEF Crediting
<1>8. IsFiniteSet(Crediting')
  BY <1>6, <1>7, FS_Subset
<1> QED
  BY <1>1, <1>2, <1>3, <1>5, <1>8 DEF Books, FiniteBooks

\* A step that touches neither rows nor bank, and asks for no transfer.
LEMMA BooksQuiet ==
    ASSUME Books, NEW p \in Handlers, \A q \in Handlers \ {p} : proc'[q] = proc[q],
           UNCHANGED <<txns, applied, refunds, bankRefunds>>,
           proc'[p].pc # "transfer",
           proc'[p].pc \in Paying => proc'[p].to # proc'[p].user
    PROVE  Books'
<1>1. Used' = Used /\ IsFiniteSet({})
  BY FS_EmptySet DEF Used
<1>2. \A t \in TxIds \ Used' : t \notin applied' /\ refunds'[t] = 0 /\ bankRefunds'[t] = 0
  BY <1>1 DEF Books, Untouched
<1>3. \A q \in Handlers \ {p} : proc[q].pc = "transfer" => proc[q].tx \notin applied'
  BY DEF Books, NotYetSent
<1>4. Used' \subseteq Used \cup {}
  BY <1>1
<1> QED
  BY <1>1, <1>2, <1>3, <1>4, BooksStep

\* The transition of one handler's record.
LEMMA ProcFacts ==
    ASSUME TypeOK, NEW p \in Handlers
    PROVE  /\ \A pc : Goto(p, pc) => proc'[p] = [proc[p] EXCEPT !.pc = pc]
                                     /\ \A q \in Handlers \ {p} : proc'[q] = proc[q]
           /\ Return(p) => proc'[p].pc = "idle" /\ \A q \in Handlers \ {p} : proc'[q] = proc[q]
BY DEF TypeOK, Goto, Return, Idle

LEMMA HoldingGoto ==
    ASSUME TypeOK, NEW p \in Handlers, proc[p] \in Called \cup Holding \cup Refunding, NEW pc, Goto(p, pc)
    PROVE  /\ proc'[p].pc = pc /\ proc'[p].user = proc[p].user /\ proc'[p].tx = proc[p].tx
           /\ proc'[p].amt = proc[p].amt
           /\ proc[p] \in Called \cup Holding => proc'[p].to = proc[p].to
<1>1. proc'[p] = [proc[p] EXCEPT !.pc = pc]
  BY ProcFacts
<1>2. CASE proc[p] \in Called
  BY <1>1, <1>2 DEF Called
<1>3. CASE proc[p] \in Holding
  BY <1>1, <1>3 DEF Holding
<1>4. CASE proc[p] \in Refunding /\ proc[p] \notin Called \cup Holding
  BY <1>1, <1>4 DEF Refunding
<1> QED
  BY <1>2, <1>3, <1>4

LEMMA CallBooks ==
    ASSUME BInv, NEW p \in Handlers, NEW u \in Users, NEW a, NEW k,
           Send(p, u, a, k) \/ MerchantDebit(p, u, a, k)
    PROVE  Books'
<1>1. PICK to : to # u /\ SagaCall(p, u, to, a, k)
  BY SagaConstants DEF Send, MerchantDebit, SagaConstants
<1>2. /\ proc'[p] = [pc |-> "check", user |-> u, to |-> to, amt |-> a, key |-> k, tx |-> "none"]
      /\ \A q \in Handlers \ {p} : proc'[q] = proc[q]
  BY <1>1 DEF SagaCall, BInv, IInv, TypeOK
<1>3. UNCHANGED <<txns, applied, refunds, bankRefunds>>
  BY <1>1 DEF SagaCall, rows, bankVars
<1> QED
  BY <1>1, <1>2, <1>3, BooksQuiet DEF BInv

LEMMA CheckBooks ==
    ASSUME BInv, NEW p \in Handlers, Check(p)
    PROVE  Books'
<1>1. proc[p] \in Called
  BY Shapes DEF Check, BInv, IInv
<1>2. UNCHANGED <<txns, applied, refunds, bankRefunds>>
  BY DEF Check, rows, bankVars
<1>3. CASE Return(p)
  BY <1>2, <1>3, ProcFacts, BooksQuiet DEF BInv, IInv, Paying, Unfinished
<1>4. CASE Goto(p, "debit")
  <2>1. proc'[p].pc = "debit" /\ proc'[p].to = proc[p].to /\ proc'[p].user = proc[p].user
    BY <1>1, <1>4, HoldingGoto DEF BInv, IInv
  <2>2. proc[p].to # proc[p].user
    BY DEF Check, BInv, Books, PaysAnother, Paying
  <2> QED
    BY <1>2, <1>4, <2>1, <2>2, ProcFacts, BooksQuiet DEF BInv, IInv
<1> QED
  BY <1>3, <1>4 DEF Check

LEMMA DebitBooks ==
    ASSUME BInv, NEW p \in Handlers, Debit(p)
    PROVE  Books'
<1> DEFINE r == proc[p]
<1>1. r \in Called /\ r.to # r.user
  BY Shapes DEF Debit, BInv, IInv, Books, PaysAnother, Paying
<1>2. CASE ~DebitAllowed(balances[r.user], r.amt)
  <2>1. Return(p) /\ UNCHANGED <<txns, applied, refunds, bankRefunds>>
    BY <1>2 DEF Debit, bankVars
  <2> QED
    BY <2>1, ProcFacts, BooksQuiet DEF BInv, IInv, Paying, Unfinished
<1>3. CASE DebitAllowed(balances[r.user], r.amt)
  <2>1. PICK t \in TxIds : DebitIn(p, t)
    BY <1>3 DEF Debit
  <2>2. t \notin Used /\ UNCHANGED <<applied, refunds, bankRefunds>>
    BY <2>1 DEF DebitIn, Debit, bankVars
  <2>3. txns'[t].status # "free" /\ \A o \in TxIds \ {t} : txns'[o] = txns[o]
    BY <2>1 DEF DebitIn, BInv, IInv, TypeOK
  <2>4. Used' = Used \cup {t}
    BY <2>3 DEF Used
  <2>5. /\ proc'[p].tx = t /\ proc'[p].to = r.to /\ proc'[p].user = r.user
        /\ \A q \in Handlers \ {p} : proc'[q] = proc[q]
    BY <2>1, <1>1 DEF DebitIn, BInv, IInv, TypeOK, Called
  <2>6. t \notin applied
    BY <2>2 DEF BInv, Books, Untouched
  <2>7. IsFiniteSet({t}) /\ Used' \subseteq Used \cup {t}
    BY <2>4, FS_Singleton
  <2>8. \A o \in TxIds \ Used' : o \notin applied' /\ refunds'[o] = 0 /\ bankRefunds'[o] = 0
    BY <2>2, <2>4 DEF BInv, Books, Untouched
  <2>9. \A q \in Handlers \ {p} : proc[q].pc = "transfer" => proc[q].tx \notin applied'
    BY <2>2 DEF BInv, Books, NotYetSent
  <2> QED
    BY <1>1, <2>2, <2>5, <2>6, <2>7, <2>8, <2>9, BooksStep DEF BInv
<1> QED
  BY <1>2, <1>3

LEMMA TransferBooks ==
    ASSUME BInv, NEW p \in Handlers, Transfer(p)
    PROVE  Books'
<1> DEFINE r == proc[p]
<1>1. r \in Holding /\ r.tx \in TxIds /\ r.to # r.user
  BY Shapes DEF Transfer, BInv, IInv, Books, PaysAnother, Paying, Unfinished, Holding
<1>2. UNCHANGED <<txns, refunds, bankRefunds>> /\ applied' \subseteq applied \cup {r.tx}
  BY DEF Transfer, BankMoves, rows
<1>3. r.tx \in Used /\ Used' = Used
  <2>1. txns[r.tx] \in DebitRow
    BY RowInUse DEF Transfer, BInv, IInv, HandlersOwnRows, Unfinished
  <2> QED
    BY <1>1, <1>2, <2>1 DEF Used, DebitRow, Statuses
<1>4. PICK pc \in {"settle", "compensate"} : Goto(p, pc)
  BY DEF Transfer
<1>5. /\ proc'[p].pc \in {"settle", "compensate"} /\ proc'[p].to # proc'[p].user
      /\ \A q \in Handlers \ {p} : proc'[q] = proc[q]
  BY <1>1, <1>4, HoldingGoto, ProcFacts DEF BInv, IInv
<1>6. \A t \in TxIds \ Used' : t \notin applied' /\ refunds'[t] = 0 /\ bankRefunds'[t] = 0
  BY <1>2, <1>3 DEF BInv, Books, Untouched
<1>7. \A q \in Handlers \ {p} : proc[q].pc = "transfer" => proc[q].tx \notin applied'
  BY <1>2 DEF Transfer, BInv, IInv, HandlersOwnRows, NoSharedRow, Unfinished, Books, NotYetSent
<1>8. IsFiniteSet({}) /\ Used' \subseteq Used \cup {}
  BY <1>3, FS_EmptySet
<1> QED
  BY <1>5, <1>6, <1>7, <1>8, BooksStep DEF BInv

\* Ending a payment keeps its row in use.
LEMMA EndBooks ==
    ASSUME BInv, NEW p \in Handlers, Settle(p) \/ Compensate(p)
    PROVE  Books'
<1> DEFINE r == proc[p]
<1>1. r \in Holding /\ r.tx \in TxIds
  BY Shapes DEF Settle, Compensate, BInv, IInv, Holding
<1>2. txns[r.tx].status = "pending"
  BY DEF Settle, Compensate, BInv, IInv, HandlersOwnRows, RowOfHandler, Unfinished
<1>3. /\ txns'[r.tx].status \in {"succeeded", "failed"}
      /\ \A o \in TxIds \ {r.tx} : txns'[o] = txns[o]
  BY <1>1, <1>2, MarkSettledEffect DEF Settle, Compensate, BInv, IInv, Statuses
<1>4. Used' = Used
  BY <1>1, <1>2, <1>3 DEF Used
<1>5. UNCHANGED <<applied, refunds, bankRefunds>>
  BY DEF Settle, Compensate, bankVars
<1>6. proc'[p].pc \in {"record", "idle"} /\ \A q \in Handlers \ {p} : proc'[q] = proc[q]
  BY <1>1, HoldingGoto, ProcFacts DEF Settle, Compensate, BInv, IInv
<1>7. \A t \in TxIds \ Used' : t \notin applied' /\ refunds'[t] = 0 /\ bankRefunds'[t] = 0
  BY <1>4, <1>5 DEF BInv, Books, Untouched
<1>8. \A q \in Handlers \ {p} : proc[q].pc = "transfer" => proc[q].tx \notin applied'
  BY <1>5 DEF BInv, Books, NotYetSent
<1>9. IsFiniteSet({}) /\ Used' \subseteq Used \cup {}
  BY <1>4, FS_EmptySet
<1> QED
  BY <1>6, <1>7, <1>8, <1>9, BooksStep DEF BInv, Paying, Unfinished

\* The refund's two writes go to a row in use.
LEMMA RefundBooks ==
    ASSUME BInv, NEW p \in Handlers, RefundAtBank(p) \/ RefundCredit(p)
    PROVE  Books'
<1> DEFINE r == proc[p]
<1>1. r \in Refunding /\ r.tx \in TxIds
  BY Shapes DEF RefundAtBank, RefundCredit, BInv, IInv, Refunding
<1>2. txns[r.tx].status = "succeeded"
  BY DEF RefundAtBank, RefundCredit, BInv, IInv, HandlersOwnRows, RowOfHandler
<1>3. r.tx \in Used /\ Used' = Used
  BY <1>1, <1>2 DEF Used, RefundAtBank, RefundCredit, rows
<1>4. UNCHANGED applied
  BY DEF RefundAtBank, RefundCredit, bankVars
<1>5. \A t \in TxIds \ {r.tx} : refunds'[t] = refunds[t] /\ bankRefunds'[t] = bankRefunds[t]
  BY DEF RefundAtBank, RefundCredit, BankPaysBack, rows, bankVars, BInv, IInv, TypeOK
<1>6. proc'[p].pc \in {"credit", "idle"} /\ \A q \in Handlers \ {p} : proc'[q] = proc[q]
  BY <1>1, HoldingGoto, ProcFacts DEF RefundAtBank, RefundCredit, BInv, IInv
<1>7. \A t \in TxIds \ Used' : t \notin applied' /\ refunds'[t] = 0 /\ bankRefunds'[t] = 0
  BY <1>3, <1>4, <1>5 DEF BInv, Books, Untouched
<1>8. \A q \in Handlers \ {p} : proc[q].pc = "transfer" => proc[q].tx \notin applied'
  BY <1>4 DEF BInv, Books, NotYetSent
<1>9. IsFiniteSet({}) /\ Used' \subseteq Used \cup {}
  BY <1>3, FS_EmptySet
<1> QED
  BY <1>6, <1>7, <1>8, <1>9, BooksStep DEF BInv, Paying, Unfinished

\* The steps that neither pay nor refund.
LEMMA OtherBooks ==
    ASSUME BInv, NEW p \in Handlers,
           \/ Record(p) \/ RefreshWrite(p) \/ Abort(p)
           \/ \E u \in Users : RefreshRead(p, u)
           \/ \E t \in TxIds, a \in Amounts : Refund(p, t, a)
    PROVE  Books'
<1>1. UNCHANGED <<txns, applied, refunds, bankRefunds>>
  BY DEF Record, RefreshWrite, Abort, RefreshRead, Refund, rows, bankVars
<1>2. proc'[p].pc \in {"idle", "sync", "refund"} /\ \A q \in Handlers \ {p} : proc'[q] = proc[q]
  BY DEF Record, RefreshWrite, Abort, RefreshRead, Refund, Return, Idle, BInv, IInv, TypeOK
<1> QED
  BY <1>1, <1>2, BooksQuiet DEF BInv, Paying, Unfinished

LEMMA InitBooks == Init => Books
<1> SUFFICES ASSUME Init PROVE Books
  OBVIOUS
<1>1. Used = {} /\ Crediting = {}
  BY DEF Init, Used, FreeRow, Crediting, Idle
<1>2. IsFiniteSet(Used) /\ IsFiniteSet(Crediting)
  BY <1>1, FS_EmptySet
<1> QED
  BY <1>2 DEF Init, Books, Untouched, NotYetSent, PaysAnother, Paying, Unfinished, FiniteBooks, Idle

LEMMA NextBooks == BInv /\ [Next]_vars => BInv'
<1> SUFFICES ASSUME BInv, [Next]_vars
             PROVE  Books'
  BY NextInv DEF BInv
<1>1. ASSUME NEW p \in Handlers, NEW u \in Users, NEW a \in Amounts, NEW k \in Keys,
             Send(p, u, a, k) \/ MerchantDebit(p, u, a, k)
      PROVE  Books'
  BY <1>1, CallBooks
<1>2. ASSUME NEW p \in Handlers, HandlerStep(p)
      PROVE  Books'
  BY <1>2, CheckBooks, DebitBooks, TransferBooks, EndBooks, RefundBooks, OtherBooks DEF HandlerStep
<1>3. ASSUME NEW p \in Handlers,
             \/ Abort(p) \/ \E u \in Users : RefreshRead(p, u)
             \/ \E t \in TxIds, a \in Amounts : Refund(p, t, a)
      PROVE  Books'
  BY <1>3, OtherBooks
<1>4. CASE UNCHANGED <<txns, applied, refunds, bankRefunds, proc>>
  <2>1. Used' = Used /\ Crediting' = Crediting
    BY <1>4 DEF Used, Crediting
  <2> QED
    BY <1>4, <2>1 DEF BInv, Books, Untouched, NotYetSent, PaysAnother, FiniteBooks
<1>5. ASSUME \/ \E u \in Freezable, f \in BOOLEAN : SetFrozen(u, f)
             \/ \E k \in Keys : ExpireKey(k)
             \/ UNCHANGED vars
      PROVE  UNCHANGED <<txns, applied, refunds, bankRefunds, proc>>
  BY <1>5 DEF SetFrozen, ExpireKey, vars, rows, bankVars
<1> QED
  BY <1>1, <1>2, <1>3, <1>4, <1>5 DEF Next

---------------------------------------------------------------------------
(* pending_out_paise.                                                      *)

\* The sets the sums run over are finite sets of rows in use, and what is
\* summed is a natural number.
LEMMA SumFacts ==
    ASSUME BInv, NEW u
    PROVE  /\ \A S \in {PaymentsOf(u), HeldBy(u), Unsettled(u), Uncredited(u)} :
                 S \in SUBSET Used /\ IsFiniteSet(S)
           /\ \A t \in Used : Amt[t] = txns[t].amt /\ Amt[t] \in Nat
           /\ \A t \in Used : refunds[t] \in Nat /\ bankRefunds[t] \in Nat
           /\ Used \subseteq TxIds
<1>1. \A t \in Used : txns[t] \in DebitRow
  BY DEF BInv, IInv, TypeOK, Used, FreeRow
<1>2. \A t \in Used : Amt[t] = txns[t].amt /\ Amt[t] \in Nat
  BY <1>1, SagaConstants DEF Amt, DebitRow, SagaConstants
<1>3. applied \subseteq Used /\ Used \subseteq TxIds
  BY DEF BInv, IInv, TypeOK, Books, Untouched, Used
<1>4. \A S \in {PaymentsOf(u), HeldBy(u), Unsettled(u), Uncredited(u)} : S \in SUBSET Used
  BY <1>3 DEF PaymentsOf, HeldBy, Unsettled, Uncredited
<1>5. \A S \in SUBSET Used : IsFiniteSet(S)
  BY FS_Subset DEF BInv, Books, FiniteBooks
<1>6. \A t \in Used : refunds[t] \in Nat /\ bankRefunds[t] \in Nat
  BY <1>3 DEF BInv, IInv, TypeOK
<1> QED
  BY <1>2, <1>3, <1>4, <1>5, <1>6

\* What a statement does to the column.
LEMMA PendingOuts ==
    ASSUME NEW row \in SagaRow, NEW a \in Nat
    PROVE  /\ Debited(row, a).pendingOut = row.pendingOut + a
           /\ DebitSettled(row, a).pendingOut = Floor0(row.pendingOut - a)
           /\ DebitReversed(row, a).pendingOut = Floor0(row.pendingOut - a)
           /\ Credited(row, a).pendingOut = row.pendingOut
           /\ Synced(row, a).pendingOut = row.pendingOut
           /\ \A f \in BOOLEAN : [row EXCEPT !.frozen = f].pendingOut = row.pendingOut
<1>1. [row EXCEPT !.available = row.available - a] \in SagaRow
  BY DEF SagaRow
<1>2. [row EXCEPT !.available = row.available + a] \in SagaRow
  BY DEF SagaRow
<1>3. Debited(row, a).pendingOut = row.pendingOut + a
  BY <1>1 DEF Debited, SagaRow
<1>4. DebitReversed(row, a).pendingOut = Floor0(row.pendingOut - a)
  BY <1>2 DEF DebitReversed, SagaRow
<1> QED
  BY <1>3, <1>4 DEF DebitSettled, Credited, Synced, SagaRow

\* A step that leaves the rows and the column alone.
LEMMA PendingKept ==
    ASSUME PendingOutExact, UNCHANGED txns,
           \A u \in Users : balances'[u].pendingOut = balances[u].pendingOut
    PROVE  PendingOutExact'
<1>1. Amt' = Amt /\ \A u \in Users : HeldBy(u)' = HeldBy(u)
  BY DEF Amt, Used, HeldBy, PaymentsOf
<1> QED
  BY <1>1 DEF PendingOutExact

LEMMA DebitPending ==
    ASSUME BInv, PendingOutExact, NEW p \in Handlers, Debit(p)
    PROVE  PendingOutExact'
<1> DEFINE r == proc[p]
<1>1. r \in Called /\ r.user \in Users /\ r.amt \in Nat
  BY Shapes, SagaConstants DEF Debit, BInv, IInv, Called, SagaConstants
<1>2. CASE ~DebitAllowed(balances[r.user], r.amt)
  BY <1>2, PendingKept DEF Debit
<1>3. CASE DebitAllowed(balances[r.user], r.amt)
  <2>1. PICK t \in TxIds : DebitIn(p, t)
    BY <1>3 DEF Debit
  <2>2. t \notin Used /\ balances' = [balances EXCEPT ![r.user] = Debited(balances[r.user], r.amt)]
    BY <2>1 DEF DebitIn
  <2>3. /\ txns'[t].status \in {"pending", "pending_invite"}
        /\ txns'[t].user = r.user /\ txns'[t].amt = r.amt
        /\ \A o \in TxIds \ {t} : txns'[o] = txns[o]
    BY <2>1 DEF DebitIn, BInv, IInv, TypeOK
  <2>4. Used' = Used \cup {t}
    BY <2>3 DEF Used
  <2>5. \A o \in Used : Amt'[o] = Amt[o]
    BY <2>2, <2>3, <2>4 DEF Amt, Used
  <2>6. Amt'[t] = r.amt
    BY <2>3, <2>4 DEF Amt
  <2> SUFFICES ASSUME NEW u \in Users
               PROVE  balances'[u].pendingOut = SumOver(HeldBy(u)', Amt')
    BY DEF PendingOutExact
  <2> DEFINE H == HeldBy(u)
  <2>7. H \in SUBSET Used /\ IsFiniteSet(H) /\ \A o \in H : Amt'[o] = Amt[o] /\ Amt'[o] \in Nat
    BY <2>5, SumFacts
  <2>8. SumOver(H, Amt') = SumOver(H, Amt)
    BY <2>7, SumSame
  <2>9. balances[u].pendingOut = SumOver(H, Amt) /\ balances[u] \in SagaRow
    BY DEF PendingOutExact, BInv, IInv, TypeOK
  <2>10. CASE u = r.user
    <3>1. HeldBy(u)' = H \cup {t}
      BY <2>2, <2>3, <2>4, <2>10 DEF HeldBy, PaymentsOf, Used
    <3>2. t \notin H /\ Amt'[t] \in Nat
      BY <1>1, <2>2, <2>6, <2>7
    <3>3. SumOver(H \cup {t}, Amt') = SumOver(H, Amt') + Amt'[t]
      <4> HIDE DEF H
      <4> QED
        BY <2>7, <3>2, SumAdd
    <3>4. balances'[u].pendingOut = balances[u].pendingOut + r.amt
      BY <1>1, <2>2, <2>9, <2>10, PendingOuts DEF BInv, IInv, TypeOK
    <3> QED
      BY <2>6, <2>8, <2>9, <3>1, <3>3, <3>4
  <2>11. CASE u # r.user
    <3>1. HeldBy(u)' = H
      BY <2>2, <2>3, <2>4, <2>11 DEF HeldBy, PaymentsOf, Used
    <3>2. balances'[u] = balances[u]
      BY <2>2, <2>11 DEF BInv, IInv, TypeOK
    <3> QED
      BY <2>8, <2>9, <3>1, <3>2
  <2> QED
    BY <2>10, <2>11
<1> QED
  BY <1>2, <1>3

\* A handler that ends its payment releases what it held: the hold was part of
\* the column, so the floor does not bite.
LEMMA EndFacts ==
    ASSUME BInv, PendingOutExact, NEW p \in Handlers, proc[p].pc \in Unfinished
    PROVE  LET r == proc[p] IN
           /\ r.tx \in HeldBy(r.user) /\ Amt[r.tx] = r.amt /\ r.tx \in Used
           /\ r.user \in Users /\ r.amt \in Nat /\ balances[r.user] \in SagaRow
           /\ balances[r.user].pendingOut - r.amt \in Nat
           /\ Floor0(balances[r.user].pendingOut - r.amt) = balances[r.user].pendingOut - r.amt
<1> DEFINE r == proc[p]
           H == HeldBy(r.user)
<1>1. /\ r \in Holding /\ r.tx \in TxIds /\ r.user \in Users /\ r.amt \in Nat
      /\ txns[r.tx].status = "pending" /\ SameTerms(r, txns[r.tx])
  BY HeldPayment DEF BInv
<1>2. r.tx \in Used /\ r.tx \in H /\ Amt[r.tx] = r.amt
  BY <1>1 DEF Used, HeldBy, PaymentsOf, Amt, SameTerms
<1>3. IsFiniteSet(H) /\ \A o \in H : Amt[o] \in Nat
  BY SumFacts
<1>4. /\ SumOver(H \ {r.tx}, Amt) \in Nat
      /\ SumOver(H, Amt) = SumOver(H \ {r.tx}, Amt) + Amt[r.tx]
  <2> HIDE DEF H
  <2> QED
    BY <1>2, <1>3, SumRemove
<1>5. balances[r.user].pendingOut = SumOver(H, Amt) /\ balances[r.user] \in SagaRow
  BY <1>1 DEF PendingOutExact, BInv, IInv, TypeOK
<1>6. balances[r.user].pendingOut - r.amt \in Nat
  BY <1>1, <1>2, <1>4, <1>5
<1>7. Floor0(balances[r.user].pendingOut - r.amt) = balances[r.user].pendingOut - r.amt
  BY <1>6 DEF Floor0
<1> QED
  BY <1>1, <1>2, <1>5, <1>6, <1>7

\* The two columns of every wallet after a payment has been settled.
LEMMA SettledColumns ==
    ASSUME BInv, PendingOutExact, NEW p \in Handlers, Settle(p), NEW u \in Users
    PROVE  LET r == proc[p] IN
           /\ r.to # r.user
           /\ balances'[u].pendingOut
                = IF u = r.user THEN balances[u].pendingOut - r.amt ELSE balances[u].pendingOut
           /\ balances'[u].available
                = IF u = r.to THEN balances[u].available + r.amt ELSE balances[u].available
<1> DEFINE r == proc[p]
           sender == [balances EXCEPT ![r.user] = DebitSettled(balances[r.user], r.amt)]
<1>1. /\ r.user \in Users /\ r.amt \in Nat /\ balances[r.user] \in SagaRow
      /\ Floor0(balances[r.user].pendingOut - r.amt) = balances[r.user].pendingOut - r.amt
  BY EndFacts DEF Settle, Unfinished
<1>2. r.to # r.user
  BY DEF Settle, BInv, Books, PaysAnother, Paying, Unfinished
<1>3. balances \in [Users -> SagaRow] /\ balances[u] \in SagaRow
  BY DEF BInv, IInv, TypeOK
<1>4. balances' = IF r.to \in Users
                  THEN [sender EXCEPT ![r.to] = Credited(sender[r.to], r.amt)] ELSE sender
  BY DEF Settle, SettledBalances
<1>5. CASE u = r.user
  <2>1. balances'[u] = DebitSettled(balances[u], r.amt)
    BY <1>2, <1>3, <1>4, <1>5
  <2>2. /\ balances'[u].pendingOut = Floor0(balances[u].pendingOut - r.amt)
        /\ balances'[u].available = balances[u].available
    BY <1>1, <1>3, <2>1, PendingOuts, Purses
  <2> QED
    BY <1>1, <1>2, <1>5, <2>2
<1>6. CASE u = r.to /\ u # r.user
  <2>1. sender[u] = balances[u]
    BY <1>3, <1>6
  <2>2. DOMAIN sender = Users
    BY <1>3
  <2>3. balances'[u] = Credited(balances[u], r.amt)
    BY <1>4, <1>6, <2>1, <2>2
  <2>4. /\ balances'[u].pendingOut = balances[u].pendingOut
        /\ balances'[u].available = balances[u].available + r.amt
    BY <1>1, <1>3, <2>3, PendingOuts, Purses
  <2> QED
    BY <1>2, <1>6, <2>4
<1>7. CASE u # r.to /\ u # r.user
  <2>1. balances'[u] = balances[u]
    BY <1>3, <1>4, <1>7
  <2> QED
    BY <1>2, <1>7, <2>1
<1> QED
  BY <1>5, <1>6, <1>7

\* Rows and sums after a handler has ended its payment.
LEMMA EndedRows ==
    ASSUME BInv, PendingOutExact, NEW p \in Handlers, Settle(p) \/ Compensate(p)
    PROVE  LET r == proc[p] IN
           /\ proc[p].pc \in Unfinished
           /\ txns'[r.tx].status = IF Settle(p) THEN "succeeded" ELSE "failed"
           /\ SameTerms(r, txns[r.tx]) /\ SameTerms(r, txns'[r.tx])
           /\ txns[r.tx].status = "pending"
           /\ \A o \in TxIds \ {r.tx} : txns'[o] = txns[o]
           /\ Used' = Used /\ \A o \in Used : Amt'[o] = Amt[o]
           /\ UNCHANGED <<acct, applied, refunds, bankRefunds, resynced>>
<1> DEFINE r == proc[p]
<1>1. r.pc \in Unfinished /\ (Settle(p) <=> r.pc = "settle")
  BY DEF Settle, Compensate, Unfinished
<1>2. /\ r.tx \in TxIds /\ txns[r.tx].status = "pending" /\ SameTerms(r, txns[r.tx])
  BY <1>1, HeldPayment DEF BInv
<1>3. /\ txns'[r.tx].status = IF Settle(p) THEN "succeeded" ELSE "failed"
      /\ SameTerms(r, txns'[r.tx])
      /\ \A o \in TxIds \ {r.tx} : txns'[o] = txns[o]
  <2>1. CASE Settle(p)
    BY <1>2, <2>1, MarkSettledEffect DEF Settle, BInv, IInv, Statuses
  <2>2. CASE ~Settle(p)
    BY <1>2, <2>2, MarkSettledEffect DEF Compensate, BInv, IInv, Statuses
  <2> QED
    BY <2>1, <2>2
<1>4. Used' = Used
  BY <1>2, <1>3 DEF Used
<1>5. \A o \in Used : Amt'[o] = Amt[o]
  BY <1>2, <1>3, <1>4 DEF Amt, SameTerms, Used
<1>6. UNCHANGED <<acct, applied, refunds, bankRefunds, resynced>>
  BY DEF Settle, Compensate, bankVars, history
<1> QED
  BY <1>1, <1>2, <1>3, <1>4, <1>5, <1>6

LEMMA EndPending ==
    ASSUME BInv, PendingOutExact, NEW p \in Handlers, Settle(p) \/ Compensate(p)
    PROVE  PendingOutExact'
<1> DEFINE r == proc[p]
<1>1. /\ r.pc \in Unfinished
      /\ txns'[r.tx].status \in {"succeeded", "failed"} /\ SameTerms(r, txns'[r.tx])
      /\ \A o \in TxIds \ {r.tx} : txns'[o] = txns[o]
      /\ Used' = Used /\ \A o \in Used : Amt'[o] = Amt[o]
      /\ SameTerms(r, txns[r.tx])
  BY EndedRows
<1>2. /\ r.tx \in HeldBy(r.user) /\ Amt[r.tx] = r.amt /\ r.tx \in Used
      /\ r.user \in Users /\ r.amt \in Nat /\ balances[r.user] \in SagaRow
      /\ balances[r.user].pendingOut - r.amt \in Nat
      /\ Floor0(balances[r.user].pendingOut - r.amt) = balances[r.user].pendingOut - r.amt
  BY <1>1, EndFacts
<1> SUFFICES ASSUME NEW u \in Users
             PROVE  balances'[u].pendingOut = SumOver(HeldBy(u)', Amt')
  BY DEF PendingOutExact
<1> DEFINE H == HeldBy(u)
<1>3. H \in SUBSET Used /\ IsFiniteSet(H) /\ \A o \in H : Amt[o] \in Nat
  BY SumFacts
<1>4. balances[u].pendingOut = SumOver(H, Amt)
  BY DEF PendingOutExact
<1>5. balances'[u].pendingOut
        = IF u = r.user THEN balances[u].pendingOut - r.amt ELSE balances[u].pendingOut
  <2>1. CASE Settle(p)
    BY <2>1, SettledColumns
  <2>2. CASE Compensate(p)
    <3>1. balances' = [balances EXCEPT ![r.user] = DebitReversed(balances[r.user], r.amt)]
      BY <2>2 DEF Compensate
    <3>2. DebitReversed(balances[r.user], r.amt).pendingOut = balances[r.user].pendingOut - r.amt
      BY <1>2, PendingOuts
    <3> QED
      BY <1>2, <3>1, <3>2 DEF BInv, IInv, TypeOK
  <2> QED
    BY <2>1, <2>2
<1>6. CASE u = r.user
  <2>1. HeldBy(u)' = H \ {r.tx}
    BY <1>1, <1>2, <1>6 DEF HeldBy, PaymentsOf, Used
  <2>2. /\ SumOver(H \ {r.tx}, Amt) \in Nat
        /\ SumOver(H, Amt) = SumOver(H \ {r.tx}, Amt) + Amt[r.tx]
    <3>1. r.tx \in H
      BY <1>2, <1>6
    <3> HIDE DEF H
    <3> QED
      BY <1>3, <3>1, SumRemove
  <2>3. SumOver(H \ {r.tx}, Amt') = SumOver(H \ {r.tx}, Amt)
    BY <1>1, <1>3, SumSame
  <2> QED
    BY <1>2, <1>4, <1>5, <1>6, <2>1, <2>2, <2>3
<1>7. CASE u # r.user
  <2>1. HeldBy(u)' = H
    BY <1>1, <1>7 DEF HeldBy, PaymentsOf, Used, SameTerms
  <2>2. SumOver(H, Amt') = SumOver(H, Amt)
    BY <1>1, <1>3, SumSame
  <2> QED
    BY <1>4, <1>5, <1>7, <2>1, <2>2
<1> QED
  BY <1>6, <1>7

\* The steps that write no row: those that write a balance leave the column.
LEMMA OtherPending ==
    ASSUME BInv, PendingOutExact,
           \/ \E p \in Handlers : RefundCredit(p) \/ RefreshWrite(p)
           \/ \E u \in Freezable, f \in BOOLEAN : SetFrozen(u, f)
    PROVE  PendingOutExact'
<1>1. UNCHANGED txns
  BY DEF RefundCredit, RefreshWrite, SetFrozen, rows
<1>2. \A w \in Users : balances'[w].pendingOut = balances[w].pendingOut
  <2>1. ASSUME NEW p \in Handlers, RefundCredit(p) \/ RefreshWrite(p), NEW w \in Users
        PROVE  balances'[w].pendingOut = balances[w].pendingOut
    <3>1. proc[p].user \in Users /\ proc[p].amt \in Nat
      BY <2>1, Shapes, SagaConstants
         DEF BInv, IInv, RefundCredit, RefreshWrite, Refunding, Syncing, SagaConstants
    <3>2. /\ Credited(balances[proc[p].user], proc[p].amt).pendingOut = balances[proc[p].user].pendingOut
          /\ Synced(balances[proc[p].user], proc[p].amt).pendingOut = balances[proc[p].user].pendingOut
      BY <3>1, PendingOuts DEF BInv, IInv, TypeOK
    <3> QED
      BY <2>1, <3>1, <3>2 DEF RefundCredit, RefreshWrite, BInv, IInv, TypeOK
  <2>2. ASSUME NEW u \in Freezable, NEW f \in BOOLEAN, SetFrozen(u, f), NEW w \in Users
        PROVE  balances'[w].pendingOut = balances[w].pendingOut
    <3>1. u \in Users
      BY SagaConstants DEF SagaConstants
    <3>2. balances' = [balances EXCEPT ![u] = [balances[u] EXCEPT !.frozen = f]]
      BY <2>2 DEF SetFrozen
    <3>3. [balances[u] EXCEPT !.frozen = f].pendingOut = balances[u].pendingOut
      BY <3>1, PendingOuts DEF BInv, IInv, TypeOK
    <3> QED
      BY <3>1, <3>2, <3>3 DEF BInv, IInv, TypeOK
  <2> QED
    BY <2>1, <2>2
<1> QED
  BY <1>1, <1>2, PendingKept

LEMMA InitPending == Init => PendingOutExact
<1> SUFFICES ASSUME Init, NEW u \in Users
             PROVE  balances[u].pendingOut = SumOver(HeldBy(u), Amt)
  BY DEF PendingOutExact
<1>1. HeldBy(u) = {} /\ balances[u].pendingOut = 0
  BY DEF Init, HeldBy, PaymentsOf, Used, FreeRow
<1> QED
  BY <1>1, SumEmpty

LEMMA NextPending == BInv /\ PendingOutExact /\ [Next]_vars => PendingOutExact'
<1> SUFFICES ASSUME BInv, PendingOutExact, [Next]_vars
             PROVE  PendingOutExact'
  OBVIOUS
<1>1. CASE UNCHANGED <<balances, txns>>
  BY <1>1, PendingKept
<1>2. ASSUME NEW p \in Handlers, Debit(p) \/ Settle(p) \/ Compensate(p)
      PROVE  PendingOutExact'
  BY <1>2, DebitPending, EndPending
<1> QED
  BY <1>1, <1>2, OtherPending DEF Next, HandlerStep, Send, MerchantDebit, SagaCall, Check, Transfer,
     Record, Refund, RefundAtBank, RefreshRead, ExpireKey, Abort, vars, rows

---------------------------------------------------------------------------
(* The mirror and the bank.                                                *)

MirrorOf(u) ==
    acct[u] + SumOver(Unsettled(u), Amt) + SumOver(PaymentsOf(u), refunds)
    = balances[u].available + balances[u].pendingOut
      + SumOver(Uncredited(u), Amt) + SumOver(PaymentsOf(u), bankRefunds)

\* The ways in which a step moves an amount x through the equation.
LEMMA Shift ==
    ASSUME NEW a \in Int, NEW b \in Int, NEW c \in Int, NEW v \in Int, NEW w \in Int,
           NEW d \in Int, NEW e \in Int, NEW x \in Int, a + b + c = v + w + d + e
    PROVE  /\ (a - x) + (b + x) + c = v + w + d + e
           /\ (a + x) + b + c = v + w + (d + x) + e
           /\ a + (b - x) + c = v + (w - x) + d + e
           /\ a + b + c = (v + x) + w + (d - x) + e
           /\ (a + x) + b + c = v + w + d + (e + x)
           /\ a + b + (c + x) = (v + x) + w + d + e
OBVIOUS

\* The terms of the equation are integers.
LEMMA MirrorTerms ==
    ASSUME BInv, NEW u \in Users
    PROVE  /\ acct[u] \in Int /\ balances[u].available \in Int /\ balances[u].pendingOut \in Int
           /\ balances[u] \in SagaRow
           /\ SumOver(Unsettled(u), Amt) \in Int /\ SumOver(Uncredited(u), Amt) \in Int
           /\ SumOver(PaymentsOf(u), refunds) \in Int /\ SumOver(PaymentsOf(u), bankRefunds) \in Int
<1>1. acct[u] \in Int /\ balances[u] \in SagaRow
  BY DEF BInv, IInv, TypeOK
<1>2. balances[u].available \in Int /\ balances[u].pendingOut \in Int
  BY <1>1 DEF SagaRow
<1>3. SumOver(Unsettled(u), Amt) \in Int
  <2>1. IsFiniteSet(Unsettled(u)) /\ \A t \in Unsettled(u) : Amt[t] \in Nat
    BY SumFacts
  <2>2. SumOver(Unsettled(u), Amt) \in Nat
    BY <2>1, SumFinite
  <2> QED
    BY <2>2
<1>4. SumOver(Uncredited(u), Amt) \in Int
  <2>1. IsFiniteSet(Uncredited(u)) /\ \A t \in Uncredited(u) : Amt[t] \in Nat
    BY SumFacts
  <2>2. SumOver(Uncredited(u), Amt) \in Nat
    BY <2>1, SumFinite
  <2> QED
    BY <2>2
<1>5. SumOver(PaymentsOf(u), refunds) \in Int /\ SumOver(PaymentsOf(u), bankRefunds) \in Int
  <2>1. /\ IsFiniteSet(PaymentsOf(u))
        /\ \A t \in PaymentsOf(u) : refunds[t] \in Nat /\ bankRefunds[t] \in Nat
    BY SumFacts
  <2>2. SumOver(PaymentsOf(u), refunds) \in Nat
    BY <2>1, SumFinite
  <2>3. SumOver(PaymentsOf(u), bankRefunds) \in Nat
    BY <2>1, SumFinite
  <2> QED
    BY <2>2, <2>3
<1> QED
  BY <1>1, <1>2, <1>3, <1>4, <1>5

LEMMA MirrorShift ==
    ASSUME BInv, NEW u \in Users, MirrorOf(u), NEW x \in Int
    PROVE  LET a == acct[u]
               b == SumOver(Unsettled(u), Amt)
               c == SumOver(PaymentsOf(u), refunds)
               v == balances[u].available
               w == balances[u].pendingOut
               d == SumOver(Uncredited(u), Amt)
               e == SumOver(PaymentsOf(u), bankRefunds)
           IN  /\ (a - x) + (b + x) + c = v + w + d + e
               /\ (a + x) + b + c = v + w + (d + x) + e
               /\ a + (b - x) + c = v + (w - x) + d + e
               /\ a + b + c = (v + x) + w + (d - x) + e
               /\ (a + x) + b + c = v + w + d + (e + x)
               /\ a + b + (c + x) = (v + x) + w + d + e
<1> DEFINE a == acct[u]
           b == SumOver(Unsettled(u), Amt)
           c == SumOver(PaymentsOf(u), refunds)
           v == balances[u].available
           w == balances[u].pendingOut
           d == SumOver(Uncredited(u), Amt)
           e == SumOver(PaymentsOf(u), bankRefunds)
<1>1. /\ a \in Int /\ b \in Int /\ c \in Int /\ v \in Int /\ w \in Int /\ d \in Int /\ e \in Int
  BY MirrorTerms
<1>2. a + b + c = v + w + d + e
  BY DEF MirrorOf
<1> HIDE DEF a, b, c, v, w, d, e
<1>3. /\ (a - x) + (b + x) + c = v + w + d + e
      /\ (a + x) + b + c = v + w + (d + x) + e
      /\ a + (b - x) + c = v + (w - x) + d + e
      /\ a + b + c = (v + x) + w + (d - x) + e
      /\ (a + x) + b + c = v + w + d + (e + x)
      /\ a + b + (c + x) = (v + x) + w + d + e
  BY <1>1, <1>2, Shift
<1> QED
  BY <1>3 DEF a, b, c, v, w, d, e

\* A step that leaves rows and bank alone, and moves money of a wallet no
\* refresh has written only between its columns.
LEMMA MirrorKept ==
    ASSUME BInv, MirrorExplained, resynced \subseteq resynced',
           UNCHANGED <<txns, receipts, refunds, acct, applied, bankRefunds>>,
           \A u \in Users \ resynced' :
               /\ balances'[u].available = balances[u].available
               /\ balances'[u].pendingOut = balances[u].pendingOut
    PROVE  MirrorExplained'
<1>1. Amt' = Amt /\ \A u \in Users : /\ PaymentsOf(u)' = PaymentsOf(u)
                                     /\ Unsettled(u)' = Unsettled(u)
                                     /\ Uncredited(u)' = Uncredited(u)
  BY DEF Amt, Used, PaymentsOf, Unsettled, Uncredited
<1>2. \A u \in Users \ resynced' : MirrorOf(u)
  BY DEF MirrorExplained, MirrorOf
<1> QED
  BY <1>1, <1>2 DEF MirrorExplained, MirrorOf

LEMMA DebitMirror ==
    ASSUME BInv, MirrorExplained, NEW p \in Handlers, Debit(p)
    PROVE  MirrorExplained'
<1> DEFINE r == proc[p]
<1>1. r \in Called /\ r.user \in Users /\ r.amt \in Nat
  BY Shapes, SagaConstants DEF Debit, BInv, IInv, Called, SagaConstants
<1>2. UNCHANGED <<receipts, refunds, acct, applied, bankRefunds, resynced>>
  BY DEF Debit, bankVars, history
<1>3. CASE ~DebitAllowed(balances[r.user], r.amt)
  BY <1>2, <1>3, MirrorKept DEF Debit
<1>4. CASE DebitAllowed(balances[r.user], r.amt)
  <2>1. PICK t \in TxIds : DebitIn(p, t)
    BY <1>4 DEF Debit
  <2>2. t \notin Used /\ balances' = [balances EXCEPT ![r.user] = Debited(balances[r.user], r.amt)]
    BY <2>1 DEF DebitIn
  <2>3. /\ txns'[t].status # "free" /\ txns'[t].user = r.user
        /\ \A o \in TxIds \ {t} : txns'[o] = txns[o]
    BY <2>1 DEF DebitIn, BInv, IInv, TypeOK
  <2>4. Used' = Used \cup {t}
    BY <2>3 DEF Used
  <2>5. t \notin applied /\ refunds[t] = 0 /\ bankRefunds[t] = 0
    BY <2>2 DEF BInv, Books, Untouched
  <2>6. \A o \in Used : Amt'[o] = Amt[o]
    BY <2>2, <2>3, <2>4 DEF Amt, Used
  <2> SUFFICES ASSUME NEW u \in Users \ resynced
               PROVE  MirrorOf(u)'
    BY <1>2 DEF MirrorExplained, MirrorOf
  <2> DEFINE P == PaymentsOf(u)
  <2>7. applied \subseteq TxIds
    BY DEF BInv, IInv, TypeOK
  <2>8. Unsettled(u)' = Unsettled(u) /\ Uncredited(u)' = Uncredited(u)
    BY <1>2, <2>3, <2>5, <2>7 DEF Unsettled, Uncredited
  <2>9. /\ SumOver(Unsettled(u), Amt') = SumOver(Unsettled(u), Amt)
        /\ SumOver(Uncredited(u), Amt') = SumOver(Uncredited(u), Amt)
    <3>1. Unsettled(u) \in SUBSET Used /\ Uncredited(u) \in SUBSET Used
      BY SumFacts
    <3>2. /\ \A o \in Unsettled(u) : Amt'[o] = Amt[o]
          /\ \A o \in Uncredited(u) : Amt'[o] = Amt[o]
      BY <2>6, <3>1
    <3> QED
      BY <3>2, SumSame
  <2>10. /\ SumOver(P', refunds) = SumOver(P, refunds)
         /\ SumOver(P', bankRefunds) = SumOver(P, bankRefunds)
    <3>1. /\ P \in SUBSET Used /\ IsFiniteSet(P) /\ t \notin P
          /\ \A o \in P : refunds[o] \in Nat /\ bankRefunds[o] \in Nat
      BY <2>2, SumFacts
    <3>2. P' = P \/ P' = P \cup {t}
      BY <2>2, <2>3, <2>4 DEF PaymentsOf, Used
    <3>3. /\ SumOver(P \cup {t}, refunds) = SumOver(P, refunds) + refunds[t]
          /\ SumOver(P \cup {t}, bankRefunds) = SumOver(P, bankRefunds) + bankRefunds[t]
      <4>0. refunds[t] \in Nat /\ bankRefunds[t] \in Nat
        BY <2>5
      <4> HIDE DEF P
      <4>1. SumOver(P \cup {t}, refunds) = SumOver(P, refunds) + refunds[t]
        BY <3>1, <4>0, SumAdd
      <4>2. SumOver(P \cup {t}, bankRefunds) = SumOver(P, bankRefunds) + bankRefunds[t]
        BY <3>1, <4>0, SumAdd
      <4> QED
        BY <4>1, <4>2
    <3>4. SumOver(P, refunds) \in Int /\ SumOver(P, bankRefunds) \in Int
      BY MirrorTerms
    <3>5. /\ SumOver(P \cup {t}, refunds) = SumOver(P, refunds)
          /\ SumOver(P \cup {t}, bankRefunds) = SumOver(P, bankRefunds)
      <4> HIDE DEF P
      <4> QED
        BY <2>5, <3>3, <3>4
    <3> QED
      BY <3>2, <3>5
  <2>11. balances'[u].available + balances'[u].pendingOut = balances[u].available + balances[u].pendingOut
    <3>1. balances[u] \in SagaRow
      BY DEF BInv, IInv, TypeOK
    <3>2. CASE u = r.user
      <4>1. balances'[u] = Debited(balances[u], r.amt)
        BY <2>2, <3>2 DEF BInv, IInv, TypeOK
      <4>2. /\ balances'[u].available = balances[u].available - r.amt
            /\ balances'[u].pendingOut = balances[u].pendingOut + r.amt
        BY <1>1, <3>1, <4>1, Purses, PendingOuts
      <4>3. balances[u].available \in Int /\ balances[u].pendingOut \in Int
        BY MirrorTerms
      <4> QED
        BY <1>1, <4>2, <4>3
    <3>3. CASE u # r.user
      BY <2>2, <3>3 DEF BInv, IInv, TypeOK
    <3> QED
      BY <3>2, <3>3
  <2>12. balances'[u].available \in Int /\ balances'[u].pendingOut \in Int
    <3>1. balances' \in [Users -> SagaRow]
      BY DebitType DEF BInv, IInv, TypeOK
    <3> QED
      BY <3>1 DEF SagaRow
  <2>13. MirrorOf(u)
    BY DEF MirrorExplained, MirrorOf
  <2> QED
    BY <1>2, <2>8, <2>9, <2>10, <2>11, <2>12, <2>13, MirrorTerms DEF MirrorOf
<1> QED
  BY <1>3, <1>4

\* The bank carries the transfer out: the sender's money is gone there and the
\* payee's has come, and the rows know of neither.
LEMMA TransferMirror ==
    ASSUME BInv, MirrorExplained, NEW p \in Handlers, Transfer(p), BankMoves(proc[p])
    PROVE  MirrorExplained'
<1> DEFINE r == proc[p]
<1>1. /\ r \in Holding /\ r.tx \in TxIds /\ r.user \in Users /\ r.amt \in Nat
      /\ txns[r.tx].status = "pending" /\ SameTerms(r, txns[r.tx])
  BY HeldPayment DEF Transfer, BInv, Unfinished
<1>2. r.to # r.user /\ r.tx \notin applied /\ r.tx \in Used
  BY <1>1 DEF Transfer, BInv, Books, PaysAnother, NotYetSent, Paying, Unfinished, Used
<1>3. /\ UNCHANGED <<balances, txns, receipts, refunds, bankRefunds, resynced>>
      /\ applied' = applied \cup {r.tx}
  BY DEF Transfer, BankMoves, rows, history
<1>4. receipts[r.tx] = 0
  BY <1>1 DEF BInv, IInv, BothLegs
<1>5. Amt' = Amt /\ Amt[r.tx] = r.amt
  BY <1>1, <1>2, <1>3 DEF Amt, Used, SameTerms
<1> SUFFICES ASSUME NEW u \in Users \ resynced
             PROVE  MirrorOf(u)'
  BY <1>3 DEF MirrorExplained, MirrorOf
<1>6. PaymentsOf(u)' = PaymentsOf(u)
  BY <1>3 DEF PaymentsOf, Used
<1>7. acct'[u] = IF u = r.user THEN acct[u] - r.amt
                 ELSE IF u = r.to THEN acct[u] + r.amt ELSE acct[u]
  <2>1. acct \in [Users \cup {Pool} -> Nat]
    BY DEF BInv, IInv, TypeOK
  <2>3. CASE u = r.user
    BY <1>2, <2>1, <2>3 DEF BankMoves
  <2>4. CASE u # r.user /\ u = r.to
    BY <1>2, <2>1, <2>4 DEF BankMoves
  <2>5. CASE u # r.user /\ u # r.to
    BY <1>2, <2>1, <2>5 DEF BankMoves
  <2> QED
    BY <2>3, <2>4, <2>5
<1>8. MirrorOf(u)
  BY DEF MirrorExplained, MirrorOf
<1>9. SumOver(Unsettled(u)', Amt)
        = IF u = r.user THEN SumOver(Unsettled(u), Amt) + r.amt ELSE SumOver(Unsettled(u), Amt)
  <2> DEFINE S == Unsettled(u)
  <2>1. CASE u = r.user
    <3>1. S' = S \cup {r.tx} /\ r.tx \notin S
      BY <1>1, <1>2, <1>3, <2>1 DEF Unsettled, SameTerms
    <3>2. IsFiniteSet(S) /\ \A t \in S : Amt[t] \in Nat
      BY SumFacts
    <3>3. SumOver(S \cup {r.tx}, Amt) = SumOver(S, Amt) + Amt[r.tx]
      <4> HIDE DEF S
      <4> QED
        BY <1>1, <1>5, <3>1, <3>2, SumAdd
    <3> QED
      BY <1>5, <2>1, <3>1, <3>3
  <2>2. CASE u # r.user
    <3>1. S' = S
      BY <1>1, <1>3, <2>2 DEF Unsettled, SameTerms
    <3> QED
      BY <2>2, <3>1
  <2> QED
    BY <2>1, <2>2
<1>10. SumOver(Uncredited(u)', Amt)
        = IF u = r.to THEN SumOver(Uncredited(u), Amt) + r.amt ELSE SumOver(Uncredited(u), Amt)
  <2> DEFINE S == Uncredited(u)
  <2>1. CASE u = r.to
    <3>1. S' = S \cup {r.tx} /\ r.tx \notin S
      BY <1>1, <1>2, <1>3, <1>4, <2>1 DEF Uncredited, SameTerms
    <3>2. IsFiniteSet(S) /\ \A t \in S : Amt[t] \in Nat
      BY SumFacts
    <3>3. SumOver(S \cup {r.tx}, Amt) = SumOver(S, Amt) + Amt[r.tx]
      <4> HIDE DEF S
      <4> QED
        BY <1>1, <1>5, <3>1, <3>2, SumAdd
    <3> QED
      BY <1>5, <2>1, <3>1, <3>3
  <2>2. CASE u # r.to
    <3>1. S' = S
      BY <1>1, <1>3, <2>2 DEF Uncredited, SameTerms
    <3> QED
      BY <2>2, <3>1
  <2> QED
    BY <2>1, <2>2
<1>11. /\ UNCHANGED <<balances, refunds, bankRefunds>> /\ r.amt \in Int /\ r.to # r.user
  BY <1>1, <1>2, <1>3
<1> HIDE DEF r
<1>12. MirrorOf(u)'
       <=> acct'[u] + SumOver(Unsettled(u)', Amt) + SumOver(PaymentsOf(u), refunds)
           = balances[u].available + balances[u].pendingOut
             + SumOver(Uncredited(u)', Amt) + SumOver(PaymentsOf(u), bankRefunds)
  BY <1>5, <1>6, <1>11 DEF MirrorOf
<1>13. CASE u = r.user
  BY <1>7, <1>8, <1>9, <1>10, <1>11, <1>12, <1>13, MirrorShift
<1>14. CASE u = r.to
  BY <1>7, <1>8, <1>9, <1>10, <1>11, <1>12, <1>14, MirrorShift
<1>15. CASE u # r.user /\ u # r.to
  BY <1>7, <1>8, <1>9, <1>10, <1>12, <1>15 DEF MirrorOf
<1> QED
  BY <1>13, <1>14, <1>15

LEMMA CompensateMirror ==
    ASSUME BInv, PendingOutExact, MirrorExplained, NEW p \in Handlers, Compensate(p)
    PROVE  MirrorExplained'
<1> DEFINE r == proc[p]
<1>1. /\ r.pc \in Unfinished
      /\ txns'[r.tx].status = IF Settle(p) THEN "succeeded" ELSE "failed"
      /\ SameTerms(r, txns[r.tx]) /\ SameTerms(r, txns'[r.tx])
      /\ txns[r.tx].status = "pending"
      /\ \A o \in TxIds \ {r.tx} : txns'[o] = txns[o]
      /\ Used' = Used /\ \A o \in Used : Amt'[o] = Amt[o]
      /\ UNCHANGED <<acct, applied, refunds, bankRefunds, resynced>>
  BY EndedRows
<1>2. UNCHANGED receipts /\ ~Settle(p)
  BY DEF Compensate, Settle
<1>3. /\ r.user \in Users /\ r.amt \in Nat /\ balances[r.user] \in SagaRow
      /\ Floor0(balances[r.user].pendingOut - r.amt) = balances[r.user].pendingOut - r.amt
  BY <1>1, EndFacts
<1> SUFFICES ASSUME NEW u \in Users \ resynced
             PROVE  MirrorOf(u)'
  BY <1>1 DEF MirrorExplained, MirrorOf
<1>4. applied \subseteq TxIds /\ Used \subseteq TxIds
  BY DEF BInv, IInv, TypeOK, Used
<1>5. /\ PaymentsOf(u)' = PaymentsOf(u)
      /\ Unsettled(u)' = Unsettled(u)
      /\ Uncredited(u)' = Uncredited(u)
  <2>1. \A t \in TxIds : /\ txns'[t].user = txns[t].user /\ txns'[t].to = txns[t].to
                         /\ txns'[t].status = "succeeded" <=> txns[t].status = "succeeded"
    BY <1>1, <1>2 DEF SameTerms
  <2> QED
    BY <1>1, <1>2, <1>4, <2>1 DEF PaymentsOf, Unsettled, Uncredited
<1>6. /\ SumOver(Unsettled(u), Amt') = SumOver(Unsettled(u), Amt)
      /\ SumOver(Uncredited(u), Amt') = SumOver(Uncredited(u), Amt)
  <2>1. Unsettled(u) \in SUBSET Used /\ Uncredited(u) \in SUBSET Used
    BY SumFacts
  <2>2. /\ \A o \in Unsettled(u) : Amt'[o] = Amt[o]
        /\ \A o \in Uncredited(u) : Amt'[o] = Amt[o]
    BY <1>1, <2>1
  <2> QED
    BY <2>2, SumSame
<1>7. balances'[u].available + balances'[u].pendingOut = balances[u].available + balances[u].pendingOut
      /\ balances'[u].available \in Int /\ balances'[u].pendingOut \in Int
  <2>1. balances' = [balances EXCEPT ![r.user] = DebitReversed(balances[r.user], r.amt)]
    BY DEF Compensate
  <2>2. balances[u].available \in Int /\ balances[u].pendingOut \in Int /\ balances[u] \in SagaRow
    BY MirrorTerms
  <2>3. CASE u = r.user
    <3>1. balances'[u] = DebitReversed(balances[u], r.amt)
      BY <2>1, <2>3 DEF BInv, IInv, TypeOK
    <3>2. /\ balances'[u].available = balances[u].available + r.amt
          /\ balances'[u].pendingOut = balances[u].pendingOut - r.amt
      BY <1>3, <2>2, <2>3, <3>1, Purses, PendingOuts
    <3> QED
      BY <1>3, <2>2, <3>2
  <2>4. CASE u # r.user
    BY <2>1, <2>2, <2>4 DEF BInv, IInv, TypeOK
  <2> QED
    BY <2>3, <2>4
<1>8. MirrorOf(u)
  BY DEF MirrorExplained, MirrorOf
<1> QED
  BY <1>1, <1>5, <1>6, <1>7, <1>8, MirrorTerms DEF MirrorOf

\* The settlement catches up with the bank on both sides.
LEMMA SettleMirror ==
    ASSUME BInv, PendingOutExact, MirrorExplained, NEW p \in Handlers, Settle(p)
    PROVE  MirrorExplained'
<1> DEFINE r == proc[p]
<1>1. /\ r.pc \in Unfinished
      /\ txns'[r.tx].status = IF Settle(p) THEN "succeeded" ELSE "failed"
      /\ SameTerms(r, txns[r.tx]) /\ SameTerms(r, txns'[r.tx])
      /\ txns[r.tx].status = "pending"
      /\ \A o \in TxIds \ {r.tx} : txns'[o] = txns[o]
      /\ Used' = Used /\ \A o \in Used : Amt'[o] = Amt[o]
      /\ UNCHANGED <<acct, applied, refunds, bankRefunds, resynced>>
  BY EndedRows
<1>2. r.tx \in Used /\ Amt[r.tx] = r.amt /\ r.user \in Users /\ r.amt \in Nat /\ r.amt \in Int
  BY <1>1, EndFacts
<1>3. r.tx \in applied
  BY DEF Settle, BInv, IInv, HandlersOwnRows, RowOfHandler
<1>4. applied \subseteq TxIds /\ Used \subseteq TxIds
  BY DEF BInv, IInv, TypeOK, Used
<1>5. receipts[r.tx] = 0
  BY <1>1, <1>3, <1>4 DEF BInv, IInv, BothLegs
<1>6. receipts' = IF r.to \in Users THEN [receipts EXCEPT ![r.tx] = 1] ELSE receipts
  BY <1>5 DEF Settle
<1> SUFFICES ASSUME NEW u \in Users \ resynced
             PROVE  MirrorOf(u)'
  BY <1>1 DEF MirrorExplained, MirrorOf
<1>7. PaymentsOf(u)' = PaymentsOf(u)
  BY <1>1, <1>4 DEF PaymentsOf, SameTerms
<1>8. /\ r.to # r.user
      /\ balances'[u].pendingOut
           = IF u = r.user THEN balances[u].pendingOut - r.amt ELSE balances[u].pendingOut
      /\ balances'[u].available
           = IF u = r.to THEN balances[u].available + r.amt ELSE balances[u].available
  BY SettledColumns
<1>9. SumOver(Unsettled(u)', Amt')
        = IF u = r.user THEN SumOver(Unsettled(u), Amt) - r.amt ELSE SumOver(Unsettled(u), Amt)
  <2> DEFINE S == Unsettled(u)
  <2>1. S \in SUBSET Used /\ IsFiniteSet(S) /\ \A t \in S : Amt[t] \in Nat
    BY SumFacts
  <2>2. CASE u = r.user
    <3>1. S' = S \ {r.tx} /\ r.tx \in S
      BY <1>1, <1>3, <1>4, <2>2 DEF Unsettled, SameTerms
    <3>2. SumOver(S', Amt') = SumOver(S \ {r.tx}, Amt)
      <4>1. \A t \in S \ {r.tx} : Amt'[t] = Amt[t]
        BY <1>1, <2>1
      <4>2. SumOver(S \ {r.tx}, Amt') = SumOver(S \ {r.tx}, Amt)
        BY <4>1, SumSame
      <4> QED
        BY <3>1, <4>2
    <3>3. SumOver(S \ {r.tx}, Amt) \in Nat /\ SumOver(S, Amt) = SumOver(S \ {r.tx}, Amt) + Amt[r.tx]
      <4> HIDE DEF S
      <4> QED
        BY <2>1, <3>1, SumRemove
    <3> QED
      BY <1>2, <2>2, <3>2, <3>3
  <2>3. CASE u # r.user
    <3>1. S' = S
      BY <1>1, <1>4, <2>3 DEF Unsettled, SameTerms
    <3>2. \A t \in S : Amt'[t] = Amt[t]
      BY <1>1, <2>1
    <3>3. SumOver(S, Amt') = SumOver(S, Amt)
      BY <3>2, SumSame
    <3> QED
      BY <2>3, <3>1, <3>3
  <2> QED
    BY <2>2, <2>3
<1>10. SumOver(Uncredited(u)', Amt')
        = IF u = r.to THEN SumOver(Uncredited(u), Amt) - r.amt ELSE SumOver(Uncredited(u), Amt)
  <2> DEFINE S == Uncredited(u)
  <2>1. S \in SUBSET Used /\ IsFiniteSet(S) /\ \A t \in S : Amt[t] \in Nat
    BY SumFacts
  <2>2. receipts \in [TxIds -> Nat]
    BY DEF BInv, IInv, TypeOK
  <2>3. CASE u = r.to
    <3>1. receipts'[r.tx] = 1 /\ \A t \in TxIds \ {r.tx} : receipts'[t] = receipts[t]
      BY <1>3, <1>4, <1>6, <2>2, <2>3
    <3>2. S' = S \ {r.tx} /\ r.tx \in S
      BY <1>1, <1>3, <1>4, <1>5, <2>3, <3>1 DEF Uncredited, SameTerms
    <3>3. SumOver(S', Amt') = SumOver(S \ {r.tx}, Amt)
      <4>1. \A t \in S \ {r.tx} : Amt'[t] = Amt[t]
        BY <1>1, <2>1
      <4>2. SumOver(S \ {r.tx}, Amt') = SumOver(S \ {r.tx}, Amt)
        BY <4>1, SumSame
      <4> QED
        BY <3>2, <4>2
    <3>4. SumOver(S \ {r.tx}, Amt) \in Nat /\ SumOver(S, Amt) = SumOver(S \ {r.tx}, Amt) + Amt[r.tx]
      <4> HIDE DEF S
      <4> QED
        BY <2>1, <3>2, SumRemove
    <3> QED
      BY <1>2, <2>3, <3>3, <3>4
  <2>4. CASE u # r.to
    <3>1. \A t \in TxIds \ {r.tx} : receipts'[t] = receipts[t]
      BY <1>3, <1>4, <1>6, <2>2
    <3>2. S' = S
      BY <1>1, <1>4, <2>4, <3>1 DEF Uncredited, SameTerms
    <3>3. \A t \in S : Amt'[t] = Amt[t]
      BY <1>1, <2>1
    <3>4. SumOver(S, Amt') = SumOver(S, Amt)
      BY <3>3, SumSame
    <3> QED
      BY <2>4, <3>2, <3>4
  <2> QED
    BY <2>3, <2>4
<1>11. MirrorOf(u)
  BY DEF MirrorExplained, MirrorOf
<1>12. UNCHANGED <<acct, refunds, bankRefunds>>
  BY <1>1
<1> HIDE DEF r
<1>13. MirrorOf(u)'
       <=> acct[u] + SumOver(Unsettled(u)', Amt') + SumOver(PaymentsOf(u), refunds)
           = balances'[u].available + balances'[u].pendingOut
             + SumOver(Uncredited(u)', Amt') + SumOver(PaymentsOf(u), bankRefunds)
  BY <1>7, <1>12 DEF MirrorOf
<1>14. CASE u = r.user
  BY <1>2, <1>8, <1>9, <1>10, <1>11, <1>13, <1>14, MirrorShift
<1>15. CASE u = r.to
  BY <1>2, <1>8, <1>9, <1>10, <1>11, <1>13, <1>15, MirrorShift
<1>16. CASE u # r.user /\ u # r.to
  BY <1>8, <1>9, <1>10, <1>11, <1>13, <1>16 DEF MirrorOf
<1> QED
  BY <1>14, <1>15, <1>16

\* The bank pays a refund back, or the mirror credits it.
LEMMA RefundMirror ==
    ASSUME BInv, MirrorExplained, NEW p \in Handlers,
           (RefundAtBank(p) /\ BankPaysBack(proc[p])) \/ RefundCredit(p)
    PROVE  MirrorExplained'
<1> DEFINE r == proc[p]
<1>0. r \in Refunding
  BY Shapes DEF RefundAtBank, RefundCredit, BInv, IInv
<1>0a. r.tx \in TxIds /\ r.user \in Users /\ r.amt \in Nat
  BY <1>0, SagaConstants DEF Refunding, SagaConstants
<1>1. r.tx \in TxIds /\ r.user \in Users /\ r.amt \in Nat /\ r.amt \in Int
  BY <1>0a
<1>2. txns[r.tx].status = "succeeded" /\ txns[r.tx].user = r.user /\ r.tx \in PaymentsOf(r.user)
  BY <1>1 DEF RefundAtBank, RefundCredit, BInv, IInv, HandlersOwnRows, RowOfHandler, PaymentsOf, Used
<1>3. UNCHANGED <<txns, receipts, applied, resynced>>
  BY DEF RefundAtBank, RefundCredit, rows, bankVars, history
<1> SUFFICES ASSUME NEW u \in Users \ resynced
             PROVE  MirrorOf(u)'
  BY <1>3 DEF MirrorExplained, MirrorOf
<1> DEFINE P == PaymentsOf(u)
<1>4. /\ P' = P /\ Unsettled(u)' = Unsettled(u) /\ Uncredited(u)' = Uncredited(u) /\ Amt' = Amt
  BY <1>3 DEF PaymentsOf, Unsettled, Uncredited, Amt, Used
<1>5. MirrorOf(u)
  BY DEF MirrorExplained, MirrorOf
<1>6. IsFiniteSet(P) /\ \A t \in P : t \in TxIds /\ refunds[t] \in Nat /\ bankRefunds[t] \in Nat
  BY SumFacts
<1>7. \A t \in P : t = r.tx => u = r.user
  BY <1>2 DEF PaymentsOf
<1>8. CASE RefundAtBank(p) /\ BankPaysBack(r)
  <2>1. /\ UNCHANGED <<balances, refunds>>
        /\ bankRefunds' = [bankRefunds EXCEPT ![r.tx] = bankRefunds[r.tx] + r.amt]
    BY <1>8 DEF RefundAtBank, BankPaysBack, rows
  <2>2. acct'[u] = IF u = r.user THEN acct[u] + r.amt ELSE acct[u]
    <3> DEFINE mid == [acct EXCEPT ![Pool] = acct[Pool] - r.amt]
    <3>1. u # Pool /\ r.user # Pool /\ DOMAIN acct = Users \cup {Pool}
      BY <1>1, SagaConstants DEF SagaConstants, BInv, IInv, TypeOK
    <3>2. acct' = [mid EXCEPT ![r.user] = mid[r.user] + r.amt] /\ DOMAIN mid = Users \cup {Pool}
      BY <1>8, <3>1 DEF BankPaysBack
    <3>3. mid[u] = acct[u] /\ mid[r.user] = acct[r.user]
      BY <1>1, <3>1
    <3> HIDE DEF mid
    <3> QED
      BY <1>1, <3>1, <3>2, <3>3
  <2>3. bankRefunds \in [TxIds -> Nat]
    BY DEF BInv, IInv, TypeOK
  <2>4. SumOver(P, bankRefunds')
          = IF u = r.user THEN SumOver(P, bankRefunds) + r.amt ELSE SumOver(P, bankRefunds)
    <3>1. CASE u = r.user
      <4>1. /\ r.tx \in P /\ bankRefunds'[r.tx] = bankRefunds[r.tx] + r.amt
            /\ \A t \in P \ {r.tx} : bankRefunds'[t] = bankRefunds[t]
        BY <1>1, <1>2, <1>6, <2>1, <2>3, <3>1
      <4>2. SumOver(P, bankRefunds') = SumOver(P, bankRefunds) + r.amt
        <5> HIDE DEF P
        <5> QED
          BY <1>1, <1>6, <4>1, SumChange
      <4> QED
        BY <3>1, <4>2
    <3>2. CASE u # r.user
      <4>1. \A t \in P : bankRefunds'[t] = bankRefunds[t]
        BY <1>6, <1>7, <2>1, <2>3, <3>2
      <4>2. SumOver(P, bankRefunds') = SumOver(P, bankRefunds)
        BY <4>1, SumSame
      <4> QED
        BY <3>2, <4>2
    <3> QED
      BY <3>1, <3>2
  <2>5. MirrorOf(u)'
        <=> acct'[u] + SumOver(Unsettled(u), Amt) + SumOver(P, refunds)
            = balances[u].available + balances[u].pendingOut
              + SumOver(Uncredited(u), Amt) + SumOver(P, bankRefunds')
    BY <1>4, <2>1 DEF MirrorOf
  <2> HIDE DEF r
  <2>6. CASE u = r.user
    BY <1>1, <1>5, <2>2, <2>4, <2>5, <2>6, MirrorShift
  <2>7. CASE u # r.user
    BY <1>5, <2>2, <2>4, <2>5, <2>7 DEF MirrorOf
  <2> QED
    BY <2>6, <2>7
<1>9. CASE RefundCredit(p)
  <2>1. /\ UNCHANGED <<acct, bankRefunds>>
        /\ refunds' = [refunds EXCEPT ![r.tx] = refunds[r.tx] + r.amt]
        /\ balances' = [balances EXCEPT ![r.user] = Credited(balances[r.user], r.amt)]
    BY <1>9 DEF RefundCredit, bankVars
  <2>2. refunds \in [TxIds -> Nat] /\ balances \in [Users -> SagaRow] /\ balances[u] \in SagaRow
    BY DEF BInv, IInv, TypeOK
  <2>3. /\ balances'[u].pendingOut = balances[u].pendingOut
        /\ balances'[u].available
             = IF u = r.user THEN balances[u].available + r.amt ELSE balances[u].available
    <3>1. CASE u = r.user
      <4>1. balances'[u] = Credited(balances[u], r.amt)
        BY <2>1, <2>2, <3>1
      <4> QED
        BY <1>1, <2>2, <3>1, <4>1, Purses, PendingOuts
    <3>2. CASE u # r.user
      BY <2>1, <2>2, <3>2
    <3> QED
      BY <3>1, <3>2
  <2>4. SumOver(P, refunds')
          = IF u = r.user THEN SumOver(P, refunds) + r.amt ELSE SumOver(P, refunds)
    <3>1. CASE u = r.user
      <4>1. /\ r.tx \in P /\ refunds'[r.tx] = refunds[r.tx] + r.amt
            /\ \A t \in P \ {r.tx} : refunds'[t] = refunds[t]
        BY <1>1, <1>2, <1>6, <2>1, <2>2, <3>1
      <4>2. SumOver(P, refunds') = SumOver(P, refunds) + r.amt
        <5> HIDE DEF P
        <5> QED
          BY <1>1, <1>6, <4>1, SumChange
      <4> QED
        BY <3>1, <4>2
    <3>2. CASE u # r.user
      <4>1. \A t \in P : refunds'[t] = refunds[t]
        BY <1>6, <1>7, <2>1, <2>2, <3>2
      <4>2. SumOver(P, refunds') = SumOver(P, refunds)
        BY <4>1, SumSame
      <4> QED
        BY <3>2, <4>2
    <3> QED
      BY <3>1, <3>2
  <2>5. MirrorOf(u)'
        <=> acct[u] + SumOver(Unsettled(u), Amt) + SumOver(P, refunds')
            = balances'[u].available + balances'[u].pendingOut
              + SumOver(Uncredited(u), Amt) + SumOver(P, bankRefunds)
    BY <1>4, <2>1 DEF MirrorOf
  <2> HIDE DEF r
  <2>6. CASE u = r.user
    BY <1>1, <1>5, <2>3, <2>4, <2>5, <2>6, MirrorShift
  <2>7. CASE u # r.user
    BY <1>5, <2>3, <2>4, <2>5, <2>7 DEF MirrorOf
  <2> QED
    BY <2>6, <2>7
<1> QED
  BY <1>8, <1>9

\* The other writes to a balance: a refresh, after which the wallet is out of
\* the equation, and the freeze flag.
LEMMA OtherMirror ==
    ASSUME BInv, MirrorExplained,
           \/ \E p \in Handlers : RefreshWrite(p)
           \/ \E u \in Freezable, f \in BOOLEAN : SetFrozen(u, f)
    PROVE  MirrorExplained'
<1>1. UNCHANGED <<txns, receipts, refunds, acct, applied, bankRefunds>> /\ resynced \subseteq resynced'
  BY DEF RefreshWrite, SetFrozen, rows, bankVars, history
<1>2. \A w \in Users \ resynced' : /\ balances'[w].available = balances[w].available
                                   /\ balances'[w].pendingOut = balances[w].pendingOut
  <2>1. ASSUME NEW p \in Handlers, RefreshWrite(p), NEW w \in Users \ resynced'
        PROVE  balances'[w] = balances[w]
    <3>1. w # proc[p].user
      BY <2>1 DEF RefreshWrite
    <3> QED
      BY <2>1, <3>1 DEF RefreshWrite, BInv, IInv, TypeOK
  <2>2. ASSUME NEW u \in Freezable, NEW f \in BOOLEAN, SetFrozen(u, f), NEW w \in Users
        PROVE  /\ balances'[w].available = balances[w].available
               /\ balances'[w].pendingOut = balances[w].pendingOut
    <3>1. u \in Users
      BY SagaConstants DEF SagaConstants
    <3>2. balances' = [balances EXCEPT ![u] = [balances[u] EXCEPT !.frozen = f]]
      BY <2>2 DEF SetFrozen
    <3>3. /\ [balances[u] EXCEPT !.frozen = f].pendingOut = balances[u].pendingOut
          /\ [balances[u] EXCEPT !.frozen = f].available = balances[u].available
      BY <3>1, PendingOuts, Purses DEF BInv, IInv, TypeOK
    <3> QED
      BY <3>1, <3>2, <3>3 DEF BInv, IInv, TypeOK
  <2> QED
    BY <2>1, <2>2
<1> QED
  BY <1>1, <1>2, MirrorKept

LEMMA InitMirror == Init => MirrorExplained
<1> SUFFICES ASSUME Init, NEW u \in Users
             PROVE  MirrorOf(u)
  BY DEF MirrorExplained, MirrorOf
<1>1. PaymentsOf(u) = {} /\ Unsettled(u) = {} /\ Uncredited(u) = {}
  BY DEF Init, PaymentsOf, Unsettled, Uncredited, Used, FreeRow
<1>2. /\ acct[u] = Opening /\ balances[u].available = Opening /\ balances[u].pendingOut = 0
      /\ Opening \in Int
  BY SagaConstants DEF Init, SagaConstants
<1>3. /\ SumOver({}, Amt) = 0 /\ SumOver({}, refunds) = 0 /\ SumOver({}, bankRefunds) = 0
  BY SumEmpty
<1> QED
  BY <1>1, <1>2, <1>3 DEF MirrorOf

LEMMA NextMirror == BInv /\ PendingOutExact /\ MirrorExplained /\ [Next]_vars => MirrorExplained'
<1> SUFFICES ASSUME BInv, PendingOutExact, MirrorExplained, [Next]_vars
             PROVE  MirrorExplained'
  OBVIOUS
<1>1. CASE UNCHANGED <<balances, txns, receipts, refunds, acct, applied, bankRefunds, resynced>>
  BY <1>1, MirrorKept
<1>2. ASSUME NEW p \in Handlers,
             Debit(p) \/ Settle(p) \/ Compensate(p) \/ RefundCredit(p)
      PROVE  MirrorExplained'
  BY <1>2, DebitMirror, SettleMirror, CompensateMirror, RefundMirror
<1>3. ASSUME NEW p \in Handlers, Transfer(p), ~BankMoves(proc[p])
      PROVE  UNCHANGED <<balances, txns, receipts, refunds, acct, applied, bankRefunds, resynced>>
  BY <1>3 DEF Transfer, rows, history
<1>4. ASSUME NEW p \in Handlers, RefundAtBank(p), ~BankPaysBack(proc[p])
      PROVE  UNCHANGED <<balances, txns, receipts, refunds, acct, applied, bankRefunds, resynced>>
  BY <1>4 DEF RefundAtBank, rows, history
<1>5. ASSUME NEW p \in Handlers, Transfer(p) \/ RefundAtBank(p)
      PROVE  MirrorExplained'
  BY <1>1, <1>3, <1>4, <1>5, TransferMirror, RefundMirror
<1>6. ASSUME NEW p \in Handlers,
             \/ \E u \in Users, a \in Amounts, k \in Keys : Send(p, u, a, k) \/ MerchantDebit(p, u, a, k)
             \/ \E t \in TxIds, a \in Amounts : Refund(p, t, a)
             \/ \E u \in Users : RefreshRead(p, u)
             \/ Check(p) \/ Record(p) \/ Abort(p)
      PROVE  UNCHANGED <<balances, txns, receipts, refunds, acct, applied, bankRefunds, resynced>>
  BY <1>6 DEF Send, MerchantDebit, SagaCall, Refund, RefreshRead, Check, Record, Abort,
     rows, bankVars, history
<1>7. ASSUME (\E k \in Keys : ExpireKey(k)) \/ UNCHANGED vars
      PROVE  UNCHANGED <<balances, txns, receipts, refunds, acct, applied, bankRefunds, resynced>>
  BY <1>7 DEF ExpireKey, vars, rows, bankVars, history
<1> QED
  BY <1>1, <1>2, <1>5, <1>6, <1>7, OtherMirror DEF Next, HandlerStep

---------------------------------------------------------------------------
(* Refunds: what the mirror credits, the bank has paid.                    *)

CreditsOn(t) == {p \in Crediting : proc[p].tx = t}
InFlight == [p \in Crediting |-> proc[p].amt]
RefundsPaidByBank ==
    \A t \in TxIds : refunds[t] + SumOver(CreditsOn(t), InFlight) <= bankRefunds[t]

LEMMA FlightFacts ==
    ASSUME BInv, NEW t
    PROVE  /\ IsFiniteSet(CreditsOn(t)) /\ CreditsOn(t) \subseteq Crediting
           /\ \A p \in Crediting : InFlight[p] = proc[p].amt /\ InFlight[p] \in Nat
           /\ SumOver(CreditsOn(t), InFlight) \in Nat
           /\ \A o \in TxIds : refunds[o] \in Nat /\ bankRefunds[o] \in Nat
<1>1. IsFiniteSet(CreditsOn(t)) /\ CreditsOn(t) \subseteq Crediting
  BY FS_Subset DEF BInv, Books, FiniteBooks, CreditsOn
<1>2. ASSUME NEW p \in Crediting
      PROVE  InFlight[p] = proc[p].amt /\ InFlight[p] \in Nat
  <2>1. proc[p] \in Refunding
    BY Shapes DEF BInv, IInv, Crediting
  <2> QED
    BY <2>1, SagaConstants DEF InFlight, Refunding, SagaConstants
<1>3. \A p \in CreditsOn(t) : InFlight[p] \in Nat
  BY <1>1, <1>2
<1>4. SumOver(CreditsOn(t), InFlight) \in Nat
  BY <1>1, <1>3, SumFinite
<1>5. \A o \in TxIds : refunds[o] \in Nat /\ bankRefunds[o] \in Nat
  BY DEF BInv, IInv, TypeOK
<1> QED
  BY <1>1, <1>2, <1>4, <1>5

\* A step of a handler that credits nothing before or after it.
LEMMA FlightKept ==
    ASSUME RefundsPaidByBank, UNCHANGED <<refunds, bankRefunds>>,
           \A p \in Handlers : \/ proc'[p] = proc[p]
                               \/ proc[p].pc # "credit" /\ proc'[p].pc # "credit"
    PROVE  RefundsPaidByBank'
<1>1. Crediting' = Crediting /\ \A p \in Crediting : proc'[p] = proc[p]
  BY DEF Crediting
<1>2. InFlight' = InFlight /\ \A t \in TxIds : CreditsOn(t)' = CreditsOn(t)
  BY <1>1 DEF InFlight, CreditsOn
<1> QED
  BY <1>2 DEF RefundsPaidByBank

\* The bank pays, and the handler goes on to the credit or has lost the reply.
LEMMA PaidBackFlight ==
    ASSUME BInv, RefundsPaidByBank, NEW p \in Handlers, RefundAtBank(p)
    PROVE  RefundsPaidByBank'
<1> DEFINE r == proc[p]
<1>1. r \in Refunding /\ r.pc # "credit" /\ p \notin Crediting
  BY Shapes DEF RefundAtBank, BInv, IInv, Crediting
<1>2. r.tx \in TxIds /\ r.amt \in Nat
  BY <1>1, SagaConstants DEF Refunding, SagaConstants
<1>3. UNCHANGED refunds /\ \A q \in Handlers \ {p} : proc'[q] = proc[q]
  BY ProcFacts DEF RefundAtBank, rows, BInv, IInv
<1>4. bankRefunds \in [TxIds -> Nat]
  BY DEF BInv, IInv, TypeOK
<1> SUFFICES ASSUME NEW t \in TxIds
             PROVE  refunds[t] + SumOver(CreditsOn(t)', InFlight') <= bankRefunds'[t]
  BY <1>3 DEF RefundsPaidByBank
<1> DEFINE S == CreditsOn(t)
<1>5. /\ S \subseteq Crediting /\ IsFiniteSet(S) /\ SumOver(S, InFlight) \in Nat
      /\ \A q \in S : InFlight[q] = proc[q].amt /\ InFlight[q] \in Nat
      /\ refunds[t] \in Nat /\ bankRefunds[t] \in Nat
  BY FlightFacts
<1>6. refunds[t] + SumOver(S, InFlight) <= bankRefunds[t]
  BY DEF RefundsPaidByBank
<1>7. ASSUME Return(p)
      PROVE  Crediting' = Crediting /\ CreditsOn(t)' = S /\ InFlight' = InFlight
  <2>1. Crediting' = Crediting
    BY <1>1, <1>3, <1>7, ProcFacts DEF Crediting, BInv, IInv
  <2> QED
    BY <1>1, <1>3, <2>1 DEF CreditsOn, InFlight, Crediting
<1>8. CASE Return(p) /\ BankPaysBack(r)
  <2>1. bankRefunds'[t] = bankRefunds[t] \/ bankRefunds'[t] = bankRefunds[t] + r.amt
    BY <1>2, <1>4, <1>8 DEF BankPaysBack
  <2> QED
    BY <1>2, <1>5, <1>6, <1>7, <1>8, <2>1
<1>9. CASE Return(p) /\ UNCHANGED bankRefunds
  BY <1>6, <1>7, <1>9
<1>10. CASE Goto(p, "credit") /\ BankPaysBack(r)
  <2>1. proc'[p].pc = "credit" /\ proc'[p].tx = r.tx /\ proc'[p].amt = r.amt
    BY <1>1, <1>10, HoldingGoto DEF BInv, IInv
  <2>2. Crediting' = Crediting \cup {p}
    BY <1>3, <2>1 DEF Crediting
  <2>3. InFlight'[p] = r.amt /\ \A q \in S : InFlight'[q] = InFlight[q]
    BY <1>1, <1>3, <1>5, <2>1, <2>2 DEF InFlight, Crediting
  <2>4. SumOver(S, InFlight') = SumOver(S, InFlight)
    BY <2>3, SumSame
  <2>5. CASE r.tx = t
    <3>1. CreditsOn(t)' = S \cup {p}
      BY <1>1, <1>3, <2>1, <2>2, <2>5 DEF CreditsOn, Crediting
    <3>2. p \notin S /\ InFlight'[p] \in Nat /\ \A q \in S : InFlight'[q] \in Nat
      BY <1>1, <1>2, <1>5, <2>3
    <3>3. SumOver(S \cup {p}, InFlight') = SumOver(S, InFlight') + InFlight'[p]
      <4> HIDE DEF S
      <4> QED
        BY <1>5, <3>2, SumAdd
    <3>4. bankRefunds'[t] = bankRefunds[t] + r.amt
      BY <1>2, <1>4, <1>10, <2>5 DEF BankPaysBack
    <3>5. SumOver(CreditsOn(t)', InFlight') = SumOver(S, InFlight) + r.amt
      BY <2>3, <2>4, <3>1, <3>3
    <3> HIDE DEF S, r
    <3> QED
      BY <1>2, <1>5, <1>6, <3>4, <3>5
  <2>6. CASE r.tx # t
    <3>1. CreditsOn(t)' = S
      BY <1>1, <1>3, <2>1, <2>2, <2>6 DEF CreditsOn, Crediting
    <3>2. bankRefunds'[t] = bankRefunds[t]
      BY <1>2, <1>4, <1>10, <2>6 DEF BankPaysBack
    <3> QED
      BY <1>6, <2>4, <3>1, <3>2
  <2> QED
    BY <2>5, <2>6
<1> QED
  BY <1>8, <1>9, <1>10 DEF RefundAtBank

\* The credit lands, or the handler is lost between the bank and the credit.
LEMMA CreditFlight ==
    ASSUME BInv, RefundsPaidByBank, NEW p \in Handlers,
           RefundCredit(p) \/ (Abort(p) /\ proc[p].pc = "credit")
    PROVE  RefundsPaidByBank'
<1> DEFINE r == proc[p]
<1>1. r \in Refunding /\ p \in Crediting
  BY Shapes DEF RefundCredit, BInv, IInv, Crediting
<1>2. r.tx \in TxIds /\ r.amt \in Nat
  BY <1>1, SagaConstants DEF Refunding, SagaConstants
<1>3. /\ UNCHANGED bankRefunds
      /\ proc'[p].pc = "idle" /\ \A q \in Handlers \ {p} : proc'[q] = proc[q]
  BY ProcFacts DEF RefundCredit, Abort, bankVars, BInv, IInv
<1>4. Crediting' = Crediting \ {p}
  BY <1>3 DEF Crediting
<1>5. refunds \in [TxIds -> Nat]
  BY DEF BInv, IInv, TypeOK
<1> SUFFICES ASSUME NEW t \in TxIds
             PROVE  refunds'[t] + SumOver(CreditsOn(t)', InFlight') <= bankRefunds[t]
  BY <1>3 DEF RefundsPaidByBank
<1> DEFINE S == CreditsOn(t)
<1>6. /\ S \subseteq Crediting /\ IsFiniteSet(S) /\ SumOver(S, InFlight) \in Nat
      /\ \A q \in S : InFlight[q] = proc[q].amt /\ InFlight[q] \in Nat
      /\ refunds[t] \in Nat /\ bankRefunds[t] \in Nat
  BY FlightFacts
<1>7. refunds[t] + SumOver(S, InFlight) <= bankRefunds[t]
  BY DEF RefundsPaidByBank
<1>8. \A q \in Crediting \ {p} : InFlight'[q] = InFlight[q]
  BY <1>3, <1>4 DEF InFlight, Crediting
<1>9. CASE r.tx = t
  <2>1. CreditsOn(t)' = S \ {p} /\ p \in S
    BY <1>1, <1>3, <1>4, <1>9 DEF CreditsOn, Crediting
  <2>2. SumOver(S \ {p}, InFlight') = SumOver(S \ {p}, InFlight)
    BY <1>6, <1>8, SumSame
  <2>3. SumOver(S \ {p}, InFlight) \in Nat /\ SumOver(S, InFlight) = SumOver(S \ {p}, InFlight) + InFlight[p]
    <3> HIDE DEF S
    <3> QED
      BY <1>6, <2>1, SumRemove
  <2>4. refunds'[t] = refunds[t] \/ refunds'[t] = refunds[t] + r.amt
    BY <1>5, <1>9 DEF RefundCredit, Abort, rows
  <2>5. InFlight[p] = r.amt
    BY <1>6, <2>1
  <2>6. SumOver(CreditsOn(t)', InFlight') = SumOver(S \ {p}, InFlight)
    BY <2>1, <2>2
  <2> DEFINE m == SumOver(S \ {p}, InFlight)
             n == SumOver(S, InFlight)
  <2>7. m \in Nat /\ n = m + r.amt /\ refunds[t] + n <= bankRefunds[t]
    BY <1>7, <2>3, <2>5
  <2> HIDE DEF S, r, m, n
  <2>8. refunds'[t] + m <= bankRefunds[t]
    BY <1>2, <1>6, <2>4, <2>7
  <2> QED
    BY <2>6, <2>8 DEF m
<1>10. CASE r.tx # t
  <2>1. CreditsOn(t)' = S /\ p \notin S
    BY <1>3, <1>4, <1>10 DEF CreditsOn, Crediting
  <2>2. SumOver(S, InFlight') = SumOver(S, InFlight)
    BY <1>6, <1>8, <2>1, SumSame
  <2>3. refunds'[t] = refunds[t]
    BY <1>5, <1>10 DEF RefundCredit, Abort, rows
  <2> QED
    BY <1>7, <2>1, <2>2, <2>3
<1> QED
  BY <1>9, <1>10

\* Every other step of a handler.
LEMMA OtherFlight ==
    ASSUME BInv, RefundsPaidByBank, NEW p \in Handlers,
           \/ \E u \in Users, a \in Amounts, k \in Keys : Send(p, u, a, k) \/ MerchantDebit(p, u, a, k)
           \/ \E t \in TxIds, a \in Amounts : Refund(p, t, a)
           \/ \E u \in Users : RefreshRead(p, u)
           \/ Check(p) \/ Debit(p) \/ Transfer(p) \/ Settle(p) \/ Compensate(p) \/ Record(p)
           \/ RefreshWrite(p)
           \/ Abort(p) /\ proc[p].pc # "credit"
    PROVE  RefundsPaidByBank'
<1>1. UNCHANGED <<refunds, bankRefunds>>
  BY DEF Send, MerchantDebit, SagaCall, Refund, RefreshRead, Check, Debit, Transfer, Settle,
     Compensate, Record, RefreshWrite, Abort, rows, bankVars
<1>2. proc[p].pc # "credit"
  BY DEF Send, MerchantDebit, SagaCall, Refund, RefreshRead, Check, Debit, Transfer, Settle,
     Compensate, Record, RefreshWrite
<1>3. CASE \/ \E u \in Users, a \in Amounts, k \in Keys : Send(p, u, a, k) \/ MerchantDebit(p, u, a, k)
           \/ \E t \in TxIds, a \in Amounts : Refund(p, t, a)
           \/ \E u \in Users : RefreshRead(p, u)
  <2>1. proc'[p].pc # "credit" /\ \A q \in Handlers \ {p} : proc'[q] = proc[q]
    BY <1>3 DEF Send, MerchantDebit, SagaCall, Refund, RefreshRead, BInv, IInv, TypeOK
  <2> QED
    BY <1>1, <1>2, <2>1, FlightKept
<1>4. CASE \E pc \in {"debit", "record", "settle", "compensate"} :
              Goto(p, pc) /\ proc[p] \in Called \cup Holding
  <2>1. proc'[p].pc # "credit" /\ \A q \in Handlers \ {p} : proc'[q] = proc[q]
    BY <1>4, HoldingGoto, ProcFacts DEF BInv, IInv
  <2> QED
    BY <1>1, <1>2, <2>1, FlightKept
<1>5. CASE Return(p)
  <2>1. proc'[p].pc # "credit" /\ \A q \in Handlers \ {p} : proc'[q] = proc[q]
    BY <1>5, ProcFacts DEF BInv, IInv
  <2> QED
    BY <1>1, <1>2, <2>1, FlightKept
<1>6. CASE \E t \in TxIds : DebitIn(p, t) /\ proc[p] \in Called
  <2>1. proc'[p].pc # "credit" /\ \A q \in Handlers \ {p} : proc'[q] = proc[q]
    BY <1>6 DEF DebitIn, BInv, IInv, TypeOK, Called
  <2> QED
    BY <1>1, <1>2, <2>1, FlightKept
<1>7. ASSUME Check(p) \/ Debit(p) \/ Transfer(p) \/ Settle(p)
      PROVE  proc[p] \in Called \cup Holding /\ (Check(p) \/ Debit(p) => proc[p] \in Called)
  BY <1>7, Shapes DEF Check, Debit, Transfer, Settle, BInv, IInv
<1> QED
  BY <1>3, <1>4, <1>5, <1>6, <1>7 DEF Check, Debit, Transfer, Settle, Compensate, Record,
     RefreshWrite, Abort

LEMMA InitFlight == Init => RefundsPaidByBank
<1> SUFFICES ASSUME Init, NEW t \in TxIds
             PROVE  refunds[t] + SumOver(CreditsOn(t), InFlight) <= bankRefunds[t]
  BY DEF RefundsPaidByBank
<1>1. CreditsOn(t) = {} /\ refunds[t] = 0 /\ bankRefunds[t] = 0
  BY DEF Init, CreditsOn, Crediting, Idle
<1> QED
  BY <1>1, SumEmpty

LEMMA NextFlight == BInv /\ RefundsPaidByBank /\ [Next]_vars => RefundsPaidByBank'
<1> SUFFICES ASSUME BInv, RefundsPaidByBank, [Next]_vars
             PROVE  RefundsPaidByBank'
  OBVIOUS
<1>1. ASSUME NEW p \in Handlers,
             RefundAtBank(p) \/ RefundCredit(p) \/ (Abort(p) /\ proc[p].pc = "credit")
      PROVE  RefundsPaidByBank'
  BY <1>1, PaidBackFlight, CreditFlight
<1>2. CASE UNCHANGED <<refunds, bankRefunds, proc>>
  BY <1>2, FlightKept
<1>3. ASSUME \/ \E u \in Freezable, f \in BOOLEAN : SetFrozen(u, f)
             \/ \E k \in Keys : ExpireKey(k)
             \/ UNCHANGED vars
      PROVE  UNCHANGED <<refunds, bankRefunds, proc>>
  BY <1>3 DEF SetFrozen, ExpireKey, vars, rows, bankVars
<1> QED
  BY <1>1, <1>2, <1>3, OtherFlight DEF Next, HandlerStep

---------------------------------------------------------------------------
(* The theorems about the books.                                           *)

\* A send is written on both sides or on neither: the settlement's transaction
\* is the only one that writes either leg.
THEOREM BothLegsWritten == Spec => []BothLegs
<1>1. IInv => BothLegs
  BY DEF IInv
<1> QED
  BY InitInv, NextInv, <1>1, PTL DEF Spec

\* pending_out_paise is the sum of the wallet's unfinished debits, so no hold
\* is released twice, forgotten, or hidden by a floor.
THEOREM PendingOutExplained == Spec => []PendingOutExact
<1>1. Init => BInv
  BY InitInv, InitBooks DEF BInv
<1> QED
  BY <1>1, NextBooks, InitPending, NextPending, PTL DEF Spec

\* Mirror and bank differ by the movements only one of them has seen, for any
\* number of payments and refunds in flight, crashes and lost replies included.
THEOREM MirrorIsExplained == Spec => []MirrorExplained
<1>1. Init => BInv
  BY InitInv, InitBooks DEF BInv
<1> QED
  BY <1>1, NextBooks, InitPending, NextPending, InitMirror, NextMirror, PTL DEF Spec

\* No wallet is credited with more of a payment than the bank has paid back,
\* the credits in flight included.
THEOREM RefundsArePaid == Spec => []RefundsPaidByBank
<1>1. Init => BInv
  BY InitInv, InitBooks DEF BInv
<1> QED
  BY <1>1, NextBooks, InitFlight, NextFlight, PTL DEF Spec

---------------------------------------------------------------------------
(* Who answers for a pending row.                                          *)

\* A row is pending exactly while a live handler is working on it or, for
\* ever, after the one that was has been aborted: no handler takes an orphan
\* up again, so the hold on the sender's money stays.
PendingAccounted ==
    /\ \A t \in TxIds :
         txns[t].status = "pending" <=> (t \in orphans \/ \E p \in Handlers : HandledBy(p, t))
    /\ \A t \in orphans, p \in Handlers : ~HandledBy(p, t)

\* A step that changes no row, no orphan and nobody's work keeps it.
LEMMA OwnersKept ==
    ASSUME PendingAccounted, UNCHANGED <<txns, orphans>>,
           \A q \in Handlers, t \in TxIds : HandledBy(q, t)' <=> HandledBy(q, t),
           orphans \subseteq TxIds
    PROVE  PendingAccounted'
BY DEF PendingAccounted

\* A handler that is not holding a pending row before nor after its step.
LEMMA IdleOwner ==
    ASSUME PendingAccounted, TypeOK, NEW p \in Handlers, UNCHANGED <<txns, orphans>>,
           \A q \in Handlers \ {p} : proc'[q] = proc[q],
           proc[p].pc \notin Unfinished, proc'[p].pc \notin Unfinished
    PROVE  PendingAccounted'
<1>1. \A q \in Handlers, t \in TxIds : HandledBy(q, t)' <=> HandledBy(q, t)
  BY DEF HandledBy
<1> QED
  BY <1>1, OwnersKept DEF TypeOK

LEMMA IdleOwners ==
    ASSUME PendingAccounted, IInv, NEW p \in Handlers,
           \/ \E u, to, a, k : SagaCall(p, u, to, a, k)
           \/ Check(p) \/ Record(p)
           \/ \E t, a : Refund(p, t, a)
           \/ RefundAtBank(p) \/ RefundCredit(p)
           \/ \E u \in Users : RefreshRead(p, u)
           \/ RefreshWrite(p)
    PROVE  PendingAccounted'
<1>1. ASSUME (\E u, to, a, k : SagaCall(p, u, to, a, k)) \/ (\E t, a : Refund(p, t, a))
             \/ (\E u \in Users : RefreshRead(p, u))
      PROVE  /\ \A q \in Handlers \ {p} : proc'[q] = proc[q]
             /\ proc[p].pc \notin Unfinished /\ proc'[p].pc \notin Unfinished
  BY <1>1 DEF IInv, TypeOK, SagaCall, Refund, RefreshRead, Unfinished
<1>2. ASSUME Check(p) \/ RefundAtBank(p)
      PROVE  /\ \A q \in Handlers \ {p} : proc'[q] = proc[q]
             /\ proc[p].pc \notin Unfinished /\ proc'[p].pc \notin Unfinished
  <2>1. proc[p] \in Called \cup Refunding /\ proc[p].pc \notin Unfinished
    BY <1>2, Shapes DEF IInv, Check, RefundAtBank, Unfinished
  <2>2. Return(p) \/ Goto(p, "debit") \/ Goto(p, "credit")
    BY <1>2 DEF Check, RefundAtBank
  <2>3. ASSUME NEW pc \in {"debit", "credit"}, Goto(p, pc)
        PROVE  proc'[p].pc \notin Unfinished
    BY <2>1, <2>3, HoldingGoto DEF IInv, Unfinished
  <2>4. Return(p) => proc'[p].pc \notin Unfinished
    BY ProcFacts DEF IInv, Unfinished
  <2>5. \A q \in Handlers \ {p} : proc'[q] = proc[q]
    BY <2>2, ProcFacts DEF IInv
  <2> QED
    BY <2>1, <2>2, <2>3, <2>4, <2>5
<1>3. ASSUME Record(p) \/ RefundCredit(p) \/ RefreshWrite(p)
      PROVE  /\ \A q \in Handlers \ {p} : proc'[q] = proc[q]
             /\ proc[p].pc \notin Unfinished /\ proc'[p].pc \notin Unfinished
  BY <1>3, ProcFacts DEF IInv, Record, RefundCredit, RefreshWrite, Unfinished
<1>4. UNCHANGED <<txns, orphans>>
  BY DEF SagaCall, Check, Record, Refund, RefundAtBank, RefundCredit, RefreshRead, RefreshWrite,
         rows, history
<1> QED
  BY <1>1, <1>2, <1>3, <1>4, IdleOwner DEF IInv

\* The debit's transaction writes the row and makes its handler answer for it.
LEMMA DebitOwner ==
    ASSUME PendingAccounted, IInv, NEW p \in Handlers, Debit(p)
    PROVE  PendingAccounted'
<1> DEFINE r == proc[p]
<1>1. r \in Called /\ r.pc \notin Unfinished
  BY Shapes DEF Debit, IInv, Unfinished
<1>2. CASE ~DebitAllowed(balances[r.user], r.amt)
  <2>1. /\ \A q \in Handlers \ {p} : proc'[q] = proc[q]
        /\ proc'[p].pc \notin Unfinished
        /\ UNCHANGED <<txns, orphans>>
    BY <1>2, ProcFacts DEF Debit, IInv, Unfinished, history
  <2> QED
    BY <1>1, <2>1, IdleOwner DEF IInv
<1>3. CASE DebitAllowed(balances[r.user], r.amt)
  <2>1. PICK t \in TxIds : DebitIn(p, t)
    BY <1>3 DEF Debit
  <2>2. txns[t].status = "free" /\ UNCHANGED orphans
    BY <2>1 DEF DebitIn, Used, Debit, history
  <2>3. \A o \in TxIds \ {t} : txns'[o] = txns[o]
    BY <2>1 DEF DebitIn, IInv, TypeOK
  <2>4. \A q \in Handlers \ {p} : proc'[q] = proc[q]
    BY <2>1 DEF DebitIn, IInv, TypeOK
  <2>5. /\ proc'[p].tx = t
        /\ \/ proc'[p].pc = "record" /\ txns'[t].status = "pending_invite"
           \/ proc'[p].pc = "transfer" /\ txns'[t].status = "pending"
    BY <2>1, <1>1 DEF DebitIn, IInv, TypeOK, Called
  <2>6. t \notin orphans /\ \A q \in Handlers : ~HandledBy(q, t)
    BY <2>2 DEF PendingAccounted
  <2>7. \A q \in Handlers \ {p}, o \in TxIds : HandledBy(q, o)' <=> HandledBy(q, o)
    BY <2>4 DEF HandledBy
  <2>8. \A o \in TxIds : HandledBy(p, o)' <=> (o = t /\ txns'[t].status = "pending")
    BY <2>5 DEF HandledBy, Unfinished
  <2>9. \A o \in TxIds : ~HandledBy(p, o)
    BY <1>1 DEF HandledBy
  <2>10. orphans \subseteq TxIds
    BY DEF IInv, TypeOK
  <2> QED
    BY <2>2, <2>3, <2>6, <2>7, <2>8, <2>9, <2>10 DEF PendingAccounted
<1> QED
  BY <1>2, <1>3

\* The bank's answer passes the row on within its handler.
LEMMA TransferOwner ==
    ASSUME PendingAccounted, IInv, NEW p \in Handlers, Transfer(p)
    PROVE  PendingAccounted'
<1> DEFINE r == proc[p]
<1>1. r \in Holding /\ r.pc \in Unfinished
  BY Shapes DEF Transfer, IInv, Unfinished
<1>2. proc'[p].tx = r.tx /\ proc'[p].pc \in Unfinished
  BY <1>1, HoldingGoto DEF Transfer, IInv, Unfinished
<1>3. \A q \in Handlers \ {p} : proc'[q] = proc[q]
  BY ProcFacts DEF Transfer, IInv
<1>4. \A q \in Handlers, t \in TxIds : HandledBy(q, t)' <=> HandledBy(q, t)
  BY <1>1, <1>2, <1>3 DEF HandledBy
<1>5. UNCHANGED <<txns, orphans>> /\ orphans \subseteq TxIds
  BY DEF Transfer, rows, history, IInv, TypeOK
<1> QED
  BY <1>4, <1>5, OwnersKept

\* Settlement and compensation end the row and the handler's work together,
\* in one transaction.
LEMMA EndOwner ==
    ASSUME PendingAccounted, IInv, NEW p \in Handlers, Settle(p) \/ Compensate(p)
    PROVE  PendingAccounted'
<1> DEFINE r == proc[p]
<1>1. r \in Holding /\ r.pc \in Unfinished /\ r.tx \in TxIds /\ txns[r.tx].status = "pending"
  BY HeldPayment DEF Settle, Compensate, Unfinished
<1>2. txns'[r.tx].status # "pending" /\ \A o \in TxIds \ {r.tx} : txns'[o] = txns[o]
  BY <1>1, MarkSettledEffect DEF Settle, Compensate, IInv, Statuses
<1>3. proc'[p].pc \notin Unfinished
  BY <1>1, ProcFacts, HoldingGoto DEF Settle, Compensate, IInv, Unfinished
<1>4. \A q \in Handlers \ {p} : proc'[q] = proc[q]
  BY ProcFacts DEF Settle, Compensate, IInv
<1>5. UNCHANGED orphans /\ orphans \subseteq TxIds
  BY DEF Settle, Compensate, history, IInv, TypeOK
<1>6. HandledBy(p, r.tx) /\ \A q \in Handlers \ {p} : ~HandledBy(q, r.tx)
  BY <1>1 DEF HandledBy, IInv, HandlersOwnRows, NoSharedRow
<1>7. r.tx \notin orphans
  BY <1>6 DEF PendingAccounted
<1>8. \A q \in Handlers \ {p}, o \in TxIds : HandledBy(q, o)' <=> HandledBy(q, o)
  BY <1>4 DEF HandledBy
<1>9. \A o \in TxIds : ~HandledBy(p, o)' /\ (HandledBy(p, o) => o = r.tx)
  BY <1>3 DEF HandledBy
<1> QED
  BY <1>1, <1>2, <1>5, <1>6, <1>7, <1>8, <1>9 DEF PendingAccounted

\* An abort turns the handler's row, if it holds one, into an orphan.
LEMMA AbortOwner ==
    ASSUME PendingAccounted, IInv, NEW p \in Handlers, Abort(p)
    PROVE  PendingAccounted'
<1>1. proc'[p].pc \notin Unfinished /\ \A q \in Handlers \ {p} : proc'[q] = proc[q]
  BY ProcFacts DEF Abort, IInv, Unfinished
<1>2. UNCHANGED txns /\ orphans' = orphans \cup {t \in TxIds : HandledBy(p, t)}
  BY DEF Abort, rows
<1>3. \A q \in Handlers \ {p}, o \in TxIds : HandledBy(q, o)' <=> HandledBy(q, o)
  BY <1>1 DEF HandledBy
<1>4. \A o \in TxIds : ~HandledBy(p, o)'
  BY <1>1 DEF HandledBy
<1>5. \A q \in Handlers \ {p}, o \in TxIds : ~(HandledBy(p, o) /\ HandledBy(q, o))
  BY DEF HandledBy, IInv, HandlersOwnRows, NoSharedRow
<1>6. orphans \subseteq TxIds
  BY DEF IInv, TypeOK
<1> QED
  BY <1>2, <1>3, <1>4, <1>5, <1>6 DEF PendingAccounted

LEMMA InitOwners == Init => PendingAccounted
BY DEF Init, PendingAccounted, FreeRow, HandledBy, Unfinished, Idle

LEMMA NextOwners == IInv /\ PendingAccounted /\ [Next]_vars => PendingAccounted'
<1> SUFFICES ASSUME IInv, PendingAccounted, [Next]_vars
             PROVE  PendingAccounted'
  OBVIOUS
<1>1. ASSUME NEW p \in Handlers, NEW u \in Users, NEW a \in Amounts, NEW k \in Keys,
             Send(p, u, a, k) \/ MerchantDebit(p, u, a, k)
      PROVE  PendingAccounted'
  BY <1>1, IdleOwners DEF Send, MerchantDebit
<1>2. ASSUME NEW p \in Handlers, NEW t \in TxIds, NEW a \in Amounts, Refund(p, t, a)
      PROVE  PendingAccounted'
  BY <1>2, IdleOwners
<1>3. ASSUME NEW p \in Handlers, NEW u \in Users, RefreshRead(p, u)
      PROVE  PendingAccounted'
  BY <1>3, IdleOwners
<1>4. ASSUME NEW p \in Handlers, HandlerStep(p)
      PROVE  PendingAccounted'
  BY <1>4, IdleOwners, DebitOwner, TransferOwner, EndOwner DEF HandlerStep
<1>5. ASSUME NEW p \in Handlers, Abort(p)
      PROVE  PendingAccounted'
  BY <1>5, AbortOwner
<1>6. ASSUME \/ \E u \in Freezable, f \in BOOLEAN : SetFrozen(u, f)
             \/ \E k \in Keys : ExpireKey(k)
             \/ UNCHANGED vars
      PROVE  PendingAccounted'
  <2>1. UNCHANGED <<txns, orphans, proc>> /\ orphans \subseteq TxIds
    BY <1>6 DEF SetFrozen, ExpireKey, vars, rows, history, IInv, TypeOK
  <2>2. \A q \in Handlers, t \in TxIds : HandledBy(q, t)' <=> HandledBy(q, t)
    BY <2>1 DEF HandledBy
  <2> QED
    BY <2>1, <2>2, OwnersKept
<1> QED
  BY <1>1, <1>2, <1>3, <1>4, <1>5, <1>6 DEF Next

\* The safety half of PendingResolves: a pending row always has a live handler
\* or is an orphan, and no handler ever works on an orphan.
THEOREM PendingHasOwner == Spec => []PendingAccounted
BY InitInv, NextInv, InitOwners, NextOwners, PTL DEF Spec
=============================================================================
