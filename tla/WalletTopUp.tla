---------------------------- MODULE WalletTopUp ----------------------------
(***************************************************************************)
(* wallet-service: money coming into a wallet over UPI.                    *)
(*                                                                         *)
(*   StartTopUp         inserts a pending row, raises pending_in_paise and *)
(*                      hands the client a UPI intent                      *)
(*   ConfirmTopUp       the client reports the UPI reference; once the     *)
(*                      bank confirms it the row settles and the wallet is *)
(*                      credited                                           *)
(*   ExpireStaleTopUps  cmd/expirer, a cron job: pending rows older than   *)
(*                      the cutoff fail and pending_in_paise is returned   *)
(*                                                                         *)
(* None of the three uses a database transaction: every statement below is *)
(* a step of its own and everything else may run in between.               *)
(***************************************************************************)
EXTENDS WalletStore, FiniteSetsExt

CONSTANTS
    Users,          \* wallet owners
    TopUps,         \* ids wallet.transactions can still hand out (bounds a run)
    Refs,           \* UPI references, one per UPI payment (bounds a run)
    Keys,           \* idempotency keys clients use
    Handlers,       \* concurrent request handlers
    Amounts,        \* amounts requests carry
    MonthlyLimit,   \* monthly_limit_paise of the users' tier
    Batch,          \* LIMIT of ListPendingTopUpsOlderThan
    Freezable,      \* the users trust-safety may freeze in a run
    MayExpire       \* TRUE when a run may outlast the 24 h of an idempotency row

ASSUME TopUpConstants ==
    /\ Amounts \subseteq Nat \ {0}
    /\ MonthlyLimit \in Nat
    /\ Batch \in Nat \ {0}
    /\ Freezable \subseteq Users
    /\ MayExpire \in BOOLEAN
    /\ "none" \notin TopUps \cup Refs

VARIABLES
    balances,   \* wallet.balances, by user
    topups,     \* wallet.transactions: the rows of type top_up, by id
    idem,       \* wallet.idempotency, by key
    old,        \* top-ups created before the expirer's cutoff
    intents,    \* top-ups whose UPI intent has been returned to the client
    paid,       \* the top-up whose intent a UPI payment was made from
    landed,     \* UPI payments the partner bank has received
    credits,    \* history: how often a top-up was credited
    lost,       \* history: top-ups whose handler died just before the credit
    proc,       \* the handlers' local variables
    job         \* the expirer's local variables

upi == <<intents, paid, landed>>
history == <<credits, lost>>
vars == <<balances, topups, idem, old, upi, history, proc, job>>

FreeRow == [status |-> "free"]
TopUpRow == [status : {"pending", "succeeded", "failed"}, user : Users,
             amt : Amounts, key : Keys, ref : Refs \cup {"none"}]
Used == {t \in TopUps : topups[t].status # "free"}
Idle == [pc |-> "idle"]

Init ==
    /\ balances = [u \in Users |-> [available |-> 0, pendingIn |-> 0,
                                    pendingOut |-> 0, frozen |-> FALSE]]
    /\ topups = [t \in TopUps |-> FreeRow]
    /\ idem = [k \in Keys |-> NoRecord]
    /\ old = {}
    /\ intents = {}
    /\ paid = [r \in Refs |-> "none"]
    /\ landed = {}
    /\ credits = [t \in TopUps |-> 0]
    /\ lost = {}
    /\ proc = [p \in Handlers |-> Idle]
    /\ job = Idle

Goto(p, pc) == proc' = [proc EXCEPT ![p].pc = pc]
Return(p) == proc' = [proc EXCEPT ![p] = Idle]

---------------------------------------------------------------------------
(* StartTopUp                                                              *)

\* FindIdempotency misses; with a record the cached answer is returned.
StartTopUp(p, u, a, k) ==
    /\ proc[p].pc = "idle"
    /\ KeyNotFound(idem, k)
    /\ proc' = [proc EXCEPT ![p] = [pc |-> "check", user |-> u, amt |-> a, key |-> k,
                                    tx |-> "none"]]
    /\ UNCHANGED <<balances, topups, idem, old, upi, history, job>>

\* AssertWithinMonthlyLimit
Check(p) ==
    LET r == proc[p] IN
    /\ r.pc = "check"
    /\ IF ~balances[r.user].frozen /\ r.amt <= MonthlyLimit THEN Goto(p, "insert") ELSE Return(p)
    /\ UNCHANGED <<balances, topups, idem, old, upi, history, job>>

\* InsertTransaction
Insert(p) ==
    LET r == proc[p] IN
    /\ r.pc = "insert"
    /\ \E t \in TopUps \ Used :
         /\ topups' = [topups EXCEPT ![t] = [status |-> "pending", user |-> r.user,
                                    amt |-> r.amt, key |-> r.key, ref |-> "none"]]
         /\ proc' = [proc EXCEPT ![p] = [r EXCEPT !.pc = "bump", !.tx = t]]
    /\ UNCHANGED <<balances, idem, old, upi, history, job>>

\* AdjustPendingIn(+amount)
Bump(p) ==
    LET r == proc[p] IN
    /\ r.pc = "bump"
    /\ balances' = [balances EXCEPT ![r.user] = PendingInAdjusted(@, r.amt)]
    /\ Goto(p, "record")
    /\ UNCHANGED <<topups, idem, old, upi, history, job>>

\* RecordIdempotency, whose failure is only logged; then the intent is returned.
Record(p) ==
    LET r == proc[p]
        rec == [user |-> r.user, op |-> "top_up", tx |-> r.tx]
    IN  /\ r.pc = "record"
        /\ idem' \in {Recorded(idem, r.key, rec), idem}
        /\ intents' = intents \cup {r.tx}
        /\ Return(p)
        /\ UNCHANGED <<balances, topups, old, paid, landed, history, job>>

---------------------------------------------------------------------------
(* The user's UPI app and the bank.                                        *)

\* The user pays from the intent; nothing keeps a user from paying twice.
Pay(r, t) ==
    /\ paid[r] = "none" /\ t \in intents
    /\ paid' = [paid EXCEPT ![r] = t]
    /\ UNCHANGED <<balances, topups, idem, old, intents, landed, history, proc, job>>

\* The payment arrives, at any time or never.
Land(r) ==
    /\ paid[r] # "none" /\ r \notin landed
    /\ landed' = landed \cup {r}
    /\ UNCHANGED <<balances, topups, idem, old, intents, paid, history, proc, job>>

---------------------------------------------------------------------------
(* ConfirmTopUp                                                            *)

\* GetTransaction: only a pending top-up goes on; a succeeded one is returned
\* as it is and a failed one is an error.  The row read here is not read again
\* before the credit.
ConfirmTopUp(p, t, ref) ==
    /\ proc[p].pc = "idle"
    /\ paid[ref] = t /\ topups[t].status = "pending"
    /\ proc' = [proc EXCEPT ![p] = [pc |-> "setref", user |-> topups[t].user,
                                    amt |-> topups[t].amt, tx |-> t, ref |-> ref]]
    /\ UNCHANGED <<balances, topups, idem, old, upi, history, job>>

\* SetUPIRef: WHERE upi_txn_ref IS NULL OR upi_txn_ref = $2, else a conflict.
\* It does not look at the status.
SetRef(p) ==
    LET r == proc[p] IN
    /\ r.pc = "setref"
    /\ IF topups[r.tx].ref \in {"none", r.ref}
       THEN topups' = [topups EXCEPT ![r.tx].ref = r.ref] /\ Goto(p, "verify")
       ELSE Return(p) /\ UNCHANGED topups
    /\ UNCHANGED <<balances, idem, old, upi, history, job>>

\* VerifyUPIInbound: unless it has landed the row stays pending.
Verify_IgnoresVerdict(p) ==
    /\ proc[p].pc = "verify"
    /\ Goto(p, "settle")
    /\ UNCHANGED <<balances, topups, idem, old, upi, history, job>>
Verify(p) ==
    /\ proc[p].pc = "verify"
    /\ IF proc[p].ref \in landed THEN Goto(p, "settle") ELSE Return(p)
    /\ UNCHANGED <<balances, topups, idem, old, upi, history, job>>

\* MarkSettled, which reports no error for a row that is not pending any more.
Settle_ThenReturns(p) ==
    LET r == proc[p] IN
    /\ r.pc = "settle"
    /\ topups' = MarkSettled(topups, r.tx, "succeeded")
    /\ Return(p)
    /\ UNCHANGED <<balances, idem, old, upi, history, job>>
Settle(p) ==
    LET r == proc[p] IN
    /\ r.pc = "settle"
    /\ topups' = MarkSettled(topups, r.tx, "succeeded")
    /\ Goto(p, "credit")
    /\ UNCHANGED <<balances, idem, old, upi, history, job>>

\* CreditAvailable
Credit(p) ==
    LET r == proc[p] IN
    /\ r.pc = "credit"
    /\ balances' = [balances EXCEPT ![r.user] = TopUpCredited(@, r.amt)]
    /\ credits' = [credits EXCEPT ![r.tx] = @ + 1]
    /\ Return(p)
    /\ UNCHANGED <<topups, idem, old, upi, lost, job>>

---------------------------------------------------------------------------
(* ExpireStaleTopUps: one job at a time, its deadline is shorter than the  *)
(* cron period.                                                            *)

Stale == {t \in Used : t \in old /\ topups[t].status = "pending"}

\* ListPendingTopUpsOlderThan: the batch is a snapshot, as many as there are
\* up to the limit.
Batched(S) == {B \in SUBSET S : B # {} /\ Cardinality(B) <= Batch
                                /\ (B = S \/ Cardinality(B) = Batch)}
ExpireList_Fresh ==
    /\ job.pc = "idle"
    /\ \E B \in Batched({t \in Used : t \notin old /\ topups[t].status = "pending"}) :
         job' = [pc |-> "mark", todo |-> B, tx |-> "none"]
    /\ UNCHANGED <<balances, topups, idem, old, upi, history, proc>>
ExpireList ==
    /\ job.pc = "idle"
    /\ \E B \in Batched(Stale) : job' = [pc |-> "mark", todo |-> B, tx |-> "none"]
    /\ UNCHANGED <<balances, topups, idem, old, upi, history, proc>>

\* The job goes on with the rest of its batch.
NextRow(t) ==
    LET rest == job.todo \ {t} IN
    job' = IF rest = {} THEN Idle ELSE [pc |-> "mark", todo |-> rest, tx |-> "none"]

\* MarkSettled(failed) on the next row of the batch
ExpireMark ==
    /\ job.pc = "mark"
    /\ \E t \in job.todo :
         /\ topups' = MarkSettled(topups, t, "failed")
         /\ job' = [job EXCEPT !.pc = "unbump", !.tx = t]
    /\ UNCHANGED <<balances, idem, old, upi, history, proc>>

\* AdjustPendingIn(-amount), whatever MarkSettled found
ExpireUnbump ==
    LET row == topups[job.tx] IN
    /\ job.pc = "unbump"
    /\ balances' = [balances EXCEPT ![row.user] = PendingInAdjusted(@, -row.amt)]
    /\ NextRow(job.tx)
    /\ UNCHANGED <<topups, idem, old, upi, history, proc>>

\* A failed statement skips the row.
ExpireSkip ==
    /\ \/ job.pc = "mark" /\ \E t \in job.todo : NextRow(t)
       \/ job.pc = "unbump" /\ NextRow(job.tx)
    /\ UNCHANGED <<balances, topups, idem, old, upi, history, proc>>

\* The job's process dies or its deadline passes.
ExpireAbort ==
    /\ job.pc # "idle" /\ job' = Idle
    /\ UNCHANGED <<balances, topups, idem, old, upi, history, proc>>

---------------------------------------------------------------------------
(* The freeze flag, time and failures.                                     *)

SetFrozen(u, f) ==
    /\ balances[u].frozen # f
    /\ balances' = [balances EXCEPT ![u].frozen = f]
    /\ UNCHANGED <<topups, idem, old, upi, history, proc, job>>

\* TopUpExpirySeconds pass for a row.
Age(t) ==
    /\ t \in Used \ old
    /\ old' = old \cup {t}
    /\ UNCHANGED <<balances, topups, idem, upi, history, proc, job>>

ExpireKey(k) ==
    /\ MayExpire /\ ~KeyNotFound(idem, k)
    /\ idem' = [idem EXCEPT ![k] = NoRecord]
    /\ UNCHANGED <<balances, topups, old, upi, history, proc, job>>

\* A crash, a cancelled request or a failed statement ends the handler.
Abort(p) ==
    /\ proc[p].pc # "idle"
    /\ lost' = IF proc[p].pc = "credit" THEN lost \cup {proc[p].tx} ELSE lost
    /\ Return(p)
    /\ UNCHANGED <<balances, topups, idem, old, upi, credits, job>>

---------------------------------------------------------------------------
RequestStep(p) ==
    \/ Check(p) \/ Insert(p) \/ Bump(p) \/ Record(p)
    \/ SetRef(p) \/ Verify(p) \/ Settle(p) \/ Credit(p)

Next ==
    \/ \E p \in Handlers :
         \/ \E u \in Users, a \in Amounts, k \in Keys : StartTopUp(p, u, a, k)
         \/ \E t \in TopUps, ref \in Refs : ConfirmTopUp(p, t, ref)
         \/ RequestStep(p)
         \/ Abort(p)
    \/ ExpireList \/ ExpireMark \/ ExpireUnbump \/ ExpireSkip \/ ExpireAbort
    \/ \E r \in Refs, t \in TopUps : Pay(r, t)
    \/ \E r \in Refs : Land(r)
    \/ \E u \in Freezable, f \in BOOLEAN : SetFrozen(u, f)
    \/ \E t \in TopUps : Age(t)
    \/ \E k \in Keys : ExpireKey(k)

Spec == Init /\ [][Next]_vars

\* The cron job comes back every five minutes: it lists again and again, and
\* when it lists for ever it gets, some time, as far as failing a row - it is
\* not killed or refused by the database at that very statement each time.
\* Requests run on.
Fairness ==
    /\ \A p \in Handlers : WF_vars(RequestStep(p))
    /\ WF_vars(ExpireList) /\ SF_vars(ExpireMark) /\ WF_vars(ExpireUnbump)
FairSpec == Spec /\ Fairness

---------------------------------------------------------------------------
(* Properties.                                                             *)

Starting == [pc : {"check", "insert", "bump", "record"}, user : Users, amt : Amounts,
             key : Keys, tx : TopUps \cup {"none"}]
Confirming == [pc : {"setref", "verify", "settle", "credit"}, user : Users, amt : Amounts,
               tx : TopUps, ref : Refs]
JobLocals == [pc : {"mark", "unbump"}, todo : SUBSET TopUps, tx : TopUps \cup {"none"}]
Locals == {Idle} \cup Starting \cup Confirming

\* Type invariant: every column and every handler's locals stay in range, and
\* available_paise, which top-ups only raise, is never negative.
TypeOK ==
    /\ balances \in [Users -> BalanceRow]
    /\ \A u \in Users : balances[u].available >= 0
    /\ topups \in [TopUps -> TopUpRow \cup {FreeRow}]
    /\ idem \in [Keys -> [user : Users, op : {"top_up"}, tx : TopUps] \cup {NoRecord}]
    /\ old \subseteq Used
    /\ intents \subseteq Used
    /\ paid \in [Refs -> intents \cup {"none"}]
    /\ landed \subseteq Refs
    /\ credits \in [TopUps -> Nat]
    /\ lost \subseteq TopUps
    /\ proc \in [Handlers -> Locals]
    /\ job \in {Idle} \cup JobLocals

\* A top-up is reported as succeeded, or credited, only if the very UPI payment
\* its row names was made for it and has reached the bank, whatever other
\* references its owner reported and whatever the expirer did meanwhile.
NothingForNothing ==
    \A t \in TopUps : credits[t] > 0 \/ topups[t].status = "succeeded" =>
        /\ topups[t].ref \in landed
        /\ paid[topups[t].ref] = t

\* A succeeded top-up is credited, or about to be, unless the handler died in
\* between: no order of confirmations and expiries loses the credit by itself.
CreditFollows ==
    \A t \in Used : topups[t].status = "succeeded" /\ credits[t] = 0 =>
        \/ t \in lost
        \/ \E p \in Handlers : proc[p].pc = "credit" /\ proc[p].tx = t

\* A settled top-up never changes its status, and the UPI reference a row has
\* taken is never replaced by another confirmation's.
RowsOnlyAdvance ==
    [][\A t \in Used :
         /\ topups[t].status # "pending" => topups'[t].status = topups[t].status
         /\ topups[t].ref # "none" => topups'[t].ref = topups[t].ref]_vars

\* A top-up older than the cutoff does not stay pending.
StaleResolves == \A t \in TopUps : t \in Stale ~> topups[t].status # "pending"

---------------------------------------------------------------------------
(* What a comment of the code promises and the code does not keep.         *)

\* ConfirmTopUp: "a second call with the same id returns success without
\* double-crediting".
CreditedOnce == \A t \in TopUps : credits[t] <= 1
=============================================================================
