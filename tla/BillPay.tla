------------------------------ MODULE BillPay ------------------------------
(***************************************************************************)
(* bill-pay-service: the Pay saga (wallet debit, payment row, hand-off to   *)
(* Setu, compensation), the webhook with which Setu reports the outcome,    *)
(* and the scheduler that calls Pay for an instalment that is due.          *)
(*                                                                          *)
(* One wallet user, one amount, one schedule.  A key is a client's          *)
(* idempotency key, or a day: the scheduler's key is a hash of the schedule *)
(* and the run date.  A call is a sequence of steps, one per statement or   *)
(* remote call; calls of different handlers interleave.                     *)
(***************************************************************************)
EXTENDS Integers, FiniteSets

CONSTANTS
    ClientKeys,     \* idempotency keys chosen by clients
    LastDay,        \* bound: the days on which the scheduler runs are 1..LastDay
    Period,         \* days between instalments (30 in the code)
    Kinds,          \* the kinds of schedule tried
    Handlers,       \* goroutines serving calls, webhooks and the scheduler
    Funding,        \* the payment methods tried: TRUE is "wallet", FALSE "upi" or "card"
    Faults,         \* the steps that may go wrong
    MaxFaults,      \* bound: how often
    MaxCalls        \* bound: calls of Pay by clients and runs of the scheduler

Days == 1..LastDay
Keys == ClientKeys \cup Days
FaultKinds == {"crash", "debit", "attach", "setu", "mark", "record",
               "refund", "redeliver", "advance"}

ASSUME BillPayAssumption ==
    /\ {LastDay, Period} \subseteq Nat \ {0}
    /\ ClientKeys \cap Nat = {}
    /\ Kinds \subseteq {"monthly", "one_off"}
    /\ Funding \subseteq BOOLEAN
    /\ Faults \subseteq FaultKinds
    /\ MaxFaults \in Nat /\ MaxCalls \in Nat
    /\ IsFiniteSet(Handlers)

VARIABLES
    rows,       \* billpay.payments by idempotency_key, which is UNIQUE
    cached,     \* keys with a row in billpay.idempotency
    debits,     \* keys whose wallet transaction exists: the wallet debits a key once
    undone,     \* refunds issued because the row could not be inserted
    refunds,    \* refunds issued because the payment failed
    setu,       \* what Setu knows of each key
    submits,    \* how often each key was submitted to Setu
    acked,      \* keys whose webhook was answered 200
    today,      \* the date
    schedule,   \* billpay.scheduled_payments: [kind, active, due]
    dropped,    \* keys for which a step was abandoned and only logged, or lost
    calls, faults,
    proc        \* each handler's place in its call

wallet == <<debits, undone, refunds>>
rail   == <<setu, submits, acked>>
clock  == <<today, schedule>>
bounds == <<calls, faults>>
vars   == <<rows, cached, wallet, rail, clock, dropped, bounds, proc>>

Statuses == {"initiated", "submitted", "succeeded", "failed"}
PayPcs  == {"debit", "insert", "undo", "attach", "submit", "mark", "record",
            "fail", "giveback", "advance"}
HookPcs == {"paid", "bounced", "hookrefund"}
Idle    == [pc |-> "idle"]
Locals  == {Idle} \cup [pc : PayPcs \cup HookPcs, key : Keys, funded : BOOLEAN, cron : BOOLEAN]
NoRow   == [status |-> "none", funded |-> FALSE, txn |-> FALSE, ref |-> FALSE]
Rows    == {NoRow} \cup
    {r \in [status : Statuses, funded : BOOLEAN, txn : BOOLEAN, ref : BOOLEAN] :
        (r.txn => r.funded) /\ (r.ref => r.status # "initiated")}

Open(k) == rows[k].status \in {"initiated", "submitted"}

Goto(h, pc) == proc' = [proc EXCEPT ![h].pc = pc]
Return(h)   == proc' = [proc EXCEPT ![h] = Idle]
\* Pay returned no error: the scheduler moves the instalment on.
Succeed(h)  == IF proc[h].cron THEN Goto(h, "advance") ELSE Return(h)
At(h, pc)   == proc[h].pc = pc
Key(h)      == proc[h].key

Fault(f) == f \in Faults /\ faults < MaxFaults /\ faults' = faults + 1
NoFault  == UNCHANGED faults
Drop(k)  == dropped' = dropped \cup {k}

Init ==
    /\ rows = [k \in Keys |-> NoRow]
    /\ cached = {}
    /\ debits = {}
    /\ undone = [k \in Keys |-> 0] /\ refunds = [k \in Keys |-> 0]
    /\ setu = [k \in Keys |-> "none"] /\ submits = [k \in Keys |-> 0]
    /\ acked = {}
    /\ today = 1
    /\ schedule \in [kind : Kinds, active : {TRUE}, due : {1}]
    /\ dropped = {}
    /\ calls = 0 /\ faults = 0
    /\ proc = [h \in Handlers |-> Idle]

-----------------------------------------------------------------------------
(* Pay *)

\* FindIdempotency: a recorded key replays the stored answer, which is
\* always a success: only the last step of a successful call records.
Enter(h, k, funded, cron) ==
    LET call == [pc |-> IF funded THEN "debit" ELSE "insert",
                 key |-> k, funded |-> funded, cron |-> cron]
    IN  proc' = [proc EXCEPT ![h] =
            IF k \notin cached THEN call
            ELSE IF cron THEN [call EXCEPT !.pc = "advance"] ELSE Idle]

Pay(h) ==
    /\ At(h, "idle") /\ calls < MaxCalls
    /\ \E k \in ClientKeys, funded \in Funding : Enter(h, k, funded, FALSE)
    /\ calls' = calls + 1
    /\ UNCHANGED <<rows, cached, wallet, rail, clock, dropped, faults>>

\* The wallet answers a key it has seen with the transaction of the first
\* call.  It may decline a first debit; a lost answer reads as a failure too.
WalletDebit(h) ==
    /\ At(h, "debit")
    /\ \/ debits' = debits \cup {Key(h)} /\ Goto(h, "insert") /\ NoFault /\ UNCHANGED dropped
       \/ Key(h) \notin debits /\ UNCHANGED <<debits, dropped>> /\ Return(h) /\ NoFault
       \/ debits' = debits \cup {Key(h)} /\ Return(h) /\ Fault("debit") /\ Drop(Key(h))
    /\ UNCHANGED <<rows, cached, undone, refunds, rail, clock, calls>>

\* Mutant: the idempotency_key column is not UNIQUE.
InsertPayment_NotUnique(h) ==
    /\ At(h, "insert")
    /\ rows' = [rows EXCEPT ![Key(h)] = [status |-> "initiated",
                      funded |-> proc[h].funded, txn |-> FALSE, ref |-> FALSE]]
    /\ Goto(h, IF proc[h].funded THEN "attach" ELSE "submit")
    /\ UNCHANGED <<cached, wallet, rail, clock, dropped, bounds>>

\* The UNIQUE idempotency_key lets one insert per key through.  Any error,
\* that one included, sends the call to the compensation.
InsertPayment(h) ==
    LET k == Key(h)
    IN  /\ At(h, "insert")
        /\ IF rows[k] = NoRow
           THEN /\ rows' = [rows EXCEPT ![k] = [status |-> "initiated",
                              funded |-> proc[h].funded, txn |-> FALSE, ref |-> FALSE]]
                /\ Goto(h, IF proc[h].funded THEN "attach" ELSE "submit")
           ELSE /\ UNCHANGED rows
                /\ IF proc[h].funded THEN Goto(h, "undo") ELSE Return(h)
        /\ UNCHANGED <<cached, wallet, rail, clock, dropped, bounds>>

\* A refund call: the wallet pays back, or the call fails without effect.
Refunding(h, tally) ==
    \/ tally' = [tally EXCEPT ![Key(h)] = @ + 1] /\ NoFault /\ UNCHANGED dropped
    \/ UNCHANGED tally /\ Fault("refund") /\ Drop(Key(h))

UndoDebit(h) ==
    /\ At(h, "undo") /\ Return(h)
    /\ Refunding(h, undone)
    /\ UNCHANGED <<rows, cached, debits, refunds, rail, clock, calls>>

\* A failure to attach the wallet transaction is logged and Pay goes on.
AttachWalletTxn(h) ==
    /\ At(h, "attach") /\ Goto(h, "submit")
    /\ \/ rows' = [rows EXCEPT ![Key(h)].txn = TRUE] /\ NoFault /\ UNCHANGED dropped
       \/ UNCHANGED rows /\ Fault("attach") /\ Drop(Key(h))
    /\ UNCHANGED <<cached, wallet, rail, clock, calls>>

\* Setu accepts the payment, or answers that it failed, or the transport
\* fails, with or without the payment having reached Setu.
SubmitPayment(h) ==
    LET k == Key(h)
    IN  /\ At(h, "submit")
        /\ submits' = [submits EXCEPT ![k] = @ + 1]
        /\ \/ setu' = [setu EXCEPT ![k] = "accepted"] /\ Goto(h, "mark") /\ NoFault
           \/ UNCHANGED setu /\ Goto(h, "fail") /\ NoFault
           \/ setu' = [setu EXCEPT ![k] = "accepted"] /\ Goto(h, "fail") /\ Fault("setu")
        /\ UNCHANGED <<rows, cached, wallet, acked, clock, dropped, calls>>

\* A failure to store Setu's reference is logged: no webhook will find the row.
MarkPaymentSubmitted(h) ==
    LET k == Key(h)
    IN  /\ At(h, "mark") /\ Goto(h, "record")
        /\ \/ /\ rows' = IF rows[k].status # "initiated" THEN rows
                         ELSE [rows EXCEPT ![k].status = "submitted", ![k].ref = TRUE]
              /\ NoFault /\ UNCHANGED dropped
           \/ UNCHANGED rows /\ Fault("mark") /\ Drop(k)
        /\ UNCHANGED <<cached, wallet, rail, clock, calls>>

\* The error of RecordIdempotency is discarded.
RecordIdempotency(h) ==
    /\ At(h, "record") /\ Succeed(h)
    /\ \/ cached' = cached \cup {Key(h)} /\ NoFault
       \/ UNCHANGED cached /\ Fault("record")
    /\ UNCHANGED <<rows, wallet, rail, clock, dropped, calls>>

MarkedFailed(k) == IF Open(k) THEN [rows EXCEPT ![k].status = "failed"] ELSE rows

\* Mutant: a failed submission marks the row and forgets the wallet.
FailPayment_KeepsMoney(h) ==
    /\ At(h, "fail") /\ Return(h)
    /\ rows' = MarkedFailed(Key(h))
    /\ UNCHANGED <<cached, wallet, rail, clock, dropped, bounds>>

\* failPaymentAndRefund: both of its failures are logged only.
FailPayment(h) ==
    /\ At(h, "fail")
    /\ IF proc[h].funded THEN Goto(h, "giveback") ELSE Return(h)
    /\ \/ rows' = MarkedFailed(Key(h)) /\ NoFault
       \/ UNCHANGED rows /\ Fault("mark")
    /\ UNCHANGED <<cached, wallet, rail, clock, dropped, calls>>

GiveBack(h) ==
    /\ At(h, "giveback") /\ Return(h)
    /\ Refunding(h, refunds)
    /\ UNCHANGED <<rows, cached, debits, undone, rail, clock, calls>>

-----------------------------------------------------------------------------
(* HandleSetuWebhook *)

\* Setu settles what it accepted.
SetuSettles(k) ==
    /\ setu[k] = "accepted"
    /\ \E outcome \in {"paid", "bounced"} : setu' = [setu EXCEPT ![k] = outcome]
    /\ UNCHANGED <<rows, cached, wallet, submits, acked, clock, dropped, bounds, proc>>

\* Setu posts the outcome until it is answered 200, and may post it again.
\* A row without its reference is not found: Setu is answered an error.
Webhook(h, k) ==
    /\ At(h, "idle") /\ setu[k] \in {"paid", "bounced"} /\ rows[k].ref
    /\ IF k \in acked THEN Fault("redeliver") ELSE NoFault
    /\ IF rows[k].status = "succeeded"
       THEN acked' = acked \cup {k} /\ UNCHANGED proc
       ELSE /\ UNCHANGED acked
            /\ proc' = [proc EXCEPT ![h] = [pc |-> setu[k], key |-> k, cron |-> FALSE,
                                            funded |-> rows[k].funded /\ rows[k].txn]]
    /\ UNCHANGED <<rows, cached, wallet, setu, submits, clock, dropped, calls>>

\* Mutant: the webhook of a bounced payment settles the row as well.
WebhookBounced_Settles(h) ==
    LET k == Key(h)
    IN  /\ At(h, "bounced") /\ Return(h)
        /\ rows' = IF Open(k) THEN [rows EXCEPT ![k].status = "succeeded"] ELSE rows
        /\ acked' = acked \cup {k}
        /\ UNCHANGED <<cached, wallet, setu, submits, clock, dropped, bounds>>

\* A statement that fails is surfaced as well.
WebhookPaid(h) ==
    LET k == Key(h)
    IN  /\ At(h, "paid") /\ Return(h)
        /\ \/ /\ rows' = IF Open(k) THEN [rows EXCEPT ![k].status = "succeeded"] ELSE rows
              /\ acked' = acked \cup {k} /\ NoFault
           \/ UNCHANGED <<rows, acked>> /\ Fault("mark")
        /\ UNCHANGED <<cached, wallet, setu, submits, clock, dropped, calls>>

WebhookBounced(h) ==
    LET k == Key(h)
    IN  /\ At(h, "bounced")
        /\ \/ /\ rows' = MarkedFailed(k) /\ NoFault
              /\ IF proc[h].funded THEN Goto(h, "hookrefund") /\ UNCHANGED acked
                 ELSE Return(h) /\ acked' = acked \cup {k}
           \/ UNCHANGED <<rows, acked>> /\ Return(h) /\ Fault("mark")
        /\ UNCHANGED <<cached, wallet, setu, submits, clock, dropped, calls>>

\* Mutant: a refund that fails is logged and Setu answered 200.
WebhookRefund_AcksAnyway(h) ==
    /\ At(h, "hookrefund") /\ Return(h)
    /\ acked' = acked \cup {Key(h)}
    /\ \/ refunds' = [refunds EXCEPT ![Key(h)] = @ + 1] /\ NoFault
       \/ UNCHANGED refunds /\ Fault("refund")
    /\ UNCHANGED <<rows, cached, debits, undone, setu, submits, clock, dropped, calls>>

\* A refund that fails is surfaced: Setu is not answered 200 and posts again.
WebhookRefund(h) ==
    LET k == Key(h)
    IN  /\ At(h, "hookrefund") /\ Return(h)
        /\ \/ /\ refunds' = [refunds EXCEPT ![k] = @ + 1]
              /\ acked' = acked \cup {k} /\ NoFault
           \/ UNCHANGED <<refunds, acked>> /\ Fault("refund")
        /\ UNCHANGED <<rows, cached, debits, undone, setu, submits, clock, dropped, calls>>

-----------------------------------------------------------------------------
(* RunScheduledCron *)

\* A run that finds the schedule due calls Pay with the day as its key.
RunScheduledCron(h) ==
    /\ At(h, "idle") /\ calls < MaxCalls
    /\ schedule.active /\ schedule.due <= today
    /\ \E funded \in Funding : Enter(h, today, funded, TRUE)
    /\ calls' = calls + 1
    /\ UNCHANGED <<rows, cached, wallet, rail, clock, dropped, faults>>

\* Mutant: last_run_at is set, the next date is not.
Advanced_KeepsDate ==
    IF schedule.kind = "monthly" THEN schedule ELSE [schedule EXCEPT !.active = FALSE]

\* A monthly schedule moves on from its own date, not from the day of the run.
Advanced ==
    IF schedule.kind = "monthly" THEN [schedule EXCEPT !.due = @ + Period]
    ELSE [schedule EXCEPT !.active = FALSE]

\* The error of AdvanceScheduled is logged.
AdvanceScheduled(h) ==
    /\ At(h, "advance") /\ Return(h)
    /\ \/ schedule' = Advanced /\ NoFault
       \/ UNCHANGED schedule /\ Fault("advance")
    /\ UNCHANGED <<rows, cached, wallet, rail, today, dropped, calls>>

UpdateScheduledActive ==
    /\ schedule' = [schedule EXCEPT !.active = ~@]
    /\ UNCHANGED <<rows, cached, wallet, rail, today, dropped, bounds, proc>>

NextDay ==
    /\ today < LastDay /\ today' = today + 1
    /\ UNCHANGED <<rows, cached, wallet, rail, schedule, dropped, bounds, proc>>

\* The handler dies, or its request context is cancelled.
Crash(h) ==
    /\ ~At(h, "idle") /\ Return(h) /\ Fault("crash") /\ Drop(Key(h))
    /\ UNCHANGED <<rows, cached, wallet, rail, clock, calls>>

-----------------------------------------------------------------------------
PayStep(h) ==
    \/ WalletDebit(h) \/ InsertPayment(h) \/ UndoDebit(h) \/ AttachWalletTxn(h)
    \/ SubmitPayment(h) \/ MarkPaymentSubmitted(h) \/ RecordIdempotency(h)
    \/ FailPayment(h) \/ GiveBack(h) \/ AdvanceScheduled(h)
HookStep(h) == WebhookPaid(h) \/ WebhookBounced(h) \/ WebhookRefund(h)

Next ==
    \/ \E h \in Handlers :
          Pay(h) \/ RunScheduledCron(h) \/ PayStep(h) \/ HookStep(h) \/ Crash(h)
    \/ \E h \in Handlers, k \in Keys : Webhook(h, k)
    \/ \E k \in Keys : SetuSettles(k)
    \/ UpdateScheduledActive \/ NextDay

Spec == Init /\ [][Next]_vars

\* A call runs on, Setu settles what it accepted and posts the outcome until
\* it is answered; nobody has to call Pay and the date need not move.
Fairness ==
    /\ \A h \in Handlers : WF_vars(PayStep(h) \/ HookStep(h))
    /\ \A k \in Keys : WF_vars(SetuSettles(k))
    /\ \A k \in Keys : SF_vars(k \notin acked /\ \E h \in Handlers : Webhook(h, k))

FairSpec == Spec /\ Fairness

-----------------------------------------------------------------------------
(* Properties *)

\* Every variable keeps its shape; a row names a reference only once submitted.
TypeOK ==
    /\ rows \in [Keys -> Rows] /\ cached \subseteq Keys
    /\ debits \subseteq Keys
    /\ undone \in [Keys -> Nat] /\ refunds \in [Keys -> Nat]
    /\ setu \in [Keys -> {"none", "accepted", "paid", "bounced"}]
    /\ submits \in [Keys -> Nat] /\ acked \subseteq Keys
    /\ today \in Days
    /\ schedule \in [kind : Kinds, active : BOOLEAN, due : Nat]
    /\ dropped \subseteq Keys
    /\ calls \in 0..MaxCalls /\ faults \in 0..MaxFaults
    /\ proc \in [Handlers -> Locals]

\* Whatever calls, retries and scheduler runs share a key, Setu is handed the
\* payment at most once, and a key is answered from the cache only after that.
SubmittedOnce ==
    \A k \in Keys : submits[k] <= 1 /\ (k \in cached => submits[k] = 1)

\* A payment reported as succeeded was paid by Setu, was debited if the wallet
\* funds it, and neither Pay's compensation nor a webhook has given it back.
SucceededWasPaid ==
    \A k \in Keys : rows[k].status = "succeeded" =>
        /\ setu[k] = "paid" /\ refunds[k] = 0
        /\ rows[k].funded => k \in debits

\* Setu is told 200 for a payment that bounced only when the wallet that
\* funded it has been refunded: a refund that failed is asked for again.
BouncedIsReturned ==
    \A k \in acked : setu[k] = "bounced" /\ rows[k].funded /\ rows[k].txn => refunds[k] >= 1

\* The scheduler takes an instalment once: the days it has paid are no more
\* than the instalments it has moved past, the runs still on their way to
\* AdvanceScheduled, and the faults that kept one from getting there.
InstalmentTakenOnce ==
    schedule.kind = "monthly" =>
        Cardinality({d \in Days : rows[d].ref})
            <= (schedule.due - 1) \div Period + faults
             + Cardinality({h \in Handlers : proc[h].pc \in {"record", "advance"}
                                             /\ proc[h].cron})

\* Every wallet debit ends in a payment that succeeded or in a refund, unless
\* a step was abandoned at one of the places the code only logs.
DebitResolves ==
    \A k \in Keys : k \in debits ~>
        (rows[k].status = "succeeded" \/ undone[k] + refunds[k] > 0 \/ k \in dropped)
=============================================================================
