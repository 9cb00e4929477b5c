------------------------------ MODULE Payments ------------------------------
(***************************************************************************)
(* payments-service: payment intents against the Razorpay gateway.         *)
(*                                                                         *)
(*   InitiatePayment    opens an order at the gateway, inserts the intent, *)
(*                      holds the amount of an escrow payment              *)
(*   VerifyIntent       the synchronous confirmation after checkout        *)
(*   HandleWebhook      payment.captured, payment.failed, refund.created   *)
(*                      and refund.processed, delivered at least once and  *)
(*                      in any order                                       *)
(*   InitiateRefund     a full or partial refund asked for by payer/payee  *)
(*   UpdateStatus, ReleaseHold                                             *)
(*                                                                         *)
(* Every SQL statement or transaction is a step, so is every call of the   *)
(* gateway; an intent is known by its idempotency key, which is unique.    *)
(***************************************************************************)
EXTENDS Integers, FiniteSetsExt

CONSTANTS
    Keys,           \* idempotency keys, so the intents (bounds a run)
    Orders,         \* order ids the gateway can still hand out (bounds a run)
    Attempts,       \* payment ids: attempts to pay an order (bounds a run)
    Refunds,        \* refund ids of the gateway (bounds a run)
    Handlers,       \* concurrent request handlers
    Amounts,        \* amounts intents are created for, in paise
    Asked,          \* amounts refunds are asked for, 0 for all that is left
    Methods,        \* payment methods requests carry
    Patches,        \* status changes <<old, new>> PATCH requests carry
    Faults,         \* what may fail: "crash", "statement", "dedup", "gateway", "publish"
    MaxCalls        \* InitiatePayment calls in a run (bounds a run)

Statuses == {"pending", "processing", "succeeded", "failed", "refunded",
             "partially_refunded", "disputed"}

ASSUME PaymentConstants ==
    /\ Amounts \subseteq Nat \ {0} /\ Asked \subseteq Nat
    /\ Methods \subseteq {"upi", "card", "wallet", "cod", "escrow"}
    /\ Patches \subseteq Statuses \X Statuses
    /\ Faults \subseteq {"crash", "statement", "dedup", "gateway", "publish"}
    /\ MaxCalls \in Nat
    /\ "none" \notin Orders \cup Attempts \cup Keys \cup Refunds
    /\ Orders \cap Attempts = {}

VARIABLES
    intents,    \* payments.payment_intents, by idempotency key
    young,      \* intents created less than a second ago
    holds,      \* payments.payment_holds, how many by intent
    seen,       \* payments.webhook_events
    applied,    \* payments.refunds_applied
    events,     \* published on the topic; key "none" when it names no intent
    orders,     \* gateway: the amount of each order, 0 when not opened
    attempts,   \* gateway: the payment attempts
    refunds,    \* gateway: the refunds
    acked,      \* gateway: webhooks answered with 200, not delivered again
    bookings,   \* history: how often webhooks booked a refund
    calls,      \* InitiatePayment calls so far
    proc        \* the handlers' local variables

rows == <<intents, young, holds>>
dedup == <<seen, applied>>
gateway == <<orders, attempts, refunds>>
history == <<bookings, calls>>
vars == <<rows, dedup, events, gateway, acked, history, proc>>

FreeRow == [status |-> "free"]
NoAttempt == [state |-> "none"]
NoRefund == [amt |-> 0]
Idle == [pc |-> "idle"]

\* provider_ref starts as the order's id; order keeps that first value.
IntentRow == [status : Statuses, amt : Amounts, refunded : Nat, method : Methods,
              ref : Orders \cup Attempts \cup {"none"}, order : Orders \cup {"none"}]
Used == {k \in Keys : intents[k].status # "free"}

Init ==
    /\ intents = [k \in Keys |-> FreeRow]
    /\ young = {}
    /\ holds = [k \in Keys |-> [open |-> 0, released |-> 0]]
    /\ seen = {} /\ applied = {} /\ events = {} /\ acked = {}
    /\ orders = [o \in Orders |-> 0]
    /\ attempts = [a \in Attempts |-> NoAttempt]
    /\ refunds = [r \in Refunds |-> NoRefund]
    /\ bookings = [r \in Refunds |-> 0]
    /\ calls = 0
    /\ proc = [p \in Handlers |-> Idle]

Goto(p, pc) == proc' = [proc EXCEPT ![p].pc = pc]
\* A request returns; a webhook is answered with 200 whatever became of it.
Return(p) ==
    /\ proc' = [proc EXCEPT ![p] = Idle]
    /\ acked' = acked \cup proc[p].ev

---------------------------------------------------------------------------
(* InitiatePayment                                                         *)

ThroughGateway(method) == method \notin {"cod", "wallet"}

InitiatePayment(p, k, a, method) ==
    /\ proc[p].pc = "idle" /\ calls < MaxCalls
    /\ calls' = calls + 1
    /\ proc' = [proc EXCEPT ![p] =
                  [pc |-> IF ThroughGateway(method) THEN "order" ELSE "create", ev |-> {},
                   key |-> k, amt |-> a, method |-> method, ref |-> "none"]]
    /\ UNCHANGED <<rows, dedup, events, gateway, acked, bookings>>

\* gateway.CreateOrder: on an error the intent is created without a reference.
CreateOrder(p) ==
    LET r == proc[p] IN
    /\ r.pc = "order"
    /\ \/ \E o \in Orders :
            /\ orders[o] = 0
            /\ orders' = [orders EXCEPT ![o] = r.amt]
            /\ proc' = [proc EXCEPT ![p] = [r EXCEPT !.pc = "create", !.ref = o]]
       \/ /\ "gateway" \in Faults
          /\ Goto(p, "create") /\ UNCHANGED orders
    /\ UNCHANGED <<rows, dedup, events, attempts, refunds, acked, history>>

\* CreateIntent: INSERT .. ON CONFLICT (idempotency_key) returns the row there
\* is; WasExisting is decided by the row's age.
CreateIntent(p) ==
    LET r == proc[p] IN
    /\ r.pc = "create"
    /\ IF r.key \in Used
       THEN UNCHANGED <<intents, young>>
       ELSE /\ intents' = [intents EXCEPT ![r.key] =
                             [status |-> "pending", amt |-> r.amt, refunded |-> 0,
                              method |-> r.method, ref |-> r.ref, order |-> r.ref]]
            /\ young' = young \cup {r.key}
    /\ IF r.key \in young'
       THEN /\ proc' = [proc EXCEPT ![p] =
                          IF r.method = "escrow" THEN [r EXCEPT !.pc = "hold"]
                          ELSE [pc |-> "announce", ev |-> {}, type |-> "initiated", key |-> r.key]]
            /\ UNCHANGED acked
       ELSE Return(p)
    /\ UNCHANGED <<holds, dedup, events, gateway, history>>

\* CreateHold, whose failure is logged
CreateHold(p) ==
    LET r == proc[p] IN
    /\ r.pc = "hold"
    /\ \/ holds' = [holds EXCEPT ![r.key].open = @ + 1]
       \/ "statement" \in Faults /\ UNCHANGED holds
    /\ proc' = [proc EXCEPT ![p] = [pc |-> "announce", ev |-> {}, type |-> "initiated",
                                    key |-> r.key]]
    /\ UNCHANGED <<intents, young, dedup, events, gateway, acked, history>>

\* publishEvent, the last step of every operation; a failure is logged.
Announce(p) ==
    LET r == proc[p] IN
    /\ r.pc = "announce"
    /\ \/ events' = events \cup {[type |-> r.type, key |-> r.key]}
       \/ "publish" \in Faults /\ UNCHANGED events
    /\ Return(p)
    /\ UNCHANGED <<rows, dedup, gateway, history>>

---------------------------------------------------------------------------
(* VerifyIntent                                                            *)

Captured(a) == attempts[a].state = "captured"

\* The customer comes back from checkout with an order, a payment and their
\* signature, which the gateway makes for a captured payment only; another
\* signature is refused without effect.  The intent must still carry the
\* order's id in provider_ref, or the request is refused.
VerifyIntent(p, k, a) ==
    /\ proc[p].pc = "idle" /\ k \in Used /\ Captured(a)
    /\ intents[k].ref = attempts[a].order
    /\ proc' = [proc EXCEPT ![p] = [pc |-> "verify", ev |-> {}, key |-> k, pay |-> a]]
    /\ UNCHANGED <<rows, dedup, events, gateway, acked, history>>

\* UpdateStatus(pending -> succeeded, provider_ref := payment id), its error
\* ignored; no event.
Verify_AnyStatus(p) ==
    LET r == proc[p] IN
    /\ r.pc = "verify"
    /\ intents' = [intents EXCEPT ![r.key].status = "succeeded", ![r.key].ref = r.pay]
    /\ Return(p)
    /\ UNCHANGED <<young, holds, dedup, events, gateway, history>>
Verify(p) ==
    LET r == proc[p] IN
    /\ r.pc = "verify"
    /\ intents' = IF intents[r.key].status = "pending"
                  THEN [intents EXCEPT ![r.key].status = "succeeded", ![r.key].ref = r.pay]
                  ELSE intents
    /\ Return(p)
    /\ UNCHANGED <<young, holds, dedup, events, gateway, history>>

---------------------------------------------------------------------------
(* HandleWebhook                                                           *)

Webhooks == [kind : {"captured", "failed"}, id : Attempts]
            \cup [kind : {"created", "processed"}, id : Refunds]
RefundHook(e) == e.kind \in {"created", "processed"}
Happened(e) == IF RefundHook(e) THEN refunds[e.id].amt > 0 ELSE attempts[e.id].state = e.kind
OrderOf(e) == attempts[IF RefundHook(e) THEN refunds[e.id].pay ELSE e.id].order

\* The gateway delivers until it is answered, several deliveries at a time
\* included.
Deliver(p, e) ==
    /\ proc[p].pc = "idle" /\ Happened(e) /\ e \notin acked
    /\ proc' = [proc EXCEPT ![p] = [pc |-> "dedup", ev |-> {e}, hook |-> e, order |-> OrderOf(e)]]
    /\ UNCHANGED <<rows, dedup, events, gateway, acked, history>>

\* MarkWebhookSeen: a known event, and an event whose insert fails, is answered
\* without any effect.
Dedup(p) ==
    LET r == proc[p] IN
    /\ r.pc = "dedup"
    /\ \/ /\ r.hook \notin seen
          /\ seen' = seen \cup {r.hook}
          /\ Goto(p, IF RefundHook(r.hook) THEN "locate" ELSE "update")
          /\ UNCHANGED acked
       \/ /\ r.hook \in seen \/ "dedup" \in Faults
          /\ Return(p) /\ UNCHANGED seen
    /\ UNCHANGED <<rows, applied, events, gateway, history>>

\* validStatusTransitions; "cancelled" violates the table's CHECK.
Transitions ==
    {<<"pending", "processing">>, <<"pending", "succeeded">>, <<"pending", "failed">>,
     <<"processing", "succeeded">>, <<"processing", "failed">>,
     <<"succeeded", "refunded">>, <<"succeeded", "partially_refunded">>,
     <<"partially_refunded", "refunded">>, <<"partially_refunded", "partially_refunded">>}
NewStatus_Either(e) == "succeeded"
NewStatus(e) == IF e.kind = "captured" THEN "succeeded" ELSE "failed"

\* The rows UpdateStatusByProviderRef changes.
Matching_Pending(order, status) ==
    {k \in Used : intents[k].ref = order /\ intents[k].status = "pending"}
Matching(order, status) ==
    {k \in Used : intents[k].ref = order /\ <<intents[k].status, status>> \in Transitions}

\* UpdateStatusByProviderRef, which also replaces provider_ref
Update(p) ==
    LET r == proc[p]
        hit == Matching(r.order, NewStatus(r.hook))
    IN  /\ r.pc = "update"
        /\ intents' = [k \in Keys |->
                         IF k \in hit
                         THEN [intents[k] EXCEPT !.status = NewStatus(r.hook), !.ref = r.hook.id]
                         ELSE intents[k]]
        /\ IF hit # {} THEN Goto(p, "publish") /\ UNCHANGED acked ELSE Return(p)
        /\ UNCHANGED <<young, holds, dedup, events, gateway, history>>

\* GetIntentByProviderRef: the rows a reference names.
Located(order) == {k \in Used : intents[k].ref = order}

\* The event carries the intent found by the order's id, or just the ids.
PublishUpdate(p) ==
    LET r == proc[p] IN
    /\ r.pc = "publish"
    /\ \E k \in IF Located(r.order) # {} /\ "statement" \notin Faults THEN Located(r.order)
              ELSE Located(r.order) \cup {"none"} :
         proc' = [proc EXCEPT ![p] = [pc |-> "announce", ev |-> r.ev,
                                      type |-> NewStatus(r.hook), key |-> k]]
    /\ UNCHANGED <<rows, dedup, events, gateway, acked, history>>

\* ApplyWebhookRefund: the intent by the order's id, or nothing is done.
Locate(p) ==
    LET r == proc[p] IN
    /\ r.pc = "locate"
    /\ IF Located(r.order) = {} THEN Return(p)
       ELSE /\ \E k \in Located(r.order) :
                 proc' = [proc EXCEPT ![p] =
                            [pc |-> "fresh", ev |-> r.ev, key |-> k, refund |-> r.hook.id,
                             amt |-> refunds[r.hook.id].amt, ref |-> "none",
                             left |-> intents[k].amt - intents[k].refunded]]
            /\ UNCHANGED acked
    /\ UNCHANGED <<rows, dedup, events, gateway, history>>

\* RecordRefundIfFresh, then the amount against what the row had left when it
\* was read.
RecordRefund_Always(p) ==
    LET r == proc[p] IN
    /\ r.pc = "fresh"
    /\ applied' = applied \cup {r.refund}
    /\ IF r.amt <= r.left THEN Goto(p, "apply") /\ UNCHANGED acked ELSE Return(p)
    /\ UNCHANGED <<rows, seen, events, gateway, history>>
RecordRefund(p) ==
    LET r == proc[p] IN
    /\ r.pc = "fresh"
    /\ applied' = applied \cup {r.refund}
    /\ IF r.refund \notin applied /\ r.amt <= r.left
       THEN Goto(p, "apply") /\ UNCHANGED acked
       ELSE Return(p)
    /\ UNCHANGED <<rows, seen, events, gateway, history>>

---------------------------------------------------------------------------
(* InitiateRefund                                                          *)

Refundable == {"succeeded", "partially_refunded"}

\* resolveRefundAmount on the row as read; 0 asks for all that is left.
InitiateRefund(p, k, asked) ==
    LET row == intents[k]
        amt == IF asked = 0 THEN row.amt - row.refunded ELSE asked
    IN  /\ proc[p].pc = "idle" /\ k \in Used
        /\ row.status \in Refundable
        /\ amt > 0 /\ amt <= row.amt - row.refunded
        /\ proc' = [proc EXCEPT ![p] =
                      [pc |-> "apply", ev |-> {}, key |-> k, refund |-> "none", amt |-> amt,
                       ref |-> row.ref, left |-> row.amt - row.refunded]]
        /\ UNCHANGED <<rows, dedup, events, gateway, acked, history>>

\* The UPDATE of ApplyRefund
MayApply_Uncapped(row, amt) == row.status \in Refundable
MayApply(row, amt) == row.status \in Refundable /\ row.refunded + amt <= row.amt
Refunded(row, amt) ==
    [row EXCEPT !.refunded = @ + amt,
                !.status = IF row.refunded + amt >= row.amt THEN "refunded"
                           ELSE "partially_refunded"]

\* ApplyRefund, shared by the request and the webhook; only the request calls
\* the gateway afterwards.
ApplyRefund(p) ==
    LET r == proc[p] IN
    /\ r.pc = "apply"
    /\ IF MayApply(intents[r.key], r.amt)
       THEN /\ intents' = [intents EXCEPT ![r.key] = Refunded(@, r.amt)]
            /\ bookings' = [x \in Refunds |-> IF x = r.refund THEN bookings[x] + 1 ELSE bookings[x]]
            /\ proc' = [proc EXCEPT ![p] =
                          IF /\ r.refund = "none" /\ r.ref # "none"
                             /\ ThroughGateway(intents[r.key].method)
                          THEN [r EXCEPT !.pc = "refund"]
                          ELSE [pc |-> "announce", ev |-> r.ev, type |-> "refunded",
                                key |-> r.key]]
            /\ UNCHANGED acked
       ELSE Return(p) /\ UNCHANGED <<intents, bookings>>
    /\ UNCHANGED <<young, holds, dedup, events, gateway, calls>>

---------------------------------------------------------------------------
(* The gateway.                                                            *)

RefundedAtGateway(a) ==
    MapThenSumSet(LAMBDA x : IF refunds[x] # NoRefund /\ refunds[x].pay = a
                             THEN refunds[x].amt ELSE 0, Refunds)
GatewayAccepts(a, amt) ==
    /\ a \in Attempts /\ Captured(a)
    /\ RefundedAtGateway(a) + amt <= orders[attempts[a].order]
NewRefund(a, amt) ==
    \E x \in Refunds :
        /\ refunds[x] = NoRefund
        /\ refunds' = [refunds EXCEPT ![x] = [pay |-> a, amt |-> amt]]

\* gateway.InitiateRefund with the provider_ref of the row as it was read; an
\* order's id, or more than is left, is an error, which is logged.
GatewayRefund(p) ==
    LET r == proc[p] IN
    /\ r.pc = "refund"
    /\ \/ GatewayAccepts(r.ref, r.amt) /\ NewRefund(r.ref, r.amt)
       \/ /\ ~GatewayAccepts(r.ref, r.amt) \/ "gateway" \in Faults
          /\ UNCHANGED refunds
    /\ proc' = [proc EXCEPT ![p] = [pc |-> "announce", ev |-> {}, type |-> "refunded",
                                    key |-> r.key]]
    /\ UNCHANGED <<rows, dedup, events, orders, attempts, acked, history>>

\* The customer attempts to pay an order they were given; an order is captured
\* once, and attempts may fail before.
Attempt(a, o, state) ==
    /\ attempts[a] = NoAttempt
    /\ \E k \in Used : intents[k].order = o
    /\ ~\E b \in Attempts : Captured(b) /\ attempts[b].order = o
    /\ attempts' = [attempts EXCEPT ![a] = [state |-> state, order |-> o]]
    /\ UNCHANGED <<rows, dedup, events, orders, refunds, acked, history, proc>>

\* A refund made from the gateway's dashboard.
DashboardRefund(a, amt) ==
    /\ GatewayAccepts(a, amt) /\ NewRefund(a, amt)
    /\ UNCHANGED <<rows, dedup, events, orders, attempts, acked, history, proc>>

---------------------------------------------------------------------------
(* The small operations, time and failures.                                *)

EventType(status) == IF status \in {"succeeded", "failed"} THEN status ELSE "status_changed"

\* UpdateStatus: WHERE status = $old, and no look at validStatusTransitions
UpdateStatus(p, k, old, new) ==
    /\ proc[p].pc = "idle" /\ k \in Used
    /\ intents[k].status = old
    /\ intents' = [intents EXCEPT ![k].status = new]
    /\ proc' = [proc EXCEPT ![p] = [pc |-> "announce", ev |-> {}, type |-> EventType(new),
                                    key |-> k]]
    /\ UNCHANGED <<young, holds, dedup, events, gateway, acked, history>>

\* ReleaseHold by the payer or the payee: every hold that is still open
ReleaseHold(k) ==
    /\ holds[k].open > 0
    /\ holds' = [holds EXCEPT ![k] = [open |-> 0, released |-> @.released + @.open]]
    /\ UNCHANGED <<intents, young, dedup, events, gateway, acked, history, proc>>

\* A second passes since CreateIntent.
Age(k) ==
    /\ k \in young /\ young' = young \ {k}
    /\ UNCHANGED <<intents, holds, dedup, events, gateway, acked, history, proc>>

\* A crash: no answer, the gateway delivers a webhook again.
Crash(p) ==
    /\ "crash" \in Faults /\ proc[p].pc # "idle"
    /\ proc' = [proc EXCEPT ![p] = Idle]
    /\ UNCHANGED <<rows, dedup, events, gateway, acked, history>>

\* A failed statement: a request returns the error, a webhook logs it.
Fail(p) ==
    /\ "statement" \in Faults
    /\ proc[p].pc \in {"create", "verify", "update", "locate", "fresh", "apply"}
    /\ Return(p)
    /\ UNCHANGED <<rows, dedup, events, gateway, history>>

---------------------------------------------------------------------------
HandlerStep(p) ==
    \/ CreateOrder(p) \/ CreateIntent(p) \/ CreateHold(p) \/ Announce(p)
    \/ Verify(p)
    \/ Dedup(p) \/ Update(p) \/ PublishUpdate(p) \/ Locate(p) \/ RecordRefund(p)
    \/ ApplyRefund(p) \/ GatewayRefund(p)

Request(p) ==
    \/ \E k \in Keys, a \in Amounts, method \in Methods : InitiatePayment(p, k, a, method)
    \/ \E k \in Keys, a \in Attempts : VerifyIntent(p, k, a)
    \/ \E e \in Webhooks : Deliver(p, e)
    \/ \E k \in Keys, a \in Asked : InitiateRefund(p, k, a)
    \/ \E k \in Keys, c \in Patches : UpdateStatus(p, k, c[1], c[2])

Next ==
    \/ \E p \in Handlers : HandlerStep(p) \/ Request(p) \/ Crash(p) \/ Fail(p)
    \/ \E a \in Attempts, o \in Orders, s \in {"captured", "failed"} : Attempt(a, o, s)
    \/ \E a \in Attempts, amt \in Asked \ {0} : DashboardRefund(a, amt)
    \/ \E k \in Keys : ReleaseHold(k) \/ Age(k)

Spec == Init /\ [][Next]_vars

\* Handlers run on, and the gateway's retry loop gets an unanswered webhook
\* through some time, other requests notwithstanding.
Fairness ==
    /\ \A p \in Handlers : WF_vars(HandlerStep(p))
    /\ \A e \in Webhooks : SF_vars(\E p \in Handlers : Deliver(p, e))
FairSpec == Spec /\ Fairness

---------------------------------------------------------------------------
(* Properties.                                                             *)

Quiet == \A p \in Handlers : proc[p] = Idle

EventTypes == {"initiated", "succeeded", "failed", "status_changed", "refunded"}
Events == [type : EventTypes, key : Keys \cup {"none"}]
HookSets == {{e} : e \in Webhooks}
Refs == Orders \cup Attempts \cup {"none"}
Initiating == [pc : {"order", "create", "hold"}, ev : {{}}, key : Keys, amt : Amounts,
               method : Methods, ref : Orders \cup {"none"}]
Announcing == [pc : {"announce"}, ev : HookSets \cup {{}}, type : EventTypes, key : Keys \cup {"none"}]
Verifying == [pc : {"verify"}, ev : {{}}, key : Keys, pay : Attempts]
Handling == [pc : {"dedup", "update", "publish", "locate"}, ev : HookSets, hook : Webhooks,
             order : Orders]
Recording == [pc : {"fresh"}, ev : HookSets, key : Keys, refund : Refunds, amt : Nat \ {0},
              ref : {"none"}, left : Int]
Refunding == [pc : {"apply", "refund"}, ev : HookSets \cup {{}}, key : Keys,
              refund : Refunds \cup {"none"}, amt : Nat \ {0}, ref : Refs, left : Int]
Locals == {Idle} \cup Initiating \cup Announcing \cup Verifying \cup Handling \cup Recording
          \cup Refunding

\* Type invariant: every column and every handler's locals stay in range.
TypeOK ==
    /\ intents \in [Keys -> IntentRow \cup {FreeRow}]
    /\ young \subseteq Used
    /\ holds \in [Keys -> [open : Nat, released : Nat]]
    /\ seen \subseteq Webhooks /\ acked \subseteq Webhooks
    /\ applied \subseteq Refunds
    /\ events \subseteq Events
    /\ orders \in [Orders -> Amounts \cup {0}]
    /\ attempts \in [Attempts -> [state : {"captured", "failed"}, order : Orders] \cup {NoAttempt}]
    /\ refunds \in [Refunds -> [pay : Attempts, amt : Nat \ {0}] \cup {NoRefund}]
    /\ bookings \in [Refunds -> Nat]
    /\ calls \in 0 .. MaxCalls
    /\ proc \in [Handlers -> Locals]

\* An intent counts as paid only if the gateway captured a payment of the very
\* order opened for it: no verification of another order's payment, no webhook
\* and no order of the two makes it succeed.
SucceededWasPaid ==
    \A k \in Used : intents[k].status \in Refundable \cup {"refunded"} =>
        \E a \in Attempts : Captured(a) /\ attempts[a].order = intents[k].order

\* Whatever verifications, webhooks and refunds run at the same time, an
\* intent's status moves along validStatusTransitions.
StatusesFollowTable ==
    [][\A k \in Used : intents'[k].status # intents[k].status =>
         <<intents[k].status, intents'[k].status>> \in Transitions]_vars

\* A captured payment the gateway has been answered for is not still waited
\* for, once no handler runs: deliveries that overlap do not lose it.
AckedCaptureApplied ==
    Quiet => \A a \in Attempts : Captured(a) /\ [kind |-> "captured", id |-> a] \in acked =>
        \A k \in Used : intents[k].order = attempts[a].order =>
            intents[k].status \notin {"pending", "processing"}

\* Concurrent refunds, by request and by webhook, never add up to more than was
\* paid, and the status says exactly whether part or all has been refunded.
RefundBalances ==
    \A k \in Used :
        /\ intents[k].refunded <= intents[k].amt
        /\ intents[k].status = "refunded" <=> intents[k].refunded = intents[k].amt
        /\ intents[k].status = "partially_refunded" <=>
             intents[k].refunded \in 1 .. intents[k].amt - 1

\* refund.created and refund.processed name one refund, each delivered several
\* times: webhooks book a refund at most once, after it was recorded.
RefundBookedOnce ==
    \A x \in Refunds : bookings[x] <= 1 /\ (bookings[x] = 1 => x \in applied)

\* A captured payment does not leave its intent waiting for ever.
CaptureSettles ==
    \A a \in Attempts, k \in Keys :
        (k \in Used /\ Captured(a) /\ attempts[a].order = intents[k].order)
            ~> intents[k].status \notin {"pending", "processing"}
=============================================================================
