------------------------------- MODULE Orders -------------------------------
(***************************************************************************)
(* commerce-service: orders for one product variant, the stock they        *)
(* reserve and take, and the payment events that reach them through        *)
(* shared/kafka's consumer, statement by statement.  An order is known by  *)
(* its idempotency key, which is UNIQUE for a customer.                    *)
(***************************************************************************)
EXTENDS Naturals, FiniteSets

CONSTANTS
    Keys,           \* Idempotency-Keys of checkouts
    Events,         \* ids of events payments-service may publish
    Handlers,       \* goroutines serving requests and Kafka partitions
    Quantities,     \* quantities a cart may hold
    Opening,        \* units in stock at first
    MaxRetries,     \* ConsumerConfig.MaxRetries
    MaxFaults       \* bound: crashes and failed statements

ASSUME OrdersAssumption ==
    /\ IsFiniteSet(Keys) /\ IsFiniteSet(Events)
    /\ Quantities \subseteq Nat \ {0}
    /\ {Opening, MaxRetries, MaxFaults} \subseteq Nat

VARIABLES
    orders,     \* orders, by key
    total,      \* inventory_items.total_qty
    reserved,   \* inventory_items.reserved_qty
    hold,       \* the order's row of inventory_reservations, and whether its 30 minutes are over
    event,      \* what payments-service has published
    marks,      \* the consumer's deduplication keys in Redis
    committed,  \* messages no consumer will be given again
    dead,       \* messages on the dead-letter topic
    proc,       \* what each goroutine is doing
    faults,     \* how many have happened
    handled,    \* history: events whose handler returned without an error
    kept,       \* history: orders whose units were taken while reserved for them
    stranded    \* history: orders paid for without a step that was due

stockVars == <<total, reserved, hold>>
kafkaVars == <<event, marks, committed, dead, handled>>
vars == <<orders, stockVars, kafkaVars, proc, faults, kept, stranded>>

NoOrder == [status |-> "none", pay |-> "none", qty |-> 0, cod |-> FALSE, refund |-> FALSE]
NoEvent == [type |-> "none"]
Idle    == [pc |-> "idle"]

Placed(k) == orders[k] # NoOrder
Held == {k \in Keys : hold[k] # "none"}

\* The units ordered by the orders in S, one by one, and how many there are.
Units(S) == UNION {{k} \X (1..orders[k].qty) : k \in S}
Quantity(S) == Cardinality(Units(S))

\* GREATEST(0, a - b)
Floor(a, b) == IF a < b THEN 0 ELSE a - b

Init ==
    /\ orders = [k \in Keys |-> NoOrder]
    /\ total = Opening /\ reserved = 0
    /\ hold = [k \in Keys |-> "none"]
    /\ event = [e \in Events |-> NoEvent]
    /\ marks = {} /\ committed = {} /\ dead = {} /\ handled = {}
    /\ proc = [h \in Handlers |-> Idle]
    /\ faults = 0 /\ kept = {} /\ stranded = {}

At(h, pc) == proc[h].pc = pc
Goto(h, pc) == proc' = [proc EXCEPT ![h].pc = pc]
End(h) == proc' = [proc EXCEPT ![h] = Idle]

----------------------------------------------------------------------------
(* Stock *)

\* The reservation is deleted and reserved_qty is left as it was.
DeductStock_WithoutReserved(k) ==
    /\ total' = Floor(total, orders[k].qty)
    /\ UNCHANGED reserved
    /\ hold' = [hold EXCEPT ![k] = "none"]
    /\ kept' = IF k \in Held THEN kept \cup {k} ELSE kept

\* DeductStock: one transaction, whether or not the reservation is still there.
DeductStock(k) ==
    /\ total' = Floor(total, orders[k].qty)
    /\ reserved' = Floor(reserved, orders[k].qty)
    /\ hold' = [hold EXCEPT ![k] = "none"]
    /\ kept' = IF k \in Held THEN kept \cup {k} ELSE kept

\* What ExpireInventoryReservations may take a reservation from.
Unpaid(k) ==
    /\ orders[k].status \in {"payment_pending", "cancelled"}
    /\ orders[k].pay \in {"pending", "failed"}

Age(k) ==
    /\ hold[k] = "live"
    /\ hold' = [hold EXCEPT ![k] = "expired"]
    /\ UNCHANGED <<orders, total, reserved, kafkaVars, proc, faults, kept, stranded>>

\* The sweep, once a minute, in one transaction.
ExpireInventoryReservations ==
    LET expired == {k \in Keys : hold[k] = "expired" /\ Unpaid(k)} IN
    /\ expired # {}
    /\ reserved' = Floor(reserved, Quantity(expired))
    /\ hold' = [k \in Keys |-> IF k \in expired THEN "none" ELSE hold[k]]
    /\ UNCHANGED <<orders, total, kafkaVars, proc, faults, kept, stranded>>

----------------------------------------------------------------------------
(* Checkout *)

\* The key is new and priceCart finds enough in stock.
Checkout(h, k, q, cod) ==
    /\ proc[h] = Idle
    /\ ~Placed(k) /\ reserved + q <= total
    /\ proc' = [proc EXCEPT ![h] = [pc |-> "create", key |-> k, qty |-> q, cod |-> cod]]
    /\ UNCHANGED <<orders, stockVars, kafkaVars, faults, kept, stranded>>

\* ON CONFLICT DO UPDATE SET status.
CreateOrder_Upsert(h) ==
    LET r == proc[h] IN
    /\ At(h, "create")
    /\ IF Placed(r.key)
       THEN /\ End(h)
            /\ orders' = [orders EXCEPT ![r.key].status = "payment_pending"]
       ELSE /\ Goto(h, "stock")
            /\ orders' = [orders EXCEPT ![r.key] =
                   [status |-> IF r.cod THEN "confirmed" ELSE "payment_pending",
                    pay |-> "pending", qty |-> r.qty, cod |-> r.cod, refund |-> FALSE]]
    /\ UNCHANGED <<stockVars, kafkaVars, faults, kept, stranded>>

\* The insert; on a conflict the order that is there is the answer.
CreateOrder(h) ==
    LET r == proc[h] IN
    /\ At(h, "create")
    /\ IF Placed(r.key)
       THEN End(h) /\ UNCHANGED orders
       ELSE /\ Goto(h, "stock")
            /\ orders' = [orders EXCEPT ![r.key] =
                   [status |-> IF r.cod THEN "confirmed" ELSE "payment_pending",
                    pay |-> "pending", qty |-> r.qty, cod |-> r.cod, refund |-> FALSE]]
    /\ UNCHANGED <<stockVars, kafkaVars, faults, kept, stranded>>

\* priceCart's look at the stock is taken for enough.
ReserveStock_Unchecked(h) ==
    LET k == proc[h].key IN
    /\ At(h, "stock") /\ ~proc[h].cod
    /\ End(h)
    /\ reserved' = reserved + orders[k].qty
    /\ hold' = [hold EXCEPT ![k] = "live"]
    /\ stranded' = IF Unpaid(k) THEN stranded ELSE stranded \cup {k}
    /\ UNCHANGED <<orders, total, kafkaVars, faults, kept>>

\* ReserveStock looks at the stock under the row's lock; that it found too
\* little is only logged.  A client that retried may know the order, and may
\* even have paid for it, by now.
ReserveStock(h) ==
    LET k == proc[h].key IN
    /\ At(h, "stock") /\ ~proc[h].cod
    /\ End(h)
    /\ IF reserved + orders[k].qty <= total
       THEN /\ reserved' = reserved + orders[k].qty
            /\ hold' = [hold EXCEPT ![k] = "live"]
            /\ stranded' = IF Unpaid(k) THEN stranded ELSE stranded \cup {k}
       ELSE UNCHANGED <<reserved, hold, stranded>>
    /\ UNCHANGED <<orders, total, kafkaVars, faults, kept>>

DeductForCOD(h) ==
    /\ At(h, "stock") /\ proc[h].cod
    /\ End(h)
    /\ DeductStock(proc[h].key)
    /\ UNCHANGED <<orders, kafkaVars, faults, stranded>>

----------------------------------------------------------------------------
(* The consumer of payment events: mark, handle, retry, commit *)

\* payments-service's publishEvent: the message key is empty or the caller's id,
\* never the order, hence any partition and any order of the events of an order;
\* an order may see several payments, failed and captured.
Publish(e, type, k) ==
    /\ event[e] = NoEvent /\ Placed(k) /\ ~orders[k].cod
    /\ event' = [event EXCEPT ![e] = [type |-> type, key |-> k]]
    /\ UNCHANGED <<orders, stockVars, marks, committed, dead, handled, proc, faults, kept, stranded>>

\* A partition that moves is read again from the last commit, while its former
\* owner may still be at work.
FetchMessage(h, e) ==
    /\ proc[h] = Idle
    /\ event[e] # NoEvent /\ e \notin committed
    /\ proc' = [proc EXCEPT ![h] = [pc |-> "seen", event |-> e, tries |-> 0]]
    /\ UNCHANGED <<orders, stockVars, kafkaVars, faults, kept, stranded>>

\* Deduplication by what an event says, not by its id.
SetNX_ByContent(h) ==
    LET e == proc[h].event IN
    /\ At(h, "seen")
    /\ Goto(h, IF \E x \in marks : event[x] = event[e] THEN "commit" ELSE "handle")
    /\ marks' = marks \cup {e}
    /\ UNCHANGED <<orders, stockVars, event, committed, dead, handled, faults, kept, stranded>>

\* SetNX: the event counts as consumed before it is handled.
SetNX(h) ==
    LET e == proc[h].event IN
    /\ At(h, "seen")
    /\ Goto(h, IF e \in marks THEN "commit" ELSE "handle")
    /\ marks' = marks \cup {e}
    /\ UNCHANGED <<orders, stockVars, event, committed, dead, handled, faults, kept, stranded>>

Handling(h, type) == At(h, "handle") /\ event[proc[h].event].type = type
OrderOf(h) == event[proc[h].event].key

Returned(h) ==
    /\ Goto(h, "commit")
    /\ handled' = handled \cup {proc[h].event}
    /\ UNCHANGED <<event, marks, committed, dead>>

\* ApplyVerifiedPaymentEvent reads the order once.
GetOrder(h) ==
    /\ Handling(h, "succeeded")
    /\ IF orders[OrderOf(h)].pay = "paid"
       THEN Returned(h)
       ELSE Goto(h, "pay") /\ UNCHANGED kafkaVars
    /\ UNCHANGED <<orders, stockVars, faults, kept, stranded>>

\* UpdatePaymentStatus and UpdateOrderStatus write whatever was there.
MarkPaid(h) ==
    /\ At(h, "pay")
    /\ Goto(h, "confirm")
    /\ orders' = [orders EXCEPT ![OrderOf(h)].pay = "paid"]
    /\ UNCHANGED <<stockVars, kafkaVars, faults, kept, stranded>>

\* A payment for an order cancelled meanwhile is left alone.
Confirm_UnlessCancelled(h) ==
    /\ At(h, "confirm")
    /\ IF orders[OrderOf(h)].status = "cancelled"
       THEN Returned(h) /\ UNCHANGED orders
       ELSE /\ Goto(h, "deduct")
            /\ orders' = [orders EXCEPT ![OrderOf(h)].status = "confirmed"]
            /\ UNCHANGED kafkaVars
    /\ UNCHANGED <<stockVars, faults, kept, stranded>>

Confirm(h) ==
    /\ At(h, "confirm")
    /\ Goto(h, "deduct")
    /\ orders' = [orders EXCEPT ![OrderOf(h)].status = "confirmed"]
    /\ UNCHANGED <<stockVars, kafkaVars, faults, kept, stranded>>

Deduct(h) ==
    /\ At(h, "deduct")
    /\ DeductStock(OrderOf(h))
    /\ Returned(h)
    /\ UNCHANGED <<orders, faults, stranded>>

\* MarkPaymentFailed.  Its ReleaseReservation is a DELETE with a LIMIT, which
\* Postgres refuses: the transaction rolls back, and that is only logged.
MarkPaymentFailed(h) ==
    /\ Handling(h, "failed")
    /\ orders' = [orders EXCEPT ![OrderOf(h)].pay = "failed"]
    /\ Returned(h)
    /\ UNCHANGED <<stockVars, faults, kept, stranded>>

\* MarkOrderRefundedByPayment, for the order that carries the intent's id.
MarkOrderRefunded(h) ==
    LET k == OrderOf(h) IN
    /\ Handling(h, "refunded")
    /\ orders' = IF orders[k].refund /\ orders[k].pay \in {"paid", "refund_pending"}
                 THEN [orders EXCEPT ![k].pay = "refunded"] ELSE orders
    /\ Returned(h)
    /\ UNCHANGED <<stockVars, faults, kept, stranded>>

\* The write to the dead-letter topic and the commit are repeated until they succeed.
SendToDLQ(h) ==
    /\ At(h, "dead")
    /\ Goto(h, "commit")
    /\ dead' = dead \cup {proc[h].event}
    /\ UNCHANGED <<orders, stockVars, event, marks, committed, handled, faults, kept, stranded>>

CommitMessage(h) ==
    /\ At(h, "commit")
    /\ End(h)
    /\ committed' = committed \cup {proc[h].event}
    /\ UNCHANGED <<orders, stockVars, event, marks, dead, handled, faults, kept, stranded>>

----------------------------------------------------------------------------
(* Cancellation *)

\* CancelOrder reads the order once.
CancelOrder(h, k) ==
    /\ proc[h] = Idle
    /\ orders[k].status \in {"payment_pending", "confirmed"}
    /\ proc' = [proc EXCEPT ![h] =
           [pc |-> "cancel", key |-> k, paid |-> orders[k].pay = "paid" /\ ~orders[k].cod]]
    /\ UNCHANGED <<orders, stockVars, kafkaVars, faults, kept, stranded>>

MarkCancelled(h) ==
    /\ At(h, "cancel")
    /\ orders' = [orders EXCEPT ![proc[h].key].status = "cancelled"]
    /\ IF proc[h].paid THEN Goto(h, "refund") ELSE End(h)
    /\ UNCHANGED <<stockVars, kafkaVars, faults, kept, stranded>>

\* FindOrderIntent and InitiateRefund.  payments-service, external, may refuse;
\* when it agrees it publishes payment.refunded, unless that fails.
InitiateRefund(h) ==
    /\ At(h, "refund")
    /\ \/ End(h) /\ UNCHANGED event
       \/ /\ Goto(h, "stamp")
          /\ \/ UNCHANGED event
             \/ \E e \in Events :
                   /\ event[e] = NoEvent
                   /\ event' = [event EXCEPT ![e] = [type |-> "refunded", key |-> proc[h].key]]
    /\ UNCHANGED <<orders, stockVars, marks, committed, dead, handled, faults, kept, stranded>>

StampOrderRefundIntent(h) ==
    LET k == proc[h].key IN
    /\ At(h, "stamp")
    /\ End(h)
    /\ orders' = IF orders[k].pay = "paid"
                 THEN [orders EXCEPT ![k].pay = "refund_pending", ![k].refund = TRUE] ELSE orders
    /\ UNCHANGED <<stockVars, kafkaVars, faults, kept, stranded>>

----------------------------------------------------------------------------
(* Failures *)

Fault == faults < MaxFaults /\ faults' = faults + 1

\* A crash, a shutdown, or a statement of a request that fails.  Between the
\* payment and the stock it leaves the order half applied.
Abort(h) ==
    /\ Fault
    /\ proc[h] # Idle
    /\ End(h)
    /\ stranded' = IF proc[h].pc \in {"confirm", "deduct"}
                   THEN stranded \cup {OrderOf(h)} ELSE stranded
    /\ UNCHANGED <<orders, stockVars, kafkaVars, kept>>

\* Redis does not answer: the event is handled all the same.
DedupFails(h) ==
    /\ Fault
    /\ At(h, "seen")
    /\ Goto(h, "handle")
    /\ UNCHANGED <<orders, stockVars, kafkaVars, kept, stranded>>

\* The handler returns an error: again from its first line, where the order
\* may look paid by now, or to the dead letters.
HandlerFails(h) ==
    LET r == proc[h] IN
    /\ Fault
    /\ r.pc \in {"pay", "confirm"} \/ (r.pc = "handle" /\ ~Handling(h, "refunded"))
    /\ proc' = [proc EXCEPT ![h] = IF r.tries < MaxRetries
           THEN [r EXCEPT !.pc = "handle", !.tries = r.tries + 1]
           ELSE [r EXCEPT !.pc = "dead"]]
    /\ stranded' = IF r.pc = "confirm" THEN stranded \cup {OrderOf(h)} ELSE stranded
    /\ UNCHANGED <<orders, stockVars, kafkaVars, kept>>

\* A failure that is only logged: of DeductStock, or of a refund's mark.
Logged(h) ==
    /\ Fault
    /\ At(h, "deduct") \/ Handling(h, "refunded")
    /\ Returned(h)
    /\ stranded' = IF At(h, "deduct") THEN stranded \cup {OrderOf(h)} ELSE stranded
    /\ UNCHANGED <<orders, stockVars, kept>>

----------------------------------------------------------------------------
Step(h) ==
    \/ CreateOrder(h) \/ ReserveStock(h) \/ DeductForCOD(h)
    \/ SetNX(h) \/ GetOrder(h) \/ MarkPaid(h) \/ Confirm(h) \/ Deduct(h)
    \/ MarkPaymentFailed(h) \/ MarkOrderRefunded(h) \/ SendToDLQ(h) \/ CommitMessage(h)
    \/ MarkCancelled(h) \/ InitiateRefund(h) \/ StampOrderRefundIntent(h)

Next ==
    \/ \E h \in Handlers :
        \/ Step(h) \/ Abort(h) \/ DedupFails(h) \/ HandlerFails(h) \/ Logged(h)
        \/ \E k \in Keys, q \in Quantities, cod \in BOOLEAN : Checkout(h, k, q, cod)
        \/ \E e \in Events : FetchMessage(h, e)
        \/ \E k \in Keys : CancelOrder(h, k)
    \/ \E e \in Events, type \in {"succeeded", "failed"}, k \in Keys : Publish(e, type, k)
    \/ \E k \in Keys : Age(k)
    \/ ExpireInventoryReservations

Spec == Init /\ [][Next]_vars

----------------------------------------------------------------------------
(* Properties *)

Statuses == {"payment_pending", "confirmed", "cancelled"}
PayStatuses == {"pending", "paid", "failed", "refund_pending", "refunded"}
OrderRows == [status : Statuses, pay : PayStatuses, qty : Quantities, cod : BOOLEAN,
              refund : BOOLEAN]
Messages == [type : {"succeeded", "failed", "refunded"}, key : Keys]
ConsumerPcs == {"seen", "handle", "pay", "confirm", "deduct", "dead", "commit"}
Locals ==
    [pc : {"create", "stock"}, key : Keys, qty : Quantities, cod : BOOLEAN]
    \cup [pc : ConsumerPcs, event : Events, tries : 0..MaxRetries]
    \cup [pc : {"cancel", "refund", "stamp"}, key : Keys, paid : BOOLEAN]

\* Tables, counters and requests stay in range.
TypeOK ==
    /\ orders \in [Keys -> OrderRows \cup {NoOrder}]
    /\ total \in Nat /\ reserved \in Nat
    /\ hold \in [Keys -> {"none", "live", "expired"}]
    /\ event \in [Events -> Messages \cup {NoEvent}]
    /\ marks \subseteq Events /\ committed \subseteq Events /\ dead \subseteq Events
    /\ handled \subseteq Events
    /\ proc \in [Handlers -> Locals \cup {Idle}]
    /\ faults \in 0..MaxFaults
    /\ kept \subseteq Keys /\ stranded \subseteq Keys

\* The counters never promise more than there is, nor keep back units that no
\* reservation explains: the floors of the two counters hide nothing.
StockSound == reserved <= total /\ reserved <= Quantity(Held)

\* Late payments, repeated ones and cash on delivery take units without a
\* reservation.  Still, what is reserved, what was taken under a reservation
\* and what is on offer never add up to more than the opening stock.
PromisesKept == Quantity(Held \cup kept) + total <= Opening + reserved

\* The consumer marks an event before it handles it, and partitions move: every
\* event that is marked or committed and will have no effect has cost a fault.
InHand(e) ==
    \E h \in Handlers :
        proc[h].pc \in {"handle", "pay", "confirm", "deduct", "dead"} /\ proc[h].event = e
LostEvents == {e \in marks \cup committed : e \notin handled \cup dead /\ ~InHand(e)}
LostByFault == Cardinality(LostEvents) <= faults

\* An order that is paid for does not stay pending: somebody is about to
\* confirm it, or a step of that was abandoned.
PaidIsConfirmed ==
    \A k \in Keys :
        orders[k].pay = "paid" /\ orders[k].status = "payment_pending" =>
            k \in stranded \/ \E h \in Handlers : At(h, "confirm") /\ OrderOf(h) = k

\* No reservation is forgotten: either the sweep will end it when its time is
\* over, or somebody is on the way to the sale, or a step of that was abandoned.
HoldHasEnd ==
    \A k \in Held :
        \/ Unpaid(k) \/ k \in stranded
        \/ \E h \in Handlers : proc[h].pc \in {"confirm", "deduct"} /\ OrderOf(h) = k
=============================================================================
