---------------------------- MODULE OrdersProofs ----------------------------
(***************************************************************************)
(* Theorems of Orders, for any keys, events, handlers, quantities, opening  *)
(* stock and bounds.                                                        *)
(***************************************************************************)
EXTENDS Orders, FiniteSetTheorems, TLAPS

CheckoutPcs == {"create", "stock"}
CancelPcs == {"cancel", "refund", "stamp"}

\* What a goroutine refers to is there.
Referred ==
    /\ \A e \in Events : event[e] # NoEvent => Placed(event[e].key)
    /\ \A h \in Handlers :
        /\ proc[h].pc \in ConsumerPcs => event[proc[h].event] # NoEvent
        /\ proc[h].pc \in CancelPcs => Placed(proc[h].key)

TInv == TypeOK /\ Referred

\* A message about to be committed has had its effect, or its mark is older.
Answered ==
    \A h \in Handlers : At(h, "commit") => proc[h].event \in marks \cup handled \cup dead

\* Units are reserved and taken once for an order.
OncePerOrder ==
    /\ \A k \in Held \cup kept : Placed(k)
    /\ \A h \in Handlers : At(h, "stock") =>
        /\ Placed(proc[h].key) /\ proc[h].key \notin Held \cup kept
        /\ \A g \in Handlers : At(g, "stock") /\ proc[g].key = proc[h].key => g = h
    /\ Held \cap kept = {}

\* What an order that is paid for, and a reservation, may count on.
PaidServed(k) ==
    orders[k].pay = "paid" /\ orders[k].status = "payment_pending" =>
        k \in stranded \/ \E h \in Handlers : At(h, "confirm") /\ OrderOf(h) = k

HoldServed(k) ==
    hold[k] # "none" =>
        \/ Unpaid(k) \/ k \in stranded
        \/ \E h \in Handlers : proc[h].pc \in {"confirm", "deduct"} /\ OrderOf(h) = k

-----------------------------------------------------------------------------
(* Goroutines *)

LEMMA IdleFacts == Idle.pc = "idle"
BY DEF Idle

LEMMA CheckoutFacts ==
    ASSUME TypeOK, NEW h \in Handlers, proc[h].pc \in CheckoutPcs
    PROVE  /\ proc[h] \in [pc : CheckoutPcs, key : Keys, qty : Quantities, cod : BOOLEAN]
           /\ proc[h].key \in Keys /\ proc[h].qty \in Quantities /\ proc[h].cod \in BOOLEAN
<1>1. proc[h] \in Locals \cup {Idle}
  BY DEF TypeOK
<1>2. proc[h] # Idle
  BY DEF Idle, CheckoutPcs
<1>3. proc[h] \notin [pc : ConsumerPcs, event : Events, tries : 0..MaxRetries]
      /\ proc[h] \notin [pc : CancelPcs, key : Keys, paid : BOOLEAN]
  BY DEF CheckoutPcs, ConsumerPcs, CancelPcs
<1> QED
  BY <1>1, <1>2, <1>3 DEF Locals, CheckoutPcs, CancelPcs

LEMMA ConsumerFacts ==
    ASSUME TypeOK, NEW h \in Handlers, proc[h].pc \in ConsumerPcs
    PROVE  /\ proc[h] \in [pc : ConsumerPcs, event : Events, tries : 0..MaxRetries]
           /\ proc[h].event \in Events /\ proc[h].tries \in 0..MaxRetries
<1>1. proc[h] \in Locals \cup {Idle}
  BY DEF TypeOK
<1>2. proc[h] # Idle
  BY DEF Idle, ConsumerPcs
<1>3. proc[h] \notin [pc : CheckoutPcs, key : Keys, qty : Quantities, cod : BOOLEAN]
      /\ proc[h] \notin [pc : CancelPcs, key : Keys, paid : BOOLEAN]
  BY DEF CheckoutPcs, ConsumerPcs, CancelPcs
<1> QED
  BY <1>1, <1>2, <1>3 DEF Locals, CheckoutPcs, CancelPcs

LEMMA CancelFacts ==
    ASSUME TypeOK, NEW h \in Handlers, proc[h].pc \in CancelPcs
    PROVE  /\ proc[h] \in [pc : CancelPcs, key : Keys, paid : BOOLEAN]
           /\ proc[h].key \in Keys /\ proc[h].paid \in BOOLEAN
<1>1. proc[h] \in Locals \cup {Idle}
  BY DEF TypeOK
<1>2. proc[h] # Idle
  BY DEF Idle, CancelPcs
<1>3. proc[h] \notin [pc : CheckoutPcs, key : Keys, qty : Quantities, cod : BOOLEAN]
      /\ proc[h] \notin [pc : ConsumerPcs, event : Events, tries : 0..MaxRetries]
  BY DEF CheckoutPcs, ConsumerPcs, CancelPcs
<1> QED
  BY <1>1, <1>2, <1>3 DEF Locals, CheckoutPcs, CancelPcs

LEMMA EnterFacts ==
    ASSUME TypeOK, NEW h \in Handlers, NEW x \in Locals \cup {Idle}, proc' = [proc EXCEPT ![h] = x]
    PROVE  /\ proc' \in [Handlers -> Locals \cup {Idle}]
           /\ proc'[h] = x
           /\ \A g \in Handlers \ {h} : proc'[g] = proc[g]
BY DEF TypeOK

LEMMA EndFacts ==
    ASSUME TypeOK, NEW h \in Handlers, End(h)
    PROVE  /\ proc' \in [Handlers -> Locals \cup {Idle}]
           /\ proc'[h].pc = "idle"
           /\ \A g \in Handlers \ {h} : proc'[g] = proc[g]
BY EnterFacts, IdleFacts DEF End

LEMMA StockFacts ==
    ASSUME TypeOK, NEW h \in Handlers, proc[h].pc \in CheckoutPcs, Goto(h, "stock")
    PROVE  /\ proc' \in [Handlers -> Locals \cup {Idle}]
           /\ proc'[h].pc = "stock" /\ proc'[h].key = proc[h].key
           /\ \A g \in Handlers \ {h} : proc'[g] = proc[g]
<1> DEFINE r == proc[h]
           s == [r EXCEPT !.pc = "stock"]
<1>1. r \in [pc : CheckoutPcs, key : Keys, qty : Quantities, cod : BOOLEAN]
  BY CheckoutFacts
<1>2. proc' = [proc EXCEPT ![h] = s]
  BY DEF Goto
<1> HIDE DEF r
<1>3. /\ s \in [pc : CheckoutPcs, key : Keys, qty : Quantities, cod : BOOLEAN]
      /\ s.pc = "stock" /\ s.key = r.key
  BY <1>1 DEF CheckoutPcs
<1>4. s \in Locals
  BY <1>3 DEF Locals, CheckoutPcs
<1> HIDE DEF s
<1> QED
  BY <1>2, <1>3, <1>4, EnterFacts DEF r

LEMMA ConsumerGoto ==
    ASSUME TypeOK, NEW h \in Handlers, proc[h].pc \in ConsumerPcs,
           NEW pc \in ConsumerPcs, Goto(h, pc)
    PROVE  /\ proc' \in [Handlers -> Locals \cup {Idle}]
           /\ proc'[h].pc = pc /\ proc'[h].event = proc[h].event
           /\ \A g \in Handlers \ {h} : proc'[g] = proc[g]
<1> DEFINE r == proc[h]
           s == [r EXCEPT !.pc = pc]
<1>1. r \in [pc : ConsumerPcs, event : Events, tries : 0..MaxRetries]
  BY ConsumerFacts
<1>2. proc' = [proc EXCEPT ![h] = s]
  BY DEF Goto
<1> HIDE DEF r
<1>3. /\ s \in [pc : ConsumerPcs, event : Events, tries : 0..MaxRetries]
      /\ s.pc = pc /\ s.event = r.event
  BY <1>1
<1>4. s \in Locals
  BY <1>3 DEF Locals
<1> HIDE DEF s
<1> QED
  BY <1>2, <1>3, <1>4, EnterFacts DEF r

LEMMA CancelGoto ==
    ASSUME TypeOK, NEW h \in Handlers, proc[h].pc \in CancelPcs,
           NEW pc \in CancelPcs, Goto(h, pc)
    PROVE  /\ proc' \in [Handlers -> Locals \cup {Idle}]
           /\ proc'[h].pc = pc /\ proc'[h].key = proc[h].key
           /\ \A g \in Handlers \ {h} : proc'[g] = proc[g]
<1> DEFINE r == proc[h]
           s == [r EXCEPT !.pc = pc]
<1>1. r \in [pc : CancelPcs, key : Keys, paid : BOOLEAN]
  BY CancelFacts
<1>2. proc' = [proc EXCEPT ![h] = s]
  BY DEF Goto
<1> HIDE DEF r
<1>3. /\ s \in [pc : CancelPcs, key : Keys, paid : BOOLEAN]
      /\ s.pc = pc /\ s.key = r.key
  BY <1>1
<1>4. s \in Locals
  BY <1>3 DEF Locals, CancelPcs
<1> HIDE DEF s
<1> QED
  BY <1>2, <1>3, <1>4, EnterFacts DEF r

\* A retry, or the way to the dead letters.
LEMMA RetryFacts ==
    ASSUME TypeOK, NEW h \in Handlers, HandlerFails(h)
    PROVE  /\ proc' \in [Handlers -> Locals \cup {Idle}]
           /\ proc[h].pc \in {"pay", "confirm", "handle"}
           /\ proc'[h].pc \in {"handle", "dead"} /\ proc'[h].event = proc[h].event
           /\ \A g \in Handlers \ {h} : proc'[g] = proc[g]
<1> DEFINE r == proc[h]
           s == IF r.tries < MaxRetries
                THEN [r EXCEPT !.pc = "handle", !.tries = r.tries + 1]
                ELSE [r EXCEPT !.pc = "dead"]
<1>1. r.pc \in {"pay", "confirm", "handle"}
  BY DEF HandlerFails, At
<1>2. r \in [pc : ConsumerPcs, event : Events, tries : 0..MaxRetries]
  BY <1>1, ConsumerFacts DEF ConsumerPcs
<1>3. proc' = [proc EXCEPT ![h] = s]
  BY DEF HandlerFails, TypeOK
<1> HIDE DEF r
<1>4. MaxRetries \in Nat
  BY OrdersAssumption DEF OrdersAssumption
<1>5. /\ s \in [pc : ConsumerPcs, event : Events, tries : 0..MaxRetries]
      /\ s.pc \in {"handle", "dead"} /\ s.event = r.event
  <2>1. CASE r.tries < MaxRetries
    <3>1. r.tries + 1 \in 0..MaxRetries
      BY <1>2, <1>4, <2>1
    <3> QED
      BY <1>2, <2>1, <3>1 DEF ConsumerPcs
  <2>2. CASE ~(r.tries < MaxRetries)
    BY <1>2, <2>2 DEF ConsumerPcs
  <2> QED
    BY <2>1, <2>2
<1>6. s \in Locals
  BY <1>5 DEF Locals
<1> HIDE DEF s
<1> QED
  BY <1>1, <1>3, <1>5, <1>6, EnterFacts DEF r

-----------------------------------------------------------------------------
(* Orders and events *)

LEMMA OrderFacts ==
    ASSUME TypeOK, NEW k \in Keys
    PROVE  /\ orders[k].qty \in Nat
           /\ Placed(k) => orders[k] \in OrderRows
           /\ ~Placed(k) => orders[k].status = "none" /\ orders[k].pay = "none"
           /\ Placed(k) <=> orders[k].status # "none"
<1>1. orders[k] \in OrderRows \cup {NoOrder} /\ NoOrder.status = "none" /\ NoOrder.qty = 0
      /\ NoOrder.pay = "none"
  BY DEF TypeOK, NoOrder
<1>2. \A x \in OrderRows : x.status # "none" /\ x.qty \in Nat
  BY OrdersAssumption DEF OrdersAssumption, OrderRows, Statuses
<1> QED
  BY <1>1, <1>2 DEF Placed

\* Row k becomes x, with the quantity it had.
LEMMA PutFacts ==
    ASSUME TypeOK, NEW k \in Keys, NEW x \in OrderRows, orders' = [orders EXCEPT ![k] = x]
    PROVE  /\ orders' \in [Keys -> OrderRows \cup {NoOrder}]
           /\ orders'[k] = x /\ Placed(k)'
           /\ \A j \in Keys : Placed(j) => Placed(j)'
           /\ \A j \in Keys \ {k} : orders'[j] = orders[j]
<1>1. /\ orders' \in [Keys -> OrderRows \cup {NoOrder}]
      /\ orders'[k] = x
      /\ \A j \in Keys \ {k} : orders'[j] = orders[j]
  BY DEF TypeOK
<1>2. x # NoOrder
  BY DEF OrderRows, NoOrder, Statuses
<1> QED
  BY <1>1, <1>2 DEF Placed

LEMMA PayFacts ==
    ASSUME TypeOK, NEW k \in Keys, Placed(k), NEW p \in PayStatuses,
           orders' = [orders EXCEPT ![k].pay = p]
    PROVE  /\ orders' \in [Keys -> OrderRows \cup {NoOrder}]
           /\ orders'[k].pay = p /\ orders'[k].status = orders[k].status
           /\ orders'[k].qty = orders[k].qty
           /\ \A j \in Keys : Placed(j) => Placed(j)'
           /\ \A j \in Keys \ {k} : orders'[j] = orders[j]
<1> DEFINE r == orders[k]
           x == [r EXCEPT !.pay = p]
<1>1. r \in OrderRows
  BY OrderFacts
<1>2. orders' = [orders EXCEPT ![k] = x]
  OBVIOUS
<1> HIDE DEF r
<1>3. x \in OrderRows /\ x.pay = p /\ x.status = r.status /\ x.qty = r.qty
  BY <1>1 DEF OrderRows
<1> HIDE DEF x
<1> QED
  BY <1>2, <1>3, PutFacts DEF r

LEMMA StatusFacts ==
    ASSUME TypeOK, NEW k \in Keys, Placed(k), NEW s \in Statuses,
           orders' = [orders EXCEPT ![k].status = s]
    PROVE  /\ orders' \in [Keys -> OrderRows \cup {NoOrder}]
           /\ orders'[k].status = s /\ orders'[k].pay = orders[k].pay
           /\ orders'[k].qty = orders[k].qty
           /\ \A j \in Keys : Placed(j) => Placed(j)'
           /\ \A j \in Keys \ {k} : orders'[j] = orders[j]
<1> DEFINE r == orders[k]
           x == [r EXCEPT !.status = s]
<1>1. r \in OrderRows
  BY OrderFacts
<1>2. orders' = [orders EXCEPT ![k] = x]
  OBVIOUS
<1> HIDE DEF r
<1>3. x \in OrderRows /\ x.status = s /\ x.pay = r.pay /\ x.qty = r.qty
  BY <1>1 DEF OrderRows
<1> HIDE DEF x
<1> QED
  BY <1>2, <1>3, PutFacts DEF r

LEMMA StampFacts ==
    ASSUME TypeOK, NEW k \in Keys, Placed(k),
           orders' = [orders EXCEPT ![k].pay = "refund_pending", ![k].refund = TRUE]
    PROVE  /\ orders' \in [Keys -> OrderRows \cup {NoOrder}]
           /\ orders'[k].pay = "refund_pending" /\ orders'[k].status = orders[k].status
           /\ orders'[k].qty = orders[k].qty
           /\ \A j \in Keys : Placed(j) => Placed(j)'
           /\ \A j \in Keys \ {k} : orders'[j] = orders[j]
<1> DEFINE r == orders[k]
           x == [r EXCEPT !.pay = "refund_pending", !.refund = TRUE]
<1>1. r \in OrderRows
  BY OrderFacts
<1>2. orders' = [orders EXCEPT ![k] = x]
  BY DEF TypeOK
<1> HIDE DEF r
<1>3. x \in OrderRows /\ x.pay = "refund_pending" /\ x.status = r.status /\ x.qty = r.qty
  BY <1>1 DEF OrderRows, PayStatuses
<1> HIDE DEF x
<1> QED
  BY <1>2, <1>3, PutFacts DEF r

LEMMA EventFacts ==
    ASSUME TypeOK, NEW e \in Events
    PROVE  event[e] # NoEvent => event[e] \in Messages /\ event[e].key \in Keys
BY DEF TypeOK, Messages

\* The order that the message in a goroutine's hands is about.
LEMMA SubjectFacts ==
    ASSUME TInv, NEW h \in Handlers, proc[h].pc \in ConsumerPcs
    PROVE  /\ proc[h].event \in Events /\ event[proc[h].event] # NoEvent
           /\ OrderOf(h) \in Keys /\ Placed(OrderOf(h))
<1>1. proc[h].event \in Events /\ event[proc[h].event] # NoEvent
  BY ConsumerFacts DEF TInv, Referred
<1> QED
  BY <1>1, EventFacts DEF TInv, Referred, OrderOf

LEMMA PublishFacts ==
    ASSUME TypeOK, NEW e \in Events, event[e] = NoEvent, NEW m \in Messages,
           event' = [event EXCEPT ![e] = m]
    PROVE  /\ event' \in [Events -> Messages \cup {NoEvent}]
           /\ event'[e] = m
           /\ \A d \in Events : event[d] # NoEvent => event'[d] = event[d] /\ event'[d] # NoEvent
           /\ \A d \in Events \ {e} : event'[d] = event[d]
BY DEF TypeOK

-----------------------------------------------------------------------------
(* Quantities *)

\* Quantity, of the rows o.
QuantityOf(o, S) == Cardinality(UNION {{k} \X (1..o[k].qty) : k \in S})

LEMMA RangeFacts ==
    ASSUME NEW k, NEW n \in Nat
    PROVE  IsFiniteSet({k} \X (1..n)) /\ Cardinality({k} \X (1..n)) = n
<1>1. 1 \in Int /\ n \in Int
  OBVIOUS
<1>2. IsFiniteSet(1..n) /\ Cardinality(1..n) = IF 1 > n THEN 0 ELSE n - 1 + 1
  BY <1>1, FS_Interval
<1>3. (IF 1 > n THEN 0 ELSE n - 1 + 1) = n
  OBVIOUS
<1>4. IsFiniteSet({k}) /\ Cardinality({k}) = 1
  BY FS_Singleton
<1>5. IsFiniteSet({k} \X (1..n)) /\ Cardinality({k} \X (1..n)) = Cardinality({k}) * Cardinality(1..n)
  BY <1>2, <1>4, FS_Product
<1> QED
  BY <1>2, <1>3, <1>4, <1>5

LEMMA UnitsFinite ==
    ASSUME NEW S \in SUBSET Keys, NEW o, \A k \in S : o[k].qty \in Nat
    PROVE  IsFiniteSet(UNION {{k} \X (1..o[k].qty) : k \in S})
<1> DEFINE f == [k \in S |-> {k} \X (1..o[k].qty)]
           T == {{k} \X (1..o[k].qty) : k \in S}
<1>1. IsFiniteSet(S)
  BY FS_Subset, OrdersAssumption DEF OrdersAssumption
<1>2. f \in Surjection(S, T)
  BY DEF Surjection
<1>3. IsFiniteSet(T)
  BY <1>1, <1>2, FS_Surjection
<1>4. ASSUME NEW k \in S PROVE IsFiniteSet({k} \X (1..o[k].qty))
  BY <1>4, RangeFacts
<1>5. \A U \in T : IsFiniteSet(U)
  BY <1>4
<1> QED
  BY <1>3, <1>5, FS_UNION

LEMMA QuantityNat ==
    ASSUME NEW S \in SUBSET Keys, NEW o, \A k \in S : o[k].qty \in Nat
    PROVE  QuantityOf(o, S) \in Nat
BY UnitsFinite, FS_CardinalityType DEF QuantityOf

\* The quantities of separate orders add up.
LEMMA QuantitySum ==
    ASSUME NEW S \in SUBSET Keys, NEW T \in SUBSET Keys, S \cap T = {},
           NEW o, \A k \in S \cup T : o[k].qty \in Nat
    PROVE  QuantityOf(o, S \cup T) = QuantityOf(o, S) + QuantityOf(o, T)
<1> DEFINE X == UNION {{k} \X (1..o[k].qty) : k \in S}
           Y == UNION {{k} \X (1..o[k].qty) : k \in T}
<1>1. IsFiniteSet(X) /\ IsFiniteSet(Y)
  BY UnitsFinite
<1>2. UNION {{k} \X (1..o[k].qty) : k \in S \cup T} = X \cup Y
  OBVIOUS
<1>3. X \cap Y = {}
  OBVIOUS
<1>4. QuantityOf(o, S) = Cardinality(X) /\ QuantityOf(o, T) = Cardinality(Y)
      /\ QuantityOf(o, S \cup T) = Cardinality(X \cup Y)
  BY <1>2 DEF QuantityOf
<1> HIDE DEF X, Y
<1>5. Cardinality(X) \in Nat /\ Cardinality(Y) \in Nat
  BY <1>1, FS_CardinalityType
<1>6. Cardinality(X \cup Y) = Cardinality(X) + Cardinality(Y) - Cardinality(X \cap Y)
  BY <1>1, FS_Union
<1>7. Cardinality(X \cap Y) = 0
  BY <1>3, FS_EmptySet
<1> QED
  BY <1>4, <1>5, <1>6, <1>7

LEMMA QuantityOne ==
    ASSUME NEW k \in Keys, NEW o, o[k].qty \in Nat
    PROVE  QuantityOf(o, {k}) = o[k].qty
<1> DEFINE n == o[k].qty
<1>1. UNION {{j} \X (1..o[j].qty) : j \in {k}} = {k} \X (1..n)
  OBVIOUS
<1>2. QuantityOf(o, {k}) = Cardinality({k} \X (1..n))
  BY <1>1 DEF QuantityOf
<1> HIDE DEF n
<1>3. n \in Nat
  BY DEF n
<1>4. QuantityOf(o, {k}) = n
  BY <1>2, <1>3, RangeFacts
<1> QED
  BY <1>4 DEF n

LEMMA QuantitySame ==
    ASSUME NEW S \in SUBSET Keys, NEW o, NEW p, \A k \in S : o[k].qty = p[k].qty
    PROVE  QuantityOf(o, S) = QuantityOf(p, S)
<1>1. {{k} \X (1..o[k].qty) : k \in S} = {{k} \X (1..p[k].qty) : k \in S}
  OBVIOUS
<1> QED
  BY <1>1 DEF QuantityOf

LEMMA QuantityFacts ==
    ASSUME TypeOK, NEW S \in SUBSET Keys
    PROVE  Quantity(S) = QuantityOf(orders, S) /\ Quantity(S) \in Nat
<1>1. Quantity(S) = QuantityOf(orders, S)
  BY DEF Quantity, Units, QuantityOf
<1> QED
  BY <1>1, OrderFacts, QuantityNat

-----------------------------------------------------------------------------
(* Types *)

LEMMA ReferredKept ==
    ASSUME TInv, NEW h \in Handlers,
           \A g \in Handlers \ {h} : proc'[g] = proc[g],
           \A j \in Keys : Placed(j) => Placed(j)',
           \A e \in Events : event[e] # NoEvent => event'[e] = event[e],
           \A e \in Events : event[e] = NoEvent /\ event'[e] # NoEvent => orders'[event'[e].key] # NoOrder,
           proc'[h].pc \in ConsumerPcs =>
               proc'[h].event \in Events /\ event'[proc'[h].event] # NoEvent,
           proc'[h].pc \in CancelPcs => orders'[proc'[h].key] # NoOrder
    PROVE  Referred'
<1>1. ASSUME NEW e \in Events, event'[e] # NoEvent PROVE orders'[event'[e].key] # NoOrder
  <2>1. CASE event[e] = NoEvent
    BY <1>1, <2>1
  <2>2. CASE event[e] # NoEvent
    BY <2>2, EventFacts DEF TInv, Referred, Placed
  <2> QED
    BY <2>1, <2>2
<1>2. ASSUME NEW g \in Handlers, proc'[g].pc \in ConsumerPcs
      PROVE  event'[proc'[g].event] # NoEvent
  <2>1. CASE g = h
    BY <1>2, <2>1
  <2>2. CASE g # h
    <3>1. proc'[g] = proc[g]
      BY <2>2
    <3>2. proc[g].event \in Events /\ event[proc[g].event] # NoEvent
      BY <1>2, <3>1, SubjectFacts
    <3> QED
      BY <3>1, <3>2
  <2> QED
    BY <2>1, <2>2
<1>3. ASSUME NEW g \in Handlers, proc'[g].pc \in CancelPcs
      PROVE  orders'[proc'[g].key] # NoOrder
  <2>1. CASE g = h
    BY <1>3, <2>1
  <2>2. CASE g # h
    <3>1. proc'[g] = proc[g]
      BY <2>2
    <3>2. proc[g].key \in Keys /\ Placed(proc[g].key)
      BY <1>3, <3>1, CancelFacts DEF TInv, Referred
    <3> QED
      BY <3>1, <3>2 DEF Placed
  <2> QED
    BY <2>1, <2>2
<1> QED
  BY <1>1, <1>2, <1>3 DEF Referred, Placed

LEMMA FloorFacts == \A a, b \in Nat : Floor(a, b) \in Nat
BY DEF Floor

\* What a statement of DeductStock leaves of the counters and the reservation.
LEMMA DeductType ==
    ASSUME TypeOK, NEW k \in Keys, DeductStock(k)
    PROVE  /\ total' \in Nat /\ reserved' \in Nat
           /\ hold' \in [Keys -> {"none", "live", "expired"}]
           /\ kept' \subseteq Keys
<1>1. orders[k].qty \in Nat /\ total \in Nat /\ reserved \in Nat
  BY OrderFacts DEF TypeOK
<1>2. total' \in Nat /\ reserved' \in Nat
  BY <1>1, FloorFacts DEF DeductStock
<1>3. hold' \in [Keys -> {"none", "live", "expired"}] /\ kept' \subseteq Keys
  BY DEF DeductStock, TypeOK
<1> QED
  BY <1>2, <1>3

LEMMA PcFacts ==
    /\ \A x \in CheckoutPcs : x \notin ConsumerPcs /\ x \notin CancelPcs
    /\ \A x \in CancelPcs : x \notin ConsumerPcs /\ x \notin CheckoutPcs
    /\ \A x \in ConsumerPcs : x \notin CancelPcs /\ x \notin CheckoutPcs
    /\ "idle" \notin CheckoutPcs \cup CancelPcs \cup ConsumerPcs
BY DEF CheckoutPcs, ConsumerPcs, CancelPcs

LEMMA TypeInit == Init => TInv
<1> SUFFICES ASSUME Init PROVE TInv
  OBVIOUS
<1>1. TypeOK
  BY OrdersAssumption DEF OrdersAssumption, Init, TypeOK
<1>2. Referred
  BY IdleFacts, PcFacts DEF Init, Referred
<1> QED
  BY <1>1, <1>2 DEF TInv

\* Requests: of a checkout.
LEMMA TypeCheckout ==
    ASSUME TInv, NEW h \in Handlers, NEW k \in Keys, NEW q \in Quantities, NEW cod \in BOOLEAN,
           Checkout(h, k, q, cod)
    PROVE  TInv'
<1> DEFINE x == [pc |-> "create", key |-> k, qty |-> q, cod |-> cod]
<1>1. x \in Locals /\ x.pc = "create"
  BY DEF Locals
<1>2. proc' = [proc EXCEPT ![h] = x]
  BY DEF Checkout
<1> HIDE DEF x
<1>3. /\ proc' \in [Handlers -> Locals \cup {Idle}]
      /\ proc'[h].pc = "create"
      /\ \A g \in Handlers \ {h} : proc'[g] = proc[g]
  BY <1>1, <1>2, EnterFacts DEF TInv
<1>4. UNCHANGED <<orders, stockVars, kafkaVars, faults, kept, stranded>>
  BY DEF Checkout
<1>5. TypeOK'
  BY <1>3, <1>4 DEF TInv, TypeOK, stockVars, kafkaVars
<1>6. Referred'
  BY <1>3, <1>4, PcFacts, ReferredKept DEF Placed, kafkaVars, CheckoutPcs
<1> QED
  BY <1>5, <1>6 DEF TInv

LEMMA TypeCreateOrder ==
    ASSUME TInv, NEW h \in Handlers, CreateOrder(h)
    PROVE  TInv'
<1> DEFINE k == proc[h].key
           x == [status |-> IF proc[h].cod THEN "confirmed" ELSE "payment_pending",
                 pay |-> "pending", qty |-> proc[h].qty, cod |-> proc[h].cod, refund |-> FALSE]
<1>1. proc[h].pc \in CheckoutPcs /\ TypeOK
  BY DEF CreateOrder, At, CheckoutPcs, TInv
<1>2. k \in Keys /\ proc[h].qty \in Quantities /\ proc[h].cod \in BOOLEAN
  BY <1>1, CheckoutFacts
<1>3. x \in OrderRows
  BY <1>2 DEF OrderRows, Statuses, PayStatuses
<1>4. UNCHANGED <<stockVars, kafkaVars, faults, kept, stranded>>
  BY DEF CreateOrder
<1>5. CASE Placed(k)
  <2>1. End(h) /\ UNCHANGED orders
    BY <1>5 DEF CreateOrder
  <2>2. /\ proc' \in [Handlers -> Locals \cup {Idle}]
        /\ proc'[h].pc = "idle"
        /\ \A g \in Handlers \ {h} : proc'[g] = proc[g]
    BY <1>1, <2>1, EndFacts
  <2>3. TypeOK'
    BY <1>1, <1>4, <2>1, <2>2 DEF TypeOK, stockVars, kafkaVars
  <2>4. Referred'
    BY <1>4, <2>1, <2>2, PcFacts, ReferredKept DEF Placed, kafkaVars
  <2> QED
    BY <2>3, <2>4 DEF TInv
<1>6. CASE ~Placed(k)
  <2>1. Goto(h, "stock") /\ orders' = [orders EXCEPT ![k] = x]
    BY <1>6 DEF CreateOrder
  <2>2. /\ proc' \in [Handlers -> Locals \cup {Idle}]
        /\ proc'[h].pc = "stock"
        /\ \A g \in Handlers \ {h} : proc'[g] = proc[g]
    BY <1>1, <2>1, StockFacts
  <2> HIDE DEF k, x
  <2>3. /\ orders' \in [Keys -> OrderRows \cup {NoOrder}]
        /\ \A j \in Keys : Placed(j) => Placed(j)'
    BY <1>1, <1>2, <1>3, <2>1, PutFacts
  <2>4. TypeOK'
    BY <1>1, <1>4, <2>2, <2>3 DEF TypeOK, stockVars, kafkaVars
  <2>5. Referred'
    BY <1>4, <2>2, <2>3, PcFacts, ReferredKept DEF kafkaVars, CheckoutPcs
  <2> QED
    BY <2>4, <2>5 DEF TInv
<1> QED
  BY <1>5, <1>6

LEMMA TypeReserveStock ==
    ASSUME TInv, NEW h \in Handlers, ReserveStock(h)
    PROVE  TInv'
<1>1. proc[h].pc \in CheckoutPcs /\ TypeOK /\ End(h)
  BY DEF ReserveStock, At, CheckoutPcs, TInv
<1> DEFINE k == proc[h].key
<1>2. k \in Keys /\ orders[k].qty \in Nat
  BY <1>1, CheckoutFacts, OrderFacts
<1>3. /\ proc' \in [Handlers -> Locals \cup {Idle}]
      /\ proc'[h].pc = "idle"
      /\ \A g \in Handlers \ {h} : proc'[g] = proc[g]
  BY <1>1, EndFacts
<1>4. UNCHANGED <<orders, total, kafkaVars, faults, kept>>
  BY DEF ReserveStock
<1>5. /\ reserved' \in {reserved, reserved + orders[k].qty}
      /\ hold' \in {hold, [hold EXCEPT ![k] = "live"]}
      /\ stranded' \subseteq stranded \cup {k}
  BY DEF ReserveStock
<1> HIDE DEF k
<1>6. /\ reserved' \in Nat /\ hold' \in [Keys -> {"none", "live", "expired"}]
      /\ stranded' \subseteq Keys
  BY <1>1, <1>2, <1>5 DEF TypeOK
<1>7. TypeOK'
  BY <1>1, <1>3, <1>4, <1>6 DEF TypeOK, kafkaVars
<1>8. Referred'
  BY <1>3, <1>4, PcFacts, ReferredKept DEF Placed, kafkaVars
<1> QED
  BY <1>7, <1>8 DEF TInv

LEMMA TypeDeductForCOD ==
    ASSUME TInv, NEW h \in Handlers, DeductForCOD(h)
    PROVE  TInv'
<1>1. proc[h].pc \in CheckoutPcs /\ TypeOK /\ End(h) /\ DeductStock(proc[h].key)
  BY DEF DeductForCOD, At, CheckoutPcs, TInv
<1>2. proc[h].key \in Keys
  BY <1>1, CheckoutFacts
<1>3. /\ proc' \in [Handlers -> Locals \cup {Idle}]
      /\ proc'[h].pc = "idle"
      /\ \A g \in Handlers \ {h} : proc'[g] = proc[g]
  BY <1>1, EndFacts
<1>4. UNCHANGED <<orders, kafkaVars, faults, stranded>>
  BY DEF DeductForCOD
<1>5. /\ total' \in Nat /\ reserved' \in Nat
      /\ hold' \in [Keys -> {"none", "live", "expired"}]
      /\ kept' \subseteq Keys
  BY <1>1, <1>2, DeductType
<1>6. TypeOK'
  BY <1>1, <1>3, <1>4, <1>5 DEF TypeOK, kafkaVars
<1>7. Referred'
  BY <1>3, <1>4, PcFacts, ReferredKept DEF Placed, kafkaVars
<1> QED
  BY <1>6, <1>7 DEF TInv

LEMMA ReferredStill ==
    ASSUME TInv, UNCHANGED proc,
           \A j \in Keys : Placed(j) => Placed(j)',
           \A e \in Events : event[e] # NoEvent => event'[e] = event[e],
           \A e \in Events : event[e] = NoEvent /\ event'[e] # NoEvent => orders'[event'[e].key] # NoOrder
    PROVE  Referred'
<1>1. ASSUME NEW e \in Events, event'[e] # NoEvent PROVE orders'[event'[e].key] # NoOrder
  <2>1. CASE event[e] = NoEvent
    BY <1>1, <2>1
  <2>2. CASE event[e] # NoEvent
    BY <2>2, EventFacts DEF TInv, Referred, Placed
  <2> QED
    BY <2>1, <2>2
<1>2. ASSUME NEW g \in Handlers, proc[g].pc \in ConsumerPcs
      PROVE  event'[proc[g].event] # NoEvent
  BY <1>2, SubjectFacts
<1>3. ASSUME NEW g \in Handlers, proc[g].pc \in CancelPcs
      PROVE  orders'[proc[g].key] # NoOrder
  BY <1>3, CancelFacts DEF TInv, Referred, Placed
<1> QED
  BY <1>1, <1>2, <1>3 DEF Referred, Placed

\* A goroutine ends, the events stay.
LEMMA EndType ==
    ASSUME TInv, NEW h \in Handlers, End(h), UNCHANGED event,
           \A j \in Keys : Placed(j) => Placed(j)'
    PROVE  proc' \in [Handlers -> Locals \cup {Idle}] /\ Referred'
<1>1. /\ proc' \in [Handlers -> Locals \cup {Idle}]
      /\ proc'[h].pc = "idle"
      /\ \A g \in Handlers \ {h} : proc'[g] = proc[g]
  BY EndFacts DEF TInv
<1> QED
  BY <1>1, PcFacts, ReferredKept

\* A consumer goes on with its message.
LEMMA ConsumerType ==
    ASSUME TInv, NEW h \in Handlers, proc[h].pc \in ConsumerPcs,
           NEW pc \in ConsumerPcs, Goto(h, pc), UNCHANGED event,
           \A j \in Keys : Placed(j) => Placed(j)'
    PROVE  proc' \in [Handlers -> Locals \cup {Idle}] /\ Referred'
<1>1. /\ proc' \in [Handlers -> Locals \cup {Idle}]
      /\ proc'[h].pc = pc /\ proc'[h].event = proc[h].event
      /\ \A g \in Handlers \ {h} : proc'[g] = proc[g]
  BY ConsumerGoto DEF TInv
<1>2. proc[h].event \in Events /\ event[proc[h].event] # NoEvent
  BY SubjectFacts
<1> QED
  BY <1>1, <1>2, PcFacts, ReferredKept

LEMMA SameRows == UNCHANGED orders => \A j \in Keys : Placed(j) => Placed(j)'
BY DEF Placed

LEMMA ConsumerPcFacts ==
    {"seen", "handle", "pay", "confirm", "deduct", "dead", "commit"} \subseteq ConsumerPcs
BY DEF ConsumerPcs

\* Time and the sweep.
LEMMA TypeStock ==
    ASSUME TInv, (\E k \in Keys : Age(k)) \/ ExpireInventoryReservations
    PROVE  TInv'
<1>1. UNCHANGED <<orders, total, kafkaVars, proc, faults, kept, stranded>>
  BY DEF Age, ExpireInventoryReservations
<1>2. Referred'
  BY <1>1, SameRows, ReferredStill DEF kafkaVars
<1>3. reserved' \in Nat /\ hold' \in [Keys -> {"none", "live", "expired"}]
  <2>1. CASE \E k \in Keys : Age(k)
    BY <2>1 DEF TInv, TypeOK, Age
  <2>2. CASE ExpireInventoryReservations
    <3> DEFINE n == Quantity({k \in Keys : hold[k] = "expired" /\ Unpaid(k)})
    <3>1. reserved' = Floor(reserved, n)
      BY <2>2 DEF ExpireInventoryReservations
    <3>2. n \in Nat
      BY QuantityFacts DEF TInv
    <3>3. hold' \in [Keys -> {"none", "live", "expired"}]
      BY <2>2 DEF TInv, TypeOK, ExpireInventoryReservations
    <3> HIDE DEF n
    <3> QED
      BY <3>1, <3>2, <3>3, FloorFacts DEF TInv, TypeOK
  <2> QED
    BY <2>1, <2>2
<1> QED
  BY <1>1, <1>2, <1>3 DEF TInv, TypeOK, kafkaVars

LEMMA TypePublish ==
    ASSUME TInv, NEW e \in Events, NEW type \in {"succeeded", "failed"}, NEW k \in Keys,
           Publish(e, type, k)
    PROVE  TInv'
<1> DEFINE m == [type |-> type, key |-> k]
<1>1. m \in Messages /\ m.key = k /\ Placed(k)
  BY DEF Messages, Publish
<1>2. event[e] = NoEvent /\ event' = [event EXCEPT ![e] = m]
  BY DEF Publish
<1> HIDE DEF m
<1>3. /\ event' \in [Events -> Messages \cup {NoEvent}]
      /\ event'[e] = m
      /\ \A d \in Events : event[d] # NoEvent => event'[d] = event[d]
      /\ \A d \in Events \ {e} : event'[d] = event[d]
  BY <1>1, <1>2, PublishFacts DEF TInv
<1>4. UNCHANGED <<orders, stockVars, marks, committed, dead, handled, proc, faults, kept, stranded>>
  BY DEF Publish
<1>5. TypeOK'
  BY <1>3, <1>4 DEF TInv, TypeOK, stockVars
<1>6. Referred'
  BY <1>1, <1>3, <1>4, SameRows, ReferredStill DEF Placed
<1> QED
  BY <1>5, <1>6 DEF TInv

\* The consumer, up to the handler.
LEMMA TypeFetch ==
    ASSUME TInv, NEW h \in Handlers, NEW e \in Events, FetchMessage(h, e)
    PROVE  TInv'
<1> DEFINE x == [pc |-> "seen", event |-> e, tries |-> 0]
<1>1. MaxRetries \in Nat
  BY OrdersAssumption DEF OrdersAssumption
<1>2. x \in Locals /\ x.pc = "seen" /\ x.event = e
  BY <1>1 DEF Locals, ConsumerPcs
<1>3. proc' = [proc EXCEPT ![h] = x] /\ event[e] # NoEvent
  BY DEF FetchMessage
<1> HIDE DEF x
<1>4. /\ proc' \in [Handlers -> Locals \cup {Idle}]
      /\ proc'[h].pc = "seen" /\ proc'[h].event = e
      /\ \A g \in Handlers \ {h} : proc'[g] = proc[g]
  BY <1>2, <1>3, EnterFacts DEF TInv
<1>5. UNCHANGED <<orders, stockVars, kafkaVars, faults, kept, stranded>>
  BY DEF FetchMessage
<1>6. TypeOK'
  BY <1>4, <1>5 DEF TInv, TypeOK, stockVars, kafkaVars
<1>7. proc'[h].pc \notin CancelPcs
  BY <1>4 DEF CancelPcs
<1>8. Referred'
  BY <1>3, <1>4, <1>5, <1>7, SameRows, ReferredKept DEF kafkaVars
<1> QED
  BY <1>6, <1>8 DEF TInv

LEMMA TypeSetNX ==
    ASSUME TInv, NEW h \in Handlers, SetNX(h)
    PROVE  TInv'
<1>1. /\ proc[h].pc \in ConsumerPcs
      /\ Goto(h, "commit") \/ Goto(h, "handle")
      /\ marks' = marks \cup {proc[h].event}
      /\ UNCHANGED <<orders, stockVars, event, committed, dead, handled, faults, kept, stranded>>
  BY ConsumerPcFacts DEF SetNX, At
<1>2. proc[h].event \in Events
  BY <1>1, SubjectFacts
<1>3. proc' \in [Handlers -> Locals \cup {Idle}] /\ Referred'
  BY <1>1, SameRows, ConsumerPcFacts, ConsumerType
<1>4. TypeOK'
  BY <1>1, <1>2, <1>3 DEF TInv, TypeOK, stockVars
<1> QED
  BY <1>3, <1>4 DEF TInv

\* The handler returns without an error.
LEMMA ReturnType ==
    ASSUME TInv, NEW h \in Handlers, proc[h].pc \in ConsumerPcs, Returned(h),
           \A j \in Keys : Placed(j) => Placed(j)'
    PROVE  /\ proc' \in [Handlers -> Locals \cup {Idle}] /\ Referred'
           /\ UNCHANGED <<event, marks, committed, dead>> /\ handled' \subseteq Events
<1>1. Goto(h, "commit") /\ handled' = handled \cup {proc[h].event}
      /\ UNCHANGED <<event, marks, committed, dead>>
  BY DEF Returned
<1>2. proc[h].event \in Events
  BY SubjectFacts
<1>3. proc' \in [Handlers -> Locals \cup {Idle}] /\ Referred'
  BY <1>1, ConsumerPcFacts, ConsumerType
<1> QED
  BY <1>1, <1>2, <1>3 DEF TInv, TypeOK

LEMMA TypeGetOrder ==
    ASSUME TInv, NEW h \in Handlers, GetOrder(h)
    PROVE  TInv'
<1>1. /\ proc[h].pc \in ConsumerPcs
      /\ Returned(h) \/ (Goto(h, "pay") /\ UNCHANGED kafkaVars)
      /\ UNCHANGED <<orders, stockVars, faults, kept, stranded>>
  BY ConsumerPcFacts DEF GetOrder, Handling, At
<1>2. CASE Returned(h)
  BY <1>1, <1>2, SameRows, ReturnType DEF TInv, TypeOK, stockVars
<1>3. CASE Goto(h, "pay") /\ UNCHANGED kafkaVars
  <2>1. proc' \in [Handlers -> Locals \cup {Idle}] /\ Referred'
    BY <1>1, <1>3, SameRows, ConsumerPcFacts, ConsumerType DEF kafkaVars
  <2> QED
    BY <1>1, <1>3, <2>1 DEF TInv, TypeOK, stockVars, kafkaVars
<1> QED
  BY <1>1, <1>2, <1>3

LEMMA TypeMarkPaid ==
    ASSUME TInv, NEW h \in Handlers, MarkPaid(h)
    PROVE  TInv'
<1>1. /\ proc[h].pc \in ConsumerPcs /\ Goto(h, "confirm")
      /\ orders' = [orders EXCEPT ![OrderOf(h)].pay = "paid"]
      /\ UNCHANGED <<stockVars, kafkaVars, faults, kept, stranded>>
  BY ConsumerPcFacts DEF MarkPaid, At
<1>2. OrderOf(h) \in Keys /\ Placed(OrderOf(h)) /\ "paid" \in PayStatuses /\ TypeOK
  BY <1>1, SubjectFacts DEF PayStatuses, TInv
<1>3. /\ orders' \in [Keys -> OrderRows \cup {NoOrder}]
      /\ \A j \in Keys : Placed(j) => Placed(j)'
  BY <1>1, <1>2, PayFacts
<1>4. proc' \in [Handlers -> Locals \cup {Idle}] /\ Referred'
  BY <1>1, <1>3, ConsumerPcFacts, ConsumerType DEF kafkaVars
<1> QED
  BY <1>1, <1>3, <1>4 DEF TInv, TypeOK, stockVars, kafkaVars

LEMMA TypeConfirm ==
    ASSUME TInv, NEW h \in Handlers, Confirm(h)
    PROVE  TInv'
<1>1. /\ proc[h].pc \in ConsumerPcs /\ Goto(h, "deduct")
      /\ orders' = [orders EXCEPT ![OrderOf(h)].status = "confirmed"]
      /\ UNCHANGED <<stockVars, kafkaVars, faults, kept, stranded>>
  BY ConsumerPcFacts DEF Confirm, At
<1>2. OrderOf(h) \in Keys /\ Placed(OrderOf(h)) /\ "confirmed" \in Statuses /\ TypeOK
  BY <1>1, SubjectFacts DEF Statuses, TInv
<1>3. /\ orders' \in [Keys -> OrderRows \cup {NoOrder}]
      /\ \A j \in Keys : Placed(j) => Placed(j)'
  BY <1>1, <1>2, StatusFacts
<1>4. proc' \in [Handlers -> Locals \cup {Idle}] /\ Referred'
  BY <1>1, <1>3, ConsumerPcFacts, ConsumerType DEF kafkaVars
<1> QED
  BY <1>1, <1>3, <1>4 DEF TInv, TypeOK, stockVars, kafkaVars

LEMMA TypeDeduct ==
    ASSUME TInv, NEW h \in Handlers, Deduct(h)
    PROVE  TInv'
<1>1. /\ proc[h].pc \in ConsumerPcs /\ DeductStock(OrderOf(h)) /\ Returned(h)
      /\ UNCHANGED <<orders, faults, stranded>>
  BY ConsumerPcFacts DEF Deduct, At
<1>2. OrderOf(h) \in Keys
  BY <1>1, SubjectFacts
<1>3. /\ total' \in Nat /\ reserved' \in Nat
      /\ hold' \in [Keys -> {"none", "live", "expired"}]
      /\ kept' \subseteq Keys
  BY <1>1, <1>2, DeductType DEF TInv
<1>4. /\ proc' \in [Handlers -> Locals \cup {Idle}] /\ Referred'
      /\ UNCHANGED <<event, marks, committed, dead>> /\ handled' \subseteq Events
  BY <1>1, SameRows, ReturnType
<1> QED
  BY <1>1, <1>3, <1>4 DEF TInv, TypeOK

LEMMA TypeMarkPaymentFailed ==
    ASSUME TInv, NEW h \in Handlers, MarkPaymentFailed(h)
    PROVE  TInv'
<1>1. /\ proc[h].pc \in ConsumerPcs /\ Returned(h)
      /\ orders' = [orders EXCEPT ![OrderOf(h)].pay = "failed"]
      /\ UNCHANGED <<stockVars, faults, kept, stranded>>
  BY ConsumerPcFacts DEF MarkPaymentFailed, Handling, At
<1>2. OrderOf(h) \in Keys /\ Placed(OrderOf(h)) /\ "failed" \in PayStatuses /\ TypeOK
  BY <1>1, SubjectFacts DEF PayStatuses, TInv
<1>3. /\ orders' \in [Keys -> OrderRows \cup {NoOrder}]
      /\ \A j \in Keys : Placed(j) => Placed(j)'
  BY <1>1, <1>2, PayFacts
<1>4. /\ proc' \in [Handlers -> Locals \cup {Idle}] /\ Referred'
      /\ UNCHANGED <<event, marks, committed, dead>> /\ handled' \subseteq Events
  BY <1>1, <1>3, ReturnType
<1> QED
  BY <1>1, <1>3, <1>4 DEF TInv, TypeOK, stockVars

LEMMA TypeMarkOrderRefunded ==
    ASSUME TInv, NEW h \in Handlers, MarkOrderRefunded(h)
    PROVE  TInv'
<1>1. /\ proc[h].pc \in ConsumerPcs /\ Returned(h)
      /\ \/ orders' = [orders EXCEPT ![OrderOf(h)].pay = "refunded"]
         \/ orders' = orders
      /\ UNCHANGED <<stockVars, faults, kept, stranded>>
  BY ConsumerPcFacts DEF MarkOrderRefunded, Handling, At
<1>2. OrderOf(h) \in Keys /\ Placed(OrderOf(h)) /\ "refunded" \in PayStatuses /\ TypeOK
  BY <1>1, SubjectFacts DEF PayStatuses, TInv
<1>3. /\ orders' \in [Keys -> OrderRows \cup {NoOrder}]
      /\ \A j \in Keys : Placed(j) => Placed(j)'
  <2>1. CASE orders' = [orders EXCEPT ![OrderOf(h)].pay = "refunded"]
    BY <1>2, <2>1, PayFacts
  <2>2. CASE orders' = orders
    BY <1>2, <2>2, SameRows DEF TypeOK
  <2> QED
    BY <1>1, <2>1, <2>2
<1>4. /\ proc' \in [Handlers -> Locals \cup {Idle}] /\ Referred'
      /\ UNCHANGED <<event, marks, committed, dead>> /\ handled' \subseteq Events
  BY <1>1, <1>3, ReturnType
<1> QED
  BY <1>1, <1>3, <1>4 DEF TInv, TypeOK, stockVars

LEMMA TypeSendToDLQ ==
    ASSUME TInv, NEW h \in Handlers, SendToDLQ(h)
    PROVE  TInv'
<1>1. /\ proc[h].pc \in ConsumerPcs /\ Goto(h, "commit")
      /\ dead' = dead \cup {proc[h].event}
      /\ UNCHANGED <<orders, stockVars, event, marks, committed, handled, faults, kept, stranded>>
  BY ConsumerPcFacts DEF SendToDLQ, At
<1>2. proc[h].event \in Events
  BY <1>1, SubjectFacts
<1>3. proc' \in [Handlers -> Locals \cup {Idle}] /\ Referred'
  BY <1>1, SameRows, ConsumerPcFacts, ConsumerType
<1> QED
  BY <1>1, <1>2, <1>3 DEF TInv, TypeOK, stockVars

LEMMA TypeCommitMessage ==
    ASSUME TInv, NEW h \in Handlers, CommitMessage(h)
    PROVE  TInv'
<1>1. /\ proc[h].pc \in ConsumerPcs /\ End(h)
      /\ committed' = committed \cup {proc[h].event}
      /\ UNCHANGED <<orders, stockVars, event, marks, dead, handled, faults, kept, stranded>>
  BY ConsumerPcFacts DEF CommitMessage, At
<1>2. proc[h].event \in Events
  BY <1>1, SubjectFacts
<1>3. proc' \in [Handlers -> Locals \cup {Idle}] /\ Referred'
  BY <1>1, SameRows, EndType
<1> QED
  BY <1>1, <1>2, <1>3 DEF TInv, TypeOK, stockVars

\* Cancellations.
LEMMA TypeCancelOrder ==
    ASSUME TInv, NEW h \in Handlers, NEW k \in Keys, CancelOrder(h, k)
    PROVE  TInv'
<1> DEFINE x == [pc |-> "cancel", key |-> k, paid |-> orders[k].pay = "paid" /\ ~orders[k].cod]
<1>1. x \in Locals /\ x.pc = "cancel" /\ x.key = k
  BY DEF Locals
<1>2. proc' = [proc EXCEPT ![h] = x] /\ orders[k].status \in {"payment_pending", "confirmed"}
      /\ UNCHANGED <<orders, stockVars, kafkaVars, faults, kept, stranded>>
  BY DEF CancelOrder
<1> HIDE DEF x
<1>3. /\ proc' \in [Handlers -> Locals \cup {Idle}]
      /\ proc'[h].pc = "cancel" /\ proc'[h].key = k
      /\ \A g \in Handlers \ {h} : proc'[g] = proc[g]
  BY <1>1, <1>2, EnterFacts DEF TInv
<1>4. orders'[k] # NoOrder
  BY <1>2, OrderFacts DEF TInv, Placed
<1>5. proc'[h].pc \notin ConsumerPcs
  BY <1>3 DEF ConsumerPcs
<1>6. Referred'
  BY <1>2, <1>3, <1>4, <1>5, SameRows, ReferredKept DEF kafkaVars
<1> QED
  BY <1>2, <1>3, <1>6 DEF TInv, TypeOK, stockVars, kafkaVars

\* A cancellation goes on with its order.
LEMMA CancelType ==
    ASSUME TInv, NEW h \in Handlers, proc[h].pc \in CancelPcs,
           NEW pc \in CancelPcs, Goto(h, pc),
           \A e \in Events : event[e] # NoEvent => event'[e] = event[e],
           \A e \in Events : event[e] = NoEvent /\ event'[e] # NoEvent => orders'[event'[e].key] # NoOrder,
           \A j \in Keys : Placed(j) => Placed(j)'
    PROVE  proc' \in [Handlers -> Locals \cup {Idle}] /\ Referred'
<1>1. /\ proc' \in [Handlers -> Locals \cup {Idle}]
      /\ proc'[h].pc = pc /\ proc'[h].key = proc[h].key
      /\ \A g \in Handlers \ {h} : proc'[g] = proc[g]
  BY CancelGoto DEF TInv
<1>2. proc[h].key \in Keys /\ Placed(proc[h].key)
  BY CancelFacts DEF TInv, Referred
<1>3. orders'[proc'[h].key] # NoOrder
  BY <1>1, <1>2 DEF Placed
<1> QED
  BY <1>1, <1>3, PcFacts, ReferredKept

LEMMA TypeMarkCancelled ==
    ASSUME TInv, NEW h \in Handlers, MarkCancelled(h)
    PROVE  TInv'
<1>1. /\ proc[h].pc \in CancelPcs
      /\ orders' = [orders EXCEPT ![proc[h].key].status = "cancelled"]
      /\ Goto(h, "refund") \/ End(h)
      /\ UNCHANGED <<stockVars, kafkaVars, faults, kept, stranded>>
  BY DEF MarkCancelled, At, CancelPcs
<1>2. proc[h].key \in Keys /\ Placed(proc[h].key) /\ "cancelled" \in Statuses /\ TypeOK
  BY <1>1, CancelFacts DEF Statuses, TInv, Referred
<1>3. /\ orders' \in [Keys -> OrderRows \cup {NoOrder}]
      /\ \A j \in Keys : Placed(j) => Placed(j)'
  BY <1>1, <1>2, StatusFacts
<1>4. proc' \in [Handlers -> Locals \cup {Idle}] /\ Referred'
  <2>1. CASE Goto(h, "refund")
    BY <1>1, <1>3, <2>1, CancelType DEF kafkaVars, CancelPcs
  <2>2. CASE End(h)
    BY <1>1, <1>3, <2>2, EndType DEF kafkaVars
  <2> QED
    BY <1>1, <2>1, <2>2
<1> QED
  BY <1>1, <1>3, <1>4 DEF TInv, TypeOK, stockVars, kafkaVars

\* The event of a refund that was agreed to.
LEMMA RefundEvent ==
    ASSUME TInv, NEW h \in Handlers, InitiateRefund(h)
    PROVE  /\ proc[h].pc \in CancelPcs /\ proc[h].key \in Keys /\ Placed(proc[h].key)
           /\ event' \in [Events -> Messages \cup {NoEvent}]
           /\ \A e \in Events : event[e] # NoEvent => event'[e] = event[e]
           /\ \A e \in Events : event[e] = NoEvent /\ event'[e] # NoEvent =>
                 orders[event'[e].key] # NoOrder
<1>1. proc[h].pc \in CancelPcs
  BY DEF InitiateRefund, At, CancelPcs
<1>2. proc[h].key \in Keys /\ Placed(proc[h].key)
  BY <1>1, CancelFacts DEF TInv, Referred
<1>3. CASE event' = event
  BY <1>1, <1>2, <1>3 DEF TInv, TypeOK
<1>4. ASSUME NEW e \in Events, event[e] = NoEvent,
             event' = [event EXCEPT ![e] = [type |-> "refunded", key |-> proc[h].key]]
      PROVE  /\ event' \in [Events -> Messages \cup {NoEvent}]
             /\ \A d \in Events : event[d] # NoEvent => event'[d] = event[d]
             /\ \A d \in Events : event[d] = NoEvent /\ event'[d] # NoEvent =>
                   orders[event'[d].key] # NoOrder
  <2> DEFINE m == [type |-> "refunded", key |-> proc[h].key]
  <2>1. m \in Messages /\ m.key = proc[h].key
    BY <1>2 DEF Messages
  <2> HIDE DEF m
  <2>2. /\ event' \in [Events -> Messages \cup {NoEvent}]
        /\ event'[e] = m
        /\ \A d \in Events : event[d] # NoEvent => event'[d] = event[d]
        /\ \A d \in Events \ {e} : event'[d] = event[d]
    BY <1>4, <2>1, PublishFacts DEF TInv, m
  <2> QED
    BY <1>2, <2>1, <2>2 DEF Placed
<1> QED
  BY <1>1, <1>2, <1>3, <1>4 DEF InitiateRefund

LEMMA TypeInitiateRefund ==
    ASSUME TInv, NEW h \in Handlers, InitiateRefund(h)
    PROVE  TInv'
<1>1. /\ (End(h) /\ UNCHANGED event) \/ Goto(h, "stamp")
      /\ UNCHANGED <<orders, stockVars, marks, committed, dead, handled, faults, kept, stranded>>
  BY DEF InitiateRefund
<1>2. proc' \in [Handlers -> Locals \cup {Idle}] /\ Referred'
  <2>1. CASE End(h) /\ UNCHANGED event
    BY <1>1, <2>1, SameRows, EndType
  <2>2. CASE Goto(h, "stamp")
    BY <1>1, <2>2, SameRows, RefundEvent, CancelType DEF CancelPcs
  <2> QED
    BY <1>1, <2>1, <2>2
<1> QED
  BY <1>1, <1>2, RefundEvent DEF TInv, TypeOK, stockVars

LEMMA TypeStamp ==
    ASSUME TInv, NEW h \in Handlers, StampOrderRefundIntent(h)
    PROVE  TInv'
<1> DEFINE k == proc[h].key
<1>1. /\ proc[h].pc \in CancelPcs /\ End(h)
      /\ \/ orders' = [orders EXCEPT ![k].pay = "refund_pending", ![k].refund = TRUE]
         \/ orders' = orders
      /\ UNCHANGED <<stockVars, kafkaVars, faults, kept, stranded>>
  BY DEF StampOrderRefundIntent, At, CancelPcs
<1>2. k \in Keys /\ Placed(k) /\ TypeOK
  BY <1>1, CancelFacts DEF TInv, Referred
<1> HIDE DEF k
<1>3. /\ orders' \in [Keys -> OrderRows \cup {NoOrder}]
      /\ \A j \in Keys : Placed(j) => Placed(j)'
  <2>1. CASE orders' = [orders EXCEPT ![k].pay = "refund_pending", ![k].refund = TRUE]
    BY <1>2, <2>1, StampFacts
  <2>2. CASE orders' = orders
    BY <1>2, <2>2, SameRows DEF TypeOK
  <2> QED
    BY <1>1, <2>1, <2>2
<1>4. proc' \in [Handlers -> Locals \cup {Idle}] /\ Referred'
  BY <1>1, <1>3, EndType DEF kafkaVars
<1> QED
  BY <1>1, <1>3, <1>4 DEF TInv, TypeOK, stockVars, kafkaVars

\* Failures.
LEMMA FaultFacts == TypeOK /\ Fault => faults' \in 0..MaxFaults /\ faults' = faults + 1
BY OrdersAssumption DEF OrdersAssumption, TypeOK, Fault

LEMMA TypeAbort ==
    ASSUME TInv, NEW h \in Handlers, Abort(h)
    PROVE  TInv'
<1>1. /\ Fault /\ End(h)
      /\ UNCHANGED <<orders, stockVars, kafkaVars, kept>>
  BY DEF Abort
<1>2. stranded' \subseteq Keys
  <2>1. CASE proc[h].pc \in {"confirm", "deduct"}
    <3>1. OrderOf(h) \in Keys
      BY <2>1, ConsumerPcFacts, SubjectFacts
    <3> QED
      BY <3>1 DEF Abort, TInv, TypeOK
  <2>2. CASE proc[h].pc \notin {"confirm", "deduct"}
    BY <2>2 DEF Abort, TInv, TypeOK
  <2> QED
    BY <2>1, <2>2
<1>3. proc' \in [Handlers -> Locals \cup {Idle}] /\ Referred'
  BY <1>1, SameRows, EndType DEF kafkaVars
<1> QED
  BY <1>1, <1>2, <1>3, FaultFacts DEF TInv, TypeOK, stockVars, kafkaVars

LEMMA TypeDedupFails ==
    ASSUME TInv, NEW h \in Handlers, DedupFails(h)
    PROVE  TInv'
<1>1. /\ Fault /\ proc[h].pc \in ConsumerPcs /\ Goto(h, "handle")
      /\ UNCHANGED <<orders, stockVars, kafkaVars, kept, stranded>>
  BY ConsumerPcFacts DEF DedupFails, At
<1>2. proc' \in [Handlers -> Locals \cup {Idle}] /\ Referred'
  BY <1>1, SameRows, ConsumerPcFacts, ConsumerType DEF kafkaVars
<1> QED
  BY <1>1, <1>2, FaultFacts DEF TInv, TypeOK, stockVars, kafkaVars

LEMMA TypeHandlerFails ==
    ASSUME TInv, NEW h \in Handlers, HandlerFails(h)
    PROVE  TInv'
<1>1. /\ proc' \in [Handlers -> Locals \cup {Idle}]
      /\ proc[h].pc \in ConsumerPcs
      /\ proc'[h].pc \in ConsumerPcs /\ proc'[h].event = proc[h].event
      /\ \A g \in Handlers \ {h} : proc'[g] = proc[g]
  BY RetryFacts, ConsumerPcFacts DEF TInv
<1>2. /\ Fault /\ stranded' \subseteq stranded \cup {OrderOf(h)}
      /\ UNCHANGED <<orders, stockVars, kafkaVars, kept>>
  BY DEF HandlerFails
<1>3. /\ OrderOf(h) \in Keys
      /\ proc[h].event \in Events /\ event[proc[h].event] # NoEvent
  BY <1>1, SubjectFacts
<1>4. Referred'
  BY <1>1, <1>2, <1>3, PcFacts, SameRows, ReferredKept DEF kafkaVars
<1> QED
  BY <1>1, <1>2, <1>3, <1>4, FaultFacts DEF TInv, TypeOK, stockVars, kafkaVars

LEMMA TypeLogged ==
    ASSUME TInv, NEW h \in Handlers, Logged(h)
    PROVE  TInv'
<1>1. /\ Fault /\ proc[h].pc \in ConsumerPcs /\ Returned(h)
      /\ stranded' \subseteq stranded \cup {OrderOf(h)}
      /\ UNCHANGED <<orders, stockVars, kept>>
  BY ConsumerPcFacts DEF Logged, At, Handling
<1>2. OrderOf(h) \in Keys
  BY <1>1, SubjectFacts
<1>3. /\ proc' \in [Handlers -> Locals \cup {Idle}] /\ Referred'
      /\ UNCHANGED <<event, marks, committed, dead>> /\ handled' \subseteq Events
  BY <1>1, SameRows, ReturnType
<1> QED
  BY <1>1, <1>2, <1>3, FaultFacts DEF TInv, TypeOK, stockVars

LEMMA TypeStep ==
    ASSUME TInv, [Next]_vars
    PROVE  TInv'
<1>1. CASE UNCHANGED vars
  BY <1>1 DEF vars, stockVars, kafkaVars, TInv, TypeOK, Referred, Placed
<1>2. CASE \E h \in Handlers : Step(h)
  BY <1>2, TypeCreateOrder, TypeReserveStock, TypeDeductForCOD, TypeSetNX, TypeGetOrder,
     TypeMarkPaid, TypeConfirm, TypeDeduct, TypeMarkPaymentFailed, TypeMarkOrderRefunded,
     TypeSendToDLQ, TypeCommitMessage, TypeMarkCancelled, TypeInitiateRefund, TypeStamp DEF Step
<1>3. CASE \E h \in Handlers : Abort(h) \/ DedupFails(h) \/ HandlerFails(h) \/ Logged(h)
  BY <1>3, TypeAbort, TypeDedupFails, TypeHandlerFails, TypeLogged
<1>4. CASE \E h \in Handlers :
              \/ \E k \in Keys, q \in Quantities, cod \in BOOLEAN : Checkout(h, k, q, cod)
              \/ \E e \in Events : FetchMessage(h, e)
              \/ \E k \in Keys : CancelOrder(h, k)
  BY <1>4, TypeCheckout, TypeFetch, TypeCancelOrder
<1>5. CASE \E e \in Events, type \in {"succeeded", "failed"}, k \in Keys : Publish(e, type, k)
  BY <1>5, TypePublish
<1>6. CASE (\E k \in Keys : Age(k)) \/ ExpireInventoryReservations
  BY <1>6, TypeStock
<1> QED
  BY <1>1, <1>2, <1>3, <1>4, <1>5, <1>6 DEF Next

\* Tables, counters and goroutines stay in range, and whatever a goroutine or an
\* event refers to is there.
THEOREM TypeCorrect == Spec => []TInv
<1>1. TInv /\ [Next]_vars => TInv'
  BY TypeStep
<1> QED
  BY TypeInit, <1>1, PTL DEF Spec

-----------------------------------------------------------------------------
(* Events and their effects *)

Hands == {"handle", "pay", "confirm", "deduct", "dead"}

LEMMA GotoPc ==
    ASSUME TypeOK, NEW h \in Handlers, NEW pc, Goto(h, pc)
    PROVE  proc'[h].pc = pc /\ \A g \in Handlers \ {h} : proc'[g] = proc[g]
<1> DEFINE r == proc[h]
           s == [r EXCEPT !.pc = pc]
<1>1. r \in Locals \cup {Idle}
  BY DEF TypeOK
<1>2. proc' = [proc EXCEPT ![h] = s]
  BY DEF Goto
<1> HIDE DEF r
<1>3. s.pc = pc
  BY <1>1 DEF Locals, Idle
<1> HIDE DEF s
<1> QED
  BY <1>2, <1>3 DEF TypeOK

\* One goroutine moves; what it had in hand it still has, or it is settled.
LEMMA LossKept ==
    ASSUME TInv, Answered, NEW h \in Handlers,
           \A g \in Handlers \ {h} : proc'[g] = proc[g],
           marks \subseteq marks', handled \subseteq handled', dead \subseteq dead',
           \A e \in marks' \cup committed' :
               \/ e \in marks \cup committed \cup handled' \cup dead'
               \/ proc'[h].pc \in Hands /\ proc'[h].event = e,
           proc[h].pc \in Hands =>
               \/ proc[h].event \in handled' \cup dead'
               \/ proc'[h].pc \in Hands /\ proc'[h].event = proc[h].event,
           proc'[h].pc = "commit" => proc'[h].event \in marks' \cup handled' \cup dead'
    PROVE  Answered' /\ LostEvents' \subseteq LostEvents
<1>1. ASSUME NEW g \in Handlers, proc'[g].pc = "commit"
      PROVE  proc'[g].event \in marks' \cup handled' \cup dead'
  <2>1. CASE g = h
    BY <1>1, <2>1
  <2>2. CASE g # h
    BY <1>1, <2>2 DEF Answered, At
  <2> QED
    BY <2>1, <2>2
<1>2. ASSUME NEW e \in LostEvents' PROVE e \in LostEvents
  <2>1. /\ e \in marks' \cup committed' /\ e \notin handled' \cup dead'
        /\ \A g \in Handlers : ~(proc'[g].pc \in Hands /\ proc'[g].event = e)
    BY <1>2 DEF LostEvents, InHand, Hands
  <2>2. e \in marks \cup committed /\ e \notin handled \cup dead
    BY <2>1
  <2>3. ASSUME NEW g \in Handlers, proc[g].pc \in Hands, proc[g].event = e PROVE FALSE
    <3>1. CASE g = h
      BY <2>1, <2>3, <3>1
    <3>2. CASE g # h
      BY <2>1, <2>3, <3>2
    <3> QED
      BY <3>1, <3>2
  <2> QED
    BY <2>2, <2>3 DEF LostEvents, InHand, Hands
<1> QED
  BY <1>1, <1>2 DEF Answered, At

\* A goroutine that has nothing in hand, before and after.
LEMMA QuietMove ==
    ASSUME TInv, Answered, NEW h \in Handlers,
           \A g \in Handlers \ {h} : proc'[g] = proc[g],
           proc[h].pc \notin Hands, proc'[h].pc \notin Hands \cup {"commit"},
           UNCHANGED <<marks, committed, dead, handled>>
    PROVE  Answered' /\ LostEvents' \subseteq LostEvents
<1>1. /\ marks \subseteq marks' /\ handled \subseteq handled' /\ dead \subseteq dead'
      /\ \A e \in marks' \cup committed' : e \in marks \cup committed \cup handled' \cup dead'
  OBVIOUS
<1> QED
  BY <1>1, LossKept

LEMMA HandsFacts == Hands \subseteq ConsumerPcs /\ "commit" \notin Hands /\ "idle" \notin Hands
BY DEF Hands, ConsumerPcs

\* Requests and cancellations know nothing of messages.
LEMMA LossRequests ==
    ASSUME TInv, Answered, NEW h \in Handlers,
           \/ \E k \in Keys, q \in Quantities, cod \in BOOLEAN : Checkout(h, k, q, cod)
           \/ \E k \in Keys : CancelOrder(h, k)
           \/ CreateOrder(h) \/ ReserveStock(h) \/ DeductForCOD(h)
           \/ MarkCancelled(h) \/ InitiateRefund(h) \/ StampOrderRefundIntent(h)
    PROVE  Answered' /\ LostEvents' \subseteq LostEvents
<1>1. UNCHANGED <<marks, committed, dead, handled>>
  BY DEF Checkout, CancelOrder, CreateOrder, ReserveStock, DeductForCOD, MarkCancelled,
     InitiateRefund, StampOrderRefundIntent, kafkaVars
<1>2. proc[h].pc \in {"idle", "create", "stock", "cancel", "refund", "stamp"}
  BY DEF Checkout, CancelOrder, CreateOrder, ReserveStock, DeductForCOD, MarkCancelled,
     InitiateRefund, StampOrderRefundIntent, At, Idle
<1>3. /\ proc'[h].pc \in {"idle", "create", "stock", "cancel", "refund", "stamp"}
      /\ \A g \in Handlers \ {h} : proc'[g] = proc[g]
  <2>1. CASE \E k \in Keys, q \in Quantities, cod \in BOOLEAN : Checkout(h, k, q, cod)
    BY <2>1 DEF Checkout, TInv, TypeOK
  <2>2. CASE \E k \in Keys : CancelOrder(h, k)
    BY <2>2 DEF CancelOrder, TInv, TypeOK
  <2>3. CASE End(h)
    BY <2>3, EndFacts DEF TInv
  <2>4. CASE Goto(h, "stock")
    BY <2>4, GotoPc DEF TInv
  <2>5. CASE Goto(h, "refund") \/ Goto(h, "stamp")
    BY <2>5, GotoPc DEF TInv
  <2> QED
    BY <2>1, <2>2, <2>3, <2>4, <2>5 DEF CreateOrder, ReserveStock, DeductForCOD, MarkCancelled,
       InitiateRefund, StampOrderRefundIntent
<1> QED
  BY <1>1, <1>2, <1>3, QuietMove DEF Hands

\* A goroutine that ends with nothing in hand.
LEMMA LossFetch ==
    ASSUME TInv, Answered, NEW h \in Handlers, NEW e \in Events, FetchMessage(h, e)
    PROVE  Answered' /\ LostEvents' \subseteq LostEvents
<1>1. /\ proc'[h].pc = "seen" /\ proc[h].pc = "idle"
      /\ \A g \in Handlers \ {h} : proc'[g] = proc[g]
  BY IdleFacts DEF FetchMessage, TInv, TypeOK
<1>2. UNCHANGED <<marks, committed, dead, handled>>
  BY DEF FetchMessage, kafkaVars
<1> QED
  BY <1>1, <1>2, QuietMove DEF Hands

LEMMA LossSetNX ==
    ASSUME TInv, Answered, NEW h \in Handlers, SetNX(h)
    PROVE  Answered' /\ LostEvents' \subseteq LostEvents
<1>1. /\ proc[h].pc = "seen" /\ marks' = marks \cup {proc[h].event}
      /\ UNCHANGED <<committed, dead, handled>>
  BY DEF SetNX, At
<1>2. proc[h].pc \in ConsumerPcs /\ TypeOK
  BY <1>1, ConsumerPcFacts DEF TInv
<1>3. CASE proc[h].event \in marks
  <2>1. Goto(h, "commit")
    BY <1>3 DEF SetNX
  <2>2. /\ proc'[h].pc = "commit" /\ proc'[h].event = proc[h].event
        /\ \A g \in Handlers \ {h} : proc'[g] = proc[g]
    BY <1>2, <2>1, ConsumerPcFacts, ConsumerGoto
  <2> QED
    BY <1>1, <1>3, <2>2, LossKept DEF Hands
<1>4. CASE proc[h].event \notin marks
  <2>1. Goto(h, "handle")
    BY <1>4 DEF SetNX
  <2>2. /\ proc'[h].pc = "handle" /\ proc'[h].event = proc[h].event
        /\ \A g \in Handlers \ {h} : proc'[g] = proc[g]
    BY <1>2, <2>1, ConsumerPcFacts, ConsumerGoto
  <2> QED
    BY <1>1, <2>2, LossKept DEF Hands
<1> QED
  BY <1>3, <1>4

\* The handler goes on.
LEMMA LossGoto ==
    ASSUME TInv, Answered, NEW h \in Handlers, proc[h].pc \in ConsumerPcs,
           NEW pc \in Hands, Goto(h, pc), UNCHANGED <<marks, committed, dead, handled>>
    PROVE  Answered' /\ LostEvents' \subseteq LostEvents
<1>1. /\ proc'[h].pc = pc /\ proc'[h].event = proc[h].event
      /\ \A g \in Handlers \ {h} : proc'[g] = proc[g]
  BY HandsFacts, ConsumerGoto DEF TInv
<1>2. proc'[h].pc # "commit"
  BY <1>1, HandsFacts
<1> QED
  BY <1>1, <1>2, LossKept

LEMMA LossReturned ==
    ASSUME TInv, Answered, NEW h \in Handlers, proc[h].pc \in ConsumerPcs, Returned(h)
    PROVE  Answered' /\ LostEvents' \subseteq LostEvents
<1>1. /\ Goto(h, "commit") /\ handled' = handled \cup {proc[h].event}
      /\ UNCHANGED <<marks, committed, dead>>
  BY DEF Returned
<1>2. /\ proc'[h].pc = "commit" /\ proc'[h].event = proc[h].event
      /\ \A g \in Handlers \ {h} : proc'[g] = proc[g]
  BY <1>1, ConsumerPcFacts, ConsumerGoto DEF TInv
<1> QED
  BY <1>1, <1>2, LossKept

LEMMA LossSendToDLQ ==
    ASSUME TInv, Answered, NEW h \in Handlers, SendToDLQ(h)
    PROVE  Answered' /\ LostEvents' \subseteq LostEvents
<1>1. /\ proc[h].pc \in ConsumerPcs /\ Goto(h, "commit") /\ dead' = dead \cup {proc[h].event}
      /\ UNCHANGED <<marks, committed, handled>>
  BY ConsumerPcFacts DEF SendToDLQ, At
<1>2. /\ proc'[h].pc = "commit" /\ proc'[h].event = proc[h].event
      /\ \A g \in Handlers \ {h} : proc'[g] = proc[g]
  BY <1>1, ConsumerPcFacts, ConsumerGoto DEF TInv
<1> QED
  BY <1>1, <1>2, LossKept

LEMMA LossCommit ==
    ASSUME TInv, Answered, NEW h \in Handlers, CommitMessage(h)
    PROVE  Answered' /\ LostEvents' \subseteq LostEvents
<1>1. /\ proc[h].pc = "commit" /\ End(h) /\ committed' = committed \cup {proc[h].event}
      /\ UNCHANGED <<marks, dead, handled>>
  BY DEF CommitMessage, At
<1>2. proc[h].event \in marks \cup handled \cup dead
  BY <1>1 DEF Answered, At
<1>3. proc'[h].pc = "idle" /\ \A g \in Handlers \ {h} : proc'[g] = proc[g]
  BY <1>1, EndFacts DEF TInv
<1>4. proc[h].pc \notin Hands
  BY <1>1, HandsFacts
<1>5. \A e \in marks' \cup committed' : e \in marks \cup committed \cup handled' \cup dead'
  BY <1>1, <1>2
<1> QED
  BY <1>1, <1>3, <1>4, <1>5, LossKept

\* A goroutine that is given up loses at most the message it had.
LEMMA LossAbort ==
    ASSUME TInv, Answered, NEW h \in Handlers, Abort(h)
    PROVE  Answered' /\ LostEvents' \subseteq LostEvents \cup {proc[h].event}
<1>1. End(h) /\ UNCHANGED <<marks, committed, dead, handled>>
  BY DEF Abort, kafkaVars
<1>2. proc'[h].pc = "idle" /\ \A g \in Handlers \ {h} : proc'[g] = proc[g]
  BY <1>1, EndFacts DEF TInv
<1>3. Answered'
  <2> SUFFICES ASSUME NEW g \in Handlers, proc'[g].pc = "commit"
               PROVE  proc'[g].event \in marks' \cup handled' \cup dead'
    BY DEF Answered, At
  <2>1. g # h
    BY <1>2
  <2> QED
    BY <1>1, <1>2, <2>1 DEF Answered, At
<1>4. ASSUME NEW e \in LostEvents', e # proc[h].event PROVE e \in LostEvents
  <2>1. /\ e \in marks \cup committed /\ e \notin handled \cup dead
        /\ \A g \in Handlers : ~(proc'[g].pc \in Hands /\ proc'[g].event = e)
    BY <1>1, <1>4 DEF LostEvents, InHand, Hands
  <2>2. \A g \in Handlers : ~(proc[g].pc \in Hands /\ proc[g].event = e)
    BY <1>2, <1>4, <2>1
  <2> QED
    BY <2>1, <2>2 DEF LostEvents, InHand, Hands
<1> QED
  BY <1>3, <1>4

LEMMA LossFailures ==
    ASSUME TInv, Answered, NEW h \in Handlers,
           DedupFails(h) \/ HandlerFails(h) \/ Logged(h)
    PROVE  Answered' /\ LostEvents' \subseteq LostEvents
<1>1. CASE DedupFails(h)
  <2>1. /\ proc[h].pc \in ConsumerPcs /\ Goto(h, "handle") /\ "handle" \in Hands
        /\ UNCHANGED <<marks, committed, dead, handled>>
    BY <1>1, ConsumerPcFacts DEF DedupFails, At, kafkaVars, Hands
  <2> QED
    BY <2>1, LossGoto
<1>2. CASE HandlerFails(h)
  <2>1. UNCHANGED <<marks, committed, dead, handled>>
    BY <1>2 DEF HandlerFails, kafkaVars
  <2>2. /\ proc'[h].pc \in Hands /\ proc'[h].pc # "commit" /\ proc'[h].event = proc[h].event
        /\ \A g \in Handlers \ {h} : proc'[g] = proc[g]
    BY <1>2, RetryFacts DEF TInv, Hands
  <2> QED
    BY <2>1, <2>2, LossKept
<1>3. CASE Logged(h)
  BY <1>3, ConsumerPcFacts, LossReturned DEF Logged, At, Handling
<1> QED
  BY <1>1, <1>2, <1>3

\* Nobody moves.
LEMMA LossStill ==
    ASSUME Answered, UNCHANGED <<proc, marks, committed, dead, handled>>
    PROVE  Answered' /\ LostEvents' = LostEvents
BY DEF Answered, At, LostEvents, InHand

LEMMA LossStep ==
    ASSUME TInv, Answered, [Next]_vars
    PROVE  /\ Answered'
           /\ \/ LostEvents' \subseteq LostEvents /\ faults' \in {faults, faults + 1}
              \/ \E e : LostEvents' \subseteq LostEvents \cup {e} /\ faults' = faults + 1
<1>1. CASE UNCHANGED vars
  BY <1>1, LossStill DEF vars, kafkaVars
<1>2. CASE \E h \in Handlers : Step(h)
  <2> SUFFICES ASSUME NEW h \in Handlers, Step(h)
               PROVE  Answered' /\ LostEvents' \subseteq LostEvents /\ faults' = faults
    BY <1>2
  <2>1. CASE \/ CreateOrder(h) \/ ReserveStock(h) \/ DeductForCOD(h)
             \/ MarkCancelled(h) \/ InitiateRefund(h) \/ StampOrderRefundIntent(h)
    BY <2>1, LossRequests DEF CreateOrder, ReserveStock, DeductForCOD, MarkCancelled,
       InitiateRefund, StampOrderRefundIntent
  <2>2. CASE SetNX(h) \/ SendToDLQ(h) \/ CommitMessage(h)
    BY <2>2, LossSetNX, LossSendToDLQ, LossCommit DEF SetNX, SendToDLQ, CommitMessage
  <2>3. CASE GetOrder(h) \/ MarkPaid(h) \/ Confirm(h)
    <3>1. proc[h].pc \in ConsumerPcs /\ UNCHANGED faults
      BY <2>3, ConsumerPcFacts DEF GetOrder, MarkPaid, Confirm, At, Handling
    <3>2. CASE Returned(h)
      BY <3>1, <3>2, LossReturned
    <3>3. CASE UNCHANGED kafkaVars /\ \E pc \in Hands : Goto(h, pc)
      BY <3>1, <3>3, LossGoto DEF kafkaVars
    <3>4. Returned(h) \/ (UNCHANGED kafkaVars /\ \E pc \in Hands : Goto(h, pc))
      BY <2>3 DEF GetOrder, MarkPaid, Confirm, Hands
    <3> QED
      BY <3>1, <3>2, <3>3, <3>4
  <2>4. CASE Deduct(h) \/ MarkPaymentFailed(h) \/ MarkOrderRefunded(h)
    <3>1. proc[h].pc \in ConsumerPcs /\ UNCHANGED faults /\ Returned(h)
      BY <2>4, ConsumerPcFacts DEF Deduct, MarkPaymentFailed, MarkOrderRefunded, At, Handling
    <3> QED
      BY <3>1, LossReturned
  <2> QED
    BY <2>1, <2>2, <2>3, <2>4 DEF Step
<1>3. CASE \E h \in Handlers : Abort(h)
  BY <1>3, LossAbort, FaultFacts DEF Abort, TInv
<1>4. CASE \E h \in Handlers : DedupFails(h) \/ HandlerFails(h) \/ Logged(h)
  BY <1>4, LossFailures, FaultFacts DEF DedupFails, HandlerFails, Logged, TInv
<1>5. CASE \E h \in Handlers :
              \/ \E k \in Keys, q \in Quantities, cod \in BOOLEAN : Checkout(h, k, q, cod)
              \/ \E e \in Events : FetchMessage(h, e)
              \/ \E k \in Keys : CancelOrder(h, k)
  BY <1>5, LossRequests, LossFetch DEF Checkout, FetchMessage, CancelOrder
<1>6. CASE \E e \in Events, type \in {"succeeded", "failed"}, k \in Keys : Publish(e, type, k)
  BY <1>6, LossStill DEF Publish
<1>7. CASE (\E k \in Keys : Age(k)) \/ ExpireInventoryReservations
  BY <1>7, LossStill DEF Age, ExpireInventoryReservations, kafkaVars
<1> QED
  BY <1>1, <1>2, <1>3, <1>4, <1>5, <1>6, <1>7 DEF Next

LEMMA LostFinite ==
    ASSUME TypeOK
    PROVE  IsFiniteSet(LostEvents) /\ Cardinality(LostEvents) \in Nat
<1>1. LostEvents \in SUBSET Events
  BY DEF TypeOK, LostEvents
<1>2. IsFiniteSet(LostEvents)
  BY <1>1, FS_Subset, OrdersAssumption DEF OrdersAssumption
<1> QED
  BY <1>2, FS_CardinalityType

LEMMA BoundStep ==
    ASSUME TInv, TInv', Answered, LostByFault, [Next]_vars
    PROVE  Answered' /\ LostByFault'
<1> DEFINE L == LostEvents
           M == LostEvents'
<1>1. IsFiniteSet(L) /\ Cardinality(L) \in Nat /\ faults \in Nat /\ Cardinality(L) <= faults
  BY LostFinite DEF TInv, TypeOK, LostByFault
<1>2. /\ Answered'
      /\ \/ M \subseteq L /\ faults' \in {faults, faults + 1}
         \/ \E e : M \subseteq L \cup {e} /\ faults' = faults + 1
  BY LossStep
<1>3. LostByFault' <=> Cardinality(M) <= faults'
  BY DEF LostByFault
<1>4. IsFiniteSet(M) /\ Cardinality(M) \in Nat
  <2>1. M \in SUBSET Events
    BY DEF TInv, TypeOK, LostEvents
  <2>2. IsFiniteSet(M)
    BY <2>1, FS_Subset, OrdersAssumption DEF OrdersAssumption
  <2> QED
    BY <2>2, FS_CardinalityType
<1> HIDE DEF L, M
<1>5. CASE M \subseteq L /\ faults' \in {faults, faults + 1}
  <2>1. Cardinality(M) <= Cardinality(L)
    BY <1>1, <1>5, FS_Subset
  <2> QED
    BY <1>1, <1>2, <1>3, <1>4, <1>5, <2>1
<1>6. ASSUME NEW e, M \subseteq L \cup {e}, faults' = faults + 1 PROVE LostByFault'
  <2>1. IsFiniteSet(L \cup {e})
        /\ Cardinality(L \cup {e}) = IF e \in L THEN Cardinality(L) ELSE Cardinality(L) + 1
    BY <1>1, FS_AddElement
  <2>2. Cardinality(M) <= Cardinality(L \cup {e})
    BY <1>6, <2>1, FS_Subset
  <2>3. Cardinality(L \cup {e}) \in Nat /\ Cardinality(L \cup {e}) <= Cardinality(L) + 1
    BY <1>1, <2>1
  <2> QED
    BY <1>1, <1>3, <1>4, <1>6, <2>2, <2>3
<1> QED
  BY <1>2, <1>5, <1>6

\* No event of a payment is lost without a fault, and no fault loses two.
THEOREM LossesHaveFaults == Spec => []LostByFault
<1>1. Init => Answered /\ LostByFault
  <2> SUFFICES ASSUME Init PROVE Answered /\ LostByFault
    OBVIOUS
  <2>1. LostEvents = {} /\ faults = 0
    BY DEF Init, LostEvents
  <2>2. Answered
    BY IdleFacts DEF Init, Answered, At
  <2> QED
    BY <2>1, <2>2, FS_EmptySet DEF LostByFault
<1>2. TInv /\ TInv' /\ (Answered /\ LostByFault) /\ [Next]_vars => (Answered /\ LostByFault)'
  BY BoundStep
<1> QED
  BY TypeCorrect, <1>1, <1>2, PTL DEF Spec

-----------------------------------------------------------------------------
(* Payments and reservations are followed up *)

\* An order none of whose payments is touched, and that gets no new claim.
LEMMA ServedStill ==
    ASSUME TInv, NEW k \in Keys, PaidServed(k), HoldServed(k),
           \A g \in Handlers : proc[g].pc \in {"confirm", "deduct"} /\ OrderOf(g) = k =>
               proc'[g] = proc[g],
           \A e \in Events : event[e] # NoEvent => event'[e] = event[e],
           stranded \subseteq stranded',
           orders'[k].pay = "paid" /\ orders'[k].status = "payment_pending" =>
               \/ orders[k].pay = "paid" /\ orders[k].status = "payment_pending"
               \/ k \in stranded',
           hold'[k] # "none" /\ ~Unpaid(k)' =>
               \/ hold[k] # "none" /\ ~Unpaid(k)
               \/ k \in stranded'
    PROVE  PaidServed(k)' /\ HoldServed(k)'
<1>1. ASSUME NEW g \in Handlers, proc[g].pc \in {"confirm", "deduct"}, OrderOf(g) = k
      PROVE  proc'[g].pc = proc[g].pc /\ OrderOf(g)' = k
  <2>1. proc'[g] = proc[g]
    BY <1>1
  <2>2. proc[g].event \in Events /\ event[proc[g].event] # NoEvent
    BY <1>1, ConsumerPcFacts, SubjectFacts
  <2> QED
    BY <1>1, <2>1, <2>2 DEF OrderOf
<1>2. PaidServed(k)'
  BY <1>1 DEF PaidServed, At
<1>3. HoldServed(k)'
  BY <1>1 DEF HoldServed
<1> QED
  BY <1>2, <1>3

Served == \A k \in Keys : PaidServed(k) /\ HoldServed(k)

\* Orders and reservations stay; whoever is applying a payment stands still.
LEMMA ServedQuiet ==
    ASSUME TInv, Served, UNCHANGED orders, stranded' = stranded,
           \A k \in Keys : hold'[k] # "none" => hold[k] # "none",
           \A g \in Handlers : proc[g].pc \in {"confirm", "deduct"} => proc'[g] = proc[g],
           \A e \in Events : event[e] # NoEvent => event'[e] = event[e]
    PROVE  Served'
<1> SUFFICES ASSUME NEW k \in Keys PROVE PaidServed(k)' /\ HoldServed(k)'
  BY DEF Served
<1>1. Unpaid(k)' <=> Unpaid(k)
  BY DEF Unpaid
<1> QED
  BY <1>1, ServedStill DEF Served

LEMMA ServedRequests ==
    ASSUME TInv, Served, NEW h \in Handlers,
           \/ \E k \in Keys, q \in Quantities, cod \in BOOLEAN : Checkout(h, k, q, cod)
           \/ \E k \in Keys : CancelOrder(h, k)
           \/ \E e \in Events : FetchMessage(h, e)
    PROVE  Served'
<1>1. /\ UNCHANGED <<orders, hold, stranded, event>> /\ proc[h].pc = "idle"
      /\ \A g \in Handlers \ {h} : proc'[g] = proc[g]
  BY IdleFacts DEF Checkout, CancelOrder, FetchMessage, stockVars, kafkaVars, TInv, TypeOK
<1> QED
  BY <1>1, ServedQuiet

LEMMA ServedCreateOrder ==
    ASSUME TInv, Served, NEW h \in Handlers, CreateOrder(h)
    PROVE  Served'
<1> DEFINE k == proc[h].key
           x == [status |-> IF proc[h].cod THEN "confirmed" ELSE "payment_pending",
                 pay |-> "pending", qty |-> proc[h].qty, cod |-> proc[h].cod, refund |-> FALSE]
<1>1. proc[h].pc \in CheckoutPcs /\ proc[h].pc = "create" /\ TypeOK
  BY DEF CreateOrder, At, CheckoutPcs, TInv
<1>2. UNCHANGED <<hold, stranded, event>>
  BY DEF CreateOrder, stockVars, kafkaVars
<1>3. \A g \in Handlers \ {h} : proc'[g] = proc[g]
  BY <1>1, EndFacts, StockFacts DEF CreateOrder
<1>4. CASE Placed(k)
  <2>1. UNCHANGED orders
    BY <1>4 DEF CreateOrder
  <2> QED
    BY <1>1, <1>2, <1>3, <2>1, ServedQuiet
<1>5. CASE ~Placed(k)
  <2>1. k \in Keys /\ orders' = [orders EXCEPT ![k] = x] /\ x.pay = "pending"
    BY <1>1, <1>5, CheckoutFacts DEF CreateOrder
  <2>2. ~Unpaid(k)
    BY <1>1, <1>5, <2>1, OrderFacts DEF Unpaid
  <2> HIDE DEF k, x
  <2>3. ASSUME NEW j \in Keys PROVE PaidServed(j)' /\ HoldServed(j)'
    <3>1. CASE j = k
      <4>1. orders'[j].pay # "paid"
        BY <2>1, <3>1 DEF TInv, TypeOK
      <4> QED
        BY <1>1, <1>2, <1>3, <2>2, <3>1, <4>1, ServedStill DEF Served
    <3>2. CASE j # k
      <4>1. orders'[j] = orders[j]
        BY <2>1, <3>2 DEF TInv, TypeOK
      <4>2. Unpaid(j)' <=> Unpaid(j)
        BY <4>1 DEF Unpaid
      <4> QED
        BY <1>1, <1>2, <1>3, <4>1, <4>2, ServedStill DEF Served
    <3> QED
      BY <3>1, <3>2
  <2> QED
    BY <2>3 DEF Served
<1> QED
  BY <1>4, <1>5

LEMMA ServedReserveStock ==
    ASSUME TInv, Served, NEW h \in Handlers, ReserveStock(h)
    PROVE  Served'
<1> DEFINE k == proc[h].key
<1>1. proc[h].pc \in CheckoutPcs /\ proc[h].pc = "stock" /\ TypeOK /\ End(h)
  BY DEF ReserveStock, At, CheckoutPcs, TInv
<1>2. UNCHANGED <<orders, event>>
  BY DEF ReserveStock, kafkaVars
<1>3. \A g \in Handlers \ {h} : proc'[g] = proc[g]
  BY <1>1, EndFacts
<1>4. k \in Keys
  BY <1>1, CheckoutFacts
<1>5. CASE UNCHANGED <<hold, stranded>>
  BY <1>1, <1>2, <1>3, <1>5, ServedQuiet
<1>6. CASE hold' = [hold EXCEPT ![k] = "live"]
           /\ stranded' = IF Unpaid(k) THEN stranded ELSE stranded \cup {k}
  <2> HIDE DEF k
  <2>1. \A j \in Keys : Unpaid(j)' <=> Unpaid(j)
    BY <1>2 DEF Unpaid
  <2>2. \A j \in Keys \ {k} : hold'[j] = hold[j]
    BY <1>6 DEF TInv, TypeOK
  <2>3. ~Unpaid(k) => k \in stranded'
    BY <1>6
  <2>4. stranded \subseteq stranded'
    BY <1>6
  <2>5. ASSUME NEW j \in Keys PROVE PaidServed(j)' /\ HoldServed(j)'
    BY <1>1, <1>2, <1>3, <2>1, <2>2, <2>3, <2>4, ServedStill DEF Served
  <2> QED
    BY <2>5 DEF Served
<1> QED
  BY <1>5, <1>6 DEF ReserveStock

\* A sale, of cash on delivery.
LEMMA ServedDeductForCOD ==
    ASSUME TInv, Served, NEW h \in Handlers, DeductForCOD(h)
    PROVE  Served'
<1>1. /\ End(h) /\ proc[h].pc = "stock" /\ UNCHANGED <<orders, event, stranded>>
      /\ hold' = [hold EXCEPT ![proc[h].key] = "none"]
  BY DEF DeductForCOD, DeductStock, kafkaVars, At
<1>2. \A g \in Handlers \ {h} : proc'[g] = proc[g]
  BY <1>1, EndFacts DEF TInv
<1>3. \A k \in Keys : hold'[k] # "none" => hold[k] # "none"
  BY <1>1 DEF TInv, TypeOK
<1> QED
  BY <1>1, <1>2, <1>3, ServedQuiet

\* The consumer around the handler.
LEMMA ServedConsumer ==
    ASSUME TInv, Served, NEW h \in Handlers,
           SetNX(h) \/ GetOrder(h) \/ SendToDLQ(h) \/ CommitMessage(h) \/ DedupFails(h)
    PROVE  Served'
<1>1. UNCHANGED <<orders, hold, stranded, event>>
  BY DEF SetNX, GetOrder, SendToDLQ, CommitMessage, DedupFails, stockVars, kafkaVars, Returned
<1>2. proc[h].pc \in {"seen", "handle", "dead", "commit"}
  BY DEF SetNX, GetOrder, SendToDLQ, CommitMessage, DedupFails, At, Handling
<1>3. End(h) \/ \E pc \in ConsumerPcs : Goto(h, pc)
  BY ConsumerPcFacts DEF SetNX, GetOrder, SendToDLQ, CommitMessage, DedupFails, Returned
<1>4. \A g \in Handlers \ {h} : proc'[g] = proc[g]
  BY <1>3, EndFacts, GotoPc DEF TInv
<1> QED
  BY <1>1, <1>2, <1>4, ServedQuiet

\* The handler: the order of the message is looked at by itself, the others stand still.
LEMMA ServedOthers ==
    ASSUME TInv, Served, NEW h \in Handlers, proc[h].pc \in ConsumerPcs,
           \A g \in Handlers \ {h} : proc'[g] = proc[g],
           UNCHANGED event, stranded \subseteq stranded',
           NEW k \in Keys, k = OrderOf(h),
           \A j \in Keys \ {k} : orders'[j] = orders[j] /\ hold'[j] = hold[j],
           PaidServed(k)' /\ HoldServed(k)'
    PROVE  Served'
<1> SUFFICES ASSUME NEW j \in Keys PROVE PaidServed(j)' /\ HoldServed(j)'
  BY DEF Served
<1>1. CASE j = k
  BY <1>1
<1>2. CASE j # k
  <2>1. orders'[j] = orders[j] /\ hold'[j] = hold[j]
    BY <1>2
  <2>2. Unpaid(j)' <=> Unpaid(j)
    BY <2>1 DEF Unpaid
  <2>3. \A g \in Handlers : OrderOf(g) = j => g # h
    BY <1>2
  <2> QED
    BY <2>1, <2>2, <2>3, ServedStill DEF Served
<1> QED
  BY <1>1, <1>2

LEMMA ServedMarkPaid ==
    ASSUME TInv, Served, NEW h \in Handlers, MarkPaid(h)
    PROVE  Served'
<1>1. /\ proc[h].pc \in ConsumerPcs /\ Goto(h, "confirm") /\ TypeOK
      /\ orders' = [orders EXCEPT ![OrderOf(h)].pay = "paid"]
      /\ UNCHANGED <<hold, stranded, event>>
  BY ConsumerPcFacts DEF MarkPaid, At, stockVars, kafkaVars, TInv
<1>2. /\ proc'[h].pc = "confirm" /\ proc'[h].event = proc[h].event
      /\ \A g \in Handlers \ {h} : proc'[g] = proc[g]
  BY <1>1, ConsumerPcFacts, ConsumerGoto
<1>3. PICK k \in Keys : k = OrderOf(h) /\ Placed(k)
  BY <1>1, SubjectFacts
<1>4. \A j \in Keys \ {k} : orders'[j] = orders[j]
  BY <1>1, <1>3 DEF TypeOK
<1>5. OrderOf(h)' = k
  BY <1>1, <1>2, <1>3 DEF OrderOf
<1>6. PaidServed(k)' /\ HoldServed(k)'
  BY <1>2, <1>5 DEF PaidServed, HoldServed, At
<1> QED
  BY <1>1, <1>2, <1>3, <1>4, <1>6, ServedOthers

LEMMA ServedConfirm ==
    ASSUME TInv, Served, NEW h \in Handlers, Confirm(h)
    PROVE  Served'
<1>1. /\ proc[h].pc \in ConsumerPcs /\ Goto(h, "deduct") /\ TypeOK
      /\ orders' = [orders EXCEPT ![OrderOf(h)].status = "confirmed"]
      /\ UNCHANGED <<hold, stranded, event>>
  BY ConsumerPcFacts DEF Confirm, At, stockVars, kafkaVars, TInv
<1>2. /\ proc'[h].pc = "deduct" /\ proc'[h].event = proc[h].event
      /\ \A g \in Handlers \ {h} : proc'[g] = proc[g]
  BY <1>1, ConsumerPcFacts, ConsumerGoto
<1>3. PICK k \in Keys : k = OrderOf(h) /\ Placed(k)
  BY <1>1, SubjectFacts
<1>4. \A j \in Keys \ {k} : orders'[j] = orders[j]
  BY <1>1, <1>3 DEF TypeOK
<1>5. OrderOf(h)' = k
  BY <1>1, <1>2, <1>3 DEF OrderOf
<1>6. orders'[k].status = "confirmed"
  BY <1>1, <1>3, StatusFacts DEF Statuses
<1>7. PaidServed(k)' /\ HoldServed(k)'
  BY <1>2, <1>5, <1>6 DEF PaidServed, HoldServed
<1> QED
  BY <1>1, <1>2, <1>3, <1>4, <1>7, ServedOthers

LEMMA ServedDeduct ==
    ASSUME TInv, Served, NEW h \in Handlers, Deduct(h)
    PROVE  Served'
<1>1. /\ proc[h].pc \in ConsumerPcs /\ proc[h].pc = "deduct" /\ Goto(h, "commit") /\ TypeOK
      /\ hold' = [hold EXCEPT ![OrderOf(h)] = "none"]
      /\ UNCHANGED <<orders, stranded, event>>
  BY ConsumerPcFacts DEF Deduct, DeductStock, Returned, At, TInv
<1>2. \A g \in Handlers \ {h} : proc'[g] = proc[g]
  BY <1>1, GotoPc
<1>3. PICK k \in Keys : k = OrderOf(h)
  BY <1>1, SubjectFacts
<1>4. hold'[k] = "none" /\ \A j \in Keys \ {k} : hold'[j] = hold[j]
  BY <1>1, <1>3 DEF TypeOK
<1>5. \A g \in Handlers : At(g, "confirm") => proc'[g] = proc[g] /\ OrderOf(g)' = OrderOf(g)
  BY <1>1, <1>2 DEF At, OrderOf
<1>6. PaidServed(k)' /\ HoldServed(k)'
  BY <1>1, <1>4, <1>5 DEF Served, PaidServed, HoldServed, At
<1> QED
  BY <1>1, <1>2, <1>3, <1>4, <1>6, ServedOthers

\* A payment that failed, or was given back, takes no claim away from anybody.
LEMMA ServedOutcome ==
    ASSUME TInv, Served, NEW h \in Handlers, MarkPaymentFailed(h) \/ MarkOrderRefunded(h)
    PROVE  Served'
<1>1. /\ proc[h].pc \in ConsumerPcs /\ proc[h].pc = "handle" /\ Goto(h, "commit") /\ TypeOK
      /\ UNCHANGED <<hold, stranded, event>>
  BY ConsumerPcFacts DEF MarkPaymentFailed, MarkOrderRefunded, Handling, At, Returned, stockVars,
     TInv
<1>2. \A g \in Handlers \ {h} : proc'[g] = proc[g]
  BY <1>1, GotoPc
<1>3. CASE UNCHANGED orders
  BY <1>1, <1>2, <1>3, ServedQuiet
<1>4. PICK k \in Keys : k = OrderOf(h) /\ Placed(k)
  BY <1>1, SubjectFacts
<1>5. ASSUME NEW p \in {"failed", "refunded"}, orders' = [orders EXCEPT ![k].pay = p],
             p = "refunded" => orders[k].pay \in {"paid", "refund_pending"}
      PROVE  Served'
  <2>1. /\ orders'[k].pay = p /\ orders'[k].status = orders[k].status
        /\ \A j \in Keys \ {k} : orders'[j] = orders[j]
    BY <1>1, <1>4, <1>5, PayFacts DEF PayStatuses
  <2>2. ~Unpaid(k)' => ~Unpaid(k)
    BY <1>5, <2>1 DEF Unpaid
  <2>3. \A g \in Handlers : proc[g].pc \in {"confirm", "deduct"} => proc'[g] = proc[g]
    BY <1>1, <1>2
  <2>4. PaidServed(k)' /\ HoldServed(k)'
    BY <1>1, <2>1, <2>2, <2>3, ServedStill DEF Served
  <2> QED
    BY <1>1, <1>2, <1>4, <2>1, <2>4, ServedOthers
<1>6. CASE MarkPaymentFailed(h)
  <2>1. orders' = [orders EXCEPT ![k].pay = "failed"]
    BY <1>4, <1>6 DEF MarkPaymentFailed
  <2> QED
    BY <1>5, <2>1
<1>7. CASE MarkOrderRefunded(h)
  <2>1. CASE orders[k].refund /\ orders[k].pay \in {"paid", "refund_pending"}
    <3>1. orders' = [orders EXCEPT ![k].pay = "refunded"]
      BY <1>4, <1>7, <2>1 DEF MarkOrderRefunded
    <3> QED
      BY <1>5, <2>1, <3>1
  <2>2. CASE ~(orders[k].refund /\ orders[k].pay \in {"paid", "refund_pending"})
    BY <1>3, <1>4, <1>7, <2>2 DEF MarkOrderRefunded
  <2> QED
    BY <2>1, <2>2
<1> QED
  BY <1>6, <1>7

\* A cancellation leaves what was unpaid to the sweep.
LEMMA ServedCancel ==
    ASSUME TInv, Served, NEW h \in Handlers, MarkCancelled(h) \/ StampOrderRefundIntent(h)
    PROVE  Served'
<1>1. /\ proc[h].pc \in CancelPcs /\ TypeOK /\ UNCHANGED <<hold, stranded, event>>
      /\ proc[h].pc \in {"cancel", "stamp"}
  BY DEF MarkCancelled, StampOrderRefundIntent, At, CancelPcs, stockVars, kafkaVars, TInv
<1>2. \A g \in Handlers \ {h} : proc'[g] = proc[g]
  BY <1>1, EndFacts, GotoPc DEF MarkCancelled, StampOrderRefundIntent
<1>3. PICK k \in Keys : k = proc[h].key /\ Placed(k)
  BY <1>1, CancelFacts DEF TInv, Referred
<1>4. /\ \A j \in Keys \ {k} : orders'[j] = orders[j]
      /\ orders'[k].pay = "paid" /\ orders'[k].status = "payment_pending" =>
             orders[k].pay = "paid" /\ orders[k].status = "payment_pending"
      /\ ~Unpaid(k)' => ~Unpaid(k)
  <2>1. CASE MarkCancelled(h)
    <3>1. orders' = [orders EXCEPT ![k].status = "cancelled"]
      BY <1>3, <2>1 DEF MarkCancelled
    <3>2. /\ orders'[k].status = "cancelled" /\ orders'[k].pay = orders[k].pay
          /\ \A j \in Keys \ {k} : orders'[j] = orders[j]
      BY <1>1, <1>3, <3>1, StatusFacts DEF Statuses
    <3> QED
      BY <3>2 DEF Unpaid
  <2>2. CASE UNCHANGED orders
    BY <2>2 DEF Unpaid
  <2>3. CASE orders[k].pay = "paid"
             /\ orders' = [orders EXCEPT ![k].pay = "refund_pending", ![k].refund = TRUE]
    <3>1. /\ orders'[k].pay = "refund_pending"
          /\ \A j \in Keys \ {k} : orders'[j] = orders[j]
      BY <1>1, <1>3, <2>3, StampFacts
    <3> QED
      BY <2>3, <3>1 DEF Unpaid
  <2> QED
    BY <1>3, <2>1, <2>2, <2>3 DEF StampOrderRefundIntent
<1>5. \A g \in Handlers : proc[g].pc \in {"confirm", "deduct"} => proc'[g] = proc[g]
  BY <1>1, <1>2
<1>6. ASSUME NEW j \in Keys PROVE PaidServed(j)' /\ HoldServed(j)'
  <2>1. CASE j = k
    BY <1>1, <1>4, <1>5, <2>1, ServedStill DEF Served
  <2>2. CASE j # k
    <3>1. orders'[j] = orders[j]
      BY <1>4, <2>2
    <3>2. Unpaid(j)' <=> Unpaid(j)
      BY <3>1 DEF Unpaid
    <3> QED
      BY <1>1, <1>5, <3>1, <3>2, ServedStill DEF Served
  <2> QED
    BY <2>1, <2>2
<1> QED
  BY <1>6 DEF Served

LEMMA ServedInitiateRefund ==
    ASSUME TInv, Served, NEW h \in Handlers, InitiateRefund(h)
    PROVE  Served'
<1>1. /\ proc[h].pc = "refund" /\ UNCHANGED <<orders, hold, stranded>>
      /\ End(h) \/ Goto(h, "stamp")
  BY DEF InitiateRefund, At, stockVars
<1>2. \A g \in Handlers \ {h} : proc'[g] = proc[g]
  BY <1>1, EndFacts, GotoPc DEF TInv
<1> QED
  BY <1>1, <1>2, RefundEvent, ServedQuiet

\* A failure in the middle of applying a payment leaves a stranded order.
LEMMA ServedFailures ==
    ASSUME TInv, Served, NEW h \in Handlers, Abort(h) \/ HandlerFails(h) \/ Logged(h)
    PROVE  Served'
<1>1. UNCHANGED <<orders, hold, event>>
  BY DEF Abort, HandlerFails, Logged, stockVars, kafkaVars, Returned
<1>2. \A g \in Handlers \ {h} : proc'[g] = proc[g]
  BY EndFacts, RetryFacts, GotoPc DEF Abort, Logged, Returned, TInv
<1>3. proc[h].pc = "deduct" => ~HandlerFails(h)
  BY DEF HandlerFails, At
<1>4. CASE proc[h].pc \in {"confirm", "deduct"}
  <2>1. PICK k \in Keys : k = OrderOf(h)
    BY <1>4, ConsumerPcFacts, SubjectFacts
  <2>2. stranded' = stranded \cup {k}
    BY <1>3, <1>4, <2>1 DEF Abort, HandlerFails, Logged, At, Handling
  <2>3. PaidServed(k)' /\ HoldServed(k)'
    BY <2>2 DEF PaidServed, HoldServed
  <2> QED
    BY <1>1, <1>2, <1>4, <2>1, <2>2, <2>3, ConsumerPcFacts, ServedOthers
<1>5. CASE proc[h].pc \notin {"confirm", "deduct"}
  <2>1. stranded' = stranded
    BY <1>5 DEF Abort, HandlerFails, Logged, At
  <2> QED
    BY <1>1, <1>2, <1>5, <2>1, ServedQuiet
<1> QED
  BY <1>4, <1>5

LEMMA ServedStock ==
    ASSUME TInv, Served,
           \/ \E k \in Keys : Age(k)
           \/ ExpireInventoryReservations
           \/ \E e \in Events, type \in {"succeeded", "failed"}, k \in Keys : Publish(e, type, k)
    PROVE  Served'
<1>1. UNCHANGED <<orders, stranded, proc>>
  BY DEF Age, ExpireInventoryReservations, Publish
<1>2. \A k \in Keys : hold'[k] # "none" => hold[k] # "none"
  BY DEF Age, ExpireInventoryReservations, Publish, stockVars, TInv, TypeOK
<1>3. \A e \in Events : event[e] # NoEvent => event'[e] = event[e]
  BY DEF Age, ExpireInventoryReservations, Publish, kafkaVars, TInv, TypeOK
<1> QED
  BY <1>1, <1>2, <1>3, ServedQuiet

LEMMA ServedStep ==
    ASSUME TInv, Served, [Next]_vars
    PROVE  Served'
<1>1. CASE UNCHANGED vars
  BY <1>1, ServedQuiet DEF vars, stockVars, kafkaVars
<1>2. CASE \E h \in Handlers : Step(h)
  BY <1>2, ServedCreateOrder, ServedReserveStock, ServedDeductForCOD, ServedConsumer,
     ServedMarkPaid, ServedConfirm, ServedDeduct, ServedOutcome, ServedCancel,
     ServedInitiateRefund DEF Step
<1>3. CASE \E h \in Handlers : Abort(h) \/ DedupFails(h) \/ HandlerFails(h) \/ Logged(h)
  BY <1>3, ServedFailures, ServedConsumer
<1>4. CASE \E h \in Handlers :
              \/ \E k \in Keys, q \in Quantities, cod \in BOOLEAN : Checkout(h, k, q, cod)
              \/ \E e \in Events : FetchMessage(h, e)
              \/ \E k \in Keys : CancelOrder(h, k)
  BY <1>4, ServedRequests
<1>5. CASE \E e \in Events, type \in {"succeeded", "failed"}, k \in Keys : Publish(e, type, k)
  BY <1>5, ServedStock
<1>6. CASE (\E k \in Keys : Age(k)) \/ ExpireInventoryReservations
  BY <1>6, ServedStock
<1> QED
  BY <1>1, <1>2, <1>3, <1>4, <1>5, <1>6 DEF Next

LEMMA ServedAlways == Spec => []Served
<1>1. Init => Served
  BY DEF Init, Served, PaidServed, HoldServed, NoOrder
<1>2. TInv /\ Served /\ [Next]_vars => Served'
  BY ServedStep
<1> QED
  BY TypeCorrect, <1>1, <1>2, PTL DEF Spec

\* An order that is paid for is confirmed, or about to be, unless a step failed.
THEOREM PaidGetsConfirmed == Spec => []PaidIsConfirmed
<1>1. Served => PaidIsConfirmed
  BY DEF Served, PaidServed, PaidIsConfirmed
<1> QED
  BY <1>1, ServedAlways, PTL

\* Every reservation is left to the sweep or to a sale, unless a step failed.
THEOREM HoldsEnd == Spec => []HoldHasEnd
<1>1. Served => HoldHasEnd
  BY DEF Served, HoldServed, HoldHasEnd, Held
<1> QED
  BY <1>1, ServedAlways, PTL

-----------------------------------------------------------------------------
(* The stock *)

StockInv == OncePerOrder /\ StockSound /\ PromisesKept

LEMMA StockNumbers ==
    ASSUME TInv
    PROVE  /\ total \in Nat /\ reserved \in Nat /\ Opening \in Nat
           /\ Held \in SUBSET Keys /\ kept \in SUBSET Keys
           /\ \A S \in SUBSET Keys :
                 Quantity(S) = QuantityOf(orders, S) /\ QuantityOf(orders, S) \in Nat
           /\ \A k \in Keys : orders[k].qty \in Nat
BY QuantityFacts, OrderFacts, OrdersAssumption DEF OrdersAssumption, TInv, TypeOK, Held

\* The quantities after a step.
LEMMA StockPrimed ==
    /\ StockSound' <=> reserved' <= total' /\ reserved' <= QuantityOf(orders', Held')
    /\ PromisesKept' <=> QuantityOf(orders', Held' \cup kept') + total' <= Opening + reserved'
BY DEF StockSound, PromisesKept, Quantity, Units, QuantityOf

LEMMA StockNow ==
    ASSUME TInv
    PROVE  /\ StockSound <=> reserved <= total /\ reserved <= QuantityOf(orders, Held)
           /\ PromisesKept <=> QuantityOf(orders, Held \cup kept) + total <= Opening + reserved
BY DEF StockSound, PromisesKept, Quantity, Units, QuantityOf

\* Nothing is reserved or taken, and no order gets another quantity.
LEMMA StockStays ==
    ASSUME TInv, StockInv, UNCHANGED <<total, reserved, kept>>, Held' = Held,
           \A j \in Keys : Placed(j) => Placed(j)' /\ orders'[j].qty = orders[j].qty
    PROVE  /\ StockSound' /\ PromisesKept' /\ Held' \cap kept' = {}
           /\ \A j \in Held' \cup kept' : Placed(j)'
<1>1. Held \in SUBSET Keys /\ kept \in SUBSET Keys
  BY StockNumbers
<1>2. \A j \in Held \cup kept : Placed(j)' /\ orders'[j].qty = orders[j].qty
  BY <1>1 DEF StockInv, OncePerOrder
<1>3. QuantityOf(orders', Held) = QuantityOf(orders, Held)
  BY <1>1, <1>2, QuantitySame
<1>4. QuantityOf(orders', Held \cup kept) = QuantityOf(orders, Held \cup kept)
  BY <1>1, <1>2, QuantitySame
<1> QED
  BY <1>2, <1>3, <1>4, StockPrimed, StockNow DEF StockInv, OncePerOrder

\* And no checkout arrives at its stock.
LEMMA StockQuiet ==
    ASSUME TInv, StockInv, UNCHANGED <<total, reserved, kept>>, Held' = Held,
           \A j \in Keys : Placed(j) => Placed(j)' /\ orders'[j].qty = orders[j].qty,
           \A g \in Handlers : proc'[g].pc = "stock" => proc'[g] = proc[g]
    PROVE  StockInv'
<1>1. /\ StockSound' /\ PromisesKept' /\ Held' \cap kept' = {}
      /\ \A j \in Held' \cup kept' : Placed(j)'
  BY StockStays
<1>2. ASSUME NEW g \in Handlers, proc'[g].pc = "stock"
      PROVE  /\ orders'[proc'[g].key] # NoOrder /\ proc'[g].key \notin Held' \cup kept'
             /\ \A f \in Handlers : proc'[f].pc = "stock" /\ proc'[f].key = proc'[g].key => f = g
  <2>1. proc'[g] = proc[g] /\ proc[g].pc = "stock"
    BY <1>2
  <2>2. proc[g].key \in Keys
    BY <2>1, CheckoutFacts DEF CheckoutPcs, TInv
  <2> QED
    BY <1>2, <2>1, <2>2 DEF StockInv, OncePerOrder, At, Placed
<1> QED
  BY <1>1, <1>2 DEF StockInv, OncePerOrder, At, Placed

LEMMA HeldStays == UNCHANGED hold => Held' = Held
BY DEF Held

LEMMA SameQuantities == UNCHANGED orders =>
    \A j \in Keys : Placed(j) => Placed(j)' /\ orders'[j].qty = orders[j].qty
BY DEF Placed

LEMMA StockCreateOrder ==
    ASSUME TInv, StockInv, NEW h \in Handlers, CreateOrder(h)
    PROVE  StockInv'
<1> DEFINE k == proc[h].key
           x == [status |-> IF proc[h].cod THEN "confirmed" ELSE "payment_pending",
                 pay |-> "pending", qty |-> proc[h].qty, cod |-> proc[h].cod, refund |-> FALSE]
<1>1. /\ proc[h].pc \in CheckoutPcs /\ proc[h].pc = "create" /\ TypeOK
      /\ UNCHANGED <<total, reserved, kept, hold>>
  BY DEF CreateOrder, At, CheckoutPcs, TInv, stockVars
<1>2. Held' = Held
  BY <1>1, HeldStays
<1>3. CASE Placed(k)
  <2>1. End(h) /\ UNCHANGED orders
    BY <1>3 DEF CreateOrder
  <2>2. \A g \in Handlers : proc'[g].pc = "stock" => proc'[g] = proc[g]
    BY <1>1, <2>1, EndFacts
  <2> QED
    BY <1>1, <1>2, <2>1, <2>2, SameQuantities, StockQuiet
<1>4. CASE ~Placed(k)
  <2>1. Goto(h, "stock") /\ orders' = [orders EXCEPT ![k] = x]
    BY <1>4 DEF CreateOrder
  <2>2. k \in Keys /\ x \in OrderRows
    BY <1>1, CheckoutFacts DEF OrderRows, Statuses, PayStatuses
  <2>3. /\ proc'[h].pc = "stock" /\ proc'[h].key = k
        /\ \A g \in Handlers \ {h} : proc'[g] = proc[g]
    BY <1>1, <2>1, StockFacts
  <2> HIDE DEF x
  <2>4. /\ orders'[k] # NoOrder
        /\ \A j \in Keys \ {k} : orders'[j] = orders[j]
    BY <1>1, <2>1, <2>2, PutFacts DEF Placed
  <2>5. \A j \in Keys : Placed(j) => Placed(j)' /\ orders'[j].qty = orders[j].qty
    BY <1>4, <2>4 DEF Placed
  <2>6. /\ StockSound' /\ PromisesKept' /\ Held' \cap kept' = {}
        /\ \A j \in Held' \cup kept' : Placed(j)'
    BY <1>1, <1>2, <2>5, StockStays
  <2>7. k \notin Held \cup kept
    BY <1>4 DEF StockInv, OncePerOrder
  <2>8. \A g \in Handlers : proc[g].pc = "stock" =>
          proc[g].key \in Keys /\ proc[g].key # k /\ orders[proc[g].key] # NoOrder
    BY <1>1, <1>4, CheckoutFacts DEF StockInv, OncePerOrder, At, Placed, CheckoutPcs
  <2> HIDE DEF k
  <2>9. ASSUME NEW g \in Handlers, proc'[g].pc = "stock"
        PROVE  /\ orders'[proc'[g].key] # NoOrder /\ proc'[g].key \notin Held' \cup kept'
               /\ \A f \in Handlers : proc'[f].pc = "stock" /\ proc'[f].key = proc'[g].key => f = g
    <3>1. CASE g = h
      BY <1>1, <1>2, <2>3, <2>4, <2>7, <2>8, <3>1
    <3>2. CASE g # h
      <4>1. proc'[g] = proc[g]
        BY <2>3, <3>2
      <4>2. /\ proc[g].key \in Keys \ {k} /\ orders[proc[g].key] # NoOrder
            /\ proc[g].key \notin Held \cup kept
            /\ \A f \in Handlers : proc[f].pc = "stock" /\ proc[f].key = proc[g].key => f = g
        BY <2>8, <2>9, <4>1 DEF StockInv, OncePerOrder, At
      <4> QED
        BY <1>1, <1>2, <2>3, <2>4, <4>1, <4>2
    <3> QED
      BY <3>1, <3>2
  <2> QED
    BY <2>6, <2>9 DEF StockInv, OncePerOrder, At, Placed
<1> QED
  BY <1>3, <1>4

\* One order of the set less.
LEMMA QuantityLess ==
    ASSUME TInv, NEW S \in SUBSET Keys, NEW T \in SUBSET S
    PROVE  QuantityOf(orders, S) = QuantityOf(orders, S \ T) + QuantityOf(orders, T)
<1>1. (S \ T) \cup T = S /\ (S \ T) \cap T = {}
  OBVIOUS
<1>2. (S \ T) \in SUBSET Keys /\ T \in SUBSET Keys
  OBVIOUS
<1>3. \A k \in (S \ T) \cup T : orders[k].qty \in Nat
  BY <1>2, StockNumbers
<1>4. QuantityOf(orders, (S \ T) \cup T) = QuantityOf(orders, S \ T) + QuantityOf(orders, T)
  BY <1>1, <1>2, <1>3, QuantitySum
<1> QED
  BY <1>1, <1>4

\* Once an order has been to the stock nobody goes there for it again.
LEMMA OnceLeft ==
    ASSUME TInv, StockInv, NEW h \in Handlers,
           \A g \in Handlers \ {h} : proc'[g] = proc[g], proc'[h].pc # "stock",
           UNCHANGED orders, NEW k \in Keys, Placed(k),
           Held' \cup kept' \subseteq Held \cup kept \cup {k}, Held' \cap kept' = {},
           \A g \in Handlers \ {h} : proc[g].pc = "stock" /\ proc[g].key = k =>
               k \notin Held' \cup kept'
    PROVE  OncePerOrder'
<1>1. \A j \in Held' \cup kept' : orders'[j] # NoOrder
  BY DEF StockInv, OncePerOrder, Placed
<1>2. ASSUME NEW g \in Handlers, proc'[g].pc = "stock"
      PROVE  /\ orders'[proc'[g].key] # NoOrder /\ proc'[g].key \notin Held' \cup kept'
             /\ \A f \in Handlers : proc'[f].pc = "stock" /\ proc'[f].key = proc'[g].key => f = g
  <2>1. g # h /\ proc'[g] = proc[g]
    BY <1>2
  <2>2. /\ orders[proc[g].key] # NoOrder /\ proc[g].key \notin Held \cup kept
        /\ \A f \in Handlers : proc[f].pc = "stock" /\ proc[f].key = proc[g].key => f = g
    BY <1>2, <2>1 DEF StockInv, OncePerOrder, At, Placed
  <2>3. proc[g].key \notin Held' \cup kept'
    BY <1>2, <2>1, <2>2
  <2> QED
    BY <2>1, <2>2, <2>3
<1> QED
  BY <1>1, <1>2 DEF OncePerOrder, At, Placed

\* The counters after a sale.
LEMMA DeductCounts ==
    ASSUME TInv, StockInv, NEW k \in Keys, DeductStock(k), UNCHANGED orders
    PROVE  /\ StockSound' /\ PromisesKept'
           /\ Held' \cup kept' \subseteq Held \cup kept /\ Held' \cap kept' = {}
<1> DEFINE q == orders[k].qty
           a == QuantityOf(orders, Held)
           b == QuantityOf(orders, Held \cup kept)
<1>1. /\ total' = Floor(total, q) /\ reserved' = Floor(reserved, q)
      /\ hold' = [hold EXCEPT ![k] = "none"]
      /\ kept' = IF k \in Held THEN kept \cup {k} ELSE kept
  BY DEF DeductStock
<1>2. Held' = Held \ {k}
  BY <1>1 DEF Held, TInv, TypeOK
<1>3. /\ total \in Nat /\ reserved \in Nat /\ Opening \in Nat /\ q \in Nat
      /\ Held \in SUBSET Keys /\ kept \in SUBSET Keys
      /\ a \in Nat /\ b \in Nat /\ QuantityOf(orders, Held \ {k}) \in Nat
  BY StockNumbers
<1>4. reserved <= total /\ reserved <= a /\ b + total <= Opening + reserved
  BY StockNow DEF StockInv
<1>5. Held' \cup kept' = Held \cup kept /\ Held' \cap kept' = {}
  BY <1>1, <1>2 DEF StockInv, OncePerOrder
<1>6. QuantityOf(orders, Held') + q >= a
  <2>1. CASE k \in Held
    <3>1. a = QuantityOf(orders, Held \ {k}) + QuantityOf(orders, {k})
      BY <1>3, <2>1, QuantityLess
    <3>2. QuantityOf(orders, {k}) = q
      BY <1>3, QuantityOne
    <3> QED
      BY <1>2, <1>3, <3>1, <3>2
  <2>2. CASE k \notin Held
    <3>1. Held' = Held
      BY <1>2, <2>2
    <3> HIDE DEF q
    <3> QED
      BY <1>3, <3>1
  <2> QED
    BY <2>1, <2>2
<1>7. QuantityOf(orders, Held') \in Nat
  BY <1>2, <1>3
<1>8. QuantityOf(orders', Held') = QuantityOf(orders, Held')
      /\ QuantityOf(orders', Held' \cup kept') = b
  BY <1>5
<1> HIDE DEF q, a, b
<1> DEFINE c == QuantityOf(orders, Held')
<1>9. c \in Nat /\ c + q >= a
  BY <1>6, <1>7
<1>10. StockSound' <=> reserved' <= total' /\ reserved' <= c
  BY <1>8, StockPrimed
<1>11. PromisesKept' <=> b + total' <= Opening + reserved'
  BY <1>8, StockPrimed
<1> HIDE DEF c
<1>12. CASE reserved < q
  <2>1. reserved' = 0 /\ total' \in Nat /\ total' <= total - reserved
    <3>1. CASE total < q
      BY <1>1, <1>3, <1>4, <1>12, <3>1 DEF Floor
    <3>2. CASE ~(total < q)
      BY <1>1, <1>3, <1>4, <1>12, <3>2 DEF Floor
    <3> QED
      BY <3>1, <3>2
  <2>2. reserved' <= total' /\ reserved' <= c
    BY <1>9, <2>1
  <2>3. b \in Nat /\ total \in Nat /\ reserved \in Nat /\ Opening \in Nat
    BY <1>3 DEF b
  <2>4. b + total' <= Opening + reserved'
    <3> DEFINE t == total'
    <3>1. t \in Nat /\ t <= total - reserved
      BY <2>1
    <3>2. b + total <= Opening + reserved
      BY <1>4
    <3> HIDE DEF t
    <3>3. b + t <= Opening + 0
      BY <2>3, <3>1, <3>2
    <3> QED
      BY <2>1, <3>3 DEF t
  <2> QED
    BY <1>5, <1>10, <1>11, <2>2, <2>4
<1>13. CASE ~(reserved < q)
  <2>1. reserved' = reserved - q /\ total' = total - q
    BY <1>1, <1>3, <1>4, <1>13 DEF Floor
  <2> QED
    BY <1>3, <1>4, <1>5, <1>9, <1>10, <1>11, <1>13, <2>1
<1> QED
  BY <1>12, <1>13

LEMMA StockSale ==
    ASSUME TInv, StockInv, NEW h \in Handlers, Deduct(h) \/ DeductForCOD(h)
    PROVE  StockInv'
<1>1. UNCHANGED orders
  BY DEF Deduct, DeductForCOD
<1>2. PICK k \in Keys : Placed(k) /\ DeductStock(k)
  <2>1. CASE Deduct(h)
    BY <2>1, ConsumerPcFacts, SubjectFacts DEF Deduct, At
  <2>2. CASE DeductForCOD(h)
    <3>1. proc[h].key \in Keys /\ Placed(proc[h].key)
      BY <2>2, CheckoutFacts DEF DeductForCOD, At, CheckoutPcs, TInv, StockInv, OncePerOrder
    <3> QED
      BY <2>2, <3>1 DEF DeductForCOD
  <2> QED
    BY <2>1, <2>2
<1>3. proc'[h].pc # "stock" /\ \A g \in Handlers \ {h} : proc'[g] = proc[g]
  BY EndFacts, GotoPc DEF Deduct, DeductForCOD, Returned, TInv
<1>4. /\ StockSound' /\ PromisesKept'
      /\ Held' \cup kept' \subseteq Held \cup kept /\ Held' \cap kept' = {}
  BY <1>1, <1>2, DeductCounts
<1>5. \A g \in Handlers \ {h} : proc[g].pc = "stock" /\ proc[g].key = k =>
          k \notin Held' \cup kept'
  BY <1>4 DEF StockInv, OncePerOrder, At
<1>6. OncePerOrder'
  BY <1>1, <1>2, <1>3, <1>4, <1>5, OnceLeft
<1> QED
  BY <1>4, <1>6 DEF StockInv

LEMMA StockReserve ==
    ASSUME TInv, StockInv, NEW h \in Handlers, ReserveStock(h)
    PROVE  StockInv'
<1>1. /\ proc[h].pc = "stock" /\ proc[h].pc \in CheckoutPcs /\ End(h)
      /\ UNCHANGED <<orders, total, kept>>
  BY DEF ReserveStock, At, CheckoutPcs
<1>2. PICK k \in Keys : k = proc[h].key
  BY <1>1, CheckoutFacts DEF TInv
<1>3. proc'[h].pc = "idle" /\ \A g \in Handlers \ {h} : proc'[g] = proc[g]
  BY <1>1, EndFacts DEF TInv
<1>4. CASE UNCHANGED <<reserved, hold>>
  BY <1>1, <1>3, <1>4, HeldStays, SameQuantities, StockQuiet
<1>5. CASE /\ reserved + orders[k].qty <= total /\ reserved' = reserved + orders[k].qty
           /\ hold' = [hold EXCEPT ![k] = "live"]
  <2> DEFINE q == orders[k].qty
             a == QuantityOf(orders, Held)
             b == QuantityOf(orders, Held \cup kept)
  <2>1. /\ Placed(k) /\ k \notin Held \cup kept /\ Held \cap kept = {}
        /\ \A g \in Handlers : proc[g].pc = "stock" /\ proc[g].key = k => g = h
    BY <1>1, <1>2 DEF StockInv, OncePerOrder, At
  <2>2. Held' = Held \cup {k}
    BY <1>5 DEF Held, TInv, TypeOK
  <2>3. OncePerOrder'
    BY <1>1, <1>3, <2>1, <2>2, OnceLeft
  <2>4. /\ total \in Nat /\ reserved \in Nat /\ Opening \in Nat /\ q \in Nat
        /\ Held \in SUBSET Keys /\ kept \in SUBSET Keys /\ Held \cup kept \in SUBSET Keys
        /\ a \in Nat /\ b \in Nat
    BY StockNumbers
  <2>5. QuantityOf(orders, {k}) = q
    BY <2>4, QuantityOne
  <2>6. QuantityOf(orders, Held \cup {k}) = a + q
    BY <2>1, <2>4, <2>5, StockNumbers, QuantitySum
  <2>7. QuantityOf(orders, (Held \cup kept) \cup {k}) = b + q
    <3> DEFINE S == Held \cup kept
    <3>1. S \in SUBSET Keys /\ {k} \in SUBSET Keys /\ S \cap {k} = {}
      BY <2>1, <2>4
    <3>2. \A j \in S \cup {k} : orders[j].qty \in Nat
      BY <3>1, StockNumbers
    <3> HIDE DEF S
    <3>3. QuantityOf(orders, S \cup {k}) = QuantityOf(orders, S) + QuantityOf(orders, {k})
      BY <3>1, <3>2, QuantitySum
    <3> QED
      BY <2>5, <3>3 DEF S
  <2>8. Held' \cup kept' = (Held \cup kept) \cup {k}
    BY <1>1, <2>2
  <2>9. QuantityOf(orders', Held') = a + q /\ QuantityOf(orders', Held' \cup kept') = b + q
    BY <1>1, <2>2, <2>6, <2>7, <2>8
  <2>10. /\ StockSound' <=> reserved' <= total' /\ reserved' <= a + q
         /\ PromisesKept' <=> b + q + total' <= Opening + reserved'
    BY <2>9, StockPrimed
  <2>11. reserved <= total /\ reserved <= a /\ b + total <= Opening + reserved
    BY StockNow DEF StockInv
  <2>12. reserved' = reserved + q /\ reserved + q <= total /\ total' = total
    BY <1>1, <1>5
  <2> HIDE DEF q, a, b
  <2> QED
    BY <2>3, <2>4, <2>10, <2>11, <2>12 DEF StockInv
<1> QED
  BY <1>2, <1>4, <1>5 DEF ReserveStock

LEMMA StockSweep ==
    ASSUME TInv, StockInv, ExpireInventoryReservations
    PROVE  StockInv'
<1> DEFINE E == {k \in Keys : hold[k] = "expired" /\ Unpaid(k)}
           n == QuantityOf(orders, E)
           a == QuantityOf(orders, Held)
           b == QuantityOf(orders, Held \cup kept)
           c == QuantityOf(orders, Held \ E)
           d == QuantityOf(orders, (Held \cup kept) \ E)
<1>1. E \in SUBSET Keys /\ E \in SUBSET Held
  BY DEF Held
<1>2. /\ total \in Nat /\ reserved \in Nat /\ Opening \in Nat
      /\ Held \in SUBSET Keys /\ kept \in SUBSET Keys /\ Held \cup kept \in SUBSET Keys
  BY StockNumbers
<1>3. n \in Nat /\ a \in Nat /\ b \in Nat /\ c \in Nat /\ d \in Nat
  BY <1>1, <1>2, StockNumbers
<1>4. Quantity(E) = n
  BY <1>1, StockNumbers
<1>5. /\ reserved' = Floor(reserved, Quantity(E))
      /\ hold' = [k \in Keys |-> IF k \in E THEN "none" ELSE hold[k]]
      /\ UNCHANGED <<orders, total, proc, kept>>
  BY DEF ExpireInventoryReservations
<1>6. Held' = Held \ E
  BY <1>5 DEF Held
<1>7. a = c + n
  BY <1>1, <1>2, QuantityLess
<1>8. b = d + n
  BY <1>1, <1>2, QuantityLess
<1>9. Held' \cup kept' = (Held \cup kept) \ E /\ Held' \cap kept' = {}
  BY <1>1, <1>5, <1>6 DEF StockInv, OncePerOrder
<1>10. QuantityOf(orders', Held') = c /\ QuantityOf(orders', Held' \cup kept') = d
  BY <1>5, <1>6, <1>9
<1>11. /\ StockSound' <=> reserved' <= total' /\ reserved' <= c
       /\ PromisesKept' <=> d + total' <= Opening + reserved'
  BY <1>10, StockPrimed
<1>12. reserved <= total /\ reserved <= a /\ b + total <= Opening + reserved
  BY StockNow DEF StockInv
<1>13. reserved' = Floor(reserved, n) /\ total' = total
  BY <1>4, <1>5
<1>14. OncePerOrder'
  <2>1. Held' \cup kept' \subseteq Held \cup kept
    BY <1>9
  <2> QED
    BY <1>5, <1>9, <2>1 DEF StockInv, OncePerOrder, At, Placed
<1> HIDE DEF E, n, a, b, c, d
<1>15. CASE reserved < n
  <2>1. reserved' = 0
    BY <1>13, <1>15 DEF Floor
  <2> QED
    BY <1>2, <1>3, <1>7, <1>8, <1>11, <1>12, <1>13, <1>14, <1>15, <2>1 DEF StockInv
<1>16. CASE ~(reserved < n)
  <2>1. reserved' = reserved - n
    BY <1>13, <1>16 DEF Floor
  <2> QED
    BY <1>2, <1>3, <1>7, <1>8, <1>11, <1>12, <1>13, <1>14, <1>16, <2>1 DEF StockInv
<1> QED
  BY <1>15, <1>16

\* Actions that leave the stock alone.
LEMMA StockConsumer ==
    ASSUME TInv, StockInv, NEW h \in Handlers,
           \/ SetNX(h) \/ GetOrder(h) \/ MarkPaid(h) \/ Confirm(h)
           \/ MarkPaymentFailed(h) \/ MarkOrderRefunded(h) \/ SendToDLQ(h) \/ CommitMessage(h)
           \/ Abort(h) \/ DedupFails(h) \/ HandlerFails(h) \/ Logged(h)
    PROVE  StockInv'
<1>1. UNCHANGED <<total, reserved, hold, kept>>
  BY DEF SetNX, GetOrder, MarkPaid, Confirm, MarkPaymentFailed, MarkOrderRefunded, SendToDLQ,
     CommitMessage, Abort, DedupFails, HandlerFails, Logged, stockVars
<1>2. \A g \in Handlers : proc'[g].pc = "stock" => proc'[g] = proc[g]
  <2>1. End(h) \/ HandlerFails(h) \/ \E pc \in ConsumerPcs : Goto(h, pc)
    BY ConsumerPcFacts DEF SetNX, GetOrder, MarkPaid, Confirm, MarkPaymentFailed,
       MarkOrderRefunded, SendToDLQ, CommitMessage, Abort, DedupFails, Logged, Returned
  <2>2. "stock" \notin ConsumerPcs
    BY DEF ConsumerPcs
  <2> QED
    BY <2>1, <2>2, EndFacts, RetryFacts, GotoPc DEF TInv
<1>3. \A j \in Keys : Placed(j) => Placed(j)' /\ orders'[j].qty = orders[j].qty
  <2>1. CASE UNCHANGED orders
    BY <2>1, SameQuantities
  <2>2. CASE MarkPaid(h) \/ Confirm(h) \/ MarkPaymentFailed(h) \/ MarkOrderRefunded(h)
    <3>1. PICK k \in Keys : k = OrderOf(h) /\ Placed(k)
      BY <2>2, ConsumerPcFacts, SubjectFacts
         DEF MarkPaid, Confirm, MarkPaymentFailed, MarkOrderRefunded, Handling, At
    <3>2. \/ \E p \in PayStatuses : orders' = [orders EXCEPT ![k].pay = p]
          \/ \E s \in Statuses : orders' = [orders EXCEPT ![k].status = s]
          \/ UNCHANGED orders
      BY <2>2, <3>1 DEF MarkPaid, Confirm, MarkPaymentFailed, MarkOrderRefunded, PayStatuses, Statuses
    <3> QED
      BY <3>1, <3>2, <2>1, PayFacts, StatusFacts DEF TInv
  <2> QED
    BY <2>1, <2>2 DEF SetNX, GetOrder, SendToDLQ, CommitMessage, Abort, DedupFails, HandlerFails,
       Logged
<1> QED
  BY <1>1, <1>2, <1>3, HeldStays, StockQuiet

LEMMA StockRequests ==
    ASSUME TInv, StockInv, NEW h \in Handlers,
           \/ \E k \in Keys, q \in Quantities, cod \in BOOLEAN : Checkout(h, k, q, cod)
           \/ \E k \in Keys : CancelOrder(h, k)
           \/ \E e \in Events : FetchMessage(h, e)
           \/ MarkCancelled(h) \/ InitiateRefund(h) \/ StampOrderRefundIntent(h)
    PROVE  StockInv'
<1>1. UNCHANGED <<total, reserved, hold, kept>>
  BY DEF Checkout, CancelOrder, FetchMessage, MarkCancelled, InitiateRefund,
     StampOrderRefundIntent, stockVars
<1>2. \A g \in Handlers : proc'[g].pc = "stock" => proc'[g] = proc[g]
  <2>1. CASE \/ \E k \in Keys, q \in Quantities, cod \in BOOLEAN : Checkout(h, k, q, cod)
             \/ \E k \in Keys : CancelOrder(h, k)
             \/ \E e \in Events : FetchMessage(h, e)
    BY <2>1 DEF Checkout, CancelOrder, FetchMessage, TInv, TypeOK
  <2>2. CASE End(h) \/ Goto(h, "refund") \/ Goto(h, "stamp")
    BY <2>2, EndFacts, GotoPc DEF TInv
  <2> QED
    BY <2>1, <2>2 DEF MarkCancelled, InitiateRefund, StampOrderRefundIntent
<1>3. \A j \in Keys : Placed(j) => Placed(j)' /\ orders'[j].qty = orders[j].qty
  <2>1. CASE UNCHANGED orders
    BY <2>1, SameQuantities
  <2>2. CASE MarkCancelled(h) \/ StampOrderRefundIntent(h)
    <3>1. PICK k \in Keys : k = proc[h].key /\ Placed(k)
      BY <2>2, CancelFacts DEF MarkCancelled, StampOrderRefundIntent, At, CancelPcs, TInv, Referred
    <3>2. \/ orders' = [orders EXCEPT ![k].status = "cancelled"]
          \/ orders' = [orders EXCEPT ![k].pay = "refund_pending", ![k].refund = TRUE]
          \/ UNCHANGED orders
      BY <2>2, <3>1 DEF MarkCancelled, StampOrderRefundIntent
    <3> QED
      BY <3>1, <3>2, <2>1, StatusFacts, StampFacts DEF TInv, Statuses
  <2> QED
    BY <2>1, <2>2 DEF Checkout, CancelOrder, FetchMessage, InitiateRefund
<1> QED
  BY <1>1, <1>2, <1>3, HeldStays, StockQuiet

LEMMA StockTime ==
    ASSUME TInv, StockInv,
           \/ \E k \in Keys : Age(k)
           \/ \E e \in Events, type \in {"succeeded", "failed"}, k \in Keys : Publish(e, type, k)
           \/ UNCHANGED vars
    PROVE  StockInv'
<1>1. UNCHANGED <<orders, total, reserved, kept, proc>>
  BY DEF Age, Publish, vars, stockVars
<1>2. Held' = Held
  BY DEF Age, Publish, vars, stockVars, Held, TInv, TypeOK
<1> QED
  BY <1>1, <1>2, SameQuantities, StockQuiet

LEMMA StockStep ==
    ASSUME TInv, StockInv, [Next]_vars
    PROVE  StockInv'
<1>1. CASE UNCHANGED vars
  BY <1>1, StockTime
<1>2. CASE \E h \in Handlers : Step(h)
  BY <1>2, StockCreateOrder, StockReserve, StockSale, StockConsumer, StockRequests DEF Step
<1>3. CASE \E h \in Handlers : Abort(h) \/ DedupFails(h) \/ HandlerFails(h) \/ Logged(h)
  BY <1>3, StockConsumer
<1>4. CASE \E h \in Handlers :
              \/ \E k \in Keys, q \in Quantities, cod \in BOOLEAN : Checkout(h, k, q, cod)
              \/ \E e \in Events : FetchMessage(h, e)
              \/ \E k \in Keys : CancelOrder(h, k)
  BY <1>4, StockRequests
<1>5. CASE \E e \in Events, type \in {"succeeded", "failed"}, k \in Keys : Publish(e, type, k)
  BY <1>5, StockTime
<1>6. CASE (\E k \in Keys : Age(k)) \/ ExpireInventoryReservations
  BY <1>6, StockTime, StockSweep
<1> QED
  BY <1>1, <1>2, <1>3, <1>4, <1>5, <1>6 DEF Next

LEMMA StockInit == Init => StockInv
<1> SUFFICES ASSUME Init PROVE StockInv
  OBVIOUS
<1>1. TInv
  BY TypeInit
<1>2. Held = {} /\ kept = {} /\ total = Opening /\ reserved = 0
  BY DEF Init, Held
<1>3. OncePerOrder
  BY <1>2, IdleFacts DEF Init, OncePerOrder, At
<1>4. QuantityOf(orders, {}) = 0
  BY FS_EmptySet DEF QuantityOf
<1>5. Opening \in Nat
  BY StockNumbers, <1>1
<1>6. Held \cup kept = {}
  BY <1>2
<1>7. StockSound /\ PromisesKept
  BY <1>1, <1>2, <1>4, <1>5, <1>6, StockNow
<1> QED
  BY <1>3, <1>7 DEF StockInv

LEMMA StockAlways == Spec => []StockInv
<1>1. TInv /\ StockInv /\ [Next]_vars => StockInv'
  BY StockStep
<1> QED
  BY TypeCorrect, StockInit, <1>1, PTL DEF Spec

\* The floors of the counters hide nothing: what is reserved is in stock, and
\* a reservation explains it.
THEOREM StockCounts == Spec => []StockSound
<1>1. StockInv => StockSound
  BY DEF StockInv
<1> QED
  BY <1>1, StockAlways, PTL

\* Units are not promised twice, however payments, cancellations, sweeps and
\* cash on delivery overlap.
THEOREM NothingPromisedTwice == Spec => []PromisesKept
<1>1. StockInv => PromisesKept
  BY DEF StockInv
<1> QED
  BY <1>1, StockAlways, PTL
=============================================================================
