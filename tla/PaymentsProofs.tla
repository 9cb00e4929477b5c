--------------------------- MODULE PaymentsProofs ---------------------------
(***************************************************************************)
(* Theorems of Payments, for every number of intents, orders, attempts,    *)
(* refunds and handlers, and whatever may fail.                            *)
(***************************************************************************)
EXTENDS Payments, TLAPS

\* What the gateway keeps to: only captured payments are refunded.
GatewaySane == \A x \in Refunds : refunds[x] # NoRefund => Captured(refunds[x].pay)

\* A webhook being handled has happened, and its order is the payment's.
HookOfHandler(p) ==
    LET r == proc[p] IN
    r.pc \in {"dedup", "update", "publish", "locate"} =>
        /\ Happened(r.hook) /\ r.order = OrderOf(r.hook)
        /\ r.pc \in {"update", "publish"} => ~RefundHook(r.hook)
        /\ r.pc = "locate" => RefundHook(r.hook)

IType == TypeOK /\ GatewaySane /\ \A p \in Handlers : HookOfHandler(p)

---------------------------------------------------------------------------
(* Types.                                                                  *)

\* What a handler's program counter says about its locals.
LEMMA Shapes ==
    ASSUME TypeOK, NEW p \in Handlers
    PROVE  /\ proc[p].pc \in {"order", "create", "hold"} => proc[p] \in Initiating
           /\ proc[p].pc = "announce" => proc[p] \in Announcing
           /\ proc[p].pc = "verify" => proc[p] \in Verifying
           /\ proc[p].pc \in {"dedup", "update", "publish", "locate"} => proc[p] \in Handling
           /\ proc[p].pc = "fresh" => proc[p] \in Recording
           /\ proc[p].pc \in {"apply", "refund"} => proc[p] \in Refunding
           /\ proc[p].pc = "idle" => proc[p] = Idle
           /\ proc[p].pc # "idle" => proc[p].ev \subseteq Webhooks
<1>1. proc[p] \in Locals
  BY DEF TypeOK
<1>2. /\ proc[p].pc \in {"order", "create", "hold"} => proc[p] \in Initiating
      /\ proc[p].pc = "announce" => proc[p] \in Announcing
      /\ proc[p].pc = "verify" => proc[p] \in Verifying
      /\ proc[p].pc \in {"dedup", "update", "publish", "locate"} => proc[p] \in Handling
      /\ proc[p].pc = "fresh" => proc[p] \in Recording
      /\ proc[p].pc \in {"apply", "refund"} => proc[p] \in Refunding
      /\ proc[p].pc = "idle" => proc[p] = Idle
  BY <1>1 DEF Locals, Idle, Initiating, Announcing, Verifying, Handling, Recording,
             Refunding
<1>3. \A h \in HookSets : h \subseteq Webhooks
  BY DEF HookSets
<1>4. proc[p].pc # "idle" => proc[p].ev \in HookSets \cup {{}}
  BY <1>1 DEF Locals, Idle, Initiating, Announcing, Verifying, Handling, Recording,
             Refunding
<1> QED
  BY <1>2, <1>3, <1>4

\* Rows that are not free are rows.
LEMMA RowShape ==
    ASSUME TypeOK, NEW k \in Keys, intents[k].status # "free"
    PROVE  intents[k] \in IntentRow
BY DEF TypeOK, FreeRow

\* A payment that was attempted has an order, a refund that was made a payment.
LEMMA GatewayShape ==
    ASSUME IType
    PROVE  /\ \A a \in Attempts : attempts[a].state # "none" => attempts[a].order \in Orders
           /\ \A x \in Refunds : refunds[x].amt > 0 =>
                /\ refunds[x].pay \in Attempts /\ refunds[x].amt \in Nat \ {0}
                /\ Captured(refunds[x].pay)
           /\ \A e \in Webhooks : Happened(e) => OrderOf(e) \in Orders
<1>1. \A a \in Attempts : attempts[a].state # "none" => attempts[a].order \in Orders
  BY DEF IType, TypeOK, NoAttempt
<1>2. \A x \in Refunds : refunds[x].amt > 0 =>
        /\ refunds[x].pay \in Attempts /\ refunds[x].amt \in Nat \ {0}
        /\ Captured(refunds[x].pay)
  BY DEF IType, TypeOK, NoRefund, GatewaySane
<1>3. ASSUME NEW e \in Webhooks, Happened(e)
      PROVE  OrderOf(e) \in Orders
  <2>1. CASE RefundHook(e)
    <3>1. e.id \in Refunds
      BY <2>1 DEF Webhooks, RefundHook
    <3>2. refunds[e.id].amt > 0
      BY <1>3, <2>1 DEF Happened
    <3> QED
      BY <1>1, <1>2, <2>1, <3>1, <3>2 DEF OrderOf, Captured
  <2>2. CASE ~RefundHook(e)
    <3>1. e.id \in Attempts /\ e.kind \in {"captured", "failed"}
      BY <2>2 DEF Webhooks, RefundHook
    <3>2. attempts[e.id].state = e.kind
      BY <1>3, <2>2 DEF Happened
    <3> QED
      BY <1>1, <2>2, <3>1, <3>2 DEF OrderOf
  <2> QED
    BY <2>1, <2>2
<1> QED
  BY <1>1, <1>2, <1>3

LEMMA ReturnType ==
    ASSUME TypeOK, NEW p \in Handlers, proc[p].pc # "idle", Return(p)
    PROVE  proc' \in [Handlers -> Locals] /\ acked' \subseteq Webhooks
<1>1. proc' \in [Handlers -> Locals]
  BY DEF TypeOK, Return, Locals
<1> QED
  BY <1>1, Shapes DEF TypeOK, Return

\* A handler whose locals are set to locals of some operation keeps the type.
LEMMA LocalsStay ==
    ASSUME TypeOK, NEW p \in Handlers,
           NEW l \in Initiating \cup Announcing, proc' = [proc EXCEPT ![p] = l]
    PROVE  proc' \in [Handlers -> Locals]
<1>1. l \in Locals
  BY DEF Locals
<1>2. proc \in [Handlers -> Locals]
  BY DEF TypeOK
<1> QED
  BY <1>1, <1>2

LEMMA InitType == Init => IType
<1> SUFFICES ASSUME Init PROVE IType
  OBVIOUS
<1>1. TypeOK
  BY PaymentConstants DEF Init, TypeOK, PaymentConstants, FreeRow, NoAttempt, NoRefund, Locals, Used
<1>2. GatewaySane /\ \A p \in Handlers : HookOfHandler(p)
  BY DEF Init, GatewaySane, HookOfHandler, Idle
<1> QED
  BY <1>1, <1>2 DEF IType

LEMMA InitiatePaymentType ==
    ASSUME IType, NEW p \in Handlers, NEW k \in Keys, NEW a \in Amounts, NEW method \in Methods,
           InitiatePayment(p, k, a, method)
    PROVE  TypeOK'
<1>1. [pc |-> IF ThroughGateway(method) THEN "order" ELSE "create", ev |-> {}, key |-> k,
       amt |-> a, method |-> method, ref |-> "none"] \in Initiating
  BY DEF Initiating
<1>2. proc' \in [Handlers -> Locals]
  BY <1>1 DEF IType, TypeOK, InitiatePayment, Locals
<1>3. calls' \in 0 .. MaxCalls
  BY PaymentConstants DEF IType, TypeOK, InitiatePayment, PaymentConstants
<1> QED
  BY <1>2, <1>3 DEF IType, TypeOK, InitiatePayment, Used, rows, dedup, gateway

LEMMA CreateOrderType ==
    ASSUME IType, NEW p \in Handlers, CreateOrder(p)
    PROVE  TypeOK'
<1>1. proc[p] \in Initiating
  BY Shapes DEF CreateOrder, IType
<1>2. [proc[p] EXCEPT !.pc = "create"] \in Initiating
      /\ \A o \in Orders : [proc[p] EXCEPT !.pc = "create", !.ref = o] \in Initiating
  BY <1>1 DEF Initiating
<1>3. proc' \in [Handlers -> Locals]
  <2>1. PICK l \in Initiating : proc' = [proc EXCEPT ![p] = l]
    BY <1>2 DEF CreateOrder, Goto
  <2> QED
    BY <2>1, LocalsStay DEF IType
<1>4. orders' \in [Orders -> Amounts \cup {0}]
  BY <1>1 DEF IType, TypeOK, CreateOrder, Initiating
<1> QED
  BY <1>3, <1>4 DEF IType, TypeOK, CreateOrder, Used, rows, dedup, history

LEMMA CreateIntentType ==
    ASSUME IType, NEW p \in Handlers, CreateIntent(p)
    PROVE  TypeOK'
<1> DEFINE r == proc[p]
<1>1. r \in Initiating
  BY Shapes DEF CreateIntent, IType
<1>2. r.key \in Keys /\ r.amt \in Amounts /\ r.method \in Methods /\ r.ref \in Orders \cup {"none"}
  BY <1>1 DEF Initiating
<1>3. [status |-> "pending", amt |-> r.amt, refunded |-> 0, method |-> r.method,
       ref |-> r.ref, order |-> r.ref] \in IntentRow
  BY <1>2 DEF IntentRow, Statuses
<1>4. intents' \in [Keys -> IntentRow \cup {FreeRow}]
  BY <1>2, <1>3 DEF CreateIntent, IType, TypeOK
<1>5. young' \subseteq Used'
  BY <1>2 DEF CreateIntent, IType, TypeOK, Used
<1>6. proc' \in [Handlers -> Locals] /\ acked' \subseteq Webhooks
  <2>1. CASE r.key \in young'
    <3>1. [r EXCEPT !.pc = "hold"] \in Initiating
          /\ [pc |-> "announce", ev |-> {}, type |-> "initiated", key |-> r.key] \in Announcing
      BY <1>1, <1>2 DEF Initiating, Announcing, EventTypes
    <3>2. PICK l \in Initiating \cup Announcing : proc' = [proc EXCEPT ![p] = l]
      BY <2>1, <3>1 DEF CreateIntent
    <3>3. acked' = acked
      BY <2>1 DEF CreateIntent
    <3>4. acked' \subseteq Webhooks
      BY <3>3 DEF IType, TypeOK
    <3> QED
      BY <3>2, <3>4, LocalsStay DEF IType
  <2>2. CASE r.key \notin young'
    BY <2>2, ReturnType DEF CreateIntent, IType
  <2> QED
    BY <2>1, <2>2
<1> QED
  BY <1>4, <1>5, <1>6 DEF IType, TypeOK, CreateIntent, dedup, gateway, history

LEMMA CreateHoldType ==
    ASSUME IType, NEW p \in Handlers, CreateHold(p)
    PROVE  TypeOK'
<1> DEFINE r == proc[p]
<1>1. r \in Initiating
  BY Shapes DEF CreateHold, IType
<1>2. r.key \in Keys
  BY <1>1 DEF Initiating
<1>3. [pc |-> "announce", ev |-> {}, type |-> "initiated", key |-> r.key] \in Announcing
  BY <1>2 DEF Announcing, EventTypes
<1>4. proc' \in [Handlers -> Locals]
  BY <1>3 DEF CreateHold, IType, TypeOK, Locals
<1>5. [holds[r.key] EXCEPT !.open = @ + 1] \in [open : Nat, released : Nat]
  BY <1>2 DEF IType, TypeOK
<1>6. holds' \in [Keys -> [open : Nat, released : Nat]]
  BY <1>2, <1>5 DEF CreateHold, IType, TypeOK
<1> QED
  BY <1>4, <1>6 DEF IType, TypeOK, CreateHold, Used, dedup, gateway, history

LEMMA AnnounceType ==
    ASSUME IType, NEW p \in Handlers, Announce(p)
    PROVE  TypeOK'
<1>1. proc[p] \in Announcing
  BY Shapes DEF Announce, IType
<1>2. [type |-> proc[p].type, key |-> proc[p].key] \in Events
  BY <1>1 DEF Announcing, Events
<1>3. proc' \in [Handlers -> Locals] /\ acked' \subseteq Webhooks
  BY ReturnType DEF Announce, IType
<1> QED
  BY <1>2, <1>3 DEF IType, TypeOK, Announce, Used, rows, dedup, gateway, history

LEMMA VerifyIntentType ==
    ASSUME IType, NEW p \in Handlers, NEW k \in Keys, NEW a \in Attempts, VerifyIntent(p, k, a)
    PROVE  TypeOK'
<1>1. [pc |-> "verify", ev |-> {}, key |-> k, pay |-> a] \in Verifying
  BY DEF Verifying
<1>2. proc' \in [Handlers -> Locals]
  BY <1>1 DEF IType, TypeOK, VerifyIntent, Locals
<1> QED
  BY <1>2 DEF IType, TypeOK, VerifyIntent, Used, rows, dedup, gateway, history

LEMMA VerifyType ==
    ASSUME IType, NEW p \in Handlers, Verify(p)
    PROVE  TypeOK'
<1> DEFINE r == proc[p]
<1>1. r \in Verifying
  BY Shapes DEF Verify, IType
<1>2. r.key \in Keys /\ r.pay \in Attempts
  BY <1>1 DEF Verifying
<1>3. proc' \in [Handlers -> Locals] /\ acked' \subseteq Webhooks
  BY ReturnType DEF Verify, IType
<1>4. CASE intents[r.key].status = "pending"
  <2>1. intents[r.key] \in IntentRow
    BY <1>2, <1>4, RowShape DEF IType
  <2>2. [intents[r.key] EXCEPT !.status = "succeeded", !.ref = r.pay] \in IntentRow
    BY <1>2, <2>1 DEF IntentRow, Statuses
  <2>3. intents' = [intents EXCEPT ![r.key] = [intents[r.key] EXCEPT !.status = "succeeded",
                                                                   !.ref = r.pay]]
    BY <1>2, <1>4 DEF Verify, IType, TypeOK
  <2>4. intents' \in [Keys -> IntentRow \cup {FreeRow}] /\ Used' = Used
    BY <1>2, <1>4, <2>2, <2>3 DEF IType, TypeOK, Used
  <2> QED
    BY <1>3, <2>4 DEF IType, TypeOK, Verify, dedup, gateway, history
<1>5. CASE intents[r.key].status # "pending"
  BY <1>3, <1>5 DEF IType, TypeOK, Verify, Used, dedup, gateway, history
<1> QED
  BY <1>4, <1>5

LEMMA DeliverType ==
    ASSUME IType, NEW p \in Handlers, NEW e \in Webhooks, Deliver(p, e)
    PROVE  TypeOK'
<1>1. OrderOf(e) \in Orders
  BY GatewayShape DEF Deliver
<1>2. [pc |-> "dedup", ev |-> {e}, hook |-> e, order |-> OrderOf(e)] \in Handling
  BY <1>1 DEF Handling, HookSets
<1>3. proc' \in [Handlers -> Locals]
  BY <1>2 DEF IType, TypeOK, Deliver, Locals
<1> QED
  BY <1>3 DEF IType, TypeOK, Deliver, Used, rows, dedup, gateway, history

LEMMA DedupType ==
    ASSUME IType, NEW p \in Handlers, Dedup(p)
    PROVE  TypeOK'
<1>1. proc[p] \in Handling
  BY Shapes DEF Dedup, IType
<1>2. /\ proc[p].hook \in Webhooks
      /\ [proc[p] EXCEPT !.pc = "locate"] \in Handling
      /\ [proc[p] EXCEPT !.pc = "update"] \in Handling
  BY <1>1 DEF Handling
<1>3. seen' \subseteq Webhooks
  BY <1>2 DEF Dedup, IType, TypeOK
<1>4. proc' \in [Handlers -> Locals] /\ acked' \subseteq Webhooks
  <2>1. CASE Return(p)
    BY <2>1, ReturnType DEF Dedup, IType
  <2>2. CASE Goto(p, IF RefundHook(proc[p].hook) THEN "locate" ELSE "update") /\ UNCHANGED acked
    BY <1>2, <2>2 DEF Goto, IType, TypeOK, Locals
  <2> QED
    BY <2>1, <2>2 DEF Dedup
<1> QED
  BY <1>3, <1>4 DEF IType, TypeOK, Dedup, Used, rows, gateway, history

LEMMA UpdateType ==
    ASSUME IType, NEW p \in Handlers, Update(p)
    PROVE  TypeOK'
<1> DEFINE r == proc[p]
           hit == Matching(r.order, NewStatus(r.hook))
<1>1. r \in Handling /\ ~RefundHook(r.hook)
  BY Shapes DEF Update, IType, HookOfHandler
<1>2. r.hook.id \in Attempts /\ NewStatus(r.hook) \in Statuses
  BY <1>1 DEF Handling, Webhooks, RefundHook, NewStatus, Statuses
<1>3. ASSUME NEW k \in hit
      PROVE  [intents[k] EXCEPT !.status = NewStatus(r.hook), !.ref = r.hook.id] \in IntentRow
  <2>1. k \in Keys /\ intents[k] \in IntentRow
    BY <1>3, RowShape DEF Matching, Used, IType
  <2> QED
    BY <1>2, <2>1 DEF IntentRow
<1>4. intents' \in [Keys -> IntentRow \cup {FreeRow}]
  BY <1>3 DEF Update, IType, TypeOK
<1>5. Used' = Used
  <2> SUFFICES ASSUME NEW k \in Keys
               PROVE  intents'[k].status # "free" <=> intents[k].status # "free"
    BY DEF Used
  <2>1. CASE k \in hit
    <3>1. intents[k] \in IntentRow /\ intents[k].status # "free"
      BY <2>1, RowShape DEF Matching, Used, IType
    <3>2. intents'[k].status = NewStatus(r.hook)
      BY <2>1, <3>1 DEF Update, IntentRow
    <3> QED
      BY <1>2, <3>1, <3>2 DEF Statuses
  <2>2. CASE k \notin hit
    BY <2>2 DEF Update
  <2> QED
    BY <2>1, <2>2
<1>6. [r EXCEPT !.pc = "publish"] \in Handling
  BY <1>1 DEF Handling
<1>7. proc' \in [Handlers -> Locals] /\ acked' \subseteq Webhooks
  <2>1. CASE Return(p)
    BY <2>1, ReturnType DEF Update, IType
  <2>2. CASE Goto(p, "publish") /\ UNCHANGED acked
    BY <1>6, <2>2 DEF Goto, IType, TypeOK, Locals
  <2> QED
    BY <2>1, <2>2 DEF Update
<1> QED
  BY <1>4, <1>5, <1>7 DEF IType, TypeOK, Update, dedup, gateway, history

LEMMA PublishUpdateType ==
    ASSUME IType, NEW p \in Handlers, PublishUpdate(p)
    PROVE  TypeOK'
<1> DEFINE r == proc[p]
<1>1. r \in Handling
  BY Shapes DEF PublishUpdate, IType
<1>2. PICK k \in Located(r.order) \cup {"none"} :
        proc' = [proc EXCEPT ![p] = [pc |-> "announce", ev |-> r.ev,
                                     type |-> NewStatus(r.hook), key |-> k]]
  BY DEF PublishUpdate
<1>3. k \in Keys \cup {"none"} /\ NewStatus(r.hook) \in EventTypes
  BY <1>2 DEF Located, Used, NewStatus, EventTypes
<1>4. [pc |-> "announce", ev |-> r.ev, type |-> NewStatus(r.hook), key |-> k] \in Announcing
  BY <1>1, <1>3 DEF Announcing, Handling
<1>5. proc' \in [Handlers -> Locals]
  BY <1>2, <1>4 DEF IType, TypeOK, Locals
<1> QED
  BY <1>5 DEF IType, TypeOK, PublishUpdate, Used, rows, dedup, gateway, history

LEMMA LocateType ==
    ASSUME IType, NEW p \in Handlers, Locate(p)
    PROVE  TypeOK'
<1> DEFINE r == proc[p]
<1>1. r \in Handling /\ RefundHook(r.hook) /\ Happened(r.hook)
  BY Shapes DEF Locate, IType, HookOfHandler
<1>2. r.hook.id \in Refunds /\ refunds[r.hook.id].amt \in Nat \ {0}
  BY <1>1, GatewayShape DEF Handling, Webhooks, RefundHook, Happened
<1>3. proc' \in [Handlers -> Locals] /\ acked' \subseteq Webhooks
  <2>1. CASE Return(p)
    BY <2>1, ReturnType DEF Locate, IType
  <2>2. CASE Located(r.order) # {}
    <3>1. PICK k \in Located(r.order) :
            proc' = [proc EXCEPT ![p] =
                       [pc |-> "fresh", ev |-> r.ev, key |-> k, refund |-> r.hook.id,
                        amt |-> refunds[r.hook.id].amt, ref |-> "none",
                        left |-> intents[k].amt - intents[k].refunded]]
      BY <2>2 DEF Locate
    <3>2. k \in Keys /\ intents[k] \in IntentRow
      BY RowShape DEF Located, Used, IType
    <3>3. intents[k].amt - intents[k].refunded \in Int
      <4>1. intents[k].amt \in Nat /\ intents[k].refunded \in Nat
        BY <3>2, PaymentConstants DEF IntentRow, PaymentConstants
      <4> QED
        BY <4>1
    <3>4. [pc |-> "fresh", ev |-> r.ev, key |-> k, refund |-> r.hook.id,
           amt |-> refunds[r.hook.id].amt, ref |-> "none",
           left |-> intents[k].amt - intents[k].refunded] \in Recording
      BY <1>1, <1>2, <3>2, <3>3 DEF Recording, Handling
    <3> QED
      BY <2>2, <3>1, <3>4 DEF Locate, IType, TypeOK, Locals
  <2> QED
    BY <2>1, <2>2 DEF Locate
<1> QED
  BY <1>3 DEF IType, TypeOK, Locate, Used, rows, dedup, gateway, history

LEMMA RecordRefundType ==
    ASSUME IType, NEW p \in Handlers, RecordRefund(p)
    PROVE  TypeOK'
<1> DEFINE r == proc[p]
<1>1. r \in Recording
  BY Shapes DEF RecordRefund, IType
<1>2. [r EXCEPT !.pc = "apply"] \in Refunding
  BY <1>1 DEF Recording, Refunding, Refs
<1>3. proc' \in [Handlers -> Locals] /\ acked' \subseteq Webhooks
  <2>1. CASE Return(p)
    BY <2>1, ReturnType DEF RecordRefund, IType
  <2>2. CASE Goto(p, "apply") /\ UNCHANGED acked
    BY <1>2, <2>2 DEF Goto, IType, TypeOK, Locals
  <2> QED
    BY <2>1, <2>2 DEF RecordRefund
<1>4. applied' \subseteq Refunds
  BY <1>1 DEF RecordRefund, Recording, IType, TypeOK
<1> QED
  BY <1>3, <1>4 DEF IType, TypeOK, RecordRefund, Used, rows, gateway, history

LEMMA InitiateRefundType ==
    ASSUME IType, NEW p \in Handlers, NEW k \in Keys, NEW asked \in Asked,
           InitiateRefund(p, k, asked)
    PROVE  TypeOK'
<1> DEFINE row == intents[k]
           amt == IF asked = 0 THEN row.amt - row.refunded ELSE asked
<1>1. row \in IntentRow
  BY RowShape DEF InitiateRefund, IType, Used
<1>2. row.amt \in Nat /\ row.refunded \in Nat /\ row.ref \in Refs /\ asked \in Nat
  BY <1>1, PaymentConstants DEF IntentRow, PaymentConstants, Refs
<1>3. row.amt - row.refunded \in Int
  BY <1>2
<1>4. amt > 0
  BY DEF InitiateRefund
<1>5. amt \in Nat \ {0}
  BY <1>2, <1>3, <1>4
<1> HIDE DEF amt
<1>6. [pc |-> "apply", ev |-> {}, key |-> k, refund |-> "none", amt |-> amt,
       ref |-> row.ref, left |-> row.amt - row.refunded] \in Refunding
  BY <1>2, <1>3, <1>5 DEF Refunding
<1>7. proc' = [proc EXCEPT ![p] =
                 [pc |-> "apply", ev |-> {}, key |-> k, refund |-> "none", amt |-> amt,
                  ref |-> row.ref, left |-> row.amt - row.refunded]]
  BY DEF InitiateRefund, amt
<1>8. proc' \in [Handlers -> Locals]
  BY <1>6, <1>7 DEF IType, TypeOK, Locals
<1> QED
  BY <1>8 DEF IType, TypeOK, InitiateRefund, Used, rows, dedup, gateway, history

\* A refund that is applied leaves a row, with what was refunded added up.
LEMMA RefundedRow ==
    ASSUME NEW row \in IntentRow, NEW amt \in Nat \ {0}
    PROVE  /\ Refunded(row, amt) \in IntentRow
           /\ Refunded(row, amt).refunded = row.refunded + amt
           /\ Refunded(row, amt).amt = row.amt
           /\ Refunded(row, amt).ref = row.ref /\ Refunded(row, amt).order = row.order
           /\ Refunded(row, amt).status = IF row.refunded + amt >= row.amt THEN "refunded"
                                          ELSE "partially_refunded"
<1>1. row.refunded \in Nat /\ row.refunded + amt \in Nat
  BY DEF IntentRow
<1>2. Refunded(row, amt) =
        [row EXCEPT !.refunded = row.refunded + amt,
                    !.status = IF row.refunded + amt >= row.amt THEN "refunded"
                               ELSE "partially_refunded"]
  BY DEF Refunded, IntentRow
<1> QED
  BY <1>1, <1>2 DEF IntentRow, Statuses

\* The two outcomes of ApplyRefund on the rows.
LEMMA ApplyRefundRows ==
    ASSUME IType, NEW p \in Handlers, ApplyRefund(p)
    PROVE  /\ proc[p] \in Refunding
           /\ proc[p].key \in Keys /\ proc[p].amt \in Nat \ {0}
           /\ \/ /\ MayApply(intents[proc[p].key], proc[p].amt)
                 /\ intents[proc[p].key] \in IntentRow
                 /\ intents' = [intents EXCEPT ![proc[p].key] =
                                  Refunded(intents[proc[p].key], proc[p].amt)]
                 /\ bookings' = [x \in Refunds |-> IF x = proc[p].refund THEN bookings[x] + 1
                                                   ELSE bookings[x]]
              \/ UNCHANGED <<intents, bookings>> /\ Return(p)
<1>1. proc[p] \in Refunding
  BY Shapes DEF ApplyRefund, IType
<1>2. proc[p].key \in Keys /\ proc[p].amt \in Nat \ {0}
  BY <1>1 DEF Refunding
<1>3. MayApply(intents[proc[p].key], proc[p].amt) => intents[proc[p].key] \in IntentRow
  BY <1>2, RowShape DEF MayApply, Refundable, IType
<1> QED
  BY <1>1, <1>2, <1>3 DEF ApplyRefund

LEMMA ApplyRefundType ==
    ASSUME IType, NEW p \in Handlers, ApplyRefund(p)
    PROVE  TypeOK'
<1> DEFINE r == proc[p]
<1>1. r \in Refunding /\ r.key \in Keys /\ r.amt \in Nat \ {0}
  BY ApplyRefundRows
<1>2. proc' \in [Handlers -> Locals] /\ acked' \subseteq Webhooks
  <2>1. CASE Return(p)
    BY <2>1, ReturnType DEF ApplyRefund, IType
  <2>2. CASE MayApply(intents[r.key], r.amt)
    <3>1. /\ [r EXCEPT !.pc = "refund"] \in Refunding
          /\ [pc |-> "announce", ev |-> r.ev, type |-> "refunded", key |-> r.key] \in Announcing
      BY <1>1 DEF Refunding, Announcing, EventTypes
    <3> QED
      BY <2>2, <3>1 DEF ApplyRefund, IType, TypeOK, Locals
  <2> QED
    BY <2>1, <2>2 DEF ApplyRefund
<1>3. CASE UNCHANGED <<intents, bookings>>
  BY <1>2, <1>3 DEF IType, TypeOK, ApplyRefund, Used, dedup, gateway
<1>4. CASE ~UNCHANGED <<intents, bookings>>
  <2>1. /\ MayApply(intents[r.key], r.amt) /\ intents[r.key] \in IntentRow
        /\ intents' = [intents EXCEPT ![r.key] = Refunded(intents[r.key], r.amt)]
        /\ bookings' = [x \in Refunds |-> IF x = r.refund THEN bookings[x] + 1 ELSE bookings[x]]
    BY <1>4, ApplyRefundRows
  <2>2. Refunded(intents[r.key], r.amt) \in IntentRow
    BY <1>1, <2>1, RefundedRow
  <2>3. intents' \in [Keys -> IntentRow \cup {FreeRow}]
    BY <2>1, <2>2 DEF IType, TypeOK
  <2>4. bookings' \in [Refunds -> Nat]
    BY <2>1 DEF IType, TypeOK
  <2>5. Used \subseteq Used'
    <3>1. Refunded(intents[r.key], r.amt).status # "free"
      BY <2>2 DEF IntentRow, Statuses
    <3> QED
      BY <2>1, <3>1 DEF Used, IType, TypeOK
  <2> QED
    BY <1>2, <2>3, <2>4, <2>5 DEF IType, TypeOK, ApplyRefund, dedup, gateway
<1> QED
  BY <1>3, <1>4

LEMMA GatewayRefundType ==
    ASSUME IType, NEW p \in Handlers, GatewayRefund(p)
    PROVE  TypeOK'
<1> DEFINE r == proc[p]
<1>1. r \in Refunding /\ r.key \in Keys /\ r.amt \in Nat \ {0}
  BY Shapes DEF GatewayRefund, IType, Refunding
<1>2. [pc |-> "announce", ev |-> {}, type |-> "refunded", key |-> r.key] \in Announcing
  BY <1>1 DEF Announcing, EventTypes
<1>3. proc' \in [Handlers -> Locals]
  BY <1>2 DEF GatewayRefund, IType, TypeOK, Locals
<1>4. refunds' \in [Refunds -> [pay : Attempts, amt : Nat \ {0}] \cup {NoRefund}]
  BY <1>1 DEF GatewayRefund, GatewayAccepts, NewRefund, IType, TypeOK
<1> QED
  BY <1>3, <1>4 DEF IType, TypeOK, GatewayRefund, Used, rows, dedup, history

LEMMA AttemptType ==
    ASSUME IType, NEW a \in Attempts, NEW o \in Orders, NEW state \in {"captured", "failed"},
           Attempt(a, o, state)
    PROVE  TypeOK'
<1>1. attempts' \in [Attempts -> [state : {"captured", "failed"}, order : Orders] \cup {NoAttempt}]
  BY DEF Attempt, IType, TypeOK
<1> QED
  BY <1>1 DEF IType, TypeOK, Attempt, Used, rows, dedup, history

LEMMA DashboardRefundType ==
    ASSUME IType, NEW a \in Attempts, NEW amt \in Asked \ {0}, DashboardRefund(a, amt)
    PROVE  TypeOK'
<1>1. amt \in Nat \ {0}
  BY PaymentConstants DEF PaymentConstants
<1>2. refunds' \in [Refunds -> [pay : Attempts, amt : Nat \ {0}] \cup {NoRefund}]
  BY <1>1 DEF DashboardRefund, NewRefund, IType, TypeOK
<1> QED
  BY <1>2 DEF IType, TypeOK, DashboardRefund, Used, rows, dedup, history

LEMMA UpdateStatusType ==
    ASSUME IType, NEW p \in Handlers, NEW k \in Keys, NEW c \in Patches,
           UpdateStatus(p, k, c[1], c[2])
    PROVE  TypeOK'
<1>1. c[2] \in Statuses
  BY PaymentConstants DEF PaymentConstants
<1>2. intents[k] \in IntentRow
  BY RowShape DEF UpdateStatus, IType, Used
<1>3. [intents[k] EXCEPT !.status = c[2]] \in IntentRow
      /\ [intents[k] EXCEPT !.status = c[2]].status = c[2]
  BY <1>1, <1>2 DEF IntentRow
<1>4. intents' = [intents EXCEPT ![k] = [intents[k] EXCEPT !.status = c[2]]]
  BY DEF UpdateStatus
<1>5. intents' \in [Keys -> IntentRow \cup {FreeRow}]
  BY <1>3, <1>4 DEF IType, TypeOK
<1>6. Used' = Used
  BY <1>1, <1>3, <1>4 DEF UpdateStatus, Used, IType, TypeOK, Statuses
<1>7. [pc |-> "announce", ev |-> {}, type |-> EventType(c[2]), key |-> k] \in Announcing
  BY DEF Announcing, EventTypes, EventType
<1>8. proc' \in [Handlers -> Locals]
  BY <1>7 DEF UpdateStatus, IType, TypeOK, Locals
<1> QED
  BY <1>5, <1>6, <1>8 DEF IType, TypeOK, UpdateStatus, dedup, gateway, history

LEMMA ReleaseHoldType ==
    ASSUME IType, NEW k \in Keys, ReleaseHold(k)
    PROVE  TypeOK'
<1>1. holds[k].open \in Nat /\ holds[k].released \in Nat
  BY DEF IType, TypeOK
<1>2. [open |-> 0, released |-> holds[k].released + holds[k].open] \in [open : Nat, released : Nat]
  BY <1>1
<1>3. holds' = [holds EXCEPT ![k] = [open |-> 0, released |-> holds[k].released + holds[k].open]]
  BY DEF ReleaseHold
<1>4. holds' \in [Keys -> [open : Nat, released : Nat]]
  BY <1>2, <1>3 DEF IType, TypeOK
<1> QED
  BY <1>4 DEF IType, TypeOK, ReleaseHold, Used, dedup, gateway, history

LEMMA AgeType ==
    ASSUME IType, NEW k \in Keys, Age(k)
    PROVE  TypeOK'
BY DEF IType, TypeOK, Age, Used, dedup, gateway, history

LEMMA CrashType ==
    ASSUME IType, NEW p \in Handlers, Crash(p)
    PROVE  TypeOK'
<1>1. proc' \in [Handlers -> Locals]
  BY DEF IType, TypeOK, Crash, Locals
<1> QED
  BY <1>1 DEF IType, TypeOK, Crash, Used, rows, dedup, gateway, history

LEMMA FailType ==
    ASSUME IType, NEW p \in Handlers, Fail(p)
    PROVE  TypeOK'
<1>1. proc[p].pc # "idle"
  BY DEF Fail
<1>2. proc' \in [Handlers -> Locals] /\ acked' \subseteq Webhooks
  BY <1>1, ReturnType DEF Fail, IType
<1> QED
  BY <1>2 DEF IType, TypeOK, Fail, Used, rows, dedup, gateway, history

\* Every step keeps the types.
LEMMA NextType ==
    ASSUME IType, [Next]_vars
    PROVE  TypeOK'
<1>1. CASE UNCHANGED vars
  BY <1>1 DEF IType, TypeOK, Used, vars, rows, dedup, gateway, history
<1>2. ASSUME NEW p \in Handlers, HandlerStep(p)
      PROVE  TypeOK'
  BY <1>2, CreateOrderType, CreateIntentType, CreateHoldType, AnnounceType, VerifyType,
     DedupType, UpdateType, PublishUpdateType, LocateType, RecordRefundType,
     ApplyRefundType, GatewayRefundType
     DEF HandlerStep
<1>3. ASSUME NEW p \in Handlers, Request(p)
      PROVE  TypeOK'
  BY <1>3, InitiatePaymentType, VerifyIntentType, DeliverType, InitiateRefundType,
     UpdateStatusType
     DEF Request
<1>4. ASSUME NEW p \in Handlers, Crash(p) \/ Fail(p)
      PROVE  TypeOK'
  BY <1>4, CrashType, FailType
<1> QED
  BY <1>1, <1>2, <1>3, <1>4, AttemptType, DashboardRefundType, ReleaseHoldType, AgeType
     DEF Next

---------------------------------------------------------------------------
(* The gateway never takes back an attempt or a refund, so that what a     *)
(* webhook says stays true while it is being handled.                      *)

LEMMA GatewayGrows ==
    ASSUME IType, [Next]_vars
    PROVE  /\ \A a \in Attempts : attempts[a] # NoAttempt => attempts'[a] = attempts[a]
           /\ \A x \in Refunds : refunds[x] # NoRefund => refunds'[x] = refunds[x]
<1> DEFINE Grows == /\ \A a \in Attempts : attempts[a] # NoAttempt => attempts'[a] = attempts[a]
                    /\ \A x \in Refunds : refunds[x] # NoRefund => refunds'[x] = refunds[x]
<1>1. CASE UNCHANGED <<attempts, refunds>>
  BY <1>1
<1>2. ASSUME NEW a, NEW amt, NewRefund(a, amt), UNCHANGED attempts
      PROVE  Grows
  BY <1>2 DEF NewRefund, IType, TypeOK
<1>3. ASSUME NEW a \in Attempts, NEW o \in Orders, NEW s, Attempt(a, o, s)
      PROVE  Grows
  BY <1>3 DEF Attempt, IType, TypeOK
<1>4. ASSUME NEW p \in Handlers, HandlerStep(p)
      PROVE  Grows
  <2>1. CASE GatewayRefund(p)
    BY <1>1, <1>2, <2>1 DEF GatewayRefund
  <2>2. CASE ~GatewayRefund(p)
    <3>1. UNCHANGED <<attempts, refunds>>
      BY <1>4, <2>2 DEF HandlerStep, CreateOrder, CreateIntent, CreateHold, Announce, Verify,
         Dedup, Update, PublishUpdate, Locate, RecordRefund, ApplyRefund, gateway
    <3> QED
      BY <1>1, <3>1
  <2> QED
    BY <2>1, <2>2
<1>5. ASSUME NEW p \in Handlers, Request(p) \/ Crash(p) \/ Fail(p)
      PROVE  UNCHANGED <<attempts, refunds>>
  BY <1>5 DEF Request, InitiatePayment, VerifyIntent, Deliver, InitiateRefund, UpdateStatus,
     Crash, Fail, gateway
<1>6. ASSUME NEW k \in Keys, ReleaseHold(k) \/ Age(k)
      PROVE  UNCHANGED <<attempts, refunds>>
  BY <1>6 DEF ReleaseHold, Age, gateway
<1>7. UNCHANGED vars => UNCHANGED <<attempts, refunds>>
  BY DEF vars, gateway
<1> QED
  BY <1>1, <1>2, <1>3, <1>4, <1>5, <1>6, <1>7 DEF Next, DashboardRefund

LEMMA HooksStayTrue ==
    ASSUME IType, [Next]_vars, NEW e \in Webhooks, Happened(e)
    PROVE  Happened(e)' /\ OrderOf(e)' = OrderOf(e)
<1>1. /\ \A a \in Attempts : attempts[a] # NoAttempt => attempts'[a] = attempts[a]
      /\ \A x \in Refunds : refunds[x] # NoRefund => refunds'[x] = refunds[x]
  BY GatewayGrows
<1>2. CASE RefundHook(e)
  <2>1. e.id \in Refunds /\ refunds[e.id].amt > 0
    BY <1>2 DEF Webhooks, RefundHook, Happened
  <2>2. refunds[e.id].pay \in Attempts /\ Captured(refunds[e.id].pay)
    BY <2>1, GatewayShape
  <2>3. refunds[e.id] # NoRefund
    BY <2>1 DEF NoRefund
  <2>4. attempts[refunds[e.id].pay] # NoAttempt
    BY <2>2 DEF Captured, NoAttempt
  <2> QED
    BY <1>1, <1>2, <2>1, <2>2, <2>3, <2>4 DEF Happened, OrderOf, RefundHook
<1>3. CASE ~RefundHook(e)
  <2>1. e.id \in Attempts /\ e.kind \in {"captured", "failed"} /\ attempts[e.id].state = e.kind
    BY <1>3 DEF Webhooks, RefundHook, Happened
  <2>2. attempts[e.id] # NoAttempt
    BY <2>1 DEF NoAttempt
  <2> QED
    BY <1>1, <1>3, <2>1, <2>2 DEF Happened, OrderOf, RefundHook
<1> QED
  BY <1>2, <1>3

LEMMA GatewaySaneStep ==
    ASSUME IType, [Next]_vars
    PROVE  GatewaySane'
<1> SUFFICES ASSUME NEW x \in Refunds, refunds'[x] # NoRefund
             PROVE  attempts'[refunds'[x].pay].state = "captured"
  BY DEF GatewaySane, Captured
<1>1. /\ \A a \in Attempts : attempts[a] # NoAttempt => attempts'[a] = attempts[a]
      /\ \A y \in Refunds : refunds[y] # NoRefund => refunds'[y] = refunds[y]
  BY GatewayGrows
<1>2. ASSUME NEW a \in Attempts, Captured(a)
      PROVE  attempts'[a].state = "captured"
  BY <1>1, <1>2 DEF Captured, NoAttempt
<1>3. CASE refunds[x] # NoRefund
  <2>1. refunds[x].pay \in Attempts /\ Captured(refunds[x].pay)
    BY <1>3 DEF IType, TypeOK, GatewaySane
  <2> QED
    BY <1>1, <1>2, <1>3, <2>1
<1>4. CASE refunds[x] = NoRefund
  <2>1. \E a \in Attempts : \E amt : Captured(a) /\ NewRefund(a, amt)
    <3>1. ~UNCHANGED refunds
      BY <1>4
    <3>2. ASSUME NEW p \in Handlers, HandlerStep(p)
          PROVE  GatewayRefund(p)
      BY <3>1, <3>2 DEF HandlerStep, CreateOrder, CreateIntent, CreateHold, Announce, Verify,
         Dedup, Update, PublishUpdate, Locate, RecordRefund, ApplyRefund, gateway
    <3>3. ASSUME NEW p \in Handlers, GatewayRefund(p)
          PROVE  \E a \in Attempts : \E amt : Captured(a) /\ NewRefund(a, amt)
      BY <3>1, <3>3 DEF GatewayRefund, GatewayAccepts
    <3>4. ASSUME NEW p \in Handlers, Request(p) \/ Crash(p) \/ Fail(p)
          PROVE  FALSE
      BY <3>1, <3>4 DEF Request, InitiatePayment, VerifyIntent, Deliver, InitiateRefund,
         UpdateStatus, Crash, Fail, gateway
    <3>5. ASSUME NEW k \in Keys, ReleaseHold(k) \/ Age(k)
          PROVE  FALSE
      BY <3>1, <3>5 DEF ReleaseHold, Age, gateway
    <3>6. ASSUME NEW a \in Attempts, NEW o \in Orders, NEW s, Attempt(a, o, s)
          PROVE  FALSE
      BY <3>1, <3>6 DEF Attempt
    <3>7. ~UNCHANGED vars
      BY <3>1 DEF vars, gateway
    <3>8. ASSUME NEW a \in Attempts, NEW amt, DashboardRefund(a, amt)
          PROVE  Captured(a) /\ NewRefund(a, amt)
      BY <3>8 DEF DashboardRefund, GatewayAccepts
    <3> QED
      BY <3>2, <3>3, <3>4, <3>5, <3>6, <3>7, <3>8 DEF Next
  <2>2. PICK a \in Attempts : \E amt : Captured(a) /\ NewRefund(a, amt)
    BY <2>1
  <2>3. refunds'[x].pay = a
    BY <1>4, <2>2 DEF NewRefund, IType, TypeOK
  <2> QED
    BY <1>2, <2>2, <2>3
<1> QED
  BY <1>3, <1>4

\* A step is taken by one handler; the others keep their locals.
LEMMA OneHandlerMoves ==
    ASSUME IType, [Next]_vars, NEW q \in Handlers, proc'[q] # proc[q]
    PROVE  HandlerStep(q) \/ Request(q) \/ Crash(q) \/ Fail(q)
<1>1. ASSUME NEW p \in Handlers, p # q, HandlerStep(p)
      PROVE  proc'[q] = proc[q]
  BY <1>1 DEF HandlerStep, CreateOrder, CreateIntent, CreateHold, Announce, Verify, Dedup,
     Update, PublishUpdate, Locate, RecordRefund, ApplyRefund, GatewayRefund, Return, Goto,
     IType, TypeOK
<1>2. ASSUME NEW p \in Handlers, p # q, Request(p) \/ Crash(p) \/ Fail(p)
      PROVE  proc'[q] = proc[q]
  BY <1>2 DEF Request, InitiatePayment, VerifyIntent, Deliver, InitiateRefund, UpdateStatus,
     Crash, Fail, Return, IType, TypeOK
<1>3. ASSUME NEW k \in Keys, ReleaseHold(k) \/ Age(k)
      PROVE  proc' = proc
  BY <1>3 DEF ReleaseHold, Age
<1>4. ASSUME NEW a \in Attempts, NEW o \in Orders, NEW s, Attempt(a, o, s)
      PROVE  proc' = proc
  BY <1>4 DEF Attempt
<1>5. ASSUME NEW a \in Attempts, NEW amt, DashboardRefund(a, amt)
      PROVE  proc' = proc
  BY <1>5 DEF DashboardRefund
<1>6. UNCHANGED vars => proc' = proc
  BY DEF vars
<1> QED
  BY <1>1, <1>2, <1>3, <1>4, <1>5, <1>6 DEF Next

\* Where a handler goes, unless it returns or dies.
Flow == {<<"order", "create">>, <<"create", "hold">>, <<"create", "announce">>,
         <<"hold", "announce">>, <<"dedup", "locate">>, <<"dedup", "update">>,
         <<"update", "publish">>, <<"publish", "announce">>, <<"locate", "fresh">>,
         <<"fresh", "apply">>, <<"apply", "refund">>, <<"apply", "announce">>,
         <<"refund", "announce">>}

\* Setting the program counter of a busy handler sets it.
LEMMA GotoGoes ==
    ASSUME TypeOK, NEW p \in Handlers, proc[p].pc # "idle", NEW pc
    PROVE  /\ [proc[p] EXCEPT !.pc = pc].pc = pc
           /\ \A o : [proc[p] EXCEPT !.pc = pc, !.ref = o].pc = pc
           /\ Goto(p, pc) => proc'[p] = [proc[p] EXCEPT !.pc = pc]
<1>1. proc \in [Handlers -> Locals] /\ proc[p] \in Locals
  BY DEF TypeOK
<1>2. proc[p] = [proc[p] EXCEPT !.pc = proc[p].pc] /\ "pc" \in DOMAIN proc[p]
  BY <1>1 DEF Locals, Idle, Initiating, Announcing, Verifying, Handling, Recording, Refunding
<1>3. [proc[p] EXCEPT !.pc = pc].pc = pc
  BY <1>2
<1>4. \A o : [proc[p] EXCEPT !.pc = pc, !.ref = o].pc = pc
  BY <1>2
<1> QED
  BY <1>1, <1>3, <1>4 DEF Goto

LEMMA FlowOfHandler ==
    ASSUME IType, NEW p \in Handlers, HandlerStep(p) \/ Crash(p) \/ Fail(p)
    PROVE  proc'[p].pc = "idle" \/ <<proc[p].pc, proc'[p].pc>> \in Flow
<1> DEFINE r == proc[p]
           Goes(pc) == proc'[p] = [r EXCEPT !.pc = pc] \/ proc'[p] = Idle
<1>1. proc \in [Handlers -> Locals]
  BY DEF IType, TypeOK
<1>2. Return(p) => proc'[p].pc = "idle"
  BY <1>1 DEF Return, Idle
<1>3. r.pc # "idle"
  BY DEF HandlerStep, CreateOrder, CreateIntent, CreateHold, Announce, Verify, Dedup, Update,
     PublishUpdate, Locate, RecordRefund, ApplyRefund, GatewayRefund, Crash, Fail
<1>4. ASSUME NEW pc, Goto(p, pc) \/ proc'[p] = [r EXCEPT !.pc = pc]
      PROVE  proc'[p].pc = pc
  <2>1. [r EXCEPT !.pc = pc].pc = pc /\ proc'[p] = [r EXCEPT !.pc = pc]
    BY <1>3, <1>4, GotoGoes DEF IType
  <2> QED
    BY <2>1, Zenon
<1>5. ASSUME CreateOrder(p)
      PROVE  r.pc = "order" /\ proc'[p].pc = "create"
  <2>1. CASE Goto(p, "create")
    BY <1>4, <1>5, <2>1 DEF CreateOrder
  <2>2. CASE ~Goto(p, "create")
    <3>1. PICK o \in Orders : proc'[p] = [r EXCEPT !.pc = "create", !.ref = o]
      BY <1>1, <1>5, <2>2 DEF CreateOrder
    <3>2. [r EXCEPT !.pc = "create", !.ref = o].pc = "create"
      BY <1>3, GotoGoes DEF IType
    <3>3. proc'[p].pc = "create"
      BY <3>1, <3>2, Zenon
    <3> QED
      BY <1>5, <3>3 DEF CreateOrder
  <2> QED
    BY <2>1, <2>2
<1>6. ASSUME CreateIntent(p)
      PROVE  r.pc = "create" /\ proc'[p].pc \in {"hold", "announce", "idle"}
  <2>1. \/ proc'[p] = [r EXCEPT !.pc = "hold"]
        \/ proc'[p] = [pc |-> "announce", ev |-> {}, type |-> "initiated", key |-> r.key]
        \/ Return(p)
    BY <1>1, <1>6 DEF CreateIntent
  <2>2. proc'[p] = [r EXCEPT !.pc = "hold"] => proc'[p].pc = "hold"
    BY <1>4
  <2> QED
    BY <1>2, <1>6, <2>1, <2>2 DEF CreateIntent
<1>7. CASE CreateHold(p) \/ PublishUpdate(p) \/ GatewayRefund(p) \/ Locate(p)
  BY <1>1, <1>2, <1>7 DEF CreateHold, PublishUpdate, GatewayRefund, Locate, Flow
<1>8. CASE Announce(p) \/ Verify(p) \/ Crash(p) \/ Fail(p)
  BY <1>1, <1>2, <1>8 DEF Announce, Verify, Crash, Fail, Idle
<1>9. CASE Dedup(p)
  BY <1>2, <1>4, <1>9 DEF Dedup, Flow
<1>10. CASE Update(p)
  BY <1>2, <1>4, <1>10 DEF Update, Flow
<1>11. CASE RecordRefund(p)
  BY <1>2, <1>4, <1>11 DEF RecordRefund, Flow
<1>12. CASE ApplyRefund(p)
  <2>1. \/ proc'[p] = [r EXCEPT !.pc = "refund"]
        \/ proc'[p] = [pc |-> "announce", ev |-> r.ev, type |-> "refunded", key |-> r.key]
        \/ Return(p)
    BY <1>1, <1>12 DEF ApplyRefund
  <2>2. proc'[p] = [r EXCEPT !.pc = "refund"] => proc'[p].pc = "refund"
    BY <1>4
  <2> QED
    BY <1>2, <1>12, <2>1, <2>2 DEF ApplyRefund, Flow
<1> QED
  BY <1>5, <1>6, <1>7, <1>8, <1>9, <1>10, <1>11, <1>12 DEF HandlerStep, Flow

LEMMA HookOfHandlerStep ==
    ASSUME IType, [Next]_vars, NEW q \in Handlers
    PROVE  HookOfHandler(q)'
<1> DEFINE hooking == {"dedup", "update", "publish", "locate"}
           r == proc[q]
<1>1. r.pc \in hooking => r.hook \in Webhooks
  BY Shapes DEF IType, Handling
<1>2. CASE proc'[q] = proc[q]
  <2>1. CASE r.pc \in hooking
    <3>1. Happened(r.hook) /\ r.order = OrderOf(r.hook)
      BY <2>1 DEF IType, HookOfHandler
    <3>2. Happened(r.hook)' /\ (OrderOf(r.hook))' = OrderOf(r.hook)
      <4>1. \A e \in Webhooks : Happened(e) => Happened(e)' /\ OrderOf(e)' = OrderOf(e)
        BY HooksStayTrue
      <4> QED
        BY <1>1, <1>2, <2>1, <3>1, <4>1 DEF Happened, OrderOf, RefundHook
    <3> QED
      BY <1>2, <3>1, <3>2 DEF IType, HookOfHandler, RefundHook
  <2>2. CASE r.pc \notin hooking
    BY <1>2, <2>2 DEF HookOfHandler
  <2> QED
    BY <2>1, <2>2
<1>3. ASSUME NEW e \in Webhooks, Deliver(q, e)
      PROVE  HookOfHandler(q)'
  <2>1. /\ proc'[q] = [pc |-> "dedup", ev |-> {e}, hook |-> e, order |-> OrderOf(e)]
        /\ UNCHANGED gateway /\ Happened(e)
    BY <1>3 DEF Deliver, IType, TypeOK
  <2> QED
    BY <2>1 DEF HookOfHandler, Happened, OrderOf, RefundHook, gateway
<1>4. CASE Dedup(q) /\ proc'[q] # Idle
  <2>1. /\ r \in Handling /\ r.pc = "dedup" /\ UNCHANGED gateway
        /\ proc'[q] = [r EXCEPT !.pc = IF RefundHook(r.hook) THEN "locate" ELSE "update"]
    BY <1>4, Shapes DEF Dedup, Return, Goto, IType, TypeOK
  <2>2. Happened(r.hook) /\ r.order = OrderOf(r.hook)
    BY <2>1 DEF IType, HookOfHandler
  <2>3. /\ proc'[q].hook = r.hook /\ proc'[q].order = r.order
        /\ proc'[q].pc = IF RefundHook(r.hook) THEN "locate" ELSE "update"
    BY <2>1 DEF Handling
  <2> QED
    BY <2>1, <2>2, <2>3 DEF HookOfHandler, Happened, OrderOf, RefundHook, gateway
<1>5. CASE Update(q) /\ proc'[q] # Idle
  <2>1. /\ r \in Handling /\ r.pc = "update" /\ UNCHANGED gateway
        /\ proc'[q] = [r EXCEPT !.pc = "publish"]
    BY <1>5, Shapes DEF Update, Return, Goto, IType, TypeOK
  <2>2. Happened(r.hook) /\ r.order = OrderOf(r.hook) /\ ~RefundHook(r.hook)
    BY <2>1 DEF IType, HookOfHandler
  <2>3. proc'[q].hook = r.hook /\ proc'[q].order = r.order /\ proc'[q].pc = "publish"
    BY <2>1 DEF Handling
  <2> QED
    BY <2>1, <2>2, <2>3 DEF HookOfHandler, Happened, OrderOf, RefundHook, gateway
<1>6. CASE proc'[q].pc \notin hooking
  BY <1>6 DEF HookOfHandler
<1>7. ASSUME HandlerStep(q), ~Dedup(q), ~Update(q)
      PROVE  proc'[q].pc \notin hooking
  <2>1. r.pc \notin {"dedup", "update"}
    BY <1>7 DEF HandlerStep, CreateOrder, CreateIntent, CreateHold, Announce, Verify,
       PublishUpdate, Locate, RecordRefund, ApplyRefund, GatewayRefund
  <2> QED
    BY <1>7, <2>1, FlowOfHandler DEF Flow
<1>8. ASSUME Request(q) \/ Crash(q) \/ Fail(q), ~\E e \in Webhooks : Deliver(q, e)
      PROVE  proc'[q].pc \notin hooking
  BY <1>8 DEF Request, InitiatePayment, VerifyIntent, InitiateRefund, UpdateStatus, Crash,
     Fail, Return, Idle, IType, TypeOK
<1>9. proc'[q] = Idle => proc'[q].pc \notin hooking
  BY DEF Idle
<1> QED
  BY <1>2, <1>3, <1>4, <1>5, <1>6, <1>7, <1>8, <1>9, OneHandlerMoves

LEMMA ITypeStep == IType /\ [Next]_vars => IType'
<1> SUFFICES ASSUME IType, [Next]_vars PROVE IType'
  OBVIOUS
<1>1. TypeOK'
  BY NextType
<1>2. GatewaySane'
  BY GatewaySaneStep
<1>3. \A p \in Handlers : HookOfHandler(p)'
  BY HookOfHandlerStep
<1> QED
  BY <1>1, <1>2, <1>3 DEF IType

LEMMA ITypeAlways == Spec => []IType
BY InitType, ITypeStep, PTL DEF Spec

\* Columns, the topic, the gateway's tables and every handler's locals stay in
\* range, whatever the constants.
THEOREM TypeCorrect == Spec => []TypeOK
<1>1. IType => TypeOK
  BY DEF IType
<1> QED
  BY <1>1, ITypeAlways, PTL

---------------------------------------------------------------------------
(* What a step can do to a row.                                            *)

Verified(k) ==
    \E p \in Handlers :
        /\ proc[p].pc = "verify" /\ proc[p].key = k /\ intents[k].status = "pending"
        /\ intents'[k] = [intents[k] EXCEPT !.status = "succeeded", !.ref = proc[p].pay]
Updated(k) ==
    \E p \in Handlers :
        /\ proc[p].pc = "update" /\ k \in Matching(proc[p].order, NewStatus(proc[p].hook))
        /\ intents'[k] = [intents[k] EXCEPT !.status = NewStatus(proc[p].hook),
                                            !.ref = proc[p].hook.id]
Applied(k) ==
    \E p \in Handlers :
        /\ proc[p] \in Refunding /\ MayApply(intents[k], proc[p].amt)
        /\ intents'[k] = Refunded(intents[k], proc[p].amt)
Patched(k) ==
    \E c \in Patches :
        /\ intents[k].status = c[1]
        /\ intents'[k] = [intents[k] EXCEPT !.status = c[2]]
Created(k) ==
    \E p \in Handlers :
        /\ proc[p] \in Initiating
        /\ intents'[k] = [status |-> "pending", amt |-> proc[p].amt, refunded |-> 0,
                          method |-> proc[p].method, ref |-> proc[p].ref, order |-> proc[p].ref]

LEMMA RowSteps ==
    ASSUME IType, [Next]_vars, NEW k \in Keys, intents'[k] # intents[k]
    PROVE  \/ k \in Used /\ (Verified(k) \/ Updated(k) \/ Applied(k) \/ Patched(k))
           \/ k \notin Used /\ Created(k)
<1> DEFINE Goal == \/ k \in Used /\ (Verified(k) \/ Updated(k) \/ Applied(k) \/ Patched(k))
                   \/ k \notin Used /\ Created(k)
<1>0. intents \in [Keys -> IntentRow \cup {FreeRow}]
  BY DEF IType, TypeOK
<1>1. ASSUME NEW p \in Handlers, HandlerStep(p)
      PROVE  Goal
  <2>1. CASE CreateIntent(p)
    <3>1. proc[p] \in Initiating
      BY <2>1, Shapes DEF CreateIntent, IType
    <3> QED
      BY <1>0, <2>1, <3>1 DEF CreateIntent, Created
  <2>2. CASE Verify(p)
    <3>1. /\ proc[p].pc = "verify" /\ proc[p].key = k /\ intents[k].status = "pending"
          /\ intents'[k] = [intents[k] EXCEPT !.status = "succeeded", !.ref = proc[p].pay]
      BY <1>0, <2>2 DEF Verify
    <3>2. k \in Used
      BY <3>1 DEF Used
    <3> QED
      BY <3>1, <3>2 DEF Verified
  <2>3. CASE Update(p)
    <3>1. /\ proc[p].pc = "update" /\ k \in Matching(proc[p].order, NewStatus(proc[p].hook))
          /\ intents'[k] = [intents[k] EXCEPT !.status = NewStatus(proc[p].hook),
                                              !.ref = proc[p].hook.id]
      BY <2>3 DEF Update
    <3>2. k \in Used
      BY <3>1 DEF Matching
    <3> QED
      BY <3>1, <3>2 DEF Updated
  <2>4. CASE ApplyRefund(p)
    <3>1. /\ proc[p] \in Refunding /\ proc[p].key \in Keys
          /\ MayApply(intents[proc[p].key], proc[p].amt)
          /\ intents' = [intents EXCEPT ![proc[p].key] =
                           Refunded(intents[proc[p].key], proc[p].amt)]
      BY <2>4, ApplyRefundRows
    <3>2. proc[p].key = k
      BY <1>0, <3>1
    <3>3. k \in Used
      BY <3>1, <3>2 DEF Used, MayApply, Refundable
    <3> QED
      BY <1>0, <3>1, <3>2, <3>3 DEF Applied
  <2> QED
    BY <1>1, <2>1, <2>2, <2>3, <2>4 DEF HandlerStep, CreateOrder, CreateHold, Announce, Dedup,
       PublishUpdate, Locate, RecordRefund, GatewayRefund, rows
<1>2. ASSUME NEW p \in Handlers, Request(p)
      PROVE  Goal
  <2>1. ASSUME NEW l \in Keys, NEW c \in Patches, UpdateStatus(p, l, c[1], c[2])
        PROVE  Goal
    <3>1. l = k /\ k \in Used /\ intents[k].status = c[1]
          /\ intents'[k] = [intents[k] EXCEPT !.status = c[2]]
      BY <1>0, <2>1 DEF UpdateStatus
    <3> QED
      BY <3>1 DEF Patched
  <2> QED
    BY <1>2, <2>1 DEF Request, InitiatePayment, VerifyIntent, Deliver, InitiateRefund, rows
<1>3. ASSUME NEW p \in Handlers, Crash(p) \/ Fail(p)
      PROVE  FALSE
  BY <1>3 DEF Crash, Fail, rows
<1>4. ASSUME NEW a, NEW o, NEW s, Attempt(a, o, s) \/ DashboardRefund(a, o)
      PROVE  FALSE
  BY <1>4 DEF Attempt, DashboardRefund, rows
<1>5. ASSUME NEW l \in Keys, ReleaseHold(l) \/ Age(l)
      PROVE  FALSE
  BY <1>5 DEF ReleaseHold, Age
<1>6. UNCHANGED vars => FALSE
  BY DEF vars, rows
<1> QED
  BY <1>1, <1>2, <1>3, <1>4, <1>5, <1>6 DEF Next

---------------------------------------------------------------------------
(* Refunds.                                                                *)

\* An edit of the status by PATCH concerns no refund.
PatchesLeaveRefunds ==
    \A c \in Patches : {c[1], c[2]} \cap {"refunded", "partially_refunded"} = {}

RowBalances(row) ==
    /\ row.refunded <= row.amt
    /\ row.status = "refunded" <=> row.refunded = row.amt
    /\ row.status = "partially_refunded" <=> row.refunded \in 1 .. row.amt - 1

LEMMA RefundBalancesStep ==
    ASSUME PatchesLeaveRefunds, IType, RefundBalances, [Next]_vars
    PROVE  RefundBalances'
<1> SUFFICES ASSUME NEW k \in Keys, intents'[k].status # "free"
             PROVE  RowBalances(intents'[k])
  BY DEF RefundBalances, RowBalances, Used
<1>1. CASE intents'[k] = intents[k]
  BY <1>1 DEF RefundBalances, RowBalances, Used
<1>2. ASSUME k \in Used
      PROVE  /\ intents[k] \in IntentRow /\ RowBalances(intents[k])
             /\ intents[k].amt \in Nat \ {0} /\ intents[k].refunded \in Nat
             /\ intents[k].status \notin {"refunded", "partially_refunded"} =>
                  intents[k].refunded = 0
  <2>1. intents[k] \in IntentRow /\ RowBalances(intents[k])
    BY <1>2, RowShape DEF RefundBalances, RowBalances, Used, IType
  <2>2. intents[k].amt \in Nat \ {0} /\ intents[k].refunded \in Nat
    BY <2>1, PaymentConstants DEF IntentRow, PaymentConstants
  <2> QED
    BY <2>1, <2>2 DEF RowBalances
<1>3. ASSUME k \in Used, NEW row \in IntentRow, intents'[k] = row,
             row.amt = intents[k].amt, row.refunded = intents[k].refunded,
             {intents[k].status, row.status} \cap {"refunded", "partially_refunded"} = {}
      PROVE  RowBalances(intents'[k])
  BY <1>2, <1>3 DEF RowBalances
<1>4. ASSUME k \in Used, Verified(k)
      PROVE  RowBalances(intents'[k])
  <2>1. PICK p \in Handlers :
          /\ proc[p].pc = "verify" /\ intents[k].status = "pending"
          /\ intents'[k] = [intents[k] EXCEPT !.status = "succeeded", !.ref = proc[p].pay]
    BY <1>4 DEF Verified
  <2>2. proc[p].pay \in Attempts
    BY <2>1, Shapes DEF IType, Verifying
  <2> DEFINE row == [intents[k] EXCEPT !.status = "succeeded", !.ref = proc[p].pay]
  <2>3. intents[k] \in IntentRow
    BY <1>2, <1>4
  <2>4. /\ row \in IntentRow /\ row.status = "succeeded"
        /\ row.amt = intents[k].amt /\ row.refunded = intents[k].refunded
    BY <2>2, <2>3 DEF IntentRow, Statuses
  <2>5. {intents[k].status, row.status} \cap {"refunded", "partially_refunded"} = {}
    BY <2>1, <2>4
  <2>6. intents'[k] = row
    BY <2>1
  <2> HIDE DEF row
  <2> QED
    BY <1>3, <1>4, <2>4, <2>5, <2>6
<1>5. ASSUME k \in Used, Updated(k)
      PROVE  RowBalances(intents'[k])
  <2>1. PICK p \in Handlers :
          /\ proc[p].pc = "update" /\ k \in Matching(proc[p].order, NewStatus(proc[p].hook))
          /\ intents'[k] = [intents[k] EXCEPT !.status = NewStatus(proc[p].hook),
                                              !.ref = proc[p].hook.id]
    BY <1>5 DEF Updated
  <2>2. proc[p].hook.id \in Attempts
    BY <2>1, Shapes DEF IType, HookOfHandler, Handling, Webhooks, RefundHook
  <2>3. NewStatus(proc[p].hook) \in {"succeeded", "failed"}
    BY DEF NewStatus
  <2>4. intents[k].status \in {"pending", "processing"}
    BY <2>1, <2>3 DEF Matching, Transitions
  <2> DEFINE row == [intents[k] EXCEPT !.status = NewStatus(proc[p].hook),
                                      !.ref = proc[p].hook.id]
  <2>5. intents[k] \in IntentRow
    BY <1>2, <1>5
  <2>6. /\ row \in IntentRow /\ row.status = NewStatus(proc[p].hook)
        /\ row.amt = intents[k].amt /\ row.refunded = intents[k].refunded
    BY <2>2, <2>3, <2>5 DEF IntentRow, Statuses
  <2>7. {intents[k].status, row.status} \cap {"refunded", "partially_refunded"} = {}
    BY <2>3, <2>4, <2>6
  <2>8. intents'[k] = row
    BY <2>1
  <2> HIDE DEF row
  <2> QED
    BY <1>3, <1>5, <2>6, <2>7, <2>8
<1>6. ASSUME k \in Used, Applied(k)
      PROVE  RowBalances(intents'[k])
  <2>1. PICK p \in Handlers :
          /\ proc[p] \in Refunding /\ MayApply(intents[k], proc[p].amt)
          /\ intents'[k] = Refunded(intents[k], proc[p].amt)
    BY <1>6 DEF Applied
  <2>2. proc[p].amt \in Nat \ {0} /\ intents[k].refunded + proc[p].amt <= intents[k].amt
    BY <2>1 DEF Refunding, MayApply
  <2>3. /\ intents'[k].refunded = intents[k].refunded + proc[p].amt
        /\ intents'[k].amt = intents[k].amt
        /\ intents'[k].status = IF intents[k].refunded + proc[p].amt >= intents[k].amt
                                THEN "refunded" ELSE "partially_refunded"
    <3>1. intents[k] \in IntentRow
      BY <1>2, <1>6
    <3> QED
      BY <2>1, <2>2, <3>1, RefundedRow
  <2> QED
    BY <1>2, <1>6, <2>2, <2>3 DEF RowBalances
<1>7. ASSUME k \in Used, Patched(k)
      PROVE  RowBalances(intents'[k])
  <2>1. PICK c \in Patches : /\ intents[k].status = c[1]
                             /\ intents'[k] = [intents[k] EXCEPT !.status = c[2]]
    BY <1>7 DEF Patched
  <2>2. c[2] \in Statuses /\ {c[1], c[2]} \cap {"refunded", "partially_refunded"} = {}
    BY PaymentConstants DEF PaymentConstants, PatchesLeaveRefunds
  <2> DEFINE row == [intents[k] EXCEPT !.status = c[2]]
  <2>3. intents[k] \in IntentRow
    BY <1>2, <1>7
  <2>4. /\ row \in IntentRow /\ row.status = c[2]
        /\ row.amt = intents[k].amt /\ row.refunded = intents[k].refunded
    BY <2>2, <2>3 DEF IntentRow
  <2>5. {intents[k].status, row.status} \cap {"refunded", "partially_refunded"} = {}
    BY <2>1, <2>2, <2>4
  <2> QED
    BY <1>3, <1>7, <2>1, <2>4, <2>5
<1>8. ASSUME Created(k)
      PROVE  RowBalances(intents'[k])
  <2>1. PICK p \in Handlers :
          /\ proc[p] \in Initiating
          /\ intents'[k] = [status |-> "pending", amt |-> proc[p].amt, refunded |-> 0,
                            method |-> proc[p].method, ref |-> proc[p].ref,
                            order |-> proc[p].ref]
    BY <1>8 DEF Created
  <2>2. proc[p].amt \in Nat \ {0}
    BY <2>1, PaymentConstants DEF Initiating, PaymentConstants
  <2> QED
    BY <2>1, <2>2 DEF RowBalances
<1> QED
  BY <1>1, <1>4, <1>5, <1>6, <1>7, <1>8, RowSteps

\* Concurrent refunds by request and by webhook never add up to more than was
\* paid, and the status says what was refunded, as long as PATCH is not used to
\* write a refund status.
THEOREM RefundsBalance ==
    ASSUME PatchesLeaveRefunds
    PROVE  Spec => []RefundBalances
<1>1. Init => RefundBalances
  BY DEF Init, RefundBalances, Used, FreeRow
<1>2. IType /\ RefundBalances /\ [Next]_vars => RefundBalances'
  BY RefundBalancesStep
<1> QED
  BY <1>1, <1>2, ITypeAlways, PTL DEF Spec

\* The status changes of one row by one handler stay in the table.
LEMMA StatusStep ==
    ASSUME Patches \subseteq Transitions, IType, [Next]_vars, NEW k \in Used,
           intents'[k].status # intents[k].status
    PROVE  <<intents[k].status, intents'[k].status>> \in Transitions
<1>1. k \in Keys /\ intents[k] \in IntentRow
  BY RowShape DEF Used, IType
<1>2. CASE Verified(k)
  <2>1. intents[k].status = "pending" /\ intents'[k].status = "succeeded"
    BY <1>1, <1>2 DEF Verified, IntentRow
  <2> QED
    BY <2>1 DEF Transitions
<1>3. CASE Updated(k)
  <2>1. PICK p \in Handlers :
          /\ k \in Matching(proc[p].order, NewStatus(proc[p].hook))
          /\ intents'[k] = [intents[k] EXCEPT !.status = NewStatus(proc[p].hook),
                                              !.ref = proc[p].hook.id]
    BY <1>3 DEF Updated
  <2>2. intents'[k].status = NewStatus(proc[p].hook)
    BY <1>1, <2>1 DEF IntentRow
  <2> QED
    BY <2>1, <2>2 DEF Matching
<1>4. CASE Applied(k)
  <2>1. PICK p \in Handlers :
          /\ proc[p] \in Refunding /\ MayApply(intents[k], proc[p].amt)
          /\ intents'[k] = Refunded(intents[k], proc[p].amt)
    BY <1>4 DEF Applied
  <2>2. proc[p].amt \in Nat \ {0} /\ intents[k].status \in Refundable
    BY <2>1 DEF Refunding, MayApply
  <2>3. intents'[k].status \in {"refunded", "partially_refunded"}
    BY <1>1, <2>1, <2>2, RefundedRow
  <2> QED
    BY <2>2, <2>3 DEF Refundable, Transitions
<1>5. CASE Patched(k)
  <2>1. PICK c \in Patches : /\ intents[k].status = c[1]
                             /\ intents'[k] = [intents[k] EXCEPT !.status = c[2]]
    BY <1>5 DEF Patched
  <2>2. intents'[k].status = c[2]
    BY <1>1, <2>1 DEF IntentRow
  <2>3. c = <<c[1], c[2]>>
    BY PaymentConstants DEF PaymentConstants
  <2> QED
    BY <2>1, <2>2, <2>3
<1> QED
  BY <1>1, <1>2, <1>3, <1>4, <1>5, RowSteps

\* An intent's status moves along validStatusTransitions, whatever
\* verifications, webhooks and refunds run at the same time, as long as PATCH
\* requests keep to the table too: only they bypass it.
THEOREM TransitionsKept ==
    ASSUME Patches \subseteq Transitions
    PROVE  Spec => StatusesFollowTable
<1> DEFINE Step == \A k \in Used : intents'[k].status # intents[k].status =>
                     <<intents[k].status, intents'[k].status>> \in Transitions
<1>1. IType /\ [Next]_vars => [Step]_vars
  <2> SUFFICES ASSUME IType, [Next]_vars PROVE Step
    OBVIOUS
  <2> QED
    BY StatusStep
<1>2. Spec => [][Step]_vars
  BY <1>1, ITypeAlways, PTL DEF Spec
<1> QED
  BY <1>2 DEF StatusesFollowTable

---------------------------------------------------------------------------
(* A refund is booked once.                                                *)

\* Handlers about to book a refund the gateway told of.
Booking(p, x) == proc[p].pc = "apply" /\ proc[p].refund = x

\* A refund is booked only by the one handler that recorded it.
Recorded ==
    \A x \in Refunds :
        /\ bookings[x] <= 1
        /\ x \notin applied => bookings[x] = 0
        /\ \A p \in Handlers : Booking(p, x) => x \in applied /\ bookings[x] = 0
        /\ \A p, q \in Handlers : Booking(p, x) /\ Booking(q, x) => p = q

LEMMA BookingStarts ==
    ASSUME IType, [Next]_vars, NEW q \in Handlers, NEW x \in Refunds, Booking(q, x)',
           ~Booking(q, x)
    PROVE  /\ RecordRefund(q) /\ proc[q].refund = x
           /\ x \notin applied /\ applied' = applied \cup {x} /\ bookings' = bookings
<1>1. proc \in [Handlers -> Locals] /\ proc'[q].pc = "apply" /\ proc'[q].refund = x
  BY DEF IType, TypeOK, Booking
<1>2. HandlerStep(q) \/ Request(q) \/ Crash(q) \/ Fail(q)
  BY OneHandlerMoves DEF Booking
<1>3. x # "none"
  BY PaymentConstants DEF PaymentConstants
<1>4. ~Request(q) /\ ~Crash(q) /\ ~Fail(q)
  <2>1. ~Crash(q) /\ ~Fail(q)
    BY <1>1 DEF Crash, Fail, Return, Idle
  <2>2. ASSUME NEW k \in Keys, NEW a \in Amounts, NEW method \in Methods,
               InitiatePayment(q, k, a, method)
        PROVE  FALSE
    BY <1>1, <2>2 DEF InitiatePayment
  <2>3. ASSUME NEW k \in Keys, NEW a \in Asked, InitiateRefund(q, k, a)
        PROVE  FALSE
    BY <1>1, <1>3, <2>3 DEF InitiateRefund
  <2> QED
    BY <1>1, <2>1, <2>2, <2>3 DEF Request, VerifyIntent, Deliver, UpdateStatus
<1>5. proc[q].pc = "fresh"
  BY <1>1, <1>2, <1>4, FlowOfHandler DEF Flow
<1>6. RecordRefund(q) /\ proc[q] \in Recording
  BY <1>2, <1>4, <1>5, Shapes DEF IType, HandlerStep, CreateOrder, CreateIntent, CreateHold,
     Announce, Verify, Dedup, Update, PublishUpdate, Locate, ApplyRefund, GatewayRefund
<1>7. Goto(q, "apply") /\ proc[q].refund \notin applied
  BY <1>1, <1>6 DEF RecordRefund, Return, Idle
<1>8. proc[q].refund = x
  BY <1>1, <1>6, <1>7 DEF Goto, Recording
<1> QED
  BY <1>6, <1>7, <1>8 DEF RecordRefund, history

LEMMA BookingsGrow ==
    ASSUME IType, [Next]_vars, NEW x \in Refunds, bookings'[x] # bookings[x]
    PROVE  \E p \in Handlers : /\ Booking(p, x) /\ ~Booking(p, x)'
                               /\ bookings'[x] = bookings[x] + 1
                               /\ applied' = applied
<1>1. ASSUME NEW p \in Handlers, HandlerStep(p)
      PROVE  ApplyRefund(p)
  BY <1>1 DEF HandlerStep, CreateOrder, CreateIntent, CreateHold, Announce, Verify, Dedup,
     Update, PublishUpdate, Locate, RecordRefund, GatewayRefund, history
<1>2. ASSUME NEW p \in Handlers, Request(p) \/ Crash(p) \/ Fail(p)
      PROVE  FALSE
  BY <1>2 DEF Request, InitiatePayment, VerifyIntent, Deliver, InitiateRefund, UpdateStatus,
     Crash, Fail, history
<1>3. ASSUME NEW a, NEW o, NEW s, Attempt(a, o, s) \/ DashboardRefund(a, o)
      PROVE  FALSE
  BY <1>3 DEF Attempt, DashboardRefund, history
<1>4. ASSUME NEW k \in Keys, ReleaseHold(k) \/ Age(k)
      PROVE  FALSE
  BY <1>4 DEF ReleaseHold, Age, history
<1>5. ~UNCHANGED vars
  BY DEF vars, history
<1>6. PICK p \in Handlers : ApplyRefund(p)
  BY <1>1, <1>2, <1>3, <1>4, <1>5 DEF Next
<1>7. /\ proc[p] \in Refunding /\ proc[p].pc = "apply"
      /\ bookings' = [y \in Refunds |-> IF y = proc[p].refund THEN bookings[y] + 1
                                        ELSE bookings[y]]
      /\ applied' = applied
  BY <1>6, ApplyRefundRows DEF ApplyRefund, dedup
<1>8. proc[p].refund = x /\ bookings'[x] = bookings[x] + 1
  BY <1>7
<1>9. proc'[p].pc # "apply"
  BY <1>6, <1>7, FlowOfHandler DEF HandlerStep, Flow
<1> QED
  BY <1>7, <1>8, <1>9 DEF Booking

LEMMA AppliedGrows ==
    ASSUME IType, [Next]_vars
    PROVE  applied \subseteq applied'
<1>1. ASSUME NEW p \in Handlers, HandlerStep(p)
      PROVE  applied \subseteq applied'
  BY <1>1 DEF HandlerStep, CreateOrder, CreateIntent, CreateHold, Announce, Verify, Dedup,
     Update, PublishUpdate, Locate, RecordRefund, ApplyRefund, GatewayRefund, dedup
<1>2. ASSUME NEW p \in Handlers, Request(p) \/ Crash(p) \/ Fail(p)
      PROVE  applied' = applied
  BY <1>2 DEF Request, InitiatePayment, VerifyIntent, Deliver, InitiateRefund, UpdateStatus,
     Crash, Fail, dedup
<1>3. ASSUME NEW a, NEW o, NEW s, Attempt(a, o, s) \/ DashboardRefund(a, o)
      PROVE  applied' = applied
  BY <1>3 DEF Attempt, DashboardRefund, dedup
<1>4. ASSUME NEW k \in Keys, ReleaseHold(k) \/ Age(k)
      PROVE  applied' = applied
  BY <1>4 DEF ReleaseHold, Age, dedup
<1>5. UNCHANGED vars => applied' = applied
  BY DEF vars, dedup
<1> QED
  BY <1>1, <1>2, <1>3, <1>4, <1>5 DEF Next

LEMMA RecordedStep ==
    ASSUME IType, Recorded, [Next]_vars
    PROVE  Recorded'
<1> SUFFICES ASSUME NEW x \in Refunds
             PROVE  /\ bookings'[x] <= 1
                    /\ x \notin applied' => bookings'[x] = 0
                    /\ \A p \in Handlers : Booking(p, x)' => x \in applied' /\ bookings'[x] = 0
                    /\ \A p, q \in Handlers : Booking(p, x)' /\ Booking(q, x)' => p = q
  BY DEF Recorded
<1>0. applied \subseteq applied' /\ bookings[x] \in Nat
  BY AppliedGrows DEF IType, TypeOK
<1>1. CASE bookings'[x] # bookings[x]
  <2>1. PICK p \in Handlers : /\ Booking(p, x) /\ ~Booking(p, x)'
                              /\ bookings'[x] = bookings[x] + 1 /\ applied' = applied
    BY <1>1, BookingsGrow
  <2>2. x \in applied /\ bookings[x] = 0
    BY <2>1 DEF Recorded
  <2>3. \A q \in Handlers : ~Booking(q, x)'
    <3> SUFFICES ASSUME NEW q \in Handlers, Booking(q, x)' PROVE FALSE
      OBVIOUS
    <3>1. CASE Booking(q, x)
      BY <2>1, <3>1 DEF Recorded
    <3>2. CASE ~Booking(q, x)
      BY <1>1, <3>2, BookingStarts
    <3> QED
      BY <3>1, <3>2
  <2> QED
    BY <2>1, <2>2, <2>3
<1>2. CASE bookings'[x] = bookings[x]
  <2>1. ASSUME NEW p \in Handlers, Booking(p, x)'
        PROVE  /\ x \in applied' /\ bookings'[x] = 0
               /\ Booking(p, x) \/ (x \notin applied /\ proc'[p] # proc[p])
    <3>1. CASE Booking(p, x)
      BY <1>0, <1>2, <3>1 DEF Recorded
    <3>2. CASE ~Booking(p, x)
      <4>1. x \notin applied /\ applied' = applied \cup {x}
        BY <2>1, <3>2, BookingStarts
      <4>2. proc'[p] # proc[p]
        BY <2>1, <3>2 DEF Booking
      <4> QED
        BY <1>2, <4>1, <4>2 DEF Recorded
    <3> QED
      BY <3>1, <3>2
  <2>2. ASSUME NEW p \in Handlers, NEW q \in Handlers, Booking(p, x)', Booking(q, x)'
        PROVE  p = q
    <3>1. CASE Booking(p, x) /\ Booking(q, x)
      BY <3>1 DEF Recorded
    <3>2. CASE ~Booking(p, x) /\ ~Booking(q, x)
      <4>1. RecordRefund(p) /\ RecordRefund(q)
        BY <2>2, <3>2, BookingStarts
      <4> QED
        BY <2>2, <3>2, <4>1 DEF RecordRefund, Return, Goto, IType, TypeOK, Booking
    <3>3. CASE Booking(p, x) /\ ~Booking(q, x)
      BY <2>1, <2>2, <3>3 DEF Recorded
    <3>4. CASE ~Booking(p, x) /\ Booking(q, x)
      BY <2>1, <2>2, <3>4 DEF Recorded
    <3> QED
      BY <3>1, <3>2, <3>3, <3>4
  <2> QED
    BY <1>0, <1>2, <2>1, <2>2 DEF Recorded
<1> QED
  BY <1>1, <1>2

\* However often and in whatever order refund.created and refund.processed of
\* one refund arrive, with crashes and failed statements, it is booked at most
\* once and not before it was recorded in refunds_applied.
THEOREM RefundsBookedOnce == Spec => []RefundBookedOnce
<1>1. Init => Recorded
  BY DEF Init, Recorded, Booking, Idle
<1>2. IType /\ Recorded /\ [Next]_vars => Recorded'
  BY RecordedStep
<1>3. Recorded => RefundBookedOnce
  BY DEF Recorded, RefundBookedOnce
<1> QED
  BY <1>1, <1>2, <1>3, ITypeAlways, PTL DEF Spec

---------------------------------------------------------------------------
(* Paid intents.                                                           *)

Paid == Refundable \cup {"refunded"}

\* A PATCH does not make an intent count as paid.
PatchesPayNothing == \A c \in Patches : c[2] \in Paid => c[1] \in Paid

\* The payment a verification carries was captured for the order of the intent.
VerifiesOwnOrder(p) ==
    proc[p].pc = "verify" =>
        /\ proc[p].key \in Used /\ Captured(proc[p].pay)
        /\ attempts[proc[p].pay].order = intents[proc[p].key].order

\* As long as a row's reference is an order it is the one opened for the row.
PaidInv ==
    /\ SucceededWasPaid
    /\ \A k \in Used : intents[k].ref \in Orders => intents[k].ref = intents[k].order
    /\ \A p \in Handlers : VerifiesOwnOrder(p)

\* A row once there keeps its order; what became of its reference and status.
LEMMA RowHistory ==
    ASSUME PatchesPayNothing, IType, PaidInv, [Next]_vars, NEW k \in Used
    PROVE  /\ k \in Used'
           /\ intents'[k].order = intents[k].order
           /\ intents'[k].ref \in Orders => intents'[k].ref = intents[k].ref
           /\ \/ intents'[k].status \in Paid => intents[k].status \in Paid
              \/ \E a \in Attempts : Captured(a) /\ attempts[a].order = intents[k].order
<1>1. k \in Keys /\ intents[k] \in IntentRow /\ intents[k].status # "free"
  BY RowShape DEF Used, IType
<1>2. CASE intents'[k] = intents[k]
  BY <1>1, <1>2 DEF Used
<1>3. CASE Verified(k)
  <2>1. PICK p \in Handlers :
          /\ proc[p].pc = "verify" /\ proc[p].key = k
          /\ intents'[k] = [intents[k] EXCEPT !.status = "succeeded", !.ref = proc[p].pay]
    BY <1>3 DEF Verified
  <2>2. proc[p].pay \in Attempts /\ proc[p].pay \notin Orders
    BY <2>1, Shapes, PaymentConstants DEF IType, Verifying, PaymentConstants
  <2>3. Captured(proc[p].pay) /\ attempts[proc[p].pay].order = intents[k].order
    BY <2>1 DEF PaidInv, VerifiesOwnOrder
  <2>4. /\ intents'[k].order = intents[k].order /\ intents'[k].ref = proc[p].pay
        /\ intents'[k].status = "succeeded"
    BY <1>1, <2>1 DEF IntentRow
  <2> QED
    BY <1>1, <2>2, <2>3, <2>4 DEF Used
<1>4. CASE Updated(k)
  <2>1. PICK p \in Handlers :
          /\ proc[p].pc = "update" /\ k \in Matching(proc[p].order, NewStatus(proc[p].hook))
          /\ intents'[k] = [intents[k] EXCEPT !.status = NewStatus(proc[p].hook),
                                              !.ref = proc[p].hook.id]
    BY <1>4 DEF Updated
  <2> DEFINE h == proc[p].hook
  <2>2. proc[p] \in Handling /\ h \in Webhooks /\ proc[p].order \in Orders
    BY <2>1, Shapes DEF IType, Handling
  <2>3. ~RefundHook(h) /\ Happened(h) /\ proc[p].order = OrderOf(h)
    BY <2>1 DEF IType, HookOfHandler
  <2>4. h.id \in Attempts /\ h.kind \in {"captured", "failed"} /\ h.id \notin Orders
    BY <2>2, <2>3, PaymentConstants DEF Webhooks, RefundHook, PaymentConstants
  <2>5. attempts[h.id].state = h.kind /\ attempts[h.id].order = proc[p].order
    BY <2>3 DEF Happened, OrderOf
  <2>6. intents[k].order = proc[p].order
    BY <2>1, <2>2 DEF Matching, PaidInv
  <2>7. /\ intents'[k].order = intents[k].order /\ intents'[k].ref = h.id
        /\ intents'[k].status = NewStatus(h)
    BY <1>1, <2>1 DEF IntentRow
  <2>8. NewStatus(h) \in Paid => Captured(h.id)
    BY <2>4, <2>5 DEF NewStatus, Captured, Paid, Refundable
  <2>9. NewStatus(h) # "free"
    BY DEF NewStatus
  <2> QED
    BY <1>1, <2>4, <2>5, <2>6, <2>7, <2>8, <2>9 DEF Used
<1>5. CASE Applied(k)
  <2>1. PICK p \in Handlers :
          /\ proc[p] \in Refunding /\ MayApply(intents[k], proc[p].amt)
          /\ intents'[k] = Refunded(intents[k], proc[p].amt)
    BY <1>5 DEF Applied
  <2>2. proc[p].amt \in Nat \ {0} /\ intents[k].status \in Paid
    BY <2>1 DEF Refunding, MayApply, Paid
  <2>3. /\ intents'[k].order = intents[k].order /\ intents'[k].ref = intents[k].ref
        /\ intents'[k].status \in {"refunded", "partially_refunded"}
    BY <1>1, <2>1, <2>2, RefundedRow
  <2> QED
    BY <1>1, <2>2, <2>3 DEF Used
<1>6. CASE Patched(k)
  <2>1. PICK c \in Patches : /\ intents[k].status = c[1]
                             /\ intents'[k] = [intents[k] EXCEPT !.status = c[2]]
    BY <1>6 DEF Patched
  <2>2. c[2] \in Statuses /\ (c[2] \in Paid => c[1] \in Paid)
    BY PaymentConstants DEF PaymentConstants, PatchesPayNothing
  <2>3. /\ intents'[k].order = intents[k].order /\ intents'[k].ref = intents[k].ref
        /\ intents'[k].status = c[2]
    BY <1>1, <2>1 DEF IntentRow
  <2>4. c[2] # "free"
    BY <2>2 DEF Statuses
  <2> QED
    BY <1>1, <2>1, <2>2, <2>3, <2>4 DEF Used
<1> QED
  BY <1>1, <1>2, <1>3, <1>4, <1>5, <1>6, RowSteps

\* A row that was not there before waits for its payment.
LEMMA NewRow ==
    ASSUME IType, [Next]_vars, NEW k \in Keys, k \notin Used, k \in Used'
    PROVE  /\ intents'[k].status = "pending"
           /\ intents'[k].ref = intents'[k].order
<1>1. intents'[k] # intents[k]
  BY DEF Used
<1>2. Created(k)
  BY <1>1, RowSteps
<1> QED
  BY <1>2 DEF Created

\* Captured payments stay captured, for the same order.
LEMMA CapturesStay ==
    ASSUME IType, [Next]_vars, NEW a \in Attempts, Captured(a)
    PROVE  attempts'[a] = attempts[a]
<1>1. attempts[a] # NoAttempt
  BY DEF Captured, NoAttempt
<1> QED
  BY <1>1, GatewayGrows

LEMMA PaidInvStep ==
    ASSUME PatchesPayNothing, IType, PaidInv, [Next]_vars
    PROVE  PaidInv'
<1>1. SucceededWasPaid'
  <2> SUFFICES ASSUME NEW k \in Used', intents'[k].status \in Paid
               PROVE  \E a \in Attempts : /\ attempts'[a].state = "captured"
                                          /\ attempts'[a].order = intents'[k].order
    BY DEF SucceededWasPaid, Captured, Paid
  <2>1. k \in Keys
    BY DEF Used
  <2>2. k \in Used
    BY <2>1, NewRow DEF Paid, Refundable
  <2>3. PICK a \in Attempts : Captured(a) /\ attempts[a].order = intents[k].order
    BY <2>2, RowHistory DEF PaidInv, SucceededWasPaid, Paid
  <2> QED
    BY <2>2, <2>3, RowHistory, CapturesStay DEF Captured
<1>2. \A k \in Used' : intents'[k].ref \in Orders => intents'[k].ref = intents'[k].order
  <2> SUFFICES ASSUME NEW k \in Used', intents'[k].ref \in Orders
               PROVE  intents'[k].ref = intents'[k].order
    OBVIOUS
  <2>1. k \in Keys
    BY DEF Used
  <2>2. CASE k \in Used
    BY <2>2, RowHistory DEF PaidInv
  <2>3. CASE k \notin Used
    BY <2>1, <2>3, NewRow
  <2> QED
    BY <2>2, <2>3
<1>3. ASSUME NEW p \in Handlers
      PROVE  VerifiesOwnOrder(p)'
  <2> SUFFICES ASSUME proc'[p].pc = "verify"
               PROVE  /\ proc'[p].key \in Used' /\ attempts'[proc'[p].pay].state = "captured"
                      /\ attempts'[proc'[p].pay].order = intents'[proc'[p].key].order
    BY DEF VerifiesOwnOrder, Captured
  <2>1. CASE proc'[p] = proc[p]
    <3>1. /\ proc[p].key \in Used /\ Captured(proc[p].pay)
          /\ attempts[proc[p].pay].order = intents[proc[p].key].order
      BY <2>1 DEF PaidInv, VerifiesOwnOrder
    <3>2. proc[p].pay \in Attempts
      BY <2>1, Shapes DEF IType, Verifying
    <3> QED
      BY <2>1, <3>1, <3>2, RowHistory, CapturesStay DEF Captured
  <2>2. CASE proc'[p] # proc[p]
    <3>1. HandlerStep(p) \/ Request(p) \/ Crash(p) \/ Fail(p)
      BY <2>2, OneHandlerMoves
    <3>2. ~HandlerStep(p) /\ ~Crash(p) /\ ~Fail(p)
      BY FlowOfHandler DEF Flow
    <3>3. PICK k \in Keys, a \in Attempts : VerifyIntent(p, k, a)
      BY <3>1, <3>2 DEF Request, InitiatePayment, Deliver, InitiateRefund, UpdateStatus,
         IType, TypeOK
    <3>4. /\ proc'[p] = [pc |-> "verify", ev |-> {}, key |-> k, pay |-> a]
          /\ k \in Used /\ Captured(a) /\ intents[k].ref = attempts[a].order
          /\ UNCHANGED <<intents, attempts>>
      BY <3>3 DEF VerifyIntent, IType, TypeOK, rows, gateway
    <3>5. attempts[a].order \in Orders
      BY <3>4, GatewayShape DEF Captured
    <3> QED
      BY <3>4, <3>5 DEF PaidInv, Captured, Used
  <2> QED
    BY <2>1, <2>2
<1> QED
  BY <1>1, <1>2, <1>3 DEF PaidInv

\* An intent counts as paid only if the gateway captured a payment of the very
\* order opened for it, unless a PATCH says so: neither a verification with
\* another order's payment nor any interleaving of webhooks makes it succeed.
THEOREM PaidMeansCaptured ==
    ASSUME PatchesPayNothing
    PROVE  Spec => []SucceededWasPaid
<1>1. Init => PaidInv
  BY DEF Init, PaidInv, SucceededWasPaid, VerifiesOwnOrder, Used, FreeRow, Idle
<1>2. IType /\ PaidInv /\ [Next]_vars => PaidInv'
  BY PaidInvStep
<1>3. PaidInv => SucceededWasPaid
  BY DEF PaidInv
<1> QED
  BY <1>1, <1>2, <1>3, ITypeAlways, PTL DEF Spec

---------------------------------------------------------------------------
(* Captured payments reach their intents.                                  *)

Waiting == {"pending", "processing"}

\* A PATCH does not take an intent back to waiting for its payment.
PatchesReopenNothing == \A c \in Patches : c[2] \in Waiting => c[1] \in Waiting

\* Nothing that loses a webhook happens: no crash and no failed statement.
HooksAreKept == Faults \cap {"crash", "statement", "dedup"} = {}

CapturedHook(a) == [kind |-> "captured", id |-> a]

\* A row that waits still carries its order's id as its reference.
WaitingByOrder ==
    \A k \in Used : intents[k].status \in Waiting => intents[k].ref = intents[k].order

\* A webhook is recorded as seen before it is answered, and has happened.
SeenFirst ==
    /\ acked \subseteq seen
    /\ \A e \in seen : Happened(e)
    /\ \A p \in Handlers : /\ proc[p].pc \notin {"idle", "dedup"} => proc[p].ev \subseteq seen
                           /\ proc[p].pc = "dedup" => proc[p].ev = {proc[p].hook}

\* An order is opened for one request; it becomes known to the customer, and is
\* attempted, once its row is there.
Carries(p, o) == proc[p].pc = "create" /\ proc[p].ref = o
OrdersOwned ==
    /\ \A k \in Used : intents[k].order \in Orders => orders[intents[k].order] # 0
    /\ \A a \in Attempts : attempts[a] # NoAttempt =>
         \E k \in Used : intents[k].order = attempts[a].order
    /\ \A p \in Handlers : proc[p].pc = "order" => proc[p].ref = "none"
    /\ \A p \in Handlers, o \in Orders : Carries(p, o) =>
         /\ orders[o] # 0
         /\ \A k \in Used : intents[k].order # o
         /\ \A q \in Handlers : Carries(q, o) => q = p

\* Once the capture is recorded as seen a row waits for it only as long as the
\* delivery that recorded it is about to update the row.
Delivering(a) == \E p \in Handlers : proc[p].pc = "update" /\ proc[p].hook = CapturedHook(a)
SeenIsApplied ==
    \A a \in Attempts, k \in Used :
        (/\ Captured(a) /\ CapturedHook(a) \in seen
         /\ intents[k].order = attempts[a].order /\ intents[k].status \in Waiting)
            => Delivering(a)

AckInv == WaitingByOrder /\ SeenFirst /\ OrdersOwned /\ SeenIsApplied

LEMMA AckInvInit == Init => AckInv
<1> SUFFICES ASSUME Init PROVE AckInv
  OBVIOUS
<1>1. Used = {}
  BY DEF Init, Used, FreeRow
<1>2. \A p \in Handlers : proc[p].pc = "idle"
  BY DEF Init, Idle
<1>3. WaitingByOrder /\ SeenIsApplied
  BY <1>1 DEF WaitingByOrder, SeenIsApplied
<1>4. SeenFirst
  BY <1>2 DEF Init, SeenFirst
<1>5. OrdersOwned
  BY <1>1, <1>2 DEF Init, OrdersOwned, Carries
<1> QED
  BY <1>3, <1>4, <1>5 DEF AckInv

\* A row keeps its order; one that waits has kept its reference, and waited before
\* unless a PATCH made it wait.
LEMMA RowKeepsOrder ==
    ASSUME IType, [Next]_vars, NEW k \in Used
    PROVE  /\ k \in Used'
           /\ intents'[k].order = intents[k].order
           /\ intents'[k].status \in Waiting =>
                /\ intents'[k].ref = intents[k].ref
                /\ \/ intents[k].status \in Waiting
                   \/ \E c \in Patches : c[1] = intents[k].status /\ c[2] \in Waiting
<1>1. k \in Keys /\ intents[k] \in IntentRow /\ intents[k].status # "free"
  BY RowShape DEF Used, IType
<1>2. CASE intents'[k] = intents[k]
  BY <1>1, <1>2 DEF Used
<1>3. CASE Verified(k)
  <2>1. intents'[k].order = intents[k].order /\ intents'[k].status = "succeeded"
    BY <1>1, <1>3 DEF Verified, IntentRow
  <2> QED
    BY <1>1, <2>1 DEF Used, Waiting
<1>4. CASE Updated(k)
  <2>1. PICK p \in Handlers :
          /\ proc[p].pc = "update" /\ k \in Matching(proc[p].order, NewStatus(proc[p].hook))
          /\ intents'[k] = [intents[k] EXCEPT !.status = NewStatus(proc[p].hook),
                                              !.ref = proc[p].hook.id]
    BY <1>4 DEF Updated
  <2>2. intents'[k].order = intents[k].order /\ intents'[k].status = NewStatus(proc[p].hook)
    BY <1>1, <2>1 DEF IntentRow
  <2> QED
    BY <1>1, <2>2 DEF Used, Waiting, NewStatus
<1>5. CASE Applied(k)
  <2>1. PICK p \in Handlers :
          proc[p] \in Refunding /\ intents'[k] = Refunded(intents[k], proc[p].amt)
    BY <1>5 DEF Applied
  <2>2. proc[p].amt \in Nat \ {0}
    BY <2>1 DEF Refunding
  <2>3. /\ intents'[k].order = intents[k].order
        /\ intents'[k].status \in {"refunded", "partially_refunded"}
    BY <1>1, <2>1, <2>2, RefundedRow
  <2> QED
    BY <1>1, <2>3 DEF Used, Waiting
<1>6. CASE Patched(k)
  <2>1. PICK c \in Patches : /\ intents[k].status = c[1]
                             /\ intents'[k] = [intents[k] EXCEPT !.status = c[2]]
    BY <1>6 DEF Patched
  <2>2. c[2] \in Statuses
    BY PaymentConstants DEF PaymentConstants
  <2>3. /\ intents'[k].order = intents[k].order /\ intents'[k].ref = intents[k].ref
        /\ intents'[k].status = c[2]
    BY <1>1, <2>1 DEF IntentRow
  <2>4. c[2] # "free"
    BY <2>2 DEF Statuses
  <2> QED
    BY <1>1, <2>1, <2>2, <2>3, <2>4 DEF Used
<1> QED
  BY <1>1, <1>2, <1>3, <1>4, <1>5, <1>6, RowSteps

LEMMA RowWaits ==
    ASSUME PatchesReopenNothing, IType, [Next]_vars, NEW k \in Used, intents'[k].status \in Waiting
    PROVE  intents[k].status \in Waiting /\ intents'[k].ref = intents[k].ref
BY RowKeepsOrder DEF PatchesReopenNothing

LEMMA WaitingByOrderStep ==
    ASSUME PatchesReopenNothing, IType, WaitingByOrder, [Next]_vars
    PROVE  WaitingByOrder'
<1> SUFFICES ASSUME NEW k \in Used', intents'[k].status \in Waiting
             PROVE  intents'[k].ref = intents'[k].order
  BY DEF WaitingByOrder, Waiting
<1>1. k \in Keys
  BY DEF Used
<1>2. CASE k \in Used
  BY <1>2, RowWaits, RowKeepsOrder DEF WaitingByOrder
<1>3. CASE k \notin Used
  BY <1>1, <1>3, NewRow
<1> QED
  BY <1>2, <1>3

\* With these faults excluded a handler never stops half-way.
LEMMA NoFailure ==
    ASSUME HooksAreKept, NEW p \in Handlers
    PROVE  ~Crash(p) /\ ~Fail(p)
BY DEF HooksAreKept, Crash, Fail

\* Only Dedup writes seen, and the event it writes is that of its handler.
LEMMA SeenGrows ==
    ASSUME IType, [Next]_vars
    PROVE  \/ seen' = seen
           \/ \E p \in Handlers : Dedup(p) /\ proc[p].hook \notin seen /\ seen' = seen \cup {proc[p].hook}
<1>1. ASSUME NEW p \in Handlers, HandlerStep(p)
      PROVE  seen' = seen \/ Dedup(p)
  <2>1. CreateOrder(p) \/ CreateIntent(p) \/ CreateHold(p) \/ Announce(p) => seen' = seen
    BY DEF CreateOrder, CreateIntent, CreateHold, Announce, dedup
  <2>2. Verify(p) \/ Update(p) \/ PublishUpdate(p) \/ Locate(p) => seen' = seen
    BY DEF Verify, Update, PublishUpdate, Locate, dedup
  <2>3. RecordRefund(p) \/ ApplyRefund(p) \/ GatewayRefund(p) => seen' = seen
    BY DEF RecordRefund, ApplyRefund, GatewayRefund, dedup
  <2> QED
    BY <1>1, <2>1, <2>2, <2>3 DEF HandlerStep
<1>2. ASSUME NEW p \in Handlers, Request(p) \/ Crash(p) \/ Fail(p)
      PROVE  seen' = seen
  BY <1>2 DEF Request, InitiatePayment, VerifyIntent, Deliver, InitiateRefund, UpdateStatus,
     Crash, Fail, dedup
<1>3. ASSUME NEW a, NEW o, NEW s, Attempt(a, o, s) \/ DashboardRefund(a, o)
      PROVE  seen' = seen
  BY <1>3 DEF Attempt, DashboardRefund, dedup
<1>4. ASSUME NEW k \in Keys, ReleaseHold(k) \/ Age(k)
      PROVE  seen' = seen
  BY <1>4 DEF ReleaseHold, Age, dedup
<1>5. UNCHANGED vars => seen' = seen
  BY DEF vars, dedup
<1>6. ASSUME NEW p \in Handlers, Dedup(p), seen' # seen
      PROVE  proc[p].hook \notin seen /\ seen' = seen \cup {proc[p].hook}
  BY <1>6 DEF Dedup
<1> QED
  BY <1>1, <1>2, <1>3, <1>4, <1>5, <1>6 DEF Next

\* A handler carries the event it was given until it returns, and answers none
\* other.
LEMMA EventsOfHandlers ==
    ASSUME IType, HooksAreKept, NEW p \in Handlers, HandlerStep(p)
    PROVE  /\ proc[p].pc # "idle"
           /\ \/ Return(p)
              \/ acked' = acked /\ proc'[p].ev \in {{}, proc[p].ev}
           /\ proc'[p].pc # "dedup"
           /\ proc[p].pc = "dedup" => proc[p].hook \in seen'
<1>1. proc[p] \in Locals
  BY DEF IType, TypeOK
<1>2. proc \in [Handlers -> Locals]
  BY DEF IType, TypeOK
<1>3. proc'[p].pc # "dedup"
  BY FlowOfHandler DEF Flow
<1>4. /\ CreateOrder(p) => proc[p].pc = "order" /\ acked' = acked
      /\ CreateIntent(p) => proc[p].pc = "create"
      /\ CreateHold(p) => proc[p].pc = "hold" /\ acked' = acked
      /\ Announce(p) => proc[p].pc = "announce"
      /\ Verify(p) => proc[p].pc = "verify"
      /\ Dedup(p) => proc[p].pc = "dedup"
  BY DEF CreateOrder, CreateIntent, CreateHold, Announce, Verify, Dedup
<1>5. /\ Update(p) => proc[p].pc = "update"
      /\ PublishUpdate(p) => proc[p].pc = "publish" /\ acked' = acked
      /\ Locate(p) => proc[p].pc = "locate"
      /\ RecordRefund(p) => proc[p].pc = "fresh"
      /\ ApplyRefund(p) => proc[p].pc = "apply"
      /\ GatewayRefund(p) => proc[p].pc = "refund" /\ acked' = acked
  BY DEF Update, PublishUpdate, Locate, RecordRefund, ApplyRefund, GatewayRefund
<1>6. proc[p].pc # "idle"
  BY <1>4, <1>5 DEF HandlerStep
<1>7. ASSUME NEW pc
      PROVE  /\ [proc[p] EXCEPT !.pc = pc].ev = proc[p].ev
             /\ \A o : [proc[p] EXCEPT !.pc = pc, !.ref = o].ev = proc[p].ev
  BY <1>1, <1>6 DEF Locals, Idle, Initiating, Announcing, Verifying, Handling, Recording, Refunding
<1>8. ASSUME NEW pc, Goto(p, pc)
      PROVE  proc'[p].ev = proc[p].ev
  BY <1>2, <1>7, <1>8 DEF Goto
<1>9. CASE CreateOrder(p)
  <2>1. proc[p].pc = "order" /\ acked' = acked
    BY <1>9, <1>4
  <2>2. proc'[p].ev = proc[p].ev
    <3>1. CASE Goto(p, "create")
      BY <1>8, <3>1
    <3>2. CASE ~Goto(p, "create")
      <4>1. PICK o \in Orders : proc'[p] = [proc[p] EXCEPT !.pc = "create", !.ref = o]
        BY <1>2, <1>9, <3>2 DEF CreateOrder
      <4>2. [proc[p] EXCEPT !.pc = "create", !.ref = o].ev = proc[p].ev
        BY <1>7
      <4> QED
        BY <4>1, <4>2, Zenon
    <3> QED
      BY <3>1, <3>2
  <2> QED
    BY <1>3, <2>1, <2>2
<1>10. CASE CreateIntent(p)
  <2>1. \/ Return(p)
        \/ /\ acked' = acked
           /\ \/ proc'[p] = [proc[p] EXCEPT !.pc = "hold"]
              \/ proc'[p] = [pc |-> "announce", ev |-> {}, type |-> "initiated", key |-> proc[p].key]
    BY <1>2, <1>10 DEF CreateIntent
  <2>2. proc'[p] = [proc[p] EXCEPT !.pc = "hold"] => proc'[p].ev = proc[p].ev
    BY <1>7, Zenon
  <2>3. proc[p].pc = "create"
    BY <1>10, <1>4
  <2> QED
    BY <1>3, <2>1, <2>2, <2>3
<1>11. CASE CreateHold(p) \/ PublishUpdate(p) \/ GatewayRefund(p)
  <2>1. proc'[p].ev \in {{}, proc[p].ev}
    BY <1>2, <1>11 DEF CreateHold, PublishUpdate, GatewayRefund
  <2> QED
    BY <1>3, <1>11, <1>4, <1>5, <2>1
<1>12. CASE Announce(p) \/ Verify(p)
  <2>1. Return(p)
    BY <1>12 DEF Announce, Verify
  <2> QED
    BY <1>3, <1>12, <1>4, <2>1
<1>13. CASE Dedup(p)
  <2>1. /\ Return(p) \/ \E pc : Goto(p, pc) /\ acked' = acked
        /\ proc[p].hook \in seen'
    BY <1>13 DEF Dedup, HooksAreKept
  <2> QED
    BY <1>3, <1>6, <1>8, <2>1
<1>14. CASE Update(p) \/ RecordRefund(p)
  <2>1. Return(p) \/ \E pc : Goto(p, pc) /\ acked' = acked
    BY <1>14 DEF Update, RecordRefund
  <2> QED
    BY <1>3, <1>8, <1>14, <1>5, <2>1
<1>15. CASE Locate(p)
  <2>1. Return(p) \/ (acked' = acked /\ proc'[p].ev = proc[p].ev)
    BY <1>2, <1>15 DEF Locate
  <2> QED
    BY <1>3, <1>15, <1>5, <2>1
<1>16. CASE ApplyRefund(p)
  <2>1. \/ Return(p)
        \/ /\ acked' = acked
           /\ \/ proc'[p] = [proc[p] EXCEPT !.pc = "refund"]
              \/ proc'[p] = [pc |-> "announce", ev |-> proc[p].ev, type |-> "refunded", key |-> proc[p].key]
    BY <1>2, <1>16 DEF ApplyRefund
  <2>2. proc'[p] = [proc[p] EXCEPT !.pc = "refund"] => proc'[p].ev = proc[p].ev
    BY <1>7, Zenon
  <2>3. proc[p].pc = "apply"
    BY <1>16, <1>5
  <2> QED
    BY <1>3, <2>1, <2>2, <2>3
<1> QED
  BY <1>6, <1>9, <1>10, <1>11, <1>12, <1>13, <1>14, <1>15, <1>16 DEF HandlerStep

LEMMA AnswersAreSeen ==
    ASSUME HooksAreKept, IType, SeenFirst, [Next]_vars
    PROVE  acked' \subseteq seen'
<1>1. seen \subseteq seen' /\ acked \subseteq seen
  BY SeenGrows DEF SeenFirst
<1>2. ASSUME NEW p \in Handlers, HandlerStep(p)
      PROVE  acked' \subseteq seen'
  <2>1. proc[p].ev \subseteq seen'
    BY <1>1, <1>2, EventsOfHandlers DEF SeenFirst
  <2> QED
    BY <1>1, <1>2, <2>1, EventsOfHandlers DEF Return
<1>3. ASSUME NEW p \in Handlers, Request(p)
      PROVE  acked' = acked
  BY <1>3 DEF Request, InitiatePayment, VerifyIntent, Deliver, InitiateRefund, UpdateStatus
<1>4. ASSUME NEW a, NEW o, NEW s, Attempt(a, o, s) \/ DashboardRefund(a, o)
      PROVE  acked' = acked
  BY <1>4 DEF Attempt, DashboardRefund
<1>5. ASSUME NEW k \in Keys, ReleaseHold(k) \/ Age(k)
      PROVE  acked' = acked
  BY <1>5 DEF ReleaseHold, Age
<1>6. UNCHANGED vars => acked' = acked
  BY DEF vars
<1> QED
  BY <1>1, <1>2, <1>3, <1>4, <1>5, <1>6, NoFailure DEF Next

LEMMA SeenFirstStep ==
    ASSUME HooksAreKept, IType, SeenFirst, [Next]_vars
    PROVE  SeenFirst'
<1>1. seen \subseteq seen'
  BY SeenGrows
<1>2. ASSUME NEW e \in seen'
      PROVE  Happened(e)'
  <2>1. e \in Webhooks /\ Happened(e)
    <3>1. CASE e \in seen
      BY <3>1 DEF SeenFirst, IType, TypeOK
    <3>2. CASE e \notin seen
      <4>1. PICK p \in Handlers : Dedup(p) /\ e = proc[p].hook
        BY <3>2, SeenGrows
      <4> QED
        BY <4>1, Shapes DEF Dedup, IType, HookOfHandler, Handling
    <3> QED
      BY <3>1, <3>2
  <2> QED
    BY <2>1, HooksStayTrue
<1>3. ASSUME NEW p \in Handlers
      PROVE  /\ proc'[p].pc \notin {"idle", "dedup"} => proc'[p].ev \subseteq seen'
             /\ proc'[p].pc = "dedup" => proc'[p].ev = {proc'[p].hook}
  <2>0. proc \in [Handlers -> Locals]
    BY DEF IType, TypeOK
  <2>1. CASE proc'[p] = proc[p]
    BY <1>1, <2>1 DEF SeenFirst
  <2>2. CASE HandlerStep(p)
    <3>1. proc[p].ev \subseteq seen'
      BY <1>1, <2>2, EventsOfHandlers DEF SeenFirst
    <3>2. Return(p) => proc'[p].pc = "idle"
      BY <2>0 DEF Return, Idle
    <3> QED
      BY <2>2, <3>1, <3>2, EventsOfHandlers
  <2>3. CASE Request(p)
    <3>1. CASE \E e \in Webhooks : Deliver(p, e)
      BY <2>0, <3>1 DEF Deliver
    <3>2. CASE ~\E e \in Webhooks : Deliver(p, e)
      BY <2>0, <2>3, <3>2 DEF Request, InitiatePayment, VerifyIntent, InitiateRefund, UpdateStatus
    <3> QED
      BY <3>1, <3>2
  <2> QED
    BY <2>1, <2>2, <2>3, OneHandlerMoves, NoFailure
<1> QED
  BY <1>2, <1>3, AnswersAreSeen DEF SeenFirst

\* A row that was not there before is that of the order its request opened.
LEMMA NewRowsOrder ==
    ASSUME IType, [Next]_vars, NEW k \in Keys, k \notin Used, k \in Used'
    PROVE  \E p \in Handlers : /\ proc[p].pc = "create" /\ proc'[p].pc # "create"
                               /\ intents'[k].order = proc[p].ref /\ proc[p].key = k
<1>0. intents \in [Keys -> IntentRow \cup {FreeRow}]
  BY DEF IType, TypeOK
<1>1. intents[k].status = "free" /\ intents'[k].status # "free"
  BY DEF Used
<1>2. intents'[k] # intents[k]
  BY <1>1
<1>3. ASSUME NEW p \in Handlers, HandlerStep(p)
      PROVE  CreateIntent(p)
  <2>1. ~CreateOrder(p) /\ ~CreateHold(p) /\ ~Announce(p) /\ ~Dedup(p) /\ ~PublishUpdate(p)
    BY <1>2 DEF CreateOrder, CreateHold, Announce, Dedup, PublishUpdate, rows
  <2>2. ~Locate(p) /\ ~RecordRefund(p) /\ ~GatewayRefund(p)
    BY <1>2 DEF Locate, RecordRefund, GatewayRefund, rows
  <2>3. ~Verify(p)
    BY <1>0, <1>1, <1>2 DEF Verify
  <2>4. ~Update(p)
    BY <1>1, <1>2 DEF Update, Matching, Used
  <2>5. ~ApplyRefund(p)
    <3> SUFFICES ASSUME ApplyRefund(p) PROVE FALSE
      OBVIOUS
    <3>1. /\ MayApply(intents[proc[p].key], proc[p].amt)
          /\ intents' = [intents EXCEPT ![proc[p].key] = Refunded(intents[proc[p].key], proc[p].amt)]
      BY <1>2, ApplyRefundRows
    <3>2. proc[p].key = k
      BY <1>0, <1>2, <3>1
    <3> QED
      BY <1>1, <3>1, <3>2 DEF MayApply, Refundable
  <2> QED
    BY <1>3, <2>1, <2>2, <2>3, <2>4, <2>5 DEF HandlerStep
<1>4. ASSUME NEW p \in Handlers, Request(p)
      PROVE  FALSE
  <2>1. ASSUME NEW l \in Keys, NEW c \in Patches, UpdateStatus(p, l, c[1], c[2])
        PROVE  FALSE
    BY <1>0, <1>1, <1>2, <2>1 DEF UpdateStatus, Used
  <2> QED
    BY <1>2, <1>4, <2>1 DEF Request, InitiatePayment, VerifyIntent, Deliver, InitiateRefund, rows
<1>5. ASSUME NEW p \in Handlers, Crash(p) \/ Fail(p)
      PROVE  FALSE
  BY <1>2, <1>5 DEF Crash, Fail, rows
<1>6. ASSUME NEW a, NEW o, NEW s, Attempt(a, o, s) \/ DashboardRefund(a, o)
      PROVE  FALSE
  BY <1>2, <1>6 DEF Attempt, DashboardRefund, rows
<1>7. ASSUME NEW l \in Keys, ReleaseHold(l) \/ Age(l)
      PROVE  FALSE
  BY <1>2, <1>7 DEF ReleaseHold, Age
<1>8. UNCHANGED vars => FALSE
  BY <1>2 DEF vars, rows
<1>9. PICK p \in Handlers : CreateIntent(p)
  BY <1>3, <1>4, <1>5, <1>6, <1>7, <1>8 DEF Next
<1>10. proc[p].pc = "create" /\ intents'[k].order = proc[p].ref /\ proc[p].key = k
  BY <1>0, <1>2, <1>9 DEF CreateIntent
<1>11. proc'[p].pc # "create"
  BY <1>9, <1>10, FlowOfHandler DEF HandlerStep, Flow
<1> QED
  BY <1>10, <1>11

\* An attempt is one to pay the order of a row.
LEMMA AttemptsPayRows ==
    ASSUME IType, [Next]_vars, NEW a \in Attempts, attempts[a] = NoAttempt, attempts'[a] # NoAttempt
    PROVE  \E k \in Used : intents[k].order = attempts'[a].order
<1>1. ASSUME NEW p \in Handlers, HandlerStep(p)
      PROVE  FALSE
  <2>1. ~CreateOrder(p) /\ ~CreateIntent(p) /\ ~CreateHold(p) /\ ~Announce(p) /\ ~Verify(p) /\ ~Dedup(p)
    BY DEF CreateOrder, CreateIntent, CreateHold, Announce, Verify, Dedup, gateway
  <2>2. ~Update(p) /\ ~PublishUpdate(p) /\ ~Locate(p) /\ ~RecordRefund(p) /\ ~ApplyRefund(p) /\ ~GatewayRefund(p)
    BY DEF Update, PublishUpdate, Locate, RecordRefund, ApplyRefund, GatewayRefund, gateway
  <2> QED
    BY <1>1, <2>1, <2>2 DEF HandlerStep
<1>2. ASSUME NEW p \in Handlers, Request(p) \/ Crash(p) \/ Fail(p)
      PROVE  FALSE
  BY <1>2 DEF Request, InitiatePayment, VerifyIntent, Deliver, InitiateRefund, UpdateStatus,
     Crash, Fail, gateway
<1>3. ASSUME NEW k \in Keys, ReleaseHold(k) \/ Age(k)
      PROVE  FALSE
  BY <1>3 DEF ReleaseHold, Age, gateway
<1>4. ASSUME NEW b, NEW amt, DashboardRefund(b, amt)
      PROVE  FALSE
  BY <1>4 DEF DashboardRefund
<1>5. UNCHANGED vars => FALSE
  BY DEF vars, gateway
<1>6. PICK b \in Attempts, o \in Orders, s \in {"captured", "failed"} : Attempt(b, o, s)
  BY <1>1, <1>2, <1>3, <1>4, <1>5 DEF Next
<1>7. attempts'[a] = [state |-> s, order |-> o]
  BY <1>6 DEF Attempt, IType, TypeOK
<1> QED
  BY <1>6, <1>7 DEF Attempt

\* An order once opened stays open.
LEMMA OrdersGrow ==
    ASSUME IType, [Next]_vars, NEW o \in Orders, orders[o] # 0
    PROVE  orders'[o] # 0
<1>1. ASSUME NEW p \in Handlers, HandlerStep(p)
      PROVE  orders'[o] = orders[o]
  <2>1. CASE CreateOrder(p)
    BY <2>1 DEF CreateOrder, IType, TypeOK
  <2>2. CreateIntent(p) \/ CreateHold(p) \/ Announce(p) \/ Verify(p) \/ Dedup(p) => orders' = orders
    BY DEF CreateIntent, CreateHold, Announce, Verify, Dedup, gateway
  <2>3. \/ Update(p) \/ PublishUpdate(p) \/ Locate(p) \/ RecordRefund(p) \/ ApplyRefund(p)
        \/ GatewayRefund(p)
        => orders' = orders
    BY DEF Update, PublishUpdate, Locate, RecordRefund, ApplyRefund, GatewayRefund, gateway
  <2> QED
    BY <1>1, <2>1, <2>2, <2>3 DEF HandlerStep
<1>2. ASSUME NEW p \in Handlers, Request(p) \/ Crash(p) \/ Fail(p)
      PROVE  orders' = orders
  BY <1>2 DEF Request, InitiatePayment, VerifyIntent, Deliver, InitiateRefund, UpdateStatus,
     Crash, Fail, gateway
<1>3. ASSUME NEW k \in Keys, ReleaseHold(k) \/ Age(k)
      PROVE  orders' = orders
  BY <1>3 DEF ReleaseHold, Age, gateway
<1>4. ASSUME NEW a, NEW amt, NEW s, DashboardRefund(a, amt) \/ Attempt(a, amt, s)
      PROVE  orders' = orders
  BY <1>4 DEF DashboardRefund, Attempt
<1>5. UNCHANGED vars => orders' = orders
  BY DEF vars, gateway
<1> QED
  BY <1>1, <1>2, <1>3, <1>4, <1>5 DEF Next

\* A request carries an order because it has just opened it.
LEMMA CarryingStarts ==
    ASSUME IType, OrdersOwned, [Next]_vars, NEW p \in Handlers, NEW o \in Orders, Carries(p, o)', ~Carries(p, o)
    PROVE  /\ orders[o] = 0 /\ orders'[o] # 0
           /\ \A q \in Handlers \ {p} : proc'[q] = proc[q]
<1>1. proc \in [Handlers -> Locals] /\ proc'[p].pc = "create" /\ proc'[p].ref = o /\ o # "none"
  BY PaymentConstants DEF IType, TypeOK, Carries, PaymentConstants
<1>2. HandlerStep(p) \/ Request(p) \/ Crash(p) \/ Fail(p)
  BY OneHandlerMoves DEF Carries
<1>3. ~Request(p)
  <2>1. ASSUME NEW k \in Keys, NEW a \in Amounts, NEW method \in Methods,
               InitiatePayment(p, k, a, method)
        PROVE  FALSE
    BY <1>1, <2>1 DEF InitiatePayment
  <2> QED
    BY <1>1, <2>1 DEF Request, VerifyIntent, Deliver, InitiateRefund, UpdateStatus
<1>4. ~Crash(p) /\ ~Fail(p)
  BY <1>1 DEF Crash, Fail, Return, Idle
<1>5. proc[p].pc = "order" /\ HandlerStep(p)
  BY <1>1, <1>2, <1>3, <1>4, FlowOfHandler DEF Flow
<1>6. CreateOrder(p)
  <2>1. ~CreateIntent(p) /\ ~CreateHold(p) /\ ~Announce(p) /\ ~Verify(p) /\ ~Dedup(p)
    BY <1>5 DEF CreateIntent, CreateHold, Announce, Verify, Dedup
  <2>2. ~Update(p) /\ ~PublishUpdate(p) /\ ~Locate(p) /\ ~RecordRefund(p) /\ ~ApplyRefund(p) /\ ~GatewayRefund(p)
    BY <1>5 DEF Update, PublishUpdate, Locate, RecordRefund, ApplyRefund, GatewayRefund
  <2> QED
    BY <1>5, <2>1, <2>2 DEF HandlerStep
<1>7. proc[p] \in Initiating /\ proc[p].amt \in Nat \ {0}
  BY <1>5, Shapes, PaymentConstants DEF IType, Initiating, PaymentConstants
<1>8. PICK x \in Orders \cup {"none"} :
        /\ proc' = [proc EXCEPT ![p] = [proc[p] EXCEPT !.pc = "create", !.ref = x]]
        /\ x \in Orders => orders[x] = 0 /\ orders' = [orders EXCEPT ![x] = proc[p].amt]
  <2>1. CASE Goto(p, "create")
    <3>1. proc'[p] = [proc[p] EXCEPT !.pc = "create"]
      BY <1>5, <2>1, GotoGoes DEF IType
    <3>2. proc'[p].ref = proc[p].ref
      BY <1>7, <3>1 DEF Initiating
    <3> QED
      BY <1>1, <1>5, <3>1, <3>2 DEF OrdersOwned
  <2>2. CASE ~Goto(p, "create")
    BY <1>6, <2>2 DEF CreateOrder
  <2> QED
    BY <2>1, <2>2
<1>9. x = o
  BY <1>1, <1>7, <1>8 DEF Initiating
<1>10. orders[o] = 0 /\ orders' = [orders EXCEPT ![o] = proc[p].amt]
  BY <1>8, <1>9
<1>11. orders'[o] # 0
  BY <1>7, <1>10 DEF IType, TypeOK
<1> QED
  BY <1>1, <1>8, <1>10, <1>11

LEMMA OrderingStep ==
    ASSUME IType, OrdersOwned, [Next]_vars, NEW p \in Handlers, proc'[p].pc = "order"
    PROVE  proc'[p].ref = "none"
<1>1. CASE proc'[p] = proc[p]
  BY <1>1 DEF OrdersOwned
<1>2. CASE proc'[p] # proc[p]
  <2>1. HandlerStep(p) \/ Request(p) \/ Crash(p) \/ Fail(p)
    BY <1>2, OneHandlerMoves
  <2>2. ~HandlerStep(p) /\ ~Crash(p) /\ ~Fail(p)
    BY FlowOfHandler DEF Flow
  <2>3. PICK k \in Keys, a \in Amounts, method \in Methods : InitiatePayment(p, k, a, method)
    BY <2>1, <2>2 DEF Request, VerifyIntent, Deliver, InitiateRefund, UpdateStatus, IType, TypeOK
  <2> QED
    BY <2>3 DEF InitiatePayment, IType, TypeOK
<1> QED
  BY <1>1, <1>2

LEMMA OrdersOwnedStep ==
    ASSUME IType, OrdersOwned, [Next]_vars
    PROVE  OrdersOwned'
<1>1. ASSUME NEW k \in Keys, k \notin Used, k \in Used', NEW o \in Orders, intents'[k].order = o
      PROVE  \E p \in Handlers : Carries(p, o) /\ ~Carries(p, o)' /\ orders[o] # 0
  <2>1. PICK p \in Handlers : /\ proc[p].pc = "create" /\ proc'[p].pc # "create"
                             /\ intents'[k].order = proc[p].ref
    BY <1>1, NewRowsOrder
  <2> QED
    BY <1>1, <2>1 DEF OrdersOwned, Carries
<1>2. ASSUME NEW k \in Used', intents'[k].order \in Orders
      PROVE  orders'[intents'[k].order] # 0
  <2>1. k \in Keys
    BY DEF Used
  <2>2. orders[intents'[k].order] # 0
    <3>1. CASE k \in Used
      BY <1>2, <3>1, RowKeepsOrder DEF OrdersOwned
    <3>2. CASE k \notin Used
      BY <1>1, <1>2, <2>1, <3>2
    <3> QED
      BY <3>1, <3>2
  <2> QED
    BY <1>2, <2>2, OrdersGrow
<1>3. ASSUME NEW a \in Attempts, attempts'[a] # NoAttempt
      PROVE  \E k \in Used' : intents'[k].order = attempts'[a].order
  <2>1. PICK k \in Used : intents[k].order = attempts'[a].order
    <3>1. CASE attempts[a] = NoAttempt
      BY <1>3, <3>1, AttemptsPayRows
    <3>2. CASE attempts[a] # NoAttempt
      BY <3>2, GatewayGrows DEF OrdersOwned
    <3> QED
      BY <3>1, <3>2
  <2> QED
    BY <2>1, RowKeepsOrder
<1>4. ASSUME NEW p \in Handlers, NEW o \in Orders, Carries(p, o)'
      PROVE  /\ orders'[o] # 0
             /\ \A k \in Used' : intents'[k].order # o
             /\ \A q \in Handlers : Carries(q, o)' => q = p
  <2>1. CASE Carries(p, o)
    <3>1. /\ orders[o] # 0 /\ \A k \in Used : intents[k].order # o
          /\ \A q \in Handlers : Carries(q, o) => q = p
      BY <2>1 DEF OrdersOwned
    <3>2. orders'[o] # 0
      BY <3>1, OrdersGrow
    <3>3. ASSUME NEW k \in Used', intents'[k].order = o
          PROVE  FALSE
      <4>1. k \in Keys
        BY DEF Used
      <4>2. k \notin Used
        BY <3>1, <3>3, RowKeepsOrder
      <4> QED
        BY <1>1, <1>4, <3>1, <3>3, <4>1, <4>2
    <3>4. ASSUME NEW q \in Handlers, Carries(q, o)'
          PROVE  q = p
      BY <3>1, <3>4, CarryingStarts
    <3> QED
      BY <3>2, <3>3, <3>4
  <2>2. CASE ~Carries(p, o)
    <3>1. /\ orders[o] = 0 /\ orders'[o] # 0
          /\ \A q \in Handlers \ {p} : proc'[q] = proc[q]
      BY <1>4, <2>2, CarryingStarts
    <3>2. \A q \in Handlers : ~Carries(q, o)
      BY <3>1 DEF OrdersOwned
    <3>3. ASSUME NEW k \in Used', intents'[k].order = o
          PROVE  FALSE
      <4>1. k \in Keys
        BY DEF Used
      <4>2. k \notin Used
        BY <3>1, <3>3, RowKeepsOrder DEF OrdersOwned
      <4> QED
        BY <1>1, <3>2, <3>3, <4>1, <4>2
    <3>4. ASSUME NEW q \in Handlers, Carries(q, o)'
          PROVE  q = p
      BY <3>1, <3>2, <3>4 DEF Carries
    <3> QED
      BY <3>1, <3>3, <3>4
  <2> QED
    BY <2>1, <2>2
<1> QED
  BY <1>2, <1>3, <1>4, OrderingStep DEF OrdersOwned

\* Recording a capture starts its delivery.
LEMMA DeliveryStarts ==
    ASSUME IType, [Next]_vars, NEW a \in Attempts, CapturedHook(a) \notin seen,
           CapturedHook(a) \in seen'
    PROVE  Delivering(a)'
<1>1. PICK p \in Handlers : Dedup(p) /\ proc[p].hook = CapturedHook(a) /\ seen' # seen
  BY SeenGrows
<1>2. ~RefundHook(CapturedHook(a))
  BY DEF RefundHook, CapturedHook
<1>3. proc[p].pc = "dedup" /\ Goto(p, "update")
  BY <1>1, <1>2 DEF Dedup
<1>4. proc[p] \in Handling /\ proc'[p] = [proc[p] EXCEPT !.pc = "update"]
  BY <1>3, Shapes, GotoGoes DEF IType
<1>5. proc'[p].pc = "update" /\ proc'[p].hook = CapturedHook(a)
  BY <1>1, <1>4 DEF Handling
<1> QED
  BY <1>5 DEF Delivering

\* A delivery ends by updating every row that waits for its order.
LEMMA DeliveryUpdates ==
    ASSUME HooksAreKept, IType, WaitingByOrder, [Next]_vars, NEW a \in Attempts,
           Delivering(a), ~Delivering(a)',
           NEW k \in Used, intents[k].order = attempts[a].order, intents[k].status \in Waiting
    PROVE  intents'[k].status = "succeeded"
<1>1. PICK p \in Handlers : proc[p].pc = "update" /\ proc[p].hook = CapturedHook(a)
  BY DEF Delivering
<1>2. proc'[p] # proc[p]
  BY <1>1 DEF Delivering
<1>3. HandlerStep(p)
  <2>1. ~Request(p)
    BY <1>1 DEF Request, InitiatePayment, VerifyIntent, Deliver, InitiateRefund, UpdateStatus
  <2> QED
    BY <1>2, <2>1, OneHandlerMoves, NoFailure
<1>4. Update(p)
  <2>1. ~CreateOrder(p) /\ ~CreateIntent(p) /\ ~CreateHold(p) /\ ~Announce(p) /\ ~Verify(p) /\ ~Dedup(p)
    BY <1>1 DEF CreateOrder, CreateIntent, CreateHold, Announce, Verify, Dedup
  <2>2. ~PublishUpdate(p) /\ ~Locate(p) /\ ~RecordRefund(p) /\ ~ApplyRefund(p) /\ ~GatewayRefund(p)
    BY <1>1 DEF PublishUpdate, Locate, RecordRefund, ApplyRefund, GatewayRefund
  <2> QED
    BY <1>3, <2>1, <2>2 DEF HandlerStep
<1>5. NewStatus(proc[p].hook) = "succeeded" /\ ~RefundHook(proc[p].hook) /\ proc[p].hook.id = a
  BY <1>1 DEF NewStatus, RefundHook, CapturedHook
<1>6. proc[p].order = attempts[a].order
  BY <1>1, <1>5 DEF IType, HookOfHandler, OrderOf
<1>7. k \in Keys /\ intents[k] \in IntentRow
  BY RowShape DEF Used, IType
<1>8. k \in Matching(proc[p].order, NewStatus(proc[p].hook))
  BY <1>5, <1>6 DEF Matching, WaitingByOrder, Waiting, Transitions
<1>9. intents'[k] = [intents[k] EXCEPT !.status = NewStatus(proc[p].hook), !.ref = proc[p].hook.id]
  BY <1>4, <1>7, <1>8 DEF Update
<1> QED
  BY <1>5, <1>7, <1>9 DEF IntentRow

LEMMA SeenIsAppliedStep ==
    ASSUME HooksAreKept, PatchesReopenNothing, IType, AckInv, [Next]_vars
    PROVE  SeenIsApplied'
<1> SUFFICES ASSUME NEW a \in Attempts, NEW k \in Used',
                    attempts'[a].state = "captured", CapturedHook(a) \in seen',
                    intents'[k].order = attempts'[a].order, intents'[k].status \in Waiting
             PROVE  Delivering(a)'
  BY DEF SeenIsApplied, Captured, Waiting, CapturedHook, Delivering
<1>1. CASE CapturedHook(a) \notin seen
  BY <1>1, DeliveryStarts
<1>2. CASE CapturedHook(a) \in seen
  <2>1. Captured(a)
    <3>1. Happened(CapturedHook(a))
      BY <1>2 DEF AckInv, SeenFirst
    <3> QED
      BY <3>1 DEF Happened, RefundHook, CapturedHook, Captured
  <2>2. attempts'[a] = attempts[a] /\ attempts[a] # NoAttempt /\ attempts[a].order \in Orders
    BY <2>1, CapturesStay, GatewayShape DEF Captured, NoAttempt
  <2>3. k \in Keys
    BY DEF Used
  <2>4. CASE k \notin Used
    <3>1. PICK p \in Handlers : proc[p].pc = "create" /\ intents'[k].order = proc[p].ref
      BY <2>3, <2>4, NewRowsOrder
    <3>2. \A l \in Used : intents[l].order # attempts[a].order
      BY <2>2, <3>1 DEF AckInv, OrdersOwned, Carries
    <3> QED
      BY <2>2, <3>2 DEF AckInv, OrdersOwned
  <2>5. CASE k \in Used
    <3>1. intents[k].order = attempts[a].order /\ intents[k].status \in Waiting
      BY <2>2, <2>5, RowWaits, RowKeepsOrder
    <3>2. Delivering(a)
      BY <1>2, <2>1, <2>5, <3>1 DEF AckInv, SeenIsApplied
    <3> QED
      BY <2>5, <3>1, <3>2, DeliveryUpdates DEF AckInv, Waiting
  <2> QED
    BY <2>4, <2>5
<1> QED
  BY <1>1, <1>2

\* A capture the gateway has been answered for is not still waited for once no
\* handler runs, however its deliveries, verifications, refunds and retried
\* requests overlap, and whatever becomes of the gateway's calls and of the
\* events: as long as no crash or failed statement comes after the dedup record,
\* and no PATCH takes an intent back to waiting.
THEOREM CapturesApplied ==
    ASSUME HooksAreKept, PatchesReopenNothing
    PROVE  Spec => []AckedCaptureApplied
<1>1. IType /\ AckInv /\ [Next]_vars => AckInv'
  BY WaitingByOrderStep, SeenFirstStep, OrdersOwnedStep, SeenIsAppliedStep DEF AckInv
<1>2. AckInv => AckedCaptureApplied
  <2> SUFFICES ASSUME AckInv, Quiet, NEW a \in Attempts, Captured(a), CapturedHook(a) \in acked,
                      NEW k \in Used, intents[k].order = attempts[a].order,
                      intents[k].status \in Waiting
               PROVE  FALSE
    BY DEF AckedCaptureApplied, CapturedHook, Waiting
  <2>1. Delivering(a)
    BY DEF AckInv, SeenFirst, SeenIsApplied
  <2> QED
    BY <2>1 DEF Delivering, Quiet, Idle
<1> QED
  BY <1>1, <1>2, AckInvInit, ITypeAlways, PTL DEF Spec

---------------------------------------------------------------------------
(* One payment pays one intent.                                            *)

OneRowPerOrder ==
    \A k, l \in Used : intents[k].order = intents[l].order /\ intents[k].order \in Orders => k = l

LEMMA OneRowPerOrderStep ==
    ASSUME IType, OrdersOwned, OneRowPerOrder, [Next]_vars
    PROVE  OneRowPerOrder'
<1> SUFFICES ASSUME NEW k \in Used', NEW l \in Used', NEW o \in Orders,
                    intents'[k].order = o, intents'[l].order = o
             PROVE  k = l
  BY DEF OneRowPerOrder
<1>1. k \in Keys /\ l \in Keys
  BY DEF Used
<1>2. ASSUME NEW x \in Keys, x \notin Used, x \in Used', intents'[x].order = o
      PROVE  \E p \in Handlers : Carries(p, o) /\ proc[p].key = x
  BY <1>2, NewRowsOrder DEF Carries
<1>3. ASSUME NEW p \in Handlers, Carries(p, o), NEW x \in Used
      PROVE  intents'[x].order # o
  BY <1>3, RowKeepsOrder DEF OrdersOwned
<1>4. CASE k \in Used /\ l \in Used
  BY <1>4, RowKeepsOrder DEF OneRowPerOrder
<1>5. CASE k \notin Used /\ l \notin Used
  <2>1. PICK p \in Handlers : Carries(p, o) /\ proc[p].key = k
    BY <1>1, <1>2, <1>5
  <2>2. PICK q \in Handlers : Carries(q, o) /\ proc[q].key = l
    BY <1>1, <1>2, <1>5
  <2> QED
    BY <2>1, <2>2 DEF OrdersOwned
<1>6. CASE k \notin Used /\ l \in Used
  BY <1>1, <1>2, <1>3, <1>6
<1>7. CASE k \in Used /\ l \notin Used
  BY <1>1, <1>2, <1>3, <1>7
<1> QED
  BY <1>4, <1>5, <1>6, <1>7

\* Intents that count as paid are paid by captures of their own: however often a
\* request is repeated, an order opened at the gateway ends up in one row, and the
\* capture of its payment makes one intent succeed.
CapturesPayOnce ==
    \A k, l \in Used : k # l /\ intents[k].status \in Paid /\ intents[l].status \in Paid =>
        \E a, b \in Attempts : /\ a # b /\ Captured(a) /\ Captured(b)
                              /\ attempts[a].order = intents[k].order
                              /\ attempts[b].order = intents[l].order

\* No capture pays two intents, unless a PATCH writes that one is paid.
THEOREM PaidByOwnCapture ==
    ASSUME PatchesPayNothing
    PROVE  Spec => []CapturesPayOnce
<1> DEFINE Inv == PaidInv /\ OrdersOwned /\ OneRowPerOrder
<1>1. Init => Inv
  <2> SUFFICES ASSUME Init PROVE Inv
    OBVIOUS
  <2>1. PaidInv
    BY DEF Init, PaidInv, SucceededWasPaid, VerifiesOwnOrder, Used, FreeRow, Idle
  <2>2. OrdersOwned
    BY AckInvInit DEF AckInv
  <2>3. OneRowPerOrder
    BY DEF Init, OneRowPerOrder, Used, FreeRow
  <2> QED
    BY <2>1, <2>2, <2>3
<1>2. IType /\ Inv /\ [Next]_vars => Inv'
  BY PaidInvStep, OrdersOwnedStep, OneRowPerOrderStep
<1>3. IType /\ Inv => CapturesPayOnce
  <2> SUFFICES ASSUME IType, Inv, NEW k \in Used, NEW l \in Used, k # l,
                      intents[k].status \in Paid, intents[l].status \in Paid
               PROVE  \E a, b \in Attempts : /\ a # b /\ Captured(a) /\ Captured(b)
                                            /\ attempts[a].order = intents[k].order
                                            /\ attempts[b].order = intents[l].order
    BY DEF CapturesPayOnce
  <2>1. PICK a \in Attempts : Captured(a) /\ attempts[a].order = intents[k].order
    BY DEF PaidInv, SucceededWasPaid, Paid
  <2>2. PICK b \in Attempts : Captured(b) /\ attempts[b].order = intents[l].order
    BY DEF PaidInv, SucceededWasPaid, Paid
  <2>3. attempts[a].order \in Orders
    BY <2>1, GatewayShape DEF Captured
  <2>4. a # b
    BY <2>1, <2>2, <2>3 DEF OneRowPerOrder
  <2> QED
    BY <2>1, <2>2, <2>4
<1> HIDE DEF Inv
<1> QED
  BY <1>1, <1>2, <1>3, ITypeAlways, PTL DEF Spec

=============================================================================
