------------------------------- MODULE Rides -------------------------------
(***************************************************************************)
(* rider-service: one ride from the request to its end.  The matcher sends  *)
(* offers, partners accept or reject them, the partner who holds the ride   *)
(* drives it through its statuses, the customer or an admin may cancel it,  *)
(* and two cron jobs expire offers and rides nobody took.                   *)
(*                                                                         *)
(* A call is a sequence of steps, one per statement or remote call; calls   *)
(* interleave, and any of them may stop between two steps.  The two         *)
(* statements of AcceptOfferTx and the row lock between them are steps of   *)
(* their own.  transitionRide is a compare-and-swap on the status the call  *)
(* has read, so read and swap are steps of their own too.                   *)
(***************************************************************************)
EXTENDS Integers, Sequences

CONSTANTS
    Partners,       \* partners the matcher may find
    Handlers,       \* goroutines serving the calls
    Fares,          \* fares a partner's telemetry may give
    Prorated,       \* the fee of a ride cancelled on the road
    Nobody          \* no partner, no handler

ASSUME RidesAssumption ==
    /\ Nobody \notin Partners \cup Handlers
    /\ Fares \subseteq Nat
    /\ Prorated \in 0..100

VARIABLES
    status,     \* rider_rides.status
    partner,    \* rider_rides.partner_id, and with it the vehicle and the OTP
    fare,       \* rider_rides.final_fare_paise
    fee,        \* rider_rides.cancellation_fee_paise
    offers,     \* rider_ride_offers.status by partner: (ride, partner) is UNIQUE;
                \* "lapsed" is an offer still 'sent' whose expires_at has passed
    locks,      \* who holds the row lock of each offer
    payments,   \* rider_ride_payments of the ride, by number: amount and status
    debits,     \* how often the customer's wallet was debited, by reason
    old,        \* rider_rides.updated_at is more than five minutes ago
    listed,     \* the cleanup job has read the ride as stuck
    beaten,     \* offers that were open when another offer was accepted
    left,       \* the status the ride was in when it ended
    proc        \* each handler's place in its call

ride   == <<status, partner, fare, fee, left>>
market == <<offers, locks, beaten>>
money  == <<payments, debits>>
clock  == <<old, listed>>
vars   == <<ride, market, money, clock, proc>>

None == -1

\* What a ride may be ended from by the cleanup job.
Open     == {"requested", "searching_partner"}
OnTheWay == {"partner_assigned", "partner_arriving", "arrived", "otp_verified", "in_progress"}
Ended    == {"completed", "cancelled_by_customer", "cancelled_by_admin", "expired"}
Statuses == {"scheduled"} \cup Open \cup OnTheWay \cup Ended

\* The targets the code asks for; the table's others (failed and
\* cancelled_by_partner) have no caller.
Allowed ==
    {<<"requested", "searching_partner">>, <<"searching_partner", "partner_assigned">>,
     <<"partner_assigned", "partner_arriving">>, <<"partner_arriving", "arrived">>,
     <<"arrived", "otp_verified">>, <<"otp_verified", "in_progress">>,
     <<"in_progress", "completed">>}
    \cup (Open \X {"expired"})
    \cup (((Open \cup OnTheWay) \ {"otp_verified"})
             \X {"cancelled_by_customer", "cancelled_by_admin"})

\* computeCancellationFeePaise, in rupees
Fee(s) ==
    CASE s = "partner_arriving" -> 15
      [] s = "arrived" -> 50
      [] s \in {"otp_verified", "in_progress"} -> Prorated
      [] OTHER -> 0

OfferStatuses == {"none", "sent", "lapsed", "accepted", "rejected", "expired", "superseded"}

Idle == [pc |-> "idle"]
DrivePcs == {"arriving", "arrived", "otp", "verify", "drive", "finalize", "complete",
             "bill", "debit", "paid", "unpaid"}
Locals ==
    {Idle}
    \cup [pc : {"accepting", "accepted", "assigned"}, who : Partners]
    \cup [pc : DrivePcs, who : Partners, read : Statuses, fare : Fares \cup {None}]
    \cup [pc : {"search", "offer", "count"}, todo : SUBSET Partners, read : Statuses]
    \cup [pc : {"cancel", "fee", "charge"}, by : {"customer", "admin"},
          read : Statuses, who : Partners \cup {Nobody}]

At(h, pc) == proc[h].pc = pc
Goto(h, pc) == proc' = [proc EXCEPT ![h].pc = pc]
Return(h) == proc' = [proc EXCEPT ![h] = Idle]
Enter(h, call) == At(h, "idle") /\ proc' = [proc EXCEPT ![h] = call]

Init ==
    /\ status \in {"requested", "scheduled"} /\ left = "requested"
    /\ partner = Nobody
    /\ fare = None /\ fee = None
    /\ offers = [p \in Partners |-> "none"]
    /\ beaten = {}
    /\ locks = [p \in Partners |-> Nobody]
    /\ payments = <<>>
    /\ debits = [r \in {"fare", "fee"} |-> 0]
    /\ old = FALSE /\ listed = FALSE
    /\ proc = [h \in Handlers |-> Idle]

\* Mutant: the UPDATE has no AND status = from.
CanMove_NoGuard(h, to) == <<proc[h].read, to>> \in Allowed

\* Mutant: the pair is checked against the row as it is, not as it was read.
CanMove_Rechecks(h, to) == <<status, to>> \in Allowed

\* validRideTransition on the status read, then the guarded UPDATE
CanMove(h, to) == <<proc[h].read, to>> \in Allowed /\ status = proc[h].read

\* updated_at = NOW()
Touch == old' = FALSE /\ UNCHANGED listed

\* The row moves and the call goes on with its own copy moved too.
Move(h, to, pc) ==
    /\ status' = to
    /\ left' = IF to \in Ended THEN status ELSE left
    /\ Touch
    /\ proc' = [proc EXCEPT ![h].pc = pc, ![h].read = to]

-----------------------------------------------------------------------------
(* MatchRide, on ride.requested or after the last rejection *)

MatchRide(h) ==
    /\ Enter(h, [pc |-> IF status = "requested" THEN "search" ELSE "offer",
                 read |-> status, todo |-> Partners])
    /\ status \in Open
    /\ UNCHANGED <<ride, market, money, clock>>

StartSearch(h) ==
    /\ At(h, "search")
    /\ IF CanMove(h, "searching_partner")
       THEN Move(h, "searching_partner", "offer")
       ELSE Return(h) /\ UNCHANGED <<status, left, clock>>
    /\ UNCHANGED <<partner, fare, fee, market, money>>

\* One offer after the other; a partner who was filtered out gets none, and
\* one who already has an offer keeps it as it is.
CreateRideOffer(h) ==
    /\ At(h, "offer")
    /\ \/ /\ proc[h].todo # {}
          /\ \E p \in proc[h].todo :
                /\ offers' = IF offers[p] = "none" THEN [offers EXCEPT ![p] = "sent"] ELSE offers
                /\ proc' = [proc EXCEPT ![h].todo = @ \ {p}]
       \/ UNCHANGED offers /\ Return(h)
    /\ UNCHANGED <<ride, locks, beaten, money, clock>>

-----------------------------------------------------------------------------
(* AcceptOffer and RejectOffer *)

Free(p) == locks[p] = Nobody
Undecided(p) == offers[p] \in {"sent", "lapsed"}
Siblings(p) == {q \in Partners \ {p} : Undecided(q)}

\* Mutant: SELECT without FOR UPDATE.
LockOffer_NoLock(h) == \E p \in Partners :
    /\ offers[p] = "sent" /\ Free(p)
    /\ Enter(h, [pc |-> "accepting", who |-> p])
    /\ UNCHANGED <<ride, market, money, clock>>

\* Mutant: no ROLLBACK when the offer turns out to be decided.
LockOffer_NoRollback(h) == \E p \in Partners :
    /\ offers[p] # "none" /\ Free(p)
    /\ locks' = [locks EXCEPT ![p] = h]
    /\ IF offers[p] = "sent"
       THEN Enter(h, [pc |-> "accepting", who |-> p])
       ELSE At(h, "idle") /\ UNCHANGED proc
    /\ UNCHANGED <<ride, offers, beaten, money, clock>>

\* The offer's row lock is taken before its status and expiry are read; a
\* decided or lapsed offer ends the transaction at once.
LockOffer(h) == \E p \in Partners :
    /\ offers[p] = "sent" /\ Free(p)
    /\ locks' = [locks EXCEPT ![p] = h]
    /\ Enter(h, [pc |-> "accepting", who |-> p])
    /\ UNCHANGED <<ride, offers, beaten, money, clock>>

\* Mutant: every sibling is superseded, whatever its status.
AcceptOffer_SupersedesAll(h) ==
    LET p == proc[h].who
    IN  /\ At(h, "accepting")
        /\ \A q \in Siblings(p) : Free(q)
        /\ offers' = [q \in Partners |-> IF q = p THEN "accepted"
                                         ELSE IF offers[q] # "none" THEN "superseded" ELSE "none"]
        /\ beaten' = beaten \cup Siblings(p)
        /\ locks' = [locks EXCEPT ![p] = Nobody]
        /\ Goto(h, "accepted")
        /\ UNCHANGED <<ride, money, clock>>

\* The UPDATE of the siblings waits for the locks others hold on them.
AcceptOffer(h) ==
    LET p == proc[h].who
    IN  /\ At(h, "accepting")
        /\ \A q \in Siblings(p) : Free(q)
        /\ offers' = [q \in Partners |-> IF q = p THEN "accepted"
                                         ELSE IF q \in Siblings(p) THEN "superseded" ELSE offers[q]]
        /\ beaten' = beaten \cup Siblings(p)
        /\ locks' = [locks EXCEPT ![p] = Nobody]
        /\ Goto(h, "accepted")
        /\ UNCHANGED <<ride, money, clock>>

\* Two acceptances wait for each other's offer: the database aborts one.
DeadlockVictim(h) ==
    /\ At(h, "accepting")
    /\ \E q \in Siblings(proc[h].who) : ~Free(q)
    /\ locks' = [locks EXCEPT ![proc[h].who] = Nobody]
    /\ Return(h)
    /\ UNCHANGED <<ride, offers, beaten, money, clock>>

\* A partner without an approved vehicle is turned away here, with the offer
\* accepted; otherwise the ride's partner is set, whatever the ride's status.
AssignRidePartner(h) ==
    /\ At(h, "accepted")
    /\ \/ partner' = proc[h].who /\ Touch /\ Goto(h, "assigned")
       \/ UNCHANGED <<partner, clock>> /\ Return(h)
    /\ UNCHANGED <<status, left, fare, fee, market, money>>

\* GetRide, then the transition: offers exist, so the status can no longer
\* become searching_partner in between.
TakeRide(h) ==
    /\ At(h, "assigned")
    /\ IF status = "searching_partner"
       THEN status' = "partner_assigned" /\ Touch
       ELSE UNCHANGED <<status, clock>>
    /\ Return(h)
    /\ UNCHANGED <<left, partner, fare, fee, market, money>>

RejectOffer(h) == \E p \in Partners :
    /\ Undecided(p) /\ Free(p)
    /\ offers' = [offers EXCEPT ![p] = "rejected"]
    /\ Enter(h, [pc |-> "count", read |-> status, todo |-> {}])
    /\ UNCHANGED <<ride, locks, beaten, money, clock>>

\* When every offer is decided, the matcher runs again.
CountOffers(h) ==
    /\ At(h, "count")
    /\ IF status \in Open /\ \A p \in Partners : ~Undecided(p)
       THEN proc' = [proc EXCEPT ![h] = [pc |-> IF status = "requested" THEN "search" ELSE "offer",
                                         read |-> status, todo |-> Partners]]
       ELSE Return(h)
    /\ UNCHANGED <<ride, market, money, clock>>

-----------------------------------------------------------------------------
(* The ride on the road: every call loads the ride and checks its partner *)

LoadRide(h, pc, f) ==
    /\ partner # Nobody
    /\ Enter(h, [pc |-> pc, who |-> partner, read |-> status, fare |-> f])
    /\ UNCHANGED <<ride, market, money, clock>>

\* MarkArriving and MarkArrived stamp the ride, and so updated_at, before they
\* check its status.  That shows only while the ride is searched for: a partner
\* may be set by then.  Any other wrong status fails without a trace, and on a
\* searched ride MarkArrived does what MarkArriving does.
MarkArriving(h) == status \in Open \cup {"partner_assigned"} /\ LoadRide(h, "arriving", None)
MarkArrived(h)  == status = "partner_arriving" /\ LoadRide(h, "arrived", None)
StartRide(h)    == status = "arrived" /\ LoadRide(h, "otp", None)

\* CompleteRide writes the fare before it checks the status.  A replayed
\* idempotency key returns the recorded payment; every other key comes here.
CompleteRide(h) == \E f \in Fares : LoadRide(h, "finalize", f)

Transition(h, from, to, then) ==
    /\ At(h, from)
    /\ IF CanMove(h, to)
       THEN IF then = "done"
            THEN status' = to /\ left' = left /\ Touch /\ Return(h)
            ELSE Move(h, to, then)
       ELSE /\ Return(h) /\ UNCHANGED <<status, left>>
            /\ IF from \in {"arriving", "arrived"} THEN Touch ELSE UNCHANGED clock
    /\ UNCHANGED <<partner, fare, fee, market, money>>

\* GetRideWithOTP reads the row again: the OTP belongs to the partner that
\* was assigned last.
VerifyOTP(h) ==
    /\ At(h, "otp")
    /\ IF partner = proc[h].who THEN Goto(h, "verify") ELSE Return(h)
    /\ UNCHANGED <<ride, market, money, clock>>

\* The final fare is written before the status is checked.
FinalizeRide(h) ==
    /\ At(h, "finalize")
    /\ fare' = proc[h].fare /\ Touch
    /\ Goto(h, "complete")
    /\ UNCHANGED <<status, left, partner, fee, market, money>>

CreateRidePayment(h) ==
    /\ At(h, "bill")
    /\ payments' = Append(payments, [amount |-> proc[h].fare, status |-> "pending"])
    /\ Goto(h, "debit")
    /\ UNCHANGED <<ride, market, debits, clock>>

\* The wallet debits, declines, or debits and its answer is lost; a ride paid
\* in cash is settled without it, one paid by UPI stays pending.
SettlePayment(h) ==
    /\ At(h, "debit")
    /\ \/ debits' = [debits EXCEPT !["fare"] = @ + 1] /\ Goto(h, "paid")
       \/ debits' = [debits EXCEPT !["fare"] = @ + 1] /\ Goto(h, "unpaid")
       \/ UNCHANGED debits /\ \E pc \in {"paid", "unpaid"} : Goto(h, pc)
       \/ UNCHANGED debits /\ Return(h)
    /\ UNCHANGED <<ride, market, payments, clock>>

\* MarkRidePaymentSucceeded, MarkRidePaymentFailed
MarkPayment(h) ==
    /\ At(h, "paid") \/ At(h, "unpaid")
    /\ payments' = [payments EXCEPT ![Len(payments)].status =
                        IF At(h, "paid") THEN "succeeded" ELSE "failed"]
    /\ Return(h)
    /\ UNCHANGED <<ride, market, debits, clock>>

Drive(h) ==
    \/ Transition(h, "arriving", "partner_arriving", "done")
    \/ Transition(h, "arrived", "arrived", "done")
    \/ VerifyOTP(h)
    \/ Transition(h, "verify", "otp_verified", "drive")
    \/ Transition(h, "drive", "in_progress", "done")
    \/ FinalizeRide(h)
    \/ Transition(h, "complete", "completed", "bill")
    \/ CreateRidePayment(h)
    \/ SettlePayment(h)
    \/ MarkPayment(h)

-----------------------------------------------------------------------------
(* CancelRide, and the two cron jobs *)

CancelledBy(by) == IF by = "customer" THEN "cancelled_by_customer" ELSE "cancelled_by_admin"

CancelRide(h) == \E by \in {"customer", "admin"} :
    /\ <<status, CancelledBy(by)>> \in Allowed
    /\ Enter(h, [pc |-> "cancel", by |-> by, read |-> status, who |-> partner])
    /\ UNCHANGED <<ride, market, money, clock>>

\* The call keeps the status it read: the fee is computed from that one.
CancelTransition(h) ==
    LET to == CancelledBy(proc[h].by)
    IN  /\ At(h, "cancel")
        /\ IF CanMove(h, to)
           THEN status' = to /\ left' = status /\ Touch /\ Goto(h, "fee")
           ELSE Return(h) /\ UNCHANGED <<status, left, clock>>
        /\ UNCHANGED <<partner, fare, fee, market, money>>

MarkRideCancelled(h) ==
    LET due == Fee(proc[h].read)
    IN  /\ At(h, "fee")
        /\ fee' = due /\ Touch
        /\ IF proc[h].by = "customer" /\ due > 0 /\ proc[h].who # Nobody
           THEN Goto(h, "charge") ELSE Return(h)
        /\ UNCHANGED <<status, left, partner, fare, market, money>>

\* A failed debit is logged.
ChargeFee(h) ==
    /\ At(h, "charge") /\ Return(h)
    /\ debits' = [debits EXCEPT !["fee"] = @ + 1] \/ UNCHANGED debits
    /\ UNCHANGED <<ride, market, payments, clock>>

\* The worker promotes a scheduled ride and leaves updated_at as it is.
ActivateScheduledRide ==
    /\ status = "scheduled" /\ status' = "requested"
    /\ UNCHANGED <<left, partner, fare, fee, market, money, clock, proc>>

GrowOld ==
    /\ status \in {"scheduled"} \cup Open /\ ~old /\ old' = TRUE
    /\ UNCHANGED <<ride, market, money, listed, proc>>

\* RunStaleRideCleanup lists the rides that are stuck,
ListStuckRides ==
    /\ status \in Open /\ old /\ ~listed /\ listed' = TRUE
    /\ UNCHANGED <<ride, market, money, old, proc>>

\* and moves each, from the status it then has.
ExpireRide ==
    /\ listed /\ listed' = FALSE
    /\ IF status \in Open
       THEN status' = "expired" /\ left' = status /\ old' = FALSE
       ELSE UNCHANGED <<status, left, old>>
    /\ UNCHANGED <<partner, fare, fee, market, money, proc>>

Lapse(p) ==
    /\ offers[p] = "sent" /\ offers' = [offers EXCEPT ![p] = "lapsed"]
    /\ UNCHANGED <<ride, locks, beaten, money, clock, proc>>

\* One UPDATE over every lapsed offer: it waits for their locks.
LapsedOffers == {p \in Partners : offers[p] = "lapsed"}

ExpireStaleOffers ==
    /\ LapsedOffers # {} /\ \A p \in LapsedOffers : Free(p)
    /\ offers' = [p \in Partners |-> IF p \in LapsedOffers THEN "expired" ELSE offers[p]]
    /\ UNCHANGED <<ride, locks, beaten, money, clock, proc>>

\* A call stops, in a crash or on a failing statement; its transaction rolls back.
Stop(h) ==
    /\ ~At(h, "idle") /\ Return(h)
    /\ locks' = [p \in Partners |-> IF locks[p] = h THEN Nobody ELSE locks[p]]
    /\ UNCHANGED <<ride, offers, beaten, money, clock>>

-----------------------------------------------------------------------------

Call(h) ==
    \/ MatchRide(h) \/ LockOffer(h) \/ RejectOffer(h) \/ CancelRide(h)
    \/ MarkArriving(h) \/ MarkArrived(h) \/ StartRide(h) \/ CompleteRide(h)

Step(h) ==
    \/ StartSearch(h) \/ CreateRideOffer(h) \/ CountOffers(h)
    \/ AcceptOffer(h) \/ DeadlockVictim(h) \/ AssignRidePartner(h) \/ TakeRide(h)
    \/ Drive(h)
    \/ CancelTransition(h) \/ MarkRideCancelled(h) \/ ChargeFee(h)

Environment ==
    \/ ActivateScheduledRide \/ GrowOld \/ ListStuckRides \/ ExpireRide
    \/ ExpireStaleOffers
    \/ \E p \in Partners : Lapse(p)

Next == Environment \/ \E h \in Handlers : Call(h) \/ Step(h) \/ Stop(h)

Spec == Init /\ [][Next]_vars

\* Time passes, the cron jobs run, and a call that is not stopped goes on.
\* ListStuckRides is strong: MarkArriving and CompleteRide refresh updated_at
\* even of a ride that is still searched for, so the ride may be old only now and then.
Fairness ==
    /\ WF_vars(GrowOld) /\ SF_vars(ListStuckRides) /\ WF_vars(ExpireRide)
    /\ WF_vars(ExpireStaleOffers)
    /\ \A p \in Partners : WF_vars(Lapse(p))
    /\ \A h \in Handlers : WF_vars(Step(h))

FairSpec == Spec /\ Fairness

-----------------------------------------------------------------------------

TypeOK ==
    /\ status \in Statuses /\ left \in Statuses
    /\ partner \in Partners \cup {Nobody}
    /\ fare \in Fares \cup {None} /\ fee \in 0..100 \cup {None}
    /\ offers \in [Partners -> OfferStatuses]
    /\ beaten \subseteq Partners
    /\ locks \in [Partners -> Handlers \cup {Nobody}]
    /\ payments \in Seq([amount : Fares, status : {"pending", "succeeded", "failed"}])
    /\ debits \in [{"fare", "fee"} -> 0..1]
    /\ old \in BOOLEAN /\ listed \in BOOLEAN
    /\ proc \in [Handlers -> Locals]

\* An offer that was open when another partner's offer was accepted is never
\* accepted itself, whatever two acceptances, rejections and expiries overlap.
BeatenNeverWins == \A p \in beaten : offers[p] # "accepted"

\* Whoever the ride is assigned to was offered it and accepted, and a ride
\* leaves the search only towards somebody.
DriverHoldsOffer ==
    /\ partner # Nobody => offers[partner] = "accepted"
    /\ status \in OnTheWay \cup {"completed"} => partner # Nobody

\* The fee on a cancelled ride is the fee of the status the cancellation
\* ended, not of one the ride had when the call began; no other ride has one,
\* and only a completed ride has a payment, and no more than one.
FeeWasDue ==
    /\ fee # None => /\ status \in {"cancelled_by_customer", "cancelled_by_admin"}
                     /\ fee = Fee(left)
    /\ payments # <<>> => status = "completed" /\ Len(payments) = 1

\* A ride nobody takes is given up, and no offer stays open.
SearchEnds ==
    /\ status \in Open ~> status \notin Open
    /\ \A p \in Partners : Undecided(p) ~> ~Undecided(p)

\* The row as the customer sees it: where the ride is, what its end made due
\* and what the wallet was debited.
PhaseOf(s) ==
    CASE s \in {"scheduled"} \cup Open -> "waiting"
      [] s \in OnTheWay -> "riding"
      [] s = "completed" -> "done"
      [] OTHER -> "off"

DueOf(s, from) ==
    CASE s = "completed" -> "fare"
      [] s = "cancelled_by_customer" /\ Fee(from) > 0 -> "fee"
      [] OTHER -> "nothing"

T == INSTANCE Trip WITH
    phase <- PhaseOf(status), due <- DueOf(status, left), charged <- debits

TripSpec == T!Spec
=============================================================================
