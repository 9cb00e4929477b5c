---------------------------- MODULE RidesProofs ----------------------------
(***************************************************************************)
(* Theorems of Rides, for any partners, handlers, fares and fees.           *)
(***************************************************************************)
EXTENDS Rides, SequenceTheorems, TLAPS

AcceptPcs == {"accepting", "accepted", "assigned"}
MatchPcs  == {"search", "offer", "count"}
CancelPcs == {"cancel", "fee", "charge"}
Billing   == {"bill", "debit", "paid", "unpaid"}
Charging  == {"fee", "charge"}
Cancelled == {"cancelled_by_customer", "cancelled_by_admin"}

Accepts == [pc : AcceptPcs, who : Partners]
Drives  == [pc : DrivePcs, who : Partners, read : Statuses, fare : Fares \cup {None}]
Matches == [pc : MatchPcs, todo : SUBSET Partners, read : Statuses]
Cancels == [pc : CancelPcs, by : {"customer", "admin"}, read : Statuses,
            who : Partners \cup {Nobody}]
Bills   == [amount : Fares, status : {"pending", "succeeded", "failed"}]

\* What a call may rely on, whatever the others do meanwhile.
CallSound(h) ==
    LET r == proc[h] IN
    /\ r.pc = "accepting" => locks[r.who] = h /\ Undecided(r.who)
    /\ r.pc \in {"accepted", "assigned"} => offers[r.who] = "accepted"
    /\ r.pc \in {"assigned"} \cup DrivePcs => partner # Nobody
    /\ r.pc \in {"finalize", "complete", "bill"} => r.fare \in Fares
    /\ r.pc \in Billing => status = "completed"
    /\ r.pc = "bill" => payments = <<>>
    /\ r.pc \in {"debit", "paid", "unpaid"} => Len(payments) = 1
    /\ r.pc \in {"bill", "debit"} => debits["fare"] = 0
    /\ r.pc \in Charging => /\ status = CancelledBy(r.by) /\ left = r.read
                            /\ debits["fee"] = 0
    /\ r.pc = "charge" => r.by = "customer" /\ Fee(left) > 0

\* The call that completed the ride bills it, the one that cancelled it charges
\* the fee, and no other call does.
Solo ==
    \A g, h \in Handlers : g # h =>
        /\ ~(proc[g].pc \in Billing /\ proc[h].pc \in Billing)
        /\ ~(proc[g].pc \in Charging /\ proc[h].pc \in Charging)

\* What the rows say together.
RideSound ==
    /\ \A p \in beaten : offers[p] = "superseded"
    /\ DriverHoldsOffer
    /\ fee # None => status \in Cancelled /\ fee = Fee(left)
    /\ status # "completed" => payments = <<>> /\ debits["fare"] = 0
    /\ status \notin Cancelled => debits["fee"] = 0
    /\ Len(payments) <= 1

IInv ==
    /\ TypeOK
    /\ RideSound
    /\ \A h \in Handlers : CallSound(h)
    /\ Solo

-----------------------------------------------------------------------------
(* Statuses and calls *)

LEMMA AllowedFacts ==
    ASSUME NEW a, NEW b, <<a, b>> \in Allowed
    PROVE  /\ a \in Open \cup OnTheWay /\ b \in Statuses
           /\ b = "completed" => a = "in_progress"
           /\ b \in {"partner_assigned"} => a = "searching_partner"
           /\ b \in OnTheWay \ {"partner_assigned"} => a \in OnTheWay
           /\ b \in Ended \/ b \in OnTheWay \/ b = "searching_partner"
BY DEF Allowed, Open, OnTheWay, Statuses, Ended

LEMMA StatusFacts ==
    /\ Open \subseteq Statuses /\ OnTheWay \subseteq Statuses /\ Ended \subseteq Statuses
    /\ Open \cap Ended = {} /\ OnTheWay \cap Ended = {} /\ Open \cap OnTheWay = {}
    /\ "scheduled" \notin Open \cup OnTheWay \cup Ended
    /\ Cancelled \subseteq Ended /\ "completed" \in Ended /\ "completed" \notin Cancelled
    /\ "expired" \in Ended \ Cancelled /\ Statuses = {"scheduled"} \cup Open \cup OnTheWay \cup Ended
BY DEF Open, OnTheWay, Ended, Statuses, Cancelled

LEMMA FeeFacts ==
    ASSUME NEW s \in Statuses
    PROVE  Fee(s) \in 0..100 /\ (Fee(s) > 0 => s \in OnTheWay)
<1>1. Prorated \in 0..100
  BY RidesAssumption DEF RidesAssumption
<1>2. CASE s = "partner_arriving"
  BY <1>2 DEF Fee, OnTheWay
<1>3. CASE s = "arrived"
  BY <1>3 DEF Fee, OnTheWay
<1>4. CASE s \in {"otp_verified", "in_progress"}
  BY <1>1, <1>4 DEF Fee, OnTheWay
<1>5. CASE s \notin {"partner_arriving", "arrived", "otp_verified", "in_progress"}
  BY <1>5 DEF Fee
<1> QED
  BY <1>2, <1>3, <1>4, <1>5

LEMMA PcSets ==
    /\ AcceptPcs \cap DrivePcs = {} /\ AcceptPcs \cap MatchPcs = {} /\ AcceptPcs \cap CancelPcs = {}
    /\ DrivePcs \cap MatchPcs = {} /\ DrivePcs \cap CancelPcs = {} /\ MatchPcs \cap CancelPcs = {}
    /\ "idle" \notin AcceptPcs \cup DrivePcs \cup MatchPcs \cup CancelPcs
    /\ Billing \subseteq DrivePcs /\ Charging \subseteq CancelPcs
BY DEF AcceptPcs, DrivePcs, MatchPcs, CancelPcs, Billing, Charging

LEMMA LocalFacts ==
    ASSUME TypeOK, NEW h \in Handlers
    PROVE  /\ proc[h].pc \in AcceptPcs => proc[h] \in Accepts
           /\ proc[h].pc \in DrivePcs => proc[h] \in Drives
           /\ proc[h].pc \in MatchPcs => proc[h] \in Matches
           /\ proc[h].pc \in CancelPcs => proc[h] \in Cancels
<1>1. proc[h] \in {Idle} \cup Accepts \cup Drives \cup Matches \cup Cancels
  BY DEF TypeOK, Locals, Accepts, Drives, Matches, Cancels, AcceptPcs, MatchPcs, CancelPcs
<1>2. CASE proc[h] = Idle
  BY <1>2, PcSets DEF Idle
<1>3. CASE proc[h] \in Accepts
  <2>1. proc[h].pc \in AcceptPcs
    BY <1>3 DEF Accepts
  <2> QED
    BY <1>3, <2>1, PcSets
<1>4. CASE proc[h] \in Drives
  <2>1. proc[h].pc \in DrivePcs
    BY <1>4 DEF Drives
  <2> QED
    BY <1>4, <2>1, PcSets
<1>5. CASE proc[h] \in Matches
  <2>1. proc[h].pc \in MatchPcs
    BY <1>5 DEF Matches
  <2> QED
    BY <1>5, <2>1, PcSets
<1>6. CASE proc[h] \in Cancels
  <2>1. proc[h].pc \in CancelPcs
    BY <1>6 DEF Cancels
  <2> QED
    BY <1>6, <2>1, PcSets
<1> QED
  BY <1>1, <1>2, <1>3, <1>4, <1>5, <1>6

LEMMA LocalsForm == Locals = {Idle} \cup Accepts \cup Drives \cup Matches \cup Cancels
BY DEF Locals, Accepts, Drives, Matches, Cancels, AcceptPcs, MatchPcs, CancelPcs

\* Only the call of h moves.
Others(h) == \A g \in Handlers \ {h} : proc'[g] = proc[g]

LEMMA PutFacts ==
    ASSUME TypeOK, NEW h \in Handlers, NEW x \in Locals, proc' = [proc EXCEPT ![h] = x]
    PROVE  proc' \in [Handlers -> Locals] /\ proc'[h] = x /\ Others(h)
BY DEF TypeOK, Others

LEMMA ReturnFacts ==
    ASSUME TypeOK, NEW h \in Handlers, Return(h)
    PROVE  proc' \in [Handlers -> Locals] /\ proc'[h].pc = "idle" /\ Others(h)
<1>1. Idle \in Locals /\ Idle.pc = "idle"
  BY DEF Locals, Idle
<1> QED
  BY <1>1, PutFacts DEF Return

LEMMA GotoAccept ==
    ASSUME TypeOK, NEW h \in Handlers, NEW pc \in AcceptPcs, proc[h].pc \in AcceptPcs, Goto(h, pc)
    PROVE  /\ proc' \in [Handlers -> Locals] /\ Others(h)
           /\ proc'[h].pc = pc /\ proc'[h].who = proc[h].who
<1> DEFINE r == proc[h]
           s == [r EXCEPT !.pc = pc]
<1>1. r \in Accepts
  BY LocalFacts
<1>2. proc' = [proc EXCEPT ![h] = s]
  BY DEF Goto
<1> HIDE DEF r
<1>3. s \in Accepts /\ s.pc = pc /\ s.who = r.who
  BY <1>1 DEF Accepts
<1>4. s \in Locals
  BY <1>3, LocalsForm
<1> HIDE DEF s
<1> QED
  BY <1>2, <1>3, <1>4, PutFacts DEF r

LEMMA GotoDrive ==
    ASSUME TypeOK, NEW h \in Handlers, NEW pc \in DrivePcs, proc[h].pc \in DrivePcs, Goto(h, pc)
    PROVE  /\ proc' \in [Handlers -> Locals] /\ Others(h)
           /\ proc'[h].pc = pc /\ proc'[h].who = proc[h].who
           /\ proc'[h].fare = proc[h].fare /\ proc'[h].read = proc[h].read
<1> DEFINE r == proc[h]
           s == [r EXCEPT !.pc = pc]
<1>1. r \in Drives
  BY LocalFacts
<1>2. proc' = [proc EXCEPT ![h] = s]
  BY DEF Goto
<1> HIDE DEF r
<1>3. s \in Drives /\ s.pc = pc /\ s.who = r.who /\ s.fare = r.fare /\ s.read = r.read
  BY <1>1 DEF Drives
<1>4. s \in Locals
  BY <1>3, LocalsForm
<1> HIDE DEF s
<1> QED
  BY <1>2, <1>3, <1>4, PutFacts DEF r

LEMMA GotoCancel ==
    ASSUME TypeOK, NEW h \in Handlers, NEW pc \in CancelPcs, proc[h].pc \in CancelPcs, Goto(h, pc)
    PROVE  /\ proc' \in [Handlers -> Locals] /\ Others(h)
           /\ proc'[h].pc = pc /\ proc'[h].by = proc[h].by /\ proc'[h].read = proc[h].read
<1> DEFINE r == proc[h]
           s == [r EXCEPT !.pc = pc]
<1>1. r \in Cancels
  BY LocalFacts
<1>2. proc' = [proc EXCEPT ![h] = s]
  BY DEF Goto
<1> HIDE DEF r
<1>3. s \in Cancels /\ s.pc = pc /\ s.by = r.by /\ s.read = r.read
  BY <1>1 DEF Cancels
<1>4. s \in Locals
  BY <1>3, LocalsForm
<1> HIDE DEF s
<1> QED
  BY <1>2, <1>3, <1>4, PutFacts DEF r

-----------------------------------------------------------------------------
(* What the step of one call leaves to the others *)

RideFrame ==
    /\ partner # Nobody => partner' # Nobody
    /\ status \in Ended => status' = status /\ left' = left

MarketFrame(g) == \A p \in Partners :
    /\ locks[p] = g => locks'[p] = g /\ (Undecided(p) => Undecided(p)')
    /\ offers[p] = "accepted" => offers'[p] = "accepted"

MoneyFrame(g) ==
    /\ proc[g].pc \in Billing => payments' = payments /\ debits'["fare"] = debits["fare"]
    /\ proc[g].pc \in Charging => debits'["fee"] = debits["fee"]

Frame(g) == RideFrame /\ MarketFrame(g) /\ MoneyFrame(g)

LEMMA KeptCall ==
    ASSUME TypeOK, NEW g \in Handlers, CallSound(g), proc'[g] = proc[g], Frame(g)
    PROVE  CallSound(g)'
<1>0. PICK r \in Locals : r = proc[g]
  BY DEF TypeOK
<1>1. r.pc = "accepting" => (locks[r.who] = g /\ Undecided(r.who))'
  <2> SUFFICES ASSUME r.pc = "accepting" PROVE (locks[r.who] = g /\ Undecided(r.who))'
    OBVIOUS
  <2>1. r.who \in Partners
    BY <1>0, LocalFacts DEF AcceptPcs, Accepts
  <2>2. locks[r.who] = g /\ Undecided(r.who)
    BY <1>0 DEF CallSound
  <2> QED
    BY <2>1, <2>2 DEF Frame, MarketFrame, Undecided
<1>2. r.pc \in {"accepted", "assigned"} => (offers[r.who] = "accepted")'
  <2> SUFFICES ASSUME r.pc \in {"accepted", "assigned"} PROVE (offers[r.who] = "accepted")'
    OBVIOUS
  <2>1. r.who \in Partners
    BY <1>0, LocalFacts DEF AcceptPcs, Accepts
  <2> QED
    BY <1>0, <2>1 DEF CallSound, Frame, MarketFrame
<1>3. r.pc \in {"assigned"} \cup DrivePcs => partner' # Nobody
  BY <1>0 DEF CallSound, Frame, RideFrame
<1>4. r.pc \in Billing => status' = "completed" /\ payments' = payments /\ debits'["fare"] = debits["fare"]
  BY <1>0, StatusFacts DEF CallSound, Frame, RideFrame, MoneyFrame
<1>5. ASSUME r.pc \in Charging
      PROVE  status' = CancelledBy(r.by) /\ left' = r.read /\ debits'["fee"] = 0
  <2>1. status = CancelledBy(r.by) /\ status \in Ended
    BY <1>0, <1>5 DEF CallSound, CancelledBy, Ended
  <2> QED
    BY <1>0, <1>5, <2>1 DEF CallSound, Frame, RideFrame, MoneyFrame
<1>6. /\ r.pc = "bill" => payments = <<>>
      /\ r.pc \in {"debit", "paid", "unpaid"} => Len(payments) = 1
      /\ r.pc \in {"bill", "debit"} => debits["fare"] = 0
      /\ r.pc \in {"finalize", "complete", "bill"} => r.fare \in Fares
      /\ r.pc = "charge" => r.by = "customer" /\ Fee(left) > 0
  BY <1>0 DEF CallSound
<1>7. r.pc = "charge" => left' = left
  BY <1>0, <1>5 DEF CallSound, Charging
<1>8. proc'[g] = r
  BY <1>0
<1>9. r.pc = "charge" => (Fee(left) > 0)'
  BY <1>6, <1>7 DEF Fee
<1>10. /\ r.pc = "bill" => payments' = <<>>
       /\ r.pc \in {"debit", "paid", "unpaid"} => Len(payments') = 1
       /\ r.pc \in {"bill", "debit"} => debits'["fare"] = 0
       /\ r.pc \in Billing => status' = "completed"
  BY <1>4, <1>6 DEF Billing
<1> QED
  BY <1>1, <1>2, <1>3, <1>5, <1>6, <1>8, <1>9, <1>10 DEF CallSound, CancelledBy

\* The invariant after a step of h: h starts to bill or to charge only while
\* nobody does.
LEMMA OneStep ==
    ASSUME IInv, NEW h \in Handlers, Others(h), TypeOK', RideSound', CallSound(h)',
           \A g \in Handlers \ {h} : Frame(g),
           proc'[h].pc \in Billing => proc[h].pc \in Billing \/ status # "completed",
           proc'[h].pc \in Charging => proc[h].pc \in Charging \/ status \notin Cancelled
    PROVE  IInv'
<1>1. ASSUME NEW g \in Handlers PROVE CallSound(g)'
  <2>1. CASE g = h
    BY <2>1
  <2>2. CASE g # h
    BY <2>2, KeptCall DEF IInv, Others
  <2> QED
    BY <2>1, <2>2
<1>2. ASSUME NEW g \in Handlers \ {h}
      PROVE  /\ ~(proc'[g].pc \in Billing /\ proc'[h].pc \in Billing)
             /\ ~(proc'[g].pc \in Charging /\ proc'[h].pc \in Charging)
  <2>1. proc'[g] = proc[g] /\ CallSound(g)
    BY DEF Others, IInv
  <2>2. proc[g].pc \in Billing => status = "completed"
    BY <2>1 DEF CallSound
  <2>3. proc[g].pc \in Charging => status \in Cancelled
    BY <2>1 DEF CallSound, CancelledBy, Cancelled
  <2> QED
    BY <2>1, <2>2, <2>3 DEF IInv, Solo
<1>3. Solo'
  BY <1>2 DEF Solo, IInv, Others
<1> QED
  BY <1>1, <1>3 DEF IInv

\* A step that no call takes.
LEMMA NoCall ==
    ASSUME IInv, proc' = proc, TypeOK', RideSound', \A g \in Handlers : Frame(g)
    PROVE  IInv'
<1>1. \A g \in Handlers : CallSound(g)'
  BY KeptCall DEF IInv
<1>2. Solo'
  BY DEF IInv, Solo
<1> QED
  BY <1>1, <1>2 DEF IInv

LEMMA RideStays ==
    ASSUME UNCHANGED <<status, partner, left>>
    PROVE  RideFrame
BY DEF RideFrame

LEMMA MarketStays ==
    ASSUME UNCHANGED <<offers, locks>>, NEW g
    PROVE  MarketFrame(g)
BY DEF MarketFrame, Undecided

LEMMA MoneyStays ==
    ASSUME UNCHANGED money, NEW g
    PROVE  MoneyFrame(g)
BY DEF MoneyFrame, money

LEMMA RideSoundStays ==
    ASSUME RideSound, UNCHANGED <<status, partner, fee, left, offers, beaten, money>>
    PROVE  RideSound'
BY DEF RideSound, money, DriverHoldsOffer, Fee

\* A step of h that moves nothing but its own place, the clock and its locks.
LEMMA QuietStep ==
    ASSUME IInv, NEW h \in Handlers, Others(h), proc' \in [Handlers -> Locals],
           UNCHANGED <<ride, market, money>>, old' \in BOOLEAN, listed' \in BOOLEAN,
           CallSound(h)',
           proc'[h].pc \in Billing \cup Charging => proc[h].pc = proc'[h].pc
    PROVE  IInv'
<1>1. TypeOK'
  BY DEF IInv, TypeOK, ride, market, money
<1>2. RideSound'
  BY RideSoundStays DEF IInv, ride, market
<1>3. \A g \in Handlers : Frame(g)
  BY RideStays, MarketStays, MoneyStays DEF Frame, ride, market
<1> QED
  BY <1>1, <1>2, <1>3, OneStep

\* Most places rely on nothing.
LEMMA FreeSound ==
    ASSUME NEW h, proc'[h].pc \in {"idle", "cancel"} \cup MatchPcs
    PROVE  CallSound(h)' /\ proc'[h].pc \notin Billing \cup Charging
BY DEF CallSound, DrivePcs, Billing, Charging, MatchPcs

LEMMA ReturnSound ==
    ASSUME TypeOK, NEW h \in Handlers, Return(h)
    PROVE  /\ proc' \in [Handlers -> Locals] /\ Others(h)
           /\ CallSound(h)' /\ proc'[h].pc \notin Billing \cup Charging
BY ReturnFacts, FreeSound

-----------------------------------------------------------------------------
(* The steps that only move a call *)

LEMMA MatchRideKeeps ==
    ASSUME IInv, NEW h \in Handlers, MatchRide(h)
    PROVE  IInv'
<1>1. PICK x : /\ x = [pc |-> IF status = "requested" THEN "search" ELSE "offer",
                       read |-> status, todo |-> Partners]
               /\ proc' = [proc EXCEPT ![h] = x]
  BY DEF MatchRide, Enter
<1>2. x \in Matches /\ x.pc \in MatchPcs
  BY <1>1 DEF Matches, MatchPcs, IInv, TypeOK
<1>3. x \in Locals
  BY <1>2, LocalsForm
<1>4. proc' \in [Handlers -> Locals] /\ proc'[h] = x /\ Others(h)
  BY <1>1, <1>3, PutFacts DEF IInv
<1>5. CallSound(h)' /\ proc'[h].pc \notin Billing \cup Charging
  BY <1>2, <1>4, FreeSound
<1>6. UNCHANGED <<ride, market, money, clock>>
  BY DEF MatchRide
<1> QED
  BY <1>4, <1>5, <1>6, QuietStep DEF IInv, TypeOK, clock

LEMMA LoadRideKeeps ==
    ASSUME IInv, NEW h \in Handlers, NEW pc \in {"arriving", "arrived", "otp", "finalize"},
           NEW f \in Fares \cup {None}, pc = "finalize" => f \in Fares, LoadRide(h, pc, f)
    PROVE  IInv'
<1>1. PICK x : /\ x = [pc |-> pc, who |-> partner, read |-> status, fare |-> f]
               /\ proc' = [proc EXCEPT ![h] = x]
  BY DEF LoadRide, Enter
<1>2. partner \in Partners /\ status \in Statuses
  BY DEF LoadRide, IInv, TypeOK
<1>3. x \in Drives /\ x.pc = pc /\ x.fare = f
  BY <1>1, <1>2 DEF Drives, DrivePcs
<1>4. x \in Locals
  BY <1>3, LocalsForm
<1>5. proc' \in [Handlers -> Locals] /\ proc'[h] = x /\ Others(h)
  BY <1>1, <1>4, PutFacts DEF IInv
<1>6. UNCHANGED <<ride, market, money, clock>> /\ partner' # Nobody
  BY DEF LoadRide, ride
<1>7. CallSound(h)' /\ proc'[h].pc \notin Billing \cup Charging
  BY <1>3, <1>5, <1>6 DEF CallSound, Billing, Charging
<1> QED
  BY <1>5, <1>6, <1>7, QuietStep DEF IInv, TypeOK, clock

LEMMA CancelRideKeeps ==
    ASSUME IInv, NEW h \in Handlers, CancelRide(h)
    PROVE  IInv'
<1>1. PICK by \in {"customer", "admin"} :
         proc' = [proc EXCEPT ![h] = [pc |-> "cancel", by |-> by, read |-> status, who |-> partner]]
  BY DEF CancelRide, Enter
<1> DEFINE x == [pc |-> "cancel", by |-> by, read |-> status, who |-> partner]
<1>2. x \in Cancels /\ x.pc = "cancel"
  BY <1>1 DEF Cancels, CancelPcs, IInv, TypeOK
<1>3. x \in Locals
  BY <1>2, LocalsForm
<1>4. proc' \in [Handlers -> Locals] /\ proc'[h] = x /\ Others(h)
  BY <1>1, <1>3, PutFacts DEF IInv
<1>5. CallSound(h)' /\ proc'[h].pc \notin Billing \cup Charging
  BY <1>2, <1>4, FreeSound
<1>6. UNCHANGED <<ride, market, money, clock>>
  BY DEF CancelRide
<1> QED
  BY <1>4, <1>5, <1>6, QuietStep DEF IInv, TypeOK, clock

LEMMA CountOffersKeeps ==
    ASSUME IInv, NEW h \in Handlers, CountOffers(h)
    PROVE  IInv'
<1>1. UNCHANGED <<ride, market, money, clock>>
  BY DEF CountOffers
<1>2. CASE Return(h)
  BY <1>1, <1>2, ReturnSound, QuietStep DEF IInv, TypeOK, clock
<1>3. CASE ~Return(h)
  <2>1. PICK x : /\ x = [pc |-> IF status = "requested" THEN "search" ELSE "offer",
                         read |-> status, todo |-> Partners]
                 /\ proc' = [proc EXCEPT ![h] = x]
    BY <1>3 DEF CountOffers
  <2>2. x \in Matches /\ x.pc \in MatchPcs
    BY <2>1 DEF Matches, MatchPcs, IInv, TypeOK
  <2>3. x \in Locals
    BY <2>2, LocalsForm
  <2>4. proc' \in [Handlers -> Locals] /\ proc'[h] = x /\ Others(h)
    BY <2>1, <2>3, PutFacts DEF IInv
  <2>5. CallSound(h)' /\ proc'[h].pc \notin Billing \cup Charging
    BY <2>2, <2>4, FreeSound
  <2> QED
    BY <1>1, <2>4, <2>5, QuietStep DEF IInv, TypeOK, clock
<1> QED
  BY <1>2, <1>3

LEMMA VerifyOTPKeeps ==
    ASSUME IInv, NEW h \in Handlers, VerifyOTP(h)
    PROVE  IInv'
<1>1. UNCHANGED <<ride, market, money, clock>> /\ proc[h].pc = "otp"
  BY DEF VerifyOTP, At
<1>2. CASE Return(h)
  BY <1>1, <1>2, ReturnSound, QuietStep DEF IInv, TypeOK, clock
<1>3. CASE Goto(h, "verify")
  <2>1. "otp" \in DrivePcs /\ "verify" \in DrivePcs
    BY DEF DrivePcs
  <2>2. proc' \in [Handlers -> Locals] /\ Others(h) /\ proc'[h].pc = "verify"
    BY <1>1, <1>3, <2>1, GotoDrive DEF IInv
  <2>3. partner' # Nobody
    BY <1>1, <2>1 DEF IInv, CallSound, ride
  <2>4. CallSound(h)' /\ proc'[h].pc \notin Billing \cup Charging
    BY <2>2, <2>3 DEF CallSound, Billing, Charging
  <2> QED
    BY <1>1, <2>2, <2>4, QuietStep DEF IInv, TypeOK, clock
<1> QED
  BY <1>2, <1>3 DEF VerifyOTP

\* A call that ends lets go of its row locks and of nothing else.
LEMMA EndKeeps ==
    ASSUME IInv, NEW h \in Handlers, Return(h), locks' \in [Partners -> Handlers \cup {Nobody}],
           \A p \in Partners : locks[p] # h => locks'[p] = locks[p],
           UNCHANGED <<ride, offers, beaten, money, clock>>
    PROVE  IInv'
<1>1. /\ proc' \in [Handlers -> Locals] /\ Others(h)
      /\ CallSound(h)' /\ proc'[h].pc \notin Billing \cup Charging
  BY ReturnSound DEF IInv
<1>2. TypeOK'
  BY <1>1 DEF IInv, TypeOK, ride, money, clock
<1>3. RideSound'
  BY RideSoundStays DEF IInv, ride
<1>4. ASSUME NEW g \in Handlers \ {h} PROVE Frame(g)
  BY RideStays, MoneyStays DEF Frame, MarketFrame, Undecided, ride
<1> QED
  BY <1>1, <1>2, <1>3, <1>4, OneStep

LEMMA StopKeeps ==
    ASSUME IInv, NEW h \in Handlers, Stop(h) \/ DeadlockVictim(h)
    PROVE  IInv'
<1>1. locks \in [Partners -> Handlers \cup {Nobody}]
  BY DEF IInv, TypeOK
<1>2. CASE Stop(h)
  BY <1>1, <1>2, EndKeeps DEF Stop
<1>3. CASE DeadlockVictim(h)
  <2>1. PICK p \in Partners : p = proc[h].who /\ locks[p] = h
    BY <1>3, LocalFacts DEF DeadlockVictim, At, IInv, CallSound, AcceptPcs, Accepts
  <2>2. locks' = [locks EXCEPT ![p] = Nobody]
    BY <1>3, <2>1 DEF DeadlockVictim
  <2> QED
    BY <1>1, <1>3, <2>1, <2>2, EndKeeps DEF DeadlockVictim
<1> QED
  BY <1>2, <1>3

-----------------------------------------------------------------------------
(* The offers *)

\* A step that changes offers keeps the winner and what was beaten.
LEMMA OffersSound ==
    ASSUME IInv, UNCHANGED <<ride, money>>, \A p \in beaten' : offers'[p] = "superseded",
           \A p \in Partners : offers[p] = "accepted" => offers'[p] = "accepted"
    PROVE  RideSound'
<1>1. partner' # Nobody => offers'[partner'] = "accepted"
  BY DEF IInv, RideSound, DriverHoldsOffer, ride, TypeOK
<1>2. DriverHoldsOffer'
  BY <1>1 DEF IInv, RideSound, DriverHoldsOffer, ride
<1> QED
  BY <1>2 DEF IInv, RideSound, ride, money, Fee

LEMMA BeatenFacts ==
    ASSUME IInv, NEW p \in beaten
    PROVE  p \in Partners /\ ~Undecided(p) /\ offers[p] \notin {"none", "accepted"}
BY DEF IInv, TypeOK, RideSound, Undecided

LEMMA LockOfferKeeps ==
    ASSUME IInv, NEW h \in Handlers, LockOffer(h)
    PROVE  IInv'
<1>1. PICK p \in Partners :
         /\ offers[p] = "sent" /\ locks[p] = Nobody /\ locks' = [locks EXCEPT ![p] = h]
         /\ proc' = [proc EXCEPT ![h] = [pc |-> "accepting", who |-> p]]
  BY DEF LockOffer, Enter, Free
<1> DEFINE x == [pc |-> "accepting", who |-> p]
<1>2. UNCHANGED <<ride, offers, beaten, money, clock>> /\ proc[h].pc = "idle"
  BY DEF LockOffer, Enter, At
<1>3. x \in Locals /\ x.pc = "accepting" /\ x.who = p
  BY <1>1, LocalsForm DEF Accepts, AcceptPcs
<1>4. proc' \in [Handlers -> Locals] /\ proc'[h] = x /\ Others(h)
  BY <1>1, <1>3, PutFacts DEF IInv
<1>5. locks' \in [Partners -> Handlers \cup {Nobody}] /\ locks'[p] = h
  BY <1>1 DEF IInv, TypeOK
<1>6. TypeOK'
  BY <1>2, <1>4, <1>5 DEF IInv, TypeOK, ride, money, clock
<1>7. RideSound'
  BY <1>2, RideSoundStays DEF IInv, ride
<1>8. CallSound(h)' /\ x.pc \notin Billing \cup Charging
  BY <1>1, <1>2, <1>3, <1>4, <1>5 DEF CallSound, Undecided, DrivePcs, Billing, Charging
<1>9. ASSUME NEW g \in Handlers \ {h} PROVE Frame(g)
  <2>1. g # Nobody
    BY RidesAssumption DEF RidesAssumption
  <2>2. \A q \in Partners : locks[q] = g => locks'[q] = g
    BY <1>1, <2>1 DEF IInv, TypeOK
  <2>3. MarketFrame(g)
    BY <1>2, <2>2 DEF MarketFrame, Undecided
  <2> QED
    BY <1>2, <2>3, RideStays, MoneyStays DEF Frame, ride
<1> QED
  BY <1>4, <1>6, <1>7, <1>8, <1>9, OneStep

LEMMA AcceptOfferKeeps ==
    ASSUME IInv, NEW h \in Handlers, AcceptOffer(h)
    PROVE  IInv'
<1>1. proc[h].pc = "accepting" /\ proc[h] \in Accepts
  BY LocalFacts DEF AcceptOffer, At, IInv, AcceptPcs
<1>2. PICK p \in Partners : p = proc[h].who /\ locks[p] = h /\ Undecided(p)
  BY <1>1 DEF IInv, CallSound, Accepts
<1>3. /\ \A q \in Siblings(p) : locks[q] = Nobody
      /\ offers' = [q \in Partners |-> IF q = p THEN "accepted"
                                       ELSE IF q \in Siblings(p) THEN "superseded" ELSE offers[q]]
      /\ beaten' = beaten \cup Siblings(p)
      /\ locks' = [locks EXCEPT ![p] = Nobody]
      /\ Goto(h, "accepted")
      /\ UNCHANGED <<ride, money, clock>>
  BY <1>2 DEF AcceptOffer, Free
<1>4. /\ proc' \in [Handlers -> Locals] /\ Others(h)
      /\ proc'[h].pc = "accepted" /\ proc'[h].who = p
  BY <1>1, <1>2, <1>3, GotoAccept DEF IInv, AcceptPcs
<1>5. offers' \in [Partners -> OfferStatuses]
  BY <1>3 DEF IInv, TypeOK, OfferStatuses
<1>6. beaten' \subseteq Partners /\ locks' \in [Partners -> Handlers \cup {Nobody}]
  BY <1>3 DEF IInv, TypeOK, Siblings
<1>7. TypeOK'
  BY <1>3, <1>4, <1>5, <1>6 DEF IInv, TypeOK, ride, money, clock
<1>8. \A q \in beaten' : offers'[q] = "superseded"
  <2> SUFFICES ASSUME NEW q \in beaten' PROVE offers'[q] = "superseded"
    OBVIOUS
  <2>1. CASE q \in Siblings(p)
    BY <1>3, <2>1 DEF Siblings
  <2>2. CASE q \in beaten
    <3>1. q \in Partners /\ q # p /\ q \notin Siblings(p) /\ offers[q] = "superseded"
      BY <1>2, <2>2, BeatenFacts DEF IInv, RideSound, Siblings
    <3> QED
      BY <1>3, <3>1
  <2> QED
    BY <1>3, <2>1, <2>2
<1>9. \A q \in Partners : offers[q] = "accepted" => offers'[q] = "accepted"
  BY <1>3 DEF Siblings, Undecided
<1>10. RideSound'
  BY <1>3, <1>8, <1>9, OffersSound
<1>11. CallSound(h)' /\ proc'[h].pc \notin Billing \cup Charging
  <2>1. offers'[p] = "accepted"
    BY <1>3
  <2> QED
    BY <1>4, <2>1 DEF CallSound, DrivePcs, Billing, Charging
<1>12. ASSUME NEW g \in Handlers \ {h} PROVE Frame(g)
  <2>1. ASSUME NEW q \in Partners, locks[q] = g
        PROVE  locks'[q] = g /\ offers'[q] = offers[q]
    <3>1. g # Nobody /\ q # p
      BY <1>2, <2>1, RidesAssumption DEF RidesAssumption
    <3>2. q \notin Siblings(p)
      BY <1>3, <2>1, <3>1
    <3> QED
      BY <1>3, <2>1, <3>1, <3>2 DEF IInv, TypeOK
  <2>2. MarketFrame(g)
    BY <1>9, <2>1 DEF MarketFrame, Undecided
  <2> QED
    BY <1>3, <2>2, RideStays, MoneyStays DEF Frame, ride
<1> QED
  BY <1>4, <1>7, <1>10, <1>11, <1>12, OneStep

\* A step that decides or creates offers nobody has locked.
LEMMA OfferStepKeeps ==
    ASSUME IInv, UNCHANGED <<ride, locks, beaten, money, clock>>,
           offers' \in [Partners -> OfferStatuses],
           \A p \in Partners : offers[p] \in {"accepted", "superseded"} => offers'[p] = offers[p],
           \A p \in Partners : locks[p] # Nobody /\ Undecided(p) => Undecided(p)'
    PROVE  /\ RideSound'
           /\ \A g \in Handlers : Frame(g)
           /\ proc' \in [Handlers -> Locals] => TypeOK'
<1>1. \A p \in beaten' : offers'[p] = "superseded"
  BY DEF IInv, TypeOK, RideSound
<1>2. RideSound'
  BY <1>1, OffersSound
<1>3. ASSUME NEW g \in Handlers PROVE Frame(g)
  <2>1. g # Nobody
    BY RidesAssumption DEF RidesAssumption
  <2>2. MarketFrame(g)
    BY <2>1 DEF MarketFrame
  <2> QED
    BY <2>2, RideStays, MoneyStays DEF Frame, ride
<1>4. proc' \in [Handlers -> Locals] => TypeOK'
  BY DEF IInv, TypeOK, ride, money, clock
<1> QED
  BY <1>2, <1>3, <1>4

LEMMA CreateRideOfferKeeps ==
    ASSUME IInv, NEW h \in Handlers, CreateRideOffer(h)
    PROVE  IInv'
<1>1. UNCHANGED <<ride, locks, beaten, money, clock>> /\ proc[h].pc = "offer"
  BY DEF CreateRideOffer, At
<1>2. offers' = offers \/ \E p \in Partners : offers[p] = "none" /\ offers' = [offers EXCEPT ![p] = "sent"]
  <2>1. proc[h] \in Matches
    BY <1>1, LocalFacts DEF IInv, MatchPcs
  <2> QED
    BY <2>1 DEF CreateRideOffer, Matches
<1>3. offers' \in [Partners -> OfferStatuses]
  BY <1>2 DEF IInv, TypeOK, OfferStatuses
<1>4. \A p \in Partners : offers[p] # "none" => offers'[p] = offers[p]
  BY <1>2 DEF IInv, TypeOK
<1>5. \A p \in Partners : Undecided(p) => Undecided(p)'
  BY <1>4 DEF Undecided
<1>6. /\ proc' \in [Handlers -> Locals] /\ Others(h)
      /\ CallSound(h)' /\ proc'[h].pc \notin Billing \cup Charging
  <2>1. CASE Return(h)
    BY <2>1, ReturnSound DEF IInv
  <2>2. CASE ~Return(h)
    <3> DEFINE r == proc[h]
    <3>1. r \in Matches
      BY <1>1, LocalFacts DEF IInv, MatchPcs
    <3>2. PICK p : proc' = [proc EXCEPT ![h] = [r EXCEPT !.todo = @ \ {p}]]
      BY <2>2 DEF CreateRideOffer
    <3> HIDE DEF r
    <3> DEFINE x == [r EXCEPT !.todo = @ \ {p}]
    <3>3. x \in Matches
      BY <3>1 DEF Matches
    <3>4. x \in Locals /\ x.pc \in MatchPcs /\ proc' = [proc EXCEPT ![h] = x]
      BY <3>2, <3>3, LocalsForm DEF Matches
    <3> HIDE DEF x
    <3>5. proc' \in [Handlers -> Locals] /\ proc'[h] = x /\ Others(h)
      BY <3>4, PutFacts DEF IInv
    <3> QED
      BY <3>4, <3>5, FreeSound
  <2> QED
    BY <2>1, <2>2
<1>7. /\ RideSound' /\ TypeOK'
      /\ \A g \in Handlers : Frame(g)
  BY <1>1, <1>3, <1>4, <1>5, <1>6, OfferStepKeeps
<1> QED
  BY <1>6, <1>7, OneStep

LEMMA RejectOfferKeeps ==
    ASSUME IInv, NEW h \in Handlers, RejectOffer(h)
    PROVE  IInv'
<1>1. PICK p \in Partners :
         /\ Undecided(p) /\ locks[p] = Nobody /\ offers' = [offers EXCEPT ![p] = "rejected"]
         /\ proc' = [proc EXCEPT ![h] = [pc |-> "count", read |-> status, todo |-> {}]]
  BY DEF RejectOffer, Enter, Free
<1> DEFINE x == [pc |-> "count", read |-> status, todo |-> {}]
<1>2. UNCHANGED <<ride, locks, beaten, money, clock>>
  BY DEF RejectOffer
<1>3. x \in Matches /\ x.pc \in MatchPcs
  BY <1>1 DEF Matches, MatchPcs, IInv, TypeOK
<1>4. x \in Locals
  BY <1>3, LocalsForm
<1>5. proc' \in [Handlers -> Locals] /\ proc'[h] = x /\ Others(h)
  BY <1>1, <1>4, PutFacts DEF IInv
<1>6. CallSound(h)' /\ proc'[h].pc \notin Billing \cup Charging
  BY <1>3, <1>5, FreeSound
<1>7. /\ offers' \in [Partners -> OfferStatuses]
      /\ \A q \in Partners : q # p => offers'[q] = offers[q]
  BY <1>1 DEF IInv, TypeOK, OfferStatuses
<1>8. \A q \in Partners : offers[q] \in {"accepted", "superseded"} => offers'[q] = offers[q]
  BY <1>1, <1>7 DEF Undecided
<1>9. \A q \in Partners : locks[q] # Nobody /\ Undecided(q) => Undecided(q)'
  BY <1>1, <1>7 DEF Undecided
<1>10. /\ RideSound' /\ TypeOK'
       /\ \A g \in Handlers : Frame(g)
  BY <1>2, <1>5, <1>7, <1>8, <1>9, OfferStepKeeps
<1> QED
  BY <1>5, <1>6, <1>10, OneStep

LEMMA LapseKeeps ==
    ASSUME IInv, NEW p \in Partners, Lapse(p)
    PROVE  IInv'
<1>1. /\ offers' \in [Partners -> OfferStatuses]
      /\ \A q \in Partners : offers'[q] = IF q = p THEN "lapsed" ELSE offers[q]
      /\ offers[p] = "sent"
  BY DEF Lapse, IInv, TypeOK, OfferStatuses
<1>2. UNCHANGED <<ride, locks, beaten, money, clock, proc>>
  BY DEF Lapse
<1>3. \A q \in Partners : offers[q] \in {"accepted", "superseded"} => offers'[q] = offers[q]
  BY <1>1
<1>4. \A q \in Partners : Undecided(q) => Undecided(q)'
  BY <1>1 DEF Undecided
<1>5. /\ RideSound' /\ TypeOK'
      /\ \A g \in Handlers : Frame(g)
  BY <1>1, <1>2, <1>3, <1>4, OfferStepKeeps DEF IInv, TypeOK
<1> QED
  BY <1>2, <1>5, NoCall

LEMMA ExpireStaleOffersKeeps ==
    ASSUME IInv, ExpireStaleOffers
    PROVE  IInv'
<1>1. /\ offers' = [p \in Partners |-> IF p \in LapsedOffers THEN "expired" ELSE offers[p]]
      /\ \A p \in LapsedOffers : locks[p] = Nobody
      /\ UNCHANGED <<ride, locks, beaten, money, clock, proc>>
  BY DEF ExpireStaleOffers, Free
<1>2. offers' \in [Partners -> OfferStatuses]
  BY <1>1 DEF IInv, TypeOK, OfferStatuses
<1>3. \A q \in Partners : offers[q] \in {"accepted", "superseded"} => offers'[q] = offers[q]
  BY <1>1 DEF LapsedOffers
<1>4. \A q \in Partners : locks[q] # Nobody /\ Undecided(q) => Undecided(q)'
  BY <1>1 DEF Undecided
<1>5. /\ RideSound' /\ TypeOK'
      /\ \A g \in Handlers : Frame(g)
  BY <1>1, <1>2, <1>3, <1>4, OfferStepKeeps DEF IInv, TypeOK
<1> QED
  BY <1>1, <1>5, NoCall

-----------------------------------------------------------------------------
(* The status of the ride *)

\* Until the ride has ended nothing is owed, so its status may move freely; it
\* leaves the search only with a partner.
LEMMA StatusMoves ==
    ASSUME IInv, status \notin Ended, UNCHANGED <<partner, fee, offers, beaten, money>>,
           status' \in OnTheWay \cup {"completed"} => partner # Nobody
    PROVE  RideSound' /\ RideFrame
<1>1. fee = None /\ payments = <<>> /\ debits["fare"] = 0 /\ debits["fee"] = 0
  BY StatusFacts DEF IInv, RideSound
<1>2. fee' = None /\ payments' = <<>> /\ debits'["fare"] = 0 /\ debits'["fee"] = 0
  BY <1>1 DEF money
<1>3. DriverHoldsOffer'
  BY DEF IInv, RideSound, DriverHoldsOffer
<1>4. Len(payments') = 0
  BY <1>2
<1>5. \A p \in beaten' : offers'[p] = "superseded"
  BY DEF IInv, RideSound
<1> QED
  BY <1>2, <1>3, <1>4, <1>5 DEF RideSound, RideFrame

LEMMA CanMoveFacts ==
    ASSUME NEW h, NEW to, CanMove(h, to)
    PROVE  /\ status = proc[h].read /\ <<status, to>> \in Allowed
           /\ status \in Open \cup OnTheWay /\ status \notin Ended
           /\ status # "completed" /\ status \notin Cancelled
BY AllowedFacts, StatusFacts DEF CanMove

LEMMA StartSearchKeeps ==
    ASSUME IInv, NEW h \in Handlers, StartSearch(h)
    PROVE  IInv'
<1>1. proc[h].pc = "search" /\ UNCHANGED <<partner, fare, fee, market, money>>
  BY DEF StartSearch, At
<1>2. CASE ~CanMove(h, "searching_partner")
  <2>1. Return(h) /\ UNCHANGED <<status, left, clock>>
    BY <1>2 DEF StartSearch
  <2> QED
    BY <1>1, <2>1, ReturnSound, QuietStep DEF IInv, TypeOK, clock, ride
<1>3. CASE CanMove(h, "searching_partner")
  <2>1. Move(h, "searching_partner", "offer")
    BY <1>3 DEF StartSearch
  <2> DEFINE r == proc[h]
             x == [r EXCEPT !.pc = "offer", !.read = "searching_partner"]
  <2>2. r \in Matches
    BY <1>1, LocalFacts DEF IInv, MatchPcs
  <2>3. proc' = [proc EXCEPT ![h] = x]
    BY <2>1 DEF Move, IInv, TypeOK
  <2> HIDE DEF r
  <2>4. x \in Matches /\ x.pc \in MatchPcs
    BY <2>2 DEF Matches, MatchPcs, Statuses, Open
  <2>5. x \in Locals
    BY <2>4, LocalsForm
  <2> HIDE DEF x
  <2>6. proc' \in [Handlers -> Locals] /\ proc'[h] = x /\ Others(h)
    BY <2>3, <2>5, PutFacts DEF IInv
  <2>7. CallSound(h)' /\ proc'[h].pc \notin Billing \cup Charging
    BY <2>4, <2>6, FreeSound
  <2>8. status' = "searching_partner" /\ left' = left /\ old' = FALSE /\ listed' = listed
    BY <2>1 DEF Move, Touch, Ended
  <2>9. TypeOK'
    BY <1>1, <2>6, <2>8 DEF IInv, TypeOK, Statuses, Open, market, money
  <2>10. RideSound' /\ RideFrame
    BY <1>1, <1>3, <2>8, CanMoveFacts, StatusMoves DEF market, OnTheWay
  <2>11. ASSUME NEW g \in Handlers \ {h} PROVE Frame(g)
    BY <1>1, <2>10, MarketStays, MoneyStays DEF Frame, market
  <2> QED
    BY <2>6, <2>7, <2>9, <2>10, <2>11, OneStep
<1> QED
  BY <1>2, <1>3

LEMMA AssignRidePartnerKeeps ==
    ASSUME IInv, NEW h \in Handlers, AssignRidePartner(h)
    PROVE  IInv'
<1>1. proc[h].pc = "accepted" /\ UNCHANGED <<status, left, fare, fee, market, money>>
  BY DEF AssignRidePartner, At
<1>2. CASE Return(h) /\ UNCHANGED <<partner, clock>>
  BY <1>1, <1>2, ReturnSound, QuietStep DEF IInv, TypeOK, clock, ride
<1>3. CASE partner' = proc[h].who /\ Touch /\ Goto(h, "assigned")
  <2>1. PICK p \in Partners : p = proc[h].who /\ offers[p] = "accepted"
    BY <1>1, LocalFacts DEF IInv, CallSound, AcceptPcs, Accepts
  <2>2. /\ proc' \in [Handlers -> Locals] /\ Others(h)
        /\ proc'[h].pc = "assigned" /\ proc'[h].who = p
    BY <1>1, <1>3, <2>1, GotoAccept DEF IInv, AcceptPcs
  <2>3. partner' = p /\ p # Nobody /\ offers' = offers /\ old' = FALSE /\ listed' = listed
    BY <1>1, <1>3, <2>1, RidesAssumption DEF RidesAssumption, Touch, market
  <2>4. TypeOK'
    BY <1>1, <2>2, <2>3 DEF IInv, TypeOK, market, money
  <2>5. CallSound(h)' /\ proc'[h].pc \notin Billing \cup Charging
    BY <2>1, <2>2, <2>3 DEF CallSound, DrivePcs, Billing, Charging
  <2>6. DriverHoldsOffer'
    BY <1>1, <2>1, <2>3 DEF DriverHoldsOffer
  <2>7. RideSound'
    BY <1>1, <2>6 DEF IInv, RideSound, market, money, Fee
  <2>8. RideFrame
    BY <1>1, <2>3 DEF RideFrame
  <2>9. ASSUME NEW g \in Handlers \ {h} PROVE Frame(g)
    BY <1>1, <2>8, MarketStays, MoneyStays DEF Frame, market
  <2> QED
    BY <2>2, <2>4, <2>5, <2>7, <2>9, OneStep
<1> QED
  BY <1>2, <1>3 DEF AssignRidePartner

LEMMA TakeRideKeeps ==
    ASSUME IInv, NEW h \in Handlers, TakeRide(h)
    PROVE  IInv'
<1>1. /\ proc[h].pc = "assigned" /\ Return(h)
      /\ UNCHANGED <<left, partner, fare, fee, market, money>>
  BY DEF TakeRide, At
<1>2. CASE status # "searching_partner"
  BY <1>1, <1>2, ReturnSound, QuietStep DEF TakeRide, IInv, TypeOK, clock, ride
<1>3. CASE status = "searching_partner"
  <2>1. status' = "partner_assigned" /\ old' = FALSE /\ listed' = listed
    BY <1>3 DEF TakeRide, Touch
  <2>2. partner # Nobody
    BY <1>1 DEF IInv, CallSound
  <2>3. /\ proc' \in [Handlers -> Locals] /\ Others(h)
        /\ CallSound(h)' /\ proc'[h].pc \notin Billing \cup Charging
    BY <1>1, ReturnSound DEF IInv
  <2>4. TypeOK'
    BY <1>1, <2>1, <2>3 DEF IInv, TypeOK, Statuses, OnTheWay, market, money
  <2>5. status \notin Ended
    BY <1>3 DEF Ended
  <2>6. RideSound' /\ RideFrame
    BY <1>1, <2>1, <2>2, <2>5, StatusMoves DEF market
  <2>7. ASSUME NEW g \in Handlers \ {h} PROVE Frame(g)
    BY <1>1, <2>6, MarketStays, MoneyStays DEF Frame, market
  <2> QED
    BY <2>3, <2>4, <2>6, <2>7, OneStep
<1> QED
  BY <1>2, <1>3

LEMMA EnvironmentKeeps ==
    ASSUME IInv, ActivateScheduledRide \/ GrowOld \/ ListStuckRides \/ ExpireRide
    PROVE  IInv'
<1>1. UNCHANGED <<partner, fare, fee, market, money, proc>>
  BY DEF ActivateScheduledRide, GrowOld, ListStuckRides, ExpireRide, ride
<1>2. old' \in BOOLEAN /\ listed' \in BOOLEAN
  BY DEF ActivateScheduledRide, GrowOld, ListStuckRides, ExpireRide, IInv, TypeOK, clock
<1>3. CASE UNCHANGED <<status, left>>
  <2>1. TypeOK'
    BY <1>1, <1>2, <1>3 DEF IInv, TypeOK, market, money
  <2>2. RideSound'
    BY <1>1, <1>3, RideSoundStays DEF IInv, ride, market
  <2>3. \A g \in Handlers : Frame(g)
    BY <1>1, <1>3, RideStays, MarketStays, MoneyStays DEF Frame, market
  <2> QED
    BY <1>1, <2>1, <2>2, <2>3, NoCall
<1>4. CASE ~UNCHANGED <<status, left>>
  <2>1. /\ status \in Open \cup {"scheduled"} /\ status' \in {"requested", "expired"}
        /\ left' \in {left, status}
    BY <1>4 DEF ActivateScheduledRide, GrowOld, ListStuckRides, ExpireRide, ride
  <2>2. status \notin Ended /\ status' \notin OnTheWay \cup {"completed"} /\ status' \in Statuses
    BY <2>1, StatusFacts DEF OnTheWay, Ended, Statuses, Open
  <2>3. TypeOK'
    BY <1>1, <1>2, <2>1, <2>2 DEF IInv, TypeOK, market, money
  <2>4. RideSound' /\ RideFrame
    BY <1>1, <2>2, StatusMoves DEF market
  <2>5. \A g \in Handlers : Frame(g)
    BY <1>1, <2>4, MarketStays, MoneyStays DEF Frame, market
  <2> QED
    BY <1>1, <2>3, <2>4, <2>5, NoCall
<1> QED
  BY <1>3, <1>4

-----------------------------------------------------------------------------
(* The ride on the road *)

Roads == {<<"arriving", "partner_arriving", "done">>, <<"arrived", "arrived", "done">>,
          <<"verify", "otp_verified", "drive">>, <<"drive", "in_progress", "done">>,
          <<"complete", "completed", "bill">>}

LEMMA RoadFacts ==
    ASSUME NEW from, NEW to, NEW then, <<from, to, then>> \in Roads
    PROVE  /\ from \in DrivePcs /\ from \notin Billing /\ to \in OnTheWay \cup {"completed"}
           /\ then \in {"done", "drive", "bill"}
           /\ then # "bill" => to \in OnTheWay
           /\ then = "bill" => from = "complete" /\ to = "completed"
BY DEF Roads, DrivePcs, Billing, OnTheWay

LEMMA TransitionKeeps ==
    ASSUME IInv, NEW h \in Handlers, NEW from, NEW to, NEW then,
           <<from, to, then>> \in Roads, Transition(h, from, to, then)
    PROVE  IInv'
<1>1. proc[h].pc = from /\ UNCHANGED <<partner, fare, fee, market, money>>
  BY DEF Transition, At
<1>2. proc[h] \in Drives /\ partner # Nobody
  BY <1>1, RoadFacts, LocalFacts DEF IInv, CallSound
<1>3. CASE ~CanMove(h, to)
  <2>1. /\ Return(h) /\ UNCHANGED <<status, left>>
        /\ old' \in BOOLEAN /\ listed' \in BOOLEAN
    BY <1>3 DEF Transition, Touch, clock, IInv, TypeOK
  <2> QED
    BY <1>1, <2>1, ReturnSound, QuietStep DEF IInv, ride
<1>4. CASE CanMove(h, to)
  <2>1. status \notin Ended /\ status # "completed" /\ status \notin Cancelled /\ status \in Statuses
    BY <1>4, CanMoveFacts DEF IInv, TypeOK
  <2>2. status' = to /\ left' \in {left, status} /\ old' = FALSE /\ listed' = listed
    BY <1>4 DEF Transition, Move, Touch
  <2>3. RideSound' /\ RideFrame
    BY <1>1, <1>2, <2>1, StatusMoves DEF market
  <2>4. ASSUME NEW g \in Handlers \ {h} PROVE Frame(g)
    BY <1>1, <2>3, MarketStays, MoneyStays DEF Frame, market
  <2>5. to \in Statuses
    BY RoadFacts, StatusFacts
  <2>6. proc' \in [Handlers -> Locals] => TypeOK'
    BY <1>1, <2>1, <2>2, <2>5 DEF IInv, TypeOK, market, money
  <2>7. CASE then = "done"
    <3>1. Return(h)
      BY <1>4, <2>7 DEF Transition
    <3> QED
      BY <2>3, <2>4, <2>6, <3>1, ReturnSound, OneStep DEF IInv
  <2>8. CASE then # "done"
    <3> DEFINE r == proc[h]
               x == [r EXCEPT !.pc = then, !.read = to]
    <3>1. then \in {"drive", "bill"}
      BY <2>8, RoadFacts
    <3>2. proc' = [proc EXCEPT ![h] = x]
      BY <1>4, <2>8 DEF Transition, Move, IInv, TypeOK
    <3>3. r \in Drives /\ (then = "bill" => r.fare \in Fares)
      BY <1>1, <1>2, RoadFacts DEF IInv, CallSound
    <3> HIDE DEF r
    <3>4. x \in Drives /\ x.pc = then /\ x.fare = r.fare
      BY <2>5, <3>1, <3>3 DEF Drives, DrivePcs
    <3>5. x \in Locals
      BY <3>4, LocalsForm
    <3> HIDE DEF x
    <3>6. proc' \in [Handlers -> Locals] /\ proc'[h] = x /\ Others(h)
      BY <3>2, <3>5, PutFacts DEF IInv
    <3>7. payments' = <<>> /\ debits'["fare"] = 0 /\ partner' # Nobody
      BY <1>1, <1>2, <2>1 DEF IInv, RideSound, money
    <3>8. then = "bill" => status' = "completed"
      BY <2>2, RoadFacts
    <3>9. CallSound(h)' /\ proc'[h].pc \notin Charging
      BY <3>1, <3>3, <3>4, <3>6, <3>7, <3>8 DEF CallSound, Billing, Charging
    <3> QED
      BY <2>1, <2>3, <2>4, <2>6, <3>6, <3>9, OneStep
  <2> QED
    BY <2>7, <2>8
<1> QED
  BY <1>3, <1>4

LEMMA FinalizeRideKeeps ==
    ASSUME IInv, NEW h \in Handlers, FinalizeRide(h)
    PROVE  IInv'
<1>1. /\ proc[h].pc = "finalize" /\ fare' = proc[h].fare /\ old' = FALSE /\ listed' = listed
      /\ Goto(h, "complete") /\ UNCHANGED <<status, left, partner, fee, market, money>>
  BY DEF FinalizeRide, At, Touch
<1>2. fare' \in Fares /\ partner # Nobody
  BY <1>1 DEF IInv, CallSound, DrivePcs
<1>3. /\ proc' \in [Handlers -> Locals] /\ Others(h)
      /\ proc'[h].pc = "complete" /\ proc'[h].fare = fare'
  BY <1>1, GotoDrive DEF IInv, DrivePcs
<1>4. TypeOK'
  BY <1>1, <1>2, <1>3 DEF IInv, TypeOK, market, money
<1>5. RideSound'
  BY <1>1, RideSoundStays DEF IInv, market
<1>6. CallSound(h)' /\ proc'[h].pc \notin Billing \cup Charging
  BY <1>1, <1>2, <1>3 DEF CallSound, Billing, Charging
<1>7. ASSUME NEW g \in Handlers \ {h} PROVE Frame(g)
  BY <1>1, RideStays, MarketStays, MoneyStays DEF Frame, market
<1> QED
  BY <1>3, <1>4, <1>5, <1>6, <1>7, OneStep

\* What a call that bills, or charges, may count on.
LEMMA MoneyFacts ==
    ASSUME IInv, NEW h \in Handlers
    PROVE  /\ proc[h].pc \in Billing => /\ status = "completed" /\ partner # Nobody
                                        /\ \A g \in Handlers \ {h} : proc[g].pc \notin Billing
           /\ proc[h].pc \in Charging => /\ status \in Cancelled /\ left = proc[h].read
                                         /\ debits["fee"] = 0
                                         /\ \A g \in Handlers \ {h} : proc[g].pc \notin Charging
BY PcSets DEF IInv, CallSound, Solo, CancelledBy, Cancelled

LEMMA CreateRidePaymentKeeps ==
    ASSUME IInv, NEW h \in Handlers, CreateRidePayment(h)
    PROVE  IInv'
<1> DEFINE x == [amount |-> proc[h].fare, status |-> "pending"]
<1>1. /\ proc[h].pc = "bill" /\ payments' = Append(payments, x)
      /\ Goto(h, "debit") /\ UNCHANGED <<ride, market, debits, clock>>
  BY DEF CreateRidePayment, At
<1>2. /\ x \in Bills /\ payments = <<>> /\ debits["fare"] = 0
  BY <1>1 DEF IInv, CallSound, Bills
<1>3. payments' \in Seq(Bills) /\ Len(payments') = 1
  <2>1. payments \in Seq(Bills)
    BY DEF IInv, TypeOK, Bills
  <2> QED
    BY <1>1, <1>2, <2>1, AppendProperties
<1> HIDE DEF x
<1>4. proc' \in [Handlers -> Locals] /\ Others(h) /\ proc'[h].pc = "debit"
  BY <1>1, GotoDrive DEF IInv, DrivePcs
<1>5. TypeOK'
  BY <1>1, <1>3, <1>4 DEF IInv, TypeOK, Bills, ride, market, clock
<1>6. status = "completed" /\ partner # Nobody
  BY <1>1, MoneyFacts DEF Billing
<1>7. RideSound'
  BY <1>1, <1>3, <1>6 DEF IInv, RideSound, DriverHoldsOffer, ride, market, Fee
<1>8. CallSound(h)' /\ proc'[h].pc \notin Charging
  BY <1>1, <1>2, <1>3, <1>4, <1>6 DEF CallSound, Billing, Charging, ride
<1>9. ASSUME NEW g \in Handlers \ {h} PROVE Frame(g)
  <2>1. MoneyFrame(g)
    BY <1>1, MoneyFacts DEF MoneyFrame, Billing
  <2> QED
    BY <1>1, <2>1, RideStays, MarketStays DEF Frame, ride, market
<1> QED
  BY <1>1, <1>4, <1>5, <1>7, <1>8, <1>9, OneStep DEF Billing

LEMMA SettlePaymentKeeps ==
    ASSUME IInv, NEW h \in Handlers, SettlePayment(h)
    PROVE  IInv'
<1>1. /\ proc[h].pc = "debit" /\ UNCHANGED <<ride, market, payments, clock>>
      /\ debits' \in {debits, [debits EXCEPT !["fare"] = @ + 1]}
      /\ Return(h) \/ Goto(h, "paid") \/ Goto(h, "unpaid")
  BY DEF SettlePayment, At
<1>2. /\ Len(payments) = 1 /\ debits["fare"] = 0 /\ status = "completed" /\ partner # Nobody
  BY <1>1, MoneyFacts DEF IInv, CallSound, Billing
<1>3. debits' \in [{"fare", "fee"} -> 0..1] /\ debits'["fee"] = debits["fee"]
  BY <1>1, <1>2 DEF IInv, TypeOK
<1>4. /\ proc' \in [Handlers -> Locals] /\ Others(h)
      /\ proc'[h].pc \in {"idle", "paid", "unpaid"}
  BY <1>1, GotoDrive, ReturnFacts DEF IInv, DrivePcs
<1>5. TypeOK'
  BY <1>1, <1>3, <1>4 DEF IInv, TypeOK, ride, market, clock
<1>6. RideSound'
  BY <1>1, <1>2, <1>3 DEF IInv, RideSound, DriverHoldsOffer, ride, market, Fee
<1>7. CallSound(h)' /\ proc'[h].pc \notin Charging
  BY <1>1, <1>2, <1>4 DEF CallSound, DrivePcs, Billing, Charging, ride
<1>8. ASSUME NEW g \in Handlers \ {h} PROVE Frame(g)
  <2>1. MoneyFrame(g)
    BY <1>1, <1>3, MoneyFacts DEF MoneyFrame, Billing
  <2> QED
    BY <1>1, <2>1, RideStays, MarketStays DEF Frame, ride, market
<1> QED
  BY <1>1, <1>4, <1>5, <1>6, <1>7, <1>8, OneStep DEF Billing

LEMMA MarkPaymentKeeps ==
    ASSUME IInv, NEW h \in Handlers, MarkPayment(h)
    PROVE  IInv'
<1>1. PICK s \in {"succeeded", "failed"} :
         payments' = [payments EXCEPT ![Len(payments)].status = s]
  BY DEF MarkPayment
<1>2. /\ proc[h].pc \in {"paid", "unpaid"} /\ Return(h)
      /\ UNCHANGED <<ride, market, debits, clock>>
  BY DEF MarkPayment, At
<1>3. status = "completed" /\ partner # Nobody /\ Len(payments) = 1
  BY <1>2, MoneyFacts DEF IInv, CallSound, Billing
<1>4. payments' \in Seq(Bills) /\ Len(payments') = 1
  <2> DEFINE y == payments[1]
             z == [y EXCEPT !.status = s]
  <2>1. payments \in Seq(Bills)
    BY DEF IInv, TypeOK, Bills
  <2>2. y \in Bills
    BY <1>3, <2>1
  <2>3. payments' = [payments EXCEPT ![1] = z]
    BY <1>1, <1>3
  <2> HIDE DEF y
  <2>4. z \in Bills
    BY <2>2 DEF Bills
  <2> HIDE DEF z
  <2> QED
    BY <1>3, <2>1, <2>3, <2>4, ExceptSeq
<1>5. /\ proc' \in [Handlers -> Locals] /\ Others(h)
      /\ CallSound(h)' /\ proc'[h].pc \notin Billing \cup Charging
  BY <1>2, ReturnSound DEF IInv
<1>6. TypeOK'
  BY <1>2, <1>4, <1>5 DEF IInv, TypeOK, Bills, ride, market, clock
<1>7. RideSound'
  BY <1>2, <1>3, <1>4 DEF IInv, RideSound, DriverHoldsOffer, ride, market, Fee
<1>8. ASSUME NEW g \in Handlers \ {h} PROVE Frame(g)
  <2>1. MoneyFrame(g)
    BY <1>2, MoneyFacts DEF MoneyFrame, Billing
  <2> QED
    BY <1>2, <2>1, RideStays, MarketStays DEF Frame, ride, market
<1> QED
  BY <1>5, <1>6, <1>7, <1>8, OneStep

-----------------------------------------------------------------------------
(* The ride called off *)

LEMMA CancelTransitionKeeps ==
    ASSUME IInv, NEW h \in Handlers, CancelTransition(h)
    PROVE  IInv'
<1>1. PICK r \in Cancels : r = proc[h]
  BY LocalFacts DEF CancelTransition, At, IInv, CancelPcs
<1>2. PICK to : to = CancelledBy(r.by)
  OBVIOUS
<1>3. to \in Cancelled /\ to \in Statuses /\ to \notin OnTheWay \cup {"completed"}
  BY <1>2 DEF CancelledBy, Cancelled, Statuses, Ended, OnTheWay
<1>4. proc[h].pc = "cancel" /\ UNCHANGED <<partner, fare, fee, market, money>>
  BY DEF CancelTransition, At
<1>5. CASE ~CanMove(h, to)
  <2>1. Return(h) /\ UNCHANGED <<status, left, clock>>
    BY <1>1, <1>2, <1>5 DEF CancelTransition
  <2> QED
    BY <1>4, <2>1, ReturnSound, QuietStep DEF IInv, TypeOK, clock, ride
<1>6. CASE CanMove(h, to)
  <2>1. status' = to /\ left' = status /\ old' = FALSE /\ listed' = listed /\ Goto(h, "fee")
    BY <1>1, <1>2, <1>6 DEF CancelTransition, Touch
  <2>2. /\ status \notin Ended /\ status \notin Cancelled
        /\ status = r.read /\ status \in Statuses
    BY <1>1, <1>6, CanMoveFacts DEF IInv, TypeOK
  <2>3. /\ proc' \in [Handlers -> Locals] /\ Others(h)
        /\ proc'[h].pc = "fee" /\ proc'[h].by = r.by /\ proc'[h].read = r.read
    BY <1>1, <1>4, <2>1, GotoCancel DEF IInv, CancelPcs
  <2>4. TypeOK'
    BY <1>3, <1>4, <2>1, <2>2, <2>3 DEF IInv, TypeOK, market, money
  <2>5. RideSound' /\ RideFrame
    BY <1>3, <1>4, <2>1, <2>2, StatusMoves DEF market
  <2>6. debits'["fee"] = 0
    BY <1>4, <2>2 DEF IInv, RideSound, money
  <2>7. status' = CancelledBy(r.by) /\ left' = r.read
    BY <1>2, <2>1, <2>2
  <2>8. CallSound(h)' /\ proc'[h].pc \notin Billing
    BY <2>3, <2>6, <2>7 DEF CallSound, DrivePcs, Billing, Charging, CancelledBy
  <2>9. ASSUME NEW g \in Handlers \ {h} PROVE Frame(g)
    BY <1>4, <2>5, MarketStays, MoneyStays DEF Frame, market
  <2> QED
    BY <2>2, <2>3, <2>4, <2>5, <2>8, <2>9, OneStep
<1> QED
  BY <1>5, <1>6

LEMMA MarkRideCancelledKeeps ==
    ASSUME IInv, NEW h \in Handlers, MarkRideCancelled(h)
    PROVE  IInv'
<1>1. PICK r \in Cancels : r = proc[h]
  BY LocalFacts DEF MarkRideCancelled, At, IInv, CancelPcs
<1>2. PICK d : d = Fee(r.read)
  OBVIOUS
<1>3. /\ r.pc = "fee" /\ fee' = d /\ old' = FALSE /\ listed' = listed
      /\ UNCHANGED <<status, left, partner, fare, market, money>>
  BY <1>1, <1>2 DEF MarkRideCancelled, At, Touch
<1>4. /\ status = CancelledBy(r.by) /\ left = r.read /\ debits["fee"] = 0
      /\ status \in Cancelled
  BY <1>1, <1>3, MoneyFacts DEF IInv, CallSound, Charging
<1>5. d \in 0..100
  BY <1>1, <1>2, FeeFacts DEF Cancels
<1>6. RideSound'
  <2>1. fee' = (Fee(left))'
    BY <1>2, <1>3, <1>4 DEF Fee
  <2> QED
    BY <1>3, <1>4, <2>1 DEF IInv, RideSound, DriverHoldsOffer, market, money
<1>7. proc' \in [Handlers -> Locals] => TypeOK'
  BY <1>3, <1>5 DEF IInv, TypeOK, market, money
<1>8. ASSUME NEW g \in Handlers \ {h} PROVE Frame(g)
  BY <1>3, RideStays, MarketStays, MoneyStays DEF Frame, market
<1>9. CASE Return(h)
  BY <1>6, <1>7, <1>8, <1>9, ReturnSound, OneStep DEF IInv
<1>10. CASE ~Return(h)
  <2>1. r.by = "customer" /\ d > 0 /\ Goto(h, "charge")
    BY <1>1, <1>2, <1>10 DEF MarkRideCancelled
  <2>2. /\ proc' \in [Handlers -> Locals] /\ Others(h)
        /\ proc'[h].pc = "charge" /\ proc'[h].by = r.by /\ proc'[h].read = r.read
    BY <1>1, <1>3, <2>1, GotoCancel DEF IInv, CancelPcs
  <2>3. (Fee(left) > 0)' /\ debits'["fee"] = 0
    BY <1>2, <1>3, <1>4, <2>1 DEF Fee, money
  <2>4. CallSound(h)' /\ proc'[h].pc \notin Billing
    BY <1>3, <1>4, <2>1, <2>2, <2>3 DEF CallSound, DrivePcs, Billing, Charging, CancelledBy
  <2> QED
    BY <1>1, <1>3, <1>6, <1>7, <1>8, <2>2, <2>4, OneStep DEF Charging
<1> QED
  BY <1>9, <1>10

LEMMA ChargeFeeKeeps ==
    ASSUME IInv, NEW h \in Handlers, ChargeFee(h)
    PROVE  IInv'
<1>1. /\ proc[h].pc = "charge" /\ Return(h) /\ UNCHANGED <<ride, market, payments, clock>>
      /\ debits' \in {debits, [debits EXCEPT !["fee"] = @ + 1]}
  BY DEF ChargeFee, At
<1>2. debits["fee"] = 0 /\ status \in Cancelled
  BY <1>1, MoneyFacts DEF Charging
<1>3. debits' \in [{"fare", "fee"} -> 0..1] /\ debits'["fare"] = debits["fare"]
  BY <1>1, <1>2 DEF IInv, TypeOK
<1>4. /\ proc' \in [Handlers -> Locals] /\ Others(h)
      /\ CallSound(h)' /\ proc'[h].pc \notin Billing \cup Charging
  BY <1>1, ReturnSound DEF IInv
<1>5. TypeOK'
  BY <1>1, <1>3, <1>4 DEF IInv, TypeOK, ride, market, clock
<1>6. RideSound'
  BY <1>1, <1>2, <1>3 DEF IInv, RideSound, DriverHoldsOffer, ride, market, Fee
<1>7. ASSUME NEW g \in Handlers \ {h} PROVE Frame(g)
  <2>1. MoneyFrame(g)
    BY <1>1, <1>3, MoneyFacts DEF MoneyFrame, Charging
  <2> QED
    BY <1>1, <2>1, RideStays, MarketStays DEF Frame, ride, market
<1> QED
  BY <1>4, <1>5, <1>6, <1>7, OneStep

-----------------------------------------------------------------------------
(* The invariant *)

LEMMA InitInv == Init => IInv
<1> SUFFICES ASSUME Init PROVE IInv
  OBVIOUS
<1>1. payments \in Seq(Bills) /\ Len(payments) = 0
  BY DEF Init
<1>2. TypeOK
  <2>1. status \in Statuses /\ left \in Statuses
    BY DEF Init, Statuses, Open
  <2>2. partner \in Partners \cup {Nobody} /\ fare \in Fares \cup {None} /\ fee \in 0..100 \cup {None}
    BY DEF Init
  <2>3. /\ offers \in [Partners -> OfferStatuses] /\ beaten \subseteq Partners
        /\ locks \in [Partners -> Handlers \cup {Nobody}]
    BY DEF Init, OfferStatuses
  <2>4. debits \in [{"fare", "fee"} -> 0..1]
    <3>1. 0 \in 0..1 /\ debits = [r \in {"fare", "fee"} |-> 0]
      BY DEF Init
    <3> QED
      BY <3>1, Zenon
  <2>5. old \in BOOLEAN /\ listed \in BOOLEAN
    BY DEF Init
  <2>6. Idle \in Locals /\ proc = [h \in Handlers |-> Idle]
    BY LocalsForm DEF Init
  <2> QED
    BY <1>1, <2>1, <2>2, <2>3, <2>4, <2>5, <2>6 DEF TypeOK, Bills
<1>3. RideSound
  BY <1>1 DEF Init, RideSound, DriverHoldsOffer, OnTheWay, Cancelled
<1>4. \A h \in Handlers : proc[h].pc = "idle"
  BY DEF Init, Idle
<1>5. \A h \in Handlers : CallSound(h)
  BY <1>4 DEF CallSound, DrivePcs, Billing, Charging
<1>6. Solo
  BY <1>4 DEF Solo, Billing, Charging
<1> QED
  BY <1>2, <1>3, <1>5, <1>6 DEF IInv

LEMMA StutterKeeps ==
    ASSUME IInv, UNCHANGED vars
    PROVE  IInv'
<1>1. UNCHANGED <<ride, market, money, clock, proc>>
  BY DEF vars
<1>2. TypeOK'
  BY <1>1 DEF IInv, TypeOK, ride, market, money, clock
<1>3. RideSound'
  BY <1>1, RideSoundStays DEF IInv, ride, market
<1>4. \A g \in Handlers : Frame(g)
  BY <1>1, RideStays, MarketStays, MoneyStays DEF Frame, ride, market
<1> QED
  BY <1>1, <1>2, <1>3, <1>4, NoCall

LEMMA CallKeeps ==
    ASSUME IInv, NEW h \in Handlers, Call(h)
    PROVE  IInv'
<1>1. CASE MarkArriving(h) \/ MarkArrived(h) \/ StartRide(h)
  <2>1. \E pc \in {"arriving", "arrived", "otp"} : LoadRide(h, pc, None)
    BY <1>1 DEF MarkArriving, MarkArrived, StartRide
  <2> QED
    BY <2>1, LoadRideKeeps
<1>2. CASE CompleteRide(h)
  BY <1>2, LoadRideKeeps DEF CompleteRide
<1> QED
  BY <1>1, <1>2, MatchRideKeeps, LockOfferKeeps, RejectOfferKeeps, CancelRideKeeps DEF Call

LEMMA DriveKeeps ==
    ASSUME IInv, NEW h \in Handlers, Drive(h)
    PROVE  IInv'
<1>1. CASE \E road \in Roads : Transition(h, road[1], road[2], road[3])
  BY <1>1, TransitionKeeps DEF Roads
<1>2. CASE VerifyOTP(h) \/ FinalizeRide(h) \/ CreateRidePayment(h) \/ SettlePayment(h) \/ MarkPayment(h)
  BY <1>2, VerifyOTPKeeps, FinalizeRideKeeps, CreateRidePaymentKeeps, SettlePaymentKeeps,
     MarkPaymentKeeps
<1> QED
  BY <1>1, <1>2 DEF Drive, Roads

LEMMA StepKeeps ==
    ASSUME IInv, NEW h \in Handlers, Step(h)
    PROVE  IInv'
BY StartSearchKeeps, CreateRideOfferKeeps, CountOffersKeeps, AcceptOfferKeeps, StopKeeps,
   AssignRidePartnerKeeps, TakeRideKeeps, DriveKeeps, CancelTransitionKeeps,
   MarkRideCancelledKeeps, ChargeFeeKeeps DEF Step

LEMMA NextInv == IInv /\ [Next]_vars => IInv'
<1> SUFFICES ASSUME IInv, [Next]_vars PROVE IInv'
  OBVIOUS
<1>1. CASE Environment
  BY <1>1, EnvironmentKeeps, ExpireStaleOffersKeeps, LapseKeeps DEF Environment
<1>2. ASSUME NEW h \in Handlers, Call(h) \/ Step(h) \/ Stop(h) PROVE IInv'
  BY <1>2, CallKeeps, StepKeeps, StopKeeps
<1>3. CASE UNCHANGED vars
  BY <1>3, StutterKeeps
<1> QED
  BY <1>1, <1>2, <1>3 DEF Next

\* Every variable keeps its type: above all, the wallet is debited for a fare
\* and for a fee at most once each (debits has no value above 1).
THEOREM TypeCorrect == Spec => []TypeOK
<1>1. IInv => TypeOK
  BY DEF IInv
<1> QED
  BY <1>1, InitInv, NextInv, PTL DEF Spec

\* An offer AcceptOfferTx superseded stays lost, however acceptances, rejections
\* and expiries interleave.
THEOREM LosersLose == Spec => []BeatenNeverWins
<1>1. IInv => BeatenNeverWins
  BY DEF IInv, RideSound, BeatenNeverWins
<1> QED
  BY <1>1, InitInv, NextInv, PTL DEF Spec

\* Whoever AssignRidePartner put on the ride has accepted its offer, and a ride
\* is under way only with somebody.
THEOREM DriverAccepted == Spec => []DriverHoldsOffer
<1>1. IInv => DriverHoldsOffer
  BY DEF IInv, RideSound
<1> QED
  BY <1>1, InitInv, NextInv, PTL DEF Spec

\* CancelRide charges the fee of the status it ended, and CompleteRide bills once.
THEOREM FeeIsDue == Spec => []FeeWasDue
<1>1. IInv => FeeWasDue
  <2> SUFFICES ASSUME IInv PROVE FeeWasDue
    OBVIOUS
  <2>1. payments # <<>> => Len(payments) = 1
    <3>1. payments \in Seq(Bills) /\ Len(payments) <= 1
      BY DEF IInv, TypeOK, RideSound, Bills
    <3>2. payments # <<>> => Len(payments) \in Nat \ {0}
      BY <3>1, EmptySeq
    <3>3. \A n \in Nat \ {0} : n <= 1 => n = 1
      OBVIOUS
    <3> QED
      BY <3>1, <3>2, <3>3, Zenon
  <2> QED
    BY <2>1 DEF IInv, RideSound, FeeWasDue, Cancelled
<1> QED
  BY <1>1, InitInv, NextInv, PTL DEF Spec

-----------------------------------------------------------------------------
(* The ride implements the trip *)

LEMMA PhaseFacts ==
    ASSUME NEW s
    PROVE  /\ s \in {"scheduled"} \cup Open => PhaseOf(s) = "waiting"
           /\ s \in OnTheWay => PhaseOf(s) = "riding"
           /\ s = "completed" => PhaseOf(s) = "done"
           /\ s \in Cancelled \cup {"expired"} => PhaseOf(s) = "off"
BY DEF PhaseOf, Open, OnTheWay, Cancelled

LEMMA DueFacts ==
    ASSUME NEW s, NEW from
    PROVE  /\ s \in {"scheduled"} \cup Open \cup OnTheWay => DueOf(s, from) = "nothing"
           /\ s = "completed" => DueOf(s, from) = "fare"
           /\ s = "expired" => DueOf(s, from) = "nothing"
           /\ s = "cancelled_by_customer" /\ Fee(from) > 0 => DueOf(s, from) = "fee"
           /\ s \in Cancelled => DueOf(s, from) \in {"nothing", "fee"}
           /\ s \in Cancelled /\ ~(Fee(from) > 0) => DueOf(s, from) = "nothing"
BY DEF DueOf, Open, OnTheWay, Cancelled

LEMMA RideBegins == Init => T!Init
BY PhaseFacts, DueFacts DEF Init, T!Init, T!Reasons, Open

LEMMA NothingHappens ==
    ASSUME UNCHANGED <<status, left, debits>>
    PROVE  [T!Next]_<<PhaseOf(status), DueOf(status, left), debits>>
BY DEF PhaseOf, DueOf, Fee

\* A ride that is not over moves within its phase, is matched, driven to its
\* end or called off.
LEMMA MoveRefines ==
    ASSUME IInv, UNCHANGED debits,
           \/ /\ status \in {"scheduled"} \cup Open
              /\ status' \in Open \cup {"partner_assigned"}
           \/ status \in OnTheWay /\ status' \in OnTheWay \cup {"completed"}
           \/ /\ status \in Open \cup OnTheWay
              /\ status' \in Cancelled \cup {"expired"} /\ left' = status
              /\ status' = "expired" => status \in Open
    PROVE  [T!Next]_<<PhaseOf(status), DueOf(status, left), debits>>
<1>1. CASE status \in {"scheduled"} \cup Open /\ status' \in Open
  BY <1>1, PhaseFacts, DueFacts
<1>2. CASE status \in {"scheduled"} \cup Open /\ status' = "partner_assigned"
  <2>1. "partner_assigned" \in OnTheWay
    BY DEF OnTheWay
  <2>2. T!Match
    BY <1>2, <2>1, PhaseFacts, DueFacts DEF T!Match
  <2> QED
    BY <2>2 DEF T!Next
<1>3. CASE status \in OnTheWay /\ status' \in OnTheWay
  BY <1>3, PhaseFacts, DueFacts
<1>4. CASE status \in OnTheWay /\ status' = "completed"
  <2>1. T!Finish
    BY <1>4, PhaseFacts, DueFacts DEF T!Finish
  <2> QED
    BY <2>1 DEF T!Next
<1>5. CASE /\ status \in Open \cup OnTheWay
           /\ status' \in Cancelled \cup {"expired"} /\ left' = status
           /\ status' = "expired" => status \in Open
  <2>1. PhaseOf(status') = "off" /\ PhaseOf(status) \in {"waiting", "riding"}
    BY <1>5, PhaseFacts
  <2>2. DueOf(status', left') \in {"nothing", "fee"}
    BY <1>5, DueFacts
  <2>3. ASSUME PhaseOf(status) # "riding" PROVE DueOf(status', left') = "nothing"
    <3>1. status \notin OnTheWay /\ status \in Statuses
      BY <2>3, PhaseFacts DEF IInv, TypeOK
    <3>2. Fee(status) \in 0..100 /\ ~(Fee(status) > 0)
      BY <3>1, FeeFacts
    <3>3. ~(Fee(left') > 0)
      BY <1>5, <3>2
    <3> QED
      BY <1>5, <3>3, DueFacts
  <2>4. T!CallOff
    BY <2>1, <2>2, <2>3 DEF T!CallOff
  <2> QED
    BY <2>4 DEF T!Next
<1> QED
  BY <1>1, <1>2, <1>3, <1>4, <1>5

LEMMA TransitionRefines ==
    ASSUME IInv, NEW h \in Handlers, NEW from, NEW to, NEW then,
           <<from, to, then>> \in Roads, Transition(h, from, to, then)
    PROVE  [T!Next]_<<PhaseOf(status), DueOf(status, left), debits>>
<1>1. UNCHANGED debits
  BY DEF Transition, money
<1>2. CASE ~CanMove(h, to)
  BY <1>1, <1>2, NothingHappens DEF Transition
<1>3. CASE CanMove(h, to)
  <2>1. status' = to
    BY <1>3 DEF Transition, Move
  <2>2. status \in OnTheWay /\ to \in OnTheWay \cup {"completed"}
    <3>1. <<status, to>> \in Allowed /\ to # "partner_assigned"
      BY <1>3, CanMoveFacts DEF Roads
    <3>2. "in_progress" \in OnTheWay
      BY DEF OnTheWay
    <3> QED
      BY <3>1, <3>2, RoadFacts, AllowedFacts
  <2> QED
    BY <1>1, <2>1, <2>2, MoveRefines
<1> QED
  BY <1>2, <1>3

LEMMA ChargeRefines ==
    ASSUME IInv, NEW h \in Handlers, SettlePayment(h) \/ ChargeFee(h)
    PROVE  [T!Next]_<<PhaseOf(status), DueOf(status, left), debits>>
<1>1. UNCHANGED <<status, left>>
  BY DEF SettlePayment, ChargeFee, ride
<1>2. CASE debits' = debits
  BY <1>1, <1>2, NothingHappens
<1>3. CASE SettlePayment(h) /\ debits' # debits
  <2>1. /\ proc[h].pc = "debit" /\ debits' = [debits EXCEPT !["fare"] = @ + 1]
    BY <1>3 DEF SettlePayment, At
  <2>2. debits["fare"] = 0 /\ status = "completed"
    BY <2>1 DEF IInv, CallSound, Billing
  <2>3. DueOf(status, left) = "fare" /\ debits' = [debits EXCEPT !["fare"] = 1]
    BY <2>1, <2>2, DueFacts
  <2>4. T!Charge
    BY <1>1, <2>2, <2>3 DEF T!Charge, T!Reasons
  <2> QED
    BY <2>4 DEF T!Next
<1>4. CASE ChargeFee(h) /\ debits' # debits
  <2>1. /\ proc[h].pc = "charge" /\ debits' = [debits EXCEPT !["fee"] = @ + 1]
    BY <1>4 DEF ChargeFee, At
  <2>2. debits["fee"] = 0 /\ status = "cancelled_by_customer" /\ Fee(left) > 0
    BY <2>1 DEF IInv, CallSound, Charging, CancelledBy
  <2>3. DueOf(status, left) = "fee" /\ debits' = [debits EXCEPT !["fee"] = 1]
    BY <2>1, <2>2, DueFacts
  <2>4. T!Charge
    BY <1>1, <2>2, <2>3 DEF T!Charge, T!Reasons
  <2> QED
    BY <2>4 DEF T!Next
<1> QED
  BY <1>2, <1>3, <1>4

LEMMA StatusRefines ==
    ASSUME IInv, NEW h \in Handlers, StartSearch(h) \/ TakeRide(h) \/ CancelTransition(h)
    PROVE  [T!Next]_<<PhaseOf(status), DueOf(status, left), debits>>
<1>1. UNCHANGED debits
  BY DEF StartSearch, TakeRide, CancelTransition, money
<1>2. CASE UNCHANGED <<status, left>>
  BY <1>1, <1>2, NothingHappens
<1>3. CASE TakeRide(h) /\ ~UNCHANGED <<status, left>>
  BY <1>1, <1>3, MoveRefines DEF TakeRide, Open
<1>4. CASE StartSearch(h) /\ ~UNCHANGED <<status, left>>
  <2>1. CanMove(h, "searching_partner") /\ status' = "searching_partner"
    BY <1>4 DEF StartSearch, Move
  <2>2. status \in Open
    BY <2>1 DEF CanMove, Allowed, Open, OnTheWay
  <2> QED
    BY <1>1, <2>1, <2>2, MoveRefines DEF Open
<1>5. CASE CancelTransition(h) /\ ~UNCHANGED <<status, left>>
  <2>1. PICK to : to = CancelledBy(proc[h].by)
    OBVIOUS
  <2>2. CanMove(h, to) /\ status' = to /\ left' = status
    BY <1>5, <2>1 DEF CancelTransition
  <2>3. to \in Cancelled /\ to # "expired"
    BY <2>1 DEF CancelledBy, Cancelled
  <2> QED
    BY <1>1, <2>2, <2>3, CanMoveFacts, MoveRefines
<1> QED
  BY <1>2, <1>3, <1>4, <1>5

LEMMA NextRefines ==
    IInv /\ [Next]_vars => [T!Next]_<<PhaseOf(status), DueOf(status, left), debits>>
<1> SUFFICES ASSUME IInv, [Next]_vars
             PROVE  [T!Next]_<<PhaseOf(status), DueOf(status, left), debits>>
  OBVIOUS
<1>1. CASE UNCHANGED <<status, left, debits>>
  BY <1>1, NothingHappens
<1>2. ASSUME NEW h \in Handlers, Call(h)
      PROVE  UNCHANGED <<status, left, debits>>
  BY <1>2 DEF Call, MatchRide, LockOffer, RejectOffer, CancelRide, MarkArriving, MarkArrived,
              StartRide, CompleteRide, LoadRide, ride, money
<1>3. ASSUME NEW h \in Handlers, Stop(h) PROVE UNCHANGED <<status, left, debits>>
  BY <1>3 DEF Stop, ride, money
<1>4. ASSUME NEW h \in Handlers, Drive(h)
      PROVE  [T!Next]_<<PhaseOf(status), DueOf(status, left), debits>>
  <2>1. CASE \E road \in Roads : Transition(h, road[1], road[2], road[3])
    BY <2>1, TransitionRefines DEF Roads
  <2>2. CASE VerifyOTP(h) \/ FinalizeRide(h) \/ CreateRidePayment(h) \/ MarkPayment(h)
    <3>1. UNCHANGED <<status, left, debits>>
      BY <2>2 DEF VerifyOTP, FinalizeRide, CreateRidePayment, MarkPayment, ride, money
    <3> QED
      BY <3>1, NothingHappens
  <2>3. CASE SettlePayment(h)
    BY <2>3, ChargeRefines
  <2> QED
    BY <1>4, <2>1, <2>2, <2>3 DEF Drive, Roads
<1>5. ASSUME NEW h \in Handlers,
             \/ CreateRideOffer(h) \/ CountOffers(h) \/ AcceptOffer(h) \/ DeadlockVictim(h)
             \/ AssignRidePartner(h) \/ MarkRideCancelled(h)
      PROVE  UNCHANGED <<status, left, debits>>
  BY <1>5 DEF CreateRideOffer, CountOffers, AcceptOffer, DeadlockVictim, AssignRidePartner,
              MarkRideCancelled, ride, money
<1>6. ASSUME NEW h \in Handlers, Step(h)
      PROVE  [T!Next]_<<PhaseOf(status), DueOf(status, left), debits>>
  BY <1>1, <1>4, <1>5, <1>6, StatusRefines, ChargeRefines DEF Step
<1>7. CASE Environment
  <2>1. CASE ActivateScheduledRide
    BY <2>1, MoveRefines DEF ActivateScheduledRide, Open, money
  <2>2. CASE ExpireRide
    <3>1. UNCHANGED debits
      BY <2>2 DEF ExpireRide, money
    <3>2. CASE status \in Open
      BY <2>2, <3>1, <3>2, MoveRefines DEF ExpireRide
    <3>3. CASE status \notin Open
      BY <2>2, <3>1, <3>3, NothingHappens DEF ExpireRide
    <3> QED
      BY <3>2, <3>3
  <2>3. CASE GrowOld \/ ListStuckRides \/ ExpireStaleOffers \/ \E p \in Partners : Lapse(p)
    <3>1. UNCHANGED <<status, left, debits>>
      BY <2>3 DEF GrowOld, ListStuckRides, ExpireStaleOffers, Lapse, ride, money
    <3> QED
      BY <3>1, NothingHappens
  <2> QED
    BY <1>7, <2>1, <2>2, <2>3 DEF Environment
<1>8. CASE UNCHANGED vars
  BY <1>1, <1>8 DEF vars, ride, money
<1> QED
  BY <1>1, <1>2, <1>3, <1>6, <1>7, <1>8 DEF Next

\* Seen from the customer a ride is a Trip: matched before it is driven, ended
\* once, and debited once for what its end made due and for nothing else.
THEOREM ImplementsTrip == Spec => TripSpec
BY InitInv, NextInv, RideBegins, NextRefines, PTL DEF Spec, TripSpec, T!Spec
=============================================================================
