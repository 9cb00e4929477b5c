--------------------------- MODULE BillPayProofs ---------------------------
(***************************************************************************)
(* Theorems of BillPay, for any keys, days, handlers and bounds.            *)
(***************************************************************************)
EXTENDS BillPay, FiniteSetTheorems, TLAPS

\* A call that holds its key's row: the UNIQUE insert lets one in.
Serving == {"attach", "submit", "mark", "fail", "giveback"}

\* What the tables, the wallet and Setu say of one key.
RowSound(k) ==
    /\ submits[k] \in {0, 1}
    /\ rows[k] = NoRow => submits[k] = 0 /\ refunds[k] = 0
    /\ k \in cached => submits[k] = 1
    /\ setu[k] # "none" => submits[k] = 1
    /\ rows[k].funded => k \in debits
    /\ rows[k].ref /\ refunds[k] > 0 => setu[k] = "bounced"
    /\ rows[k].status = "succeeded" => rows[k].ref /\ setu[k] = "paid"
    /\ k \in acked => rows[k].ref /\ setu[k] \in {"paid", "bounced"}
    /\ k \in acked /\ setu[k] = "bounced" /\ rows[k].funded /\ rows[k].txn => refunds[k] >= 1

\* What a call may rely on when it goes on with its own copy.
CallSound(h) ==
    LET k == proc[h].key IN
    /\ proc[h].pc = "insert" /\ proc[h].funded => k \in debits
    /\ proc[h].pc = "attach" => proc[h].funded
    /\ proc[h].pc \in Serving =>
          /\ rows[k] # NoRow /\ rows[k].funded = proc[h].funded
          /\ ~rows[k].ref /\ refunds[k] = 0
    /\ proc[h].pc \in {"attach", "submit"} => submits[k] = 0
    /\ proc[h].pc \in {"mark", "fail", "giveback", "record", "advance"} => submits[k] = 1
    /\ proc[h].pc = "paid" => rows[k].ref /\ setu[k] = "paid"
    /\ proc[h].pc \in {"bounced", "hookrefund"} =>
          /\ rows[k].ref /\ setu[k] = "bounced"
          /\ proc[h].funded = (rows[k].funded /\ rows[k].txn)

\* Two calls never hold one row.
Alone ==
    \A g, h \in Handlers : g # h /\ proc[g].pc \in Serving /\ proc[h].pc \in Serving =>
        proc[g].key # proc[h].key

IInv ==
    /\ TypeOK
    /\ \A k \in Keys : RowSound(k)
    /\ \A h \in Handlers : CallSound(h)
    /\ Alone

-----------------------------------------------------------------------------
(* Calls and rows *)

LEMMA KeyFacts == \A k \in Days : k \in Nat \ {0} /\ k \notin ClientKeys /\ k \in Keys
BY BillPayAssumption DEF BillPayAssumption, Days, Keys

LEMMA CallFacts ==
    ASSUME TypeOK, NEW h \in Handlers, proc[h].pc # "idle"
    PROVE  /\ proc[h] \in [pc : PayPcs \cup HookPcs, key : Keys, funded : BOOLEAN, cron : BOOLEAN]
           /\ proc[h].pc \in PayPcs \cup HookPcs /\ proc[h].key \in Keys
           /\ proc[h].funded \in BOOLEAN /\ proc[h].cron \in BOOLEAN
<1>1. proc[h] \in Locals
  BY DEF TypeOK
<1>2. proc[h] # Idle
  BY DEF Idle
<1> QED
  BY <1>1, <1>2 DEF Locals

LEMMA EnterFacts ==
    ASSUME TypeOK, NEW h \in Handlers, NEW call \in Locals, proc' = [proc EXCEPT ![h] = call]
    PROVE  /\ proc' \in [Handlers -> Locals]
           /\ proc'[h] = call
           /\ \A g \in Handlers \ {h} : proc'[g] = proc[g]
BY DEF TypeOK

LEMMA ReturnFacts ==
    ASSUME TypeOK, NEW h \in Handlers, Return(h)
    PROVE  /\ proc' \in [Handlers -> Locals]
           /\ proc'[h].pc = "idle"
           /\ \A g \in Handlers \ {h} : proc'[g] = proc[g]
<1>1. Idle \in Locals /\ Idle.pc = "idle"
  BY DEF Locals, Idle
<1> QED
  BY <1>1, EnterFacts DEF Return

LEMMA GotoFacts ==
    ASSUME TypeOK, NEW h \in Handlers, NEW pc \in PayPcs \cup HookPcs,
           proc[h].pc # "idle", Goto(h, pc)
    PROVE  /\ proc' \in [Handlers -> Locals]
           /\ proc'[h].pc = pc /\ proc'[h].key = proc[h].key
           /\ proc'[h].funded = proc[h].funded /\ proc'[h].cron = proc[h].cron
           /\ \A g \in Handlers \ {h} : proc'[g] = proc[g]
<1> DEFINE r == proc[h]
           s == [r EXCEPT !.pc = pc]
<1>1. r \in [pc : PayPcs \cup HookPcs, key : Keys, funded : BOOLEAN, cron : BOOLEAN]
  BY CallFacts
<1>2. proc' = [proc EXCEPT ![h] = s]
  BY DEF Goto
<1> HIDE DEF r
<1>3. /\ s \in [pc : PayPcs \cup HookPcs, key : Keys, funded : BOOLEAN, cron : BOOLEAN]
      /\ s.pc = pc /\ s.key = r.key /\ s.funded = r.funded /\ s.cron = r.cron
  BY <1>1
<1>4. s \in Locals
  BY <1>3 DEF Locals
<1> HIDE DEF s
<1> QED
  BY <1>2, <1>3, <1>4, EnterFacts DEF r

LEMMA RowFacts ==
    ASSUME NEW x \in Rows
    PROVE  /\ x.status \in Statuses \cup {"none"}
           /\ x.funded \in BOOLEAN /\ x.txn \in BOOLEAN /\ x.ref \in BOOLEAN
           /\ x.txn => x.funded
           /\ x.ref => x.status \in {"submitted", "succeeded", "failed"}
           /\ x = NoRow <=> x.status = "none"
<1>1. CASE x = NoRow
  BY <1>1 DEF NoRow, Statuses
<1>2. CASE x \in [status : Statuses, funded : BOOLEAN, txn : BOOLEAN, ref : BOOLEAN]
             /\ (x.txn => x.funded) /\ (x.ref => x.status # "initiated")
  <2>1. x.status \in Statuses /\ "none" \notin Statuses /\ NoRow.status = "none"
    BY <1>2 DEF Statuses, NoRow
  <2>2. x # NoRow
    BY <2>1
  <2> QED
    BY <1>2, <2>1, <2>2 DEF Statuses
<1> QED
  BY <1>1, <1>2 DEF Rows

\* The row of key k becomes x, the others stay.
LEMMA PutFacts ==
    ASSUME TypeOK, NEW k \in Keys, NEW x \in Rows, rows' = [rows EXCEPT ![k] = x]
    PROVE  /\ rows' \in [Keys -> Rows]
           /\ rows'[k] = x
           /\ \A j \in Keys \ {k} : rows'[j] = rows[j]
BY DEF TypeOK

LEMMA WithStatus ==
    ASSUME NEW x \in Rows, x # NoRow, NEW s \in Statuses, x.ref => s # "initiated"
    PROVE  /\ [x EXCEPT !.status = s] \in Rows
           /\ [x EXCEPT !.status = s].status = s
           /\ [x EXCEPT !.status = s].funded = x.funded
           /\ [x EXCEPT !.status = s].txn = x.txn
           /\ [x EXCEPT !.status = s].ref = x.ref
BY DEF Rows

\* An update of the row of a key that is open, and no other, and only its status.
StatusOnly(k) ==
    /\ rows' \in [Keys -> Rows]
    /\ \A j \in Keys \ {k} : rows'[j] = rows[j]
    /\ rows'[k].funded = rows[k].funded /\ rows'[k].txn = rows[k].txn
    /\ rows'[k].ref = rows[k].ref
    /\ rows[k] = NoRow <=> rows'[k] = NoRow

LEMMA SetStatus ==
    ASSUME TypeOK, NEW k \in Keys, NEW s \in {"failed", "succeeded"},
           rows' = IF Open(k) THEN [rows EXCEPT ![k].status = s] ELSE rows
    PROVE  /\ StatusOnly(k)
           /\ rows'[k].status = IF Open(k) THEN s ELSE rows[k].status
<1>1. rows \in [Keys -> Rows] /\ rows[k] \in Rows
  BY DEF TypeOK
<1>2. CASE Open(k)
  <2> DEFINE x == rows[k]
             y == [x EXCEPT !.status = s]
  <2>1. x \in Rows /\ x # NoRow
    BY <1>1, <1>2 DEF Open, NoRow
  <2>2. rows' = [rows EXCEPT ![k] = y]
    BY <1>2
  <2>3. s \in Statuses /\ s # "initiated"
    BY DEF Statuses
  <2> HIDE DEF x
  <2>4. /\ y \in Rows /\ y.status = s /\ y.funded = x.funded
        /\ y.txn = x.txn /\ y.ref = x.ref
    BY <2>1, <2>3, WithStatus
  <2> HIDE DEF y
  <2>5. y # NoRow
    BY <2>3, <2>4 DEF NoRow, Statuses
  <2>6. rows' \in [Keys -> Rows] /\ rows'[k] = y /\ \A j \in Keys \ {k} : rows'[j] = rows[j]
    BY <2>2, <2>4, PutFacts
  <2> QED
    BY <1>2, <2>1, <2>4, <2>5, <2>6 DEF StatusOnly, x
<1>3. CASE ~Open(k)
  BY <1>1, <1>3 DEF StatusOnly
<1> QED
  BY <1>2, <1>3

LEMMA SetFailed ==
    ASSUME TypeOK, NEW k \in Keys, rows' = MarkedFailed(k) \/ rows' = rows
    PROVE  StatusOnly(k) /\ (rows'[k].status = "succeeded" => rows[k].status = "succeeded")
<1>1. CASE rows' = rows
  BY <1>1 DEF StatusOnly, TypeOK
<1>2. CASE rows' = MarkedFailed(k)
  <2>1. rows' = IF Open(k) THEN [rows EXCEPT ![k].status = "failed"] ELSE rows
    BY <1>2, Zenon DEF MarkedFailed
  <2>2. "failed" \in {"failed", "succeeded"}
    OBVIOUS
  <2>3. StatusOnly(k) /\ rows'[k].status = IF Open(k) THEN "failed" ELSE rows[k].status
    BY <2>1, <2>2, SetStatus, Zenon
  <2> QED
    BY <2>3
<1> QED
  BY <1>1, <1>2

-----------------------------------------------------------------------------
(* A step of one call, about one key *)

\* Only the call of h moves.
Others(h) == \A g \in Handlers \ {h} : proc'[g] = proc[g]

\* Nothing that the invariant says of key j is disturbed.
Kept(j) ==
    /\ rows'[j] = rows[j] /\ submits'[j] = submits[j] /\ refunds'[j] = refunds[j]
    /\ setu'[j] = setu[j]
    /\ j \in cached' <=> j \in cached
    /\ j \in acked' <=> j \in acked
    /\ j \in debits => j \in debits'

LEMMA KeptRow == ASSUME NEW j, Kept(j), RowSound(j) PROVE RowSound(j)'
BY DEF Kept, RowSound

LEMMA KeptCall ==
    ASSUME NEW g, proc'[g] = proc[g], CallSound(g),
           proc[g].pc # "idle" => Kept(proc[g].key)
    PROVE  CallSound(g)'
BY Zenon DEF Kept, CallSound, Serving

LEMMA OneStep ==
    ASSUME IInv, TypeOK', NEW h \in Handlers, NEW k \in Keys, Others(h),
           \A j \in Keys \ {k} : Kept(j),
           RowSound(k)', CallSound(h)',
           \A g \in Handlers \ {h} : proc[g].pc # "idle" /\ proc[g].key = k => CallSound(g)',
           proc'[h].pc \in Serving =>
               \A g \in Handlers \ {h} : proc[g].pc \in Serving => proc[g].key # proc'[h].key
    PROVE  IInv'
<1>1. ASSUME NEW j \in Keys PROVE RowSound(j)'
  BY KeptRow DEF IInv
<1>2. ASSUME NEW g \in Handlers PROVE CallSound(g)'
  <2>1. CASE g # h /\ proc[g].pc # "idle" /\ proc[g].key # k
    BY <2>1, KeptCall, CallFacts DEF IInv, Others
  <2>2. CASE g # h /\ proc[g].pc = "idle"
    BY <2>2, KeptCall DEF IInv, Others
  <2> QED
    BY <2>1, <2>2
<1>3. Alone'
  <2> SUFFICES ASSUME NEW f \in Handlers, NEW g \in Handlers, f # g,
                      proc'[f].pc \in Serving, proc'[g].pc \in Serving
               PROVE  proc'[f].key # proc'[g].key
    BY Zenon DEF Alone, Serving
  <2> QED
    BY DEF IInv, Alone, Others
<1> QED
  BY <1>1, <1>2, <1>3 DEF IInv

\* A step that leaves the tables alone.
LEMMA CallOnly ==
    ASSUME IInv, TypeOK', NEW h \in Handlers, Others(h), CallSound(h)',
           \A j \in Keys : Kept(j),
           proc'[h].pc \in Serving => proc[h].pc \in Serving /\ proc'[h].key = proc[h].key
    PROVE  IInv'
<1>1. ASSUME NEW g \in Handlers PROVE CallSound(g)'
  <2>1. CASE g # h /\ proc[g].pc # "idle"
    BY <2>1, KeptCall, CallFacts DEF IInv, Others
  <2>2. CASE g # h /\ proc[g].pc = "idle"
    BY <2>2, KeptCall DEF IInv, Others
  <2> QED
    BY <2>1, <2>2
<1>2. \A j \in Keys : RowSound(j)'
  BY KeptRow DEF IInv
<1>3. Alone'
  <2> SUFFICES ASSUME NEW f \in Handlers, NEW g \in Handlers, f # g,
                      proc'[f].pc \in Serving, proc'[g].pc \in Serving
               PROVE  proc'[f].key # proc'[g].key
    BY Zenon DEF Alone, Serving
  <2> QED
    BY DEF IInv, Alone, Others
<1> QED
  BY <1>1, <1>2, <1>3 DEF IInv

LEMMA FaultType == ASSUME TypeOK, NEW f, Fault(f) \/ NoFault PROVE faults' \in 0..MaxFaults
BY BillPayAssumption DEF BillPayAssumption, TypeOK, Fault, NoFault

LEMMA DropType == ASSUME TypeOK, NEW k \in Keys, Drop(k) \/ UNCHANGED dropped PROVE dropped' \subseteq Keys
BY DEF TypeOK, Drop

-----------------------------------------------------------------------------
(* Pay and the scheduler enter *)

LEMMA EnterPay ==
    ASSUME IInv, NEW h \in Handlers, NEW k \in Keys, NEW funded \in BOOLEAN, NEW cron \in BOOLEAN,
           At(h, "idle"), calls < MaxCalls, calls' = calls + 1, Enter(h, k, funded, cron),
           UNCHANGED <<rows, cached, wallet, rail, clock, dropped, faults>>
    PROVE  IInv'
<1> DEFINE call == [pc |-> IF funded THEN "debit" ELSE "insert",
                    key |-> k, funded |-> funded, cron |-> cron]
           next == IF k \notin cached THEN call
                   ELSE IF cron THEN [call EXCEPT !.pc = "advance"] ELSE Idle
<1>1. proc' = [proc EXCEPT ![h] = next]
  BY DEF Enter
<1>2. \/ next = Idle
      \/ /\ next.key = k /\ next.funded = funded
         /\ \/ next.pc = "debit" /\ funded
            \/ next.pc = "insert" /\ ~funded
            \/ next.pc = "advance" /\ k \in cached
  BY DEF Idle
<1>3. next \in Locals
  BY DEF Locals, PayPcs
<1> HIDE DEF next
<1>4. /\ proc' \in [Handlers -> Locals] /\ proc'[h] = next /\ Others(h)
  BY <1>1, <1>3, EnterFacts DEF IInv, Others
<1>5. TypeOK'
  BY <1>4, BillPayAssumption DEF IInv, TypeOK, BillPayAssumption, wallet, rail, clock
<1>6. \A j \in Keys : Kept(j)
  BY DEF Kept, wallet, rail
<1>7. proc'[h].pc \notin Serving
  BY <1>2, <1>4 DEF Serving, Idle
<1>8. CallSound(h)'
  <2>1. k \in cached => submits[k] = 1
    BY DEF IInv, RowSound
  <2> QED
    BY <2>1, <1>2, <1>4 DEF CallSound, Idle, rail, Serving
<1> QED
  BY <1>4, <1>5, <1>6, <1>7, <1>8, CallOnly

LEMMA PayKeeps == ASSUME IInv, NEW h \in Handlers, Pay(h) PROVE IInv'
<1>1. PICK k \in ClientKeys, funded \in Funding : Enter(h, k, funded, FALSE)
  BY DEF Pay
<1>2. k \in Keys /\ funded \in BOOLEAN
  BY BillPayAssumption DEF BillPayAssumption, Keys
<1> QED
  BY <1>1, <1>2, EnterPay DEF Pay

LEMMA CronKeeps ==
    ASSUME IInv, NEW h \in Handlers, RunScheduledCron(h) PROVE IInv'
<1>1. PICK funded \in Funding : Enter(h, today, funded, TRUE)
  BY DEF RunScheduledCron
<1>2. today \in Keys /\ funded \in BOOLEAN
  BY BillPayAssumption DEF BillPayAssumption, Keys, IInv, TypeOK
<1> QED
  BY <1>1, <1>2, EnterPay DEF RunScheduledCron

-----------------------------------------------------------------------------
(* The steps of Pay *)

LEMMA WalletDebitKeeps == ASSUME IInv, NEW h \in Handlers, WalletDebit(h) PROVE IInv'
<1> DEFINE k == proc[h].key
<1>0. TypeOK /\ proc[h].pc = "debit" /\ k \in Keys /\ proc[h].funded \in BOOLEAN
  BY CallFacts DEF IInv, WalletDebit, At
<1>1. debits \subseteq debits' /\ debits' \subseteq Keys /\ UNCHANGED <<rows, cached, rail, undone, refunds, clock, calls>>
  BY <1>0 DEF WalletDebit, Key, TypeOK
<1>2. /\ proc' \in [Handlers -> Locals] /\ Others(h)
      /\ \/ proc'[h].pc = "idle"
         \/ proc'[h].pc = "insert" /\ proc'[h].key = k /\ k \in debits'
  <2>1. CASE Return(h)
    BY <1>0, <2>1, ReturnFacts DEF Others
  <2>2. CASE Goto(h, "insert") /\ debits' = debits \cup {Key(h)}
    BY <1>0, <2>2, GotoFacts DEF Others, PayPcs, Key
  <2> QED
    BY <2>1, <2>2 DEF WalletDebit
<1>3. faults' \in 0..MaxFaults /\ dropped' \subseteq Keys
  BY <1>0, FaultType, DropType DEF WalletDebit, Key
<1>4. TypeOK'
  BY <1>0, <1>1, <1>2, <1>3 DEF TypeOK, rail, clock
<1>5. \A j \in Keys : Kept(j)
  BY <1>1 DEF Kept, rail
<1>6. CallSound(h)'
  BY <1>2 DEF CallSound, Serving
<1>7. proc'[h].pc \notin Serving
  BY <1>2 DEF Serving
<1> QED
  BY <1>2, <1>4, <1>5, <1>6, <1>7, CallOnly

LEMMA InsertKeeps == ASSUME IInv, NEW h \in Handlers, InsertPayment(h) PROVE IInv'
<1>a. PICK k \in Keys : k = proc[h].key
  BY CallFacts DEF IInv, InsertPayment, At
<1> DEFINE new == [status |-> "initiated", funded |-> proc[h].funded, txn |-> FALSE, ref |-> FALSE]
<1>0. /\ TypeOK /\ proc[h].pc = "insert" /\ proc[h].pc # "idle"
      /\ Key(h) = k /\ proc[h].key = k /\ proc[h].funded \in BOOLEAN
  BY <1>a, CallFacts DEF IInv, InsertPayment, At, Key
<1>1. UNCHANGED <<cached, wallet, rail, clock, dropped, bounds>>
  BY DEF InsertPayment
<1>2. CASE rows[k] # NoRow
  <2>1. UNCHANGED rows
    BY <1>2, <1>0 DEF InsertPayment
  <2>2. /\ proc' \in [Handlers -> Locals] /\ Others(h) /\ proc'[h].pc \in {"idle", "undo"}
    <3>1. Return(h) \/ Goto(h, "undo")
      BY <1>2, <1>0 DEF InsertPayment
    <3> QED
      BY <1>0, <3>1, ReturnFacts, GotoFacts DEF Others, PayPcs
  <2>3. TypeOK'
    BY <1>0, <1>1, <2>1, <2>2 DEF TypeOK, wallet, rail, clock, bounds
  <2>4. \A j \in Keys : Kept(j)
    BY <1>1, <2>1 DEF Kept, rail, wallet
  <2>5. CallSound(h)' /\ proc'[h].pc \notin Serving
    BY <2>2 DEF CallSound, Serving
  <2> QED
    BY <2>2, <2>3, <2>4, <2>5, CallOnly
<1>3. CASE rows[k] = NoRow
  <2>1. rows' = [rows EXCEPT ![k] = new]
    BY <1>3, <1>0 DEF InsertPayment
  <2>2. /\ new \in Rows /\ new # NoRow /\ new.funded = proc[h].funded
        /\ ~new.ref /\ ~new.txn /\ new.status = "initiated"
    BY <1>0 DEF Rows, NoRow, Statuses
  <2> HIDE DEF new
  <2>3. rows' \in [Keys -> Rows] /\ rows'[k] = new /\ \A j \in Keys \ {k} : rows'[j] = rows[j]
    BY <1>0, <2>1, <2>2, PutFacts
  <2>4. /\ proc' \in [Handlers -> Locals] /\ Others(h)
        /\ proc'[h].key = k /\ proc'[h].funded = proc[h].funded
        /\ proc'[h].pc = IF proc[h].funded THEN "attach" ELSE "submit"
    <3>1. Goto(h, IF proc[h].funded THEN "attach" ELSE "submit")
      BY <1>3, <1>0 DEF InsertPayment
    <3> QED
      BY <1>0, <3>1, GotoFacts DEF Others, PayPcs
  <2>5. TypeOK'
    BY <1>0, <1>1, <2>3, <2>4 DEF TypeOK, wallet, rail, clock, bounds
  <2>6. \A j \in Keys \ {k} : Kept(j)
    BY <1>1, <2>3 DEF Kept, rail, wallet
  <2>7. RowSound(k) /\ CallSound(h) /\ refunds[k] \in Nat
    BY <1>0 DEF IInv, TypeOK
  <2>8. setu[k] = "none" /\ submits[k] = 0 /\ k \notin cached
    BY <1>3, <2>7 DEF RowSound
  <2>9. k \notin acked /\ refunds[k] = 0 /\ ~rows[k].ref
    BY <1>3, <2>7 DEF RowSound, NoRow
  <2>10. RowSound(k)'
    <3>1. proc[h].funded => k \in debits
      BY <1>0, <2>7 DEF CallSound
    <3>2. /\ rows'[k] # NoRow /\ ~rows'[k].ref /\ rows'[k].status # "succeeded"
          /\ rows'[k].funded => proc[h].funded
      BY <2>2, <2>3
    <3>3. /\ submits'[k] = 0 /\ setu'[k] = "none" /\ k \notin cached' /\ k \notin acked'
          /\ debits' = debits
      BY <1>1, <2>8, <2>9 DEF wallet, rail
    <3> QED
      BY <3>1, <3>2, <3>3 DEF RowSound
  <2>11. CallSound(h)'
    BY <1>0, <1>1, <2>2, <2>3, <2>4, <2>8, <2>9 DEF CallSound, Serving, wallet, rail
  <2>12. \A g \in Handlers \ {h} : proc[g].pc \in Serving => proc[g].key # k
    BY <1>3 DEF IInv, CallSound
  <2>13. ASSUME NEW g \in Handlers \ {h}, proc[g].pc # "idle", proc[g].key = k
         PROVE  CallSound(g)'
    <3>1. proc[g].pc \notin Serving /\ CallSound(g) /\ proc'[g] = proc[g]
      BY <2>4, <2>12, <2>13 DEF IInv, Others
    <3>2. proc[g].pc \notin {"paid", "bounced", "hookrefund"}
      BY <2>9, <2>13, <3>1 DEF CallSound
    <3> QED
      BY <1>1, <2>13, <3>1, <3>2 DEF CallSound, Serving, wallet, rail
  <2> QED
    BY <1>0, <2>4, <2>5, <2>6, <2>10, <2>11, <2>12, <2>13, OneStep
<1> QED
  BY <1>2, <1>3

LEMMA UndoKeeps == ASSUME IInv, NEW h \in Handlers, UndoDebit(h) PROVE IInv'
<1>a. PICK k \in Keys : k = proc[h].key
  BY CallFacts DEF IInv, UndoDebit, At
<1>1. /\ TypeOK /\ Key(h) = k /\ Return(h)
      /\ UNCHANGED <<rows, cached, debits, refunds, rail, clock, calls>>
  BY <1>a DEF IInv, UndoDebit, Key
<1>2. proc' \in [Handlers -> Locals] /\ proc'[h].pc = "idle" /\ Others(h)
  BY <1>1, ReturnFacts DEF Others
<1>3. undone' \in [Keys -> Nat]
  BY <1>1 DEF UndoDebit, Refunding, TypeOK
<1>4. faults' \in 0..MaxFaults /\ dropped' \subseteq Keys
  BY <1>1, FaultType, DropType DEF UndoDebit, Refunding
<1>5. TypeOK'
  BY <1>1, <1>2, <1>3, <1>4 DEF TypeOK, rail, clock
<1>6. \A j \in Keys : Kept(j)
  BY <1>1 DEF Kept, rail
<1>7. CallSound(h)' /\ proc'[h].pc \notin Serving
  BY <1>2 DEF CallSound, Serving
<1> QED
  BY <1>2, <1>5, <1>6, <1>7, CallOnly

\* What the holder of a row knows, and that nobody else is at work on it.
LEMMA ServingFacts ==
    ASSUME IInv, NEW h \in Handlers, NEW k \in Keys, proc[h].pc \in Serving, proc[h].key = k
    PROVE  /\ TypeOK /\ proc[h].pc # "idle" /\ Key(h) = k
           /\ rows[k] \in Rows /\ rows[k] # NoRow /\ rows[k].funded = proc[h].funded
           /\ ~rows[k].ref /\ refunds[k] = 0 /\ k \notin acked
           /\ rows[k].status # "succeeded"
           /\ RowSound(k) /\ CallSound(h)
           /\ \A g \in Handlers \ {h} : proc[g].key = k =>
                 proc[g].pc \notin Serving \cup {"paid", "bounced", "hookrefund"}
<1>1. TypeOK /\ rows[k] \in Rows /\ RowSound(k) /\ CallSound(h) /\ proc[h].pc # "idle"
  BY DEF IInv, TypeOK, Serving
<1>2. rows[k] # NoRow /\ rows[k].funded = proc[h].funded /\ ~rows[k].ref /\ refunds[k] = 0
  BY <1>1 DEF CallSound
<1>3. k \notin acked /\ rows[k].status # "succeeded"
  BY <1>1, <1>2 DEF RowSound
<1>4. ASSUME NEW g \in Handlers \ {h}, proc[g].key = k
      PROVE  proc[g].pc \notin Serving \cup {"paid", "bounced", "hookrefund"}
  <2>1. CallSound(g)
    BY DEF IInv
  <2>2. proc[g].pc \notin Serving
    BY <1>4 DEF IInv, Alone
  <2> QED
    BY <1>2, <1>4, <2>1, <2>2 DEF CallSound
<1> QED
  BY <1>1, <1>2, <1>3, <1>4 DEF Key

\* What the other calls rely on when the holder of a row does something to it.
LEMMA Bystanders ==
    ASSUME IInv, NEW h \in Handlers, NEW k \in Keys, proc[h].pc \in Serving, proc[h].key = k,
           Others(h), k \in debits => k \in debits', submits[k] = 1 => submits'[k] = 1
    PROVE  \A g \in Handlers \ {h} : proc[g].pc # "idle" /\ proc[g].key = k => CallSound(g)'
<1> SUFFICES ASSUME NEW g \in Handlers \ {h}, proc[g].pc # "idle", proc[g].key = k
             PROVE  CallSound(g)'
  OBVIOUS
<1>1. proc[g].pc \notin Serving \cup {"paid", "bounced", "hookrefund"}
  BY ServingFacts
<1>2. CallSound(g) /\ proc'[g] = proc[g]
  BY DEF IInv, Others
<1> QED
  BY <1>1, <1>2 DEF CallSound, Serving

LEMMA AttachKeeps == ASSUME IInv, NEW h \in Handlers, AttachWalletTxn(h) PROVE IInv'
<1>a. PICK k \in Keys : k = proc[h].key
  BY CallFacts DEF IInv, AttachWalletTxn, At
<1>0. proc[h].pc = "attach" /\ proc[h].pc \in Serving /\ proc[h].key = k
  BY <1>a DEF AttachWalletTxn, At, Serving
<1>1. /\ TypeOK /\ proc[h].pc # "idle" /\ Key(h) = k
      /\ rows[k] \in Rows /\ rows[k] # NoRow /\ rows[k].funded = proc[h].funded
      /\ ~rows[k].ref /\ refunds[k] = 0 /\ k \notin acked
      /\ rows[k].status # "succeeded" /\ RowSound(k) /\ CallSound(h)
  BY <1>0, ServingFacts
<1>2. proc[h].funded /\ submits[k] = 0
  BY <1>0, <1>1 DEF CallSound
<1>3. /\ Goto(h, "submit") /\ UNCHANGED <<cached, wallet, rail, clock, calls>>
      /\ rows' = [rows EXCEPT ![k].txn = TRUE] \/ rows' = rows
  BY <1>1 DEF AttachWalletTxn
<1>4. /\ proc' \in [Handlers -> Locals] /\ Others(h)
      /\ proc'[h].pc = "submit" /\ proc'[h].key = k /\ proc'[h].funded = proc[h].funded
  BY <1>0, <1>1, <1>3, GotoFacts DEF Others, PayPcs
<1>5. /\ rows' \in [Keys -> Rows] /\ \A j \in Keys \ {k} : rows'[j] = rows[j]
      /\ rows'[k] # NoRow /\ rows'[k].funded = rows[k].funded /\ rows'[k].ref = rows[k].ref
      /\ rows'[k].status = rows[k].status
  <2> DEFINE x == rows[k]
             y == [x EXCEPT !.txn = TRUE]
  <2>1. CASE rows' = rows
    BY <1>1, <2>1 DEF TypeOK
  <2>2. CASE rows' = [rows EXCEPT ![k].txn = TRUE]
    <3>1. rows' = [rows EXCEPT ![k] = y]
      BY <2>2
    <3>2. x \in Rows /\ x # NoRow /\ x.funded
      BY <1>1, <1>2
    <3> HIDE DEF x
    <3>3. y \in Rows /\ y.funded = x.funded /\ y.ref = x.ref /\ y.status = x.status
      BY <3>2 DEF Rows
    <3>4. y # NoRow
      BY <3>2, <3>3, RowFacts
    <3> HIDE DEF y
    <3>5. rows' \in [Keys -> Rows] /\ rows'[k] = y /\ \A j \in Keys \ {k} : rows'[j] = rows[j]
      BY <1>1, <3>1, <3>3, PutFacts
    <3> QED
      BY <3>3, <3>4, <3>5 DEF x
  <2> QED
    BY <1>3, <2>1, <2>2
<1>6. faults' \in 0..MaxFaults /\ dropped' \subseteq Keys
  BY <1>1, FaultType, DropType DEF AttachWalletTxn
<1>7. TypeOK'
  BY <1>1, <1>3, <1>4, <1>5, <1>6 DEF TypeOK, wallet, rail, clock
<1>8. \A j \in Keys \ {k} : Kept(j)
  BY <1>3, <1>5 DEF Kept, wallet, rail
<1>9. RowSound(k)'
  BY <1>1, <1>2, <1>3, <1>5 DEF RowSound, wallet, rail
<1>10. CallSound(h)'
  BY <1>1, <1>2, <1>3, <1>4, <1>5 DEF CallSound, Serving, wallet, rail
<1>11. \A g \in Handlers \ {h} : proc[g].pc # "idle" /\ proc[g].key = k => CallSound(g)'
  BY <1>0, <1>3, <1>4, Bystanders DEF wallet, rail
<1>12. \A g \in Handlers \ {h} : proc[g].pc \in Serving => proc[g].key # proc'[h].key
  BY <1>0, <1>4, ServingFacts
<1> QED
  BY <1>4, <1>7, <1>8, <1>9, <1>10, <1>11, <1>12, OneStep

LEMMA SubmitKeeps == ASSUME IInv, NEW h \in Handlers, SubmitPayment(h) PROVE IInv'
<1>a. PICK k \in Keys : k = proc[h].key
  BY CallFacts DEF IInv, SubmitPayment, At
<1>0. proc[h].pc = "submit" /\ proc[h].pc \in Serving /\ proc[h].key = k
  BY <1>a DEF SubmitPayment, At, Serving
<1>1. /\ TypeOK /\ proc[h].pc # "idle" /\ Key(h) = k
      /\ rows[k] # NoRow /\ rows[k].funded = proc[h].funded
      /\ ~rows[k].ref /\ refunds[k] = 0 /\ k \notin acked
      /\ rows[k].status # "succeeded" /\ RowSound(k) /\ CallSound(h)
  BY <1>0, ServingFacts
<1>2. submits[k] = 0
  BY <1>0, <1>1 DEF CallSound
<1>3. /\ UNCHANGED <<rows, cached, wallet, acked, clock, dropped, calls>>
      /\ submits' = [submits EXCEPT ![k] = @ + 1]
      /\ setu' = [setu EXCEPT ![k] = "accepted"] \/ setu' = setu
      /\ Goto(h, "mark") \/ Goto(h, "fail")
  BY <1>1 DEF SubmitPayment
<1>4. /\ proc' \in [Handlers -> Locals] /\ Others(h) /\ proc'[h].pc \in {"mark", "fail"}
      /\ proc'[h].key = k /\ proc'[h].funded = proc[h].funded
  BY <1>0, <1>1, <1>3, GotoFacts DEF Others, PayPcs
<1>5. /\ submits' \in [Keys -> Nat] /\ submits'[k] = 1
      /\ \A j \in Keys \ {k} : submits'[j] = submits[j] /\ setu'[j] = setu[j]
      /\ setu' \in [Keys -> {"none", "accepted", "paid", "bounced"}]
  BY <1>1, <1>2, <1>3 DEF TypeOK
<1>6. faults' \in 0..MaxFaults
  BY <1>1, FaultType DEF SubmitPayment
<1>7. TypeOK'
  BY <1>1, <1>3, <1>4, <1>5, <1>6 DEF TypeOK, wallet, clock
<1>8. \A j \in Keys \ {k} : Kept(j)
  BY <1>3, <1>5 DEF Kept, wallet
<1>9. RowSound(k)'
  BY <1>1, <1>2, <1>3, <1>5 DEF RowSound, wallet
<1>10. CallSound(h)'
  BY <1>1, <1>3, <1>4, <1>5 DEF CallSound, Serving, wallet
<1>11. \A g \in Handlers \ {h} : proc[g].pc # "idle" /\ proc[g].key = k => CallSound(g)'
  BY <1>0, <1>3, <1>4, <1>5, Bystanders DEF wallet
<1>12. \A g \in Handlers \ {h} : proc[g].pc \in Serving => proc[g].key # proc'[h].key
  BY <1>0, <1>4, ServingFacts
<1> QED
  BY <1>4, <1>7, <1>8, <1>9, <1>10, <1>11, <1>12, OneStep

LEMMA MarkKeeps == ASSUME IInv, NEW h \in Handlers, MarkPaymentSubmitted(h) PROVE IInv'
<1>a. PICK k \in Keys : k = proc[h].key
  BY CallFacts DEF IInv, MarkPaymentSubmitted, At
<1>0. proc[h].pc = "mark" /\ proc[h].pc \in Serving /\ proc[h].key = k
  BY <1>a DEF MarkPaymentSubmitted, At, Serving
<1>1. /\ TypeOK /\ proc[h].pc # "idle" /\ Key(h) = k
      /\ rows[k] \in Rows /\ rows[k] # NoRow
      /\ ~rows[k].ref /\ refunds[k] = 0 /\ k \notin acked
      /\ rows[k].status # "succeeded" /\ RowSound(k) /\ CallSound(h)
  BY <1>0, ServingFacts
<1>2. submits[k] = 1
  BY <1>0, <1>1 DEF CallSound
<1>3. /\ Goto(h, "record") /\ UNCHANGED <<cached, wallet, rail, clock, calls>>
      /\ rows' = rows \/
         (rows[k].status = "initiated" /\
          rows' = [rows EXCEPT ![k].status = "submitted", ![k].ref = TRUE])
  BY <1>1 DEF MarkPaymentSubmitted
<1>4. /\ proc' \in [Handlers -> Locals] /\ Others(h)
      /\ proc'[h].pc = "record" /\ proc'[h].key = k
  BY <1>0, <1>1, <1>3, GotoFacts DEF Others, PayPcs
<1>5. /\ rows' \in [Keys -> Rows] /\ \A j \in Keys \ {k} : rows'[j] = rows[j]
      /\ rows'[k] # NoRow /\ rows'[k].funded = rows[k].funded
      /\ rows'[k].status # "succeeded"
  <2> DEFINE x == rows[k]
             y == [x EXCEPT !.status = "submitted", !.ref = TRUE]
  <2>1. CASE rows' = rows
    BY <1>1, <2>1 DEF TypeOK
  <2>2. CASE rows' = [rows EXCEPT ![k].status = "submitted", ![k].ref = TRUE]
    <3>1. rows' = [rows EXCEPT ![k] = y]
      BY <1>1, <2>2 DEF TypeOK
    <3>2. x \in Rows /\ x # NoRow
      BY <1>1
    <3> HIDE DEF x
    <3>3. y \in Rows /\ y.funded = x.funded /\ y.status = "submitted"
      BY <3>2 DEF Rows, Statuses
    <3>4. y # NoRow
      BY <3>3, RowFacts
    <3> HIDE DEF y
    <3>5. rows' \in [Keys -> Rows] /\ rows'[k] = y /\ \A j \in Keys \ {k} : rows'[j] = rows[j]
      BY <1>1, <3>1, <3>3, PutFacts
    <3> QED
      BY <3>3, <3>4, <3>5 DEF x
  <2> QED
    BY <1>3, <2>1, <2>2
<1>6. faults' \in 0..MaxFaults /\ dropped' \subseteq Keys
  BY <1>1, FaultType, DropType DEF MarkPaymentSubmitted
<1>7. TypeOK'
  BY <1>1, <1>3, <1>4, <1>5, <1>6 DEF TypeOK, wallet, rail, clock
<1>8. \A j \in Keys \ {k} : Kept(j)
  BY <1>3, <1>5 DEF Kept, wallet, rail
<1>9. RowSound(k)'
  BY <1>1, <1>2, <1>3, <1>5 DEF RowSound, wallet, rail
<1>10. CallSound(h)' /\ proc'[h].pc \notin Serving
  BY <1>2, <1>3, <1>4 DEF CallSound, Serving, rail
<1>11. \A g \in Handlers \ {h} : proc[g].pc # "idle" /\ proc[g].key = k => CallSound(g)'
  BY <1>0, <1>3, <1>4, Bystanders DEF wallet, rail
<1> QED
  BY <1>4, <1>7, <1>8, <1>9, <1>10, <1>11, OneStep

\* The end of a call: the scheduler's goes on, a client's returns.
LEMMA SucceedFacts ==
    ASSUME TypeOK, NEW h \in Handlers, NEW k \in Keys, proc[h].pc # "idle", proc[h].key = k,
           Succeed(h)
    PROVE  /\ proc' \in [Handlers -> Locals] /\ Others(h)
           /\ proc'[h].pc = "idle" \/ (proc'[h].pc = "advance" /\ proc'[h].key = k)
<1>1. CASE Return(h)
  BY <1>1, ReturnFacts DEF Others
<1>2. CASE Goto(h, "advance")
  BY <1>2, GotoFacts DEF Others, PayPcs
<1> QED
  BY <1>1, <1>2 DEF Succeed

LEMMA RecordKeeps == ASSUME IInv, NEW h \in Handlers, RecordIdempotency(h) PROVE IInv'
<1>a. PICK k \in Keys : k = proc[h].key
  BY CallFacts DEF IInv, RecordIdempotency, At
<1>1. /\ TypeOK /\ proc[h].pc = "record" /\ proc[h].key = k /\ Key(h) = k
      /\ RowSound(k) /\ CallSound(h) /\ Succeed(h)
      /\ UNCHANGED <<rows, wallet, rail, clock, dropped, calls>>
      /\ cached' = cached \/ cached' = cached \cup {k}
  BY <1>a DEF IInv, RecordIdempotency, At, Key
<1>2. submits[k] = 1
  BY <1>1 DEF CallSound
<1>3. /\ proc' \in [Handlers -> Locals] /\ Others(h)
      /\ proc'[h].pc = "idle" \/ (proc'[h].pc = "advance" /\ proc'[h].key = k)
  BY <1>1, SucceedFacts
<1>4. faults' \in 0..MaxFaults
  BY <1>1, FaultType DEF RecordIdempotency
<1>5. TypeOK'
  BY <1>1, <1>3, <1>4 DEF TypeOK, wallet, rail, clock
<1>6. \A j \in Keys \ {k} : Kept(j)
  BY <1>1 DEF Kept, wallet, rail
<1>7. RowSound(k)'
  BY <1>1, <1>2 DEF RowSound, wallet, rail
<1>8. CallSound(h)' /\ proc'[h].pc \notin Serving
  BY <1>1, <1>2, <1>3 DEF CallSound, Serving, rail
<1>9. ASSUME NEW g \in Handlers \ {h}, proc[g].pc # "idle", proc[g].key = k
      PROVE  CallSound(g)'
  <2>1. CallSound(g) /\ proc'[g] = proc[g]
    BY <1>3 DEF IInv, Others
  <2> QED
    BY <1>1, <1>9, <2>1 DEF CallSound, Serving, wallet, rail
<1> QED
  BY <1>3, <1>5, <1>6, <1>7, <1>8, <1>9, OneStep

LEMMA FailKeeps == ASSUME IInv, NEW h \in Handlers, FailPayment(h) PROVE IInv'
<1>a. PICK k \in Keys : k = proc[h].key
  BY CallFacts DEF IInv, FailPayment, At
<1>0. proc[h].pc = "fail" /\ proc[h].pc \in Serving /\ proc[h].key = k
  BY <1>a DEF FailPayment, At, Serving
<1>1. /\ TypeOK /\ proc[h].pc # "idle" /\ Key(h) = k
      /\ rows[k] # NoRow /\ rows[k].funded = proc[h].funded
      /\ ~rows[k].ref /\ refunds[k] = 0 /\ k \notin acked
      /\ rows[k].status # "succeeded" /\ RowSound(k) /\ CallSound(h)
  BY <1>0, ServingFacts
<1>2. submits[k] = 1
  BY <1>0, <1>1 DEF CallSound
<1>3. /\ UNCHANGED <<cached, wallet, rail, clock, dropped, calls>>
      /\ rows' = MarkedFailed(k) \/ rows' = rows
      /\ Goto(h, "giveback") \/ Return(h)
  BY <1>1 DEF FailPayment
<1>4. /\ proc' \in [Handlers -> Locals] /\ Others(h)
      /\ \/ proc'[h].pc = "idle"
         \/ /\ proc'[h].pc = "giveback" /\ proc'[h].key = k
            /\ proc'[h].funded = proc[h].funded
  BY <1>0, <1>1, <1>3, GotoFacts, ReturnFacts DEF Others, PayPcs
<1>5. StatusOnly(k) /\ rows'[k].status # "succeeded"
  BY <1>1, <1>3, SetFailed
<1>6. faults' \in 0..MaxFaults
  BY <1>1, FaultType DEF FailPayment
<1>7. TypeOK'
  BY <1>1, <1>3, <1>4, <1>5, <1>6 DEF TypeOK, StatusOnly, wallet, rail, clock
<1>8. \A j \in Keys \ {k} : Kept(j)
  BY <1>3, <1>5 DEF Kept, StatusOnly, wallet, rail
<1>9. RowSound(k)'
  BY <1>1, <1>3, <1>5 DEF RowSound, StatusOnly, wallet, rail
<1>10. CallSound(h)'
  BY <1>1, <1>2, <1>3, <1>4, <1>5 DEF CallSound, StatusOnly, Serving, wallet, rail
<1>11. \A g \in Handlers \ {h} : proc[g].pc # "idle" /\ proc[g].key = k => CallSound(g)'
  BY <1>0, <1>3, <1>4, Bystanders DEF wallet, rail
<1>12. proc'[h].pc \in Serving =>
         \A g \in Handlers \ {h} : proc[g].pc \in Serving => proc[g].key # proc'[h].key
  BY <1>0, <1>4, ServingFacts DEF Serving
<1> QED
  BY <1>4, <1>7, <1>8, <1>9, <1>10, <1>11, <1>12, OneStep

LEMMA GiveBackKeeps == ASSUME IInv, NEW h \in Handlers, GiveBack(h) PROVE IInv'
<1>a. PICK k \in Keys : k = proc[h].key
  BY CallFacts DEF IInv, GiveBack, At
<1>0. proc[h].pc = "giveback" /\ proc[h].pc \in Serving /\ proc[h].key = k
  BY <1>a DEF GiveBack, At, Serving
<1>1. /\ TypeOK /\ Key(h) = k /\ rows[k] # NoRow
      /\ ~rows[k].ref /\ refunds[k] = 0 /\ k \notin acked
      /\ rows[k].status # "succeeded" /\ RowSound(k)
  BY <1>0, ServingFacts
<1>3. /\ UNCHANGED <<rows, cached, debits, undone, rail, clock, calls>> /\ Return(h)
      /\ refunds' = refunds \/ refunds' = [refunds EXCEPT ![k] = @ + 1]
  BY <1>1 DEF GiveBack, Refunding
<1>4. proc' \in [Handlers -> Locals] /\ Others(h) /\ proc'[h].pc = "idle"
  BY <1>1, <1>3, ReturnFacts DEF Others
<1>5. /\ refunds' \in [Keys -> Nat] /\ \A j \in Keys \ {k} : refunds'[j] = refunds[j]
  BY <1>1, <1>3 DEF TypeOK
<1>6. faults' \in 0..MaxFaults /\ dropped' \subseteq Keys
  BY <1>1, FaultType, DropType DEF GiveBack, Refunding
<1>7. TypeOK'
  BY <1>1, <1>3, <1>4, <1>5, <1>6 DEF TypeOK, rail, clock
<1>8. \A j \in Keys \ {k} : Kept(j)
  BY <1>3, <1>5 DEF Kept, rail
<1>9. RowSound(k)'
  BY <1>1, <1>3, <1>5 DEF RowSound, rail
<1>10. CallSound(h)' /\ proc'[h].pc \notin Serving
  BY <1>4 DEF CallSound, Serving
<1>11. \A g \in Handlers \ {h} : proc[g].pc # "idle" /\ proc[g].key = k => CallSound(g)'
  BY <1>0, <1>3, <1>4, Bystanders DEF rail
<1> QED
  BY <1>4, <1>7, <1>8, <1>9, <1>10, <1>11, OneStep

LEMMA AdvancedType ==
    ASSUME NEW s \in [kind : Kinds, active : BOOLEAN, due : Nat], NEW period \in Nat
    PROVE  /\ [s EXCEPT !.due = s.due + period] \in [kind : Kinds, active : BOOLEAN, due : Nat]
           /\ [s EXCEPT !.active = FALSE] \in [kind : Kinds, active : BOOLEAN, due : Nat]
<1>1. s.due + period \in Nat
  OBVIOUS
<1> QED
  BY <1>1

LEMMA AdvanceKeeps == ASSUME IInv, NEW h \in Handlers, AdvanceScheduled(h) PROVE IInv'
<1>1. /\ TypeOK /\ Return(h)
      /\ schedule' = Advanced \/ schedule' = schedule
      /\ UNCHANGED <<rows, cached, wallet, rail, today, dropped, calls>>
  BY DEF IInv, AdvanceScheduled
<1>2. proc' \in [Handlers -> Locals] /\ Others(h) /\ proc'[h].pc = "idle"
  BY <1>1, ReturnFacts DEF Others
<1>3. schedule' \in [kind : Kinds, active : BOOLEAN, due : Nat]
  <2> DEFINE s == schedule
  <2>1. s \in [kind : Kinds, active : BOOLEAN, due : Nat] /\ Period \in Nat
    BY <1>1, BillPayAssumption DEF TypeOK, BillPayAssumption
  <2>2. \/ schedule' = [s EXCEPT !.due = s.due + Period]
        \/ schedule' = [s EXCEPT !.active = FALSE]
        \/ schedule' = s
    BY <1>1 DEF Advanced
  <2> HIDE DEF s
  <2> QED
    BY <2>1, <2>2, AdvancedType
<1>4. faults' \in 0..MaxFaults
  BY <1>1, FaultType DEF AdvanceScheduled
<1>5. TypeOK'
  BY <1>1, <1>2, <1>3, <1>4 DEF TypeOK, wallet, rail
<1>6. (\A j \in Keys : Kept(j)) /\ CallSound(h)' /\ proc'[h].pc \notin Serving
  BY <1>1, <1>2 DEF Kept, CallSound, Serving, wallet, rail
<1> QED
  BY <1>2, <1>5, <1>6, CallOnly

LEMMA CrashKeeps == ASSUME IInv, NEW h \in Handlers, Crash(h) PROVE IInv'
<1>1. /\ TypeOK /\ Return(h) /\ proc[h].pc # "idle"
      /\ UNCHANGED <<rows, cached, wallet, rail, clock, calls>>
  BY DEF IInv, Crash, At
<1>2. proc' \in [Handlers -> Locals] /\ Others(h) /\ proc'[h].pc = "idle"
  BY <1>1, ReturnFacts DEF Others
<1>3. proc[h].key \in Keys
  BY <1>1, CallFacts
<1>4. faults' \in 0..MaxFaults /\ dropped' \subseteq Keys
  BY <1>1, <1>3, FaultType, DropType DEF Crash, Key
<1>5. TypeOK'
  BY <1>1, <1>2, <1>4 DEF TypeOK, wallet, rail, clock
<1>6. (\A j \in Keys : Kept(j)) /\ CallSound(h)' /\ proc'[h].pc \notin Serving
  BY <1>1, <1>2 DEF Kept, CallSound, Serving, wallet, rail
<1> QED
  BY <1>2, <1>5, <1>6, CallOnly

-----------------------------------------------------------------------------
(* Setu and its webhook *)

LEMMA SettleKeeps == ASSUME IInv, NEW k \in Keys, SetuSettles(k) PROVE IInv'
<1>1. /\ TypeOK /\ setu[k] = "accepted"
      /\ UNCHANGED <<rows, cached, wallet, submits, acked, clock, dropped, bounds, proc>>
  BY DEF IInv, SetuSettles
<1>2. PICK outcome \in {"paid", "bounced"} : setu' = [setu EXCEPT ![k] = outcome]
  BY DEF SetuSettles
<1>3. /\ setu' \in [Keys -> {"none", "accepted", "paid", "bounced"}]
      /\ setu'[k] = outcome /\ \A j \in Keys \ {k} : setu'[j] = setu[j]
  BY <1>1, <1>2 DEF TypeOK
<1>4. TypeOK'
  BY <1>1, <1>3 DEF TypeOK, wallet, clock, bounds
<1>5. ASSUME NEW j \in Keys PROVE RowSound(j)'
  <2>1. RowSound(j)
    BY DEF IInv
  <2> QED
    BY <1>1, <1>3, <2>1 DEF RowSound, wallet
<1>6. ASSUME NEW h \in Handlers PROVE CallSound(h)'
  <2>1. CallSound(h) /\ proc' = proc
    BY <1>1 DEF IInv
  <2>2. CASE proc[h].pc # "idle"
    BY <1>1, <1>3, <2>1, <2>2, CallFacts DEF CallSound, Serving, wallet
  <2>3. CASE proc[h].pc = "idle"
    BY <2>1, <2>3 DEF CallSound, Serving
  <2> QED
    BY <2>2, <2>3
<1>7. Alone'
  BY <1>1 DEF IInv, Alone
<1> QED
  BY <1>4, <1>5, <1>6, <1>7 DEF IInv

\* Once a row names its reference no call of Pay is at work on it.
LEMMA Named ==
    ASSUME IInv, NEW k \in Keys, rows[k].ref, NEW g \in Handlers, proc[g].key = k
    PROVE  proc[g].pc \notin Serving
BY DEF IInv, CallSound

\* What the other calls rely on when a webhook moves the row.
LEMMA HookBystanders ==
    ASSUME IInv, NEW h \in Handlers, NEW k \in Keys, rows[k].ref, Others(h), StatusOnly(k),
           UNCHANGED <<setu, submits, debits>>
    PROVE  \A g \in Handlers \ {h} : proc[g].pc # "idle" /\ proc[g].key = k => CallSound(g)'
<1> SUFFICES ASSUME NEW g \in Handlers \ {h}, proc[g].pc # "idle", proc[g].key = k
             PROVE  CallSound(g)'
  OBVIOUS
<1>1. CallSound(g) /\ proc'[g] = proc[g] /\ proc[g].pc \notin Serving
  BY Named DEF IInv, Others
<1> QED
  BY <1>1 DEF CallSound, Serving, StatusOnly

LEMMA WebhookKeeps == ASSUME IInv, NEW h \in Handlers, NEW k \in Keys, Webhook(h, k) PROVE IInv'
<1> DEFINE call == [pc |-> setu[k], key |-> k, cron |-> FALSE,
                    funded |-> rows[k].funded /\ rows[k].txn]
<1>1. /\ TypeOK /\ proc[h].pc = "idle" /\ setu[k] \in {"paid", "bounced"} /\ rows[k].ref
      /\ rows[k] \in Rows /\ RowSound(k)
      /\ UNCHANGED <<rows, cached, wallet, setu, submits, clock, dropped, calls>>
  BY DEF IInv, Webhook, At, TypeOK
<1>2. faults' \in 0..MaxFaults
  BY <1>1, FaultType DEF Webhook
<1>3. CASE rows[k].status = "succeeded"
  <2>1. acked' = acked \cup {k} /\ UNCHANGED proc
    BY <1>3 DEF Webhook
  <2>2. TypeOK'
    BY <1>1, <1>2, <2>1 DEF TypeOK, wallet, clock
  <2>3. \A j \in Keys \ {k} : Kept(j)
    BY <1>1, <2>1 DEF Kept, wallet
  <2>4. RowSound(k)'
    BY <1>1, <1>3, <2>1 DEF RowSound, wallet
  <2>5. \A g \in Handlers : CallSound(g)'
    <3> SUFFICES ASSUME NEW g \in Handlers PROVE CallSound(g)'
      OBVIOUS
    <3>1. CallSound(g)
      BY DEF IInv
    <3> QED
      BY <1>1, <2>1, <3>1 DEF CallSound, Serving, wallet
  <2>6. \A j \in Keys : RowSound(j)'
    BY <2>3, <2>4, KeptRow DEF IInv
  <2>7. Alone'
    BY <2>1 DEF IInv, Alone
  <2> QED
    BY <2>2, <2>5, <2>6, <2>7 DEF IInv
<1>4. CASE rows[k].status # "succeeded"
  <2>1. acked' = acked /\ proc' = [proc EXCEPT ![h] = call]
    BY <1>4 DEF Webhook
  <2>2. /\ call \in Locals /\ call.key = k /\ call.pc = setu[k]
        /\ call.funded = (rows[k].funded /\ rows[k].txn)
    BY <1>1 DEF Locals, HookPcs
  <2> HIDE DEF call
  <2>3. proc' \in [Handlers -> Locals] /\ proc'[h] = call /\ Others(h)
    BY <1>1, <2>1, <2>2, EnterFacts DEF Others
  <2>4. TypeOK'
    BY <1>1, <1>2, <2>1, <2>3 DEF TypeOK, wallet, clock
  <2>5. \A j \in Keys : Kept(j)
    BY <1>1, <2>1 DEF Kept, wallet
  <2>6. CallSound(h)' /\ proc'[h].pc \notin Serving
    BY <1>1, <2>2, <2>3 DEF CallSound, Serving
  <2> QED
    BY <2>3, <2>4, <2>5, <2>6, CallOnly
<1> QED
  BY <1>3, <1>4

LEMMA WebhookPaidKeeps == ASSUME IInv, NEW h \in Handlers, WebhookPaid(h) PROVE IInv'
<1>a. PICK k \in Keys : k = proc[h].key
  BY CallFacts DEF IInv, WebhookPaid, At
<1>1. /\ TypeOK /\ proc[h].pc = "paid" /\ proc[h].key = k /\ Key(h) = k
      /\ rows[k] \in Rows /\ RowSound(k) /\ CallSound(h) /\ Return(h)
      /\ UNCHANGED <<cached, wallet, setu, submits, clock, dropped, calls>>
  BY <1>a DEF IInv, WebhookPaid, At, Key, TypeOK
<1>2. rows[k].ref /\ setu[k] = "paid"
  BY <1>1 DEF CallSound
<1>3. proc' \in [Handlers -> Locals] /\ Others(h) /\ proc'[h].pc = "idle"
  BY <1>1, ReturnFacts DEF Others
<1>4. StatusOnly(k) /\ (acked' = acked \/ acked' = acked \cup {k})
  <2>1. CASE UNCHANGED <<rows, acked>>
    BY <1>1, <2>1 DEF StatusOnly, TypeOK
  <2>2. CASE /\ rows' = IF Open(k) THEN [rows EXCEPT ![k].status = "succeeded"] ELSE rows
             /\ acked' = acked \cup {k}
    <3>1. "succeeded" \in {"failed", "succeeded"}
      OBVIOUS
    <3>2. StatusOnly(k)
      BY <1>1, <2>2, <3>1, SetStatus, Zenon
    <3> QED
      BY <2>2, <3>2
  <2>3. \/ UNCHANGED <<rows, acked>>
        \/ /\ rows' = IF Open(k) THEN [rows EXCEPT ![k].status = "succeeded"] ELSE rows
           /\ acked' = acked \cup {k}
    BY <1>1, Zenon DEF WebhookPaid
  <2> QED
    BY <2>1, <2>2, <2>3, Zenon
<1>5. faults' \in 0..MaxFaults
  BY <1>1, FaultType DEF WebhookPaid
<1>6. TypeOK'
  BY <1>1, <1>3, <1>4, <1>5 DEF TypeOK, StatusOnly, wallet, clock
<1>7. \A j \in Keys \ {k} : Kept(j)
  BY <1>1, <1>4 DEF Kept, StatusOnly, wallet
<1>8. RowSound(k)'
  BY <1>1, <1>2, <1>4 DEF RowSound, StatusOnly, wallet
<1>9. CallSound(h)' /\ proc'[h].pc \notin Serving
  BY <1>3 DEF CallSound, Serving
<1>10. \A g \in Handlers \ {h} : proc[g].pc # "idle" /\ proc[g].key = k => CallSound(g)'
  BY <1>1, <1>2, <1>3, <1>4, HookBystanders DEF wallet
<1> QED
  BY <1>3, <1>6, <1>7, <1>8, <1>9, <1>10, OneStep

LEMMA WebhookBouncedKeeps == ASSUME IInv, NEW h \in Handlers, WebhookBounced(h) PROVE IInv'
<1>a. PICK k \in Keys : k = proc[h].key
  BY CallFacts DEF IInv, WebhookBounced, At
<1>1. /\ TypeOK /\ proc[h].pc = "bounced" /\ proc[h].key = k /\ Key(h) = k
      /\ rows[k] \in Rows /\ RowSound(k) /\ CallSound(h)
      /\ UNCHANGED <<cached, wallet, setu, submits, clock, dropped, calls>>
  BY <1>a DEF IInv, WebhookBounced, At, Key, TypeOK
<1>2. rows[k].ref /\ setu[k] = "bounced" /\ proc[h].funded = (rows[k].funded /\ rows[k].txn)
  BY <1>1 DEF CallSound
<1>3. /\ rows' = MarkedFailed(k) \/ rows' = rows
      /\ \/ acked' = acked /\ (Goto(h, "hookrefund") \/ Return(h))
         \/ acked' = acked \cup {k} /\ ~proc[h].funded /\ Return(h)
  BY <1>1, Zenon DEF WebhookBounced
<1>4. /\ proc' \in [Handlers -> Locals] /\ Others(h)
      /\ \/ proc'[h].pc = "idle"
         \/ /\ proc'[h].pc = "hookrefund" /\ proc'[h].key = k
            /\ proc'[h].funded = proc[h].funded
  BY <1>1, <1>3, GotoFacts, ReturnFacts DEF Others, HookPcs
<1>5. StatusOnly(k) /\ (rows'[k].status = "succeeded" => rows[k].status = "succeeded")
  BY <1>1, <1>3, SetFailed
<1>6. faults' \in 0..MaxFaults
  BY <1>1, FaultType DEF WebhookBounced
<1>7. TypeOK'
  BY <1>1, <1>3, <1>4, <1>5, <1>6 DEF TypeOK, StatusOnly, wallet, clock
<1>8. \A j \in Keys \ {k} : Kept(j)
  BY <1>1, <1>3, <1>5 DEF Kept, StatusOnly, wallet
<1>9. RowSound(k)'
  BY <1>1, <1>2, <1>3, <1>5 DEF RowSound, StatusOnly, wallet
<1>10. CallSound(h)' /\ proc'[h].pc \notin Serving
  BY <1>1, <1>2, <1>4, <1>5 DEF CallSound, Serving, StatusOnly
<1>11. \A g \in Handlers \ {h} : proc[g].pc # "idle" /\ proc[g].key = k => CallSound(g)'
  BY <1>1, <1>2, <1>4, <1>5, HookBystanders DEF wallet
<1> QED
  BY <1>4, <1>7, <1>8, <1>9, <1>10, <1>11, OneStep

LEMMA WebhookRefundKeeps == ASSUME IInv, NEW h \in Handlers, WebhookRefund(h) PROVE IInv'
<1>a. PICK k \in Keys : k = proc[h].key
  BY CallFacts DEF IInv, WebhookRefund, At
<1>1. /\ TypeOK /\ proc[h].pc = "hookrefund" /\ proc[h].key = k /\ Key(h) = k
      /\ RowSound(k) /\ CallSound(h) /\ Return(h)
      /\ UNCHANGED <<rows, cached, debits, undone, setu, submits, clock, dropped, calls>>
      /\ \/ refunds' = [refunds EXCEPT ![k] = @ + 1] /\ acked' = acked \cup {k}
         \/ UNCHANGED <<refunds, acked>>
  BY <1>a DEF IInv, WebhookRefund, At, Key
<1>2. rows[k].ref /\ setu[k] = "bounced"
  BY <1>1 DEF CallSound
<1>3. proc' \in [Handlers -> Locals] /\ Others(h) /\ proc'[h].pc = "idle"
  BY <1>1, ReturnFacts DEF Others
<1>4. /\ refunds' \in [Keys -> Nat] /\ refunds[k] \in Nat
      /\ \A j \in Keys \ {k} : refunds'[j] = refunds[j]
      /\ refunds'[k] = refunds[k] \/ refunds'[k] = refunds[k] + 1
      /\ k \in acked' => k \in acked \/ refunds'[k] >= 1
  BY <1>1 DEF TypeOK
<1>5. faults' \in 0..MaxFaults
  BY <1>1, FaultType DEF WebhookRefund
<1>6. TypeOK'
  BY <1>1, <1>3, <1>4, <1>5 DEF TypeOK, clock
<1>7. \A j \in Keys \ {k} : Kept(j)
  BY <1>1, <1>4 DEF Kept
<1>8. RowSound(k)'
  <2>1. rows[k] # NoRow
    BY <1>2 DEF NoRow
  <2> QED
    BY <1>1, <1>2, <1>4, <2>1 DEF RowSound
<1>9. CallSound(h)' /\ proc'[h].pc \notin Serving
  BY <1>3 DEF CallSound, Serving
<1>10. StatusOnly(k)
  BY <1>1 DEF StatusOnly, TypeOK
<1>11. \A g \in Handlers \ {h} : proc[g].pc # "idle" /\ proc[g].key = k => CallSound(g)'
  BY <1>1, <1>2, <1>3, <1>10, HookBystanders
<1> QED
  BY <1>3, <1>6, <1>7, <1>8, <1>9, <1>11, OneStep

-----------------------------------------------------------------------------
(* Safety *)

LEMMA InitIInv == Init => IInv
<1> SUFFICES ASSUME Init PROVE IInv
  OBVIOUS
<1>1. /\ \A k \in Keys : /\ rows[k] = NoRow /\ submits[k] = 0 /\ refunds[k] = 0 /\ setu[k] = "none"
                         /\ ~rows[k].funded /\ ~rows[k].ref /\ rows[k].status = "none"
      /\ cached = {} /\ debits = {} /\ acked = {}
  BY DEF Init, NoRow
<1>2. \A h \in Handlers : proc[h].pc = "idle"
  BY DEF Init, Idle
<1>3. TypeOK
  <2>1. NoRow \in Rows /\ Idle \in Locals /\ 1 \in Days
    BY BillPayAssumption DEF BillPayAssumption, Rows, Locals, Days
  <2>2. schedule \in [kind : Kinds, active : BOOLEAN, due : Nat]
    <3>1. ASSUME NEW s \in [kind : Kinds, active : {TRUE}, due : {1}]
          PROVE  s \in [kind : Kinds, active : BOOLEAN, due : Nat]
      <4>1. \A x \in {TRUE} : x \in BOOLEAN
        OBVIOUS
      <4>2. \A x \in {1} : x \in Nat
        OBVIOUS
      <4> QED
        BY <4>1, <4>2, Zenon
    <3> QED
      BY <3>1 DEF Init
  <2> QED
    BY <2>1, <2>2, BillPayAssumption DEF Init, TypeOK, BillPayAssumption
<1>4. \A k \in Keys : RowSound(k)
  BY <1>1 DEF RowSound
<1>5. \A h \in Handlers : CallSound(h)
  BY <1>2 DEF CallSound, Serving
<1>6. Alone
  BY <1>2 DEF Alone, Serving
<1> QED
  BY <1>3, <1>4, <1>5, <1>6 DEF IInv

LEMMA Unmoved ==
    ASSUME IInv, TypeOK',
           UNCHANGED <<rows, cached, debits, refunds, setu, submits, acked, proc>>
    PROVE  IInv'
<1>1. \A k \in Keys : RowSound(k)'
  BY DEF IInv, RowSound
<1>2. \A h \in Handlers : CallSound(h)'
  BY DEF IInv, CallSound, Serving
<1>3. Alone'
  BY DEF IInv, Alone
<1> QED
  BY <1>1, <1>2, <1>3 DEF IInv

LEMMA NextIInv == IInv /\ [Next]_vars => IInv'
<1> SUFFICES ASSUME IInv, [Next]_vars PROVE IInv'
  OBVIOUS
<1>1. ASSUME NEW h \in Handlers, PayStep(h) PROVE IInv'
  BY <1>1, WalletDebitKeeps, InsertKeeps, UndoKeeps, AttachKeeps, SubmitKeeps, MarkKeeps,
     RecordKeeps, FailKeeps, GiveBackKeeps, AdvanceKeeps DEF PayStep
<1>2. ASSUME NEW h \in Handlers, HookStep(h) PROVE IInv'
  BY <1>2, WebhookPaidKeeps, WebhookBouncedKeeps, WebhookRefundKeeps DEF HookStep
<1>3. ASSUME NEW h \in Handlers, Pay(h) \/ RunScheduledCron(h) \/ Crash(h) PROVE IInv'
  BY <1>3, PayKeeps, CronKeeps, CrashKeeps
<1>4. ASSUME NEW h \in Handlers, NEW k \in Keys, Webhook(h, k) PROVE IInv'
  BY <1>4, WebhookKeeps
<1>5. ASSUME NEW k \in Keys, SetuSettles(k) PROVE IInv'
  BY <1>5, SettleKeeps
<1>6. CASE UpdateScheduledActive
  <2> DEFINE s == schedule
             t == [s EXCEPT !.active = ~s.active]
  <2>1. /\ schedule' = t
        /\ UNCHANGED <<rows, cached, wallet, rail, today, dropped, bounds, proc>>
    BY <1>6 DEF UpdateScheduledActive
  <2>2. s \in [kind : Kinds, active : BOOLEAN, due : Nat]
    BY DEF IInv, TypeOK
  <2> HIDE DEF s
  <2>3. t \in [kind : Kinds, active : BOOLEAN, due : Nat]
    BY <2>2
  <2> HIDE DEF t
  <2>4. TypeOK'
    BY <2>1, <2>3 DEF IInv, TypeOK, wallet, rail, bounds
  <2> QED
    BY <2>1, <2>4, Unmoved DEF wallet, rail
<1>7. CASE NextDay
  <2>1. /\ today' = today + 1 /\ today < LastDay
        /\ UNCHANGED <<rows, cached, wallet, rail, schedule, dropped, bounds, proc>>
    BY <1>7 DEF NextDay
  <2>2. today' \in Days
    BY <2>1, BillPayAssumption DEF IInv, TypeOK, Days, BillPayAssumption
  <2>3. TypeOK'
    BY <2>1, <2>2 DEF IInv, TypeOK, wallet, rail, bounds
  <2> QED
    BY <2>1, <2>3, Unmoved DEF wallet, rail
<1>8. CASE UNCHANGED vars
  <2>1. TypeOK'
    BY <1>8 DEF IInv, TypeOK, vars, wallet, rail, clock, bounds
  <2> QED
    BY <1>8, <2>1, Unmoved DEF vars, wallet, rail
<1> QED
  BY <1>1, <1>2, <1>3, <1>4, <1>5, <1>6, <1>7, <1>8 DEF Next

LEMMA Invariance == Spec => []IInv
BY InitIInv, NextIInv, PTL DEF Spec

\* Every variable keeps its shape.
THEOREM TypeCorrect == Spec => []TypeOK
<1>1. IInv => TypeOK
  BY DEF IInv
<1> QED
  BY <1>1, Invariance, PTL

\* Setu is handed a key's payment at most once (the UNIQUE idempotency_key), and
\* a key is answered from the cache only when it has been.
THEOREM HandedOverOnce == Spec => []SubmittedOnce
<1>1. IInv => SubmittedOnce
  BY DEF IInv, RowSound, SubmittedOnce
<1> QED
  BY <1>1, Invariance, PTL

\* What bill-pay reports as succeeded was paid by Setu and debited, and no
\* compensation or webhook has given it back.
THEOREM SuccessIsPaid == Spec => []SucceededWasPaid
<1>1. ASSUME IInv PROVE SucceededWasPaid
  <2> SUFFICES ASSUME NEW k \in Keys, rows[k].status = "succeeded"
               PROVE  /\ setu[k] = "paid" /\ refunds[k] = 0
                      /\ rows[k].funded => k \in debits
    BY DEF SucceededWasPaid
  <2>1. RowSound(k) /\ refunds[k] \in Nat
    BY <1>1 DEF IInv, TypeOK
  <2> QED
    BY <2>1 DEF RowSound
<1> QED
  BY <1>1, Invariance, PTL

\* Setu is answered 200 for a bounced payment only once the wallet was refunded.
THEOREM BouncedIsRefunded == Spec => []BouncedIsReturned
<1>1. ASSUME IInv PROVE BouncedIsReturned
  <2> SUFFICES ASSUME NEW k \in acked, setu[k] = "bounced", rows[k].funded, rows[k].txn
               PROVE  refunds[k] >= 1
    BY DEF BouncedIsReturned
  <2>1. k \in Keys
    BY <1>1 DEF IInv, TypeOK
  <2> QED
    BY <1>1, <2>1 DEF IInv, RowSound
<1> QED
  BY <1>1, Invariance, PTL

-----------------------------------------------------------------------------
(* Instalments *)

Paid == {d \in Days : rows[d].ref}
Moving == {h \in Handlers : proc[h].pc \in {"record", "advance"} /\ proc[h].cron}

\* Only the scheduler's calls are about a day.
CronKeys == \A h \in Handlers : proc[h].pc \in PayPcs /\ proc[h].key \in Days => proc[h].cron

CountInv == IInv /\ CronKeys /\ InstalmentTakenOnce

LEMMA DivStep ==
    ASSUME NEW a \in Int, NEW p \in Nat \ {0}
    PROVE  a \div p \in Int /\ (a + p) \div p = a \div p + 1
OBVIOUS

\* Numbers for the three sums.
LEMMA CountFacts ==
    ASSUME TypeOK, TypeOK'
    PROVE  /\ IsFiniteSet(Paid) /\ IsFiniteSet(Paid') /\ IsFiniteSet(Moving) /\ IsFiniteSet(Moving')
           /\ Cardinality(Paid) \in Nat /\ Cardinality(Paid') \in Nat
           /\ Cardinality(Moving) \in Nat /\ Cardinality(Moving') \in Nat
           /\ faults \in Nat /\ faults' \in Nat
           /\ (schedule.due - 1) \div Period \in Int
           /\ (schedule'.due - 1) \div Period \in Int
<1>1. IsFiniteSet(Days) /\ IsFiniteSet(Handlers) /\ Period \in Nat \ {0} /\ MaxFaults \in Nat
  BY FS_Interval, BillPayAssumption DEF BillPayAssumption, Days
<1>2. Paid \subseteq Days /\ Paid' \subseteq Days
  BY DEF Paid
<1>3. Moving \subseteq Handlers /\ Moving' \subseteq Handlers
  BY DEF Moving
<1>4. /\ IsFiniteSet(Paid) /\ IsFiniteSet(Paid') /\ IsFiniteSet(Moving) /\ IsFiniteSet(Moving')
  BY <1>1, <1>2, <1>3, FS_Subset
<1>5. faults \in Nat /\ faults' \in Nat
  BY <1>1 DEF TypeOK
<1>6. schedule.due \in Nat /\ schedule'.due \in Nat
  BY DEF TypeOK
<1>7. schedule.due - 1 \in Int /\ schedule'.due - 1 \in Int
  BY <1>6
<1>8. (schedule.due - 1) \div Period \in Int /\ (schedule'.due - 1) \div Period \in Int
  BY <1>1, <1>7, DivStep
<1> QED
  BY <1>4, <1>5, <1>8, FS_CardinalityType

\* InstalmentTakenOnce in terms of the two sets.
LEMMA CountForm ==
    InstalmentTakenOnce <=>
        (schedule.kind = "monthly" =>
            Cardinality(Paid) <= (schedule.due - 1) \div Period + faults + Cardinality(Moving))
BY DEF InstalmentTakenOnce, Paid, Moving

\* Most steps pay for no day and keep every run on its way.
LEMMA Quiet ==
    ASSUME TypeOK, TypeOK', InstalmentTakenOnce, Paid' \subseteq Paid, Moving \subseteq Moving',
           schedule'.kind = schedule.kind, schedule'.due = schedule.due, faults' >= faults
    PROVE  InstalmentTakenOnce'
<1>1. Cardinality(Paid') <= Cardinality(Paid) /\ Cardinality(Moving) <= Cardinality(Moving')
  BY CountFacts, FS_Subset
<1> DEFINE a == (schedule.due - 1) \div Period
           b == (schedule'.due - 1) \div Period
<1>2. a = b
  OBVIOUS
<1>3. a \in Int /\ b \in Int
  BY CountFacts
<1>4. schedule.kind = "monthly" => Cardinality(Paid) <= a + faults + Cardinality(Moving)
  BY CountForm
<1> HIDE DEF a, b
<1>5. schedule'.kind = "monthly" => Cardinality(Paid') <= b + faults' + Cardinality(Moving')
  BY <1>1, <1>2, <1>3, <1>4, CountFacts
<1> QED
  BY <1>5 DEF InstalmentTakenOnce, Paid, Moving, b

\* A step of one call that names no row and was not on its way to AdvanceScheduled.
LEMMA QuietCall ==
    ASSUME TypeOK, TypeOK', CronKeys, InstalmentTakenOnce, NEW h \in Handlers, Others(h),
           \A j \in Keys : rows'[j].ref => rows[j].ref,
           h \in Moving => h \in Moving',
           proc'[h].pc \in PayPcs /\ proc'[h].key \in Days => proc'[h].cron,
           schedule'.kind = schedule.kind, schedule'.due = schedule.due,
           faults' = faults \/ faults' = faults + 1
    PROVE  CronKeys' /\ InstalmentTakenOnce'
<1>1. Paid' \subseteq Paid
  BY KeyFacts DEF Paid
<1>2. Moving \subseteq Moving'
  BY DEF Moving, Others
<1>3. faults' >= faults
  BY CountFacts
<1>4. InstalmentTakenOnce'
  BY <1>1, <1>2, <1>3, Quiet
<1>5. CronKeys'
  BY DEF CronKeys, Others
<1> QED
  BY <1>4, <1>5

LEMMA EnterCron ==
    ASSUME NEW h \in Handlers, NEW k \in Keys, NEW funded \in BOOLEAN, NEW cron \in BOOLEAN,
           k \in Days => cron, TypeOK, Enter(h, k, funded, cron)
    PROVE  Others(h) /\ (proc'[h].pc \in PayPcs /\ proc'[h].key \in Days => proc'[h].cron)
<1> DEFINE call == [pc |-> IF funded THEN "debit" ELSE "insert",
                    key |-> k, funded |-> funded, cron |-> cron]
           next == IF k \notin cached THEN call
                   ELSE IF cron THEN [call EXCEPT !.pc = "advance"] ELSE Idle
<1>1. proc' = [proc EXCEPT ![h] = next]
  BY DEF Enter
<1>2. next = Idle \/ (next.key = k /\ next.cron = cron)
  OBVIOUS
<1>3. Idle.pc \notin PayPcs
  BY DEF Idle, PayPcs
<1> HIDE DEF next
<1>4. proc'[h] = next /\ Others(h)
  BY <1>1 DEF TypeOK, Others
<1> QED
  BY <1>2, <1>3, <1>4

LEMMA PayCount == ASSUME CountInv, TypeOK', NEW h \in Handlers, Pay(h)
                  PROVE CronKeys' /\ InstalmentTakenOnce'
<1>1. PICK k \in ClientKeys, funded \in Funding : Enter(h, k, funded, FALSE)
  BY DEF Pay
<1>2. k \in Keys /\ k \notin Days /\ funded \in BOOLEAN
  BY KeyFacts, BillPayAssumption DEF BillPayAssumption, Keys
<1>3. /\ TypeOK /\ CronKeys /\ InstalmentTakenOnce
      /\ proc[h].pc = "idle" /\ UNCHANGED <<rows, schedule, faults>>
  BY DEF CountInv, IInv, Pay, At, clock
<1>4. h \notin Moving
  BY <1>3 DEF Moving
<1>5. Others(h) /\ (proc'[h].pc \in PayPcs /\ proc'[h].key \in Days => proc'[h].cron)
  BY <1>1, <1>2, <1>3, EnterCron
<1> QED
  BY <1>3, <1>4, <1>5, QuietCall

LEMMA CronCount == ASSUME CountInv, TypeOK', NEW h \in Handlers, RunScheduledCron(h)
                   PROVE CronKeys' /\ InstalmentTakenOnce'
<1>1. PICK funded \in Funding : Enter(h, today, funded, TRUE)
  BY DEF RunScheduledCron
<1>3. /\ TypeOK /\ CronKeys /\ InstalmentTakenOnce
      /\ proc[h].pc = "idle" /\ UNCHANGED <<rows, schedule, faults>>
  BY DEF CountInv, IInv, RunScheduledCron, At, clock
<1>2. today \in Keys /\ funded \in BOOLEAN
  BY <1>3, BillPayAssumption DEF BillPayAssumption, Keys, TypeOK
<1>4. h \notin Moving
  BY <1>3 DEF Moving
<1>5. Others(h) /\ (proc'[h].pc \in PayPcs /\ proc'[h].key \in Days => proc'[h].cron)
  BY <1>1, <1>2, <1>3, EnterCron
<1> QED
  BY <1>3, <1>4, <1>5, QuietCall

\* A call that stays in Pay keeps its key and who made it.
LEMMA GotoCron ==
    ASSUME TypeOK, CronKeys, NEW h \in Handlers, NEW pc \in PayPcs \cup HookPcs,
           proc[h].pc # "idle", proc[h].pc \in PayPcs \/ pc \notin PayPcs, Goto(h, pc)
    PROVE  /\ Others(h) /\ proc'[h].pc = pc /\ proc'[h].cron = proc[h].cron
           /\ proc'[h].pc \in PayPcs /\ proc'[h].key \in Days => proc'[h].cron
<1>1. /\ Others(h) /\ proc'[h].pc = pc /\ proc'[h].cron = proc[h].cron
      /\ proc'[h].key = proc[h].key
  BY GotoFacts DEF Others
<1> QED
  BY <1>1 DEF CronKeys

LEMMA ReturnCron ==
    ASSUME TypeOK, NEW h \in Handlers, Return(h)
    PROVE  Others(h) /\ proc'[h].pc = "idle" /\ proc'[h].pc \notin PayPcs
BY ReturnFacts DEF Others, PayPcs

LEMMA FaultStep == ASSUME NEW f, Fault(f) \/ NoFault PROVE faults' = faults \/ faults' = faults + 1
BY DEF Fault, NoFault

\* Where a call stands and goes when it touches no row.
LEMMA QuietSteps ==
    ASSUME CountInv, TypeOK', NEW h \in Handlers,
           WalletDebit(h) \/ UndoDebit(h) \/ SubmitPayment(h) \/ GiveBack(h) \/ WebhookRefund(h)
    PROVE  CronKeys' /\ InstalmentTakenOnce'
<1>1. TypeOK /\ CronKeys /\ InstalmentTakenOnce
  BY DEF CountInv, IInv
<1>2. /\ UNCHANGED <<rows, schedule>>
      /\ proc[h].pc \in {"debit", "undo", "submit", "giveback", "hookrefund"}
      /\ \/ Return(h)
         \/ proc[h].pc \in {"debit", "submit"} /\ \E pc \in {"insert", "mark", "fail"} : Goto(h, pc)
  BY DEF WalletDebit, UndoDebit, SubmitPayment, GiveBack, WebhookRefund, At, clock
<1>3. faults' = faults \/ faults' = faults + 1
  BY FaultStep DEF WalletDebit, UndoDebit, SubmitPayment, GiveBack, WebhookRefund, Refunding
<1>4. h \notin Moving
  BY <1>2 DEF Moving
<1>5. Others(h) /\ (proc'[h].pc \in PayPcs /\ proc'[h].key \in Days => proc'[h].cron)
  BY <1>1, <1>2, ReturnCron, GotoCron DEF PayPcs
<1> QED
  BY <1>1, <1>2, <1>3, <1>4, <1>5, QuietCall

LEMMA InsertCount == ASSUME CountInv, TypeOK', NEW h \in Handlers, InsertPayment(h)
                     PROVE CronKeys' /\ InstalmentTakenOnce'
<1>a. PICK k \in Keys : k = proc[h].key
  BY CallFacts DEF CountInv, IInv, InsertPayment, At
<1> DEFINE new == [status |-> "initiated", funded |-> proc[h].funded, txn |-> FALSE, ref |-> FALSE]
<1>1. /\ TypeOK /\ CronKeys /\ InstalmentTakenOnce
      /\ proc[h].pc = "insert" /\ Key(h) = k /\ UNCHANGED <<schedule, faults>>
  BY <1>a DEF CountInv, IInv, InsertPayment, At, Key, clock, bounds
<1>2. \/ Return(h)
      \/ \E pc \in {"undo", "attach", "submit"} : Goto(h, pc)
  <2>1. CASE proc[h].funded
    BY <2>1 DEF InsertPayment
  <2>2. CASE ~proc[h].funded
    BY <2>2 DEF InsertPayment
  <2> QED
    BY <2>1, <2>2
<1>3. rows' = rows \/ rows' = [rows EXCEPT ![k] = new]
  BY <1>1 DEF InsertPayment
<1>4. ~new.ref
  OBVIOUS
<1> HIDE DEF new
<1>5. \A j \in Keys : rows'[j].ref => rows[j].ref
  BY <1>1, <1>3, <1>4 DEF TypeOK
<1>6. h \notin Moving
  BY <1>1 DEF Moving
<1>7. Others(h) /\ (proc'[h].pc \in PayPcs /\ proc'[h].key \in Days => proc'[h].cron)
  BY <1>1, <1>2, ReturnCron, GotoCron DEF PayPcs
<1> QED
  BY <1>1, <1>5, <1>6, <1>7, QuietCall

LEMMA AttachCount == ASSUME CountInv, TypeOK', NEW h \in Handlers, AttachWalletTxn(h)
                     PROVE CronKeys' /\ InstalmentTakenOnce'
<1>a. PICK k \in Keys : k = proc[h].key
  BY CallFacts DEF CountInv, IInv, AttachWalletTxn, At
<1>1. /\ TypeOK /\ CronKeys /\ InstalmentTakenOnce
      /\ proc[h].pc = "attach" /\ Key(h) = k /\ UNCHANGED schedule /\ Goto(h, "submit")
  BY <1>a DEF CountInv, IInv, AttachWalletTxn, At, Key, clock
<1>2. faults' = faults \/ faults' = faults + 1
  BY FaultStep DEF AttachWalletTxn
<1>3. rows' = rows \/ rows' = [rows EXCEPT ![k].txn = TRUE]
  BY <1>1 DEF AttachWalletTxn
<1>4. \A j \in Keys : rows'[j].ref => rows[j].ref
  <2> DEFINE x == rows[k]
             y == [x EXCEPT !.txn = TRUE]
  <2>1. x \in Rows
    BY <1>1 DEF TypeOK
  <2>2. rows' = rows \/ rows' = [rows EXCEPT ![k] = y]
    BY <1>3
  <2> HIDE DEF x
  <2>3. y.ref => x.ref
    BY <2>1 DEF Rows, NoRow
  <2> HIDE DEF y
  <2> QED
    BY <1>1, <2>2, <2>3 DEF TypeOK, x
<1>6. h \notin Moving
  BY <1>1 DEF Moving
<1>7. Others(h) /\ (proc'[h].pc \in PayPcs /\ proc'[h].key \in Days => proc'[h].cron)
  BY <1>1, GotoCron DEF PayPcs
<1> QED
  BY <1>1, <1>2, <1>4, <1>6, <1>7, QuietCall

\* Steps that move only the status of one row.
LEMMA StatusSteps ==
    ASSUME CountInv, TypeOK', NEW h \in Handlers,
           FailPayment(h) \/ WebhookPaid(h) \/ WebhookBounced(h)
    PROVE  CronKeys' /\ InstalmentTakenOnce'
<1>a. PICK k \in Keys : k = proc[h].key
  BY CallFacts DEF CountInv, IInv, FailPayment, WebhookPaid, WebhookBounced, At
<1>1. /\ TypeOK /\ CronKeys /\ InstalmentTakenOnce /\ Key(h) = k /\ UNCHANGED schedule
      /\ proc[h].pc \in {"fail", "paid", "bounced"}
  BY <1>a DEF CountInv, IInv, FailPayment, WebhookPaid, WebhookBounced, At, Key, clock
<1>2. faults' = faults \/ faults' = faults + 1
  BY FaultStep DEF FailPayment, WebhookPaid, WebhookBounced
<1>3. \/ Return(h)
      \/ Goto(h, "giveback") /\ proc[h].pc = "fail"
      \/ Goto(h, "hookrefund")
  BY DEF FailPayment, WebhookPaid, WebhookBounced, At
<1>4. \/ rows' = MarkedFailed(k) \/ rows' = rows
      \/ rows' = IF Open(k) THEN [rows EXCEPT ![k].status = "succeeded"] ELSE rows
  BY <1>1, Zenon DEF FailPayment, WebhookPaid, WebhookBounced
<1>5. StatusOnly(k)
  <2>1. CASE rows' = MarkedFailed(k) \/ rows' = rows
    BY <1>1, <2>1, SetFailed
  <2>2. CASE rows' = IF Open(k) THEN [rows EXCEPT ![k].status = "succeeded"] ELSE rows
    <3>1. "succeeded" \in {"failed", "succeeded"}
      OBVIOUS
    <3> QED
      BY <1>1, <2>2, <3>1, SetStatus, Zenon
  <2> QED
    BY <1>4, <2>1, <2>2, Zenon
<1>6. \A j \in Keys : rows'[j].ref => rows[j].ref
  BY <1>5 DEF StatusOnly
<1>7. h \notin Moving
  BY <1>1 DEF Moving
<1>8. Others(h) /\ (proc'[h].pc \in PayPcs /\ proc'[h].key \in Days => proc'[h].cron)
  BY <1>1, <1>3, ReturnCron, GotoCron DEF PayPcs, HookPcs
<1> QED
  BY <1>1, <1>2, <1>6, <1>7, <1>8, QuietCall

LEMMA RecordCount == ASSUME CountInv, TypeOK', NEW h \in Handlers, RecordIdempotency(h)
                     PROVE CronKeys' /\ InstalmentTakenOnce'
<1>1. /\ TypeOK /\ CronKeys /\ InstalmentTakenOnce /\ UNCHANGED <<rows, schedule>>
      /\ proc[h].pc = "record" /\ proc[h].cron \in BOOLEAN
      /\ IF proc[h].cron THEN Goto(h, "advance") ELSE Return(h)
  BY CallFacts DEF CountInv, IInv, RecordIdempotency, At, Succeed, clock
<1>2. faults' = faults \/ faults' = faults + 1
  BY FaultStep DEF RecordIdempotency
<1>3. Others(h) /\ (proc'[h].pc \in PayPcs /\ proc'[h].key \in Days => proc'[h].cron)
  BY <1>1, ReturnCron, GotoCron DEF PayPcs
<1>4. h \in Moving => h \in Moving'
  <2>1. CASE proc[h].cron
    <3>1. proc'[h].pc = "advance" /\ proc'[h].cron = proc[h].cron
      BY <1>1, <2>1, GotoCron DEF PayPcs
    <3> QED
      BY <2>1, <3>1 DEF Moving
  <2>2. CASE ~proc[h].cron
    BY <2>2 DEF Moving
  <2> QED
    BY <2>1, <2>2
<1> QED
  BY <1>1, <1>2, <1>3, <1>4, QuietCall

\* The step that pays for a day puts a run on its way.
LEMMA MarkCount == ASSUME CountInv, TypeOK', NEW h \in Handlers, MarkPaymentSubmitted(h)
                   PROVE CronKeys' /\ InstalmentTakenOnce'
<1>a. PICK k \in Keys : k = proc[h].key
  BY CallFacts DEF CountInv, IInv, MarkPaymentSubmitted, At
<1>1. /\ TypeOK /\ CronKeys /\ InstalmentTakenOnce /\ UNCHANGED schedule
      /\ proc[h].pc = "mark" /\ proc[h].key = k /\ Key(h) = k /\ Goto(h, "record")
  BY <1>a DEF CountInv, IInv, MarkPaymentSubmitted, At, Key, clock
<1>2. faults' = faults \/ faults' = faults + 1
  BY FaultStep DEF MarkPaymentSubmitted
<1>3. rows' = rows \/ rows' = [rows EXCEPT ![k].status = "submitted", ![k].ref = TRUE]
  BY <1>1 DEF MarkPaymentSubmitted
<1>4. \A j \in Keys \ {k} : rows'[j] = rows[j]
  BY <1>1, <1>3 DEF TypeOK
<1>5. /\ Others(h) /\ proc'[h].pc = "record" /\ proc'[h].cron = proc[h].cron
      /\ proc'[h].pc \in PayPcs /\ proc'[h].key \in Days => proc'[h].cron
  BY <1>1, GotoCron DEF PayPcs
<1>6. h \notin Moving
  BY <1>1 DEF Moving
<1>7. CronKeys'
  BY <1>1, <1>5 DEF CronKeys, Others
<1>8. CASE k \notin Days
  <2>1. Paid' \subseteq Paid
    BY <1>4, <1>8, KeyFacts DEF Paid
  <2>2. Moving \subseteq Moving'
    BY <1>5, <1>6 DEF Moving, Others
  <2>3. faults' >= faults
    BY <1>1, <1>2, CountFacts
  <2> QED
    BY <1>1, <1>7, <2>1, <2>2, <2>3, Quiet
<1>9. CASE k \in Days
  <2>1. proc[h].cron
    BY <1>1, <1>9 DEF CronKeys, PayPcs
  <2>2. Paid' \subseteq Paid \cup {k}
    BY <1>4, KeyFacts DEF Paid
  <2>3. Moving \cup {h} \subseteq Moving'
    BY <1>5, <1>6, <2>1 DEF Moving, Others
  <2>4. Cardinality(Paid \cup {k}) <= Cardinality(Paid) + 1 /\ IsFiniteSet(Paid \cup {k})
    <3>1. IsFiniteSet(Paid) /\ Cardinality(Paid) \in Nat
      BY <1>1, CountFacts
    <3>2. /\ IsFiniteSet(Paid \cup {k})
          /\ Cardinality(Paid \cup {k}) = IF k \in Paid THEN Cardinality(Paid)
                                                        ELSE Cardinality(Paid) + 1
      BY <3>1, FS_AddElement
    <3> QED
      BY <3>1, <3>2
  <2>5. Cardinality(Paid') <= Cardinality(Paid \cup {k})
    BY <2>2, <2>4, FS_Subset
  <2>6. Cardinality(Moving \cup {h}) = Cardinality(Moving) + 1
    BY <1>1, <1>6, CountFacts, FS_AddElement
  <2>7. Cardinality(Moving \cup {h}) <= Cardinality(Moving')
    BY <1>1, <2>3, CountFacts, FS_Subset
  <2>8. /\ Cardinality(Paid') \in Nat /\ Cardinality(Paid) \in Nat
        /\ Cardinality(Moving') \in Nat /\ Cardinality(Moving) \in Nat
        /\ faults \in Nat /\ (schedule.due - 1) \div Period \in Int
    BY <1>1, CountFacts
  <2>9. Cardinality(Paid \cup {k}) \in Nat
    BY <2>4, FS_CardinalityType
  <2> DEFINE a == (schedule.due - 1) \div Period
             b == (schedule'.due - 1) \div Period
  <2>10. a = b /\ a \in Int
    BY <1>1, <2>8
  <2>11. schedule.kind = "monthly" => Cardinality(Paid) <= a + faults + Cardinality(Moving)
    BY <1>1, CountForm
  <2> HIDE DEF a, b
  <2>12. schedule'.kind = "monthly" =>
            Cardinality(Paid') <= b + faults' + Cardinality(Moving')
    BY <1>1, <1>2, <2>4, <2>5, <2>6, <2>7, <2>8, <2>9, <2>10, <2>11
  <2> QED
    BY <1>7, <2>12 DEF InstalmentTakenOnce, Paid, Moving, b
<1> QED
  BY <1>8, <1>9

\* A run that returns or dies is counted by the date it moved, or as a fault.
LEMMA LeaveCount ==
    ASSUME CountInv, TypeOK', NEW h \in Handlers, Return(h), UNCHANGED rows,
           \/ /\ schedule' = schedule /\ faults' = faults + 1
           \/ /\ schedule.kind = "monthly" => schedule'.due = schedule.due + Period
              /\ schedule'.kind = schedule.kind /\ faults' = faults
    PROVE  CronKeys' /\ InstalmentTakenOnce'
<1>1. TypeOK /\ CronKeys /\ InstalmentTakenOnce
  BY DEF CountInv, IInv
<1>2. Others(h) /\ proc'[h].pc = "idle" /\ proc'[h].pc \notin PayPcs
  BY <1>1, ReturnCron
<1>3. CronKeys'
  BY <1>1, <1>2 DEF CronKeys, Others
<1>4. Paid' = Paid
  BY DEF Paid
<1>5. Moving \ {h} \subseteq Moving'
  BY <1>2 DEF Moving, Others
<1>6. Cardinality(Moving \ {h}) >= Cardinality(Moving) - 1 /\ Cardinality(Moving \ {h}) \in Nat
  <2>1. IsFiniteSet(Moving) /\ Cardinality(Moving) \in Nat
    BY <1>1, CountFacts
  <2>2. IsFiniteSet(Moving \ {h})
        /\ Cardinality(Moving \ {h}) = IF h \in Moving THEN Cardinality(Moving) - 1
                                                       ELSE Cardinality(Moving)
    BY <2>1, FS_RemoveElement
  <2>3. Cardinality(Moving \ {h}) \in Nat
    BY <2>2, FS_CardinalityType
  <2> QED
    BY <2>1, <2>2, <2>3
<1>7. Cardinality(Moving \ {h}) <= Cardinality(Moving')
  BY <1>1, <1>5, CountFacts, FS_Subset
<1> DEFINE a == (schedule.due - 1) \div Period
           b == (schedule'.due - 1) \div Period
<1>8. /\ Cardinality(Paid) \in Nat /\ Cardinality(Moving') \in Nat /\ Cardinality(Moving) \in Nat
      /\ faults \in Nat /\ a \in Int /\ b \in Int
  BY <1>1, CountFacts
<1>9. schedule.kind = "monthly" => Cardinality(Paid) <= a + faults + Cardinality(Moving)
  BY <1>1, CountForm
<1>10. schedule'.kind = schedule.kind
  OBVIOUS
<1>11. schedule.kind = "monthly" =>
         \/ b = a /\ faults' = faults + 1
         \/ b = a + 1 /\ faults' = faults
  <2> SUFFICES ASSUME schedule.kind = "monthly"
               PROVE  \/ b = a /\ faults' = faults + 1
                      \/ b = a + 1 /\ faults' = faults
    OBVIOUS
  <2>1. CASE schedule' = schedule /\ faults' = faults + 1
    BY <2>1
  <2>2. CASE schedule'.due = schedule.due + Period /\ faults' = faults
    <3>1. schedule.due \in Nat /\ Period \in Nat \ {0}
      BY <1>1, BillPayAssumption DEF BillPayAssumption, TypeOK
    <3>2. schedule.due - 1 \in Int /\ schedule'.due - 1 = (schedule.due - 1) + Period
      BY <2>2, <3>1
    <3>3. b = a + 1
      BY <3>1, <3>2, DivStep
    <3> QED
      BY <2>2, <3>3
  <2> QED
    BY <2>1, <2>2
<1> HIDE DEF a, b
<1>12. schedule'.kind = "monthly" => Cardinality(Paid') <= b + faults' + Cardinality(Moving')
  BY <1>4, <1>6, <1>7, <1>8, <1>9, <1>10, <1>11
<1> QED
  BY <1>3, <1>12 DEF InstalmentTakenOnce, Paid, Moving, b

LEMMA AdvanceCount == ASSUME CountInv, TypeOK', NEW h \in Handlers, AdvanceScheduled(h)
                      PROVE CronKeys' /\ InstalmentTakenOnce'
<1>1. /\ Return(h) /\ UNCHANGED rows
      /\ \/ schedule' = Advanced /\ faults' = faults
         \/ schedule' = schedule /\ faults' = faults + 1
  BY DEF AdvanceScheduled, NoFault, Fault
<1>2. CASE schedule' = schedule /\ faults' = faults + 1
  BY <1>1, <1>2, LeaveCount
<1>3. CASE schedule' = Advanced /\ faults' = faults
  <2> DEFINE s == schedule
  <2>1. s \in [kind : Kinds, active : BOOLEAN, due : Nat]
    BY DEF CountInv, IInv, TypeOK
  <2>2. schedule' = IF s.kind = "monthly" THEN [s EXCEPT !.due = s.due + Period]
                    ELSE [s EXCEPT !.active = FALSE]
    BY <1>3 DEF Advanced
  <2> HIDE DEF s
  <2>3. /\ s.kind = "monthly" => schedule'.due = s.due + Period
        /\ schedule'.kind = s.kind
    BY <2>1, <2>2
  <2> QED
    BY <1>1, <1>3, <2>3, LeaveCount DEF s
<1> QED
  BY <1>1, <1>2, <1>3

LEMMA CrashCount == ASSUME CountInv, TypeOK', NEW h \in Handlers, Crash(h)
                    PROVE CronKeys' /\ InstalmentTakenOnce'
<1>1. Return(h) /\ UNCHANGED <<rows, schedule>> /\ faults' = faults + 1
  BY DEF Crash, Fault, clock
<1> QED
  BY <1>1, LeaveCount

LEMMA WebhookCount == ASSUME CountInv, TypeOK', NEW h \in Handlers, NEW k \in Keys, Webhook(h, k)
                      PROVE CronKeys' /\ InstalmentTakenOnce'
<1>1. /\ TypeOK /\ CronKeys /\ InstalmentTakenOnce /\ UNCHANGED <<rows, schedule>>
      /\ proc[h].pc = "idle" /\ setu[k] \in {"paid", "bounced"}
  BY DEF CountInv, IInv, Webhook, At, clock
<1>2. faults' = faults \/ faults' = faults + 1
  BY FaultStep DEF Webhook
<1>3. h \notin Moving
  BY <1>1 DEF Moving
<1>4. Others(h) /\ proc'[h].pc \notin PayPcs
  <2>1. CASE proc' = proc
    BY <1>1, <2>1 DEF Others, PayPcs
  <2>2. CASE proc' # proc
    <3> DEFINE call == [pc |-> setu[k], key |-> k, cron |-> FALSE,
                        funded |-> rows[k].funded /\ rows[k].txn]
    <3>1. proc' = [proc EXCEPT ![h] = call]
      BY <2>2 DEF Webhook
    <3>2. call.pc \notin PayPcs
      BY <1>1 DEF PayPcs
    <3> HIDE DEF call
    <3> QED
      BY <1>1, <3>1, <3>2 DEF TypeOK, Others
  <2> QED
    BY <2>1, <2>2
<1> QED
  BY <1>1, <1>2, <1>3, <1>4, QuietCall

LEMMA CountNext == CountInv /\ [Next]_vars => CountInv'
<1> SUFFICES ASSUME CountInv, [Next]_vars PROVE CronKeys' /\ InstalmentTakenOnce' /\ IInv'
  BY DEF CountInv
<1>1. IInv' /\ TypeOK /\ TypeOK' /\ CronKeys /\ InstalmentTakenOnce
  BY NextIInv DEF CountInv, IInv
<1>2. ASSUME NEW h \in Handlers, PayStep(h) \/ HookStep(h)
      PROVE  CronKeys' /\ InstalmentTakenOnce'
  BY <1>1, <1>2, QuietSteps, InsertCount, AttachCount, StatusSteps, RecordCount, MarkCount,
     AdvanceCount DEF PayStep, HookStep
<1>3. ASSUME NEW h \in Handlers, Pay(h) \/ RunScheduledCron(h) \/ Crash(h)
      PROVE  CronKeys' /\ InstalmentTakenOnce'
  BY <1>1, <1>3, PayCount, CronCount, CrashCount
<1>4. ASSUME NEW h \in Handlers, NEW k \in Keys, Webhook(h, k)
      PROVE  CronKeys' /\ InstalmentTakenOnce'
  BY <1>1, <1>4, WebhookCount
<1>5. CASE (\E k \in Keys : SetuSettles(k)) \/ UpdateScheduledActive \/ NextDay \/ UNCHANGED vars
  <2>1. UNCHANGED <<rows, proc, faults>>
    BY <1>5 DEF SetuSettles, UpdateScheduledActive, NextDay, vars, bounds
  <2>2. schedule'.kind = schedule.kind /\ schedule'.due = schedule.due
    <3>1. CASE UpdateScheduledActive
      <4> DEFINE s == schedule
      <4>1. s \in [kind : Kinds, active : BOOLEAN, due : Nat]
        BY <1>1 DEF TypeOK
      <4>2. schedule' = [s EXCEPT !.active = ~s.active]
        BY <3>1 DEF UpdateScheduledActive
      <4> HIDE DEF s
      <4>3. schedule'.kind = s.kind /\ schedule'.due = s.due
        BY <4>1, <4>2
      <4> QED
        BY <4>3 DEF s
    <3>2. CASE ~UpdateScheduledActive
      BY <1>5, <3>2 DEF SetuSettles, NextDay, vars, clock
    <3> QED
      BY <3>1, <3>2
  <2>3. Paid' = Paid /\ Moving' = Moving
    BY <2>1 DEF Paid, Moving
  <2>4. CronKeys'
    BY <1>1, <2>1 DEF CronKeys
  <2>5. faults' >= faults
    BY <1>1, <2>1, CountFacts
  <2> QED
    BY <1>1, <2>2, <2>3, <2>4, <2>5, Quiet
<1> QED
  BY <1>1, <1>2, <1>3, <1>4, <1>5 DEF Next

LEMMA CountInit == Init => CountInv
<1> SUFFICES ASSUME Init PROVE CountInv
  OBVIOUS
<1>1. IInv
  BY InitIInv
<1>2. \A h \in Handlers : proc[h].pc = "idle"
  BY DEF Init, Idle
<1>3. CronKeys
  BY <1>2 DEF CronKeys, PayPcs
<1>4. Paid = {} /\ Moving = {}
  BY <1>2, KeyFacts DEF Init, NoRow, Paid, Moving
<1>5. Cardinality({}) = 0
  BY FS_EmptySet
<1>6. (schedule.due - 1) \div Period = 0 /\ faults = 0
  <2>1. schedule.due = 1 /\ faults = 0 /\ Period \in Nat \ {0}
    BY BillPayAssumption DEF Init, BillPayAssumption
  <2>2. schedule.due - 1 = 0
    BY <2>1
  <2>3. 0 \div Period = 0
    BY <2>1
  <2> QED
    BY <2>1, <2>2, <2>3
<1>7. Cardinality(Paid) <= (schedule.due - 1) \div Period + faults + Cardinality(Moving)
  BY <1>4, <1>5, <1>6
<1> QED
  BY <1>1, <1>3, <1>7, CountForm DEF CountInv

\* The scheduler pays for no more days than it has moved past, is about to move
\* past, or was kept from moving past by a fault.
THEOREM InstalmentsOnce == Spec => []InstalmentTakenOnce
<1>1. CountInv => InstalmentTakenOnce
  BY DEF CountInv
<1> QED
  BY <1>1, CountInit, CountNext, PTL DEF Spec

-----------------------------------------------------------------------------
(* Where a debit is *)

\* A call funded by the wallet, at one of some places, for a key.
Working(k, pcs) == \E h \in Handlers : proc[h].pc \in pcs /\ proc[h].key = k /\ proc[h].funded
Unplaced == {"insert", "undo"}
Untried  == {"attach", "submit", "mark"}

PaidBack(k) == undone[k] > 0 \/ refunds[k] > 0

\* A debited key is with a call, with Setu, or done with.
DebitTracked(k) == k \in debits =>
    \/ PaidBack(k) \/ k \in dropped
    \/ rows[k].status = "succeeded"
    \/ ~rows[k].funded /\ Working(k, Unplaced)
    \/ rows[k].funded /\ ~rows[k].ref /\ Working(k, Serving)
    \/ rows[k].ref /\ rows[k].txn /\ k \notin acked
RowTracked(k) == rows[k].ref /\ rows[k].status = "failed" => setu[k] = "bounced"
CallTracked(h) ==
    LET k == proc[h].key IN
    /\ proc[h].pc = "debit" => proc[h].funded
    /\ proc[h].pc \in Untried => rows[k].status = "initiated"
    /\ proc[h].pc \in Serving \ {"attach"} /\ proc[h].funded => rows[k].txn \/ k \in dropped

Tracked ==
    /\ \A k \in Keys : RowTracked(k) /\ DebitTracked(k)
    /\ \A h \in Handlers : CallTracked(h)

\* The wallet transaction of every key is somewhere: when no call is at work on it,
\* the payment succeeded, the wallet was paid back, a step was abandoned where the
\* code only logs, or the row names both its reference and its wallet transaction
\* and Setu has not been answered, so that its webhook can settle or refund it.
DebitAccounted ==
    \A k \in debits : (\A h \in Handlers : proc[h].pc = "idle" \/ proc[h].key # k) =>
        \/ rows[k].status = "succeeded" \/ undone[k] + refunds[k] > 0 \/ k \in dropped
        \/ rows[k].ref /\ rows[k].txn /\ k \notin acked

\* Nothing that Tracked says of key j is disturbed.
Aside(j) ==
    /\ rows'[j] = rows[j] /\ undone'[j] = undone[j] /\ refunds'[j] = refunds[j]
    /\ setu'[j] = setu[j]
    /\ j \in debits' => j \in debits
    /\ j \in acked' => j \in acked

\* The call of h is one about k, or starts now.
About(h, k) == Others(h) /\ (proc[h].pc = "idle" \/ proc[h].key = k)

LEMMA WorkerStays ==
    ASSUME NEW h \in Handlers, NEW k, About(h, k), NEW j, NEW pcs, "idle" \notin pcs,
           Working(j, pcs),
           j # k \/ proc[h].pc \notin pcs \/ ~proc[h].funded
             \/ (proc'[h].pc \in pcs /\ proc'[h].key = k /\ proc'[h].funded)
    PROVE  Working(j, pcs)'
<1>1. PICK g \in Handlers : proc[g].pc \in pcs /\ proc[g].key = j /\ proc[g].funded
  BY DEF Working
<1>2. CASE g # h
  BY <1>1, <1>2 DEF About, Others, Working
<1>3. CASE g = h
  BY <1>1, <1>3 DEF About, Working
<1> QED
  BY <1>2, <1>3

\* What a step about one key has to show.
LEMMA TrackStep ==
    ASSUME Tracked, NEW h \in Handlers, NEW k \in Keys, About(h, k),
           \A j \in Keys \ {k} : Aside(j), dropped \subseteq dropped',
           \A g \in Handlers \ {h} : proc[g].pc \in Serving /\ proc[g].key = k => rows'[k] = rows[k],
           \A g \in Handlers : proc[g].pc # "idle" => proc[g].key \in Keys,
           RowTracked(k)', DebitTracked(k)', CallTracked(h)'
    PROVE  Tracked'
<1>1. ASSUME NEW j \in Keys \ {k} PROVE RowTracked(j)' /\ DebitTracked(j)'
  <2>1. RowTracked(j) /\ DebitTracked(j) /\ Aside(j)
    BY DEF Tracked
  <2>2. /\ Working(j, Unplaced) => Working(j, Unplaced)'
        /\ Working(j, Serving) => Working(j, Serving)'
    <3>1. "idle" \notin Unplaced /\ "idle" \notin Serving
      BY DEF Unplaced, Serving
    <3> QED
      BY <3>1, WorkerStays
  <2>3. RowTracked(j)'
    BY <2>1 DEF RowTracked, Aside
  <2>4. PaidBack(j) => PaidBack(j)'
    BY <2>1 DEF Aside, PaidBack
  <2>5. DebitTracked(j)'
    BY <2>1, <2>2, <2>4 DEF DebitTracked, Aside, Working, Unplaced, Serving
  <2> QED
    BY <2>3, <2>5
<1>2. ASSUME NEW g \in Handlers \ {h} PROVE CallTracked(g)'
  <2>1. CallTracked(g) /\ proc'[g] = proc[g]
    BY DEF Tracked, About, Others
  <2>2. CASE proc[g].pc \in Serving
    <3>1. rows'[proc[g].key] = rows[proc[g].key]
      BY <2>2 DEF Aside, Serving
    <3> QED
      BY <2>1, <3>1 DEF CallTracked, Serving, Untried
  <2>3. CASE proc[g].pc \notin Serving
    BY <2>1, <2>3 DEF CallTracked, Serving, Untried
  <2> QED
    BY <2>2, <2>3
<1> QED
  BY <1>1, <1>2 DEF Tracked

\* A call that is at work on a wallet debit stays at work on it.
StaysAt(h, k) ==
    \A pcs \in {Unplaced, Serving} : proc[h].pc \in pcs /\ proc[h].funded =>
        proc'[h].pc \in pcs /\ proc'[h].key = k /\ proc'[h].funded

LEMMA WorkStays ==
    ASSUME NEW h \in Handlers, NEW k, About(h, k), StaysAt(h, k)
    PROVE  /\ Working(k, Unplaced) => Working(k, Unplaced)'
           /\ Working(k, Serving) => Working(k, Serving)'
<1>1. "idle" \notin Unplaced /\ "idle" \notin Serving
  BY DEF Unplaced, Serving
<1>2. \A pcs \in {Unplaced, Serving} : Working(k, pcs) => Working(k, pcs)'
  BY <1>1, WorkerStays, Zenon DEF StaysAt
<1>3. /\ Unplaced' = Unplaced /\ Serving' = Serving
  BY DEF Unplaced, Serving
<1> QED
  BY <1>2, <1>3 DEF Working

\* A step that leaves the row and the money of its key alone.
LEMMA StillTracked ==
    ASSUME Tracked, NEW h \in Handlers, NEW k \in Keys, About(h, k), Aside(k),
           dropped \subseteq dropped', StaysAt(h, k)
    PROVE  RowTracked(k)' /\ DebitTracked(k)'
<1>1. RowTracked(k) /\ DebitTracked(k)
  BY DEF Tracked
<1>2. /\ Working(k, Unplaced) => Working(k, Unplaced)'
      /\ Working(k, Serving) => Working(k, Serving)'
  BY WorkStays
<1>3. PaidBack(k) => PaidBack(k)'
  BY DEF Aside, PaidBack
<1> QED
  BY <1>1, <1>2, <1>3 DEF RowTracked, DebitTracked, Aside, Working, Unplaced, Serving

\* Every running call is about a key.
LEMMA KeysOfCalls ==
    ASSUME IInv
    PROVE  \A g \in Handlers : proc[g].pc # "idle" => proc[g].key \in Keys
BY CallFacts DEF IInv

-----------------------------------------------------------------------------
(* Each step keeps track *)

LEMMA EnterTracked ==
    ASSUME IInv, Tracked, NEW h \in Handlers, NEW k \in Keys, NEW funded \in BOOLEAN,
           NEW cron \in BOOLEAN, At(h, "idle"), Enter(h, k, funded, cron),
           UNCHANGED <<rows, wallet, rail, dropped>>
    PROVE  Tracked'
<1> DEFINE call == [pc |-> IF funded THEN "debit" ELSE "insert",
                    key |-> k, funded |-> funded, cron |-> cron]
           next == IF k \notin cached THEN call
                   ELSE IF cron THEN [call EXCEPT !.pc = "advance"] ELSE Idle
<1>1. proc' = [proc EXCEPT ![h] = next]
  BY DEF Enter
<1>2. /\ next.pc \in {"idle", "debit", "insert", "advance"}
      /\ next.pc = "debit" => next.funded
  BY DEF Idle
<1>3. next \in Locals
  BY DEF Locals, PayPcs
<1> HIDE DEF next
<1>4. proc'[h] = next /\ About(h, k) /\ proc[h].pc = "idle"
  BY <1>1, <1>3, EnterFacts DEF IInv, Others, About, At
<1>5. \A j \in Keys : Aside(j)
  BY DEF Aside, wallet, rail
<1>6. StaysAt(h, k)
  BY <1>4 DEF StaysAt, Unplaced, Serving
<1>7. CallTracked(h)'
  BY <1>2, <1>4 DEF CallTracked, Untried, Serving
<1> QED
  BY <1>4, <1>5, <1>6, <1>7, StillTracked, TrackStep, KeysOfCalls

LEMMA PayTracked == ASSUME IInv, Tracked, NEW h \in Handlers, Pay(h) PROVE Tracked'
<1>1. PICK k \in ClientKeys, funded \in Funding : Enter(h, k, funded, FALSE)
  BY DEF Pay
<1>2. k \in Keys /\ funded \in BOOLEAN
  BY BillPayAssumption DEF BillPayAssumption, Keys
<1> QED
  BY <1>1, <1>2, EnterTracked DEF Pay

LEMMA CronTracked == ASSUME IInv, Tracked, NEW h \in Handlers, RunScheduledCron(h) PROVE Tracked'
<1>1. PICK funded \in Funding : Enter(h, today, funded, TRUE)
  BY DEF RunScheduledCron
<1>2. today \in Keys /\ funded \in BOOLEAN
  BY BillPayAssumption DEF BillPayAssumption, Keys, IInv, TypeOK
<1> QED
  BY <1>1, <1>2, EnterTracked DEF RunScheduledCron

\* A call that returns, with the tables as they were or its key recorded as dropped.
LEMMA ReturnTracked ==
    ASSUME IInv, Tracked, NEW h \in Handlers, NEW k \in Keys, proc[h].pc # "idle", proc[h].key = k,
           Return(h), UNCHANGED rows, UNCHANGED <<setu, acked>>,
           \A j \in Keys \ {k} : Aside(j), dropped \subseteq dropped',
           k \in dropped' \/ PaidBack(k)'
             \/ (Aside(k) /\ proc[h].pc \notin Unplaced \cup Serving)
    PROVE  Tracked'
<1>1. About(h, k) /\ proc'[h].pc = "idle"
  BY ReturnFacts DEF IInv, Others, About
<1>2. RowTracked(k)'
  BY DEF RowTracked, Tracked
<1>3. DebitTracked(k)'
  <2>1. CASE k \in dropped' \/ PaidBack(k)'
    BY <2>1 DEF DebitTracked
  <2>2. CASE Aside(k) /\ proc[h].pc \notin Unplaced \cup Serving
    BY <1>1, <2>2, StillTracked DEF StaysAt
  <2> QED
    BY <2>1, <2>2
<1>4. CallTracked(h)'
  BY <1>1 DEF CallTracked, Untried, Serving
<1> QED
  BY <1>1, <1>2, <1>3, <1>4, TrackStep, KeysOfCalls

LEMMA WalletDebitTracked ==
    ASSUME IInv, Tracked, NEW h \in Handlers, WalletDebit(h) PROVE Tracked'
<1>a. PICK k \in Keys : k = proc[h].key
  BY CallFacts DEF IInv, WalletDebit, At
<1>1. /\ TypeOK /\ proc[h].pc = "debit" /\ Key(h) = k /\ proc[h].key = k /\ proc[h].funded
      /\ RowSound(k) /\ rows[k] \in Rows
      /\ UNCHANGED <<rows, undone, refunds, rail>> /\ dropped \subseteq dropped'
  BY <1>a DEF IInv, WalletDebit, At, Key, Drop, Tracked, CallTracked, TypeOK
<1>2. \A j \in Keys \ {k} : Aside(j)
  BY <1>1 DEF WalletDebit, Aside, rail
<1>3. CASE debits' = debits \cup {k} /\ Goto(h, "insert")
  <2>1. /\ About(h, k) /\ proc'[h].pc = "insert" /\ proc'[h].key = k /\ proc'[h].funded
    BY <1>1, <1>3, GotoFacts DEF About, Others, PayPcs
  <2>2. CallTracked(h)'
    BY <2>1 DEF CallTracked, Untried, Serving
  <2>3. RowTracked(k)'
    BY <1>1 DEF RowTracked, Tracked, rail
  <2>4. DebitTracked(k)'
    <3>1. CASE k \in debits
      <4>1. Aside(k)
        BY <1>1, <1>3, <3>1 DEF Aside, rail
      <4>2. StaysAt(h, k)
        BY <1>1 DEF StaysAt, Unplaced, Serving
      <4> QED
        BY <1>1, <2>1, <4>1, <4>2, StillTracked
    <3>2. CASE k \notin debits
      <4>1. ~rows'[k].funded
        BY <1>1, <3>2 DEF RowSound
      <4>2. Working(k, Unplaced)'
        BY <2>1 DEF Working, Unplaced
      <4> QED
        BY <4>1, <4>2 DEF DebitTracked
    <3> QED
      BY <3>1, <3>2
  <2> QED
    BY <1>1, <1>2, <2>1, <2>2, <2>3, <2>4, TrackStep, KeysOfCalls
<1>4. CASE Return(h) /\ UNCHANGED <<debits, dropped>>
  <2>1. Aside(k)
    BY <1>1, <1>4 DEF Aside, rail
  <2> QED
    BY <1>1, <1>2, <1>4, <2>1, ReturnTracked DEF Unplaced, Serving, rail
<1>5. CASE Return(h) /\ Drop(k)
  BY <1>1, <1>2, <1>5, ReturnTracked DEF Drop, rail
<1> QED
  BY <1>1, <1>3, <1>4, <1>5 DEF WalletDebit

LEMMA InsertTracked == ASSUME IInv, Tracked, NEW h \in Handlers, InsertPayment(h) PROVE Tracked'
<1>a. PICK k \in Keys : k = proc[h].key
  BY CallFacts DEF IInv, InsertPayment, At
<1> DEFINE new == [status |-> "initiated", funded |-> proc[h].funded, txn |-> FALSE, ref |-> FALSE]
<1>0. /\ TypeOK /\ proc[h].pc = "insert" /\ proc[h].pc # "idle"
      /\ Key(h) = k /\ proc[h].key = k /\ proc[h].funded \in BOOLEAN
  BY <1>a, CallFacts DEF IInv, InsertPayment, At, Key
<1>1. UNCHANGED <<cached, wallet, rail, clock, dropped, bounds>>
  BY DEF InsertPayment
<1>2. CASE rows[k] # NoRow
  <2>1. UNCHANGED rows /\ (IF proc[h].funded THEN Goto(h, "undo") ELSE Return(h))
    BY <1>2, <1>0 DEF InsertPayment
  <2>2. \A j \in Keys : Aside(j)
    BY <1>1, <2>1 DEF Aside, wallet, rail
  <2>3. CASE ~proc[h].funded
    <3>1. About(h, k) /\ proc'[h].pc = "idle"
      BY <1>0, <2>1, <2>3, ReturnFacts DEF Others, About
    <3>2. StaysAt(h, k) /\ CallTracked(h)'
      BY <2>3, <3>1 DEF StaysAt, CallTracked, Untried, Serving
    <3> QED
      BY <1>1, <2>1, <2>2, <3>1, <3>2, StillTracked, TrackStep, KeysOfCalls
  <2>4. CASE proc[h].funded
    <3>1. About(h, k) /\ proc'[h].pc = "undo" /\ proc'[h].key = k /\ proc'[h].funded
      BY <1>0, <2>1, <2>4, GotoFacts DEF Others, About, PayPcs
    <3>2. StaysAt(h, k) /\ CallTracked(h)'
      BY <1>0, <3>1 DEF StaysAt, CallTracked, Untried, Unplaced, Serving
    <3> QED
      BY <1>1, <2>1, <2>2, <3>1, <3>2, StillTracked, TrackStep, KeysOfCalls
  <2> QED
    BY <2>3, <2>4
<1>3. CASE rows[k] = NoRow
  <2>1. rows' = [rows EXCEPT ![k] = new]
    BY <1>3, <1>0 DEF InsertPayment
  <2>2. /\ new \in Rows /\ new.funded = proc[h].funded
        /\ ~new.ref /\ ~new.txn /\ new.status = "initiated"
    BY <1>0 DEF Rows, NoRow, Statuses
  <2> HIDE DEF new
  <2>3. rows'[k] = new /\ \A j \in Keys \ {k} : rows'[j] = rows[j]
    BY <1>0, <2>1, <2>2, PutFacts
  <2>4. /\ About(h, k) /\ proc'[h].key = k /\ proc'[h].funded = proc[h].funded
        /\ proc'[h].pc = IF proc[h].funded THEN "attach" ELSE "submit"
    <3>1. Goto(h, IF proc[h].funded THEN "attach" ELSE "submit")
      BY <1>3, <1>0 DEF InsertPayment
    <3> QED
      BY <1>0, <3>1, GotoFacts DEF Others, About, PayPcs
  <2>5. \A j \in Keys \ {k} : Aside(j)
    BY <1>1, <2>3 DEF Aside, rail, wallet
  <2>6. ~rows[k].funded /\ ~rows[k].ref /\ rows[k].status # "succeeded"
    BY <1>3 DEF NoRow
  <2>7. \A g \in Handlers : proc[g].pc \in Serving => proc[g].key # k
    BY <1>3 DEF IInv, CallSound
  <2>8. RowTracked(k)'
    BY <2>2, <2>3 DEF RowTracked
  <2>9. CallTracked(h)'
    BY <2>2, <2>3, <2>4 DEF CallTracked, Untried, Serving
  <2>10. DebitTracked(k)'
    <3>1. CASE proc[h].funded
      <4>1. Working(k, Serving)'
        BY <2>4, <3>1 DEF Working, Serving
      <4> QED
        BY <2>2, <2>3, <3>1, <4>1 DEF DebitTracked
    <3>2. CASE ~proc[h].funded
      <4>1. StaysAt(h, k)
        BY <3>2 DEF StaysAt
      <4>2. Working(k, Unplaced) => Working(k, Unplaced)'
        BY <2>4, <4>1, WorkStays
      <4>3. DebitTracked(k) /\ (PaidBack(k) => PaidBack(k)')
        BY <1>1 DEF Tracked, PaidBack, wallet
      <4> QED
        BY <1>1, <2>2, <2>3, <2>6, <3>2, <4>2, <4>3 DEF DebitTracked, wallet
    <3> QED
      BY <3>1, <3>2
  <2> QED
    BY <1>1, <2>4, <2>5, <2>7, <2>8, <2>9, <2>10, TrackStep, KeysOfCalls
<1> QED
  BY <1>2, <1>3

LEMMA UndoTracked == ASSUME IInv, Tracked, NEW h \in Handlers, UndoDebit(h) PROVE Tracked'
<1>a. PICK k \in Keys : k = proc[h].key
  BY CallFacts DEF IInv, UndoDebit, At
<1>1. /\ TypeOK /\ Key(h) = k /\ proc[h].key = k /\ proc[h].pc # "idle" /\ Return(h)
      /\ UNCHANGED <<rows, cached, debits, refunds, rail, clock, calls>>
  BY <1>a DEF IInv, UndoDebit, Key, At
<1>2. /\ dropped \subseteq dropped' /\ \A j \in Keys \ {k} : undone'[j] = undone[j]
      /\ k \in dropped' \/ undone'[k] > 0
  BY <1>1 DEF UndoDebit, Refunding, TypeOK, Drop
<1>3. \A j \in Keys \ {k} : Aside(j)
  BY <1>1, <1>2 DEF Aside, rail
<1> QED
  BY <1>1, <1>2, <1>3, ReturnTracked DEF PaidBack, rail

LEMMA GiveBackTracked == ASSUME IInv, Tracked, NEW h \in Handlers, GiveBack(h) PROVE Tracked'
<1>a. PICK k \in Keys : k = proc[h].key
  BY CallFacts DEF IInv, GiveBack, At
<1>1. /\ TypeOK /\ Key(h) = k /\ proc[h].key = k /\ proc[h].pc # "idle" /\ Return(h)
      /\ UNCHANGED <<rows, cached, debits, undone, rail, clock, calls>>
  BY <1>a DEF IInv, GiveBack, Key, At
<1>2. /\ dropped \subseteq dropped' /\ \A j \in Keys \ {k} : refunds'[j] = refunds[j]
      /\ k \in dropped' \/ refunds'[k] > 0
  BY <1>1 DEF GiveBack, Refunding, TypeOK, Drop
<1>3. \A j \in Keys \ {k} : Aside(j)
  BY <1>1, <1>2 DEF Aside, rail
<1> QED
  BY <1>1, <1>2, <1>3, ReturnTracked DEF PaidBack, rail

LEMMA CrashTracked == ASSUME IInv, Tracked, NEW h \in Handlers, Crash(h) PROVE Tracked'
<1>a. PICK k \in Keys : k = proc[h].key
  BY CallFacts DEF IInv, Crash, At
<1>1. /\ Key(h) = k /\ proc[h].key = k /\ proc[h].pc # "idle" /\ Return(h) /\ Drop(k)
      /\ UNCHANGED <<rows, cached, wallet, rail, clock, calls>>
  BY <1>a DEF Crash, Key, At
<1>2. \A j \in Keys \ {k} : Aside(j)
  BY <1>1 DEF Aside, rail, wallet
<1> QED
  BY <1>1, <1>2, ReturnTracked DEF Drop, rail

LEMMA AdvanceTracked == ASSUME IInv, Tracked, NEW h \in Handlers, AdvanceScheduled(h) PROVE Tracked'
<1>a. PICK k \in Keys : k = proc[h].key
  BY CallFacts DEF IInv, AdvanceScheduled, At
<1>1. /\ proc[h].key = k /\ proc[h].pc = "advance" /\ Return(h)
      /\ UNCHANGED <<rows, cached, wallet, rail, today, dropped, calls>>
  BY <1>a DEF AdvanceScheduled, At
<1>2. \A j \in Keys : Aside(j)
  BY <1>1 DEF Aside, rail, wallet
<1> QED
  BY <1>1, <1>2, ReturnTracked DEF rail, Unplaced, Serving

LEMMA RecordTracked == ASSUME IInv, Tracked, NEW h \in Handlers, RecordIdempotency(h) PROVE Tracked'
<1>a. PICK k \in Keys : k = proc[h].key
  BY CallFacts DEF IInv, RecordIdempotency, At
<1>1. /\ TypeOK /\ proc[h].key = k /\ proc[h].pc = "record" /\ Succeed(h)
      /\ UNCHANGED <<rows, wallet, rail, clock, dropped, calls>>
  BY <1>a DEF IInv, RecordIdempotency, At
<1>2. About(h, k) /\ proc'[h].pc \in {"idle", "advance"}
  BY <1>1, SucceedFacts DEF About
<1>3. \A j \in Keys : Aside(j)
  BY <1>1 DEF Aside, rail, wallet
<1>4. StaysAt(h, k) /\ CallTracked(h)'
  BY <1>1, <1>2 DEF StaysAt, Unplaced, Serving, Untried, CallTracked
<1> QED
  BY <1>1, <1>2, <1>3, <1>4, StillTracked, TrackStep, KeysOfCalls

\* The holder of a row moves it: what is left to show of the row itself.
LEMMA HolderTracked ==
    ASSUME IInv, Tracked, NEW h \in Handlers, NEW k \in Keys, proc[h].pc \in Serving, proc[h].key = k,
           Others(h), UNCHANGED <<debits, undone, refunds, acked>>, dropped \subseteq dropped',
           \A j \in Keys \ {k} : rows'[j] = rows[j] /\ setu'[j] = setu[j],
           RowTracked(k)', CallTracked(h)',
           rows'[k].funded = rows[k].funded,
           rows[k].funded => \/ k \in dropped'
                             \/ proc'[h].pc \in Serving /\ proc'[h].key = k /\ proc'[h].funded
                                /\ ~rows'[k].ref
                             \/ rows'[k].ref /\ rows'[k].txn
    PROVE  Tracked'
<1>1. /\ About(h, k) /\ \A j \in Keys \ {k} : Aside(j)
  BY DEF About, Aside
<1>2. /\ k \notin acked /\ rows[k].status # "succeeded" /\ ~rows[k].ref
      /\ \A g \in Handlers \ {h} : proc[g].key = k => proc[g].pc \notin Serving
  BY ServingFacts
<1>3. DebitTracked(k)'
  <2>1. CASE rows[k].funded
    <3>1. CASE proc'[h].pc \in Serving /\ proc'[h].key = k /\ proc'[h].funded
               /\ ~rows'[k].ref
      <4>1. Working(k, Serving)'
        BY <3>1 DEF Working, Serving
      <4> QED
        BY <2>1, <3>1, <4>1 DEF DebitTracked
    <3> QED
      BY <1>2, <2>1, <3>1 DEF DebitTracked
  <2>2. CASE ~rows[k].funded
    <3>1. Working(k, Unplaced) => Working(k, Unplaced)'
      <4>1. "idle" \notin Unplaced /\ proc[h].pc \notin Unplaced /\ Unplaced' = Unplaced
        BY DEF Unplaced, Serving
      <4>2. ASSUME NEW pcs, pcs = Unplaced, Working(k, pcs) PROVE Working(k, pcs)'
        BY <1>1, <4>1, <4>2, WorkerStays
      <4> QED
        BY <4>1, <4>2 DEF Working
    <3>2. DebitTracked(k) /\ (PaidBack(k) => PaidBack(k)')
      BY DEF Tracked, PaidBack
    <3> QED
      BY <1>2, <2>2, <3>1, <3>2 DEF DebitTracked
  <2> QED
    BY <2>1, <2>2
<1> QED
  BY <1>1, <1>2, <1>3, TrackStep, KeysOfCalls

LEMMA AttachTracked == ASSUME IInv, Tracked, NEW h \in Handlers, AttachWalletTxn(h) PROVE Tracked'
<1>a. PICK k \in Keys : k = proc[h].key
  BY CallFacts DEF IInv, AttachWalletTxn, At
<1>0. proc[h].pc = "attach" /\ proc[h].pc \in Serving /\ proc[h].key = k
  BY <1>a DEF AttachWalletTxn, At, Serving
<1>1. /\ TypeOK /\ proc[h].pc # "idle" /\ Key(h) = k
      /\ rows[k] \in Rows /\ rows[k].funded = proc[h].funded /\ ~rows[k].ref /\ CallSound(h)
  BY <1>0, ServingFacts
<1>2. proc[h].funded /\ rows[k].status = "initiated"
  BY <1>0, <1>1 DEF CallSound, Tracked, CallTracked, Untried
<1>3. /\ Goto(h, "submit") /\ UNCHANGED <<cached, wallet, rail, clock, calls>>
      /\ dropped \subseteq dropped'
      /\ \/ rows' = [rows EXCEPT ![k].txn = TRUE]
         \/ rows' = rows /\ k \in dropped'
  BY <1>1 DEF AttachWalletTxn, Drop
<1>4. /\ Others(h) /\ proc'[h].pc = "submit" /\ proc'[h].key = k /\ proc'[h].funded
  BY <1>0, <1>1, <1>2, <1>3, GotoFacts DEF Others, PayPcs
<1>5. /\ \A j \in Keys \ {k} : rows'[j] = rows[j]
      /\ rows'[k].funded = rows[k].funded /\ rows'[k].ref = rows[k].ref
      /\ rows'[k].status = rows[k].status /\ (rows'[k].txn \/ k \in dropped')
  <2> DEFINE x == rows[k]
             y == [x EXCEPT !.txn = TRUE]
  <2>1. CASE rows' = rows /\ k \in dropped'
    BY <2>1
  <2>2. CASE rows' = [rows EXCEPT ![k].txn = TRUE]
    <3>1. rows' = [rows EXCEPT ![k] = y]
      BY <2>2
    <3>2. x \in Rows /\ x.status = "initiated"
      BY <1>1, <1>2
    <3> HIDE DEF x
    <3>3. x \in [status : Statuses, funded : BOOLEAN, txn : BOOLEAN, ref : BOOLEAN]
      BY <3>2 DEF Rows, NoRow
    <3>4. y.funded = x.funded /\ y.ref = x.ref /\ y.status = x.status /\ y.txn
      BY <3>3
    <3> HIDE DEF y
    <3>5. rows'[k] = y /\ \A j \in Keys \ {k} : rows'[j] = rows[j]
      BY <1>1, <3>1 DEF TypeOK
    <3> QED
      BY <3>4, <3>5 DEF x
  <2> QED
    BY <1>3, <2>1, <2>2
<1>6. RowTracked(k)'
  BY <1>1, <1>5 DEF RowTracked
<1>7. CallTracked(h)'
  BY <1>2, <1>4, <1>5 DEF CallTracked, Untried, Serving
<1> QED
  BY <1>0, <1>1, <1>3, <1>4, <1>5, <1>6, <1>7, HolderTracked DEF wallet, rail, Serving

LEMMA SubmitTracked == ASSUME IInv, Tracked, NEW h \in Handlers, SubmitPayment(h) PROVE Tracked'
<1>a. PICK k \in Keys : k = proc[h].key
  BY CallFacts DEF IInv, SubmitPayment, At
<1>0. proc[h].pc = "submit" /\ proc[h].pc \in Serving /\ proc[h].key = k
  BY <1>a DEF SubmitPayment, At, Serving
<1>1. /\ TypeOK /\ proc[h].pc # "idle" /\ Key(h) = k
      /\ rows[k].funded = proc[h].funded /\ ~rows[k].ref
  BY <1>0, ServingFacts
<1>2. rows[k].status = "initiated" /\ (proc[h].funded => rows[k].txn \/ k \in dropped)
  BY <1>0 DEF Tracked, CallTracked, Untried, Serving
<1>3. /\ UNCHANGED <<rows, cached, wallet, acked, clock, dropped, calls>>
      /\ setu' = [setu EXCEPT ![k] = "accepted"] \/ setu' = setu
      /\ Goto(h, "mark") \/ Goto(h, "fail")
  BY <1>1 DEF SubmitPayment
<1>4. /\ Others(h) /\ proc'[h].pc \in {"mark", "fail"} /\ proc'[h].key = k
      /\ proc'[h].funded = proc[h].funded
  BY <1>0, <1>1, <1>3, GotoFacts DEF Others, PayPcs
<1>5. \A j \in Keys \ {k} : setu'[j] = setu[j]
  BY <1>1, <1>3 DEF TypeOK
<1>6. RowTracked(k)'
  BY <1>1, <1>3 DEF RowTracked
<1>7. CallTracked(h)'
  BY <1>2, <1>3, <1>4 DEF CallTracked, Untried, Serving
<1> QED
  BY <1>0, <1>1, <1>3, <1>4, <1>5, <1>6, <1>7, HolderTracked DEF wallet, Serving

LEMMA MarkTracked == ASSUME IInv, Tracked, NEW h \in Handlers, MarkPaymentSubmitted(h) PROVE Tracked'
<1>a. PICK k \in Keys : k = proc[h].key
  BY CallFacts DEF IInv, MarkPaymentSubmitted, At
<1>0. proc[h].pc = "mark" /\ proc[h].pc \in Serving /\ proc[h].key = k
  BY <1>a DEF MarkPaymentSubmitted, At, Serving
<1>1. /\ TypeOK /\ proc[h].pc # "idle" /\ Key(h) = k
      /\ rows[k] \in Rows /\ rows[k].funded = proc[h].funded /\ ~rows[k].ref
  BY <1>0, ServingFacts
<1>2. rows[k].status = "initiated" /\ (proc[h].funded => rows[k].txn \/ k \in dropped)
  BY <1>0 DEF Tracked, CallTracked, Untried, Serving
<1>3. /\ Goto(h, "record") /\ UNCHANGED <<cached, wallet, rail, clock, calls>>
      /\ dropped \subseteq dropped'
      /\ \/ rows' = rows /\ k \in dropped'
         \/ rows' = [rows EXCEPT ![k].status = "submitted", ![k].ref = TRUE]
  BY <1>1, <1>2 DEF MarkPaymentSubmitted, Drop
<1>4. Others(h) /\ proc'[h].pc = "record"
  BY <1>0, <1>1, <1>3, GotoFacts DEF Others, PayPcs
<1>5. /\ \A j \in Keys \ {k} : rows'[j] = rows[j]
      /\ rows'[k].funded = rows[k].funded /\ rows'[k].status # "failed"
      /\ k \in dropped' \/ (rows'[k].ref /\ rows'[k].txn = rows[k].txn)
  <2> DEFINE x == rows[k]
             y == [x EXCEPT !.status = "submitted", !.ref = TRUE]
  <2>1. CASE rows' = rows /\ k \in dropped'
    BY <1>2, <2>1
  <2>2. CASE rows' = [rows EXCEPT ![k].status = "submitted", ![k].ref = TRUE]
    <3>1. rows' = [rows EXCEPT ![k] = y]
      BY <1>1, <2>2 DEF TypeOK
    <3>2. x \in Rows /\ x.status = "initiated"
      BY <1>1, <1>2
    <3> HIDE DEF x
    <3>3. x \in [status : Statuses, funded : BOOLEAN, txn : BOOLEAN, ref : BOOLEAN]
      BY <3>2 DEF Rows, NoRow
    <3>4. y.funded = x.funded /\ y.txn = x.txn /\ y.ref /\ y.status = "submitted"
      BY <3>3
    <3> HIDE DEF y
    <3>5. rows'[k] = y /\ \A j \in Keys \ {k} : rows'[j] = rows[j]
      BY <1>1, <3>1 DEF TypeOK
    <3> QED
      BY <3>4, <3>5 DEF x
  <2> QED
    BY <1>3, <2>1, <2>2
<1>6. RowTracked(k)' /\ CallTracked(h)'
  BY <1>4, <1>5 DEF RowTracked, CallTracked, Untried, Serving
<1>7. rows[k].funded => k \in dropped' \/ (rows'[k].ref /\ rows'[k].txn)
  BY <1>1, <1>2, <1>3, <1>5
<1> QED
  BY <1>0, <1>3, <1>4, <1>5, <1>6, <1>7, HolderTracked DEF wallet, rail

LEMMA FailTracked == ASSUME IInv, Tracked, NEW h \in Handlers, FailPayment(h) PROVE Tracked'
<1>a. PICK k \in Keys : k = proc[h].key
  BY CallFacts DEF IInv, FailPayment, At
<1>0. proc[h].pc = "fail" /\ proc[h].pc \in Serving /\ proc[h].key = k
  BY <1>a DEF FailPayment, At, Serving
<1>1. /\ TypeOK /\ proc[h].pc # "idle" /\ Key(h) = k
      /\ rows[k].funded = proc[h].funded /\ ~rows[k].ref
  BY <1>0, ServingFacts
<1>2. proc[h].funded => rows[k].txn \/ k \in dropped
  BY <1>0 DEF Tracked, CallTracked, Serving
<1>3. /\ UNCHANGED <<cached, wallet, rail, clock, dropped, calls>>
      /\ rows' = MarkedFailed(k) \/ rows' = rows
      /\ IF proc[h].funded THEN Goto(h, "giveback") ELSE Return(h)
  BY <1>1 DEF FailPayment
<1>4. /\ Others(h)
      /\ \/ proc'[h].pc = "idle" /\ ~proc[h].funded
         \/ proc'[h].pc = "giveback" /\ proc'[h].key = k /\ proc'[h].funded /\ proc[h].funded
  BY <1>0, <1>1, <1>3, GotoFacts, ReturnFacts DEF Others, PayPcs
<1>5. StatusOnly(k)
  BY <1>1, <1>3, SetFailed
<1>6. RowTracked(k)'
  BY <1>1, <1>5 DEF RowTracked, StatusOnly
<1>7. CallTracked(h)'
  BY <1>2, <1>3, <1>4, <1>5 DEF CallTracked, Untried, Serving, StatusOnly
<1>8. rows[k].funded => proc'[h].pc \in Serving /\ proc'[h].key = k /\ proc'[h].funded
                        /\ ~rows'[k].ref
  BY <1>1, <1>4, <1>5 DEF StatusOnly, Serving
<1> QED
  BY <1>0, <1>3, <1>4, <1>5, <1>6, <1>7, <1>8, HolderTracked DEF wallet, rail, StatusOnly

LEMMA SettleTracked == ASSUME IInv, Tracked, NEW k \in Keys, SetuSettles(k) PROVE Tracked'
<1>1. /\ TypeOK /\ setu[k] = "accepted"
      /\ UNCHANGED <<rows, cached, wallet, submits, acked, clock, dropped, bounds, proc>>
  BY DEF IInv, SetuSettles
<1>2. \A j \in Keys \ {k} : setu'[j] = setu[j]
  BY <1>1 DEF SetuSettles, TypeOK
<1>3. ASSUME NEW j \in Keys PROVE RowTracked(j)' /\ DebitTracked(j)'
  <2>1. RowTracked(j) /\ DebitTracked(j)
    BY DEF Tracked
  <2>2. RowTracked(j)'
    BY <1>1, <1>2, <2>1 DEF RowTracked
  <2>3. DebitTracked(j)'
    BY <1>1, <2>1 DEF DebitTracked, PaidBack, Working, Unplaced, Serving, wallet
  <2> QED
    BY <2>2, <2>3
<1>4. \A g \in Handlers : CallTracked(g)'
  BY <1>1 DEF Tracked, CallTracked, Untried, Serving
<1> QED
  BY <1>3, <1>4 DEF Tracked

\* A webhook answers, or moves, a row that names its reference.
LEMMA HookTracked ==
    ASSUME IInv, Tracked, NEW h \in Handlers, NEW k \in Keys, About(h, k), rows[k].ref,
           StatusOnly(k), UNCHANGED <<debits, undone, setu, dropped>>,
           \A j \in Keys \ {k} : refunds'[j] = refunds[j] /\ (j \in acked' => j \in acked),
           proc[h].pc \in {"idle"} \cup HookPcs, proc'[h].pc \in {"idle"} \cup HookPcs,
           RowTracked(k)',
           rows[k].status = "succeeded" => rows'[k].status = "succeeded",
           PaidBack(k) => PaidBack(k)',
           k \in acked' /\ k \notin acked /\ rows[k].txn => PaidBack(k)' \/ rows'[k].status = "succeeded"
    PROVE  Tracked'
<1>1. \A j \in Keys \ {k} : Aside(j)
  BY DEF Aside, StatusOnly
<1>2. \A g \in Handlers : proc[g].key = k => proc[g].pc \notin Serving
  BY Named
<1>3. CallTracked(h)'
  BY DEF CallTracked, HookPcs, Untried, Serving
<1>4. StaysAt(h, k)
  BY DEF StaysAt, HookPcs, Unplaced, Serving
<1>5. Working(k, Unplaced) => Working(k, Unplaced)'
  BY <1>4, WorkStays
<1>6. DebitTracked(k)'
  <2>1. DebitTracked(k)
    BY DEF Tracked
  <2> QED
    BY <1>5, <2>1 DEF DebitTracked, StatusOnly
<1> QED
  BY <1>1, <1>2, <1>3, <1>6, TrackStep, KeysOfCalls

LEMMA WebhookTracked ==
    ASSUME IInv, Tracked, NEW h \in Handlers, NEW k \in Keys, Webhook(h, k) PROVE Tracked'
<1> DEFINE call == [pc |-> setu[k], key |-> k, cron |-> FALSE,
                    funded |-> rows[k].funded /\ rows[k].txn]
<1>1. /\ TypeOK /\ proc[h].pc = "idle" /\ setu[k] \in {"paid", "bounced"} /\ rows[k].ref
      /\ UNCHANGED <<rows, cached, wallet, setu, submits, clock, dropped, calls>>
  BY DEF IInv, Webhook, At
<1>2. StatusOnly(k) /\ (PaidBack(k) => PaidBack(k)')
  BY <1>1 DEF StatusOnly, TypeOK, PaidBack, wallet
<1>3. RowTracked(k)'
  BY <1>1 DEF RowTracked, Tracked
<1>4. CASE rows[k].status = "succeeded"
  <2>1. acked' = acked \cup {k} /\ UNCHANGED proc
    BY <1>4 DEF Webhook
  <2>2. About(h, k)
    BY <1>1, <2>1 DEF About, Others
  <2> QED
    BY <1>1, <1>2, <1>3, <1>4, <2>1, <2>2, HookTracked DEF wallet
<1>5. CASE rows[k].status # "succeeded"
  <2>1. acked' = acked /\ proc' = [proc EXCEPT ![h] = call]
    BY <1>5 DEF Webhook
  <2>2. call \in Locals /\ call.pc \in HookPcs
    BY <1>1 DEF Locals, HookPcs
  <2> HIDE DEF call
  <2>3. proc'[h].pc \in HookPcs /\ About(h, k)
    BY <1>1, <2>1, <2>2, EnterFacts DEF Others, About
  <2> QED
    BY <1>1, <1>2, <1>3, <1>5, <2>1, <2>3, HookTracked DEF wallet
<1> QED
  BY <1>4, <1>5

LEMMA WebhookPaidTracked ==
    ASSUME IInv, Tracked, NEW h \in Handlers, WebhookPaid(h) PROVE Tracked'
<1>a. PICK k \in Keys : k = proc[h].key
  BY CallFacts DEF IInv, WebhookPaid, At
<1>1. /\ TypeOK /\ proc[h].pc = "paid" /\ proc[h].key = k /\ Key(h) = k
      /\ rows[k] \in Rows /\ RowSound(k) /\ CallSound(h) /\ Return(h)
      /\ UNCHANGED <<cached, wallet, setu, submits, clock, dropped, calls>>
  BY <1>a DEF IInv, WebhookPaid, At, Key, TypeOK
<1>2. rows[k].ref /\ setu[k] = "paid"
  BY <1>1 DEF CallSound
<1>3. rows[k].status \in {"submitted", "succeeded"}
  <2>1. rows[k].status # "failed"
    BY <1>2 DEF Tracked, RowTracked
  <2> QED
    BY <1>1, <1>2, <2>1, RowFacts
<1>4. About(h, k) /\ proc'[h].pc = "idle"
  BY <1>1, ReturnFacts DEF Others, About
<1>5. StatusOnly(k) /\ (rows' = rows \/ rows'[k].status = "succeeded")
      /\ \/ acked' = acked
         \/ acked' = acked \cup {k} /\ rows'[k].status = "succeeded"
  <2>1. CASE UNCHANGED <<rows, acked>>
    BY <1>1, <2>1 DEF StatusOnly, TypeOK
  <2>2. CASE /\ rows' = IF Open(k) THEN [rows EXCEPT ![k].status = "succeeded"] ELSE rows
             /\ acked' = acked \cup {k}
    <3>1. "succeeded" \in {"failed", "succeeded"}
      OBVIOUS
    <3>2. StatusOnly(k) /\ rows'[k].status = IF Open(k) THEN "succeeded" ELSE rows[k].status
      BY <1>1, <2>2, <3>1, SetStatus, Zenon
    <3>3. rows'[k].status = "succeeded"
      BY <1>3, <3>2 DEF Open
    <3> QED
      BY <2>2, <3>2, <3>3
  <2>3. \/ UNCHANGED <<rows, acked>>
        \/ /\ rows' = IF Open(k) THEN [rows EXCEPT ![k].status = "succeeded"] ELSE rows
           /\ acked' = acked \cup {k}
    BY <1>1, Zenon DEF WebhookPaid
  <2> QED
    BY <2>1, <2>2, <2>3, Zenon
<1>6. RowTracked(k)'
  BY <1>1, <1>5 DEF RowTracked, Tracked
<1>7. UNCHANGED <<debits, undone, refunds>> /\ (PaidBack(k) => PaidBack(k)')
  BY <1>1 DEF wallet, PaidBack
<1>8. \A j \in Keys \ {k} : j \in acked' => j \in acked
  BY <1>5
<1>9. rows[k].status = "succeeded" => rows'[k].status = "succeeded"
  BY <1>5
<1> QED
  BY <1>1, <1>2, <1>4, <1>5, <1>6, <1>7, <1>8, <1>9, HookTracked DEF HookPcs

LEMMA WebhookBouncedTracked ==
    ASSUME IInv, Tracked, NEW h \in Handlers, WebhookBounced(h) PROVE Tracked'
<1>a. PICK k \in Keys : k = proc[h].key
  BY CallFacts DEF IInv, WebhookBounced, At
<1>1. /\ TypeOK /\ proc[h].pc = "bounced" /\ proc[h].key = k /\ Key(h) = k
      /\ rows[k] \in Rows /\ RowSound(k) /\ CallSound(h)
      /\ UNCHANGED <<cached, wallet, setu, submits, clock, dropped, calls>>
  BY <1>a DEF IInv, WebhookBounced, At, Key, TypeOK
<1>2. /\ rows[k].ref /\ setu[k] = "bounced" /\ (rows[k].txn => proc[h].funded)
      /\ rows[k].status # "succeeded"
  BY <1>1, RowFacts DEF CallSound, RowSound
<1>3. /\ rows' = MarkedFailed(k) \/ rows' = rows
      /\ \/ acked' = acked /\ (Goto(h, "hookrefund") \/ Return(h))
         \/ acked' = acked \cup {k} /\ ~proc[h].funded /\ Return(h)
  BY <1>1, Zenon DEF WebhookBounced
<1>4. /\ About(h, k) /\ proc'[h].pc \in {"idle", "hookrefund"}
  BY <1>1, <1>3, GotoFacts, ReturnFacts DEF Others, HookPcs, About
<1>5. StatusOnly(k)
  BY <1>1, <1>3, SetFailed
<1>6. RowTracked(k)'
  BY <1>1, <1>2 DEF RowTracked
<1>7. UNCHANGED <<debits, undone, refunds>> /\ (PaidBack(k) => PaidBack(k)')
  BY <1>1 DEF wallet, PaidBack
<1>8. k \in acked' /\ k \notin acked => ~rows[k].txn
  BY <1>2, <1>3
<1>9. \A j \in Keys \ {k} : j \in acked' => j \in acked
  BY <1>3
<1> QED
  BY <1>1, <1>2, <1>4, <1>5, <1>6, <1>7, <1>8, <1>9, HookTracked DEF HookPcs

LEMMA WebhookRefundTracked ==
    ASSUME IInv, Tracked, NEW h \in Handlers, WebhookRefund(h) PROVE Tracked'
<1>a. PICK k \in Keys : k = proc[h].key
  BY CallFacts DEF IInv, WebhookRefund, At
<1>1. /\ TypeOK /\ proc[h].pc = "hookrefund" /\ proc[h].key = k /\ Key(h) = k
      /\ CallSound(h) /\ Return(h)
      /\ UNCHANGED <<rows, cached, debits, undone, setu, submits, clock, dropped, calls>>
      /\ \/ refunds' = [refunds EXCEPT ![k] = @ + 1] /\ acked' = acked \cup {k}
         \/ UNCHANGED <<refunds, acked>>
  BY <1>a DEF IInv, WebhookRefund, At, Key
<1>2. rows[k].ref
  BY <1>1 DEF CallSound
<1>3. About(h, k) /\ proc'[h].pc = "idle"
  BY <1>1, ReturnFacts DEF Others, About
<1>4. /\ refunds[k] \in Nat /\ \A j \in Keys \ {k} : refunds'[j] = refunds[j]
      /\ \/ refunds'[k] = refunds[k] /\ acked' = acked
         \/ refunds'[k] = refunds[k] + 1 /\ acked' = acked \cup {k}
  BY <1>1 DEF TypeOK
<1>5. (PaidBack(k) => PaidBack(k)') /\ (k \in acked' /\ k \notin acked => PaidBack(k)')
  BY <1>1, <1>4 DEF PaidBack
<1>6. StatusOnly(k) /\ RowTracked(k)'
  BY <1>1 DEF StatusOnly, TypeOK, RowTracked, Tracked
<1>7. \A j \in Keys \ {k} : j \in acked' => j \in acked
  BY <1>4
<1> QED
  BY <1>1, <1>2, <1>3, <1>4, <1>5, <1>6, <1>7, HookTracked DEF HookPcs

LEMMA TrackedNext == ASSUME IInv, Tracked, [Next]_vars PROVE Tracked'
<1>1. ASSUME NEW h \in Handlers, PayStep(h) PROVE Tracked'
  BY <1>1, WalletDebitTracked, InsertTracked, UndoTracked, AttachTracked, SubmitTracked,
     MarkTracked, RecordTracked, FailTracked, GiveBackTracked, AdvanceTracked DEF PayStep
<1>2. ASSUME NEW h \in Handlers, HookStep(h) PROVE Tracked'
  BY <1>2, WebhookPaidTracked, WebhookBouncedTracked, WebhookRefundTracked DEF HookStep
<1>3. ASSUME NEW h \in Handlers, Pay(h) \/ RunScheduledCron(h) \/ Crash(h) PROVE Tracked'
  BY <1>3, PayTracked, CronTracked, CrashTracked
<1>4. CASE UpdateScheduledActive \/ NextDay \/ UNCHANGED vars
  <2>1. UNCHANGED <<rows, wallet, rail, dropped, proc>>
    BY <1>4 DEF UpdateScheduledActive, NextDay, vars
  <2>2. \A k \in Keys : RowTracked(k)' /\ DebitTracked(k)'
    BY <2>1 DEF Tracked, RowTracked, DebitTracked, PaidBack, Working, Unplaced, Serving,
       wallet, rail
  <2>3. \A h \in Handlers : CallTracked(h)'
    BY <2>1 DEF Tracked, CallTracked, Untried, Serving
  <2> QED
    BY <2>2, <2>3 DEF Tracked
<1> QED
  BY <1>1, <1>2, <1>3, <1>4, WebhookTracked, SettleTracked DEF Next

\* No debit of the wallet is forgotten, whatever calls, retries, webhooks and
\* crashes come together: it is settled, paid back, or where a webhook finds it,
\* but for the steps whose failure the code only logs.
THEOREM NoDebitForgotten == Spec => []DebitAccounted
<1>1. Init => Tracked
  BY DEF Init, Tracked, RowTracked, DebitTracked, CallTracked, NoRow, Idle, Untried, Serving
<1>2. IInv /\ Tracked => DebitAccounted
  <2> SUFFICES ASSUME IInv, Tracked, NEW k \in debits,
                      \A h \in Handlers : proc[h].pc = "idle" \/ proc[h].key # k
               PROVE  \/ rows[k].status = "succeeded" \/ undone[k] + refunds[k] > 0
                      \/ k \in dropped
                      \/ rows[k].ref /\ rows[k].txn /\ k \notin acked
    BY DEF DebitAccounted
  <2>1. k \in Keys /\ DebitTracked(k) /\ undone[k] \in Nat /\ refunds[k] \in Nat
    BY DEF IInv, TypeOK, Tracked
  <2>2. ~Working(k, Unplaced) /\ ~Working(k, Serving)
    BY DEF Working, Unplaced, Serving
  <2>3. PaidBack(k) => undone[k] + refunds[k] > 0
    BY <2>1 DEF PaidBack
  <2>4. \/ PaidBack(k) \/ k \in dropped \/ rows[k].status = "succeeded"
        \/ rows[k].ref /\ rows[k].txn /\ k \notin acked
    BY <2>1, <2>2, Zenon DEF DebitTracked
  <2> QED
    BY <2>3, <2>4, Zenon
<1> QED
  BY <1>1, <1>2, TrackedNext, Invariance, PTL DEF Spec
=============================================================================
