------------------------- MODULE WalletTopUpProofs -------------------------
(***************************************************************************)
(* Theorems of WalletTopUp, for every number of top-ups, UPI references,   *)
(* users and handlers and all amounts.                                     *)
(***************************************************************************)
EXTENDS WalletTopUp, FiniteSetTheorems, TLAPS

\* What a handler knows of the row it works on: it is there, the reference was
\* paid for it; the row has taken the reference; the payment has landed.
Own(p) ==
    LET r == proc[p] IN
    /\ r.pc \in {"bump", "record"} => r.tx \in Used
    /\ r.pc \in {"setref", "verify", "settle", "credit"} => r.tx \in Used /\ paid[r.ref] = r.tx
    /\ r.pc \in {"verify", "settle", "credit"} => topups[r.tx].ref = r.ref
    /\ r.pc \in {"settle", "credit"} => r.ref \in landed

\* The expirer's snapshot is of rows that are there.
JobRows == /\ job.pc # "idle" => job.todo \subseteq Used
           /\ job.pc = "unbump" => job.tx \in Used

IType == TypeOK /\ JobRows /\ \A p \in Handlers : Own(p)
IInv == IType /\ NothingForNothing

---------------------------------------------------------------------------
(* Types.                                                                  *)

LEMMA Shapes ==
    ASSUME TypeOK, NEW p \in Handlers
    PROVE  /\ proc[p].pc \in {"check", "insert", "bump", "record"} => proc[p] \in Starting
           /\ proc[p].pc \in {"setref", "verify", "settle", "credit"} => proc[p] \in Confirming
           /\ proc[p].pc = "idle" => proc[p] = Idle
           /\ proc[p].pc \in {"idle", "check", "insert", "bump", "record", "setref", "verify",
                              "settle", "credit"}
<1> proc[p] \in Locals
  BY DEF TypeOK
<1> QED
  BY DEF Locals, Idle, Starting, Confirming

LEMMA JobShapes ==
    ASSUME TypeOK
    PROVE  /\ job.pc # "idle" => job \in JobLocals
           /\ job.pc \in {"mark", "unbump", "idle"}
<1> job \in {Idle} \cup JobLocals
  BY DEF TypeOK
<1> QED
  BY DEF Idle, JobLocals

\* The store's statements keep a balance row in its type and never lower what
\* is available.
LEMMA RowTypes ==
    ASSUME NEW row \in BalanceRow, NEW a \in Nat
    PROVE  /\ TopUpCredited(row, a) \in BalanceRow
           /\ TopUpCredited(row, a).available = row.available + a
           /\ PendingInAdjusted(row, a) \in BalanceRow
           /\ PendingInAdjusted(row, -a) \in BalanceRow
           /\ PendingInAdjusted(row, a).available = row.available
           /\ PendingInAdjusted(row, -a).available = row.available
<1>1. /\ row.available + a \in Int /\ Floor0(row.pendingIn - a) \in Int
      /\ row.pendingIn + a \in Int /\ row.pendingIn + (-a) \in Int
  BY DEF BalanceRow, Floor0
<1>2. /\ PendingInAdjusted(row, a) = [row EXCEPT !.pendingIn = row.pendingIn + a]
      /\ PendingInAdjusted(row, -a) = [row EXCEPT !.pendingIn = row.pendingIn + (-a)]
  BY DEF PendingInAdjusted, BalanceRow
<1>3. TopUpCredited(row, a) = [row EXCEPT !.available = row.available + a,
                                         !.pendingIn = Floor0(row.pendingIn - a)]
  BY DEF TopUpCredited, BalanceRow
<1> QED
  BY <1>1, <1>2, <1>3 DEF BalanceRow

\* MarkSettled writes a status of a pending row and nothing else.
LEMMA MarkSettledRow ==
    ASSUME TypeOK, NEW t \in TopUps, NEW s \in {"succeeded", "failed"}
    PROVE  /\ MarkSettled(topups, t, s) \in [TopUps -> TopUpRow \cup {FreeRow}]
           /\ \A x \in TopUps \ {t} : MarkSettled(topups, t, s)[x] = topups[x]
           /\ topups[t].status = "pending" =>
                /\ topups[t] \in TopUpRow
                /\ MarkSettled(topups, t, s)[t] = [topups[t] EXCEPT !.status = s]
                /\ MarkSettled(topups, t, s)[t] \in TopUpRow
                /\ MarkSettled(topups, t, s)[t].status = s
                /\ MarkSettled(topups, t, s)[t].ref = topups[t].ref
           /\ topups[t].status # "pending" => MarkSettled(topups, t, s) = topups
<1>1. CASE topups[t].status = "pending"
  <2>1. topups[t] \in TopUpRow
    BY <1>1 DEF TypeOK, FreeRow
  <2>2. /\ [topups[t] EXCEPT !.status = s] \in TopUpRow
        /\ [topups[t] EXCEPT !.status = s].status = s
        /\ [topups[t] EXCEPT !.status = s].ref = topups[t].ref
    BY <2>1 DEF TopUpRow
  <2>3. MarkSettled(topups, t, s) = [topups EXCEPT ![t] = [topups[t] EXCEPT !.status = s]]
    BY <1>1 DEF MarkSettled
  <2> QED
    BY <1>1, <2>1, <2>2, <2>3 DEF TypeOK
<1> QED
  BY <1>1 DEF TypeOK, MarkSettled

LEMMA MarkKeepsUsed ==
    ASSUME TypeOK, NEW t \in TopUps, NEW s \in {"succeeded", "failed"}, NEW x \in TopUps
    PROVE  MarkSettled(topups, t, s)[x].status # "free" <=> topups[x].status # "free"
<1>1. CASE x = t /\ topups[t].status = "pending"
  BY <1>1, MarkSettledRow
<1>2. CASE topups[t].status # "pending"
  <2>1. MarkSettled(topups, t, s) = topups
    BY <1>2, MarkSettledRow
  <2> QED
    BY <2>1
<1>3. CASE x # t
  <2>1. MarkSettled(topups, t, s)[x] = topups[x]
    BY <1>3 DEF MarkSettled, TypeOK
  <2> QED
    BY <2>1
<1> QED
  BY <1>1, <1>2, <1>3

LEMMA InitType == Init => IInv
<1> SUFFICES ASSUME Init PROVE IInv
  OBVIOUS
<1>1. TypeOK
  BY DEF Init, TypeOK, BalanceRow, FreeRow, NoRecord, Locals, Used
<1>2. JobRows /\ NothingForNothing /\ \A p \in Handlers : Own(p)
  BY DEF Init, JobRows, NothingForNothing, Own, Idle, FreeRow
<1> QED
  BY <1>1, <1>2 DEF IInv, IType

LEMMA StartTopUpType ==
    ASSUME IType, NEW p \in Handlers, NEW u \in Users, NEW a \in Amounts, NEW k \in Keys,
           StartTopUp(p, u, a, k)
    PROVE  TypeOK'
<1>1. [pc |-> "check", user |-> u, amt |-> a, key |-> k, tx |-> "none"] \in Starting
  BY DEF Starting
<1>2. proc' \in [Handlers -> Locals]
  BY <1>1 DEF IType, TypeOK, StartTopUp, Locals
<1> QED
  BY <1>2 DEF IType, TypeOK, StartTopUp, Used, upi, history

LEMMA CheckType ==
    ASSUME IType, NEW p \in Handlers, Check(p)
    PROVE  TypeOK'
<1>1. proc[p] \in Starting
  BY Shapes DEF Check, IType
<1>2. [proc[p] EXCEPT !.pc = "insert"] \in Starting
  BY <1>1 DEF Starting
<1>3. proc' \in [Handlers -> Locals]
  BY <1>2 DEF IType, TypeOK, Check, Goto, Return, Locals
<1> QED
  BY <1>3 DEF IType, TypeOK, Check, Used, upi, history

LEMMA InsertType ==
    ASSUME IType, NEW p \in Handlers, Insert(p)
    PROVE  TypeOK'
<1> DEFINE r == proc[p]
<1>1. r \in Starting
  BY Shapes DEF Insert, IType
<1>2. PICK t \in TopUps \ Used :
        /\ topups' = [topups EXCEPT ![t] = [status |-> "pending", user |-> r.user,
                                    amt |-> r.amt, key |-> r.key, ref |-> "none"]]
        /\ proc' = [proc EXCEPT ![p] = [r EXCEPT !.pc = "bump", !.tx = t]]
  BY DEF Insert
<1>3. [r EXCEPT !.pc = "bump", !.tx = t] \in Starting
  BY <1>1 DEF Starting
<1>4. proc' \in [Handlers -> Locals]
  BY <1>2, <1>3 DEF IType, TypeOK, Locals
<1>5. topups' \in [TopUps -> TopUpRow \cup {FreeRow}] /\ Used \subseteq Used'
  BY <1>1, <1>2 DEF IType, TypeOK, Starting, TopUpRow, Used
<1> QED
  BY <1>4, <1>5 DEF IType, TypeOK, Insert, upi, history

LEMMA BumpType ==
    ASSUME IType, NEW p \in Handlers, Bump(p)
    PROVE  TypeOK'
<1> DEFINE r == proc[p]
<1>1. r \in Starting
  BY Shapes DEF Bump, IType
<1>2. r.user \in Users /\ r.amt \in Nat
  BY <1>1, TopUpConstants DEF Starting, TopUpConstants
<1>3. balances[r.user] \in BalanceRow
  BY <1>2 DEF IType, TypeOK
<1>4. /\ PendingInAdjusted(balances[r.user], r.amt) \in BalanceRow
      /\ PendingInAdjusted(balances[r.user], r.amt).available = balances[r.user].available
  BY <1>2, <1>3, RowTypes
<1>5. balances' \in [Users -> BalanceRow] /\ \A u \in Users : balances'[u].available >= 0
  BY <1>2, <1>4 DEF IType, TypeOK, Bump
<1>6. [r EXCEPT !.pc = "record"] \in Starting
  BY <1>1 DEF Starting
<1>7. proc' \in [Handlers -> Locals]
  BY <1>6 DEF IType, TypeOK, Bump, Goto, Locals
<1> QED
  BY <1>5, <1>7 DEF IType, TypeOK, Bump, Used, upi, history

LEMMA RecordType ==
    ASSUME IType, NEW p \in Handlers, Record(p)
    PROVE  TypeOK'
<1> DEFINE r == proc[p]
           rec == [user |-> r.user, op |-> "top_up", tx |-> r.tx]
<1>1. r \in Starting /\ r.tx \in Used
  BY Shapes DEF Record, IType, Own
<1>2. rec \in [user : Users, op : {"top_up"}, tx : TopUps]
  BY <1>1 DEF Starting, Used
<1>3. idem' \in [Keys -> [user : Users, op : {"top_up"}, tx : TopUps] \cup {NoRecord}]
  BY <1>1, <1>2 DEF IType, TypeOK, Record, Recorded, Starting
<1>4. intents \subseteq intents' /\ intents' \subseteq Used
  BY <1>1 DEF IType, TypeOK, Record
<1>5. proc' \in [Handlers -> Locals]
  BY DEF IType, TypeOK, Record, Return, Locals
<1> QED
  BY <1>3, <1>4, <1>5 DEF IType, TypeOK, Record, Used, history

LEMMA UpiType ==
    ASSUME IType, NEW ref \in Refs, NEW t \in TopUps, Pay(ref, t) \/ Land(ref)
    PROVE  TypeOK'
<1>1. CASE Pay(ref, t)
  <2>1. paid' \in [Refs -> intents \cup {"none"}]
    BY <1>1 DEF IType, TypeOK, Pay
  <2> QED
    BY <1>1, <2>1 DEF IType, TypeOK, Pay, Used, history
<1>2. CASE Land(ref)
  BY <1>2 DEF IType, TypeOK, Land, Used, history
<1> QED
  BY <1>1, <1>2

LEMMA ConfirmTopUpType ==
    ASSUME IType, NEW p \in Handlers, NEW t \in TopUps, NEW ref \in Refs,
           ConfirmTopUp(p, t, ref)
    PROVE  TypeOK'
<1>1. topups[t] \in TopUpRow
  BY DEF ConfirmTopUp, IType, TypeOK, FreeRow
<1>2. [pc |-> "setref", user |-> topups[t].user, amt |-> topups[t].amt, tx |-> t, ref |-> ref]
        \in Confirming
  BY <1>1 DEF Confirming, TopUpRow
<1>3. proc' \in [Handlers -> Locals]
  BY <1>2 DEF IType, TypeOK, ConfirmTopUp, Locals
<1> QED
  BY <1>3 DEF IType, TypeOK, ConfirmTopUp, Used, upi, history

LEMMA SetRefType ==
    ASSUME IType, NEW p \in Handlers, SetRef(p)
    PROVE  TypeOK'
<1> DEFINE r == proc[p]
<1>1. r \in Confirming /\ r.tx \in Used
  BY Shapes DEF SetRef, IType, Own
<1>2. r.tx \in TopUps /\ r.ref \in Refs /\ topups[r.tx] \in TopUpRow
  BY <1>1 DEF Confirming, Used, IType, TypeOK, FreeRow
<1>3. [topups[r.tx] EXCEPT !.ref = r.ref] \in TopUpRow
      /\ [topups[r.tx] EXCEPT !.ref = r.ref].status = topups[r.tx].status
  BY <1>2 DEF TopUpRow
<1>4. [r EXCEPT !.pc = "verify"] \in Confirming
  BY <1>1 DEF Confirming
<1>5. proc' \in [Handlers -> Locals]
  BY <1>4 DEF IType, TypeOK, SetRef, Goto, Return, Locals
<1>6. topups' = topups \/ topups' = [topups EXCEPT ![r.tx] = [topups[r.tx] EXCEPT !.ref = r.ref]]
  BY DEF SetRef
<1>7. topups' \in [TopUps -> TopUpRow \cup {FreeRow}] /\ Used' = Used
  <2>1. topups \in [TopUps -> TopUpRow \cup {FreeRow}]
    BY DEF IType, TypeOK
  <2>2. CASE topups' = topups
    BY <2>1, <2>2 DEF Used
  <2>3. CASE topups' = [topups EXCEPT ![r.tx] = [topups[r.tx] EXCEPT !.ref = r.ref]]
    BY <1>2, <1>3, <2>1, <2>3 DEF Used
  <2> QED
    BY <1>6, <2>2, <2>3
<1> QED
  BY <1>5, <1>7 DEF IType, TypeOK, SetRef, upi, history

LEMMA VerifyType ==
    ASSUME IType, NEW p \in Handlers, Verify(p)
    PROVE  TypeOK'
<1>1. proc[p] \in Confirming
  BY Shapes DEF Verify, IType
<1>2. [proc[p] EXCEPT !.pc = "settle"] \in Confirming
  BY <1>1 DEF Confirming
<1>3. proc' \in [Handlers -> Locals]
  BY <1>2 DEF IType, TypeOK, Verify, Goto, Return, Locals
<1> QED
  BY <1>3 DEF IType, TypeOK, Verify, Used, upi, history

LEMMA SettleType ==
    ASSUME IType, NEW p \in Handlers, Settle(p)
    PROVE  TypeOK'
<1> DEFINE r == proc[p]
<1>1. r \in Confirming
  BY Shapes DEF Settle, IType
<1>2. r.tx \in TopUps /\ [r EXCEPT !.pc = "credit"] \in Confirming
  BY <1>1 DEF Confirming
<1>3. proc' \in [Handlers -> Locals]
  BY <1>2 DEF IType, TypeOK, Settle, Goto, Locals
<1>4. topups' \in [TopUps -> TopUpRow \cup {FreeRow}]
  BY <1>2, MarkSettledRow DEF Settle, IType
<1>5. Used' = Used
  BY <1>2, MarkKeepsUsed DEF Settle, IType, Used
<1> QED
  BY <1>3, <1>4, <1>5 DEF IType, TypeOK, Settle, upi, history

LEMMA CreditType ==
    ASSUME IType, NEW p \in Handlers, Credit(p)
    PROVE  TypeOK'
<1> DEFINE r == proc[p]
<1>1. r \in Confirming
  BY Shapes DEF Credit, IType
<1>2. r.user \in Users /\ r.amt \in Nat
  BY <1>1, TopUpConstants DEF Confirming, TopUpConstants
<1>3. balances[r.user] \in BalanceRow /\ balances[r.user].available >= 0
  BY <1>2 DEF IType, TypeOK
<1>4. /\ TopUpCredited(balances[r.user], r.amt) \in BalanceRow
      /\ TopUpCredited(balances[r.user], r.amt).available = balances[r.user].available + r.amt
  BY <1>2, <1>3, RowTypes
<1>5. balances[r.user].available + r.amt >= 0
  BY <1>2, <1>3 DEF BalanceRow
<1>6. balances' \in [Users -> BalanceRow] /\ \A u \in Users : balances'[u].available >= 0
  BY <1>2, <1>4, <1>5 DEF IType, TypeOK, Credit
<1>7. credits' \in [TopUps -> Nat]
  BY <1>1 DEF IType, TypeOK, Credit, Confirming
<1>8. proc' \in [Handlers -> Locals]
  BY DEF IType, TypeOK, Credit, Return, Locals
<1> QED
  BY <1>6, <1>7, <1>8 DEF IType, TypeOK, Credit, Used, upi

LEMMA ExpireListType ==
    ASSUME IType, ExpireList
    PROVE  TypeOK'
<1>1. PICK B \in Batched(Stale) : job' = [pc |-> "mark", todo |-> B, tx |-> "none"]
  BY DEF ExpireList
<1>2. B \in SUBSET TopUps
  BY <1>1 DEF Batched, Stale, Used
<1>3. job' \in JobLocals
  BY <1>1, <1>2 DEF JobLocals
<1> QED
  BY <1>3 DEF IType, TypeOK, ExpireList, Used, upi, history

LEMMA NextRowType ==
    ASSUME IType, NEW t, job.pc # "idle", NextRow(t)
    PROVE  job' \in {Idle} \cup JobLocals
<1>1. job \in JobLocals
  BY JobShapes DEF IType
<1> QED
  BY <1>1 DEF NextRow, JobLocals

LEMMA ExpireMarkType ==
    ASSUME IType, ExpireMark
    PROVE  TypeOK'
<1>1. job \in JobLocals
  BY JobShapes DEF IType, ExpireMark
<1>2. PICK t \in job.todo : /\ topups' = MarkSettled(topups, t, "failed")
                            /\ job' = [job EXCEPT !.pc = "unbump", !.tx = t]
  BY DEF ExpireMark
<1>3. t \in TopUps /\ job' \in JobLocals
  BY <1>1, <1>2 DEF JobLocals
<1>4. topups' \in [TopUps -> TopUpRow \cup {FreeRow}]
  BY <1>2, <1>3, MarkSettledRow DEF IType
<1>5. Used' = Used
  BY <1>2, <1>3, MarkKeepsUsed DEF IType, Used
<1> QED
  BY <1>3, <1>4, <1>5 DEF IType, TypeOK, ExpireMark, upi, history

LEMMA ExpireUnbumpType ==
    ASSUME IType, ExpireUnbump
    PROVE  TypeOK'
<1> DEFINE row == topups[job.tx]
<1>1. job.tx \in Used
  BY DEF ExpireUnbump, IType, JobRows
<1>2. row \in TopUpRow
  BY <1>1 DEF IType, TypeOK, Used, FreeRow
<1>3. row.user \in Users /\ row.amt \in Nat
  BY <1>2, TopUpConstants DEF TopUpRow, TopUpConstants
<1>4. balances[row.user] \in BalanceRow
  BY <1>3 DEF IType, TypeOK
<1>5. /\ PendingInAdjusted(balances[row.user], -row.amt) \in BalanceRow
      /\ PendingInAdjusted(balances[row.user], -row.amt).available = balances[row.user].available
  BY <1>3, <1>4, RowTypes
<1>6. balances' = [balances EXCEPT ![row.user] = PendingInAdjusted(balances[row.user], -row.amt)]
  BY DEF ExpireUnbump
<1> HIDE DEF row
<1>7. balances' \in [Users -> BalanceRow] /\ \A u \in Users : balances'[u].available >= 0
  BY <1>3, <1>5, <1>6 DEF IType, TypeOK
<1>8. job' \in {Idle} \cup JobLocals
  BY NextRowType DEF ExpireUnbump
<1> QED
  BY <1>7, <1>8 DEF IType, TypeOK, ExpireUnbump, Used, upi, history

LEMMA ExpireStopsType ==
    ASSUME IType, ExpireSkip \/ ExpireAbort
    PROVE  TypeOK'
<1>1. job' \in {Idle} \cup JobLocals
  BY NextRowType DEF ExpireSkip, ExpireAbort
<1> QED
  BY <1>1 DEF IType, TypeOK, ExpireSkip, ExpireAbort, Used, upi, history

LEMMA SetFrozenType ==
    ASSUME IType, NEW u \in Users, NEW f \in BOOLEAN, SetFrozen(u, f)
    PROVE  TypeOK'
<1>1. /\ [balances[u] EXCEPT !.frozen = f] \in BalanceRow
      /\ [balances[u] EXCEPT !.frozen = f].available = balances[u].available
  BY DEF IType, TypeOK, BalanceRow
<1>2. balances' = [balances EXCEPT ![u] = [balances[u] EXCEPT !.frozen = f]]
  BY DEF SetFrozen
<1>3. balances' \in [Users -> BalanceRow] /\ \A v \in Users : balances'[v].available >= 0
  BY <1>1, <1>2 DEF IType, TypeOK
<1> QED
  BY <1>3 DEF IType, TypeOK, SetFrozen, Used, upi, history

LEMMA TimeType ==
    ASSUME IType, NEW t \in TopUps, NEW k \in Keys, Age(t) \/ ExpireKey(k)
    PROVE  TypeOK'
BY DEF IType, TypeOK, Age, ExpireKey, Used, upi, history

LEMMA AbortType ==
    ASSUME IType, NEW p \in Handlers, Abort(p)
    PROVE  TypeOK'
<1>1. proc[p].pc = "credit" => proc[p].tx \in TopUps
  BY Shapes DEF IType, Confirming
<1>2. lost' \subseteq TopUps /\ proc' \in [Handlers -> Locals]
  BY <1>1 DEF IType, TypeOK, Abort, Return, Locals
<1> QED
  BY <1>2 DEF IType, TypeOK, Abort, Used, upi

LEMMA NextType ==
    ASSUME IType, [Next]_vars
    PROVE  TypeOK'
<1>1. CASE UNCHANGED vars
  BY <1>1 DEF IType, TypeOK, Used, vars, upi, history
<1>2. ASSUME NEW p \in Handlers, RequestStep(p) \/ Abort(p)
      PROVE  TypeOK'
  BY <1>2, CheckType, InsertType, BumpType, RecordType, SetRefType, VerifyType, SettleType,
     CreditType, AbortType DEF RequestStep
<1>3. CASE ExpireList \/ ExpireMark \/ ExpireUnbump \/ ExpireSkip \/ ExpireAbort
  BY <1>3, ExpireListType, ExpireMarkType, ExpireUnbumpType, ExpireStopsType
<1>4. ASSUME NEW u \in Freezable, NEW f \in BOOLEAN, SetFrozen(u, f)
      PROVE  TypeOK'
  BY <1>4, SetFrozenType, TopUpConstants DEF TopUpConstants
<1>5. ASSUME NEW t \in TopUps, Age(t)
      PROVE  TypeOK'
  BY <1>5 DEF IType, TypeOK, Age, Used, upi, history
<1>6. ASSUME NEW k \in Keys, ExpireKey(k)
      PROVE  TypeOK'
  BY <1>6 DEF IType, TypeOK, ExpireKey, Used, upi, history
<1>7. ASSUME NEW r \in Refs, Land(r)
      PROVE  TypeOK'
  BY <1>7 DEF IType, TypeOK, Land, Used, history
<1>8. ASSUME NEW r \in Refs, NEW t \in TopUps, Pay(r, t)
      PROVE  TypeOK'
  BY <1>8, UpiType
<1> QED
  BY <1>1, <1>2, <1>3, <1>4, <1>5, <1>6, <1>7, <1>8, StartTopUpType, ConfirmTopUpType DEF Next

---------------------------------------------------------------------------
(* What a step can do to a row, and to a handler.                          *)

\* The statements that write wallet.transactions.
LEMMA RowSteps ==
    ASSUME IType, [Next]_vars, topups' # topups
    PROVE  \/ \E p \in Handlers : Insert(p) \/ SetRef(p) \/ Settle(p)
           \/ ExpireMark
<1>1. ASSUME NEW p \in Handlers, RequestStep(p)
      PROVE  Insert(p) \/ SetRef(p) \/ Settle(p)
  BY <1>1 DEF RequestStep, Check, Bump, Record, Verify, Credit
<1>2. ASSUME NEW p \in Handlers, NEW u, NEW a, NEW k,
             StartTopUp(p, u, a, k) \/ ConfirmTopUp(p, u, a) \/ Abort(p)
      PROVE  FALSE
  BY <1>2 DEF StartTopUp, ConfirmTopUp, Abort
<1>3. ASSUME ExpireList \/ ExpireUnbump \/ ExpireSkip \/ ExpireAbort
      PROVE  FALSE
  BY <1>3 DEF ExpireList, ExpireUnbump, ExpireSkip, ExpireAbort
<1>4. ASSUME NEW x, NEW y,
             Pay(x, y) \/ Land(x) \/ SetFrozen(x, y) \/ Age(x) \/ ExpireKey(x)
      PROVE  FALSE
  BY <1>4 DEF Pay, Land, SetFrozen, Age, ExpireKey
<1>5. UNCHANGED vars => FALSE
  BY DEF vars
<1> QED
  BY <1>1, <1>2, <1>3, <1>4, <1>5 DEF Next

\* A settled row keeps its status and a reference once taken stays; a row
\* becomes succeeded by MarkSettled of a confirmation alone.
LEMMA RowAdvances ==
    ASSUME IType, [Next]_vars, NEW t \in Used
    PROVE  /\ t \in Used'
           /\ topups[t].status # "pending" => topups'[t].status = topups[t].status
           /\ topups[t].ref # "none" => topups'[t].ref = topups[t].ref
           /\ topups'[t].status = "succeeded" /\ topups[t].status # "succeeded" =>
                \E p \in Handlers : Settle(p) /\ proc[p].tx = t
<1>1. t \in TopUps /\ topups[t].status # "free" /\ topups[t] \in TopUpRow
  BY DEF Used, IType, TypeOK, FreeRow
<1>2. CASE topups' = topups
  BY <1>1, <1>2 DEF Used
<1>3. ASSUME NEW p \in Handlers, Insert(p)
      PROVE  topups'[t] = topups[t]
  BY <1>3 DEF Insert, IType, TypeOK
<1>4. ASSUME NEW p \in Handlers, SetRef(p)
      PROVE  /\ topups'[t].status = topups[t].status
             /\ topups[t].ref # "none" => topups'[t].ref = topups[t].ref
  <2>1. proc[p].tx \in TopUps
    BY <1>4, Shapes DEF SetRef, IType, Confirming
  <2>2. CASE topups' = topups
    BY <2>2
  <2>3. CASE proc[p].tx # t
    BY <1>1, <1>4, <2>3 DEF SetRef, IType, TypeOK
  <2>4. CASE topups' # topups /\ proc[p].tx = t
    <3>1. /\ topups'[t] = [topups[t] EXCEPT !.ref = proc[p].ref]
          /\ topups[t].ref \in {"none", proc[p].ref}
      BY <1>1, <1>4, <2>4 DEF SetRef, IType, TypeOK
    <3>2. topups'[t].ref = proc[p].ref /\ topups'[t].status = topups[t].status
      BY <1>1, <3>1 DEF TopUpRow
    <3> QED
      BY <3>1, <3>2
  <2> QED
    BY <2>2, <2>3, <2>4
<1>5. ASSUME NEW x \in TopUps, NEW s \in {"succeeded", "failed"},
             topups' = MarkSettled(topups, x, s)
      PROVE  /\ t \in Used'
             /\ topups[t].status # "pending" => topups'[t].status = topups[t].status
             /\ topups'[t].ref = topups[t].ref
             /\ topups'[t].status # topups[t].status => x = t /\ topups'[t].status = s
  <2>1. CASE x = t /\ topups[t].status = "pending"
    BY <1>1, <1>5, <2>1, MarkSettledRow DEF IType, Used
  <2>2. CASE ~(x = t /\ topups[t].status = "pending")
    <3>1. topups'[t] = topups[t]
      <4>1. CASE topups[x].status # "pending"
        BY <1>5, <4>1, MarkSettledRow DEF IType
      <4>2. CASE x # t
        BY <1>1, <1>5, <4>2 DEF MarkSettled, IType, TypeOK
      <4> QED
        BY <2>2, <4>1, <4>2
    <3> QED
      BY <1>1, <3>1 DEF Used
  <2> QED
    BY <2>1, <2>2
<1>6. ASSUME NEW p \in Handlers, Settle(p)
      PROVE  proc[p].tx \in TopUps /\ topups' = MarkSettled(topups, proc[p].tx, "succeeded")
  BY <1>6, Shapes DEF Settle, IType, Confirming
<1>7. ASSUME ExpireMark
      PROVE  \E x \in TopUps : topups' = MarkSettled(topups, x, "failed")
  BY <1>7, JobShapes DEF ExpireMark, IType, JobLocals
<1>8. ASSUME NEW p \in Handlers, Insert(p) \/ SetRef(p)
      PROVE  t \in Used' /\ topups'[t].status = topups[t].status
  BY <1>1, <1>3, <1>4, <1>8 DEF Used
<1> QED
  BY <1>1, <1>2, <1>3, <1>4, <1>5, <1>6, <1>7, <1>8, RowSteps

\* A row that was not there before is pending.
LEMMA NewRow ==
    ASSUME IType, [Next]_vars, NEW t \in TopUps, t \notin Used, t \in Used'
    PROVE  topups'[t].status = "pending"
<1>1. topups[t].status = "free" /\ topups'[t].status # "free" /\ topups' # topups
  BY DEF Used
<1>2. ASSUME NEW p \in Handlers, SetRef(p)
      PROVE  FALSE
  <2>1. proc[p].tx \in Used
    BY <1>2 DEF SetRef, IType, Own
  <2> QED
    BY <1>1, <1>2, <2>1 DEF SetRef, IType, TypeOK, Used
<1>3. ASSUME NEW x \in TopUps, NEW s \in {"succeeded", "failed"},
             topups' = MarkSettled(topups, x, s)
      PROVE  FALSE
  BY <1>1, <1>3, MarkKeepsUsed DEF IType
<1>4. ASSUME NEW p \in Handlers, Settle(p)
      PROVE  FALSE
  BY <1>3, <1>4, Shapes DEF Settle, IType, Confirming
<1>5. ASSUME ExpireMark
      PROVE  FALSE
  BY <1>3, <1>5, JobShapes DEF ExpireMark, IType, JobLocals
<1>6. ASSUME NEW p \in Handlers, Insert(p)
      PROVE  topups'[t].status = "pending"
  BY <1>1, <1>6 DEF Insert, IType, TypeOK
<1> QED
  BY <1>1, <1>2, <1>4, <1>5, <1>6, RowSteps

\* UPI payments are made once and stay where they are.
LEMMA UpiGrows ==
    ASSUME IType, [Next]_vars
    PROVE  /\ landed \subseteq landed'
           /\ \A r \in Refs : paid[r] # "none" => paid'[r] = paid[r]
<1>1. ASSUME NEW r \in Refs, NEW t \in TopUps, Pay(r, t)
      PROVE  landed' = landed /\ \A x \in Refs : paid[x] # "none" => paid'[x] = paid[x]
  BY <1>1 DEF Pay, IType, TypeOK
<1>2. ASSUME NEW r \in Refs, Land(r)
      PROVE  landed \subseteq landed' /\ paid' = paid
  BY <1>2 DEF Land
<1>3. ASSUME NEW p \in Handlers, RequestStep(p)
      PROVE  UNCHANGED <<landed, paid>>
  BY <1>3 DEF RequestStep, Check, Insert, Bump, Record, SetRef, Verify, Settle, Credit, upi
<1>4. ASSUME NEW p \in Handlers, NEW u, NEW a, NEW k,
             StartTopUp(p, u, a, k) \/ ConfirmTopUp(p, u, a) \/ Abort(p)
      PROVE  UNCHANGED <<landed, paid>>
  BY <1>4 DEF StartTopUp, ConfirmTopUp, Abort, upi
<1>5. ASSUME ExpireList \/ ExpireMark \/ ExpireUnbump \/ ExpireSkip \/ ExpireAbort
      PROVE  UNCHANGED <<landed, paid>>
  BY <1>5 DEF ExpireList, ExpireMark, ExpireUnbump, ExpireSkip, ExpireAbort, upi
<1>6. ASSUME NEW x, NEW y, SetFrozen(x, y) \/ Age(x) \/ ExpireKey(x)
      PROVE  UNCHANGED <<landed, paid>>
  BY <1>6 DEF SetFrozen, Age, ExpireKey, upi
<1>7. UNCHANGED vars => UNCHANGED <<landed, paid>>
  BY DEF vars, upi
<1> QED
  BY <1>1, <1>2, <1>3, <1>4, <1>5, <1>6, <1>7 DEF Next

LEMMA OneHandlerMoves ==
    ASSUME IType, [Next]_vars, NEW q \in Handlers, proc'[q] # proc[q]
    PROVE  \/ RequestStep(q) \/ Abort(q)
           \/ \E u \in Users, a \in Amounts, k \in Keys : StartTopUp(q, u, a, k)
           \/ \E t \in TopUps, ref \in Refs : ConfirmTopUp(q, t, ref)
<1>1. ASSUME NEW p \in Handlers, p # q, RequestStep(p) \/ Abort(p)
      PROVE  proc'[q] = proc[q]
  BY <1>1 DEF RequestStep, Check, Insert, Bump, Record, SetRef, Verify, Settle, Credit, Abort,
     Goto, Return, IType, TypeOK
<1>2. ASSUME NEW p \in Handlers, p # q, NEW u, NEW a, NEW k,
             StartTopUp(p, u, a, k) \/ ConfirmTopUp(p, u, a)
      PROVE  proc'[q] = proc[q]
  BY <1>2 DEF StartTopUp, ConfirmTopUp, IType, TypeOK
<1>3. ASSUME ExpireList \/ ExpireMark \/ ExpireUnbump \/ ExpireSkip \/ ExpireAbort
      PROVE  proc' = proc
  BY <1>3 DEF ExpireList, ExpireMark, ExpireUnbump, ExpireSkip, ExpireAbort
<1>4. ASSUME NEW x, NEW y, Pay(x, y) \/ Land(x) \/ SetFrozen(x, y) \/ Age(x) \/ ExpireKey(x)
      PROVE  proc' = proc
  BY <1>4 DEF Pay, Land, SetFrozen, Age, ExpireKey
<1>5. UNCHANGED vars => proc' = proc
  BY DEF vars
<1> QED
  BY <1>1, <1>2, <1>3, <1>4, <1>5 DEF Next

LEMMA OwnStep ==
    ASSUME IType, [Next]_vars, NEW q \in Handlers
    PROVE  Own(q)'
<1> DEFINE r == proc[q]
<1>0. proc \in [Handlers -> Locals] /\ "none" \notin TopUps
  BY TopUpConstants DEF IType, TypeOK, TopUpConstants
<1>1. /\ r.pc \in {"check", "insert", "bump", "record"} => r \in Starting
      /\ r.pc \in {"setref", "verify", "settle", "credit"} =>
           r \in Confirming /\ r.tx \in TopUps /\ r.ref \in Refs /\ r.ref # "none"
  BY Shapes, TopUpConstants DEF IType, Confirming, TopUpConstants
<1>2. /\ r.pc \in {"bump", "record"} => r.tx \in Used
      /\ r.pc \in {"setref", "verify", "settle", "credit"} => r.tx \in Used /\ paid[r.ref] = r.tx
      /\ r.pc \in {"verify", "settle", "credit"} => topups[r.tx].ref = r.ref
      /\ r.pc \in {"settle", "credit"} => r.ref \in landed
  BY DEF IType, Own
<1>3. /\ r.pc \in {"bump", "record"} => r.tx \in Used'
      /\ r.pc \in {"setref", "verify", "settle", "credit"} =>
           r.tx \in Used' /\ paid'[r.ref] = r.tx
      /\ r.pc \in {"verify", "settle", "credit"} => topups'[r.tx].ref = r.ref
      /\ r.pc \in {"settle", "credit"} => r.ref \in landed'
  <2>1. r.tx \in Used => r.tx \in Used' /\ (topups[r.tx].ref # "none" =>
                                              topups'[r.tx].ref = topups[r.tx].ref)
    BY RowAdvances
  <2>2. /\ landed \subseteq landed'
        /\ r.ref \in Refs /\ paid[r.ref] # "none" => paid'[r.ref] = paid[r.ref]
    BY UpiGrows
  <2> QED
    BY <1>0, <1>1, <1>2, <2>1, <2>2
<1>4. CASE proc'[q] = r
  BY <1>3, <1>4 DEF Own
<1>5. CASE proc'[q] = Idle
  BY <1>5 DEF Own, Idle
<1>6. ASSUME Goto(q, "insert") \/ Goto(q, "record") \/ Goto(q, "settle") \/ Goto(q, "credit"),
             r \in Starting \cup Confirming
      PROVE  /\ Goto(q, "insert") => proc'[q].pc = "insert"
             /\ Goto(q, "record") => proc'[q].pc = "record"
             /\ Goto(q, "settle") => proc'[q].pc = "settle"
             /\ Goto(q, "credit") => proc'[q].pc = "credit"
             /\ proc'[q].tx = r.tx
             /\ r \in Confirming => proc'[q].ref = r.ref
  BY <1>0, <1>6 DEF Goto, Starting, Confirming
<1>7. CASE Check(q)
  BY <1>0, <1>1, <1>5, <1>6, <1>7 DEF Check, Return, Own
<1>8. CASE Insert(q)
  <2>1. PICK t \in TopUps \ Used :
          /\ topups' = [topups EXCEPT ![t] = [status |-> "pending", user |-> r.user,
                                      amt |-> r.amt, key |-> r.key, ref |-> "none"]]
          /\ proc' = [proc EXCEPT ![q] = [r EXCEPT !.pc = "bump", !.tx = t]]
    BY <1>8 DEF Insert
  <2>2. proc'[q].pc = "bump" /\ proc'[q].tx = t
    BY <1>0, <1>1, <1>8, <2>1 DEF Insert, Starting
  <2>3. t \in Used'
    BY <2>1 DEF Used, IType, TypeOK
  <2> QED
    BY <2>2, <2>3 DEF Own
<1>9. CASE Bump(q)
  BY <1>1, <1>3, <1>6, <1>9 DEF Bump, Own
<1>10. CASE Record(q) \/ Credit(q) \/ Abort(q)
  BY <1>0, <1>5, <1>10 DEF Record, Credit, Abort, Return
<1>11. CASE SetRef(q)
  <2>1. CASE Return(q)
    BY <1>0, <1>5, <2>1 DEF Return
  <2>2. CASE ~Return(q)
    <3>1. /\ topups' = [topups EXCEPT ![r.tx].ref = r.ref] /\ Goto(q, "verify")
          /\ r.tx \in Used /\ r \in Confirming
      BY <1>1, <1>2, <1>11, <2>2 DEF SetRef
    <3>2. topups[r.tx] \in TopUpRow /\ r.tx \in TopUps
      BY <3>1 DEF IType, TypeOK, Used, FreeRow
    <3>3. topups'[r.tx].ref = r.ref
      BY <3>1, <3>2 DEF TopUpRow, IType, TypeOK
    <3>4. proc'[q].pc = "verify" /\ proc'[q].tx = r.tx /\ proc'[q].ref = r.ref
      BY <1>0, <3>1 DEF Goto, Confirming
    <3> QED
      BY <1>3, <1>11, <3>3, <3>4 DEF Own, SetRef
  <2> QED
    BY <2>1, <2>2
<1>12. CASE Verify(q)
  <2>1. CASE Return(q)
    BY <1>0, <1>5, <2>1 DEF Return
  <2>2. CASE ~Return(q)
    <3>1. Goto(q, "settle") /\ r.ref \in landed /\ r \in Confirming /\ UNCHANGED landed
      BY <1>1, <1>12, <2>2 DEF Verify, upi
    <3> QED
      BY <1>3, <1>6, <1>12, <3>1 DEF Own, Verify
  <2> QED
    BY <2>1, <2>2
<1>13. CASE Settle(q)
  BY <1>1, <1>3, <1>6, <1>13 DEF Own, Settle
<1>14. ASSUME NEW u, NEW a, NEW k, StartTopUp(q, u, a, k)
       PROVE  Own(q)'
  BY <1>0, <1>14 DEF StartTopUp, Own
<1>15. ASSUME NEW t \in TopUps, NEW ref \in Refs, ConfirmTopUp(q, t, ref)
       PROVE  Own(q)'
  <2>1. /\ proc'[q].pc = "setref" /\ proc'[q].tx = t /\ proc'[q].ref = ref
        /\ paid[ref] = t /\ t \in Used /\ UNCHANGED <<topups, paid>>
    BY <1>0, <1>15 DEF ConfirmTopUp, Used, upi
  <2> QED
    BY <2>1 DEF Own, Used
<1> QED
  BY <1>4, <1>7, <1>8, <1>9, <1>10, <1>11, <1>12, <1>13, <1>14, <1>15, OneHandlerMoves
     DEF RequestStep

LEMMA JobRowsStep ==
    ASSUME IType, [Next]_vars
    PROVE  JobRows'
<1>1. Used \subseteq Used'
  BY RowAdvances
<1>2. CASE job' = job \/ job' = Idle
  BY <1>1, <1>2 DEF IType, JobRows, Idle
<1>3. CASE ExpireList
  <2>1. PICK B \in Batched(Stale) : job' = [pc |-> "mark", todo |-> B, tx |-> "none"]
    BY <1>3 DEF ExpireList
  <2>2. B \subseteq Used
    BY <2>1 DEF Batched, Stale
  <2> QED
    BY <1>1, <2>1, <2>2 DEF JobRows
<1>4. CASE ExpireMark
  <2>1. PICK t \in job.todo : job' = [job EXCEPT !.pc = "unbump", !.tx = t]
    BY <1>4 DEF ExpireMark
  <2>2. job \in JobLocals /\ job.todo \subseteq Used
    BY <1>4, JobShapes DEF ExpireMark, IType, JobRows
  <2>3. job'.todo = job.todo /\ job'.tx = t
    BY <2>1, <2>2 DEF JobLocals
  <2> QED
    BY <1>1, <2>1, <2>2, <2>3 DEF JobRows
<1>5. ASSUME NEW t, NextRow(t), job.pc # "idle"
      PROVE  JobRows'
  <2>1. job.todo \subseteq Used
    BY <1>5 DEF IType, JobRows
  <2>2. job' = Idle \/ job' = [pc |-> "mark", todo |-> job.todo \ {t}, tx |-> "none"]
    BY <1>5 DEF NextRow
  <2> QED
    BY <1>1, <1>2, <2>1, <2>2 DEF JobRows
<1>6. CASE ExpireUnbump \/ ExpireSkip \/ ExpireAbort
  BY <1>2, <1>5, <1>6 DEF ExpireUnbump, ExpireSkip, ExpireAbort
<1>7. ASSUME NEW p \in Handlers, RequestStep(p) \/ Abort(p)
      PROVE  job' = job
  BY <1>7 DEF RequestStep, Check, Insert, Bump, Record, SetRef, Verify, Settle, Credit, Abort
<1>8. ASSUME NEW p \in Handlers, NEW u, NEW a, NEW k,
             StartTopUp(p, u, a, k) \/ ConfirmTopUp(p, u, a)
      PROVE  job' = job
  BY <1>8 DEF StartTopUp, ConfirmTopUp
<1>9. ASSUME NEW x, NEW y, Pay(x, y) \/ Land(x) \/ SetFrozen(x, y) \/ Age(x) \/ ExpireKey(x)
      PROVE  job' = job
  BY <1>9 DEF Pay, Land, SetFrozen, Age, ExpireKey
<1>10. UNCHANGED vars => job' = job
  BY DEF vars
<1> QED
  BY <1>2, <1>3, <1>4, <1>6, <1>7, <1>8, <1>9, <1>10 DEF Next

LEMMA ITypeStep == IType /\ [Next]_vars => IType'
<1> SUFFICES ASSUME IType, [Next]_vars PROVE IType'
  OBVIOUS
<1>1. TypeOK'
  BY NextType
<1>2. JobRows'
  BY JobRowsStep
<1>3. \A p \in Handlers : Own(p)'
  BY OwnStep
<1> QED
  BY <1>1, <1>2, <1>3 DEF IType

LEMMA ITypeAlways == Spec => []IType
<1>1. Init => IType
  BY InitType DEF IInv
<1> QED
  BY <1>1, ITypeStep, PTL DEF Spec

\* Columns and locals stay in range and available_paise is never negative,
\* whatever the constants.
THEOREM TypeCorrect == Spec => []TypeOK
<1>1. IType => TypeOK
  BY DEF IType
<1> QED
  BY <1>1, ITypeAlways, PTL

---------------------------------------------------------------------------
(* Rows.                                                                   *)

\* A settled top-up keeps its status and the reference a row has taken is
\* never replaced, however confirmations and the expirer interleave.
THEOREM RowsAdvance == Spec => RowsOnlyAdvance
<1> DEFINE Step == \A t \in Used :
                     /\ topups[t].status # "pending" => topups'[t].status = topups[t].status
                     /\ topups[t].ref # "none" => topups'[t].ref = topups[t].ref
<1>1. IType /\ [Next]_vars => [Step]_vars
  <2> SUFFICES ASSUME IType, [Next]_vars PROVE Step
    OBVIOUS
  <2> QED
    BY RowAdvances
<1>2. Spec => [][Step]_vars
  BY <1>1, ITypeAlways, PTL DEF Spec
<1> QED
  BY <1>2 DEF RowsOnlyAdvance

---------------------------------------------------------------------------
(* Credits.                                                                *)

\* The step that credits a top-up.
LEMMA CreditSteps ==
    ASSUME IType, [Next]_vars, NEW t \in TopUps, credits'[t] # credits[t]
    PROVE  \E p \in Handlers : /\ Credit(p) /\ proc[p].tx = t
                               /\ credits'[t] = credits[t] + 1
<1>1. ASSUME NEW p \in Handlers, RequestStep(p)
      PROVE  Credit(p)
  BY <1>1 DEF RequestStep, Check, Insert, Bump, Record, SetRef, Verify, Settle, history
<1>2. ASSUME NEW p \in Handlers, NEW u, NEW a, NEW k,
             StartTopUp(p, u, a, k) \/ ConfirmTopUp(p, u, a) \/ Abort(p)
      PROVE  FALSE
  BY <1>2 DEF StartTopUp, ConfirmTopUp, Abort, history
<1>3. ASSUME ExpireList \/ ExpireMark \/ ExpireUnbump \/ ExpireSkip \/ ExpireAbort
      PROVE  FALSE
  BY <1>3 DEF ExpireList, ExpireMark, ExpireUnbump, ExpireSkip, ExpireAbort, history
<1>4. ASSUME NEW x, NEW y, Pay(x, y) \/ Land(x) \/ SetFrozen(x, y) \/ Age(x) \/ ExpireKey(x)
      PROVE  FALSE
  BY <1>4 DEF Pay, Land, SetFrozen, Age, ExpireKey, history
<1>5. ~UNCHANGED vars
  BY DEF vars, history
<1>6. PICK p \in Handlers : Credit(p)
  BY <1>1, <1>2, <1>3, <1>4, <1>5 DEF Next
<1> QED
  BY <1>6 DEF Credit, IType, TypeOK

LEMMA NothingForNothingStep ==
    ASSUME IType, NothingForNothing, [Next]_vars
    PROVE  NothingForNothing'
<1> SUFFICES ASSUME NEW t \in TopUps, credits'[t] > 0 \/ topups'[t].status = "succeeded"
             PROVE  topups'[t].ref \in landed' /\ paid'[topups'[t].ref] = t
  BY DEF NothingForNothing
<1>1. CASE topups[t].ref \in landed /\ paid[topups[t].ref] = t
  <2>1. topups[t].ref \in Refs /\ topups[t].ref # "none" /\ t # "none" /\ t \in Used
    BY <1>1, TopUpConstants DEF IType, TypeOK, TopUpConstants, FreeRow, Used, TopUpRow
  <2>2. topups'[t].ref = topups[t].ref
    BY <2>1, RowAdvances
  <2> QED
    BY <1>1, <2>1, <2>2, UpiGrows
<1>2. ASSUME NEW p \in Handlers, Settle(p) \/ Credit(p), proc[p].tx = t
      PROVE  topups[t].ref \in landed /\ paid[topups[t].ref] = t
  BY <1>2 DEF IType, Own, Settle, Credit
<1>3. CASE credits'[t] # credits[t]
  BY <1>1, <1>2, <1>3, CreditSteps
<1>4. CASE credits'[t] = credits[t] /\ topups'[t].status = "succeeded"
           /\ topups[t].status # "succeeded"
  <2>1. t \in Used
    <3>1. t \in Used'
      BY <1>4 DEF Used
    <3> QED
      BY <1>4, <3>1, NewRow
  <2>2. \E p \in Handlers : Settle(p) /\ proc[p].tx = t
    BY <1>4, <2>1, RowAdvances
  <2> QED
    BY <1>1, <1>2, <2>2
<1>5. CASE credits[t] > 0 \/ topups[t].status = "succeeded"
  BY <1>1, <1>5 DEF NothingForNothing
<1> QED
  BY <1>3, <1>4, <1>5

\* A top-up is reported as succeeded, or credited, only for a UPI payment that
\* was made for it and has reached the bank.
THEOREM NothingIsFree == Spec => []NothingForNothing
<1>1. Init => NothingForNothing
  BY InitType DEF IInv
<1>2. IType /\ NothingForNothing /\ [Next]_vars => NothingForNothing'
  BY NothingForNothingStep
<1> QED
  BY <1>1, <1>2, ITypeAlways, PTL DEF Spec

LEMMA LostGrows ==
    ASSUME IType, [Next]_vars
    PROVE  lost \subseteq lost'
<1>1. ASSUME NEW p \in Handlers, RequestStep(p) \/ Abort(p)
      PROVE  lost \subseteq lost'
  BY <1>1 DEF RequestStep, Check, Insert, Bump, Record, SetRef, Verify, Settle, Credit, Abort,
     history
<1>2. ASSUME NEW p \in Handlers, NEW u, NEW a, NEW k,
             StartTopUp(p, u, a, k) \/ ConfirmTopUp(p, u, a)
      PROVE  lost' = lost
  BY <1>2 DEF StartTopUp, ConfirmTopUp, history
<1>3. ASSUME ExpireList \/ ExpireMark \/ ExpireUnbump \/ ExpireSkip \/ ExpireAbort
      PROVE  lost' = lost
  BY <1>3 DEF ExpireList, ExpireMark, ExpireUnbump, ExpireSkip, ExpireAbort, history
<1>4. ASSUME NEW x, NEW y, Pay(x, y) \/ Land(x) \/ SetFrozen(x, y) \/ Age(x) \/ ExpireKey(x)
      PROVE  lost' = lost
  BY <1>4 DEF Pay, Land, SetFrozen, Age, ExpireKey, history
<1>5. UNCHANGED vars => lost' = lost
  BY DEF vars, history
<1> QED
  BY <1>1, <1>2, <1>3, <1>4, <1>5 DEF Next

LEMMA CreditFollowsStep ==
    ASSUME IType, CreditFollows, [Next]_vars
    PROVE  CreditFollows'
<1> SUFFICES ASSUME NEW t \in TopUps, topups'[t].status = "succeeded", credits'[t] = 0
             PROVE  \/ t \in lost'
                    \/ \E p \in Handlers : proc'[p].pc = "credit" /\ proc'[p].tx = t
  BY DEF CreditFollows, Used
<1>1. t \in Used
  <2>1. t \in Used'
    BY DEF Used
  <2> QED
    BY <2>1, NewRow
<1>2. credits[t] = 0
  <2>1. credits[t] \in Nat
    BY DEF IType, TypeOK
  <2>2. CASE credits'[t] # credits[t]
    BY <2>1, <2>2, CreditSteps
  <2> QED
    BY <2>2
<1>3. CASE topups[t].status # "succeeded"
  <2>1. PICK p \in Handlers : Settle(p) /\ proc[p].tx = t
    BY <1>1, <1>3, RowAdvances
  <2>2. proc[p] \in Confirming
    BY <2>1, Shapes DEF Settle, IType
  <2>3. proc'[p].pc = "credit" /\ proc'[p].tx = t
    BY <2>1, <2>2 DEF Settle, Goto, Confirming, IType, TypeOK
  <2> QED
    BY <2>3
<1>4. CASE t \in lost
  <2>1. lost \subseteq lost'
    BY LostGrows
  <2> QED
    BY <1>4, <2>1
<1>5. CASE topups[t].status = "succeeded" /\ t \notin lost
  <2>1. PICK p \in Handlers : proc[p].pc = "credit" /\ proc[p].tx = t
    BY <1>1, <1>2, <1>5 DEF CreditFollows
  <2>2. CASE proc'[p] = proc[p]
    BY <2>1, <2>2
  <2>3. CASE proc'[p] # proc[p]
    <3>1. Credit(p) \/ Abort(p)
      BY <2>1, <2>3, OneHandlerMoves DEF RequestStep, Check, Insert, Bump, Record, SetRef,
         Verify, Settle, StartTopUp, ConfirmTopUp
    <3>2. CASE Credit(p)
      <4>1. credits'[t] = credits[t] + 1
        BY <2>1, <3>2 DEF Credit, IType, TypeOK
      <4> QED
        BY <1>2, <4>1
    <3>3. CASE Abort(p)
      BY <2>1, <3>3 DEF Abort
    <3> QED
      BY <3>1, <3>2, <3>3
  <2> QED
    BY <2>2, <2>3
<1> QED
  BY <1>3, <1>4, <1>5

\* A succeeded top-up is credited, or about to be, unless its handler died in
\* between: no order of confirmations and expiries loses the credit by itself.
THEOREM CreditsFollow == Spec => []CreditFollows
<1>1. Init => CreditFollows
  BY DEF Init, CreditFollows, Used, FreeRow
<1>2. IType /\ CreditFollows /\ [Next]_vars => CreditFollows'
  BY CreditFollowsStep
<1> QED
  BY <1>1, <1>2, ITypeAlways, PTL DEF Spec

---------------------------------------------------------------------------
(* How often a top-up is credited.                                         *)

\* The confirmations of a top-up that have read its row as pending.
ConfirmPcs == {"setref", "verify", "settle", "credit"}
Confirms(t) == {p \in Handlers : proc[p].pc \in ConfirmPcs /\ proc[p].tx = t}
Settled(t) == topups[t].status \in {"succeeded", "failed"}

\* A top-up is credited no more often than handlers serve at once: a repeated or
\* retried ConfirmTopUp doubles the credit only while another one is under way.
CreditsBounded == \A t \in TopUps : credits[t] <= Cardinality(Handlers)

CreditsLeft ==
    /\ \A t \in TopUps : Settled(t) => credits[t] + Cardinality(Confirms(t)) <= Cardinality(Handlers)
    /\ \A t \in TopUps : ~Settled(t) => credits[t] = 0
    /\ \A p \in Handlers : proc[p].pc = "credit" => Settled(proc[p].tx)

LEMMA SettledStays ==
    ASSUME IType, [Next]_vars, NEW t \in TopUps, Settled(t)
    PROVE  Settled(t)'
<1>1. t \in Used /\ topups[t].status # "pending"
  BY DEF Settled, Used
<1>2. topups'[t].status = topups[t].status
  BY <1>1, RowAdvances
<1> QED
  BY <1>2 DEF Settled

\* Nobody starts to confirm a settled top-up.
LEMMA NoNewConfirms ==
    ASSUME IType, [Next]_vars, NEW t \in TopUps, Settled(t)
    PROVE  Confirms(t)' \subseteq Confirms(t)
<1> SUFFICES ASSUME NEW p \in Handlers, proc'[p].pc \in ConfirmPcs, proc'[p].tx = t
             PROVE  proc[p].pc \in ConfirmPcs /\ proc[p].tx = t
  BY DEF Confirms
<1>0. proc \in [Handlers -> Locals]
  BY DEF IType, TypeOK
<1>1. CASE proc'[p] = proc[p]
  BY <1>1
<1>2. ASSUME NEW u, NEW a, NEW k, StartTopUp(p, u, a, k)
      PROVE  FALSE
  BY <1>0, <1>2 DEF StartTopUp, ConfirmPcs
<1>3. ASSUME NEW x, NEW ref, ConfirmTopUp(p, x, ref)
      PROVE  FALSE
  BY <1>0, <1>3 DEF ConfirmTopUp, Settled
<1>4. ~Return(p)
  BY <1>0 DEF Return, Idle, ConfirmPcs
<1>5. ~Insert(p)
  <2> SUFFICES ASSUME Insert(p) PROVE FALSE
    OBVIOUS
  <2>1. PICK x \in TopUps \ Used : proc' = [proc EXCEPT ![p] = [proc[p] EXCEPT !.pc = "bump", !.tx = x]]
    BY DEF Insert
  <2>2. proc[p] \in Starting
    BY Shapes DEF Insert, IType
  <2>3. proc'[p].pc = "bump"
    BY <1>0, <2>1, <2>2 DEF Starting
  <2> QED
    BY <2>3 DEF ConfirmPcs
<1>6. ~Check(p) /\ ~Bump(p)
  <2> SUFFICES ASSUME Check(p) \/ Bump(p) PROVE FALSE
    OBVIOUS
  <2>1. proc[p] \in Starting /\ (Goto(p, "insert") \/ Goto(p, "record"))
    BY <1>4, Shapes DEF Check, Bump, IType
  <2>2. proc'[p].pc \in {"insert", "record"}
    BY <1>0, <2>1 DEF Goto, Starting
  <2> QED
    BY <2>2 DEF ConfirmPcs
<1>7. SetRef(p) \/ Verify(p) \/ Settle(p) => proc[p].pc \in ConfirmPcs /\ proc[p].tx = t
  <2> SUFFICES ASSUME SetRef(p) \/ Verify(p) \/ Settle(p)
               PROVE  proc[p].pc \in ConfirmPcs /\ proc[p].tx = t
    OBVIOUS
  <2>1. /\ proc[p] \in Confirming
        /\ Goto(p, "verify") \/ Goto(p, "settle") \/ Goto(p, "credit")
    BY <1>4, Shapes DEF SetRef, Verify, Settle, IType
  <2>2. proc'[p].tx = proc[p].tx
    BY <1>0, <2>1 DEF Goto, Confirming
  <2> QED
    BY <2>1, <2>2 DEF Confirming, ConfirmPcs
<1>8. ~Record(p) /\ ~Credit(p) /\ ~Abort(p)
  BY <1>4 DEF Record, Credit, Abort
<1> QED
  BY <1>1, <1>2, <1>3, <1>5, <1>6, <1>7, <1>8, OneHandlerMoves DEF RequestStep

LEMMA CreditComesAfter ==
    ASSUME IType, CreditsLeft, [Next]_vars, NEW p \in Handlers, proc'[p].pc = "credit"
    PROVE  Settled(proc[p].tx)'
<1>0. proc \in [Handlers -> Locals]
  BY DEF IType, TypeOK
<1>1. CASE proc'[p] = proc[p]
  <2>1. proc[p].tx \in TopUps
    BY <1>1, Shapes DEF IType, Confirming
  <2>2. Settled(proc[p].tx)
    BY <1>1 DEF CreditsLeft
  <2> QED
    BY <1>1, <2>1, <2>2, RowAdvances DEF Settled, Used
<1>2. CASE Settle(p)
  <2>1. proc[p] \in Confirming /\ proc[p].tx \in Used
    BY <1>2, Shapes DEF Settle, IType, Own
  <2>2. proc'[p].tx = proc[p].tx
    BY <1>0, <1>2, <2>1 DEF Settle, Goto, Confirming
  <2>3. /\ proc[p].tx \in TopUps /\ topups' = MarkSettled(topups, proc[p].tx, "succeeded")
        /\ topups[proc[p].tx] \in TopUpRow
    BY <1>2, <2>1 DEF Settle, Used, IType, TypeOK, FreeRow
  <2>4. topups'[proc[p].tx].status \in {"succeeded", "failed"}
    <3>1. CASE topups[proc[p].tx].status = "pending"
      BY <2>3, <3>1, MarkSettledRow DEF IType
    <3>2. CASE topups[proc[p].tx].status # "pending"
      <4>1. topups' = topups
        BY <2>3, <3>2, MarkSettledRow DEF IType
      <4> QED
        BY <2>3, <3>2, <4>1 DEF TopUpRow
    <3> QED
      BY <3>1, <3>2
  <2> QED
    BY <2>2, <2>4 DEF Settled
<1>3. CASE ~Settle(p) /\ proc'[p] # proc[p]
  <2>1. ASSUME NEW u, NEW a, NEW k, StartTopUp(p, u, a, k) \/ ConfirmTopUp(p, u, a)
        PROVE  FALSE
    BY <1>0, <2>1 DEF StartTopUp, ConfirmTopUp
  <2>2. ~Return(p)
    BY <1>0 DEF Return, Idle
  <2>3. ~Record(p) /\ ~Credit(p) /\ ~Abort(p)
    BY <2>2 DEF Record, Credit, Abort
  <2>4. ~Insert(p)
    <3> SUFFICES ASSUME Insert(p) PROVE FALSE
      OBVIOUS
    <3>1. PICK x \in TopUps \ Used : proc' = [proc EXCEPT ![p] = [proc[p] EXCEPT !.pc = "bump", !.tx = x]]
      BY DEF Insert
    <3>2. proc[p] \in Starting
      BY Shapes DEF Insert, IType
    <3> QED
      BY <1>0, <3>1, <3>2 DEF Starting
  <2>5. ~Check(p) /\ ~Bump(p) /\ ~SetRef(p) /\ ~Verify(p)
    <3> SUFFICES ASSUME Check(p) \/ Bump(p) \/ SetRef(p) \/ Verify(p) PROVE FALSE
      OBVIOUS
    <3>1. /\ proc[p] \in Starting \cup Confirming
          /\ Goto(p, "insert") \/ Goto(p, "record") \/ Goto(p, "verify") \/ Goto(p, "settle")
      BY <2>2, Shapes DEF Check, Bump, SetRef, Verify, IType
    <3> QED
      BY <1>0, <3>1 DEF Goto, Starting, Confirming
  <2> QED
    BY <1>3, <2>1, <2>3, <2>4, <2>5, OneHandlerMoves DEF RequestStep
<1> QED
  BY <1>1, <1>2, <1>3

LEMMA CreditsLeftStep ==
    ASSUME IsFiniteSet(Handlers), IType, CreditsLeft, [Next]_vars
    PROVE  CreditsLeft'
<1>0. credits \in [TopUps -> Nat] /\ Cardinality(Handlers) \in Nat
  BY FS_CardinalityType DEF IType, TypeOK
<1>1. \A p \in Handlers : (proc[p].pc = "credit" => Settled(proc[p].tx))'
  BY CreditComesAfter
<1>2. ASSUME NEW t \in TopUps, ~Settled(t), credits'[t] # credits[t]
      PROVE  FALSE
  <2>1. PICK p \in Handlers : Credit(p) /\ proc[p].tx = t
    BY <1>2, CreditSteps
  <2> QED
    BY <1>2, <2>1 DEF Credit, CreditsLeft
<1>3. ASSUME NEW t \in TopUps, ~Settled(t)'
      PROVE  credits'[t] = 0
  BY <1>2, <1>3, SettledStays DEF CreditsLeft
<1>4. ASSUME NEW t \in TopUps, Settled(t)'
      PROVE  credits'[t] + Cardinality(Confirms(t)') <= Cardinality(Handlers)
  <2>0. /\ Confirms(t) \subseteq Handlers /\ Confirms(t)' \subseteq Handlers
        /\ IsFiniteSet(Confirms(t)) /\ IsFiniteSet(Confirms(t)')
        /\ Cardinality(Confirms(t)) \in Nat /\ Cardinality(Confirms(t)') \in Nat
        /\ Cardinality(Confirms(t)') <= Cardinality(Handlers)
    <3>1. Confirms(t) \subseteq Handlers /\ Confirms(t)' \subseteq Handlers
      BY DEF Confirms
    <3> QED
      BY <3>1, FS_Subset, FS_CardinalityType
  <2>1. CASE ~Settled(t)
    <3>1. credits'[t] = 0
      BY <1>2, <2>1 DEF CreditsLeft
    <3> QED
      BY <1>0, <2>0, <3>1
  <2>2. CASE Settled(t)
    <3>1. credits[t] + Cardinality(Confirms(t)) <= Cardinality(Handlers)
      BY <2>2 DEF CreditsLeft
    <3>2. Confirms(t)' \subseteq Confirms(t)
      BY <2>2, NoNewConfirms
    <3>3. CASE credits'[t] = credits[t]
      <4>1. Cardinality(Confirms(t)') <= Cardinality(Confirms(t))
        BY <2>0, <3>2, FS_Subset
      <4> QED
        BY <1>0, <2>0, <3>1, <3>3, <4>1
    <3>4. CASE credits'[t] # credits[t]
      <4>1. PICK p \in Handlers : Credit(p) /\ proc[p].tx = t /\ credits'[t] = credits[t] + 1
        BY <3>4, CreditSteps
      <4>2. p \in Confirms(t) /\ p \notin Confirms(t)'
        BY <4>1 DEF Credit, Return, Confirms, ConfirmPcs, Idle, IType, TypeOK
      <4>3. Cardinality(Confirms(t) \ {p}) = Cardinality(Confirms(t)) - 1
        BY <2>0, <4>2, FS_RemoveElement
      <4>4. Cardinality(Confirms(t)') <= Cardinality(Confirms(t) \ {p})
        <5>1. Confirms(t)' \subseteq Confirms(t) \ {p} /\ IsFiniteSet(Confirms(t) \ {p})
          BY <2>0, <3>2, <4>2, FS_RemoveElement
        <5> QED
          BY <5>1, FS_Subset
      <4> QED
        BY <1>0, <2>0, <3>1, <4>1, <4>3, <4>4
    <3> QED
      BY <3>3, <3>4
  <2> QED
    BY <2>1, <2>2
<1> QED
  BY <1>1, <1>3, <1>4 DEF CreditsLeft

LEMMA CreditsLeftInit == IsFiniteSet(Handlers) /\ Init => CreditsLeft
<1>1. ASSUME Init, NEW t \in TopUps
      PROVE  credits[t] = 0 /\ ~Settled(t)
  BY <1>1 DEF Init, Settled, FreeRow
<1>2. ASSUME Init, NEW p \in Handlers
      PROVE  proc[p].pc # "credit"
  BY <1>2 DEF Init, Idle
<1> QED
  BY <1>1, <1>2 DEF CreditsLeft

\* What the missing guard of MarkSettled costs at most: one credit for every
\* handler that had read the row as pending, never one for every call.
THEOREM CreditsStayBounded ==
    ASSUME IsFiniteSet(Handlers)
    PROVE  Spec => []CreditsBounded
<1>1. IType /\ CreditsLeft => CreditsBounded
  <2> SUFFICES ASSUME IType, CreditsLeft, NEW t \in TopUps
               PROVE  credits[t] <= Cardinality(Handlers)
    BY DEF CreditsBounded
  <2>1. credits[t] \in Nat /\ Cardinality(Handlers) \in Nat
    BY FS_CardinalityType DEF IType, TypeOK
  <2>2. Confirms(t) \subseteq Handlers
    BY DEF Confirms
  <2>3. Cardinality(Confirms(t)) \in Nat
    BY <2>2, FS_Subset, FS_CardinalityType
  <2>4. CASE Settled(t)
    BY <2>1, <2>3, <2>4 DEF CreditsLeft
  <2>5. CASE ~Settled(t)
    BY <2>1, <2>5 DEF CreditsLeft
  <2> QED
    BY <2>4, <2>5
<1> QED
  BY <1>1, CreditsLeftInit, CreditsLeftStep, ITypeAlways, PTL DEF Spec

\* The comment's promise holds where requests do not overlap: with one handler
\* a top-up is credited once, however often it is confirmed, retried after a
\* failure or met by the expirer.
THEOREM SerialCreditsOnce ==
    ASSUME IsFiniteSet(Handlers), Cardinality(Handlers) <= 1
    PROVE  Spec => []CreditedOnce
<1>1. IType /\ CreditsBounded => CreditedOnce
  <2> SUFFICES ASSUME IType, CreditsBounded, NEW t \in TopUps
               PROVE  credits[t] <= 1
    BY DEF CreditedOnce
  <2>1. credits[t] \in Nat /\ Cardinality(Handlers) \in Nat
    BY FS_CardinalityType DEF IType, TypeOK
  <2> QED
    BY <2>1 DEF CreditsBounded
<1> QED
  BY <1>1, CreditsStayBounded, ITypeAlways, PTL
=============================================================================
