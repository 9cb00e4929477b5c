------------------------- MODULE SocialGraphProofs -------------------------
(***************************************************************************)
(* Theorems of SocialGraph, for any users, clients, edge tables and bounds. *)
(***************************************************************************)
EXTENDS SocialGraph, FiniteSetTheorems, TLAPS

-----------------------------------------------------------------------------
(* Pairs and directions *)

LEMMA DirectionFacts ==
    ASSUME NEW d \in Directions
    PROVE  /\ d = <<d[1], d[2]>> /\ d[1] \in Users /\ d[2] \in Users /\ d[1] # d[2]
           /\ Pair(d) \in Pairs /\ Pair(d) = {d[1], d[2]}
           /\ Reverse(d) \in Directions /\ Reverse(d) = <<d[2], d[1]>>
           /\ Pair(Reverse(d)) = Pair(d)
           /\ BothWays(d) = {d, Reverse(d)} /\ BothWays(d) \subseteq Directions
BY DEF Directions, Graph!Directions, Pair, Graph!Pair, Pairs, Graph!Pairs,
       Reverse, Graph!Reverse, BothWays, Graph!BothWays

\* Two directions belong to the same pair when they are the same or opposite.
LEMMA SamePair ==
    ASSUME NEW d \in Directions, NEW e \in Directions
    PROVE  /\ Pair(d) = Pair(e) <=> d \in BothWays(e)
           /\ Pair(d) = Pair(e) => BothWays(d) = BothWays(e)
           /\ Pair(d) # Pair(e) => BothWays(d) \cap BothWays(e) = {}
<1>1. Pair(d) = Pair(e) <=> d = e \/ d = <<e[2], e[1]>>
  BY DirectionFacts
<1>2. Pair(d) = Pair(e) <=> d \in BothWays(e)
  BY <1>1, DirectionFacts
<1>3. ASSUME Pair(d) = Pair(e) PROVE BothWays(d) = BothWays(e)
  <2>1. CASE d = e
    BY <2>1
  <2>2. CASE d = <<e[2], e[1]>>
    <3>1. d = Reverse(e) /\ d[1] = e[2] /\ d[2] = e[1]
      BY <2>2, DirectionFacts
    <3>2. Reverse(d) = e
      BY <3>1, DirectionFacts
    <3> QED
      BY <3>1, <3>2, DirectionFacts
  <2> QED
    BY <1>1, <1>3, <2>1, <2>2
<1>4. ASSUME NEW x \in BothWays(d), x \in BothWays(e) PROVE Pair(d) = Pair(e)
  BY <1>4, DirectionFacts
<1> QED
  BY <1>2, <1>3, <1>4

LEMMA BlockedFacts ==
    ASSUME NEW d \in Directions
    PROVE  BlockedEitherWay(d) <=> BothWays(d) \cap blocks # {}
BY DEF BlockedEitherWay, Graph!BlockedEitherWay, BothWays

-----------------------------------------------------------------------------
(* Types *)

LEMMA LocalFacts ==
    ASSUME TypeOK, NEW c \in Clients, proc[c].pc # "idle"
    PROVE  /\ proc[c] \in Locals
           /\ proc[c].op \in Ops /\ proc[c].dir \in Directions /\ proc[c].rest \in 0..2
BY DEF TypeOK, Locals, Idle

\* What a request does next is typed, and holds no lock.
LEMMA NextTxFacts ==
    ASSUME NEW r \in Locals
    PROVE  /\ NextTx(r) \in Locals \cup {Idle}
           /\ NextTx(r).pc \notin {"guard", "commit"}
<1> /\ "follow" \in Ops /\ Reverse(r.dir) \in Directions
    /\ r.op \in Ops /\ r.dir \in Directions
  BY GraphConstants, DirectionFacts DEF GraphConstants, Ops, Locals
<1> 0 \in 0..2 /\ 1 \in 0..2
  OBVIOUS
<1>1. CASE r.rest = 2
  <2>a. [r EXCEPT !.pc = "begin"] \in Locals
    BY DEF Locals
  <2>b. [r EXCEPT !.pc = "begin", !.op = "follow"] \in Locals
    BY <2>a DEF Locals
  <2>1. [r EXCEPT !.pc = "begin", !.op = "follow", !.rest = 1] \in Locals
    BY <2>b DEF Locals
  <2>2. NextTx(r) = [r EXCEPT !.pc = "begin", !.op = "follow", !.rest = 1]
    BY <1>1 DEF NextTx
  <2>3. NextTx(r).pc \notin {"guard", "commit"}
    BY <2>2, Zenon DEF Locals
  <2> QED
    BY <2>1, <2>2, <2>3
<1>2. CASE r.rest = 1
  <2>a. [r EXCEPT !.pc = "begin"] \in Locals
    BY DEF Locals
  <2>1. [r EXCEPT !.pc = "begin", !.dir = Reverse(r.dir), !.rest = 0] \in Locals
    BY <2>a DEF Locals
  <2>2. NextTx(r) = [r EXCEPT !.pc = "begin", !.dir = Reverse(r.dir), !.rest = 0]
    BY <1>2 DEF NextTx
  <2>3. NextTx(r).pc \notin {"guard", "commit"}
    BY <2>2, Zenon DEF Locals
  <2> QED
    BY <2>1, <2>2, <2>3
<1>3. CASE r.rest = 0
  BY <1>3 DEF NextTx, Idle
<1> QED
  BY <1>1, <1>2, <1>3 DEF Locals

LEMMA PutType ==
    ASSUME TypeOK, NEW c \in Clients, NEW x \in Locals, proc' = [proc EXCEPT ![c] = x]
    PROVE  proc' \in [Clients -> Locals \cup {Idle}]
BY DEF TypeOK

LEMMA FinishType ==
    ASSUME TypeOK, NEW c \in Clients, proc[c].pc # "idle",
           Finish(c, proc[c]) \/ Refuse(c, proc[c])
    PROVE  lock' \in [Pairs -> Clients \cup {"free"}] /\ proc' \in [Clients -> Locals \cup {Idle}]
<1>1. proc[c] \in Locals /\ Pair(proc[c].dir) \in Pairs
  BY LocalFacts, DirectionFacts
<1>2. NextTx(proc[c]) \in Locals \cup {Idle}
  BY <1>1, NextTxFacts
<1> QED
  BY <1>1, <1>2 DEF TypeOK, Finish, Refuse, Release

LEMMA AnnounceType ==
    ASSUME TypeOK, NEW d \in Directions, NEW type \in Graph!EventTypes, Graph!Announce(type, d)
    PROVE  /\ log' \in [Pairs -> Seq(Graph!Events)]
           /\ log' = [log EXCEPT ![Pair(d)] = Append(log[Pair(d)], [type |-> type, dir |-> d])]
<1>1. log' = [log EXCEPT ![Pair(d)] = Append(log[Pair(d)], [type |-> type, dir |-> d])]
  BY DEF Graph!Announce, Pair
<1>2. [type |-> type, dir |-> d] \in Graph!Events
  BY DEF Graph!Events, Directions
<1>3. Pair(d) \in Pairs
  BY DirectionFacts
<1> QED
  BY <1>1, <1>2, <1>3 DEF TypeOK

LEMMA LogType ==
    ASSUME TypeOK, NEW d \in Directions, NEW type \in {"UserFollowed", "UserBlocked", "UserUnblocked"},
           Graph!Announce(type, d) \/ log' = log
    PROVE  log' \in [Pairs -> Seq(Graph!Events)]
<1>1. type \in Graph!EventTypes
  BY DEF Graph!EventTypes
<1>2. CASE Graph!Announce(type, d)
  BY <1>1, <1>2, AnnounceType
<1> QED
  BY <1>2 DEF TypeOK

LEMMA InitType == Init => TypeOK
BY GraphConstants DEF Init, TypeOK, Statuses, Idle, GraphConstants

LEMMA StartType ==
    ASSUME TypeOK, NEW c \in Clients, NEW d \in Directions, Request(c, d)
    PROVE  TypeOK'
<1>1. ASSUME NEW pc \in {"reverse", "begin"}, NEW op \in Ops, NEW rest \in 0..2,
             Start(c, pc, op, d, rest)
      PROVE  TypeOK'
  <2>1. [pc |-> pc, op |-> op, dir |-> d, rest |-> rest] \in Locals
    BY DEF Locals
  <2> QED
    BY <1>1, <2>1 DEF TypeOK, Start, tables
<1>2. /\ Kinds \subseteq Ops /\ {"request", "accept", "block", "unblock"} \subseteq Ops
      /\ 0 \in 0..2 /\ 2 \in 0..2
  BY DEF Ops
<1>3. CASE \E kind \in Kinds : AddEdge(c, kind, d)
  BY <1>1, <1>2, <1>3 DEF AddEdge
<1>4. CASE AddCloseFriend(c, d)
  BY <1>1, <1>2, <1>4 DEF AddCloseFriend
<1>5. CASE SendConnectionRequest(c, d)
  BY <1>1, <1>2, <1>5 DEF SendConnectionRequest
<1>6. CASE AcceptConnectionRequest(c, d)
  BY <1>1, <1>2, <1>6 DEF AcceptConnectionRequest
<1>7. CASE Block(c, d)
  BY <1>1, <1>2, <1>7 DEF Block
<1>8. CASE Unblock(c, d)
  BY <1>1, <1>2, <1>8 DEF Unblock
<1> QED
  BY <1>3, <1>4, <1>5, <1>6, <1>7, <1>8 DEF Request

LEMMA StepType ==
    ASSUME TypeOK, NEW c \in Clients, Step(c)
    PROVE  TypeOK'
<1> DEFINE r == proc[c]
<1>0. /\ r.pc # "idle" /\ r \in Locals /\ r.op \in Ops /\ r.dir \in Directions
      /\ Reverse(r.dir) \in Directions /\ Pair(r.dir) \in Pairs
  <2>1. r.pc # "idle"
    BY DEF Step, CheckReverse, LockPair, Guard, CommitEdge, CommitRequest, CommitAccept,
           CommitBlock, CommitUnblock, Abort
  <2> QED
    BY <2>1, LocalFacts, DirectionFacts
<1> HIDE DEF r
<1>1. CASE CheckReverse(c)
  <2>1. /\ [r EXCEPT !.pc = "begin", !.op = "accept", !.dir = Reverse(r.dir)] \in Locals
        /\ [r EXCEPT !.pc = "begin"] \in Locals
    BY <1>0 DEF Locals, Ops
  <2>2. proc' \in [Clients -> Locals \cup {Idle}]
    BY <1>1, <2>1 DEF CheckReverse, TypeOK, r
  <2> QED
    BY <1>1, <2>2 DEF CheckReverse, TypeOK, tables
<1>2. CASE LockPair(c)
  <2>1. [r EXCEPT !.pc = "guard"] \in Locals /\ [r EXCEPT !.pc = "commit"] \in Locals
    BY <1>0 DEF Locals
  <2>2. \/ proc' = [proc EXCEPT ![c] = [r EXCEPT !.pc = "guard"]]
        \/ proc' = [proc EXCEPT ![c] = [r EXCEPT !.pc = "commit"]]
    BY <1>2 DEF LockPair, r
  <2>3. proc' \in [Clients -> Locals \cup {Idle}]
    <3>1. CASE proc' = [proc EXCEPT ![c] = [r EXCEPT !.pc = "guard"]]
      BY <2>1, <3>1, PutType
    <3>2. CASE proc' = [proc EXCEPT ![c] = [r EXCEPT !.pc = "commit"]]
      BY <2>1, <3>2, PutType
    <3> QED
      BY <2>2, <3>1, <3>2
  <2>4. lock' \in [Pairs -> Clients \cup {"free"}]
    BY <1>0, <1>2 DEF LockPair, TypeOK, r
  <2> QED
    BY <1>2, <2>3, <2>4 DEF LockPair, TypeOK, tables
<1>3. CASE Guard(c)
  <2>1. CASE BlockedEitherWay(r.dir)
    BY <1>0, <1>3, <2>1, FinishType DEF Guard, TypeOK, tables, r
  <2>2. CASE ~BlockedEitherWay(r.dir)
    <3>1. [r EXCEPT !.pc = "commit"] \in Locals
      BY <1>0 DEF Locals
    <3>2. proc' = [proc EXCEPT ![c] = [r EXCEPT !.pc = "commit"]] /\ UNCHANGED <<lock, tables>>
      BY <1>3, <2>2 DEF Guard, r
    <3> QED
      BY <3>1, <3>2 DEF TypeOK, tables
  <2> QED
    BY <2>1, <2>2
<1>4. CASE CommitEdge(c)
  <2>1. <<r.op, r.dir[1], r.dir[2]>> \in {<<k, d[1], d[2]>> : k \in Kinds, d \in Directions}
    BY <1>0, <1>4 DEF CommitEdge, r
  <2>2. edges' \subseteq {<<k, d[1], d[2]>> : k \in Kinds, d \in Directions}
    BY <1>4, <2>1 DEF CommitEdge, TypeOK, r
  <2>3. Graph!Announce("UserFollowed", r.dir) \/ log' = log
    BY <1>4 DEF CommitEdge, r
  <2>4. log' \in [Pairs -> Seq(Graph!Events)]
    BY <1>0, <2>3, LogType
  <2> QED
    BY <1>0, <1>4, <2>2, <2>4, FinishType DEF CommitEdge, TypeOK, r
<1>5. CASE CommitRequest(c)
  <2>1. requests' \in [Directions -> Statuses]
    BY <1>0, <1>5 DEF CommitRequest, TypeOK, Statuses, r
  <2> QED
    BY <1>0, <1>5, <2>1, FinishType DEF CommitRequest, TypeOK, r
<1>6. CASE CommitAccept(c)
  <2>a. \/ requests' = [requests EXCEPT ![r.dir] = "accepted"]
        \/ requests' = requests
    BY <1>6 DEF CommitAccept, r
  <2>b. requests \in [Directions -> Statuses] /\ "accepted" \in Statuses
    BY DEF TypeOK, Statuses
  <2>1. requests' \in [Directions -> Statuses]
    BY <1>0, <2>a, <2>b
  <2>2. connections' \subseteq Pairs
    BY <1>0, <1>6 DEF CommitAccept, TypeOK, r
  <2>3. friendCount' \in [Users -> Nat]
    BY <1>0, <1>6 DEF CommitAccept, TypeOK, r
  <2>4. lock' \in [Pairs -> Clients \cup {"free"}] /\ proc' \in [Clients -> Locals \cup {Idle}]
    BY <1>0, <1>6, FinishType DEF CommitAccept, r
  <2> QED
    BY <1>6, <2>1, <2>2, <2>3, <2>4 DEF CommitAccept, TypeOK
<1>7. CASE CommitBlock(c)
  <2>1. requests' \in [Directions -> Statuses]
    BY <1>7 DEF CommitBlock, TypeOK, Statuses
  <2>4. Graph!Announce("UserBlocked", r.dir) \/ log' = log
    BY <1>7 DEF CommitBlock, r
  <2>2. log' \in [Pairs -> Seq(Graph!Events)]
    BY <1>0, <2>4, LogType
  <2>3. blocks' \subseteq Directions
    BY <1>0, <1>7 DEF CommitBlock, TypeOK, r
  <2> QED
    BY <1>0, <1>7, <2>1, <2>2, <2>3, FinishType DEF CommitBlock, TypeOK, r
<1>8. CASE CommitUnblock(c)
  <2>2. Graph!Announce("UserUnblocked", r.dir) \/ log' = log
    BY <1>8 DEF CommitUnblock, r
  <2>1. log' \in [Pairs -> Seq(Graph!Events)]
    BY <1>0, <2>2, LogType
  <2> QED
    BY <1>0, <1>8, <2>1, FinishType DEF CommitUnblock, TypeOK, r
<1>9. CASE Abort(c)
  <2>1. lock' \in [Pairs -> Clients \cup {"free"}]
    BY <1>0, <1>9 DEF Abort, Release, TypeOK, r
  <2>2. proc' \in [Clients -> Locals \cup {Idle}] /\ UNCHANGED tables
    BY <1>9 DEF Abort, TypeOK, r
  <2> QED
    BY <2>1, <2>2 DEF TypeOK, tables
<1> QED
  BY <1>1, <1>2, <1>3, <1>4, <1>5, <1>6, <1>7, <1>8, <1>9 DEF Step

LEMMA UnlockedType ==
    ASSUME TypeOK, NEW d \in Directions, Unlocked(d)
    PROVE  TypeOK'
<1>1. CASE \E kind \in Kinds : RemoveEdge(kind, d)
  BY <1>1 DEF RemoveEdge, TypeOK
<1>2. CASE CloseRequest(d)
  BY <1>2 DEF CloseRequest, TypeOK, Statuses
<1>3. CASE RemoveConnection(d)
  <2>1. friendCount' \in [Users -> Nat]
    BY <1>3 DEF RemoveConnection, TypeOK
  <2>2. requests' \in [Directions -> Statuses]
    BY <1>3 DEF RemoveConnection, TypeOK, Statuses
  <2> QED
    BY <1>3, <2>1, <2>2 DEF RemoveConnection, TypeOK
<1> QED
  BY <1>1, <1>2, <1>3 DEF Unlocked

LEMMA NextType == TypeOK /\ [Next]_vars => TypeOK'
<1> SUFFICES ASSUME TypeOK, [Next]_vars PROVE TypeOK'
  OBVIOUS
<1>1. CASE UNCHANGED vars
  BY <1>1 DEF TypeOK, vars, tables
<1> QED
  BY <1>1, StartType, StepType, UnlockedType DEF Next

\* The tables, the logs, the locks and the requests keep their types.
THEOREM TypeCorrect == Spec => []TypeOK
<1> QED
  BY InitType, NextType, PTL DEF Spec

-----------------------------------------------------------------------------
(* The pair lock, and what it is for *)

Holding(c) == proc[c].pc \in {"guard", "commit"}

\* Who is past LockPair holds the lock of its pair,
LocksHeld == \A c \in Clients : Holding(c) => lock[Pair(proc[c].dir)] = c

\* so what Guard found is still true when the transaction commits.
GuardsHold == \A c \in Clients :
    proc[c].pc = "commit" /\ proc[c].op \notin {"block", "unblock"}
        => BothWays(proc[c].dir) \cap blocks = {}

\* NoEdgeAcrossBlock alone is not inductive: a commit that adds an edge keeps
\* it only because the guard's answer cannot have changed.
IInv == TypeOK /\ LocksHeld /\ GuardsHold /\ NoEdgeAcrossBlock

LEMMA LockTyped ==
    ASSUME TypeOK, NEW c \in Clients, proc[c].pc # "idle"
    PROVE  lock \in [Pairs -> Clients \cup {"free"}] /\ Pair(proc[c].dir) \in Pairs
BY LocalFacts, DirectionFacts DEF TypeOK

\* Two clients past the lock of one pair are one client.
LEMMA Exclusive ==
    ASSUME LocksHeld, NEW c \in Clients, NEW x \in Clients, Holding(c), Holding(x),
           Pair(proc[c].dir) = Pair(proc[x].dir)
    PROVE  c = x
BY DEF LocksHeld

\* A client's own step leaves the others where they are.
LEMMA OthersStay ==
    ASSUME TypeOK, NEW c \in Clients, Step(c) \/ \E d \in Directions : Request(c, d),
           NEW x \in Clients, x # c
    PROVE  proc'[x] = proc[x]
<1>1. CASE \E d \in Directions : Request(c, d)
  BY <1>1 DEF TypeOK, Request, AddEdge, AddCloseFriend, SendConnectionRequest,
              AcceptConnectionRequest, Block, Unblock, Start
<1>2. ASSUME Finish(c, proc[c]) \/ Refuse(c, proc[c]) PROVE proc'[x] = proc[x]
  BY <1>2 DEF TypeOK, Finish, Refuse
<1>3. CASE CheckReverse(c) \/ LockPair(c) \/ Abort(c)
  BY <1>3 DEF TypeOK, CheckReverse, LockPair, Abort
<1>4. CASE Guard(c)
  BY <1>2, <1>4 DEF TypeOK, Guard
<1>5. CASE CommitEdge(c) \/ CommitRequest(c) \/ CommitAccept(c) \/ CommitBlock(c) \/ CommitUnblock(c)
  BY <1>2, <1>5 DEF CommitEdge, CommitRequest, CommitAccept, CommitBlock, CommitUnblock
<1> QED
  BY <1>1, <1>3, <1>4, <1>5 DEF Step

\* A step of one client takes the lock it needs, keeps what it holds, or
\* releases it and is past its transaction.
LEMMA LockMoves ==
    ASSUME TypeOK, NEW c \in Clients, Step(c) \/ \E d \in Directions : Request(c, d)
    PROVE  \/ lock' = lock /\ ~Holding(c)'
           \/ lock' = lock /\ Holding(c) /\ proc'[c].dir = proc[c].dir
           \/ /\ proc[c].pc = "begin" /\ lock[Pair(proc[c].dir)] = "free"
              /\ proc'[c].dir = proc[c].dir
              /\ lock' = [lock EXCEPT ![Pair(proc[c].dir)] = c]
           \/ /\ Holding(c) /\ ~Holding(c)'
              /\ lock' = [lock EXCEPT ![Pair(proc[c].dir)] = "free"]
<1> USE DEF Holding
<1>0. proc[c].pc # "idle" => proc[c] \in Locals
  BY LocalFacts
<1>1. CASE \E d \in Directions : Request(c, d)
  <2>1. PICK pc \in {"reverse", "begin"}, op \in Ops, d \in Directions, rest \in 0..2 :
            Start(c, pc, op, d, rest)
    BY <1>1 DEF Request, AddEdge, AddCloseFriend, SendConnectionRequest,
                AcceptConnectionRequest, Block, Unblock, Ops
  <2>2. proc'[c].pc = pc
    BY <2>1 DEF Start, TypeOK
  <2> QED
    BY <2>1, <2>2 DEF Start
<1>2. CASE CheckReverse(c)
  <2>1. proc'[c].pc = "begin"
    BY <1>0, <1>2 DEF CheckReverse, TypeOK, Locals
  <2> QED
    BY <1>2, <2>1 DEF CheckReverse
<1>3. CASE LockPair(c)
  <2>1. proc'[c].dir = proc[c].dir
    BY <1>0, <1>3 DEF LockPair, TypeOK, Locals
  <2> QED
    BY <1>3, <2>1 DEF LockPair
<1>4. ASSUME Finish(c, proc[c]) \/ Refuse(c, proc[c]), Holding(c)
      PROVE  /\ ~Holding(c)'
             /\ lock' = [lock EXCEPT ![Pair(proc[c].dir)] = "free"]
  <2>1. NextTx(proc[c]).pc \notin {"guard", "commit"} /\ Idle.pc = "idle"
    BY <1>0, <1>4, NextTxFacts DEF Idle
  <2> QED
    BY <1>4, <2>1 DEF Finish, Refuse, Release, TypeOK
<1>5. CASE Guard(c)
  <2>1. CASE BlockedEitherWay(proc[c].dir)
    BY <1>4, <1>5, <2>1 DEF Guard
  <2>2. CASE ~BlockedEitherWay(proc[c].dir)
    <3>1. proc'[c].dir = proc[c].dir
      BY <1>0, <1>5, <2>2 DEF Guard, TypeOK, Locals
    <3> QED
      BY <1>5, <2>2, <3>1 DEF Guard
  <2> QED
    BY <2>1, <2>2
<1>6. CASE CommitEdge(c) \/ CommitRequest(c) \/ CommitAccept(c) \/ CommitBlock(c) \/ CommitUnblock(c)
  <2>1. (Finish(c, proc[c]) \/ Refuse(c, proc[c])) /\ Holding(c)
    BY <1>6 DEF CommitEdge, CommitRequest, CommitAccept, CommitBlock, CommitUnblock
  <2> QED
    BY <1>4, <2>1
<1>7. CASE Abort(c)
  <2>1. proc'[c].pc = "idle"
    BY <1>7 DEF Abort, TypeOK, Idle
  <2> QED
    BY <1>7, <2>1 DEF Abort, Release
<1> QED
  BY <1>1, <1>2, <1>3, <1>5, <1>6, <1>7 DEF Step

LEMMA LocksHeldKept ==
    ASSUME TypeOK, LocksHeld, NEW c \in Clients, Step(c) \/ \E d \in Directions : Request(c, d)
    PROVE  LocksHeld'
<1> SUFFICES ASSUME NEW x \in Clients, Holding(x)'
             PROVE  lock'[Pair(proc'[x].dir)] = x
  BY DEF LocksHeld
<1> USE DEF Holding
<1>1. CASE x = c
  BY <1>1, LockMoves, LockTyped DEF LocksHeld
<1>2. CASE x # c
  <2>1. proc'[x] = proc[x]
    BY <1>2, OthersStay
  <2>2. lock[Pair(proc[x].dir)] = x
    BY <2>1 DEF LocksHeld
  <2>3. x # "free"
    BY GraphConstants DEF GraphConstants
  <2> QED
    BY <1>2, <2>1, <2>2, <2>3, LockMoves, LockTyped DEF LocksHeld
<1> QED
  BY <1>1, <1>2

\* Only a holder of the pair's lock changes its blocks.
LEMMA BlocksMove ==
    ASSUME TypeOK, NEW c \in Clients, Step(c) \/ \E d \in Directions : Request(c, d),
           NEW b \in Directions, b \in blocks <=> b \notin blocks'
    PROVE  /\ CommitBlock(c) \/ CommitUnblock(c)
           /\ Holding(c) /\ proc[c].op \in {"block", "unblock"} /\ b = proc[c].dir
<1>1. CASE \E d \in Directions : Request(c, d)
  BY <1>1 DEF Request, AddEdge, AddCloseFriend, SendConnectionRequest,
              AcceptConnectionRequest, Block, Unblock, Start, tables
<1>2. CASE CommitBlock(c) \/ CommitUnblock(c)
  BY <1>2 DEF CommitBlock, CommitUnblock, Holding
<1>3. CASE CheckReverse(c) \/ LockPair(c) \/ Guard(c) \/ Abort(c)
  BY <1>3 DEF CheckReverse, LockPair, Guard, Abort, tables
<1>4. CASE CommitEdge(c) \/ CommitRequest(c) \/ CommitAccept(c)
  BY <1>4 DEF CommitEdge, CommitRequest, CommitAccept
<1> QED
  BY <1>1, <1>2, <1>3, <1>4 DEF Step

\* A request that has just become ready to commit was let through by Guard, or
\* needs no guard.
LEMMA ReadyToCommit ==
    ASSUME TypeOK, NEW c \in Clients, Step(c) \/ \E d \in Directions : Request(c, d),
           proc'[c].pc = "commit", proc'[c].op \notin {"block", "unblock"}
    PROVE  /\ BothWays(proc'[c].dir) \cap blocks = {}
           /\ blocks' = blocks
<1>0. proc[c].pc # "idle" => proc[c] \in Locals /\ proc[c].dir \in Directions
  BY LocalFacts
<1>1. CASE \E d \in Directions : Request(c, d)
  <2>1. PICK pc \in {"reverse", "begin"}, op \in Ops, d \in Directions, rest \in 0..2 :
            Start(c, pc, op, d, rest)
    BY <1>1 DEF Request, AddEdge, AddCloseFriend, SendConnectionRequest,
                AcceptConnectionRequest, Block, Unblock, Ops
  <2>2. proc'[c].pc = pc
    BY <2>1 DEF Start, TypeOK
  <2> QED
    BY <2>2
<1>2. CASE CheckReverse(c)
  BY <1>0, <1>2 DEF CheckReverse, TypeOK, Locals
<1>3. CASE LockPair(c)
  <2>1. CASE proc[c].op \in {"block", "unblock"}
    <3>1. proc'[c].op = proc[c].op
      BY <1>0, <1>3 DEF LockPair, TypeOK, Locals
    <3> QED
      BY <2>1, <3>1
  <2>2. CASE proc[c].op \notin {"block", "unblock"}
    BY <1>0, <1>3, <2>2 DEF LockPair, TypeOK, Locals
  <2> QED
    BY <2>1, <2>2
<1>4. ASSUME Finish(c, proc[c]) \/ Refuse(c, proc[c]), proc[c].pc # "idle"
      PROVE  FALSE
  <2>1. NextTx(proc[c]).pc \notin {"guard", "commit"} /\ Idle.pc = "idle"
    BY <1>0, <1>4, NextTxFacts DEF Idle
  <2> QED
    BY <1>4, <2>1 DEF Finish, Refuse, Release, TypeOK
<1>5. CASE Guard(c)
  <2>1. CASE BlockedEitherWay(proc[c].dir)
    BY <1>4, <1>5, <2>1 DEF Guard
  <2>2. CASE ~BlockedEitherWay(proc[c].dir)
    <3>1. proc'[c].dir = proc[c].dir /\ blocks' = blocks
      BY <1>0, <1>5, <2>2 DEF Guard, TypeOK, Locals, tables
    <3> QED
      BY <1>0, <1>5, <2>2, <3>1, BlockedFacts DEF Guard
  <2> QED
    BY <2>1, <2>2
<1>6. CASE CommitEdge(c) \/ CommitRequest(c) \/ CommitAccept(c) \/ CommitBlock(c) \/ CommitUnblock(c)
  <2>1. (Finish(c, proc[c]) \/ Refuse(c, proc[c])) /\ proc[c].pc # "idle"
    BY <1>6 DEF CommitEdge, CommitRequest, CommitAccept, CommitBlock, CommitUnblock
  <2> QED
    BY <1>4, <2>1
<1>7. CASE Abort(c)
  BY <1>7 DEF Abort, TypeOK, Idle
<1> QED
  BY <1>1, <1>2, <1>3, <1>5, <1>6, <1>7 DEF Step

LEMMA GuardsHoldKept ==
    ASSUME TypeOK, LocksHeld, GuardsHold, NEW c \in Clients,
           Step(c) \/ \E d \in Directions : Request(c, d)
    PROVE  GuardsHold'
<1> SUFFICES ASSUME NEW x \in Clients, proc'[x].pc = "commit", proc'[x].op \notin {"block", "unblock"}
             PROVE  BothWays(proc'[x].dir) \cap blocks' = {}
  BY DEF GuardsHold, BothWays, Graph!BothWays, Reverse, Graph!Reverse
<1>1. CASE x = c
  BY <1>1, ReadyToCommit
<1>2. CASE x # c
  <2>1. proc'[x] = proc[x] /\ Holding(x) /\ proc[x].pc = "commit"
    BY <1>2, OthersStay DEF Holding
  <2>2. BothWays(proc[x].dir) \cap blocks = {} /\ proc[x].dir \in Directions
    BY <2>1, LocalFacts DEF GuardsHold, Holding
  <2>3. BothWays(proc[x].dir) \subseteq Directions
    BY <2>2, DirectionFacts
  <2> SUFFICES ASSUME NEW b \in BothWays(proc[x].dir), b \in blocks' PROVE FALSE
    BY <2>1
  <2>4. b \in Directions /\ b \notin blocks
    BY <2>2, <2>3
  <2>5. Holding(c) /\ b = proc[c].dir
    BY <2>4, BlocksMove
  <2>6. Pair(proc[c].dir) = Pair(proc[x].dir)
    BY <2>2, <2>4, <2>5, SamePair
  <2> QED
    BY <1>2, <2>1, <2>5, <2>6, Exclusive
<1> QED
  BY <1>1, <1>2

\* What NoEdgeAcrossBlock asks of one direction.
Clear(d) == EdgesOf(d) = {} /\ Pair(d) \notin connections /\ requests[d] = "none"

LEMMA SeparatedFacts == NoEdgeAcrossBlock <=> \A d \in Directions : BlockedEitherWay(d) => Clear(d)
BY DEF NoEdgeAcrossBlock, Clear

\* An unlocked removal only removes.
LEMMA RemovalsKeep ==
    ASSUME TypeOK, NoEdgeAcrossBlock, NEW d \in Directions, Unlocked(d)
    PROVE  NoEdgeAcrossBlock'
<1> SUFFICES ASSUME NEW x \in Directions, BlockedEitherWay(x)'
             PROVE  EdgesOf(x)' = {} /\ Pair(x) \notin connections' /\ requests'[x] = "none"
  BY DEF NoEdgeAcrossBlock, Pair, Graph!Pair
<1>1. blocks' = blocks /\ edges' \subseteq edges /\ connections' \subseteq connections
  BY DEF Unlocked, RemoveEdge, CloseRequest, RemoveConnection
<1>2. EdgesOf(x) = {} /\ Pair(x) \notin connections /\ requests[x] = "none"
  BY <1>1, BlockedFacts DEF NoEdgeAcrossBlock, BlockedEitherWay, Graph!BlockedEitherWay
<1>3. EdgesOf(x)' = {}
  BY <1>1, <1>2 DEF EdgesOf
<1>4. requests'[x] = "none"
  BY <1>2 DEF Unlocked, RemoveEdge, CloseRequest, RemoveConnection, TypeOK
<1> QED
  BY <1>1, <1>2, <1>3, <1>4

\* A commit writes to a direction that no block touches, or blocks it and sweeps.
LEMMA CommitsKeep ==
    ASSUME TypeOK, GuardsHold, NoEdgeAcrossBlock, NEW c \in Clients, Step(c)
    PROVE  NoEdgeAcrossBlock'
<1> DEFINE r == proc[c]
<1> SUFFICES ASSUME NEW x \in Directions, BothWays(x) \cap blocks' # {}
             PROVE  EdgesOf(x)' = {} /\ Pair(x) \notin connections' /\ requests'[x] = "none"
  BY DEF NoEdgeAcrossBlock, Pair, Graph!Pair, BlockedEitherWay, Graph!BlockedEitherWay, BothWays
<1>0. BothWays(x) \cap blocks # {} => EdgesOf(x) = {} /\ Pair(x) \notin connections /\ requests[x] = "none"
  BY BlockedFacts DEF NoEdgeAcrossBlock
<1>1. CASE CheckReverse(c) \/ LockPair(c) \/ Guard(c) \/ Abort(c)
  <2>1. UNCHANGED tables
    BY <1>1 DEF CheckReverse, LockPair, Guard, Abort
  <2> QED
    BY <1>0, <2>1 DEF tables, EdgesOf
<1>2. ASSUME r.pc = "commit", r.op \notin {"block", "unblock"}, blocks' = blocks
      PROVE  r.dir \in Directions /\ r.dir \notin BothWays(x) /\ Pair(r.dir) # Pair(x)
  <2>1. BothWays(r.dir) \cap blocks = {} /\ r.dir \in Directions
    BY <1>2, LocalFacts DEF GuardsHold
  <2>2. Pair(r.dir) # Pair(x)
    BY <1>2, <2>1, SamePair
  <2> QED
    BY <2>1, <2>2, SamePair
<1>3. CASE CommitEdge(c)
  <2>1. r.dir \in Directions /\ r.dir \notin BothWays(x)
    BY <1>2, <1>3, GraphConstants DEF CommitEdge, GraphConstants
  <2>2. \A e \in edges' : e \in edges \/ <<e[2], e[3]>> = r.dir
    BY <1>3, <2>1, DirectionFacts DEF CommitEdge
  <2>3. EdgesOf(x)' = {}
    BY <1>0, <1>3, <2>1, <2>2 DEF CommitEdge, EdgesOf
  <2> QED
    BY <1>0, <1>3, <2>3 DEF CommitEdge
<1>4. CASE CommitRequest(c)
  <2>1. r.dir \in Directions /\ r.dir # x
    BY <1>2, <1>4 DEF CommitRequest
  <2>2. EdgesOf(x)' = {} /\ Pair(x) \notin connections'
    BY <1>0, <1>4 DEF CommitRequest, EdgesOf
  <2> QED
    BY <1>0, <1>4, <2>1, <2>2 DEF CommitRequest, TypeOK
<1>5. CASE CommitAccept(c)
  <2>1. r.dir \in Directions /\ r.dir # x /\ Pair(r.dir) # Pair(x)
    BY <1>2, <1>5 DEF CommitAccept
  <2>2. EdgesOf(x)' = {}
    BY <1>0, <1>5 DEF CommitAccept, EdgesOf
  <2> QED
    BY <1>0, <1>5, <2>1, <2>2 DEF CommitAccept, TypeOK
<1>6. CASE CommitBlock(c)
  <2>0. r.dir \in Directions
    BY <1>6, LocalFacts DEF CommitBlock
  <2>1. CASE Pair(x) = Pair(r.dir)
    <3>1. BothWays(x) = BothWays(r.dir) /\ x \in BothWays(r.dir)
      BY <2>0, <2>1, SamePair
    <3>2. edges' = edges \ EdgesOf(x)
      BY <1>6, <3>1 DEF CommitBlock, EdgesOf
    <3>3. EdgesOf(x)' = {}
      BY <3>2 DEF EdgesOf
    <3> QED
      BY <1>6, <2>1, <3>1, <3>3 DEF CommitBlock
  <2>2. CASE Pair(x) # Pair(r.dir)
    <3>1. BothWays(x) \cap blocks # {} /\ x \notin BothWays(r.dir)
      BY <1>6, <2>0, <2>2, SamePair DEF CommitBlock
    <3>2. EdgesOf(x)' = {}
      BY <1>0, <1>6, <3>1 DEF CommitBlock, EdgesOf
    <3> QED
      BY <1>0, <1>6, <3>1, <3>2 DEF CommitBlock
  <2> QED
    BY <2>1, <2>2
<1>7. CASE CommitUnblock(c)
  BY <1>0, <1>7 DEF CommitUnblock, EdgesOf
<1> QED
  BY <1>1, <1>3, <1>4, <1>5, <1>6, <1>7 DEF Step

LEMMA InitInv == Init => IInv
<1> SUFFICES ASSUME Init PROVE IInv
  OBVIOUS
<1>1. TypeOK
  BY InitType
<1>2. LocksHeld /\ GuardsHold
  BY DEF Init, LocksHeld, GuardsHold, Holding, Idle
<1>3. NoEdgeAcrossBlock
  BY DEF Init, NoEdgeAcrossBlock, EdgesOf, Pair, Graph!Pair
<1> QED
  BY <1>1, <1>2, <1>3 DEF IInv

LEMMA NextInv == IInv /\ [Next]_vars => IInv'
<1> SUFFICES ASSUME IInv, [Next]_vars PROVE IInv'
  OBVIOUS
<1> TypeOK /\ LocksHeld /\ GuardsHold /\ NoEdgeAcrossBlock
  BY DEF IInv
<1>1. TypeOK'
  BY NextType
<1>2. CASE UNCHANGED vars
  <2>1. UNCHANGED <<blocks, edges, connections, requests, lock, proc>>
    BY <1>2 DEF vars, tables
  <2>2. LocksHeld' /\ GuardsHold'
    BY <2>1 DEF LocksHeld, GuardsHold, Holding
  <2>3. NoEdgeAcrossBlock'
    BY <2>1 DEF NoEdgeAcrossBlock, EdgesOf, BlockedEitherWay, Graph!BlockedEitherWay
  <2> QED
    BY <1>1, <2>2, <2>3 DEF IInv
<1>3. ASSUME NEW c \in Clients, Step(c) \/ \E d \in Directions : Request(c, d) PROVE IInv'
  <2>1. LocksHeld' /\ GuardsHold'
    BY <1>3, LocksHeldKept, GuardsHoldKept
  <2>2. CASE Step(c)
    BY <1>1, <2>1, <2>2, CommitsKeep DEF IInv
  <2>3. CASE \E d \in Directions : Request(c, d)
    <3>1. UNCHANGED tables
      BY <2>3 DEF Request, AddEdge, AddCloseFriend, SendConnectionRequest,
                  AcceptConnectionRequest, Block, Unblock, Start
    <3>2. NoEdgeAcrossBlock'
      BY <3>1 DEF tables, NoEdgeAcrossBlock, EdgesOf, BlockedEitherWay, Graph!BlockedEitherWay
    <3> QED
      BY <1>1, <2>1, <3>2 DEF IInv
  <2> QED
    BY <1>3, <2>2, <2>3
<1>4. ASSUME NEW d \in Directions, Unlocked(d) PROVE IInv'
  <2>1. UNCHANGED <<blocks, lock, proc>>
    BY <1>4 DEF Unlocked, RemoveEdge, CloseRequest, RemoveConnection
  <2>2. LocksHeld' /\ GuardsHold'
    BY <2>1 DEF LocksHeld, GuardsHold, Holding
  <2> QED
    BY <1>1, <1>4, <2>2, RemovalsKeep DEF IInv
<1> QED
  BY <1>2, <1>3, <1>4 DEF Next

\* While either of two users blocks the other, no follow, close friend, circle,
\* favorite or label row, no connection and no request stands between them,
\* whatever unlocked removals, crashes and other requests come in between.
THEOREM Separated == Spec => []NoEdgeAcrossBlock
<1>1. IInv => NoEdgeAcrossBlock
  BY DEF IInv
<1> QED
  BY <1>1, InitInv, NextInv, PTL DEF Spec

-----------------------------------------------------------------------------
(* The transactions implement the pair log *)

LEMMA SeveredFacts ==
    ASSUME IInv, NEW d \in Directions, d \in blocks
    PROVE  ~Severed(d)
<1>1. d \in BothWays(d) /\ BothWays(d) \subseteq Directions /\ BothWays(Reverse(d)) = BothWays(d)
      /\ Reverse(d) \in BothWays(d)
  BY DirectionFacts, SamePair
<1>2. \A x \in BothWays(d) : BothWays(x) \cap blocks # {}
  BY <1>1, DirectionFacts
<1>3. \A x \in BothWays(d) : EdgesOf(x) = {} /\ Pair(x) \notin connections /\ requests[x] = "none"
  BY <1>1, <1>2, BlockedFacts DEF IInv, NoEdgeAcrossBlock
<1> QED
  BY <1>1, <1>3 DEF Severed

LEMMA StepRefines ==
    ASSUME IInv, [Next]_vars
    PROVE  [Graph!Next]_<<blocks, log>>
<1> TypeOK /\ GuardsHold
  BY DEF IInv
<1>1. CASE UNCHANGED vars
  BY <1>1 DEF vars, tables
<1>2. ASSUME NEW c \in Clients, NEW d \in Directions, Request(c, d)
      PROVE  UNCHANGED <<blocks, log>>
  BY <1>2 DEF Request, AddEdge, AddCloseFriend, SendConnectionRequest,
              AcceptConnectionRequest, Block, Unblock, Start, tables
<1>3. ASSUME NEW d \in Directions, Unlocked(d)
      PROVE  UNCHANGED <<blocks, log>>
  BY <1>3 DEF Unlocked, RemoveEdge, CloseRequest, RemoveConnection
<1>4. ASSUME NEW c \in Clients, Step(c)
      PROVE  [Graph!Next]_<<blocks, log>>
  <2> DEFINE r == proc[c]
  <2>1. CASE CheckReverse(c) \/ LockPair(c) \/ Guard(c) \/ Abort(c)
    BY <2>1 DEF CheckReverse, LockPair, Guard, Abort, tables
  <2>2. CASE CommitRequest(c) \/ CommitAccept(c)
    BY <2>2 DEF CommitRequest, CommitAccept
  <2>3. CASE CommitEdge(c)
    <3>1. r.dir \in Directions
      BY <2>3, LocalFacts DEF CommitEdge
    <3>2. BothWays(r.dir) \cap blocks = {}
      BY <2>3, GraphConstants DEF CommitEdge, GuardsHold, GraphConstants
    <3>3. CASE log' = log
      BY <2>3, <3>3 DEF CommitEdge
    <3>4. CASE Graph!Announce("UserFollowed", r.dir)
      <4>1. Graph!Followed(r.dir)
        BY <2>3, <3>2, <3>4 DEF CommitEdge, Graph!Followed, Graph!BlockedEitherWay, BothWays
      <4> QED
        BY <3>1, <4>1 DEF Graph!Next, Directions
    <3> QED
      BY <2>3, <3>3, <3>4 DEF CommitEdge
  <2>4. CASE CommitBlock(c)
    <3>1. r.dir \in Directions
      BY <2>4, LocalFacts DEF CommitBlock
    <3>2. CASE r.dir \in blocks
      BY <2>4, <3>1, <3>2, SeveredFacts DEF CommitBlock
    <3>3. CASE r.dir \notin blocks
      <4>1. Graph!Blocked(r.dir)
        BY <2>4, <3>3 DEF CommitBlock, Graph!Blocked
      <4> QED
        BY <3>1, <4>1 DEF Graph!Next, Directions
    <3> QED
      BY <3>2, <3>3
  <2>5. CASE CommitUnblock(c)
    <3>1. r.dir \in Directions
      BY <2>5, LocalFacts DEF CommitUnblock
    <3>2. CASE r.dir \notin blocks
      BY <2>5, <3>2 DEF CommitUnblock
    <3>3. CASE r.dir \in blocks
      <4>1. Graph!Unblocked(r.dir)
        BY <2>5, <3>3 DEF CommitUnblock, Graph!Unblocked
      <4> QED
        BY <3>1, <4>1 DEF Graph!Next, Directions
    <3> QED
      BY <3>2, <3>3
  <2> QED
    BY <1>4, <2>1, <2>2, <2>3, <2>4, <2>5 DEF Step
<1> QED
  BY <1>1, <1>2, <1>3, <1>4 DEF Next

\* Each change of a pair's blocks and each new follow is announced by exactly one
\* event, and none is announced that did not happen or that a block forbids.
THEOREM ImplementsPairLog == Spec => PairLogSpec
<1>1. Init => Graph!Init
  BY DEF Init, Graph!Init, Pairs
<1>2. IInv /\ [Next]_vars => [Graph!Next]_<<blocks, log>>
  BY StepRefines
<1> QED
  BY <1>1, <1>2, InitInv, NextInv, PTL DEF Spec, PairLogSpec, Graph!Spec

-----------------------------------------------------------------------------
(* Replaying the log *)

LEMMA ReplayAppend ==
    ASSUME NEW s \in Seq(Graph!Events), NEW e \in Graph!Events, NEW d \in Directions
    PROVE  Graph!BlockedBy(Append(s, e), d) <=>
               \/ e = [type |-> "UserBlocked", dir |-> d]
               \/ Graph!BlockedBy(s, d) /\ e # [type |-> "UserUnblocked", dir |-> d]
<1> DEFINE t == Append(s, e)
           n == Len(s)
<1>1. n \in Nat /\ Len(t) = n + 1 /\ t[n + 1] = e /\ \A i \in 1..n : t[i] = s[i]
  OBVIOUS
<1>2. [type |-> "UserBlocked", dir |-> d] # [type |-> "UserUnblocked", dir |-> d]
  OBVIOUS
<1> HIDE DEF t, n
<1>3. ASSUME e = [type |-> "UserBlocked", dir |-> d] PROVE Graph!BlockedBy(t, d)
  BY <1>1, <1>3 DEF Graph!BlockedBy
<1>4. ASSUME Graph!BlockedBy(s, d), e # [type |-> "UserUnblocked", dir |-> d]
      PROVE  Graph!BlockedBy(t, d)
  <2>1. PICK i \in 1..n : /\ s[i] = [type |-> "UserBlocked", dir |-> d]
                          /\ \A j \in i + 1..n : s[j] # [type |-> "UserUnblocked", dir |-> d]
    BY <1>4 DEF Graph!BlockedBy, n
  <2>2. \A j \in i + 1..n + 1 : t[j] # [type |-> "UserUnblocked", dir |-> d]
    BY <1>1, <1>4, <2>1
  <2> QED
    BY <1>1, <2>1, <2>2 DEF Graph!BlockedBy
<1>5. ASSUME Graph!BlockedBy(t, d), e # [type |-> "UserBlocked", dir |-> d]
      PROVE  Graph!BlockedBy(s, d) /\ e # [type |-> "UserUnblocked", dir |-> d]
  <2>1. PICK i \in 1..n + 1 : /\ t[i] = [type |-> "UserBlocked", dir |-> d]
                              /\ \A j \in i + 1..n + 1 : t[j] # [type |-> "UserUnblocked", dir |-> d]
    BY <1>1, <1>5 DEF Graph!BlockedBy
  <2>2. i \in 1..n
    BY <1>1, <1>5, <2>1
  <2>3. \A j \in i + 1..n : s[j] # [type |-> "UserUnblocked", dir |-> d]
    BY <1>1, <2>1, <2>2
  <2> QED
    BY <1>1, <2>1, <2>2, <2>3 DEF Graph!BlockedBy, n
<1> QED
  BY <1>3, <1>4, <1>5 DEF t

LEMMA ReplayKept ==
    ASSUME TypeOK, ReplayGivesBlocks, [Graph!Next]_<<blocks, log>>
    PROVE  ReplayGivesBlocks'
<1> SUFFICES ASSUME NEW d \in Directions
             PROVE  d \in blocks' <=> Graph!BlockedBy(log'[Pair(d)], d)
  BY DEF ReplayGivesBlocks, Graph!ReplayGivesBlocks, Graph!BlockedBy, Directions, Pair
<1>0. d \in blocks <=> Graph!BlockedBy(log[Pair(d)], d)
  BY DEF ReplayGivesBlocks, Graph!ReplayGivesBlocks, Directions, Pair
<1>1. CASE UNCHANGED <<blocks, log>>
  BY <1>0, <1>1
<1>2. CASE Graph!Next
  <2>1. PICK x \in Directions : Graph!Followed(x) \/ Graph!Blocked(x) \/ Graph!Unblocked(x)
    BY <1>2 DEF Graph!Next, Directions
  <2>2. PICK type \in Graph!EventTypes :
            /\ Graph!Announce(type, x)
            /\ \/ type = "UserFollowed" /\ blocks' = blocks
               \/ type = "UserBlocked" /\ blocks' = blocks \cup {x}
               \/ type = "UserUnblocked" /\ blocks' = blocks \ {x}
    BY <2>1 DEF Graph!Followed, Graph!Blocked, Graph!Unblocked, Graph!EventTypes
  <2> DEFINE e == [type |-> type, dir |-> x]
  <2>3. /\ log' = [log EXCEPT ![Pair(x)] = Append(log[Pair(x)], e)]
        /\ e \in Graph!Events
    BY <2>2, AnnounceType DEF Graph!Events, Directions
  <2>4. Pair(x) \in Pairs /\ Pair(d) \in Pairs /\ log \in [Pairs -> Seq(Graph!Events)]
    BY DirectionFacts DEF TypeOK
  <2>5. CASE Pair(d) = Pair(x)
    <3>1. log'[Pair(d)] = Append(log[Pair(d)], e) /\ log[Pair(d)] \in Seq(Graph!Events)
      BY <2>3, <2>4, <2>5
    <3>2. Graph!BlockedBy(log'[Pair(d)], d) <=>
               \/ e = [type |-> "UserBlocked", dir |-> d]
               \/ Graph!BlockedBy(log[Pair(d)], d) /\ e # [type |-> "UserUnblocked", dir |-> d]
      BY <2>3, <3>1, ReplayAppend
    <3>3. /\ e = [type |-> "UserBlocked", dir |-> d] <=> type = "UserBlocked" /\ x = d
          /\ e = [type |-> "UserUnblocked", dir |-> d] <=> type = "UserUnblocked" /\ x = d
      OBVIOUS
    <3> QED
      BY <1>0, <2>2, <3>2, <3>3
  <2>6. CASE Pair(d) # Pair(x)
    <3>1. log'[Pair(d)] = log[Pair(d)] /\ d # x
      BY <2>3, <2>4, <2>6
    <3> QED
      BY <1>0, <2>2, <3>1
  <2> QED
    BY <2>5, <2>6
<1> QED
  BY <1>1, <1>2

\* Whoever replays the announcements of a pair in order has its blocks.
THEOREM ReplayCorrect == Spec => []ReplayGivesBlocks
<1>1. Init => ReplayGivesBlocks
  BY DirectionFacts DEF Init, ReplayGivesBlocks, Graph!ReplayGivesBlocks, Graph!BlockedBy, Pair,
                        Directions, Pairs
<1>2. IInv /\ ReplayGivesBlocks /\ [Next]_vars => ReplayGivesBlocks'
  BY StepRefines, ReplayKept DEF IInv
<1> QED
  BY <1>1, <1>2, InitInv, NextInv, PTL DEF Spec

-----------------------------------------------------------------------------
(* Follows and their announcements *)

\* The direction's follow was announced, and no block of the pair since.
Announced(s, d) ==
    \E i \in 1..Len(s) :
        /\ s[i] = [type |-> "UserFollowed", dir |-> d]
        /\ \A j \in i + 1..Len(s) : s[j].type # "UserBlocked"

LEMMA AnnouncedAppend ==
    ASSUME NEW s \in Seq(Graph!Events), NEW e \in Graph!Events, NEW d \in Directions,
           \/ e = [type |-> "UserFollowed", dir |-> d]
           \/ Announced(s, d) /\ e.type # "UserBlocked"
    PROVE  Announced(Append(s, e), d)
<1> DEFINE t == Append(s, e)
           n == Len(s)
<1>1. n \in Nat /\ Len(t) = n + 1 /\ t[n + 1] = e /\ \A i \in 1..n : t[i] = s[i]
  OBVIOUS
<1> HIDE DEF t, n
<1>2. CASE e = [type |-> "UserFollowed", dir |-> d]
  <2>1. Announced(t, d)
    BY <1>1, <1>2 DEF Announced
  <2> QED
    BY <2>1 DEF t
<1>3. CASE Announced(s, d) /\ e.type # "UserBlocked"
  <2>1. PICK i \in 1..n : /\ s[i] = [type |-> "UserFollowed", dir |-> d]
                          /\ \A j \in i + 1..n : s[j].type # "UserBlocked"
    BY <1>3 DEF Announced, n
  <2>2. \A j \in i + 1..n + 1 : t[j].type # "UserBlocked"
    BY <1>1, <1>3, <2>1
  <2>3. Announced(t, d)
    BY <1>1, <2>1, <2>2 DEF Announced
  <2> QED
    BY <2>3 DEF t
<1> QED
  BY <1>2, <1>3

LEMMA AnnouncedFacts ==
    FollowsAnnounced <=>
        \A d \in Directions : <<"follow", d[1], d[2]>> \in edges => Announced(log[Pair(d)], d)
BY DEF FollowsAnnounced, Announced

\* An event keeps a follow's announcement unless it is a block of its pair.
LEMMA AnnouncedKept ==
    ASSUME TypeOK, NEW d \in Directions, NEW x \in Directions,
           NEW type \in {"UserFollowed", "UserBlocked", "UserUnblocked"}, Graph!Announce(type, x),
           \/ type = "UserFollowed" /\ x = d
           \/ Announced(log[Pair(d)], d) /\ (type = "UserBlocked" => Pair(x) # Pair(d))
    PROVE  Announced(log'[Pair(d)], d)
<1> DEFINE e == [type |-> type, dir |-> x]
<1>1. /\ log' = [log EXCEPT ![Pair(x)] = Append(log[Pair(x)], e)]
      /\ e \in Graph!Events /\ Pair(x) \in Pairs /\ Pair(d) \in Pairs
      /\ log \in [Pairs -> Seq(Graph!Events)]
  <2>1. type \in Graph!EventTypes
    BY DEF Graph!EventTypes
  <2>2. log' = [log EXCEPT ![Pair(x)] = Append(log[Pair(x)], e)]
    BY <2>1, AnnounceType
  <2>3. e \in Graph!Events
    BY <2>1 DEF Graph!Events, Directions
  <2> QED
    BY <2>2, <2>3, DirectionFacts DEF TypeOK
<1>2. CASE Pair(x) # Pair(d)
  BY <1>1, <1>2
<1>3. CASE Pair(x) = Pair(d)
  <2>1. log'[Pair(d)] = Append(log[Pair(d)], e) /\ log[Pair(d)] \in Seq(Graph!Events)
    BY <1>1, <1>3
  <2>2. \/ e = [type |-> "UserFollowed", dir |-> d]
        \/ Announced(log[Pair(d)], d) /\ e.type # "UserBlocked"
    BY <1>3
  <2> QED
    BY <1>1, <2>1, <2>2, AnnouncedAppend
<1> QED
  BY <1>2, <1>3

LEMMA FollowsKept ==
    ASSUME TypeOK, FollowsAnnounced, [Next]_vars
    PROVE  FollowsAnnounced'
<1> SUFFICES ASSUME NEW d \in Directions, <<"follow", d[1], d[2]>> \in edges'
             PROVE  Announced(log'[Pair(d)], d)
  BY DEF FollowsAnnounced, Announced, Pair, Graph!Pair
<1> DEFINE f == <<"follow", d[1], d[2]>>
<1>0. /\ f \in edges => Announced(log[Pair(d)], d)
      /\ log \in [Pairs -> Seq(Graph!Events)] /\ Pair(d) \in Pairs
      /\ d = <<d[1], d[2]>>
  BY AnnouncedFacts, DirectionFacts DEF TypeOK
<1>1. ASSUME edges' \subseteq edges, log' = log PROVE Announced(log'[Pair(d)], d)
  BY <1>0, <1>1
<1>2. CASE UNCHANGED vars
  BY <1>1, <1>2 DEF vars, tables
<1>3. ASSUME NEW c \in Clients, NEW x \in Directions, Request(c, x)
      PROVE  Announced(log'[Pair(d)], d)
  BY <1>1, <1>3 DEF Request, AddEdge, AddCloseFriend, SendConnectionRequest,
              AcceptConnectionRequest, Block, Unblock, Start, tables
<1>4. ASSUME NEW x \in Directions, Unlocked(x)
      PROVE  Announced(log'[Pair(d)], d)
  BY <1>1, <1>4 DEF Unlocked, RemoveEdge, CloseRequest, RemoveConnection
<1>5. ASSUME NEW c \in Clients, Step(c)
      PROVE  Announced(log'[Pair(d)], d)
  <2> DEFINE r == proc[c]
  <2>1. CASE CheckReverse(c) \/ LockPair(c) \/ Guard(c) \/ Abort(c)
    BY <1>1, <2>1 DEF CheckReverse, LockPair, Guard, Abort, tables
  <2>2. CASE CommitRequest(c) \/ CommitAccept(c)
    BY <1>1, <2>2 DEF CommitRequest, CommitAccept
  <2>3. CASE CommitEdge(c)
    <3> DEFINE e == <<r.op, r.dir[1], r.dir[2]>>
    <3>1. r.dir \in Directions /\ r.dir = <<r.dir[1], r.dir[2]>>
      BY <2>3, LocalFacts, DirectionFacts DEF CommitEdge
    <3>2. edges' = edges \cup {e}
      BY <2>3 DEF CommitEdge
    <3>3. CASE log' = log
      <4>1. e = f => e \in edges \/ Graph!Announce("UserFollowed", r.dir)
        BY <2>3 DEF CommitEdge
      <4>2. CASE f \in edges
        BY <1>0, <3>3, <4>2
      <4>3. CASE f \notin edges
        <5>1. e = f
          BY <3>2, <4>3
        <5>2. r.dir = d
          BY <1>0, <3>1, <5>1
        <5> QED
          BY <3>1, <4>1, <4>3, <5>1, <5>2, AnnouncedKept
      <4> QED
        BY <4>2, <4>3
    <3>4. CASE Graph!Announce("UserFollowed", r.dir)
      <4>1. f \in edges \/ r.dir = d
        BY <1>0, <3>1, <3>2
      <4> QED
        BY <1>0, <3>1, <3>4, <4>1, AnnouncedKept
    <3> QED
      BY <2>3, <3>3, <3>4 DEF CommitEdge
  <2>4. CASE CommitBlock(c)
    <3>1. r.dir \in Directions
      BY <2>4, LocalFacts DEF CommitBlock
    <3>2. f \in edges /\ f \notin EdgesOf(r.dir)
      BY <2>4 DEF CommitBlock
    <3>3. Pair(r.dir) # Pair(d)
      <4>1. d \notin BothWays(r.dir)
        BY <1>0, <3>2 DEF EdgesOf
      <4> QED
        BY <3>1, <4>1, SamePair
    <3>4. CASE log' = log
      BY <1>0, <3>2, <3>4
    <3>5. CASE Graph!Announce("UserBlocked", r.dir)
      BY <1>0, <3>1, <3>2, <3>3, <3>5, AnnouncedKept
    <3> QED
      BY <2>4, <3>4, <3>5 DEF CommitBlock
  <2>5. CASE CommitUnblock(c)
    <3>1. r.dir \in Directions /\ f \in edges
      BY <2>5, LocalFacts DEF CommitUnblock
    <3>2. CASE log' = log
      BY <1>0, <3>1, <3>2
    <3>3. CASE Graph!Announce("UserUnblocked", r.dir)
      BY <1>0, <3>1, <3>3, AnnouncedKept
    <3> QED
      BY <2>5, <3>2, <3>3 DEF CommitUnblock
  <2> QED
    BY <1>5, <2>1, <2>2, <2>3, <2>4, <2>5 DEF Step
<1> QED
  BY <1>2, <1>3, <1>4, <1>5 DEF Next

\* Every follow row has its announcement, after the pair's last block.
THEOREM FollowsAreAnnounced == Spec => []FollowsAnnounced
<1>1. Init => FollowsAnnounced
  BY DEF Init, FollowsAnnounced
<1>2. TypeOK /\ FollowsAnnounced /\ [Next]_vars => FollowsAnnounced'
  BY FollowsKept
<1> QED
  BY <1>1, <1>2, TypeCorrect, PTL DEF Spec

-----------------------------------------------------------------------------
(* Friend counts *)

FriendsOf(u) == {p \in connections : u \in p}

CInv == TypeOK /\ IsFiniteSet(connections) /\ NeverUndercounts

LEMMA FriendsFacts ==
    ASSUME TypeOK, IsFiniteSet(connections), NEW u \in Users, NEW d \in Directions
    PROVE  /\ IsFiniteSet(FriendsOf(u)) /\ Cardinality(FriendsOf(u)) \in Nat
           /\ Cardinality(FriendsOf(u) \cup {Pair(d)}) <= Cardinality(FriendsOf(u)) + 1
           /\ Cardinality(FriendsOf(u) \ {Pair(d)}) \in Nat
           /\ Pair(d) \in FriendsOf(u) =>
                  Cardinality(FriendsOf(u) \ {Pair(d)}) = Cardinality(FriendsOf(u)) - 1
           /\ Cardinality(FriendsOf(u) \ {Pair(d)}) <= Cardinality(FriendsOf(u))
<1>1. IsFiniteSet(FriendsOf(u))
  <2>1. FriendsOf(u) \subseteq connections
    BY DEF FriendsOf
  <2> QED
    BY <2>1, FS_Subset
<1>2. Cardinality(FriendsOf(u)) \in Nat
  BY <1>1, FS_CardinalityType
<1>3. Cardinality(FriendsOf(u) \cup {Pair(d)}) =
         IF Pair(d) \in FriendsOf(u) THEN Cardinality(FriendsOf(u)) ELSE Cardinality(FriendsOf(u)) + 1
  BY <1>1, FS_AddElement
<1>4. /\ IsFiniteSet(FriendsOf(u) \ {Pair(d)})
      /\ Cardinality(FriendsOf(u) \ {Pair(d)}) =
         IF Pair(d) \in FriendsOf(u) THEN Cardinality(FriendsOf(u)) - 1 ELSE Cardinality(FriendsOf(u))
  BY <1>1, FS_RemoveElement
<1>5. Cardinality(FriendsOf(u) \ {Pair(d)}) \in Nat
  BY <1>4, FS_CardinalityType
<1> QED
  BY <1>1, <1>2, <1>3, <1>4, <1>5

LEMMA CountsKept ==
    ASSUME CInv, [Next]_vars
    PROVE  CInv'
<1> TypeOK /\ IsFiniteSet(connections) /\ NeverUndercounts
  BY DEF CInv
<1>0. TypeOK' /\ connections \subseteq Pairs /\ friendCount \in [Users -> Nat]
  BY NextType DEF TypeOK
<1>1. \A u \in Users : friendCount[u] >= Cardinality(FriendsOf(u))
  BY DEF NeverUndercounts, FriendsOf
<1>2. ASSUME UNCHANGED <<connections, friendCount>> PROVE CInv'
  BY <1>0, <1>2 DEF CInv, NeverUndercounts
<1>3. CASE UNCHANGED vars
  BY <1>2, <1>3 DEF vars, tables
<1>4. ASSUME NEW c \in Clients, NEW x \in Directions, Request(c, x) PROVE CInv'
  BY <1>2, <1>4 DEF Request, AddEdge, AddCloseFriend, SendConnectionRequest,
              AcceptConnectionRequest, Block, Unblock, Start, tables
<1>5. ASSUME NEW d \in Directions, Unlocked(d) PROVE CInv'
  <2>1. CASE (\E kind \in Kinds : RemoveEdge(kind, d)) \/ CloseRequest(d)
    BY <1>2, <2>1 DEF RemoveEdge, CloseRequest
  <2>2. CASE RemoveConnection(d)
    <3>1. IsFiniteSet(connections') /\ Pair(d) \in connections
      BY <2>2, FS_RemoveElement DEF RemoveConnection
    <3>2. ASSUME NEW u \in Users
          PROVE  friendCount'[u] >= Cardinality(FriendsOf(u) \ {Pair(d)})
      <4>1. friendCount'[u] = IF u \in Pair(d) /\ friendCount[u] > 0
                              THEN friendCount[u] - 1 ELSE friendCount[u]
        BY <2>2 DEF RemoveConnection
      <4>2. u \in Pair(d) => Pair(d) \in FriendsOf(u)
        BY <3>1 DEF FriendsOf
      <4>3. friendCount[u] \in Nat /\ friendCount[u] >= Cardinality(FriendsOf(u))
        BY <1>0, <1>1
      <4>4. /\ Cardinality(FriendsOf(u)) \in Nat /\ Cardinality(FriendsOf(u) \ {Pair(d)}) \in Nat
            /\ Pair(d) \in FriendsOf(u) =>
                  Cardinality(FriendsOf(u) \ {Pair(d)}) = Cardinality(FriendsOf(u)) - 1
            /\ Cardinality(FriendsOf(u) \ {Pair(d)}) <= Cardinality(FriendsOf(u))
        BY FriendsFacts
      <4> QED
        BY <4>1, <4>2, <4>3, <4>4
    <3>3. \A u \in Users : FriendsOf(u) \ {Pair(d)} = {p \in connections' : u \in p}
      BY <2>2 DEF RemoveConnection, FriendsOf
    <3> QED
      BY <1>0, <3>1, <3>2, <3>3 DEF CInv, NeverUndercounts
  <2> QED
    BY <1>5, <2>1, <2>2 DEF Unlocked
<1>6. ASSUME NEW c \in Clients, Step(c) PROVE CInv'
  <2> DEFINE r == proc[c]
  <2>1. CASE CheckReverse(c) \/ LockPair(c) \/ Guard(c) \/ Abort(c)
    BY <1>2, <2>1 DEF CheckReverse, LockPair, Guard, Abort, tables
  <2>2. CASE CommitEdge(c) \/ CommitRequest(c) \/ CommitUnblock(c)
    BY <1>2, <2>2 DEF CommitEdge, CommitRequest, CommitUnblock
  <2>3. CASE CommitAccept(c)
    <3>0. r.dir \in Directions
      BY <2>3, LocalFacts DEF CommitAccept
    <3>1. CASE UNCHANGED <<connections, friendCount>>
      BY <1>2, <3>1
    <3>2. CASE /\ connections' = connections \cup {Pair(r.dir)}
               /\ friendCount' = [u \in Users |-> IF u \in Pair(r.dir) THEN friendCount[u] + 1
                                                                       ELSE friendCount[u]]
      <4>1. IsFiniteSet(connections')
        BY <3>2, FS_AddElement
      <4>2. ASSUME NEW u \in Users
            PROVE  friendCount'[u] >= Cardinality({p \in connections' : u \in p})
        <5>1. CASE u \in Pair(r.dir)
          <6>1. {p \in connections' : u \in p} = FriendsOf(u) \cup {Pair(r.dir)}
            BY <3>2, <5>1 DEF FriendsOf
          <6>2. Cardinality(FriendsOf(u) \cup {Pair(r.dir)}) <= Cardinality(FriendsOf(u)) + 1
                /\ Cardinality(FriendsOf(u)) \in Nat
            BY <3>0, FriendsFacts
          <6>3. Cardinality(FriendsOf(u) \cup {Pair(r.dir)}) \in Nat
            BY <3>0, FriendsFacts, FS_AddElement, FS_CardinalityType
          <6>4. /\ friendCount'[u] = friendCount[u] + 1
                /\ friendCount[u] \in Nat /\ friendCount[u] >= Cardinality(FriendsOf(u))
            BY <1>0, <1>1, <3>2, <5>1
          <6>5. friendCount'[u] >= Cardinality(FriendsOf(u) \cup {Pair(r.dir)})
            BY <6>2, <6>3, <6>4
          <6> QED
            BY <6>1, <6>5, Zenon
        <5>2. CASE u \notin Pair(r.dir)
          <6>1. {p \in connections' : u \in p} = FriendsOf(u)
            BY <3>2, <5>2 DEF FriendsOf
          <6> QED
            BY <1>1, <3>2, <5>2, <6>1
        <5> QED
          BY <5>1, <5>2
      <4> QED
        BY <1>0, <4>1, <4>2 DEF CInv, NeverUndercounts
    <3> QED
      BY <2>3, <3>1, <3>2 DEF CommitAccept
  <2>4. CASE CommitBlock(c)
    <3>0. r.dir \in Directions
      BY <2>4, LocalFacts DEF CommitBlock
    <3>1. IsFiniteSet(connections')
      BY <2>4, FS_RemoveElement DEF CommitBlock
    <3>2. ASSUME NEW u \in Users
          PROVE  friendCount'[u] >= Cardinality({p \in connections' : u \in p})
      <4>1. {p \in connections' : u \in p} = FriendsOf(u) \ {Pair(r.dir)}
        BY <2>4 DEF CommitBlock, FriendsOf
      <4>2. friendCount'[u] = friendCount[u]
        BY <2>4 DEF CommitBlock
      <4>3. friendCount[u] \in Nat /\ friendCount[u] >= Cardinality(FriendsOf(u))
        BY <1>0, <1>1
      <4>4. /\ Cardinality(FriendsOf(u)) \in Nat /\ Cardinality(FriendsOf(u) \ {Pair(r.dir)}) \in Nat
            /\ Cardinality(FriendsOf(u) \ {Pair(r.dir)}) <= Cardinality(FriendsOf(u))
        BY <3>0, FriendsFacts
      <4>5. friendCount'[u] >= Cardinality(FriendsOf(u) \ {Pair(r.dir)})
        BY <4>2, <4>3, <4>4
      <4> QED
        BY <4>1, <4>5, Zenon
    <3> QED
      BY <1>0, <3>1, <3>2 DEF CInv, NeverUndercounts
  <2> QED
    BY <1>6, <2>1, <2>2, <2>3, <2>4 DEF Step
<1> QED
  BY <1>3, <1>4, <1>5, <1>6 DEF Next

\* friend_count is never below the number of a user's connections.
THEOREM CountsNeverLow == Spec => []NeverUndercounts
<1>1. Init => CInv
  BY InitType, FS_EmptySet DEF Init, CInv, NeverUndercounts
<1>2. CInv /\ [Next]_vars => CInv'
  BY CountsKept
<1>3. CInv => NeverUndercounts
  BY DEF CInv
<1> QED
  BY <1>1, <1>2, <1>3, PTL DEF Spec
=============================================================================
