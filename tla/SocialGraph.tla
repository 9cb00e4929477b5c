---------------------------- MODULE SocialGraph ----------------------------
(***************************************************************************)
(* graph-service: follows, connections, close friends, circles, favorites, *)
(* labels and blocks of pairs of users.                                    *)
(*                                                                         *)
(* Everything that creates a relationship runs in a transaction that first *)
(* takes an advisory lock on the pair (withPairLock), checks for a block   *)
(* while it holds the lock, writes, and announces itself in the outbox.    *)
(* Most of what removes a relationship takes no lock.  A transaction's     *)
(* writes become visible at its commit, which also releases the lock.      *)
(*                                                                         *)
(* Left out: rate limits, the kind of an account, mutes, the caches and    *)
(* follower counters in Redis, and the events the handlers publish         *)
(* directly, which nothing here depends on.                                *)
(***************************************************************************)
EXTENDS Integers, FiniteSets, Sequences

CONSTANTS
    Users,
    Kinds,          \* edge tables; "follow" and "close_friend" have rules of their own
    Clients,        \* concurrent requests
    CloseFriendCap,
    MaxLog,         \* events a pair may produce (bounds a run)
    MaxFriends      \* largest friend_count of a run

ASSUME GraphConstants ==
    /\ "follow" \in Kinds /\ Kinds \cap {"request", "accept", "block", "unblock"} = {}
    /\ {CloseFriendCap, MaxLog, MaxFriends} \subseteq Nat
    /\ "free" \notin Clients

VARIABLES
    blocks,         \* <<blocker, blocked>>
    edges,          \* <<kind, owner, other>>: the rows of the edge tables
    connections,    \* the table connections: unordered pairs
    requests,       \* connection_requests, by <<sender, receiver>>
    friendCount,    \* counts.friend_count
    log,            \* graph_outbox_events, by pair
    lock,           \* the holder of a pair's advisory lock
    proc            \* the requests' local variables

Graph == INSTANCE PairLog
Directions == Graph!Directions
Pair(d) == Graph!Pair(d)
Pairs == Graph!Pairs
Reverse(d) == Graph!Reverse(d)
BothWays(d) == Graph!BothWays(d)
BlockedEitherWay(d) == Graph!BlockedEitherWay(d)

tables == <<blocks, edges, connections, requests, friendCount, log>>
vars == <<tables, lock, proc>>

\* A declined, a cancelled and an expired request are the same to every guard.
Statuses == {"none", "pending", "accepted", "closed"}
Ops == Kinds \cup {"request", "accept", "block", "unblock"}
Idle == [pc |-> "idle"]
Locals == [pc : {"reverse", "begin", "guard", "commit"}, op : Ops, dir : Directions, rest : 0..2]

EdgesOf(d) == {e \in edges : <<e[2], e[3]>> \in BothWays(d)}
CloseFriendsOf(u) == {e \in edges : e[1] = "close_friend" /\ e[2] = u}

Init ==
    /\ blocks = {}
    /\ edges = {}
    /\ connections = {}
    /\ requests = [d \in Directions |-> "none"]
    /\ friendCount = [u \in Users |-> 0]
    /\ log = [p \in Pairs |-> <<>>]
    /\ lock = [p \in Pairs |-> "free"]
    /\ proc = [c \in Clients |-> Idle]

---------------------------------------------------------------------------
(* The handlers, up to their first transaction.                            *)

Start(c, pc, op, d, rest) ==
    /\ proc[c].pc = "idle"
    /\ proc' = [proc EXCEPT ![c] = [pc |-> pc, op |-> op, dir |-> d, rest |-> rest]]
    /\ UNCHANGED <<tables, lock>>

\* Follow, AddCircleMember, UpsertRelationshipLabel, AddFavorite
AddEdge(c, kind, d) == kind # "close_friend" /\ Start(c, "begin", kind, d, 0)

\* AddCloseFriend reads the connection and the size of the list without the lock.
AddCloseFriend(c, d) ==
    /\ "close_friend" \in Kinds
    /\ Pair(d) \in connections
    /\ <<"close_friend", d[1], d[2]>> \notin edges
    /\ Cardinality(CloseFriendsOf(d[1])) < CloseFriendCap
    /\ Start(c, "begin", "close_friend", d, 0)

\* SendConnectionRequest: CheckBlock asks about one direction only, and neither
\* it nor CheckConnection holds the lock.
SendConnectionRequest(c, d) ==
    /\ Reverse(d) \notin blocks
    /\ Pair(d) \notin connections
    /\ Start(c, "reverse", "request", d, 0)

\* A pending request the other way is accepted instead of sending a second one.
CheckReverse(c) ==
    LET r == proc[c] IN
    /\ r.pc = "reverse"
    /\ proc' = [proc EXCEPT ![c] =
                  IF requests[Reverse(r.dir)] = "pending"
                  THEN [r EXCEPT !.pc = "begin", !.op = "accept", !.dir = Reverse(r.dir)]
                  ELSE [r EXCEPT !.pc = "begin"]]
    /\ UNCHANGED <<tables, lock>>

\* AcceptConnectionRequest: two follows, each in a transaction of its own, come after.
AcceptConnectionRequest(c, d) == Start(c, "begin", "accept", d, 2)

\* Block, and ReconcileLegacyBlocks for a block of the legacy table
Block(c, d) == Start(c, "begin", "block", d, 0)
Unblock(c, d) == Start(c, "begin", "unblock", d, 0)

---------------------------------------------------------------------------
(* withPairLock                                                            *)

LockPair_NoLock(c) ==
    LET r == proc[c] IN
    /\ r.pc = "begin"
    /\ proc' = [proc EXCEPT ![c].pc = IF r.op \in {"block", "unblock"} THEN "commit" ELSE "guard"]
    /\ UNCHANGED <<tables, lock>>
LockPair(c) ==
    LET r == proc[c] IN
    /\ r.pc = "begin"
    /\ lock[Pair(r.dir)] = "free"
    /\ lock' = [lock EXCEPT ![Pair(r.dir)] = c]
    /\ proc' = [proc EXCEPT ![c].pc = IF r.op \in {"block", "unblock"} THEN "commit" ELSE "guard"]
    /\ UNCHANGED tables

\* The request's next transaction: an accepted request is followed by a follow
\* in its own direction and then by one in the other.
NextTx(r) ==
    CASE r.rest = 2 -> [r EXCEPT !.pc = "begin", !.op = "follow", !.rest = 1]
      [] r.rest = 1 -> [r EXCEPT !.pc = "begin", !.dir = Reverse(r.dir), !.rest = 0]
      [] OTHER -> Idle

Release(c, r) == lock' = [lock EXCEPT ![Pair(r.dir)] = "free"]
Finish(c, r) == Release(c, r) /\ proc' = [proc EXCEPT ![c] = NextTx(r)]

\* A refused accept ends the request; a refused follow is logged and the next is tried.
Refuse(c, r) ==
    /\ Release(c, r)
    /\ proc' = [proc EXCEPT ![c] = IF r.op = "accept" THEN Idle ELSE NextTx(r)]

\* guardPairTx
Guard(c) ==
    LET r == proc[c] IN
    /\ r.pc = "guard"
    /\ IF BlockedEitherWay(r.dir)
       THEN Refuse(c, r)
       ELSE proc' = [proc EXCEPT ![c].pc = "commit"] /\ UNCHANGED lock
    /\ UNCHANGED tables

---------------------------------------------------------------------------
(* The transactions' statements and commits.                               *)

\* FollowAtomic, AddCloseFriendAtomic, AddCircleMemberAtomic, AddFavoriteAtomic,
\* UpsertRelationshipLabelAtomic: ON CONFLICT DO NOTHING, and a new follow is announced.
CommitEdge(c) ==
    LET r == proc[c]
        e == <<r.op, r.dir[1], r.dir[2]>>
    IN  /\ r.pc = "commit" /\ r.op \in Kinds
        /\ edges' = edges \cup {e}
        /\ IF r.op = "follow" /\ e \notin edges
           THEN Graph!Announce("UserFollowed", r.dir)
           ELSE UNCHANGED log
        /\ Finish(c, r)
        /\ UNCHANGED <<blocks, connections, requests, friendCount>>

\* SendConnectionRequestAtomic: a new row, or one that was closed, becomes pending.
CommitRequest(c) ==
    LET r == proc[c] IN
    /\ r.pc = "commit" /\ r.op = "request"
    /\ requests' = IF requests[r.dir] \in {"none", "closed"}
                   THEN [requests EXCEPT ![r.dir] = "pending"] ELSE requests
    /\ Finish(c, r)
    /\ UNCHANGED <<blocks, edges, connections, friendCount, log>>

\* AcceptConnectionRequestAtomic.  The counts go up whether or not the pair was
\* connected already.
CommitAccept_NoCount(c) ==
    LET r == proc[c] IN
    /\ r.pc = "commit" /\ r.op = "accept"
    /\ IF requests[r.dir] = "pending"
       THEN /\ requests' = [requests EXCEPT ![r.dir] = "accepted"]
            /\ connections' = connections \cup {Pair(r.dir)}
            /\ Finish(c, r)
       ELSE Refuse(c, r) /\ UNCHANGED <<requests, connections>>
    /\ UNCHANGED <<blocks, edges, friendCount, log>>
CommitAccept(c) ==
    LET r == proc[c] IN
    /\ r.pc = "commit" /\ r.op = "accept"
    /\ IF requests[r.dir] = "pending"
       THEN /\ \A u \in Pair(r.dir) : friendCount[u] < MaxFriends
            /\ requests' = [requests EXCEPT ![r.dir] = "accepted"]
            /\ connections' = connections \cup {Pair(r.dir)}
            /\ friendCount' = [u \in Users |-> IF u \in Pair(r.dir) THEN friendCount[u] + 1
                                                                    ELSE friendCount[u]]
            /\ Finish(c, r)
       ELSE Refuse(c, r) /\ UNCHANGED <<requests, connections, friendCount>>
    /\ UNCHANGED <<blocks, edges, log>>

\* BlockAtomic inserts the block and sweeps every table, in both directions; it
\* is announced when it changed anything.  friend_count stays as it was.
Severed(d) ==
    EdgesOf(d) # {} \/ Pair(d) \in connections \/ \E x \in BothWays(d) : requests[x] # "none"
CommitBlock_OneWaySweep(c) ==
    LET r == proc[c] IN
    /\ r.pc = "commit" /\ r.op = "block"
    /\ blocks' = blocks \cup {r.dir}
    /\ edges' = {e \in edges : <<e[2], e[3]>> # r.dir}
    /\ connections' = connections \ {Pair(r.dir)}
    /\ requests' = [d \in Directions |-> IF d \in BothWays(r.dir) THEN "none" ELSE requests[d]]
    /\ IF r.dir \notin blocks \/ Severed(r.dir)
       THEN Graph!Announce("UserBlocked", r.dir) ELSE UNCHANGED log
    /\ Finish(c, r)
    /\ UNCHANGED friendCount
CommitBlock_AlwaysAnnounced(c) ==
    LET r == proc[c] IN
    /\ r.pc = "commit" /\ r.op = "block"
    /\ blocks' = blocks \cup {r.dir}
    /\ edges' = edges \ EdgesOf(r.dir)
    /\ connections' = connections \ {Pair(r.dir)}
    /\ requests' = [d \in Directions |-> IF d \in BothWays(r.dir) THEN "none" ELSE requests[d]]
    /\ Graph!Announce("UserBlocked", r.dir)
    /\ Finish(c, r)
    /\ UNCHANGED friendCount
CommitBlock(c) ==
    LET r == proc[c] IN
    /\ r.pc = "commit" /\ r.op = "block"
    /\ blocks' = blocks \cup {r.dir}
    /\ edges' = edges \ EdgesOf(r.dir)
    /\ connections' = connections \ {Pair(r.dir)}
    /\ requests' = [d \in Directions |-> IF d \in BothWays(r.dir) THEN "none" ELSE requests[d]]
    /\ IF r.dir \notin blocks \/ Severed(r.dir)
       THEN Graph!Announce("UserBlocked", r.dir) ELSE UNCHANGED log
    /\ Finish(c, r)
    /\ UNCHANGED friendCount

\* UnblockAtomic: no row, no announcement.
CommitUnblock(c) ==
    LET r == proc[c] IN
    /\ r.pc = "commit" /\ r.op = "unblock"
    /\ blocks' = blocks \ {r.dir}
    /\ IF r.dir \in blocks THEN Graph!Announce("UserUnblocked", r.dir) ELSE UNCHANGED log
    /\ Finish(c, r)
    /\ UNCHANGED <<edges, connections, requests, friendCount>>

---------------------------------------------------------------------------
(* Statements that take no lock.                                           *)

\* DeleteFollow, RemoveCloseFriend, RemoveCircleMember, RemoveFavorite,
\* DeleteRelationshipLabel
RemoveEdge(kind, d) ==
    /\ edges' = edges \ {<<kind, d[1], d[2]>>}
    /\ UNCHANGED <<blocks, connections, requests, friendCount, log, lock, proc>>

\* DeclineConnectionRequest, CancelConnectionRequest, ExpireStaleConnectionRequests
CloseRequest(d) ==
    /\ requests[d] = "pending"
    /\ requests' = [requests EXCEPT ![d] = "closed"]
    /\ UNCHANGED <<blocks, edges, connections, friendCount, log, lock, proc>>

\* RemoveConnection, a transaction without the pair lock: the counts go down only
\* when it is the one that deleted the row.
RemoveConnection(d) ==
    /\ Pair(d) \in connections
    /\ connections' = connections \ {Pair(d)}
    /\ friendCount' = [u \in Users |-> IF u \in Pair(d) /\ friendCount[u] > 0
                                       THEN friendCount[u] - 1 ELSE friendCount[u]]
    /\ requests' = [x \in Directions |-> IF x \in BothWays(d) THEN "none" ELSE requests[x]]
    /\ edges' = edges \ {e \in EdgesOf(d) : e[1] = "close_friend"}
    /\ UNCHANGED <<blocks, log, lock, proc>>

\* A crash, a cancelled context or a failed statement: the transaction rolls back.
Abort(c) ==
    LET r == proc[c] IN
    /\ r.pc # "idle"
    /\ proc' = [proc EXCEPT ![c] = Idle]
    /\ IF r.pc \in {"guard", "commit"} THEN Release(c, r) ELSE UNCHANGED lock
    /\ UNCHANGED tables

---------------------------------------------------------------------------

Request(c, d) ==
    \/ \E kind \in Kinds : AddEdge(c, kind, d)
    \/ AddCloseFriend(c, d)
    \/ SendConnectionRequest(c, d)
    \/ AcceptConnectionRequest(c, d)
    \/ Block(c, d)
    \/ Unblock(c, d)

Step(c) ==
    \/ CheckReverse(c) \/ LockPair(c) \/ Guard(c)
    \/ CommitEdge(c) \/ CommitRequest(c) \/ CommitAccept(c) \/ CommitBlock(c) \/ CommitUnblock(c)
    \/ Abort(c)

Unlocked(d) ==
    \/ \E kind \in Kinds : RemoveEdge(kind, d)
    \/ CloseRequest(d)
    \/ RemoveConnection(d)

Next ==
    \/ \E c \in Clients : Step(c) \/ \E d \in Directions : Request(c, d)
    \/ \E d \in Directions : Unlocked(d)

Spec == Init /\ [][Next]_vars

---------------------------------------------------------------------------
(* Properties                                                              *)

TypeOK ==
    /\ blocks \subseteq Directions
    /\ edges \subseteq {<<k, d[1], d[2]>> : k \in Kinds, d \in Directions}
    /\ connections \subseteq Pairs
    /\ requests \in [Directions -> Statuses]
    /\ friendCount \in [Users -> Nat]
    /\ log \in [Pairs -> Seq(Graph!Events)]
    /\ lock \in [Pairs -> Clients \cup {"free"}]
    /\ proc \in [Clients -> Locals \cup {Idle}]

\* No follow, close friend, circle, favorite or label row, no connection and no
\* request of any status survives between two users while one blocks the other
\* (the state pair_atomic.go exists to prevent).
NoEdgeAcrossBlock ==
    \A d \in Directions : BlockedEitherWay(d) =>
        EdgesOf(d) = {} /\ Pair(d) \notin connections /\ requests[d] = "none"

\* Every follow row was announced after the pair's last block: a consumer that
\* drops follows on UserBlocked and adds them on UserFollowed misses none.
FollowsAnnounced ==
    \A d \in Directions : <<"follow", d[1], d[2]>> \in edges =>
        LET events == log[Pair(d)] IN
        \E i \in 1..Len(events) :
            /\ events[i] = [type |-> "UserFollowed", dir |-> d]
            /\ \A j \in i + 1..Len(events) : events[j].type # "UserBlocked"

\* friend_count may run high (a block and a second accept leave it up), never
\* low: GREATEST(friend_count - 1, 0) never hides a friend who is there.
NeverUndercounts ==
    \A u \in Users : friendCount[u] >= Cardinality({p \in connections : u \in p})

\* The log of a pair, replayed, gives its blocks.
ReplayGivesBlocks == Graph!ReplayGivesBlocks

\* The transactions implement the pair log: each change is announced by exactly
\* one event, none twice, and no follow is announced across a block.
PairLogSpec == Graph!Spec
=============================================================================
