------------------------------ MODULE PairLog ------------------------------
(***************************************************************************)
(* What graph-service promises about the blocks and follows of two users:  *)
(* every change of the canonical state is announced by exactly one event,  *)
(* events of a pair are numbered in the order of the changes (pair_seq),   *)
(* and no follow is announced while either user blocks the other.          *)
(*                                                                         *)
(* SocialGraph, the transactions under the pair lock, implements this      *)
(* module; BlockDelivery extends it with the way the events travel.        *)
(***************************************************************************)
EXTENDS Naturals, Sequences

CONSTANTS
    Users,      \* the users of the graph
    MaxLog      \* events a pair may produce (bounds a run)

VARIABLES
    blocks,     \* the table blocks: <<blocker, blocked>>
    log         \* graph_outbox_events, by pair, in the order of pair_seq

Directions == {d \in Users \X Users : d[1] # d[2]}
Pair(d) == {d[1], d[2]}
Pairs == {Pair(d) : d \in Directions}
Reverse(d) == <<d[2], d[1]>>
BothWays(d) == {d, Reverse(d)}

EventTypes == {"UserFollowed", "UserBlocked", "UserUnblocked"}
Events == [type : EventTypes, dir : Directions]

\* blockedEitherWayTx
BlockedEitherWay(d) == BothWays(d) \cap blocks # {}

\* appendGraphOutboxTx: the pair's sequence and the row that carries it.
Announce(type, d) ==
    /\ Len(log[Pair(d)]) < MaxLog
    /\ log' = [log EXCEPT ![Pair(d)] = Append(@, [type |-> type, dir |-> d])]

Init ==
    /\ blocks = {}
    /\ log = [p \in Pairs |-> <<>>]

Followed(d) ==
    /\ ~BlockedEitherWay(d)
    /\ Announce("UserFollowed", d)
    /\ UNCHANGED blocks

Blocked(d) ==
    /\ d \notin blocks
    /\ blocks' = blocks \cup {d}
    /\ Announce("UserBlocked", d)

Unblocked(d) ==
    /\ d \in blocks
    /\ blocks' = blocks \ {d}
    /\ Announce("UserUnblocked", d)

Next == \E d \in Directions : Followed(d) \/ Blocked(d) \/ Unblocked(d)

Spec == Init /\ [][Next]_<<blocks, log>>

---------------------------------------------------------------------------

\* The last event of a pair about direction d's block, if there is one, is the block.
BlockedBy(events, d) ==
    \E i \in 1..Len(events) :
        /\ events[i] = [type |-> "UserBlocked", dir |-> d]
        /\ \A j \in i + 1..Len(events) : events[j] # [type |-> "UserUnblocked", dir |-> d]

\* A consumer that replays a pair's events in the order of pair_seq, ignoring
\* every other source, ends with exactly the canonical blocks: no block is
\* unannounced and no announcement is of a block that is not there.
ReplayGivesBlocks == \A d \in Directions : d \in blocks <=> BlockedBy(log[Pair(d)], d)
=============================================================================
