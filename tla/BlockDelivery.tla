--------------------------- MODULE BlockDelivery ---------------------------
(***************************************************************************)
(* How a block reaches another service: graph-service's outbox relay, the  *)
(* Kafka topic, and suggestion-service's consumer with its inbox.          *)
(*                                                                         *)
(* The rows of the outbox come from PairLog.  Each relay leases a batch of *)
(* unpublished rows, publishes them and marks each one; a row whose        *)
(* publish failed is free again, a row whose relay died is free once its   *)
(* lease has run out.  The consumer commits an offset only after the       *)
(* effect, and the effect's transaction records the event in an inbox.     *)
(*                                                                         *)
(* A row's attempts have no cap; how long a back-off lasts is left open.   *)
(***************************************************************************)
EXTENDS PairLog, FiniteSets

CONSTANTS
    Actors,         \* the users who follow and block in a run
    Relays,         \* replicas of graph-service
    Consumers,      \* replicas of suggestion-service
    Batch,          \* BatchSize of the relay
    MaxFaults       \* crashes, failures and run-out leases (bounds a run)

ASSUME DeliveryConstants ==
    /\ {MaxLog, MaxFaults} \subseteq Nat
    /\ Actors \subseteq Users
    /\ Batch \in Nat \ {0}
    /\ {"none", "backoff"} \cap Relays = {}

VARIABLES
    published,      \* graph_outbox_events.published
    lease,          \* the relay that holds a row, or "backoff" after a failed publish
    batch,          \* the rows a relay has leased and not finished
    sent,           \* rows of the batch that are on the topic and not yet marked
    topic,          \* the pair's partition: rows, in the order the broker took them
    offset,         \* committed offset of the consumer group
    pos,            \* a consumer's position in the partition
    msg,            \* what a consumer has in hand
    inbox,          \* suggestion_consumer_inbox
    times,          \* history: how often a block's effect was applied
    marks,          \* the applied markers in Redis
    cooldown,       \* suggestion_cooldowns that are permanent
    faults          \* faults so far

relay == <<published, lease, batch, sent, topic>>
consumer == <<offset, pos, msg, inbox, times, marks, cooldown>>
vars == <<blocks, log, relay, consumer, faults>>

Ids == Pairs \X (1..MaxLog)
Rows == {id \in Ids : id[2] <= Len(log[id[1]])}
Event(id) == log[id[1]][id[2]]
Idle == [pc |-> "idle"]

DInit ==
    /\ Init
    /\ published = {}
    /\ lease = [id \in Ids |-> "none"]
    /\ batch = [r \in Relays |-> {}]
    /\ sent = [r \in Relays |-> {}]
    /\ topic = [p \in Pairs |-> <<>>]
    /\ offset = [p \in Pairs |-> 0]
    /\ pos = [c \in Consumers |-> [p \in Pairs |-> 0]]
    /\ msg = [c \in Consumers |-> Idle]
    /\ inbox = {}
    /\ times = [id \in Ids |-> 0]
    /\ marks = {}
    /\ cooldown = {}
    /\ faults = 0

Fault == faults < MaxFaults /\ faults' = faults + 1

\* The transactions of SocialGraph
Transaction(d) ==
    /\ Followed(d) \/ Blocked(d) \/ Unblocked(d)
    /\ UNCHANGED <<relay, consumer, faults>>

---------------------------------------------------------------------------
(* RelayOnce                                                               *)

\* The lease: rows that are not published, leased or backing off, oldest first
\* and at most Batch.  The update returns them in no particular order.  (Rows are
\* ordered by occurred_at, the start of their transaction; that it can differ
\* from pair_seq for two transactions that waited for each other is left out.)
Claimable == {id \in Rows : id \notin published /\ lease[id] = "none"}
OldestFirst(ids, from) == \A id \in ids : \A x \in from : x[1] = id[1] /\ x[2] < id[2] => x \in ids
Claim(r, from) ==
    /\ batch[r] = {}
    /\ \E ids \in SUBSET from \ {{}} :
         /\ Cardinality(ids) <= Batch /\ OldestFirst(ids, from)
         /\ batch' = [batch EXCEPT ![r] = ids]
         /\ lease' = [id \in Ids |-> IF id \in ids THEN r ELSE lease[id]]
    /\ UNCHANGED <<blocks, log, published, sent, topic, consumer, faults>>
Lease(r) == Claim(r, Claimable)

\* PublishGraphEvent, keyed by the pair; the rows are taken one after the other.
Sent(id) == topic' = [topic EXCEPT ![id[1]] = Append(@, id)]
Publish(r, id) ==
    /\ sent[r] = {} /\ id \in batch[r]
    /\ Sent(id)
    /\ sent' = [sent EXCEPT ![r] = {id}]
    /\ UNCHANGED <<blocks, log, published, lease, batch, consumer, faults>>

\* The publish reports an error, whether or not the broker has the message:
\* markOutboxFailed gives the row back for later and the batch goes on with the next row.
PublishFails(r, id) ==
    /\ Fault
    /\ sent[r] = {} /\ id \in batch[r]
    /\ Sent(id) \/ UNCHANGED topic
    /\ batch' = [batch EXCEPT ![r] = @ \ {id}]
    /\ lease' = [lease EXCEPT ![id] = "backoff"]
    /\ UNCHANGED <<blocks, log, published, sent, consumer>>

\* markOutboxPublished, after the publish; it does not look at whose lease it is.
MarkPublished_WholeBatch(r) ==
    /\ sent[r] # {}
    /\ published' = published \cup batch[r]
    /\ lease' = [id \in Ids |-> IF id \in batch[r] THEN "none" ELSE lease[id]]
    /\ batch' = [batch EXCEPT ![r] = {}]
    /\ sent' = [sent EXCEPT ![r] = {}]
    /\ UNCHANGED <<blocks, log, topic, consumer, faults>>
MarkPublished(r) ==
    /\ sent[r] # {}
    /\ published' = published \cup sent[r]
    /\ lease' = [id \in Ids |-> IF id \in sent[r] THEN "none" ELSE lease[id]]
    /\ batch' = [batch EXCEPT ![r] = @ \ sent[r]]
    /\ sent' = [sent EXCEPT ![r] = {}]
    /\ UNCHANGED <<blocks, log, topic, consumer, faults>>

\* A failed statement ends the pass, a crash ends the process: the rest of the
\* batch stays leased.
RelayStops(r) ==
    /\ Fault
    /\ batch[r] # {}
    /\ batch' = [batch EXCEPT ![r] = {}]
    /\ sent' = [sent EXCEPT ![r] = {}]
    /\ UNCHANGED <<blocks, log, published, lease, topic, consumer>>

\* A back-off ends.  leased_until passes: for a relay that is gone, or for one
\* that is merely slow.
Orphan(id) ==
    \/ lease[id] = "backoff"
    \/ lease[id] \in Relays /\ id \notin batch[lease[id]]
RunOut(id) ==
    /\ lease' = [lease EXCEPT ![id] = "none"]
    /\ UNCHANGED <<blocks, log, published, batch, sent, topic, consumer>>
LeaseRunsOut(id) == Orphan(id) /\ RunOut(id) /\ UNCHANGED faults
LeaseRunsOutEarly(id) == lease[id] # "none" /\ ~Orphan(id) /\ Fault /\ RunOut(id)

---------------------------------------------------------------------------
(* The consumer                                                            *)

Goto(c, pc) == msg' = [msg EXCEPT ![c].pc = pc]
GroupKept == UNCHANGED <<blocks, log, relay, faults>>

\* FetchMessage
Fetch(c, p) ==
    /\ msg[c].pc = "idle"
    /\ pos[c][p] < Len(topic[p])
    /\ pos' = [pos EXCEPT ![c][p] = @ + 1]
    /\ msg' = [msg EXCEPT ![c] = [pc |-> "seen", id |-> topic[p][pos[c][p] + 1],
                                  at |-> pos[c][p] + 1]]
    /\ GroupKept /\ UNCHANGED <<offset, inbox, times, marks, cooldown>>

\* Seen: a marker skips the handler; without Redis the event is handled.
Seen(c) ==
    /\ msg[c].pc = "seen"
    /\ \/ msg[c].id \in marks /\ Goto(c, "commit")
       \/ Goto(c, "apply")
    /\ GroupKept /\ UNCHANGED <<offset, pos, inbox, times, marks, cooldown>>

\* ApplyUserBlockedEffects: the inbox row, the cooldowns of both directions and
\* the removal of candidates, in one transaction.  No other event has a lasting
\* effect here.  A failed attempt is repeated until it succeeds.
Apply_NoInbox(c) ==
    LET id == msg[c].id IN
    /\ msg[c].pc = "apply"
    /\ IF Event(id).type = "UserBlocked"
       THEN /\ inbox' = inbox \cup {id}
            /\ times' = [times EXCEPT ![id] = @ + 1]
            /\ cooldown' = cooldown \cup BothWays(Event(id).dir)
       ELSE UNCHANGED <<inbox, times, cooldown>>
    /\ Goto(c, "mark")
    /\ GroupKept /\ UNCHANGED <<offset, pos, marks>>
Apply(c) ==
    LET id == msg[c].id IN
    /\ msg[c].pc = "apply"
    /\ IF Event(id).type = "UserBlocked" /\ id \notin inbox
       THEN /\ inbox' = inbox \cup {id}
            /\ times' = [times EXCEPT ![id] = @ + 1]
            /\ cooldown' = cooldown \cup BothWays(Event(id).dir)
       ELSE UNCHANGED <<inbox, times, cooldown>>
    /\ Goto(c, "mark")
    /\ GroupKept /\ UNCHANGED <<offset, pos, marks>>

\* MarkApplied, whose failure is only logged.
MarkApplied(c) ==
    /\ msg[c].pc = "mark"
    /\ marks' \in {marks, marks \cup {msg[c].id}}
    /\ Goto(c, "commit")
    /\ GroupKept /\ UNCHANGED <<offset, pos, inbox, times, cooldown>>

\* CommitMessages; when it fails the loop goes on with the next message.
Commit(c) ==
    LET p == msg[c].id[1] IN
    /\ msg[c].pc = "commit"
    /\ offset' \in {offset, [offset EXCEPT ![p] = IF @ < msg[c].at THEN msg[c].at ELSE @]}
    /\ msg' = [msg EXCEPT ![c] = Idle]
    /\ GroupKept /\ UNCHANGED <<pos, inbox, times, marks, cooldown>>

\* A crash, or a rebalance that gives the partition to this consumer: it reads
\* on from the committed offset.  Its predecessor may still be at work.
Restart_AtEnd(c) ==
    /\ Fault
    /\ msg' = [msg EXCEPT ![c] = Idle]
    /\ pos' = [pos EXCEPT ![c] = [p \in Pairs |-> Len(topic[p])]]
    /\ UNCHANGED <<blocks, log, relay, offset, inbox, times, marks, cooldown>>
Restart(c) ==
    /\ Fault
    /\ msg' = [msg EXCEPT ![c] = Idle]
    /\ pos' = [pos EXCEPT ![c] = offset]
    /\ UNCHANGED <<blocks, log, relay, offset, inbox, times, marks, cooldown>>

---------------------------------------------------------------------------

RelayStep(r) ==
    \/ Lease(r) \/ MarkPublished(r) \/ \E id \in Ids : Publish(r, id)

ConsumerStep(c) ==
    \/ Seen(c) \/ Apply(c) \/ MarkApplied(c) \/ Commit(c) \/ \E p \in Pairs : Fetch(c, p)

DNext ==
    \/ \E d \in Directions : d[1] \in Actors /\ Transaction(d)
    \/ \E r \in Relays : RelayStep(r) \/ RelayStops(r) \/ \E id \in Ids : PublishFails(r, id)
    \/ \E id \in Ids : LeaseRunsOut(id) \/ LeaseRunsOutEarly(id)
    \/ \E c \in Consumers : ConsumerStep(c) \/ Restart(c)

DSpec == DInit /\ [][DNext]_vars

\* The loops of RunRelay and of the consumer keep running; a lease ends.  Nobody
\* is obliged to block anybody.
Fairness ==
    /\ \A r \in Relays : WF_vars(RelayStep(r))
    /\ \A id \in Ids : WF_vars(LeaseRunsOut(id))
    /\ \A c \in Consumers : WF_vars(ConsumerStep(c))

FairSpec == DSpec /\ Fairness

---------------------------------------------------------------------------
(* Properties                                                              *)

Messages == [pc : {"seen", "apply", "mark", "commit"}, id : Rows, at : Nat]
DTypeOK ==
    /\ blocks \subseteq Directions /\ log \in [Pairs -> Seq(Events)]
    /\ published \subseteq Rows
    /\ lease \in [Ids -> Relays \cup {"none", "backoff"}]
    /\ batch \in [Relays -> SUBSET Rows] /\ sent \in [Relays -> SUBSET Rows]
    /\ \A r \in Relays : sent[r] \subseteq batch[r]
    /\ topic \in [Pairs -> Seq(Rows)]
    /\ offset \in [Pairs -> Nat] /\ \A p \in Pairs : offset[p] <= Len(topic[p])
    /\ pos \in [Consumers -> [Pairs -> Nat]]
    /\ msg \in [Consumers -> Messages \cup {Idle}]
    /\ inbox \subseteq Rows /\ marks \subseteq Rows
    /\ times \in [Ids -> Nat]
    /\ cooldown \subseteq Directions
    /\ faults \in 0..MaxFaults

\* A row is marked published only when the broker has it: nothing the relay
\* forgets is still undelivered, whichever replicas shared the rows and whenever
\* they stopped.
PublishedIsOnTopic ==
    \A id \in published : \E i \in 1..Len(topic[id[1]]) : topic[id[1]][i] = id

\* Everything before the committed offset has had its effect: no restart of the
\* consumer, no rebalance and no failed commit skips a block.
CommittedIsApplied ==
    \A p \in Pairs : \A i \in 1..offset[p] :
        Event(topic[p][i]).type = "UserBlocked" =>
            topic[p][i] \in inbox /\ BothWays(Event(topic[p][i]).dir) \subseteq cooldown

\* Each block is announced, and takes effect in suggestion-service exactly once.
Owed == {id \in Rows : Event(id).type = "UserBlocked"}
Effect == INSTANCE EffectOnce WITH Effects <- Ids, owed <- Owed
EffectSpec == Effect!Spec
=============================================================================
