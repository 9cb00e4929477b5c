------------------------ MODULE BlockDeliveryProofs ------------------------
(***************************************************************************)
(* Theorems of BlockDelivery, for any users, relays, consumers and bounds.  *)
(***************************************************************************)
EXTENDS BlockDelivery, SequenceTheorems, TLAPS

Delivered(id) == \E i \in 1..Len(topic[id[1]]) : topic[id[1]][i] = id

Effective(id) ==
    Event(id).type = "UserBlocked" =>
        id \in inbox /\ BothWays(Event(id).dir) \subseteq cooldown

\* A row is on the partition of its pair, and nothing is published, nor about to
\* be marked so, that is not on it.
OnTopic ==
    /\ \A p \in Pairs : \A i \in 1..Len(topic[p]) : topic[p][i][1] = p
    /\ \A id \in published : Delivered(id)
    /\ \A r \in Relays : \A id \in sent[r] : Delivered(id)

\* A consumer has handled all it has read except, perhaps, the row in its hand.
ReadIsHandled(c) ==
    /\ msg[c].pc # "idle" =>
          LET p == msg[c].id[1] IN
          /\ msg[c].at = pos[c][p] /\ msg[c].at \in 1..Len(topic[p])
          /\ topic[p][msg[c].at] = msg[c].id
    /\ \A p \in Pairs :
          /\ pos[c][p] <= Len(topic[p])
          /\ \A i \in 1..pos[c][p] :
                \/ Effective(topic[p][i])
                \/ msg[c].pc \in {"seen", "apply"} /\ topic[p][i] = msg[c].id

\* What the group has settled: inbox, markers and committed offsets.
Settled ==
    /\ \A id \in inbox : Effective(id) /\ Event(id).type = "UserBlocked"
    /\ \A id \in marks : Effective(id)
    /\ \A p \in Pairs : \A i \in 1..offset[p] : Effective(topic[p][i])
    /\ \A id \in Ids : times[id] = IF id \in inbox THEN 1 ELSE 0

IInv ==
    /\ DTypeOK
    /\ OnTopic
    /\ \A c \in Consumers : ReadIsHandled(c)
    /\ Settled

-----------------------------------------------------------------------------
(* Rows and pairs *)

LEMMA PairFacts ==
    ASSUME NEW d \in Directions
    PROVE  /\ Pair(d) \in Pairs /\ Reverse(d) \in Directions
           /\ BothWays(d) \subseteq Directions /\ d \in BothWays(d)
BY DEF Pair, Pairs, Directions, Reverse, BothWays

LEMMA RowFacts ==
    ASSUME DTypeOK, NEW id \in Rows
    PROVE  /\ id \in Ids /\ id[1] \in Pairs /\ id[2] \in 1..Len(log[id[1]])
           /\ Event(id) \in Events /\ Event(id).dir \in Directions
<1>1. id \in Ids /\ id[1] \in Pairs /\ id[2] \in 1..MaxLog /\ id[2] <= Len(log[id[1]])
  BY DEF Rows, Ids
<1>2. log[id[1]] \in Seq(Events) /\ Len(log[id[1]]) \in Nat
  BY <1>1 DEF DTypeOK
<1>3. id[2] \in 1..Len(log[id[1]])
  BY <1>1, <1>2, DeliveryConstants DEF DeliveryConstants
<1>4. Event(id) \in Events
  BY <1>2, <1>3, ElementOfSeq DEF Event
<1> QED
  BY <1>1, <1>3, <1>4 DEF Events

\* Rows, partitions, inbox and cooldowns only grow.
Grows ==
    /\ Rows \subseteq Rows'
    /\ \A id \in Rows : log'[id[1]][id[2]] = log[id[1]][id[2]]
    /\ \A p \in Pairs : Len(topic'[p]) \in Nat /\ Len(topic[p]) <= Len(topic'[p])
    /\ \A p \in Pairs : \A i \in 1..Len(topic[p]) : topic'[p][i] = topic[p][i]
    /\ inbox \subseteq inbox' /\ cooldown \subseteq cooldown'

LEMMA EffectStays ==
    ASSUME Grows, NEW id \in Rows, Effective(id)
    PROVE  Effective(id)'
BY DEF Grows, Effective, Event

LEMMA TopicFacts ==
    ASSUME DTypeOK, NEW p \in Pairs
    PROVE  /\ Len(topic[p]) \in Nat
           /\ \A i \in 1..Len(topic[p]) : topic[p][i] \in Rows
<1>1. topic[p] \in Seq(Rows)
  BY DEF DTypeOK
<1> QED
  BY <1>1, ElementOfSeq, LenProperties

LEMMA OnTopicStays ==
    ASSUME DTypeOK, Grows, NEW id \in Rows, Delivered(id)
    PROVE  Delivered(id)'
<1>1. PICK i \in 1..Len(topic[id[1]]) : topic[id[1]][i] = id
  BY DEF Delivered
<1>2. id[1] \in Pairs /\ Len(topic[id[1]]) \in Nat
  BY RowFacts, TopicFacts
<1>3. topic'[id[1]][i] = id /\ i \in 1..Len(topic'[id[1]])
  BY <1>1, <1>2 DEF Grows
<1> QED
  BY <1>3 DEF Delivered

LEMMA ReaderStays ==
    ASSUME IInv, Grows, NEW c \in Consumers, pos'[c] = pos[c], msg'[c] = msg[c]
    PROVE  ReadIsHandled(c)'
<1> DTypeOK
  BY DEF IInv
<1>1. ReadIsHandled(c)
  BY DEF IInv
<1>2. ASSUME msg[c].pc # "idle", NEW p, p = msg[c].id[1]
      PROVE  /\ msg[c].at = pos[c][p] /\ msg[c].at \in 1..Len(topic'[p])
             /\ topic'[p][msg[c].at] = msg[c].id
  <2>1. msg[c].id \in Rows
    BY <1>2 DEF DTypeOK, Messages, Idle
  <2>2. p \in Pairs
    BY <1>2, <2>1, RowFacts
  <2> QED
    BY <1>1, <1>2, <2>2, TopicFacts DEF ReadIsHandled, Grows
<1>3. ASSUME NEW p \in Pairs
      PROVE  pos[c][p] \in Nat /\ pos[c][p] <= Len(topic[p]) /\ pos[c][p] <= Len(topic'[p])
  <2>1. pos[c][p] \in Nat /\ pos[c][p] <= Len(topic[p]) /\ Len(topic[p]) \in Nat
    BY <1>1, TopicFacts DEF ReadIsHandled, DTypeOK
  <2> QED
    BY <2>1 DEF Grows
<1>4. ASSUME NEW p \in Pairs, NEW i \in 1..pos[c][p]
      PROVE  \/ Effective(topic[p][i])'
             \/ msg[c].pc \in {"seen", "apply"} /\ topic'[p][i] = msg[c].id
  <2>1. i \in 1..Len(topic[p])
    BY <1>3, TopicFacts
  <2>2. PICK id \in Rows : id = topic[p][i] /\ topic'[p][i] = id
    BY <2>1, TopicFacts DEF Grows
  <2>3. \/ Effective(id)
        \/ msg[c].pc \in {"seen", "apply"} /\ topic[p][i] = msg[c].id
    BY <1>1, <2>2 DEF ReadIsHandled
  <2> QED
    BY <2>2, <2>3, EffectStays DEF Effective, Event
<1> QED
  BY <1>2, <1>3, <1>4 DEF ReadIsHandled

LEMMA ConsumersStay ==
    ASSUME IInv, Grows, UNCHANGED consumer
    PROVE  Settled' /\ \A c \in Consumers : ReadIsHandled(c)'
<1> DTypeOK /\ Settled
  BY DEF IInv
<1>1. UNCHANGED <<offset, pos, msg, inbox, times, marks, cooldown>>
  BY DEF consumer
<1>2. \A id \in inbox' : (Effective(id) /\ Event(id).type = "UserBlocked")'
  BY <1>1, EffectStays DEF DTypeOK, Settled, Grows, Event
<1>3. \A id \in marks' : Effective(id)'
  BY <1>1, EffectStays DEF DTypeOK, Settled
<1>4. ASSUME NEW p \in Pairs, NEW i \in 1..offset[p]
      PROVE  Effective(topic[p][i])'
  <2>1. offset[p] \in Nat /\ i \in 1..Len(topic[p])
    BY TopicFacts DEF DTypeOK
  <2>2. PICK id \in Rows : id = topic[p][i] /\ topic'[p][i] = id
    BY <2>1, TopicFacts DEF Grows
  <2>3. Effective(id)
    BY <2>2 DEF Settled
  <2> QED
    BY <2>2, <2>3, EffectStays DEF Effective, Event
<1>5. Settled'
  BY <1>1, <1>2, <1>3, <1>4 DEF Settled
<1>6. \A c \in Consumers : ReadIsHandled(c)'
  BY <1>1, ReaderStays
<1> QED
  BY <1>5, <1>6

-----------------------------------------------------------------------------
(* The transactions that write the log *)

LEMMA AppendFacts ==
    ASSUME NEW S, NEW seq \in Seq(S), NEW e \in S
    PROVE  /\ Append(seq, e) \in Seq(S) /\ Len(Append(seq, e)) = Len(seq) + 1 /\ Len(seq) \in Nat
           /\ \A i \in 1..Len(seq) : Append(seq, e)[i] = seq[i]
           /\ Append(seq, e)[Len(seq) + 1] = e
BY AppendProperties, LenProperties

LEMMA LogGrows ==
    ASSUME DTypeOK, NEW d \in Directions, Transaction(d)
    PROVE  /\ log' \in [Pairs -> Seq(Events)] /\ blocks' \subseteq Directions
           /\ \A p \in Pairs : Len(log[p]) <= Len(log'[p])
           /\ \A p \in Pairs : \A i \in 1..Len(log[p]) : log'[p][i] = log[p][i]
           /\ \E x \in Ids : Rows' = Rows \cup {x} /\ x \notin Rows
<1>1. PICK type \in EventTypes :
         /\ Len(log[Pair(d)]) < MaxLog
         /\ log' = [log EXCEPT ![Pair(d)] = Append(@, [type |-> type, dir |-> d])]
  BY DEF Transaction, Followed, Blocked, Unblocked, Announce, EventTypes
<1>2. blocks' \subseteq Directions
  BY DEF Transaction, Followed, Blocked, Unblocked, DTypeOK
<1> DEFINE e == [type |-> type, dir |-> d]
           q == Pair(d)
           new == Append(log[q], e)
<1>3. e \in Events /\ q \in Pairs /\ log[q] \in Seq(Events)
  BY PairFacts DEF Events, DTypeOK
<1>4. log' = [log EXCEPT ![q] = new] /\ Len(log[q]) < MaxLog
  BY <1>1
<1> HIDE DEF e, q
<1>5. /\ new \in Seq(Events) /\ Len(new) = Len(log[q]) + 1 /\ Len(log[q]) \in Nat
      /\ \A i \in 1..Len(log[q]) : new[i] = log[q][i]
  BY <1>3, AppendFacts
<1> HIDE DEF new
<1>6. /\ log' \in [Pairs -> Seq(Events)] /\ log'[q] = new
      /\ \A p \in Pairs \ {q} : log'[p] = log[p]
  BY <1>3, <1>4, <1>5 DEF DTypeOK
<1>7. \A p \in Pairs : Len(log[p]) \in Nat
  BY DEF DTypeOK
<1>8. \A p \in Pairs : Len(log[p]) <= Len(log'[p])
  BY <1>5, <1>6, <1>7
<1>9. \A p \in Pairs : \A i \in 1..Len(log[p]) : log'[p][i] = log[p][i]
  BY <1>5, <1>6
<1>10. \E x \in Ids : Rows' = Rows \cup {x} /\ x \notin Rows
  <2> DEFINE x == <<q, Len(new)>>
  <2>1. x \in Ids /\ x \notin Rows
    BY <1>3, <1>4, <1>5, DeliveryConstants DEF Ids, Rows, DeliveryConstants
  <2>2. ASSUME NEW id \in Ids
        PROVE  id[2] <= Len(log'[id[1]]) <=> id[2] <= Len(log[id[1]]) \/ id = x
    <3>1. id = <<id[1], id[2]>> /\ id[1] \in Pairs /\ id[2] \in Nat
      BY DeliveryConstants DEF Ids, DeliveryConstants
    <3>2. CASE id[1] = q
      BY <1>5, <1>6, <3>1, <3>2
    <3>3. CASE id[1] # q
      BY <1>6, <3>1, <3>3
    <3> QED
      BY <3>2, <3>3
  <2>3. Rows' = Rows \cup {x}
    BY <2>1, <2>2 DEF Rows
  <2> QED
    BY <2>1, <2>3
<1> QED
  BY <1>2, <1>6, <1>8, <1>9, <1>10

LEMMA TransactionKeeps ==
    ASSUME IInv, NEW d \in Directions, Transaction(d)
    PROVE  IInv'
<1> DTypeOK
  BY DEF IInv
<1>1. UNCHANGED <<relay, consumer, faults>>
  BY DEF Transaction
<1>2. UNCHANGED <<published, lease, batch, sent, topic>>
  BY <1>1 DEF relay
<1>3. Rows \subseteq Rows'
  BY LogGrows
<1>4. Grows
  <2>1. \A id \in Rows : log'[id[1]][id[2]] = log[id[1]][id[2]]
    BY RowFacts, LogGrows
  <2> QED
    BY <1>1, <1>2, <1>3, <2>1, TopicFacts DEF Grows, consumer
<1>5. DTypeOK'
  <2>1. topic' \in [Pairs -> Seq(Rows')]
    <3>1. Seq(Rows) \subseteq Seq(Rows')
      BY <1>3, SeqMonotonic
    <3> QED
      BY <1>2, <3>1 DEF DTypeOK
  <2>2. msg' \in [Consumers -> Messages' \cup {Idle}]
    <3>1. Messages \subseteq Messages'
      BY <1>3 DEF Messages
    <3> QED
      BY <1>1, <3>1 DEF DTypeOK, consumer
  <2>3. published' \subseteq Rows' /\ inbox' \subseteq Rows' /\ marks' \subseteq Rows'
    BY <1>1, <1>2, <1>3 DEF DTypeOK, consumer
  <2>4. batch' \in [Relays -> SUBSET Rows'] /\ sent' \in [Relays -> SUBSET Rows']
    BY <1>2, <1>3 DEF DTypeOK
  <2> QED
    BY <1>1, <1>2, <2>1, <2>2, <2>3, <2>4, LogGrows DEF DTypeOK, consumer, Idle
<1>6. OnTopic'
  BY <1>2 DEF IInv, OnTopic, Delivered
<1> QED
  BY <1>1, <1>4, <1>5, <1>6, ConsumersStay DEF IInv

-----------------------------------------------------------------------------
(* The relays *)

LEMMA RowsStay ==
    ASSUME UNCHANGED log
    PROVE  /\ Rows' = Rows /\ Messages' = Messages
           /\ \A id : Event(id)' = Event(id)
BY DEF Rows, Messages, Event

LEMMA SentFacts ==
    ASSUME DTypeOK, OnTopic, NEW id \in Rows, Sent(id), UNCHANGED <<log, inbox, cooldown>>
    PROVE  /\ Grows /\ topic' \in [Pairs -> Seq(Rows)] /\ Delivered(id)'
           /\ \A p \in Pairs : \A i \in 1..Len(topic'[p]) : topic'[p][i][1] = p
<1> DEFINE q == id[1]
           new == Append(topic[q], id)
<1>1. q \in Pairs /\ topic[q] \in Seq(Rows)
  BY RowFacts DEF DTypeOK
<1>2. topic' = [topic EXCEPT ![q] = new]
  BY DEF Sent
<1>3. /\ new \in Seq(Rows) /\ Len(new) = Len(topic[q]) + 1 /\ Len(topic[q]) \in Nat
      /\ \A i \in 1..Len(topic[q]) : new[i] = topic[q][i]
      /\ new[Len(topic[q]) + 1] = id
  BY <1>1, AppendFacts
<1> HIDE DEF new
<1>4. /\ topic' \in [Pairs -> Seq(Rows)] /\ topic'[q] = new
      /\ \A p \in Pairs \ {q} : topic'[p] = topic[p]
  BY <1>1, <1>2, <1>3 DEF DTypeOK
<1>5. \A p \in Pairs : Len(topic'[p]) \in Nat /\ Len(topic[p]) <= Len(topic'[p])
  BY <1>3, <1>4, TopicFacts
<1>6. \A p \in Pairs : \A i \in 1..Len(topic[p]) : topic'[p][i] = topic[p][i]
  BY <1>3, <1>4
<1>7. Grows
  BY <1>5, <1>6, RowsStay DEF Grows
<1>8. Delivered(id)'
  <2>1. Len(topic'[q]) \in 1..Len(topic'[q]) /\ topic'[q][Len(topic'[q])] = id
    BY <1>3, <1>4
  <2> QED
    BY <2>1 DEF Delivered
<1>9. ASSUME NEW p \in Pairs, NEW i \in 1..Len(topic'[p]) PROVE topic'[p][i][1] = p
  <2>1. CASE p = q
    <3>1. i \in 1..Len(topic[q]) \/ i = Len(topic[q]) + 1
      BY <1>3, <1>4, <2>1
    <3>2. CASE i \in 1..Len(topic[q])
      BY <1>1, <1>6, <2>1, <3>2 DEF OnTopic
    <3>3. CASE i = Len(topic[q]) + 1
      BY <1>3, <1>4, <2>1, <3>3
    <3> QED
      BY <3>1, <3>2, <3>3
  <2>2. CASE p # q
    BY <1>4, <2>2 DEF OnTopic
  <2> QED
    BY <2>1, <2>2
<1> QED
  BY <1>4, <1>7, <1>8, <1>9

\* What a relay may do: put rows on the topic, and mark those that are on it.
LEMMA RelayKeeps ==
    ASSUME IInv, UNCHANGED <<blocks, log, consumer>>,
           topic' = topic \/ \E id \in Rows : Sent(id),
           published' \subseteq Rows,
           lease' \in [Ids -> Relays \cup {"none", "backoff"}],
           batch' \in [Relays -> SUBSET Rows], sent' \in [Relays -> SUBSET Rows],
           \A r \in Relays : sent'[r] \subseteq batch'[r],
           faults' \in 0..MaxFaults,
           \A id \in published' : Delivered(id) \/ Delivered(id)',
           \A r \in Relays : \A id \in sent'[r] : Delivered(id) \/ Delivered(id)'
    PROVE  IInv'
<1> DTypeOK /\ OnTopic
  BY DEF IInv
<1>1. UNCHANGED <<offset, pos, msg, inbox, times, marks, cooldown>>
  BY DEF consumer
<1>2. /\ Grows /\ topic' \in [Pairs -> Seq(Rows)]
      /\ \A p \in Pairs : \A i \in 1..Len(topic'[p]) : topic'[p][i][1] = p
  <2>1. CASE topic' = topic
    <3>1. Grows
      BY <1>1, <2>1, RowsStay, TopicFacts DEF Grows
    <3> QED
      BY <2>1, <3>1 DEF DTypeOK, OnTopic
  <2>2. CASE \E id \in Rows : Sent(id)
    BY <1>1, <2>2, SentFacts
  <2> QED
    BY <2>1, <2>2
<1>3. \A p \in Pairs : offset[p] <= Len(topic'[p])
  <2> SUFFICES ASSUME NEW p \in Pairs PROVE offset[p] <= Len(topic'[p])
    OBVIOUS
  <2>1. offset[p] \in Nat /\ offset[p] <= Len(topic[p]) /\ Len(topic[p]) \in Nat
    BY TopicFacts DEF DTypeOK
  <2> QED
    BY <1>2, <2>1 DEF Grows
<1>4. DTypeOK'
  BY <1>1, <1>2, <1>3, RowsStay DEF DTypeOK
<1>5. \A id \in Rows : Delivered(id) => Delivered(id)'
  BY <1>2, OnTopicStays
<1>6. OnTopic'
  BY <1>2, <1>5 DEF OnTopic
<1> QED
  BY <1>2, <1>4, <1>6, ConsumersStay DEF IInv

LEMMA RelayFacts ==
    ASSUME IInv
    PROVE  /\ batch \in [Relays -> SUBSET Rows] /\ sent \in [Relays -> SUBSET Rows]
           /\ \A r \in Relays : sent[r] \subseteq batch[r]
           /\ published \subseteq Rows /\ lease \in [Ids -> Relays \cup {"none", "backoff"}]
           /\ \A id \in published : Delivered(id)
           /\ \A r \in Relays : \A id \in sent[r] : Delivered(id)
           /\ faults \in 0..MaxFaults
           /\ Fault => faults' \in 0..MaxFaults
BY DeliveryConstants DEF IInv, DTypeOK, OnTopic, Fault, DeliveryConstants

LEMMA LeaseKeeps ==
    ASSUME IInv, NEW r \in Relays, Lease(r)
    PROVE  IInv'
<1>1. PICK ids \in SUBSET Claimable :
         /\ batch[r] = {} /\ batch' = [batch EXCEPT ![r] = ids]
         /\ lease' = [id \in Ids |-> IF id \in ids THEN r ELSE lease[id]]
         /\ UNCHANGED <<blocks, log, published, sent, topic, consumer, faults>>
  BY DEF Lease, Claim
<1>2. ids \in SUBSET Rows
  BY DEF Claimable
<1>3. /\ batch' \in [Relays -> SUBSET Rows]
      /\ \A x \in Relays : sent'[x] \subseteq batch'[x]
      /\ lease' \in [Ids -> Relays \cup {"none", "backoff"}]
  BY <1>1, <1>2, RelayFacts
<1> QED
  BY <1>1, <1>3, RelayFacts, RelayKeeps

LEMMA PublishKeeps ==
    ASSUME IInv, NEW r \in Relays, NEW id \in Ids, Publish(r, id)
    PROVE  IInv'
<1>1. /\ sent[r] = {} /\ id \in batch[r] /\ Sent(id) /\ sent' = [sent EXCEPT ![r] = {id}]
      /\ UNCHANGED <<blocks, log, published, lease, batch, consumer, faults>>
  BY DEF Publish
<1>2. id \in Rows
  BY <1>1, RelayFacts
<1>3. Delivered(id)'
  BY <1>1, <1>2, SentFacts DEF IInv, consumer
<1>4. /\ sent' \in [Relays -> SUBSET Rows]
      /\ \A x \in Relays : sent'[x] \subseteq batch'[x]
      /\ \A x \in Relays : \A y \in sent'[x] : y \in sent[x] \/ y = id
  BY <1>1, <1>2, RelayFacts
<1> QED
  BY <1>1, <1>2, <1>3, <1>4, RelayFacts, RelayKeeps

LEMMA PublishFailsKeeps ==
    ASSUME IInv, NEW r \in Relays, NEW id \in Ids, PublishFails(r, id)
    PROVE  IInv'
<1>1. /\ sent[r] = {} /\ id \in batch[r]
      /\ Sent(id) \/ topic' = topic
      /\ batch' = [batch EXCEPT ![r] = @ \ {id}] /\ lease' = [lease EXCEPT ![id] = "backoff"]
      /\ Fault /\ UNCHANGED <<blocks, log, published, sent, consumer>>
  BY DEF PublishFails
<1>2. id \in Rows
  BY <1>1, RelayFacts
<1>3. /\ batch' \in [Relays -> SUBSET Rows]
      /\ \A x \in Relays : sent'[x] \subseteq batch'[x]
      /\ lease' \in [Ids -> Relays \cup {"none", "backoff"}]
  BY <1>1, <1>2, RelayFacts
<1> QED
  BY <1>1, <1>2, <1>3, RelayFacts, RelayKeeps

LEMMA MarkPublishedKeeps ==
    ASSUME IInv, NEW r \in Relays, MarkPublished(r)
    PROVE  IInv'
<1>1. /\ published' = published \cup sent[r]
      /\ lease' = [id \in Ids |-> IF id \in sent[r] THEN "none" ELSE lease[id]]
      /\ batch' = [batch EXCEPT ![r] = @ \ sent[r]] /\ sent' = [sent EXCEPT ![r] = {}]
      /\ UNCHANGED <<blocks, log, topic, consumer, faults>>
  BY DEF MarkPublished
<1>2. /\ batch' \in [Relays -> SUBSET Rows] /\ sent' \in [Relays -> SUBSET Rows]
      /\ \A x \in Relays : sent'[x] \subseteq batch'[x] /\ sent'[x] \subseteq sent[x]
      /\ lease' \in [Ids -> Relays \cup {"none", "backoff"}]
      /\ published' \subseteq Rows
  BY <1>1, RelayFacts
<1> QED
  BY <1>1, <1>2, RelayFacts, RelayKeeps

LEMMA RelayStopsKeeps ==
    ASSUME IInv, NEW r \in Relays, RelayStops(r)
    PROVE  IInv'
<1>1. /\ batch' = [batch EXCEPT ![r] = {}] /\ sent' = [sent EXCEPT ![r] = {}]
      /\ Fault /\ UNCHANGED <<blocks, log, published, lease, topic, consumer>>
  BY DEF RelayStops
<1>2. /\ batch' \in [Relays -> SUBSET Rows] /\ sent' \in [Relays -> SUBSET Rows]
      /\ \A x \in Relays : sent'[x] \subseteq batch'[x] /\ sent'[x] \subseteq sent[x]
  BY <1>1, RelayFacts
<1> QED
  BY <1>1, <1>2, RelayFacts, RelayKeeps

LEMMA LeaseRunsOutKeeps ==
    ASSUME IInv, NEW id \in Ids, LeaseRunsOut(id) \/ LeaseRunsOutEarly(id)
    PROVE  IInv'
<1>1. /\ lease' = [lease EXCEPT ![id] = "none"]
      /\ Fault \/ faults' = faults
      /\ UNCHANGED <<blocks, log, published, batch, sent, topic, consumer>>
  BY DEF LeaseRunsOut, LeaseRunsOutEarly, RunOut
<1>2. lease' \in [Ids -> Relays \cup {"none", "backoff"}]
  BY <1>1, RelayFacts
<1> QED
  BY <1>1, <1>2, RelayFacts, RelayKeeps

-----------------------------------------------------------------------------
(* The consumers *)

OtherReaders(c) == \A g \in Consumers \ {c} : pos'[g] = pos[g] /\ msg'[g] = msg[g]

LEMMA ConsumerKeeps ==
    ASSUME IInv, NEW c \in Consumers, UNCHANGED <<blocks, log, relay>>, faults' \in 0..MaxFaults,
           offset' \in [Pairs -> Nat], \A p \in Pairs : offset'[p] <= Len(topic[p]),
           pos' \in [Consumers -> [Pairs -> Nat]],
           msg' \in [Consumers -> Messages \cup {Idle}], OtherReaders(c),
           inbox' \subseteq Rows, marks' \subseteq Rows, times' \in [Ids -> Nat],
           cooldown' \subseteq Directions, inbox \subseteq inbox', cooldown \subseteq cooldown',
           Settled', ReadIsHandled(c)'
    PROVE  IInv'
<1> DTypeOK
  BY DEF IInv
<1>1. UNCHANGED <<published, lease, batch, sent, topic>>
  BY DEF relay
<1>2. Grows
  BY <1>1, RowsStay, TopicFacts DEF Grows
<1>3. DTypeOK'
  BY <1>1, RowsStay DEF DTypeOK
<1>4. OnTopic'
  BY <1>1 DEF IInv, OnTopic, Delivered
<1>5. ASSUME NEW g \in Consumers PROVE ReadIsHandled(g)'
  BY <1>2, ReaderStays DEF OtherReaders
<1> QED
  BY <1>3, <1>4, <1>5 DEF IInv

LEMMA SettledStays ==
    ASSUME Settled, UNCHANGED <<log, topic, offset, inbox, times, marks, cooldown>>
    PROVE  Settled'
BY DEF Settled, Effective, Event

\* What a consumer has in hand.
LEMMA HandFacts ==
    ASSUME IInv, NEW c \in Consumers, msg[c].pc # "idle"
    PROVE  /\ msg[c] \in Messages /\ msg[c].id \in Rows /\ msg[c].id[1] \in Pairs
           /\ msg[c].at = pos[c][msg[c].id[1]] /\ msg[c].at \in 1..Len(topic[msg[c].id[1]])
           /\ topic[msg[c].id[1]][msg[c].at] = msg[c].id
           /\ msg[c].pc \notin {"seen", "apply"} => Effective(msg[c].id)
<1> DTypeOK /\ ReadIsHandled(c)
  BY DEF IInv
<1>1. msg[c] \in Messages /\ msg[c].id \in Rows
  BY DEF DTypeOK, Messages, Idle
<1>2. PICK p \in Pairs : p = msg[c].id[1]
  BY <1>1, RowFacts
<1>3. /\ msg[c].at = pos[c][p] /\ msg[c].at \in 1..Len(topic[p])
      /\ topic[p][msg[c].at] = msg[c].id
  BY <1>2 DEF ReadIsHandled
<1>4. msg[c].at \in 1..pos[c][p]
  <2>1. pos[c][p] \in Nat
    BY DEF DTypeOK
  <2> QED
    BY <1>3, <2>1
<1>5. msg[c].pc \notin {"seen", "apply"} => Effective(topic[p][msg[c].at])
  BY <1>4 DEF ReadIsHandled
<1> QED
  BY <1>1, <1>2, <1>3, <1>5

LEMMA GotoFacts ==
    ASSUME DTypeOK, NEW c \in Consumers, msg[c] \in Messages,
           NEW pc \in {"seen", "apply", "mark", "commit"}, Goto(c, pc)
    PROVE  /\ msg' \in [Consumers -> Messages \cup {Idle}]
           /\ msg'[c].pc = pc /\ msg'[c].id = msg[c].id /\ msg'[c].at = msg[c].at
           /\ \A g \in Consumers \ {c} : msg'[g] = msg[g]
<1> DEFINE r == msg[c]
           s == [r EXCEPT !.pc = pc]
<1>1. msg' = [msg EXCEPT ![c] = s]
  BY DEF Goto
<1>2. r \in Messages
  OBVIOUS
<1> HIDE DEF r
<1>3. s \in Messages /\ s.pc = pc /\ s.id = r.id /\ s.at = r.at
  BY <1>2 DEF Messages
<1> HIDE DEF s
<1> QED
  BY <1>1, <1>3 DEF DTypeOK, r

\* The row stays in hand, and either it is still to be handled or it has been.
LEMMA StillInHand ==
    ASSUME IInv, NEW c \in Consumers, msg[c].pc # "idle", Grows,
           NEW x, x = msg[c].id, msg'[c].id = x, msg'[c].at = msg[c].at, UNCHANGED <<topic, pos>>,
           msg'[c].pc \in {"seen", "apply"} \/ Effective(x)'
    PROVE  ReadIsHandled(c)'
<1> DTypeOK /\ ReadIsHandled(c)
  BY DEF IInv
<1>1. msg'[c].pc # "idle" => LET p == msg'[c].id[1] IN
          /\ msg'[c].at = pos'[c][p] /\ msg'[c].at \in 1..Len(topic'[p])
          /\ topic'[p][msg'[c].at] = msg'[c].id
  BY HandFacts
<1>2. ASSUME NEW p \in Pairs PROVE pos'[c][p] <= Len(topic'[p])
  BY DEF ReadIsHandled
<1>3. ASSUME NEW p \in Pairs, NEW i \in 1..pos[c][p]
      PROVE  \/ Effective(topic[p][i])'
             \/ msg'[c].pc \in {"seen", "apply"} /\ topic'[p][i] = msg'[c].id
  <2>1. i \in 1..Len(topic[p])
    <3>1. pos[c][p] \in Nat /\ pos[c][p] <= Len(topic[p]) /\ Len(topic[p]) \in Nat
      BY TopicFacts DEF ReadIsHandled, DTypeOK
    <3> QED
      BY <3>1
  <2>2. PICK id \in Rows : id = topic[p][i] /\ topic'[p][i] = id
    BY <2>1, TopicFacts
  <2>3. Effective(id) \/ id = x
    BY <2>2 DEF ReadIsHandled
  <2>4. CASE Effective(id)
    <3>1. Effective(id)'
      BY <2>4, EffectStays
    <3> QED
      BY <2>2, <3>1 DEF Effective, Event
  <2>5. CASE id = x
    <3>1. CASE msg'[c].pc \in {"seen", "apply"}
      BY <2>2, <2>5, <3>1
    <3>2. CASE Effective(x)'
      BY <2>2, <2>5, <3>2 DEF Effective, Event
    <3> QED
      BY <3>1, <3>2
  <2> QED
    BY <2>3, <2>4, <2>5
<1> QED
  BY <1>1, <1>2, <1>3 DEF ReadIsHandled

LEMMA FetchKeeps ==
    ASSUME IInv, NEW c \in Consumers, NEW p \in Pairs, Fetch(c, p)
    PROVE  IInv'
<1> DTypeOK /\ OnTopic /\ Settled /\ ReadIsHandled(c)
  BY DEF IInv
<1> DEFINE at == pos[c][p] + 1
           x == [pc |-> "seen", id |-> topic[p][at], at |-> at]
           now == [pos[c] EXCEPT ![p] = at]
<1>1. /\ msg[c].pc = "idle" /\ pos[c][p] < Len(topic[p])
      /\ msg' = [msg EXCEPT ![c] = x]
      /\ UNCHANGED <<blocks, log, relay, faults, offset, inbox, times, marks, cooldown>>
  BY DEF Fetch, GroupKept
<1>2. pos' = [pos EXCEPT ![c] = now]
  BY DEF Fetch
<1>3. /\ pos[c] \in [Pairs -> Nat] /\ Len(topic[p]) \in Nat /\ at \in 1..Len(topic[p]) /\ at \in Nat
  BY <1>1, TopicFacts DEF DTypeOK
<1>4. x.id = topic[p][at] /\ x.id \in Rows /\ x.id[1] = p /\ x.at = at /\ x.pc = "seen"
  BY <1>3, TopicFacts DEF OnTopic
<1>5. x \in Messages
  BY <1>3, <1>4 DEF Messages
<1>6. /\ now \in [Pairs -> Nat] /\ now[p] = at
      /\ \A q \in Pairs \ {p} : now[q] = pos[c][q]
  BY <1>3
<1>7. UNCHANGED topic
  BY <1>1 DEF relay
<1> HIDE DEF x, now, at
<1>8. /\ pos' \in [Consumers -> [Pairs -> Nat]] /\ pos'[c] = now
      /\ msg' \in [Consumers -> Messages \cup {Idle}] /\ msg'[c] = x /\ OtherReaders(c)
  BY <1>1, <1>2, <1>5, <1>6 DEF DTypeOK, OtherReaders
<1>9. ASSUME NEW q \in Pairs
      PROVE  now[q] <= Len(topic[q])
  BY <1>3, <1>6 DEF ReadIsHandled
<1>10. ASSUME NEW q \in Pairs, NEW i \in 1..now[q]
       PROVE  Effective(topic[q][i]) \/ topic[q][i] = x.id
  <2>1. pos[c][q] \in Nat
    BY <1>3
  <2>2. i \in 1..pos[c][q] \/ (q = p /\ i = at)
    BY <1>6, <2>1 DEF at
  <2> QED
    BY <1>1, <1>4, <2>2 DEF ReadIsHandled
<1>11. \A q \in Pairs : \A i \in 1..now[q] : Effective(topic[q][i]) => Effective(topic[q][i])'
  BY <1>1, <1>7 DEF Effective, Event
<1>12. ReadIsHandled(c)'
  BY <1>3, <1>4, <1>6, <1>7, <1>8, <1>9, <1>10, <1>11 DEF ReadIsHandled
<1>13. Settled'
  BY <1>1, <1>7, SettledStays
<1> QED
  BY <1>1, <1>8, <1>12, <1>13, ConsumerKeeps DEF DTypeOK

LEMMA SeenKeeps ==
    ASSUME IInv, NEW c \in Consumers, Seen(c)
    PROVE  IInv'
<1> DTypeOK /\ Settled
  BY DEF IInv
<1>1. /\ msg[c].pc = "seen"
      /\ UNCHANGED <<blocks, log, relay, faults, offset, pos, inbox, times, marks, cooldown>>
  BY DEF Seen, GroupKept
<1>2. PICK pc \in {"commit", "apply"} : Goto(c, pc) /\ (pc = "commit" => msg[c].id \in marks)
  BY DEF Seen
<1>3. msg[c] \in Messages
  BY <1>1, HandFacts
<1>4. /\ msg' \in [Consumers -> Messages \cup {Idle}] /\ OtherReaders(c)
      /\ msg'[c].pc = pc /\ msg'[c].id = msg[c].id /\ msg'[c].at = msg[c].at
  BY <1>1, <1>2, <1>3, GotoFacts DEF OtherReaders
<1>5. UNCHANGED topic /\ Grows
  BY <1>1, RowsStay, TopicFacts DEF relay, Grows
<1>6. \A x : x = msg[c].id /\ pc = "commit" => Effective(x)'
  BY <1>1, <1>2 DEF Settled, Effective, Event
<1>7. ReadIsHandled(c)'
  BY <1>1, <1>2, <1>4, <1>5, <1>6, StillInHand
<1>8. Settled'
  BY <1>1, <1>5, SettledStays
<1> QED
  BY <1>1, <1>4, <1>7, <1>8, ConsumerKeeps DEF DTypeOK

LEMMA MarkAppliedKeeps ==
    ASSUME IInv, NEW c \in Consumers, MarkApplied(c)
    PROVE  IInv'
<1> DTypeOK /\ Settled
  BY DEF IInv
<1>1. /\ msg[c].pc = "mark" /\ Goto(c, "commit") /\ marks' \in {marks, marks \cup {msg[c].id}}
      /\ UNCHANGED <<blocks, log, relay, faults, offset, pos, inbox, times, cooldown>>
  BY DEF MarkApplied, GroupKept
<1>2. msg[c] \in Messages /\ msg[c].id \in Rows /\ Effective(msg[c].id)
  BY <1>1, HandFacts
<1>3. /\ msg' \in [Consumers -> Messages \cup {Idle}] /\ OtherReaders(c)
      /\ msg'[c].pc = "commit" /\ msg'[c].id = msg[c].id /\ msg'[c].at = msg[c].at
  BY <1>1, <1>2, GotoFacts DEF OtherReaders
<1>4. UNCHANGED topic /\ Grows
  BY <1>1, RowsStay, TopicFacts DEF relay, Grows
<1>5. \A id : Effective(id) => Effective(id)'
  BY <1>1 DEF Effective, Event
<1>6. ReadIsHandled(c)'
  BY <1>1, <1>2, <1>3, <1>4, <1>5, StillInHand
<1>7. Settled'
  BY <1>1, <1>2, <1>4, <1>5 DEF Settled, Effective, Event
<1>8. marks' \subseteq Rows
  BY <1>1, <1>2 DEF DTypeOK
<1> QED
  BY <1>1, <1>3, <1>6, <1>7, <1>8, ConsumerKeeps DEF DTypeOK

\* Either way the row's block has had its effect afterwards, once.
LEMMA ApplyKeeps ==
    ASSUME IInv, NEW c \in Consumers, Apply(c)
    PROVE  IInv'
<1> DTypeOK /\ Settled
  BY DEF IInv
<1>1. /\ msg[c].pc = "apply" /\ Goto(c, "mark")
      /\ UNCHANGED <<blocks, log, relay, faults, offset, pos, marks>>
  BY DEF Apply, GroupKept
<1>2. PICK id \in Rows : id = msg[c].id /\ msg[c] \in Messages
  BY <1>1, HandFacts
<1>3. /\ msg' \in [Consumers -> Messages \cup {Idle}] /\ OtherReaders(c)
      /\ msg'[c].pc = "mark" /\ msg'[c].id = msg[c].id /\ msg'[c].at = msg[c].at
  BY <1>1, <1>2, GotoFacts DEF OtherReaders
<1>4. \/ /\ Event(id).type = "UserBlocked" /\ id \notin inbox
         /\ inbox' = inbox \cup {id} /\ times' = [times EXCEPT ![id] = @ + 1]
         /\ cooldown' = cooldown \cup BothWays(Event(id).dir)
      \/ /\ ~(Event(id).type = "UserBlocked" /\ id \notin inbox)
         /\ UNCHANGED <<inbox, times, cooldown>>
  BY <1>2 DEF Apply
<1>5. id \in Ids /\ BothWays(Event(id).dir) \subseteq Directions
  BY RowFacts, PairFacts
<1>6. /\ inbox' \subseteq Rows /\ cooldown' \subseteq Directions /\ times' \in [Ids -> Nat]
      /\ inbox \subseteq inbox' /\ cooldown \subseteq cooldown'
  <2>1. inbox' \subseteq Rows /\ inbox \subseteq inbox'
    BY <1>4 DEF DTypeOK
  <2>2. cooldown' \subseteq Directions /\ cooldown \subseteq cooldown'
    BY <1>4, <1>5 DEF DTypeOK
  <2>3. times' \in [Ids -> Nat]
    BY <1>4, <1>5 DEF DTypeOK
  <2> QED
    BY <2>1, <2>2, <2>3
<1>7. UNCHANGED topic /\ Grows
  BY <1>1, <1>6, RowsStay, TopicFacts DEF relay, Grows
<1>8. \A x : Event(x)' = Event(x)
  BY <1>1, RowsStay
<1>9. Effective(id)'
  BY <1>4, <1>8 DEF Effective, Settled
<1>10. ReadIsHandled(c)'
  BY <1>1, <1>2, <1>3, <1>7, <1>9, StillInHand
<1>11. \A x : Effective(x) => Effective(x)'
  BY <1>6, <1>8 DEF Effective
<1>12. Settled'
  <2>1. \A x \in inbox' : (Effective(x) /\ Event(x).type = "UserBlocked")'
    BY <1>4, <1>8, <1>9, <1>11 DEF Settled
  <2>2. \A x \in marks' : Effective(x)'
    BY <1>1, <1>11 DEF Settled
  <2>3. \A p \in Pairs : \A i \in 1..offset[p] : Effective(topic[p][i])'
    BY <1>7, <1>11 DEF Settled, Effective, Event
  <2>4. \A x \in Ids : times'[x] = IF x \in inbox' THEN 1 ELSE 0
    BY <1>4, <1>5 DEF Settled, DTypeOK
  <2> QED
    BY <1>1, <2>1, <2>2, <2>3, <2>4 DEF Settled
<1> QED
  BY <1>1, <1>3, <1>6, <1>10, <1>12, ConsumerKeeps DEF DTypeOK

\* A consumer that lets its row go, and goes on where it is or where the group is.
LEMMA LetGo ==
    ASSUME IInv, NEW c \in Consumers, msg' = [msg EXCEPT ![c] = Idle],
           UNCHANGED <<blocks, log, relay, inbox, times, marks, cooldown>>,
           faults' \in 0..MaxFaults,
           offset' \in [Pairs -> Nat], \A p \in Pairs : offset'[p] <= Len(topic[p]),
           pos' \in [Consumers -> [Pairs -> Nat]], \A g \in Consumers \ {c} : pos'[g] = pos[g],
           \A p \in Pairs : \A i \in 1..offset'[p] : Effective(topic[p][i]),
           \A p \in Pairs : \A i \in 1..pos'[c][p] : Effective(topic[p][i]),
           \A p \in Pairs : pos'[c][p] <= Len(topic[p])
    PROVE  IInv'
<1> DTypeOK /\ Settled
  BY DEF IInv
<1>1. UNCHANGED topic
  BY DEF relay
<1>2. /\ msg' \in [Consumers -> Messages \cup {Idle}] /\ OtherReaders(c)
      /\ msg'[c].pc = "idle"
  BY DEF DTypeOK, OtherReaders, Idle
<1>3. \A p, i : Effective(topic[p][i]) => Effective(topic[p][i])'
  BY <1>1 DEF Effective, Event
<1>4. ReadIsHandled(c)'
  BY <1>1, <1>2, <1>3 DEF ReadIsHandled
<1>5. \A id : Effective(id) => Effective(id)'
  BY DEF Effective, Event
<1>6. \A id : Event(id)' = Event(id)
  BY RowsStay
<1>7. Settled'
  BY <1>3, <1>5, <1>6 DEF Settled
<1> QED
  BY <1>2, <1>4, <1>7, ConsumerKeeps DEF DTypeOK

LEMMA CommitKeeps ==
    ASSUME IInv, NEW c \in Consumers, Commit(c)
    PROVE  IInv'
<1> DTypeOK /\ Settled /\ ReadIsHandled(c)
  BY DEF IInv
<1>1. PICK q \in Pairs, at \in Nat : q = msg[c].id[1] /\ at = pos[c][q] /\ at = msg[c].at
  BY HandFacts DEF Commit, DTypeOK
<1>2. /\ msg[c].pc = "commit" /\ msg' = [msg EXCEPT ![c] = Idle]
      /\ offset' \in {offset, [offset EXCEPT ![q] = IF @ < at THEN at ELSE @]}
      /\ UNCHANGED <<blocks, log, relay, faults, pos, inbox, times, marks, cooldown>>
  BY <1>1 DEF Commit, GroupKept
<1>3. /\ offset' \in [Pairs -> Nat]
      /\ \A p \in Pairs : offset'[p] = offset[p] \/ (p = q /\ offset'[p] = at)
  <2>1. offset \in [Pairs -> Nat]
    BY DEF DTypeOK
  <2>2. CASE offset' = offset
    BY <2>1, <2>2
  <2>3. CASE offset' = [offset EXCEPT ![q] = IF @ < at THEN at ELSE @]
    BY <2>1, <2>3, <1>1
  <2> QED
    BY <1>2, <2>2, <2>3
<1>4. \A p \in Pairs : \A i \in 1..pos[c][p] : Effective(topic[p][i])
  BY <1>2 DEF ReadIsHandled
<1>5. \A p \in Pairs : pos[c][p] <= Len(topic[p]) /\ offset[p] <= Len(topic[p])
  BY DEF ReadIsHandled, DTypeOK
<1>6. \A p \in Pairs : offset'[p] <= Len(topic[p])
  BY <1>1, <1>3, <1>5
<1>7. \A p \in Pairs : \A i \in 1..offset'[p] : Effective(topic[p][i])
  BY <1>1, <1>3, <1>4 DEF Settled
<1> QED
  BY <1>2, <1>3, <1>4, <1>5, <1>6, <1>7, LetGo DEF DTypeOK

LEMMA RestartKeeps ==
    ASSUME IInv, NEW c \in Consumers, Restart(c)
    PROVE  IInv'
<1> DTypeOK /\ Settled
  BY DEF IInv
<1>1. /\ msg' = [msg EXCEPT ![c] = Idle] /\ pos' = [pos EXCEPT ![c] = offset]
      /\ Fault /\ UNCHANGED <<blocks, log, relay, offset, inbox, times, marks, cooldown>>
  BY DEF Restart
<1>2. pos' \in [Consumers -> [Pairs -> Nat]] /\ pos'[c] = offset
      /\ \A g \in Consumers \ {c} : pos'[g] = pos[g]
  BY <1>1 DEF DTypeOK
<1> QED
  BY <1>1, <1>2, LetGo, RelayFacts DEF Settled, DTypeOK

-----------------------------------------------------------------------------
(* The invariant *)

LEMMA InitInv == DInit => IInv
<1> SUFFICES ASSUME DInit PROVE IInv
  OBVIOUS
<1>1. log \in [Pairs -> Seq(Events)] /\ \A p \in Pairs : Len(log[p]) = 0
  BY DEF DInit, Init
<1>2. Rows = {}
  BY <1>1, DeliveryConstants DEF Rows, Ids, DeliveryConstants
<1>3. topic \in [Pairs -> Seq(Rows)] /\ \A p \in Pairs : Len(topic[p]) = 0
  BY DEF DInit
<1>4. DTypeOK
  <2>1. faults \in 0..MaxFaults
    BY DeliveryConstants DEF DInit, DeliveryConstants
  <2> QED
    BY <1>1, <1>3, <2>1 DEF DInit, Init, DTypeOK
<1>5. OnTopic
  BY <1>3 DEF DInit, OnTopic
<1>6. \A c \in Consumers : ReadIsHandled(c)
  BY <1>3 DEF DInit, ReadIsHandled, Idle
<1>7. Settled
  BY DEF DInit, Settled
<1> QED
  BY <1>4, <1>5, <1>6, <1>7 DEF IInv

LEMMA NextInv == IInv /\ [DNext]_vars => IInv'
<1> SUFFICES ASSUME IInv, [DNext]_vars PROVE IInv'
  OBVIOUS
<1>1. ASSUME NEW d \in Directions, Transaction(d) PROVE IInv'
  BY <1>1, TransactionKeeps
<1>2. ASSUME NEW r \in Relays,
             RelayStep(r) \/ RelayStops(r) \/ \E id \in Ids : PublishFails(r, id)
      PROVE  IInv'
  BY <1>2, LeaseKeeps, MarkPublishedKeeps, PublishKeeps, RelayStopsKeeps, PublishFailsKeeps
     DEF RelayStep
<1>3. ASSUME NEW id \in Ids, LeaseRunsOut(id) \/ LeaseRunsOutEarly(id) PROVE IInv'
  BY <1>3, LeaseRunsOutKeeps
<1>4. ASSUME NEW c \in Consumers, ConsumerStep(c) \/ Restart(c) PROVE IInv'
  BY <1>4, SeenKeeps, ApplyKeeps, MarkAppliedKeeps, CommitKeeps, FetchKeeps, RestartKeeps
     DEF ConsumerStep
<1>5. CASE UNCHANGED vars
  BY <1>5, RelayFacts, RelayKeeps DEF vars, relay
<1> QED
  BY <1>1, <1>2, <1>3, <1>4, <1>5 DEF DNext

\* Rows, leases, partitions, offsets and messages stay in range: above all no
\* committed offset passes the end of its partition.
THEOREM TypeCorrect == DSpec => []DTypeOK
<1>1. IInv => DTypeOK
  BY DEF IInv
<1> QED
  BY <1>1, InitInv, NextInv, PTL DEF DSpec

\* Whatever replicas share, lose or repeat, the relay marks no row the broker
\* does not have.
THEOREM MarkedIsOnTopic == DSpec => []PublishedIsOnTopic
<1>1. IInv => PublishedIsOnTopic
  BY DEF IInv, OnTopic, Delivered, PublishedIsOnTopic
<1> QED
  BY <1>1, InitInv, NextInv, PTL DEF DSpec

\* The committed offset never passes a block that has not taken effect, through
\* restarts, rebalances, failed commits and lost markers.
THEOREM NothingSkipped == DSpec => []CommittedIsApplied
<1>1. IInv => CommittedIsApplied
  BY DEF IInv, Settled, Effective, CommittedIsApplied
<1> QED
  BY <1>1, InitInv, NextInv, PTL DEF DSpec

-----------------------------------------------------------------------------
(* The delivery implements EffectOnce, but for its fairness *)

LEMMA TransactionOwes ==
    ASSUME IInv, NEW d \in Directions, Transaction(d)
    PROVE  [Effect!Next]_<<Owed, times>>
<1> DTypeOK
  BY DEF IInv
<1>1. PICK x \in Ids : Rows' = Rows \cup {x} /\ x \notin Rows
  BY LogGrows
<1>2. \A id \in Rows : Event(id)' = Event(id)
  BY LogGrows, RowFacts DEF Event
<1>3. Owed' = Owed \/ Owed' = Owed \cup {x}
  BY <1>1, <1>2 DEF Owed
<1>4. x \notin Owed /\ times' = times
  BY <1>1 DEF Owed, Transaction, consumer
<1> QED
  BY <1>3, <1>4 DEF Effect!Next, Effect!Owe

LEMMA ApplyRefines ==
    ASSUME IInv, NEW c \in Consumers, Apply(c)
    PROVE  [Effect!Next]_<<Owed, times>>
<1> DTypeOK /\ Settled
  BY DEF IInv
<1>1. PICK id \in Rows : id = msg[c].id
  BY HandFacts DEF Apply
<1>2. Owed' = Owed
  BY RowsStay DEF Apply, GroupKept, Owed
<1>3. CASE times' = times
  BY <1>2, <1>3
<1>4. CASE times' # times
  <2>1. Event(id).type = "UserBlocked" /\ id \notin inbox /\ times' = [times EXCEPT ![id] = @ + 1]
    BY <1>1, <1>4 DEF Apply
  <2>2. id \in Ids /\ id \in Owed /\ times[id] = 0
    BY <2>1, RowFacts DEF Owed, Settled
  <2>3. Effect!Apply(id)
    BY <1>2, <2>1, <2>2 DEF Effect!Apply
  <2> QED
    BY <2>2, <2>3 DEF Effect!Next
<1> QED
  BY <1>3, <1>4

LEMMA NextRefines == IInv /\ [DNext]_vars => [Effect!Next]_<<Owed, times>>
<1> SUFFICES ASSUME IInv, [DNext]_vars
             PROVE  [Effect!Next]_<<Owed, times>>
  OBVIOUS
<1>1. CASE UNCHANGED <<log, times>>
  BY <1>1, RowsStay DEF Owed
<1>2. ASSUME NEW d \in Directions, Transaction(d) PROVE [Effect!Next]_<<Owed, times>>
  BY <1>2, TransactionOwes
<1>3. ASSUME NEW r \in Relays,
             RelayStep(r) \/ RelayStops(r) \/ \E id \in Ids : PublishFails(r, id)
      PROVE  UNCHANGED <<log, times>>
  BY <1>3 DEF RelayStep, Lease, Claim, MarkPublished, Publish, RelayStops, PublishFails, consumer
<1>4. ASSUME NEW id \in Ids, LeaseRunsOut(id) \/ LeaseRunsOutEarly(id)
      PROVE  UNCHANGED <<log, times>>
  BY <1>4 DEF LeaseRunsOut, LeaseRunsOutEarly, RunOut, consumer
<1>5. ASSUME NEW c \in Consumers, Seen(c) \/ MarkApplied(c) \/ Commit(c) \/ Restart(c)
                                  \/ \E p \in Pairs : Fetch(c, p)
      PROVE  UNCHANGED <<log, times>>
  BY <1>5 DEF Seen, MarkApplied, Commit, Restart, Fetch, GroupKept
<1>6. ASSUME NEW c \in Consumers, ConsumerStep(c) \/ Restart(c)
      PROVE  [Effect!Next]_<<Owed, times>>
  BY <1>1, <1>5, <1>6, ApplyRefines DEF ConsumerStep
<1>7. CASE UNCHANGED vars
  BY <1>1, <1>7 DEF vars, consumer
<1> QED
  BY <1>1, <1>2, <1>3, <1>4, <1>6, <1>7 DEF DNext

\* Every block is owed to suggestion-service when it is committed and applied there
\* at most once: EffectSpec without its fairness.
THEOREM AppliedAtMostOnce == DSpec => Effect!Init /\ [][Effect!Next]_<<Owed, times>>
<1>1. DInit => Effect!Init
  <2> SUFFICES ASSUME DInit PROVE Effect!Init
    OBVIOUS
  <2>1. Rows = {}
    BY DeliveryConstants DEF DInit, Init, Rows, Ids, DeliveryConstants
  <2> QED
    BY <2>1 DEF DInit, Effect!Init, Owed
<1> QED
  BY <1>1, InitInv, NextInv, NextRefines, PTL DEF DSpec
=============================================================================
