----------------------------- MODULE OutboxRelay -----------------------------
(***************************************************************************)
(* The outbox relay: relay_batch, run by one or more relay processes over  *)
(* the table outbox_events and one Kafka topic.                            *)
(*                                                                         *)
(* An event is its created_at: a smaller event is an older one.  The topic *)
(* is the order in which the broker appended the events.                   *)
(***************************************************************************)
EXTENDS Integers, Sequences, FiniteSets, SequencesExt

CONSTANTS
    None,           \* nobody, in the lock table
    Relays,
    Events,         \* the events the ingestion service will write
    Key,            \* Key[e]: partition_key of e
    BatchSize,
    RetryLimit,     \* a failure is the last one when retry_count has reached it
    MaxOutages,     \* bound on the outages of Kafka
    MaxFaults       \* bound on crashes, failed and unseen commits

ASSUME EventsAssumption == Events \subseteq Nat \ {0} /\ IsFiniteSet(Events)
ASSUME BatchSizeAssumption == BatchSize \in Nat \ {0}
ASSUME NoneAssumption == None \notin Relays
ASSUME RetryLimitAssumption == RetryLimit \in Nat
ASSUME BoundsAssumption == MaxOutages \in Nat /\ MaxFaults \in Nat

VARIABLES
    status,     \* status[e]: "ABSENT" until the ingestion service commits e
    retries,    \* retries[e]: retry_count
    lock,       \* lock[e]: the relay whose open transaction locked e
    topic,      \* the events in Kafka, in order
    up,         \* whether the brokers acknowledge
    outages, faults,
    batch,      \* batch[r]: the events r selected and has not sent yet
    published,  \* published[r]: published_ids
    failed      \* failed[r]: failed_ids

relayVars == <<batch, published, failed>>
kafkaVars == <<topic, up, outages>>
vars == <<status, retries, lock, kafkaVars, faults, relayVars>>

Init ==
    /\ status = [e \in Events |-> "ABSENT"]
    /\ retries = [e \in Events |-> 0]
    /\ lock = [e \in Events |-> None]
    /\ topic = <<>>
    /\ up = TRUE
    /\ outages = 0
    /\ faults = 0
    /\ batch = [r \in Relays |-> <<>>]
    /\ published = [r \in Relays |-> {}]
    /\ failed = [r \in Relays |-> {}]

(* The ingestion service commits an event.  created_at is when its         *)
(* transaction began, so events may appear out of order.                   *)
Insert(e) ==
    /\ status[e] = "ABSENT"
    /\ status' = [status EXCEPT ![e] = "PENDING"]
    /\ UNCHANGED <<retries, lock, kafkaVars, faults, relayVars>>

-----------------------------------------------------------------------------

Holds(r) == {e \in Events : lock[e] = r}

(* Mutant: other relays do not see the locks. *)
SelectablePending(e) == status[e] = "PENDING"

Selectable(e) == status[e] = "PENDING" /\ lock[e] = None

(* ORDER BY created_at *)
InOrder(S) == {s \in [1 .. Cardinality(S) -> S] :
                 \A i, j \in 1 .. Cardinality(S) : i < j => s[i] < s[j]}

(* SELECT ... ORDER BY created_at LIMIT $1 FOR UPDATE SKIP LOCKED *)
Poll(r) ==
    LET pending == {e \in Events : Selectable(e)}
        oldest  == {e \in pending : Cardinality({d \in pending : d < e}) < BatchSize}
    IN
    /\ Holds(r) = {}
    /\ oldest # {}
    /\ lock' = [e \in Events |-> IF e \in oldest THEN r ELSE lock[e]]
    /\ \E s \in InOrder(oldest) : batch' = [batch EXCEPT ![r] = s]
    /\ UNCHANGED <<status, retries, kafkaVars, faults, published, failed>>

(* Mutant: a send that timed out counts as published. *)
SendIgnoresErrors(r) ==
    /\ batch[r] # <<>>
    /\ batch' = [batch EXCEPT ![r] = Tail(@)]
    /\ published' = [published EXCEPT ![r] = @ \cup {Head(batch[r])}]
    /\ topic' \in {topic, Append(topic, Head(batch[r]))}
    /\ UNCHANGED <<status, retries, lock, up, outages, faults, failed>>

(* producer.send: an acknowledged event is in the topic; one that timed    *)
(* out may be.                                                             *)
Send(r) ==
    /\ batch[r] # <<>>
    /\ batch' = [batch EXCEPT ![r] = Tail(@)]
    /\ LET e == Head(batch[r]) IN
         \/ /\ up
            /\ topic' = Append(topic, e)
            /\ published' = [published EXCEPT ![r] = @ \cup {e}]
            /\ UNCHANGED failed
         \/ /\ ~up
            /\ topic' \in {topic, Append(topic, e)}
            /\ failed' = [failed EXCEPT ![r] = @ \cup {e}]
            /\ UNCHANGED published
    /\ UNCHANGED <<status, retries, lock, up, outages, faults>>

(* Mutant: the row locks outlive the transaction. *)
DoneKeepsLocks(r) ==
    /\ batch' = [batch EXCEPT ![r] = <<>>]
    /\ published' = [published EXCEPT ![r] = {}]
    /\ failed' = [failed EXCEPT ![r] = {}]
    /\ UNCHANGED <<lock, kafkaVars>>

Done(r) ==
    /\ lock' = [e \in Events |-> IF lock[e] = r THEN None ELSE lock[e]]
    /\ batch' = [batch EXCEPT ![r] = <<>>]
    /\ published' = [published EXCEPT ![r] = {}]
    /\ failed' = [failed EXCEPT ![r] = {}]
    /\ UNCHANGED kafkaVars

(* Mutants: every failure is the last one; only failures are recorded. *)
RecordGivesUp(r) ==
    /\ Holds(r) # {}
    /\ batch[r] = <<>>
    /\ status' = [e \in Events |->
                    CASE e \in published[r] -> "PUBLISHED"
                      [] e \in failed[r] -> "FAILED"
                      [] OTHER -> status[e]]
    /\ retries' = [e \in Events |-> IF e \in failed[r] THEN retries[e] + 1 ELSE retries[e]]
    /\ Done(r)
    /\ UNCHANGED faults
RecordUnpublished(r) ==
    /\ Holds(r) # {}
    /\ batch[r] = <<>>
    /\ Done(r)
    /\ UNCHANGED <<status, retries, faults>>

(* The statuses are written and committed once the whole batch is sent. *)
Record(r) ==
    /\ Holds(r) # {}
    /\ batch[r] = <<>>
    /\ status' = [e \in Events |->
                    CASE e \in published[r] -> "PUBLISHED"
                      [] e \in failed[r] /\ retries[e] >= RetryLimit -> "FAILED"
                      [] OTHER -> status[e]]
    /\ retries' = [e \in Events |-> IF e \in failed[r] THEN retries[e] + 1 ELSE retries[e]]
    /\ Done(r)
    /\ UNCHANGED faults

(* The relay crashes, or a statement or the commit fails: what it has sent *)
(* stays sent, what it has not committed is rolled back.                   *)
Abort(r) ==
    /\ Holds(r) # {}
    /\ faults < MaxFaults
    /\ faults' = faults + 1
    /\ Done(r)
    /\ UNCHANGED <<status, retries>>

-----------------------------------------------------------------------------

Outage ==
    /\ up
    /\ outages < MaxOutages
    /\ up' = FALSE
    /\ outages' = outages + 1
    /\ UNCHANGED <<status, retries, lock, topic, faults, relayVars>>

Recover ==
    /\ ~up
    /\ up' = TRUE
    /\ UNCHANGED <<status, retries, lock, topic, outages, faults, relayVars>>

Next ==
    \/ \E e \in Events : Insert(e)
    \/ \E r \in Relays : Poll(r) \/ Send(r) \/ Record(r) \/ Abort(r)
    \/ Outage
    \/ Recover

Spec == Init /\ [][Next]_vars

(* The relay loops for ever, and Kafka comes back. *)
FairSpec ==
    /\ Spec
    /\ WF_vars(Recover)
    /\ \A r \in Relays : WF_vars(Poll(r)) /\ WF_vars(Send(r)) /\ WF_vars(Record(r))

-----------------------------------------------------------------------------

TypeOK ==
    /\ status \in [Events -> {"ABSENT", "PENDING", "PUBLISHED", "FAILED"}]
    /\ retries \in [Events -> 0 .. RetryLimit + 1]
    /\ lock \in [Events -> Relays \cup {None}]
    /\ topic \in Seq(Events)
    /\ up \in BOOLEAN
    /\ outages \in 0 .. MaxOutages
    /\ faults \in 0 .. MaxFaults
    /\ \A r \in Relays : /\ batch[r] \in Seq(Holds(r))
                         /\ published[r] \cup failed[r] \subseteq Holds(r)

Copies(e)   == Cardinality({i \in DOMAIN topic : topic[i] = e})
InTopic(e)  == Copies(e) > 0
Visible(e)  == status[e] # "ABSENT"

(* "Kafka acks before marking PUBLISHED" (main.rs:10), and the relay gives *)
(* an event up only after RetryLimit + 1 failures: whenever and wherever a *)
(* relay dies, every other event is still PENDING and will be sent.        *)
NothingForgotten ==
    \A e \in Events :
        /\ status[e] = "PUBLISHED" => InTopic(e)
        /\ status[e] = "FAILED" => retries[e] = RetryLimit + 1

(* An event is in the topic more than once only for sends that failed and  *)
(* batches that were never recorded, however many relays run.              *)
DuplicatesExplained == \A e \in Events : Copies(e) <= 1 + retries[e] + faults

(* What is recorded as PUBLISHED or FAILED is not sent again, and no two   *)
(* relays send one event at the same time (SKIP LOCKED).                   *)
OnlyPendingIsSent ==
    [][\A e \in Events :
         topic' = Append(topic, e) =>
            /\ status[e] = "PENDING"
            /\ \A q, r \in Relays :
                 q # r => e \notin ToSet(batch[q]) \/ e \notin ToSet(batch[r])]_vars

(* Every event the ingestion service writes is published or given up.      *)
(* (FairSpec)                                                              *)
EveryEventResolved ==
    \A e \in Events : Visible(e) ~> status[e] \in {"PUBLISHED", "FAILED"}

(* The relay implements Outbox, fairness included.  (FairSpec) *)
Abstract == INSTANCE Outbox WITH
    Partitions <- {"topic"},
    Target     <- [e \in Events |-> "topic"],
    event      <- status,
    log        <- [p \in {"topic"} |-> topic]
OutboxSpec == Abstract!FairSpec

(* "events queue up in Postgres and are delivered when Kafka recovers - no *)
(* data loss" (main.rs:6).  (FairSpec, where every outage ends)            *)
EveryEventDelivered == \A e \in Events : Visible(e) ~> InTopic(e)

(* "Ordering preserved per partition_key" (main.rs:11): an event does not  *)
(* enter the topic before an older event of its key that a relay has       *)
(* selected too.                                                           *)
OrderPerKey ==
    [][\A d, e \in Events :
         /\ topic' = Append(topic, e)
         /\ d < e /\ Key[d] = Key[e] /\ lock[d] # None
         => InTopic(d)]_vars

=============================================================================
