-------------------------------- MODULE Outbox --------------------------------
(***************************************************************************)
(* What the outbox relay promises, with no relays, batches or row locks:   *)
(* an event stays PENDING, and may enter its partition any number of times,*)
(* until it is recorded as published, which it then is, or as given up.    *)
(***************************************************************************)
EXTENDS Sequences

CONSTANTS
    Events,
    Partitions,
    Target      \* Target[e]: the partition the key of e is mapped to

VARIABLES
    event,      \* event[e]: the status of e, "ABSENT" before it is written
    log         \* log[p]: the messages of partition p, oldest first

outboxVars == <<event, log>>

Init ==
    /\ event = [e \in Events |-> "ABSENT"]
    /\ log = [p \in Partitions |-> <<>>]

InLog(e) == \E i \in DOMAIN log[Target[e]] : log[Target[e]][i] = e

Write(e) ==
    /\ event[e] = "ABSENT"
    /\ event' = [event EXCEPT ![e] = "PENDING"]
    /\ UNCHANGED log

Send(e) ==
    /\ event[e] = "PENDING"
    /\ log' = [log EXCEPT ![Target[e]] = Append(@, e)]
    /\ UNCHANGED event

(* Mutant: events are recorded as published before they are. *)
RecordUnsent(sent, lost) ==
    /\ sent \cup lost \subseteq {e \in Events : event[e] = "PENDING"}
    /\ event' = [e \in Events |-> CASE e \in sent -> "PUBLISHED"
                                    [] e \in lost -> "FAILED"
                                    [] OTHER -> event[e]]
    /\ UNCHANGED log

(* The outcome of a batch. *)
Record(sent, lost) ==
    /\ sent \cup lost \subseteq {e \in Events : event[e] = "PENDING"}
    /\ \A e \in sent : InLog(e)
    /\ event' = [e \in Events |-> CASE e \in sent -> "PUBLISHED"
                                    [] e \in lost -> "FAILED"
                                    [] OTHER -> event[e]]
    /\ UNCHANGED log

Resolve(e) == \E sent, lost \in SUBSET Events : e \in sent \cup lost /\ Record(sent, lost)

Next ==
    \E e \in Events : Write(e) \/ Send(e) \/ Resolve(e)

Spec == Init /\ [][Next]_outboxVars

FairSpec == Spec /\ \A e \in Events : WF_outboxVars(Resolve(e))

=============================================================================
