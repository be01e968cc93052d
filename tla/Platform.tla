------------------------------- MODULE Platform -------------------------------
(***************************************************************************)
(* From the submission of a transaction to its decision: the outbox and    *)
(* the relay (Outbox, which OutboxRelay implements), the topic, and the    *)
(* consumer group with the processor (Consumer, over Settlement, which     *)
(* Processor implements).                                                  *)
(*                                                                         *)
(* The event of a transaction has its id.  Nobody else writes to the topic,*)
(* so Incoming is empty.                                                   *)
(***************************************************************************)
EXTENDS Consumer

CONSTANTS
    Target,         \* Target[t]: the partition t's partition_key is mapped to
    MaxLog          \* bound on the messages of a partition

ASSUME TargetAssumption == Target \in [Txns -> Partitions]

VARIABLE event      \* event[t]: the status of t's outbox event

Relay == INSTANCE Outbox WITH Events <- Txns

groupVars == <<callVars, owner, position, committed, taskVars, dlq, ghosts, faults>>
platformVars == <<vars, event>>

PlatformInit == Init /\ Relay!Init

(* The ingestion service commits the row and its event. *)
Submit(t) == Relay!Write(t) /\ UNCHANGED groupVars

RelaySends(t) ==
    /\ Len(log[Target[t]]) < MaxLog
    /\ Relay!Send(t)
    /\ UNCHANGED groupVars

RelayRecords(t) == Relay!Resolve(t) /\ UNCHANGED groupVars

PlatformNext ==
    \/ \E t \in Txns : Submit(t) \/ RelaySends(t) \/ RelayRecords(t)
    \/ GroupStep /\ UNCHANGED event

PlatformSpec == PlatformInit /\ [][PlatformNext]_platformVars

PlatformFairSpec ==
    /\ PlatformSpec
    /\ GroupFairness
    /\ \A t \in Txns : WF_platformVars(RelayRecords(t))

-----------------------------------------------------------------------------

Copies(t)  == {m \in Messages : Msg(m) = t}
Decided(t) == status[t] # "PENDING"

(* What is left for an operator to find of a transaction that nobody will  *)
(* decide: a FAILED event, or a row of dead_letter_queue.                  *)
Parked(t) == event[t] = "FAILED" \/ Copies(t) \cap dlq # {}

(* The consumer's two holes, which leave nothing to find: the DLQ write of *)
(* a message has failed, or the message was answered Ok under a held lock. *)
FellThrough(t) == Copies(t) \cap (dlqFailed \cup skipped) # {}

(* It is decided or parked, or somebody still has to deal with it: the     *)
(* relay with its event or the group with a message it has not committed   *)
(* past.                                                                   *)
Traced(t) ==
    \/ Decided(t) \/ Parked(t)
    \/ event[t] = "PENDING"
    \/ \E m \in Copies(t) : ~PassedOver(m)

(* Nothing else is lost between the two services: a submitted transaction  *)
(* leaves a trace unless it fell through one of the two holes.             *)
NothingLost == \A t \in Txns : event[t] # "ABSENT" => Traced(t) \/ FellThrough(t)

(* Every submitted transaction is decided in the end, parked, or falls     *)
(* through a hole.  (PlatformFairSpec, with Poison = {}: a poison message  *)
(* blocks the transactions behind it, see Consumer!Blocked.)               *)
SubmittedIsDecided ==
    \A t \in Txns : event[t] # "ABSENT" ~> Decided(t) \/ Parked(t) \/ FellThrough(t)

=============================================================================
