------------------------------ MODULE Consumer ------------------------------
(***************************************************************************)
(* The Kafka consumer loop: TransactionConsumer::run, process_with_retry   *)
(* and send_to_dlq, in every task of a consumer group.                     *)
(*                                                                         *)
(* A partition is an append-only log.  Its owner reads it from a position  *)
(* it keeps in memory; the broker keeps the committed offset, from which   *)
(* the next owner starts.  process_transaction is Settlement's call, which *)
(* Processor implements.                                                   *)
(***************************************************************************)
EXTENDS Settlement, Integers, Sequences

CONSTANTS
    Partitions,
    Incoming,       \* Incoming[p]: what producers append to partition p, in order
    Malformed,      \* a message that is no event envelope
    Empty,          \* a message without payload
    Poison,         \* the ids that kill the task each time it processes them
    MaxRetries,     \* config.max_retries
    MaxFaults       \* bound on other crashes, rebalances and lost commits

ASSUME IncomingAssumption == Incoming \in [Partitions -> Seq(Ids \cup {Malformed, Empty})]
ASSUME MessageAssumption == Malformed \notin Ids /\ Empty \notin Ids
ASSUME PoisonAssumption == Poison \subseteq Ids
ASSUME MaxRetriesAssumption == MaxRetries \in Nat
ASSUME NoneAssumption == None \notin Workers /\ None \notin Partitions \X Nat
ASSUME BoundsAssumption == MaxFaults \in Nat

VARIABLES
    log,        \* log[p]: the messages of partition p, oldest first
    owner,      \* owner[p]: the task partition p is assigned to, or None
    position,   \* position[p]: how many messages of p its owner has received
    committed,  \* committed[p]: the group's committed offset on the broker
    at,         \* at[w]: the message w is handling, or None
    retries,    \* retries[w]: how often w has retried it
    dlq,        \* the messages in dead_letter_queue
    dlqFailed,  \* messages whose DLQ write has failed
    skipped,    \* messages answered Ok because the lock was held
    faults      \* number of bounded faults so far

kafkaVars == <<log, owner, position, committed>>
taskVars  == <<at, retries>>
ghosts    == <<dlqFailed, skipped>>
vars      == <<callVars, kafkaVars, taskVars, dlq, ghosts, faults>>

Messages == UNION {{p} \X DOMAIN log[p] : p \in Partitions}
Msg(m)   == log[m[1]][m[2]]

Init ==
    /\ CallInit
    /\ log = [p \in Partitions |-> <<>>]
    /\ owner = [p \in Partitions |-> None]
    /\ position = [p \in Partitions |-> 0]
    /\ committed = [p \in Partitions |-> 0]
    /\ at = [w \in Workers |-> None]
    /\ retries = [w \in Workers |-> 0]
    /\ dlq = {}
    /\ dlqFailed = {}
    /\ skipped = {}
    /\ faults = 0

Fault == faults < MaxFaults /\ faults' = faults + 1

(* commit_message(&msg, Async): the offset after m, whatever was committed *)
(* before and whoever owns the partition now.  Its outcome is ignored, so  *)
(* it may as well be lost.                                                 *)
CommitOffset(m) ==
    \/ committed' = [committed EXCEPT ![m[1]] = m[2]] /\ UNCHANGED faults
    \/ Fault /\ UNCHANGED committed

-----------------------------------------------------------------------------
(* The loop.                                                               *)

(* Mutant: offsets are committed as messages are received. *)
ReceiveAutoCommits(w) ==
    /\ at[w] = None
    /\ \E p \in Partitions :
         LET m == <<p, position[p] + 1>> IN
         /\ owner[p] = w
         /\ position[p] < Len(log[p])
         /\ position' = [position EXCEPT ![p] = @ + 1]
         /\ CommitOffset(m)
         /\ IF Msg(m) = Empty
            THEN UNCHANGED <<callVars, at>>
            ELSE /\ at' = [at EXCEPT ![w] = m]
                 /\ IF Msg(m) = Malformed THEN UNCHANGED callVars ELSE Start(w, Msg(m))
    /\ UNCHANGED <<log, owner, retries, dlq, ghosts>>

(* Malformed messages go to the DLQ without being processed, empty ones    *)
(* are committed and skipped.                                              *)
Receive(w) ==
    /\ at[w] = None
    /\ \E p \in Partitions :
         LET m == <<p, position[p] + 1>> IN
         /\ owner[p] = w
         /\ position[p] < Len(log[p])
         /\ position' = [position EXCEPT ![p] = @ + 1]
         /\ IF Msg(m) = Empty
            THEN CommitOffset(m) /\ UNCHANGED <<callVars, at>>
            ELSE /\ at' = [at EXCEPT ![w] = m]
                 /\ UNCHANGED <<committed, faults>>
                 /\ IF Msg(m) = Malformed THEN UNCHANGED callVars ELSE Start(w, Msg(m))
    /\ UNCHANGED <<log, owner, retries, dlq, ghosts>>

Idle(w) ==
    /\ at' = [at EXCEPT ![w] = None]
    /\ retries' = [retries EXCEPT ![w] = 0]
    /\ Collect(w)

(* One step of process_transaction; a poison message gets no further than  *)
(* the lock.                                                               *)
Processing(w) ==
    /\ at[w] # None
    /\ Msg(at[w]) \in Poison => call[w].at = "trying"
    /\ \/ Skip(w) /\ skipped' = skipped \cup {at[w]}
       \/ /\ Take(w) \/ Unavailable(w) \/ FindDecided(w) \/ Decide(w) \/ CallFails(w)
          /\ call'[w].at # "idle"
          /\ UNCHANGED skipped
    /\ UNCHANGED <<kafkaVars, taskVars, dlq, dlqFailed, faults>>

(* Mutant: one retry too many. *)
RetryOnceMore(w) ==
    /\ at[w] # None
    /\ call[w].at = "retryable"
    /\ retries[w] <= MaxRetries
    /\ retries' = [retries EXCEPT ![w] = @ + 1]
    /\ Start(w, Msg(at[w]))
    /\ UNCHANGED <<kafkaVars, at, dlq, ghosts, faults>>

(* Backoff, then the same call again. *)
Retry(w) ==
    /\ at[w] # None
    /\ call[w].at = "retryable"
    /\ retries[w] < MaxRetries
    /\ retries' = [retries EXCEPT ![w] = @ + 1]
    /\ Start(w, Msg(at[w]))
    /\ UNCHANGED <<kafkaVars, at, dlq, ghosts, faults>>

Succeed(w) ==
    /\ at[w] # None
    /\ call[w].at = "ok"
    /\ CommitOffset(at[w])
    /\ Idle(w)
    /\ UNCHANGED <<log, owner, position, dlq, ghosts>>

(* Mutant: exhausted retries are not sent to the DLQ. *)
GaveUpPermanentOnly(w) ==
    /\ at[w] # None
    /\ Msg(at[w]) = Malformed \/ call[w].at = "permanent"

GaveUp(w) ==
    /\ at[w] # None
    /\ \/ Msg(at[w]) = Malformed
       \/ call[w].at = "permanent"
       \/ call[w].at = "retryable" /\ retries[w] = MaxRetries

SendToDlq(w) ==
    /\ GaveUp(w)
    /\ dlq' = dlq \cup {at[w]}
    /\ CommitOffset(at[w])
    /\ Idle(w)
    /\ UNCHANGED <<log, owner, position, ghosts>>

(* The DLQ write fails: a malformed message is committed all the same, a   *)
(* valid one is not, and the loop goes on with the next message.           *)
DlqFails(w) ==
    /\ GaveUp(w)
    /\ dlqFailed' = dlqFailed \cup {at[w]}
    /\ IF Msg(at[w]) = Malformed THEN CommitOffset(at[w])
                                 ELSE UNCHANGED <<committed, faults>>
    /\ Idle(w)
    /\ UNCHANGED <<log, owner, position, dlq, skipped>>

-----------------------------------------------------------------------------
(* The consumer group and the crash of a task.                             *)

Assign(p, w) ==
    /\ owner' = [owner EXCEPT ![p] = w]
    /\ position' = [position EXCEPT ![p] = committed[p]]
    /\ UNCHANGED <<callVars, log, committed, taskVars, dlq, ghosts>>

(* A partition without an owner gets one; a partition is taken from an     *)
(* owner that has not polled for too long or that has to share, whatever   *)
(* it is doing.                                                            *)
Join(p, w) == owner[p] = None /\ Assign(p, w) /\ UNCHANGED faults
Rebalance(p, w) == owner[p] \notin {None, w} /\ Fault /\ Assign(p, w)

(* The broker takes the partitions of a crashed task away, and the task    *)
(* has forgotten what it was doing when it starts again.                   *)
TaskDies(w) ==
    /\ at' = [at EXCEPT ![w] = None]
    /\ retries' = [retries EXCEPT ![w] = 0]
    /\ owner' = [p \in Partitions |-> IF owner[p] = w THEN None ELSE owner[p]]
    /\ UNCHANGED <<log, position, committed, dlq, ghosts>>

(* A decision being committed may take effect or not. *)
Crash(w) ==
    /\ Fault
    /\ \/ call[w].at \in {"trying", "holding"} /\ CallDies(w)
       \/ Decide(w) /\ call'[w].at = "idle"
       \/ Collect(w)
    /\ TaskDies(w)

Poisoned(w) ==
    /\ at[w] # None
    /\ Msg(at[w]) \in Poison
    /\ call[w].at = "holding"
    /\ CallDies(w)
    /\ TaskDies(w)
    /\ UNCHANGED faults

Loop(w) ==
    \/ Processing(w) \/ Poisoned(w)
    \/ Retry(w) \/ Succeed(w) \/ SendToDlq(w) \/ DlqFails(w)

(* Postgres ends a transaction a call has left behind. *)
Released(k) ==
    /\ LateRollback(k)
    /\ UNCHANGED <<kafkaVars, taskVars, dlq, ghosts, faults>>

GroupStep ==
    \/ \E w \in Workers : Receive(w) \/ Loop(w) \/ Crash(w)
    \/ \E k \in LockKeys : Released(k)
    \/ \E p \in Partitions, w \in Workers : Join(p, w) \/ Rebalance(p, w)

(* A producer appends the next message. *)
Produce(p) ==
    /\ Len(log[p]) < Len(Incoming[p])
    /\ log' = [log EXCEPT ![p] = Append(@, Incoming[p][Len(@) + 1])]
    /\ UNCHANGED <<callVars, owner, position, committed, taskVars, dlq, ghosts, faults>>

Next == GroupStep \/ \E p \in Partitions : Produce(p)

Spec == Init /\ [][Next]_vars

(* Every task is polled by its runtime, and the group coordinator assigns  *)
(* every partition.                                                        *)
GroupFairness ==
    /\ \A w \in Workers : WF_vars(Receive(w)) /\ WF_vars(Loop(w))
    /\ \A p \in Partitions : WF_vars(\E w \in Workers : Join(p, w))

FairSpec == Spec /\ GroupFairness

-----------------------------------------------------------------------------

TypeOK ==
    /\ status \in [Txns -> {"PENDING", "SETTLED", "FAILED"}]
    /\ holder \in [LockKeys -> Workers \cup LockKeys \cup {None}]
    /\ call \in [Workers -> Calls]
    /\ log \in [Partitions -> Seq(Ids \cup {Malformed, Empty})]
    /\ owner \in [Partitions -> Workers \cup {None}]
    /\ \A p \in Partitions : {position[p], committed[p]} \subseteq 0 .. Len(log[p])
    /\ at \in [Workers -> Messages \cup {None}]
    /\ retries \in [Workers -> 0 .. MaxRetries]
    /\ dlq \cup dlqFailed \cup skipped \subseteq Messages
    /\ faults \in 0 .. MaxFaults

Valid(m)      == Msg(m) \in Txns
Handled(m)    == m \in dlq \/ (Valid(m) /\ status[Msg(m)] # "PENDING")
PassedOver(m) == committed[m[1]] >= m[2]
Dealt(m)      == m \in Messages /\ (Handled(m) \/ m \in dlqFailed \cup skipped)

(* At-least-once delivery, up to its two holes: a message the group has    *)
(* committed past is decided or in the DLQ, unless its DLQ write failed or *)
(* a worker skipped it because the lock was held (run).                    *)
PassedOverIsHandled ==
    \A m \in Messages :
        PassedOver(m) /\ Msg(m) # Empty => Dealt(m)

(* What a message may have to wait for without end: the retry count of a   *)
(* poison message is lost with each task it kills, so it is never sent to  *)
(* the DLQ for it.                                                         *)
Blocked(m) ==
    \E n \in Messages : Msg(n) \in Poison /\ (n[1] = m[1] => n[2] <= m[2])

(* Nothing else blocks a partition: after finitely many crashes,           *)
(* rebalances and lost commits, and whatever a message contains, every     *)
(* message is decided or given up in the end, unless a poison message is   *)
(* before it in its partition or in another one.  (FairSpec)               *)
EveryMessageHandled ==
    \A p \in Partitions : \A i \in DOMAIN Incoming[p] :
        LET m == <<p, i>> IN
        m \in Messages /\ Msg(m) # Empty ~> Dealt(m) \/ Blocked(m)

(* As long as there is no crash, rebalance or lost commit, every id has a  *)
(* lock key of its own, and its messages are all in one partition, tasks   *)
(* do not meet on one transaction, however often the log repeats it: a     *)
(* message is skipped only because of the database transaction of an       *)
(* earlier message of the id, which failed or killed its task and is not   *)
(* rolled back yet.                                                        *)
SkippedOnlyAfterFault ==
    skipped # {} =>
        \/ faults > 0
        \/ \E s, t \in Ids : s # t /\ LockKey[s] = LockKey[t]
        \/ \E m, n \in Messages : m[1] # n[1] /\ Msg(m) = Msg(n)
        \/ \A m \in skipped :
              \/ Msg(m) \in Poison
              \/ \E n \in dlq \cup dlqFailed : Msg(n) = Msg(m)

(* "If the DLQ write fails, do NOT commit the offset so the message is     *)
(* redelivered on restart" (consumer.rs:10).                               *)
DlqFailureIsRedelivered ==
    \A m \in dlqFailed : Valid(m) /\ PassedOver(m) => Handled(m)

(* "Manual offset commit: only after successful processing"                *)
(* (consumer.rs:4): a message skipped because another worker was on its    *)
(* transaction is not passed over when that worker gives up.               *)
SkippedIsProcessed ==
    \A m \in skipped :
        PassedOver(m) =>
            \/ Handled(m)
            \/ \E w \in Workers : at[w] # None /\ Msg(at[w]) = Msg(m)

=============================================================================
