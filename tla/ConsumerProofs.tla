--------------------------- MODULE ConsumerProofs ---------------------------
(***************************************************************************)
(* The consumer group, for every number of tasks, partitions and messages, *)
(* and what it and the outbox guarantee together (Platform).               *)
(***************************************************************************)
EXTENDS Platform, SequenceTheorems, TLAPS

-----------------------------------------------------------------------------
(* The inductive invariant.                                                *)

(* An advisory lock that a worker holds is held by its call, for an id with *)
(* that key.                                                                *)
LocksHeld ==
    \A k \in LockKeys :
        holder[k] \in Workers =>
            call[holder[k]].at = "holding" /\ LockKey[call[holder[k]].id] = k

CallInv ==
    /\ status \in [Txns -> {"PENDING", "SETTLED", "FAILED"}]
    /\ holder \in [LockKeys -> Workers \cup LockKeys \cup {None}]
    /\ call \in [Workers -> Calls]
    /\ \A w \in Workers : call[w].at \in {"trying", "holding"} => call[w].id \in Ids
    /\ LocksHeld

GroupTypes ==
    /\ log \in [Partitions -> Seq(Ids \cup {Malformed, Empty})]
    /\ owner \in [Partitions -> Workers \cup {None}]
    /\ position \in [Partitions -> Nat]
    /\ committed \in [Partitions -> Nat]
    /\ \A p \in Partitions : position[p] <= Len(log[p]) /\ committed[p] <= Len(log[p])
    /\ at \in [Workers -> Messages \cup {None}]
    /\ retries \in [Workers -> 0 .. MaxRetries]
    /\ dlq \subseteq Messages /\ dlqFailed \subseteq Messages /\ skipped \subseteq Messages
    /\ faults \in 0 .. MaxFaults

(* The call of a task is for its message, and Ok means the message needs   *)
(* no more work or was skipped.                                            *)
AtWork(w) ==
    /\ at[w] = None => call[w].at = "idle"
    /\ at[w] # None =>
         /\ Msg(at[w]) # Empty
         /\ Msg(at[w]) = Malformed => call[w].at = "idle"
         /\ call[w].at \in {"trying", "holding"} => call[w].id = Msg(at[w])
         /\ call[w].at = "ok" => Dealt(at[w])

Closed(m) == m \in Messages /\ (Msg(m) = Empty \/ Dealt(m))

(* What precedes the message of a task has been dealt with, ... *)
DoneBefore(w) ==
    at[w] # None => \A j \in 1 .. (at[w][2] - 1) : Closed(<<at[w][1], j>>)

(* ... what the owner of a partition has received and is not handling, ... *)
DoneByOwner(p) ==
    owner[p] # None =>
        \A j \in 1 .. position[p] : Closed(<<p, j>>) \/ at[owner[p]] = <<p, j>>

(* ... and what the group has committed past. *)
DoneCommitted(p) == \A j \in 1 .. committed[p] : Closed(<<p, j>>)

(* Without a fault a task works on messages of its own partitions only. *)
OwnsItsMessage(w) == faults = 0 /\ at[w] # None => owner[at[w][1]] = w

(* Without a fault, a lock that has been left behind is that of a poison   *)
(* message, of one that has been given up, or of one whose call has failed *)
(* and which is about to be given up.                                      *)
HasKey(m, k) == Msg(m) \in Ids /\ LockKey[Msg(m)] = k

Explained(k) ==
    \/ \E t \in Poison : LockKey[t] = k
    \/ \E m \in dlq \cup dlqFailed : HasKey(m, k)
    \/ \E v \in Workers : at[v] # None /\ call[v].at = "permanent" /\ HasKey(at[v], k)

LeftBehind ==
    faults = 0 => \A k \in LockKeys : holder[k] \in LockKeys => Explained(k)

GroupInv ==
    /\ CallInv
    /\ GroupTypes
    /\ \A w \in Workers : AtWork(w) /\ DoneBefore(w) /\ OwnsItsMessage(w)
    /\ \A p \in Partitions : DoneByOwner(p) /\ DoneCommitted(p)
    /\ LeftBehind
    /\ SkippedOnlyAfterFault

-----------------------------------------------------------------------------
(* The calls.                                                              *)

(* What a worker's step does to its call. *)
CallStep(w) ==
    \/ \E t \in Ids : Start(w, t)
    \/ Skip(w) \/ Take(w) \/ Unavailable(w) \/ FindDecided(w) \/ Decide(w)
    \/ CallFails(w) \/ CallDies(w) \/ Collect(w)

(* The end of a call gives up its lock and no other, or leaves it behind. *)
LEMMA ReturnKeeps ==
    ASSUME CallInv, NEW w \in Workers,
           NEW r \in Ready, Return(w, r) \/ Abandon(w, r)
    PROVE  /\ call' = [call EXCEPT ![w] = [at |-> r, id |-> None]]
           /\ call' \in [Workers -> Calls]
           /\ holder' \in [LockKeys -> Workers \cup LockKeys \cup {None}]
           /\ \A v \in Workers : call'[v].at \in {"trying", "holding"} => call'[v].id \in Ids
           /\ LocksHeld'
           /\ \A k \in LockKeys :
                 holder'[k] \in LockKeys =>
                    \/ holder[k] \in LockKeys
                    \/ holder[k] = w /\ Abandon(w, r)
<1> USE DEF CallInv
<1>1. /\ call' = [call EXCEPT ![w] = [at |-> r, id |-> None]]
      /\ \/ holder' = [k \in LockKeys |-> IF holder[k] = w THEN None ELSE holder[k]]
         \/ holder' = [k \in LockKeys |-> IF holder[k] = w THEN k ELSE holder[k]]
  BY DEF Return, Abandon
<1>2. [at |-> r, id |-> None] \in Calls
  BY DEF Calls
<1>3. /\ call' \in [Workers -> Calls]
      /\ holder' \in [LockKeys -> Workers \cup LockKeys \cup {None}]
  BY <1>1, <1>2
<1>4. /\ call'[w].at = r
      /\ \A v \in Workers \ {w} : call'[v] = call[v]
  BY <1>1
<1>5. r \notin {"trying", "holding"}
  BY DEF Ready, Returned
<1>6. \A v \in Workers : call'[v].at \in {"trying", "holding"} => call'[v].id \in Ids
  BY <1>4, <1>5
<1>7. LocksHeld'
  <2> SUFFICES ASSUME NEW k \in LockKeys, holder'[k] \in Workers
               PROVE  call'[holder'[k]].at = "holding" /\ LockKey[call'[holder'[k]].id] = k
    BY DEF LocksHeld
  <2>1. holder'[k] = holder[k] /\ holder[k] # w /\ holder[k] \in Workers
    BY <1>1, NoneAssumption, OwnersAssumption
  <2> QED
    BY <1>4, <2>1 DEF LocksHeld
<1>8. ASSUME NEW k \in LockKeys, holder'[k] \in LockKeys
      PROVE  holder[k] \in LockKeys \/ (holder[k] = w /\ Abandon(w, r))
  <2>1. CASE Return(w, r)
    BY <1>8, <2>1, OwnersAssumption DEF Return
  <2>2. CASE Abandon(w, r)
    BY <1>1, <1>8, <2>2
  <2> QED
    BY <2>1, <2>2
<1> QED
  BY <1>1, <1>3, <1>6, <1>7, <1>8

LEMMA TakeKeeps ==
    ASSUME CallInv, NEW w \in Workers, Take(w)
    PROVE  /\ CallInv' /\ call' = [call EXCEPT ![w].at = "holding"]
           /\ \A k \in LockKeys : holder'[k] \in LockKeys => holder[k] \in LockKeys
<1> USE DEF CallInv
<1> DEFINE key == LockKey[call[w].id]
<1>1. /\ call[w].at = "trying" /\ call[w].id \in Ids /\ key \in LockKeys
      /\ holder' = [holder EXCEPT ![key] = w]
      /\ call' = [call EXCEPT ![w].at = "holding"]
      /\ status' = status
  BY LockKeyAssumption DEF Take
<1>2. /\ call[w] \in Calls
      /\ call'[w] = [call[w] EXCEPT !.at = "holding"]
      /\ \A v \in Workers \ {w} : call'[v] = call[v]
  BY <1>1
<1>3. /\ call'[w].at = "holding" /\ call'[w].id = call[w].id
      /\ call'[w] \in Calls
  BY <1>2 DEF Calls
<1>4. /\ call' \in [Workers -> Calls]
      /\ holder' \in [LockKeys -> Workers \cup LockKeys \cup {None}]
  BY <1>1, <1>2, <1>3
<1>5. \A v \in Workers : call'[v].at \in {"trying", "holding"} => call'[v].id \in Ids
  BY <1>1, <1>2, <1>3
<1>6. LocksHeld'
  <2> SUFFICES ASSUME NEW k \in LockKeys, holder'[k] \in Workers
               PROVE  call'[holder'[k]].at = "holding" /\ LockKey[call'[holder'[k]].id] = k
    BY DEF LocksHeld
  <2>1. CASE k = key
    BY <1>1, <1>3, <2>1
  <2>2. CASE k # key
    <3>1. holder'[k] = holder[k] /\ holder[k] \in Workers
      BY <1>1, <2>2
    <3>2. holder[k] # w
      BY <1>1, <3>1 DEF LocksHeld
    <3> QED
      BY <1>2, <3>1, <3>2 DEF LocksHeld
  <2> QED
    BY <2>1, <2>2
<1>7. \A k \in LockKeys : holder'[k] \in LockKeys => holder[k] \in LockKeys
  BY <1>1, OwnersAssumption
<1> QED
  BY <1>1, <1>4, <1>5, <1>6, <1>7

(* Start and Collect are for a worker that holds no lock. *)
LEMMA RenewKeeps ==
    ASSUME CallInv, NEW w \in Workers, call[w].at \in Ready,
           NEW c \in Calls, c.at \in {"trying", "holding"} => c.id \in Ids,
           call' = [call EXCEPT ![w] = c], UNCHANGED <<status, holder>>
    PROVE  CallInv'
<1> USE DEF CallInv
<1>1. call'[w] = c /\ \A v \in Workers \ {w} : call'[v] = call[v]
  OBVIOUS
<1>2. \A k \in LockKeys : holder[k] # w
  BY NoneAssumption DEF LocksHeld, Ready, Returned
<1>3. LocksHeld'
  BY <1>1, <1>2 DEF LocksHeld
<1> QED
  BY <1>1, <1>3

(* A call touches no call but its own, keeps decisions, and leaves the     *)
(* locks to their holders.                                                 *)
LEMMA CallStepKeeps ==
    ASSUME CallInv, NEW w \in Workers, CallStep(w)
    PROVE  /\ CallInv'
           /\ \A v \in Workers \ {w} : call'[v] = call[v]
           /\ \A t \in Txns : status[t] # "PENDING" => status'[t] # "PENDING"
           /\ \A k \in LockKeys :
                 holder'[k] \in LockKeys =>
                    \/ holder[k] \in LockKeys
                    \/ holder[k] = w /\ \E r \in {"permanent", "idle"} : Abandon(w, r)
<1> USE DEF CallInv
<1>1. ASSUME NEW t \in Ids, Start(w, t)
      PROVE  CallInv' /\ call' = [call EXCEPT ![w] = [at |-> "trying", id |-> t]]
                      /\ status' = status
  <2>1. [at |-> "trying", id |-> t] \in Calls
    BY DEF Calls
  <2> QED
    BY <1>1, <2>1, RenewKeeps DEF Start
<1>2. ASSUME Collect(w)
      PROVE  CallInv' /\ call' = [call EXCEPT ![w] = [at |-> "idle", id |-> None]]
                      /\ status' = status
  <2>1. [at |-> "idle", id |-> None] \in Calls
    BY DEF Calls, Ready
  <2> QED
    BY <1>2, <2>1, RenewKeeps DEF Collect
<1>3. ASSUME NEW r \in Ready, Return(w, r), status' = status
      PROVE  /\ CallInv' /\ call' = [call EXCEPT ![w] = [at |-> r, id |-> None]]
             /\ \A k \in LockKeys : holder'[k] \in LockKeys => holder[k] \in LockKeys
  <2>1. Return(w, r) => ~\E k \in LockKeys : holder[k] = w /\ holder'[k] \in LockKeys
    BY OwnersAssumption DEF Return
  <2> QED
    BY <1>3, <2>1, ReturnKeeps
<1>4. ASSUME Skip(w) \/ Unavailable(w) \/ FindDecided(w)
      PROVE  status' = status /\ \E r \in Ready : Return(w, r)
  BY <1>4 DEF Skip, Unavailable, FindDecided, Ready, Returned
<1>5. ASSUME Decide(w)
      PROVE  /\ CallInv'
             /\ \A v \in Workers \ {w} : call'[v] = call[v]
             /\ \A t \in Txns : status[t] # "PENDING" => status'[t] # "PENDING"
             /\ \A k \in LockKeys : holder'[k] \in LockKeys => holder[k] \in LockKeys
  <2>1. PICK s \in {"SETTLED", "FAILED"}, r \in {"ok", "permanent", "idle"} :
               status' = [status EXCEPT ![call[w].id] = s] /\ Return(w, r)
    BY <1>5 DEF Decide
  <2>2. r \in Ready
    BY DEF Ready, Returned
  <2>3. status' \in [Txns -> {"PENDING", "SETTLED", "FAILED"}]
    BY <2>1
  <2>4. \A t \in Txns : status[t] # "PENDING" => status'[t] # "PENDING"
    BY <2>1
  <2>5. \A k \in LockKeys : holder'[k] \in LockKeys => holder[k] \in LockKeys
    BY <2>1, OwnersAssumption DEF Return
  <2> QED
    BY <2>1, <2>2, <2>3, <2>4, <2>5, ReturnKeeps
<1>6. ASSUME Take(w)
      PROVE  /\ CallInv' /\ status' = status /\ \A v \in Workers \ {w} : call'[v] = call[v]
             /\ \A k \in LockKeys : holder'[k] \in LockKeys => holder[k] \in LockKeys
  BY <1>6, TakeKeeps DEF Take
<1>7. ASSUME CallFails(w) \/ CallDies(w)
      PROVE  /\ status' = status
             /\ \E r \in {"permanent", "idle"} : Return(w, r) \/ Abandon(w, r)
  BY <1>7 DEF CallFails, CallDies
<1>8. ASSUME NEW r \in {"permanent", "idle"}, Return(w, r) \/ Abandon(w, r), status' = status
      PROVE  /\ CallInv'
             /\ \A v \in Workers \ {w} : call'[v] = call[v]
             /\ \A k \in LockKeys :
                   holder'[k] \in LockKeys =>
                      holder[k] \in LockKeys \/ (holder[k] = w /\ Abandon(w, r))
  <2>1. r \in Ready
    BY DEF Ready, Returned
  <2> QED
    BY <1>8, <2>1, ReturnKeeps
<1>9. (\E t \in Ids : Start(w, t)) \/ Collect(w) => holder' = holder
  BY DEF Start, Collect
<1>10. CASE (\E t \in Ids : Start(w, t)) \/ Collect(w)
  BY <1>1, <1>2, <1>9, <1>10
<1>11. CASE Skip(w) \/ Unavailable(w) \/ FindDecided(w)
  BY <1>3, <1>4, <1>11
<1>12. CASE CallFails(w) \/ CallDies(w)
  BY <1>7, <1>8, <1>12
<1> QED
  BY <1>5, <1>6, <1>10, <1>11, <1>12 DEF CallStep

(* Postgres ends a transaction that was left behind. *)
LEMMA LateKeeps ==
    ASSUME CallInv, NEW k \in LockKeys, LateRollback(k)
    PROVE  /\ CallInv' /\ call' = call /\ status' = status
           /\ \A j \in LockKeys : holder'[j] \in LockKeys => holder[j] \in LockKeys
<1>1. /\ holder' = [j \in LockKeys |-> IF holder[j] = k THEN None ELSE holder[j]]
      /\ call' = call /\ status' = status
  BY DEF LateRollback
<1>2. \A j \in LockKeys : /\ holder'[j] \in Workers => holder'[j] = holder[j]
                          /\ holder'[j] \in LockKeys => holder[j] \in LockKeys
  BY <1>1, NoneAssumption, OwnersAssumption
<1>3. LocksHeld'
  BY <1>1, <1>2 DEF CallInv, LocksHeld
<1> QED
  BY <1>1, <1>2, <1>3 DEF CallInv

-----------------------------------------------------------------------------
(* Messages.                                                               *)

LEMMA MessageForm ==
    ASSUME GroupTypes
    PROVE  /\ \A p \in Partitions : /\ DOMAIN log[p] = 1 .. Len(log[p]) /\ Len(log[p]) \in Nat
                                    /\ \A i \in 1 .. Len(log[p]) :
                                         /\ <<p, i>> \in Messages
                                         /\ Msg(<<p, i>>) \in Ids \cup {Malformed, Empty}
           /\ \A m \in Messages : /\ m = <<m[1], m[2]>>
                                  /\ m[1] \in Partitions
                                  /\ m[2] \in 1 .. Len(log[m[1]]) /\ m[2] \in Nat
                                  /\ Msg(m) \in Ids \cup {Malformed, Empty}
                                  /\ m # None
           /\ \A p, i : <<p, i>> \in Messages => p \in Partitions /\ i \in 1 .. Len(log[p])
<1>1. \A p \in Partitions : /\ DOMAIN log[p] = 1 .. Len(log[p]) /\ Len(log[p]) \in Nat
                            /\ \A i \in 1 .. Len(log[p]) : log[p][i] \in Ids \cup {Malformed, Empty}
  BY LenProperties, ElementOfSeq DEF GroupTypes
<1>2. \A p, i : <<p, i>> \in Messages <=> p \in Partitions /\ i \in 1 .. Len(log[p])
  BY <1>1 DEF Messages
<1>3. \A m \in Messages : m = <<m[1], m[2]>>
  BY DEF Messages
<1>4. \A m \in Messages : m # None
  BY <1>1, <1>2, <1>3, NoneAssumption
<1> QED
  BY <1>1, <1>2, <1>3, <1>4 DEF Msg

(* Nothing is taken back: messages stay where they are, and what is        *)
(* decided, parked or skipped stays so.                                    *)
NothingTakenBack ==
    /\ \A m \in Messages : m \in Messages' /\ Msg(m)' = Msg(m)
    /\ dlq \subseteq dlq' /\ dlqFailed \subseteq dlqFailed' /\ skipped \subseteq skipped'
    /\ \A t \in Txns : status[t] # "PENDING" => status'[t] # "PENDING"

LEMMA ClosedStays ==
    ASSUME NothingTakenBack
    PROVE  /\ \A m : Dealt(m) => Dealt(m)'
           /\ \A m : Closed(m) => Closed(m)'
  BY DEF NothingTakenBack, Closed, Dealt, Handled, Valid

(* Whether a message can be skipped without a fault. *)
LEMMA SkippedStays ==
    ASSUME GroupTypes, NothingTakenBack, SkippedOnlyAfterFault,
           faults' \in Nat, faults <= faults', skipped' = skipped
    PROVE  SkippedOnlyAfterFault'
<1>1. faults \in Nat
  BY BoundsAssumption DEF GroupTypes
<1>2. faults > 0 => faults' > 0
  BY <1>1
<1>3. /\ skipped \subseteq Messages
      /\ dlq \cup dlqFailed \subseteq Messages
  BY DEF GroupTypes
<1>4. ASSUME \A m \in skipped :
               Msg(m) \in Poison \/ \E n \in dlq \cup dlqFailed : Msg(n) = Msg(m)
      PROVE  \A m \in skipped' :
               Msg(m)' \in Poison \/ \E n \in dlq' \cup dlqFailed' : Msg(n)' = Msg(m)'
  BY <1>3, <1>4 DEF NothingTakenBack
<1>5. ASSUME \E m, n \in Messages : m[1] # n[1] /\ Msg(m) = Msg(n)
      PROVE  \E m, n \in Messages' : m[1] # n[1] /\ Msg(m)' = Msg(n)'
  BY <1>5 DEF NothingTakenBack
<1>6. CASE skipped = {}
  BY <1>6 DEF SkippedOnlyAfterFault
<1>7. CASE faults > 0 \/ \E s, t \in Ids : s # t /\ LockKey[s] = LockKey[t]
  BY <1>2, <1>7 DEF SkippedOnlyAfterFault
<1>8. CASE \E m, n \in Messages : m[1] # n[1] /\ Msg(m) = Msg(n)
  BY <1>5, <1>8 DEF SkippedOnlyAfterFault
<1>9. CASE \A m \in skipped :
              Msg(m) \in Poison \/ \E n \in dlq \cup dlqFailed : Msg(n) = Msg(m)
  BY <1>4, <1>9 DEF SkippedOnlyAfterFault
<1> QED
  BY <1>6, <1>7, <1>8, <1>9 DEF SkippedOnlyAfterFault

(* The explanation of a lock that has been left behind stays one. *)
LEMMA LeftStays ==
    ASSUME GroupTypes, NothingTakenBack, LeftBehind, faults' = 0 => faults = 0,
           \A k \in LockKeys :
              holder'[k] \in LockKeys => holder[k] \in LockKeys \/ Explained(k)',
           \A v \in Workers :
              at[v] # None /\ call[v].at = "permanent" =>
                 \/ at'[v] = at[v] /\ call'[v] = call[v]
                 \/ at[v] \in dlq' \cup dlqFailed'
    PROVE  LeftBehind'
<1>1. \A m \in Messages, k \in LockKeys : HasKey(m, k) => HasKey(m, k)'
  BY DEF HasKey, NothingTakenBack
<1> SUFFICES ASSUME faults = 0, NEW k \in LockKeys, Explained(k)
             PROVE  Explained(k)'
  BY DEF LeftBehind
<1>2. CASE \E t \in Poison : LockKey[t] = k
  BY <1>2 DEF Explained
<1>3. ASSUME NEW m \in dlq \cup dlqFailed, HasKey(m, k)
      PROVE  Explained(k)'
  <2>1. m \in dlq' \cup dlqFailed' /\ HasKey(m, k)'
    BY <1>1, <1>3 DEF NothingTakenBack, GroupTypes
  <2> QED
    BY <2>1 DEF Explained
<1>4. ASSUME NEW v \in Workers, at[v] # None, call[v].at = "permanent", HasKey(at[v], k)
      PROVE  Explained(k)'
  <2>1. PICK m \in Messages : m = at[v]
    BY <1>4 DEF GroupTypes
  <2>2. HasKey(m, k)
    BY <1>4, <2>1 DEF HasKey, Msg
  <2>3. HasKey(m, k)'
    BY <1>1, <2>2
  <2>4. CASE at'[v] = at[v] /\ call'[v] = call[v]
    <3>1. HasKey(at[v], k)'
      BY <2>1, <2>3, <2>4 DEF HasKey, Msg
    <3> QED
      BY <1>4, <2>4, <3>1 DEF Explained
  <2>5. CASE at[v] \in dlq' \cup dlqFailed'
    BY <2>1, <2>3, <2>5 DEF Explained
  <2> QED
    BY <1>4, <2>4, <2>5
<1> QED
  BY <1>2, <1>3, <1>4 DEF Explained

-----------------------------------------------------------------------------
(* What a step leaves alone keeps its part of the invariant.               *)

LEMMA TaskStays ==
    ASSUME GroupInv, NothingTakenBack, NEW v \in Workers,
           at'[v] = at[v], call'[v] = call[v]
    PROVE  AtWork(v)' /\ DoneBefore(v)'
<1>1. PICK m : m = at[v]
  OBVIOUS
<1>2. m = None \/ m \in Messages
  BY <1>1 DEF GroupInv, GroupTypes
<1>3. m \in Messages => Msg(m)' = Msg(m)
  BY DEF NothingTakenBack
<1>4. AtWork(v)'
  <2>1. Msg(at[v]) = Msg(m) /\ Msg(at[v])' = Msg(m)' /\ (Dealt(at[v]) <=> Dealt(m)) /\ (Dealt(at[v])' <=> Dealt(m)')
    BY <1>1 DEF Msg, Dealt, Handled, Valid
  <2>2. AtWork(v)
    BY DEF GroupInv
  <2> QED
    BY <1>1, <1>2, <1>3, <2>1, <2>2, ClosedStays DEF AtWork
<1>5. DoneBefore(v)'
  BY <1>1, ClosedStays DEF GroupInv, DoneBefore
<1> QED
  BY <1>4, <1>5

LEMMA OwnerStays ==
    ASSUME GroupInv, NothingTakenBack, NEW p \in Partitions,
           owner'[p] = owner[p], position'[p] = position[p],
           owner[p] # None =>
              \A j \in 1 .. position[p] :
                 at[owner[p]] = <<p, j>> => at'[owner[p]] = <<p, j>> \/ Closed(<<p, j>>)'
    PROVE  DoneByOwner(p)'
<1> SUFFICES ASSUME owner[p] # None, NEW j \in 1 .. position[p]
             PROVE  Closed(<<p, j>>)' \/ at'[owner[p]] = <<p, j>>
  BY DEF DoneByOwner
<1>1. Closed(<<p, j>>) \/ at[owner[p]] = <<p, j>>
  BY DEF GroupInv, DoneByOwner
<1> QED
  BY <1>1, ClosedStays

LEMMA CommittedStays ==
    ASSUME GroupInv, NothingTakenBack, NEW p \in Partitions, committed'[p] = committed[p]
    PROVE  DoneCommitted(p)'
  BY ClosedStays DEF GroupInv, DoneCommitted

(* The messages while the log is unchanged. *)
LEMMA SameLog ==
    ASSUME log' = log
    PROVE  Messages' = Messages /\ \A m : Msg(m)' = Msg(m)
  BY DEF Messages, Msg

LEMMA CommitEffect ==
    ASSUME GroupInv, NEW m \in Messages, log' = log,
           CommitOffset(m) \/ UNCHANGED <<committed, faults>>
    PROVE  /\ faults' \in 0 .. MaxFaults /\ faults <= faults'
           /\ committed' = committed \/ committed' = [committed EXCEPT ![m[1]] = m[2]]
           /\ committed' \in [Partitions -> Nat]
           /\ \A p \in Partitions : committed'[p] <= Len(log[p])
<1> USE DEF GroupInv
<1>1. m[1] \in Partitions /\ m[2] \in Nat /\ m[2] \in 1 .. Len(log[m[1]]) /\ Len(log[m[1]]) \in Nat
  BY MessageForm
<1>2. \/ faults' = faults
      \/ faults < MaxFaults /\ faults' = faults + 1
  BY DEF CommitOffset, Fault
<1>3. faults' \in 0 .. MaxFaults /\ faults <= faults'
  BY <1>2, BoundsAssumption DEF GroupTypes
<1>4. committed' = committed \/ committed' = [committed EXCEPT ![m[1]] = m[2]]
  BY DEF CommitOffset
<1>5. /\ committed' \in [Partitions -> Nat]
      /\ \A p \in Partitions : committed'[p] <= Len(log[p])
  <2>1. /\ committed \in [Partitions -> Nat]
        /\ \A p \in Partitions : committed[p] <= Len(log[p])
    BY DEF GroupTypes
  <2>2. m[2] <= Len(log[m[1]])
    BY <1>1
  <2>3. CASE committed' = committed
    BY <2>1, <2>3
  <2>4. CASE committed' = [committed EXCEPT ![m[1]] = m[2]]
    <3>1. committed'[m[1]] = m[2] /\ \A p \in Partitions \ {m[1]} : committed'[p] = committed[p]
      BY <1>1, <2>1, <2>4
    <3> QED
      BY <1>1, <2>1, <2>2, <2>4, <3>1
  <2> QED
    BY <1>4, <2>3, <2>4
<1> QED
  BY <1>3, <1>4, <1>5

-----------------------------------------------------------------------------
(* The end of a message: answered, parked, or its DLQ write failed.        *)

LEMMA FinishStep ==
    ASSUME GroupInv, NEW w \in Workers, at[w] # None,
           CommitOffset(at[w]) \/ UNCHANGED <<committed, faults>>,
           Idle(w),
           UNCHANGED <<log, owner, position, skipped>>,
           dlq' \in {dlq, dlq \cup {at[w]}}, dlqFailed' \in {dlqFailed, dlqFailed \cup {at[w]}},
           \A m : m = at[w] => Dealt(m)',
           call[w].at = "permanent" => at[w] \in dlq' \cup dlqFailed'
    PROVE  GroupInv'
<1> USE DEF GroupInv
<1>1. PICK m : m = at[w]
  OBVIOUS
<1>2. /\ m \in Messages
      /\ m = <<m[1], m[2]>> /\ m[1] \in Partitions /\ m[2] \in Nat
      /\ m[2] \in 1 .. Len(log[m[1]]) /\ Len(log[m[1]]) \in Nat
  <2>1. m \in Messages
    BY <1>1 DEF GroupTypes
  <2> QED
    BY <2>1, MessageForm
<1>3. /\ CallInv' /\ status' = status
      /\ call' = [call EXCEPT ![w] = [at |-> "idle", id |-> None]]
      /\ at' = [at EXCEPT ![w] = None]
      /\ retries' = [retries EXCEPT ![w] = 0]
  BY CallStepKeeps DEF CallStep, Idle, Collect
<1>4. Messages' = Messages /\ \A x : Msg(x)' = Msg(x)
  BY SameLog
<1>5. NothingTakenBack
  BY <1>3, <1>4 DEF NothingTakenBack
<1>6. /\ faults' \in 0 .. MaxFaults /\ faults <= faults'
      /\ committed' = committed \/ committed' = [committed EXCEPT ![m[1]] = m[2]]
      /\ committed' \in [Partitions -> Nat]
      /\ \A p \in Partitions : committed'[p] <= Len(log[p])
  BY <1>1, <1>2, CommitEffect
<1>7. GroupTypes'
  <2>1. dlq' \subseteq Messages /\ dlqFailed' \subseteq Messages
    BY <1>1, <1>2 DEF GroupTypes
  <2>2. at' \in [Workers -> Messages \cup {None}]
    BY <1>3 DEF GroupTypes
  <2>3. retries' \in [Workers -> 0 .. MaxRetries]
    BY <1>3, MaxRetriesAssumption DEF GroupTypes
  <2> QED
    BY <1>4, <1>6, <2>1, <2>2, <2>3 DEF GroupTypes
<1>8. /\ at'[w] = None /\ call'[w].at = "idle"
      /\ \A v \in Workers \ {w} : at'[v] = at[v] /\ call'[v] = call[v]
  BY <1>3 DEF GroupTypes, CallInv
<1>9. ASSUME NEW v \in Workers
      PROVE  AtWork(v)' /\ DoneBefore(v)' /\ OwnsItsMessage(v)'
  <2>1. CASE v = w
    BY <1>8, <2>1 DEF AtWork, DoneBefore, OwnsItsMessage
  <2>2. CASE v # w
    <3>1. AtWork(v)' /\ DoneBefore(v)'
      BY <1>5, <1>8, <2>2, TaskStays
    <3>2. OwnsItsMessage(v)'
      BY <1>6, <1>8, <2>2, BoundsAssumption DEF OwnsItsMessage, GroupTypes
    <3> QED
      BY <3>1, <3>2
  <2> QED
    BY <2>1, <2>2
<1>10. Closed(m)'
  BY <1>1, <1>2, <1>4 DEF Closed
<1>11. ASSUME NEW p \in Partitions
       PROVE  DoneByOwner(p)' /\ DoneCommitted(p)'
  <2>1. DoneByOwner(p)'
    <3>1. \A j : at[owner[p]] = <<p, j>> /\ owner[p] # None =>
                    at'[owner[p]] = <<p, j>> \/ Closed(<<p, j>>)'
      BY <1>1, <1>8, <1>10 DEF GroupTypes
    <3> QED
      BY <1>5, <3>1, OwnerStays
  <2>2. CASE committed'[p] = committed[p]
    BY <1>5, <2>1, <2>2, CommittedStays
  <2>3. CASE p = m[1] /\ committed'[p] = m[2]
    <3>1. ASSUME NEW j \in 1 .. m[2]
          PROVE  Closed(<<p, j>>)'
      <4>1. CASE j = m[2]
        BY <1>2, <1>10, <2>3, <4>1
      <4>2. CASE j # m[2]
        <5>1. j \in 1 .. (m[2] - 1)
          BY <1>2, <4>2
        <5>2. Closed(<<p, j>>)
          BY <1>1, <2>3, <5>1 DEF DoneBefore
        <5> QED
          BY <1>5, <5>2, ClosedStays
      <4> QED
        BY <4>1, <4>2
    <3> QED
      BY <2>1, <2>3, <3>1 DEF DoneCommitted
  <2> QED
    BY <1>6, <2>2, <2>3 DEF GroupTypes
<1>12. SkippedOnlyAfterFault'
  <2>1. faults' \in Nat
    BY <1>6, BoundsAssumption
  <2> QED
    BY <1>5, <1>6, <2>1, SkippedStays
<1>13. LeftBehind'
  <2>1. holder' = holder
    BY DEF Idle, Collect
  <2>2. faults' = 0 => faults = 0
    BY <1>6, BoundsAssumption DEF GroupTypes
  <2> QED
    BY <1>5, <1>8, <2>1, <2>2, LeftStays
<1> QED
  BY <1>3, <1>7, <1>9, <1>11, <1>12, <1>13

LEMMA FinishSteps ==
    ASSUME GroupInv, NEW w \in Workers, Succeed(w) \/ SendToDlq(w) \/ DlqFails(w)
    PROVE  GroupInv'
<1> USE DEF GroupInv
<1>1. PICK m : m = at[w]
  OBVIOUS
<1>2. m # None
  BY <1>1 DEF Succeed, SendToDlq, DlqFails, GaveUp
<1>3. m \in Messages
  BY <1>1, <1>2 DEF GroupTypes
<1>4. CASE Succeed(w)
  <2>1. /\ call[w].at = "ok" /\ CommitOffset(m) /\ Idle(w)
        /\ UNCHANGED <<log, owner, position, dlq, ghosts>>
    BY <1>1, <1>4 DEF Succeed
  <2>2. Dealt(m)
    BY <1>1, <1>2, <2>1 DEF AtWork
  <2>3. Dealt(m)'
    BY <2>1, <2>2 DEF Dealt, Handled, Valid, Messages, Msg, ghosts, Idle, Collect
  <2> QED
    BY <1>1, <1>2, <2>1, <2>3, FinishStep DEF ghosts
<1>5. CASE SendToDlq(w)
  <2>1. /\ dlq' = dlq \cup {m} /\ CommitOffset(m) /\ Idle(w)
        /\ UNCHANGED <<log, owner, position, ghosts>>
    BY <1>1, <1>5 DEF SendToDlq
  <2>2. Dealt(m)'
    BY <1>3, <2>1 DEF Dealt, Handled, Messages
  <2> QED
    BY <1>1, <1>2, <2>1, <2>2, FinishStep DEF ghosts
<1>6. CASE DlqFails(w)
  <2>1. /\ dlqFailed' = dlqFailed \cup {m} /\ Idle(w)
        /\ CommitOffset(m) \/ UNCHANGED <<committed, faults>>
        /\ UNCHANGED <<log, owner, position, dlq, skipped>>
    BY <1>1, <1>6 DEF DlqFails
  <2>2. Dealt(m)'
    BY <1>3, <2>1 DEF Dealt, Messages
  <2> QED
    BY <1>1, <1>2, <2>1, <2>2, FinishStep
<1> QED
  BY <1>4, <1>5, <1>6

-----------------------------------------------------------------------------
(* A task at work on its message.                                          *)

(* The retries and the call of w change, and it may skip its message. *)
LEMMA WorkStep ==
    ASSUME GroupInv, NEW w \in Workers, at[w] # None,
           CallInv', \A v \in Workers \ {w} : call'[v] = call[v],
           \A t \in Txns : status[t] # "PENDING" => status'[t] # "PENDING",
           retries' \in [Workers -> 0 .. MaxRetries],
           UNCHANGED <<kafkaVars, at, dlq, dlqFailed, faults>>,
           skipped' \in {skipped, skipped \cup {at[w]}},
           \A m : m = at[w] =>
              /\ Msg(m) = Malformed => call'[w].at = "idle"
              /\ call'[w].at \in {"trying", "holding"} => call'[w].id = Msg(m)
              /\ call'[w].at = "ok" => Dealt(m)',
           LeftBehind', SkippedOnlyAfterFault'
    PROVE  GroupInv'
<1> USE DEF GroupInv
<1>1. PICK m : m = at[w]
  OBVIOUS
<1>2. m \in Messages
  BY <1>1 DEF GroupTypes
<1>3. log' = log /\ owner' = owner /\ position' = position /\ committed' = committed
  BY DEF kafkaVars
<1>4. Messages' = Messages /\ \A x : Msg(x)' = Msg(x)
  BY <1>3, SameLog
<1>5. NothingTakenBack
  BY <1>4 DEF NothingTakenBack
<1>6. GroupTypes'
  <2>1. skipped' \subseteq Messages
    BY <1>1, <1>2 DEF GroupTypes
  <2> QED
    BY <1>3, <1>4, <2>1 DEF GroupTypes
<1>7. ASSUME NEW v \in Workers
      PROVE  AtWork(v)' /\ DoneBefore(v)' /\ OwnsItsMessage(v)'
  <2>1. CASE v = w
    <3>1. DoneBefore(w)'
      BY <1>1, <1>5, ClosedStays DEF DoneBefore
    <3>2. OwnsItsMessage(w)'
      BY <1>3 DEF OwnsItsMessage
    <3>3. AtWork(w)'
      <4>1. /\ Msg(m)' = Msg(m) /\ Msg(m) # Empty
            /\ at'[w] = m /\ m # None
        BY <1>1, <1>4 DEF AtWork
      <4>2. /\ Msg(at[w])' = Msg(m)'
            /\ Dealt(at[w])' <=> Dealt(m)'
        BY <4>1 DEF Msg, Dealt, Handled, Valid
      <4> QED
        BY <1>1, <4>1, <4>2 DEF AtWork
    <3> QED
      BY <2>1, <3>1, <3>2, <3>3
  <2>2. CASE v # w
    <3>1. AtWork(v)' /\ DoneBefore(v)'
      BY <1>5, <2>2, TaskStays
    <3>2. OwnsItsMessage(v)'
      BY <1>3 DEF OwnsItsMessage
    <3> QED
      BY <3>1, <3>2
  <2> QED
    BY <2>1, <2>2
<1>8. \A p \in Partitions : DoneByOwner(p)' /\ DoneCommitted(p)'
  BY <1>3, <1>5, OwnerStays, CommittedStays
<1> QED
  BY <1>6, <1>7, <1>8

LEMMA RetryStep ==
    ASSUME GroupInv, NEW w \in Workers, Retry(w)
    PROVE  GroupInv'
<1> USE DEF GroupInv
<1>1. PICK m : m = at[w]
  OBVIOUS
<1>2. /\ m # None /\ call[w].at = "retryable" /\ retries[w] < MaxRetries
      /\ retries' = [retries EXCEPT ![w] = retries[w] + 1]
      /\ Start(w, Msg(m))
      /\ UNCHANGED <<kafkaVars, at, dlq, ghosts, faults>>
  BY <1>1 DEF Retry
<1>3. m \in Messages
  BY <1>1, <1>2 DEF GroupTypes
<1>4. Msg(m) \in Ids
  BY <1>1, <1>2, <1>3, MessageForm DEF AtWork
<1>5. /\ call'[w] = [at |-> "trying", id |-> Msg(m)]
      /\ status' = status /\ CallInv'
      /\ \A v \in Workers \ {w} : call'[v] = call[v]
  BY <1>2, <1>4, CallStepKeeps DEF CallStep, Start, CallInv
<1>6. Msg(m) # Malformed
  BY <1>4, MessageAssumption
<1>7. retries' \in [Workers -> 0 .. MaxRetries]
  BY <1>2, MaxRetriesAssumption DEF GroupTypes
<1>8. /\ skipped' = skipped /\ dlq' = dlq /\ dlqFailed' = dlqFailed
      /\ faults' = faults /\ log' = log /\ at' = at /\ holder' = holder
  BY <1>2 DEF ghosts, kafkaVars, Start
<1>9. NothingTakenBack
  BY <1>5, <1>8, SameLog DEF NothingTakenBack
<1>10. SkippedOnlyAfterFault'
  BY <1>8, <1>9, BoundsAssumption, SkippedStays DEF GroupTypes
<1>11. LeftBehind'
  BY <1>2, <1>5, <1>8, <1>9, LeftStays
<1> QED
  BY <1>1, <1>2, <1>5, <1>6, <1>7, <1>8, <1>10, <1>11, WorkStep

(* A task that finds the lock of its message taken meets another task on   *)
(* the same transaction, or on one with the same key, or what a message of *)
(* the transaction has left behind.                                        *)
LEMMA SkipStep ==
    ASSUME GroupInv, NEW w \in Workers, NEW m, m = at[w], m # None, Skip(w)
    PROVE  \/ faults > 0
           \/ \E s, t \in Ids : s # t /\ LockKey[s] = LockKey[t]
           \/ \E x, y \in Messages : x[1] # y[1] /\ Msg(x) = Msg(y)
           \/ Msg(m) \in Poison
           \/ \E n \in dlq \cup dlqFailed : Msg(n) = Msg(m)
<1> USE DEF GroupInv
<1> SUFFICES ASSUME faults = 0,
                    \A s, t \in Ids : LockKey[s] = LockKey[t] => s = t,
                    \A x, y \in Messages : Msg(x) = Msg(y) => x[1] = y[1]
             PROVE  \/ Msg(m) \in Poison
                    \/ \E n \in dlq \cup dlqFailed : Msg(n) = Msg(m)
  BY BoundsAssumption DEF GroupTypes
<1>1. /\ call[w].at = "trying" /\ call[w].id = Msg(m) /\ Msg(m) \in Ids
      /\ m \in Messages /\ owner[m[1]] = w
  BY DEF Skip, CallInv, AtWork, GroupTypes, OwnsItsMessage, Msg
<1>2. PICK k \in LockKeys : k = LockKey[Msg(m)]
  BY <1>1, LockKeyAssumption
<1>3. holder[k] \in Workers \cup LockKeys
  BY <1>1, <1>2 DEF Skip, CallInv
(* No other task is at work on the transaction. *)
<1>4. ASSUME NEW v \in Workers, NEW n \in Messages, n = at[v], v # w, HasKey(n, k)
      PROVE  FALSE
  <2>1. n # None
    BY MessageForm
  <2>2. owner[n[1]] = v
    BY <1>4, <2>1 DEF OwnsItsMessage
  <2>3. Msg(n) = Msg(m)
    BY <1>1, <1>2, <1>4 DEF HasKey
  <2>4. n[1] = m[1]
    BY <1>1, <2>3
  <2> QED
    BY <1>1, <1>4, <2>2, <2>4
<1>5. CASE holder[k] \in Workers
  <2>1. PICK v \in Workers : v = holder[k]
    BY <1>5
  <2>2. call[v].at = "holding" /\ call[v].id \in Ids /\ LockKey[call[v].id] = k
    BY <2>1 DEF CallInv, LocksHeld
  <2>3. PICK n : n = at[v]
    OBVIOUS
  <2>4. n # None /\ n \in Messages /\ call[v].id = Msg(n)
    BY <2>2, <2>3 DEF AtWork, GroupTypes, Msg
  <2>5. v # w
    BY <1>1, <2>2
  <2> QED
    BY <1>4, <2>2, <2>3, <2>4, <2>5 DEF HasKey
<1>6. CASE holder[k] \in LockKeys
  <2>1. Explained(k)
    BY <1>6 DEF LeftBehind
  <2>2. ASSUME NEW t \in Poison, LockKey[t] = k
        PROVE  Msg(m) \in Poison
    BY <1>1, <1>2, <2>2, PoisonAssumption
  <2>3. ASSUME NEW n \in dlq \cup dlqFailed, HasKey(n, k)
        PROVE  Msg(n) = Msg(m)
    BY <1>1, <1>2, <2>3 DEF HasKey
  <2>4. ASSUME NEW v \in Workers, at[v] # None, call[v].at = "permanent", HasKey(at[v], k)
        PROVE  FALSE
    <3>1. PICK n \in Messages : n = at[v]
      BY <2>4 DEF GroupTypes
    <3>2. HasKey(n, k)
      BY <2>4, <3>1 DEF HasKey, Msg
    <3>3. v # w
      BY <1>1, <2>4
    <3> QED
      BY <1>4, <3>1, <3>2, <3>3
  <2> QED
    BY <2>1, <2>2, <2>3, <2>4 DEF Explained
<1> QED
  BY <1>3, <1>5, <1>6

LEMMA ProcessingStep ==
    ASSUME GroupInv, NEW w \in Workers, Processing(w)
    PROVE  GroupInv'
<1> USE DEF GroupInv
<1>1. PICK m : m = at[w]
  OBVIOUS
<1>2. /\ m # None
      /\ UNCHANGED <<kafkaVars, taskVars, dlq, dlqFailed, faults>>
  BY <1>1 DEF Processing
<1>3. m \in Messages
  BY <1>1, <1>2 DEF GroupTypes
<1>4. CallStep(w)
  BY DEF Processing, CallStep
<1>5. /\ CallInv' /\ \A v \in Workers \ {w} : call'[v] = call[v]
      /\ \A t \in Txns : status[t] # "PENDING" => status'[t] # "PENDING"
  BY <1>4, CallStepKeeps
<1>6. log' = log /\ at' = at /\ retries' = retries /\ faults' = faults
  BY <1>2 DEF kafkaVars, taskVars
<1>7. Messages' = Messages /\ Msg(m)' = Msg(m)
  BY <1>6 DEF Messages, Msg
<1>8. Msg(m) # Malformed /\ call[w].at \in {"trying", "holding"} /\ call[w].id = Msg(m)
  <2>1. call[w].at \in {"trying", "holding"}
    BY DEF Processing, Skip, Take, Unavailable, FindDecided, Decide, CallFails
  <2> QED
    BY <1>1, <1>2, <2>1 DEF AtWork
<1>9. NothingTakenBack
  <2>1. skipped \subseteq skipped'
    BY DEF Processing
  <2>2. Messages' = Messages /\ \A x : Msg(x)' = Msg(x)
    BY <1>6, SameLog
  <2> QED
    BY <1>2, <1>5, <2>1, <2>2 DEF NothingTakenBack
<1>10. LeftBehind'
  <2>1. ASSUME NEW k \in LockKeys, holder'[k] \in LockKeys, holder[k] \notin LockKeys
        PROVE  Explained(k)'
    <3>1. PICK r \in {"permanent", "idle"} : holder[k] = w /\ Abandon(w, r)
      BY <1>4, <2>1, CallStepKeeps
    <3>2. call'[w].at = r
      BY <3>1 DEF Abandon, CallInv
    <3>3. r = "permanent"
      BY <3>1, <3>2 DEF Processing, Skip, Return, CallInv
    <3>4. LockKey[Msg(m)] = k /\ call[w].at = "holding"
      BY <1>8, <3>1 DEF CallInv, LocksHeld
    <3>5. Msg(m) \in Ids
      BY <1>8 DEF CallInv
    <3>6. HasKey(at[w], k)'
      BY <1>1, <1>6, <3>4, <3>5 DEF HasKey, Msg
    <3> QED
      BY <1>1, <1>2, <1>6, <3>2, <3>3, <3>6 DEF Explained
  <2>2. \A v \in Workers :
           at[v] # None /\ call[v].at = "permanent" => at'[v] = at[v] /\ call'[v] = call[v]
    BY <1>5, <1>6, <1>8
  <2> QED
    BY <1>6, <1>9, <2>1, <2>2, LeftStays
<1>11. CASE Skip(w) /\ skipped' = skipped \cup {m}
  <2>1. call'[w].at = "ok"
    BY <1>11, <1>1 DEF Skip, Return, CallInv
  <2>2. Dealt(m)'
    BY <1>3, <1>7, <1>11 DEF Dealt
  <2>3. SkippedOnlyAfterFault'
    <3>1. dlq' = dlq /\ dlqFailed' = dlqFailed /\ Messages' = Messages /\ \A x : Msg(x)' = Msg(x)
      BY <1>2, <1>6, SameLog
    <3>2. CASE faults > 0 \/ \E s, t \in Ids : s # t /\ LockKey[s] = LockKey[t]
      BY <1>6, <3>2 DEF SkippedOnlyAfterFault
    <3>3. CASE \E x, y \in Messages : x[1] # y[1] /\ Msg(x) = Msg(y)
      BY <3>1, <3>3 DEF SkippedOnlyAfterFault
    <3>4. CASE /\ ~(faults > 0)
               /\ ~\E s, t \in Ids : s # t /\ LockKey[s] = LockKey[t]
               /\ ~\E x, y \in Messages : x[1] # y[1] /\ Msg(x) = Msg(y)
      <4>1. Msg(m) \in Poison \/ \E n \in dlq \cup dlqFailed : Msg(n) = Msg(m)
        BY <1>1, <1>2, <1>11, <3>4, SkipStep
      <4>2. \A x \in skipped : Msg(x) \in Poison \/ \E n \in dlq \cup dlqFailed : Msg(n) = Msg(x)
        BY <3>4 DEF SkippedOnlyAfterFault
      <4>3. \A x \in skipped' :
               Msg(x)' \in Poison \/ \E n \in dlq' \cup dlqFailed' : Msg(n)' = Msg(x)'
        BY <1>11, <3>1, <4>1, <4>2
      <4> QED
        BY <4>3 DEF SkippedOnlyAfterFault
    <3> QED
      BY <3>2, <3>3, <3>4
  <2> QED
    BY <1>1, <1>2, <1>5, <1>6, <1>8, <1>11, <1>10, <2>1, <2>2, <2>3, WorkStep DEF GroupTypes
<1>12. CASE /\ Take(w) \/ Unavailable(w) \/ FindDecided(w) \/ Decide(w) \/ CallFails(w)
            /\ skipped' = skipped
  <2>1. SkippedOnlyAfterFault'
    BY <1>6, <1>12, <1>9, BoundsAssumption, SkippedStays DEF GroupTypes
  <2>2. call'[w].at \in {"trying", "holding"} => call'[w].id = Msg(m)
    <3>1. CASE Take(w)
      BY <1>8, <3>1 DEF Take, CallInv, Calls
    <3>2. CASE Unavailable(w) \/ FindDecided(w) \/ Decide(w) \/ CallFails(w)
      BY <3>2 DEF Unavailable, FindDecided, Decide, CallFails, Return, Abandon, CallInv
    <3> QED
      BY <1>12, <3>1, <3>2
  <2>3. call'[w].at = "ok" => Dealt(m)'
    <3>1. ASSUME call'[w].at = "ok"
          PROVE  call[w].id \in Txns /\ status'[call[w].id] # "PENDING"
      <4>1. CASE Take(w)
        BY <3>1, <4>1 DEF Take, CallInv, Calls
      <4>2. CASE Unavailable(w) \/ CallFails(w)
        BY <3>1, <4>2 DEF Unavailable, CallFails, Return, Abandon, CallInv
      <4>3. CASE FindDecided(w)
        BY <3>1, <4>3 DEF FindDecided, Return, CallInv
      <4>4. CASE Decide(w)
        BY <3>1, <4>4 DEF Decide, Return, CallInv
      <4> QED
        BY <1>12, <4>1, <4>2, <4>3, <4>4
    <3> QED
      BY <1>3, <1>7, <1>8, <3>1 DEF Dealt, Handled, Valid
  <2> QED
    BY <1>1, <1>2, <1>5, <1>6, <1>8, <1>12, <1>10, <2>1, <2>2, <2>3, WorkStep DEF GroupTypes
<1> QED
  BY <1>1, <1>11, <1>12 DEF Processing

-----------------------------------------------------------------------------
(* The next message.                                                       *)

LEMMA ReceiveStep ==
    ASSUME GroupInv, NEW w \in Workers, Receive(w)
    PROVE  GroupInv'
<1> USE DEF GroupInv
<1>1. PICK p \in Partitions :
        LET m == <<p, position[p] + 1>> IN
        /\ owner[p] = w
        /\ position[p] < Len(log[p])
        /\ position' = [position EXCEPT ![p] = @ + 1]
        /\ IF Msg(m) = Empty
           THEN CommitOffset(m) /\ UNCHANGED <<callVars, at>>
           ELSE /\ at' = [at EXCEPT ![w] = m]
                /\ UNCHANGED <<committed, faults>>
                /\ IF Msg(m) = Malformed THEN UNCHANGED callVars ELSE Start(w, Msg(m))
  BY DEF Receive
<1>2. PICK i : i = position[p] + 1
  OBVIOUS
<1>3. PICK m : m = <<p, i>>
  OBVIOUS
<1>4. /\ owner[p] = w /\ at[w] = None /\ w # None
      /\ position' = [position EXCEPT ![p] = i]
      /\ log' = log /\ owner' = owner /\ retries' = retries
      /\ dlq' = dlq /\ dlqFailed' = dlqFailed /\ skipped' = skipped
  BY <1>1, <1>2, NoneAssumption DEF Receive, ghosts
<1>5. IF Msg(m) = Empty
      THEN CommitOffset(m) /\ UNCHANGED <<callVars, at>>
      ELSE /\ at' = [at EXCEPT ![w] = m]
           /\ UNCHANGED <<committed, faults>>
           /\ IF Msg(m) = Malformed THEN UNCHANGED callVars ELSE Start(w, Msg(m))
  BY <1>1, <1>2, <1>3
<1>6. /\ position[p] \in Nat /\ i \in Nat /\ i \in 1 .. Len(log[p])
      /\ \A j \in 1 .. i : j = i \/ j \in 1 .. position[p]
      /\ i - 1 = position[p]
  <2>1. position[p] \in Nat /\ Len(log[p]) \in Nat /\ position[p] < Len(log[p])
    BY <1>1, MessageForm DEF GroupTypes
  <2> QED
    BY <1>2, <2>1
<1>7. /\ m \in Messages /\ m[1] = p /\ m[2] = i /\ m # None
      /\ Msg(m) \in Ids \cup {Malformed, Empty}
  BY <1>3, <1>6, MessageForm
<1>8. Messages' = Messages /\ \A x : Msg(x)' = Msg(x)
  BY <1>4, SameLog
<1>9. /\ CallInv' /\ status' = status
      /\ \A v \in Workers \ {w} : call'[v] = call[v]
      /\ Msg(m) \in Ids => call'[w] = [at |-> "trying", id |-> Msg(m)]
      /\ Msg(m) \notin Ids => call' = call
  <2>1. CASE Msg(m) \in Ids
    <3>1. Start(w, Msg(m))
      BY <1>5, <2>1, MessageAssumption
    <3> QED
      BY <2>1, <3>1, CallStepKeeps DEF CallStep, Start, CallInv
  <2>2. CASE Msg(m) \notin Ids
    <3>1. UNCHANGED callVars
      BY <1>5, <1>7, <2>2
    <3> QED
      BY <2>2, <3>1 DEF callVars, CallInv, LocksHeld
  <2> QED
    BY <2>1, <2>2
<1>10. NothingTakenBack
  BY <1>4, <1>8, <1>9 DEF NothingTakenBack
<1>11. \/ CommitOffset(m) /\ Msg(m) = Empty
       \/ UNCHANGED <<committed, faults>>
  BY <1>5
<1>12. /\ faults' \in 0 .. MaxFaults /\ faults <= faults'
       /\ committed' = committed \/ committed' = [committed EXCEPT ![p] = i]
       /\ committed' \in [Partitions -> Nat]
       /\ \A q \in Partitions : committed'[q] <= Len(log[q])
  BY <1>4, <1>7, <1>11, CommitEffect
<1>13. /\ \A v \in Workers \ {w} : at'[v] = at[v]
       /\ at'[w] = IF Msg(m) = Empty THEN None ELSE m
       /\ at' \in [Workers -> Messages \cup {None}]
  BY <1>4, <1>5, <1>7 DEF GroupTypes
<1>14. GroupTypes'
  <2>1. /\ position' \in [Partitions -> Nat]
        /\ \A q \in Partitions : position'[q] <= Len(log[q])
    BY <1>4, <1>6 DEF GroupTypes
  <2> QED
    BY <1>4, <1>8, <1>12, <1>13, <2>1 DEF GroupTypes
<1>15. \A j \in 1 .. position[p] : Closed(<<p, j>>) /\ Closed(<<p, j>>)'
  <2> SUFFICES ASSUME NEW j \in 1 .. position[p]
               PROVE  Closed(<<p, j>>)
    BY <1>10, ClosedStays
  <2>1. <<p, j>> # None
    BY <1>6, NoneAssumption
  <2> QED
    BY <1>4, <2>1 DEF DoneByOwner
<1>16. Msg(m) = Empty => Closed(m)'
  BY <1>7, <1>8 DEF Closed
<1>17. ASSUME NEW v \in Workers
       PROVE  AtWork(v)' /\ DoneBefore(v)' /\ OwnsItsMessage(v)'
  <2>1. CASE v # w
    <3>1. AtWork(v)' /\ DoneBefore(v)'
      BY <1>9, <1>10, <1>13, <2>1, TaskStays
    <3>2. OwnsItsMessage(v)'
      BY <1>4, <1>12, <1>13, <2>1, BoundsAssumption DEF OwnsItsMessage, GroupTypes
    <3> QED
      BY <3>1, <3>2
  <2>2. CASE v = w /\ Msg(m) = Empty
    <3>1. Msg(m) \notin Ids
      BY <2>2, MessageAssumption
    <3> QED
      BY <1>4, <1>9, <1>13, <2>2, <3>1 DEF AtWork, DoneBefore, OwnsItsMessage
  <2>3. CASE v = w /\ Msg(m) # Empty
    <3>1. at'[w] = m
      BY <1>13, <2>3
    <3>2. DoneBefore(w)' /\ OwnsItsMessage(w)'
      BY <1>3, <1>4, <1>6, <1>7, <1>15, <3>1 DEF DoneBefore, OwnsItsMessage
    <3>3. Msg(at[w])' = Msg(m)
      BY <1>4, <3>1 DEF Msg
    <3>4. AtWork(w)'
      BY <1>4, <1>7, <1>9, <2>3, <3>1, <3>3, MessageAssumption DEF AtWork
    <3> QED
      BY <2>3, <3>2, <3>4
  <2> QED
    BY <2>1, <2>2, <2>3
<1>18. ASSUME NEW q \in Partitions
       PROVE  DoneByOwner(q)'
  <2>1. CASE q # p
    <3>1. position'[q] = position[q] /\ owner'[q] = owner[q]
      BY <1>4, <2>1 DEF GroupTypes
    <3>2. ASSUME NEW j \in 1 .. position[q], owner[q] # None, at[owner[q]] = <<q, j>>
          PROVE  at'[owner[q]] = <<q, j>>
      <4>1. owner[q] \in Workers /\ <<q, j>> # None
        BY <3>2, NoneAssumption DEF GroupTypes
      <4>2. owner[q] # w
        BY <1>4, <3>2, <4>1
      <4> QED
        BY <1>13, <3>2, <4>1, <4>2
    <3> QED
      BY <1>10, <3>1, <3>2, OwnerStays
  <2>2. CASE q = p
    <3>1. owner'[p] = w /\ position'[p] = i
      BY <1>4 DEF GroupTypes
    <3>2. Closed(<<p, i>>)' \/ at'[w] = <<p, i>>
      BY <1>3, <1>13, <1>16
    <3> QED
      BY <1>6, <1>15, <2>2, <3>1, <3>2 DEF DoneByOwner
  <2> QED
    BY <2>1, <2>2
<1>19. ASSUME NEW q \in Partitions
       PROVE  DoneCommitted(q)'
  <2>1. CASE committed'[q] = committed[q]
    BY <1>10, <2>1, CommittedStays
  <2>2. CASE q = p /\ committed'[p] = i /\ Msg(m) = Empty
    BY <1>3, <1>6, <1>15, <1>16, <2>2 DEF DoneCommitted
  <2> QED
    BY <1>11, <1>12, <2>1, <2>2 DEF GroupTypes
<1>20. SkippedOnlyAfterFault'
  <2>1. faults' \in Nat
    BY <1>12, BoundsAssumption
  <2> QED
    BY <1>4, <1>10, <1>12, <2>1, SkippedStays
<1>21. LeftBehind'
  <2>1. holder' = holder
    BY <1>5 DEF callVars, Start
  <2>2. call[w].at = "idle"
    BY <1>4 DEF AtWork
  <2>3. faults' = 0 => faults = 0
    BY <1>12, BoundsAssumption DEF GroupTypes
  <2> QED
    BY <1>9, <1>10, <1>13, <2>1, <2>2, <2>3, LeftStays
<1> QED
  BY <1>9, <1>14, <1>17, <1>18, <1>19, <1>20, <1>21

-----------------------------------------------------------------------------
(* The consumer group and the crash of a task.                             *)

(* A new owner starts at the committed offset. *)
LEMMA AssignStep ==
    ASSUME GroupInv, NEW p \in Partitions, NEW w \in Workers, Join(p, w) \/ Rebalance(p, w)
    PROVE  GroupInv'
<1> USE DEF GroupInv
<1>1. /\ owner' = [owner EXCEPT ![p] = w]
      /\ position' = [position EXCEPT ![p] = committed[p]]
      /\ UNCHANGED <<callVars, log, committed, taskVars, dlq, ghosts>>
      /\ \/ owner[p] = None /\ faults' = faults
         \/ faults < MaxFaults /\ faults' = faults + 1
  BY DEF Join, Rebalance, Assign, Fault
<1>2. /\ log' = log /\ committed' = committed /\ at' = at /\ retries' = retries
      /\ dlq' = dlq /\ dlqFailed' = dlqFailed /\ skipped' = skipped
      /\ status' = status /\ holder' = holder /\ call' = call
  BY <1>1 DEF callVars, taskVars, ghosts
<1>3. Messages' = Messages /\ \A x : Msg(x)' = Msg(x)
  BY <1>2, SameLog
<1>4. NothingTakenBack
  BY <1>2, <1>3 DEF NothingTakenBack
<1>5. CallInv'
  BY <1>2 DEF CallInv, LocksHeld
<1>6. faults' \in 0 .. MaxFaults /\ faults <= faults' /\ faults' \in Nat
  BY <1>1, BoundsAssumption DEF GroupTypes
<1>7. GroupTypes'
  <2>1. /\ owner' \in [Partitions -> Workers \cup {None}]
        /\ position' \in [Partitions -> Nat]
        /\ \A q \in Partitions : position'[q] <= Len(log[q])
    BY <1>1 DEF GroupTypes
  <2> QED
    BY <1>2, <1>3, <1>6, <2>1 DEF GroupTypes
<1>8. ASSUME NEW v \in Workers
      PROVE  AtWork(v)' /\ DoneBefore(v)' /\ OwnsItsMessage(v)'
  <2>1. AtWork(v)' /\ DoneBefore(v)'
    BY <1>2, <1>4, TaskStays
  <2>2. ASSUME faults' = 0, at[v] # None
        PROVE  owner'[at[v][1]] = v
    <3>1. faults = 0 /\ owner[p] = None
      BY <1>1, <1>6, <2>2, BoundsAssumption DEF GroupTypes
    <3>2. owner[at[v][1]] = v
      BY <2>2, <3>1 DEF OwnsItsMessage
    <3>3. at[v][1] # p
      BY <3>1, <3>2, NoneAssumption
    <3>4. at[v][1] \in Partitions
      BY <2>2, MessageForm DEF GroupTypes
    <3> QED
      BY <1>1, <3>2, <3>3, <3>4 DEF GroupTypes
  <2> QED
    BY <1>2, <2>1, <2>2 DEF OwnsItsMessage
<1>9. ASSUME NEW q \in Partitions
      PROVE  DoneByOwner(q)' /\ DoneCommitted(q)'
  <2>1. DoneCommitted(q)'
    BY <1>2, <1>4, CommittedStays
  <2>2. CASE q = p
    <3>1. position'[p] = committed[p]
      BY <1>1 DEF GroupTypes
    <3> QED
      BY <1>2, <2>1, <2>2, <3>1 DEF DoneByOwner, DoneCommitted
  <2>3. CASE q # p
    <3>1. owner'[q] = owner[q] /\ position'[q] = position[q]
      BY <1>1, <2>3 DEF GroupTypes
    <3>2. DoneByOwner(q)'
      BY <1>2, <1>4, <3>1, OwnerStays
    <3> QED
      BY <2>1, <3>2
  <2> QED
    BY <2>1, <2>2, <2>3
<1>10. SkippedOnlyAfterFault'
  BY <1>2, <1>4, <1>6, SkippedStays
<1>11. LeftBehind'
  <2>1. faults' = 0 => faults = 0
    BY <1>6, BoundsAssumption DEF GroupTypes
  <2> QED
    BY <1>2, <1>4, <2>1, LeftStays
<1> QED
  BY <1>5, <1>7, <1>8, <1>9, <1>10, <1>11

(* A task dies, of a fault or of its message. *)
LEMMA DeathStep ==
    ASSUME GroupInv, NEW w \in Workers, CallStep(w), call'[w].at = "idle", TaskDies(w),
           Fault \/ faults' = faults, LeftBehind'
    PROVE  GroupInv'
<1> USE DEF GroupInv
<1>1. /\ at' = [at EXCEPT ![w] = None]
      /\ retries' = [retries EXCEPT ![w] = 0]
      /\ owner' = [p \in Partitions |-> IF owner[p] = w THEN None ELSE owner[p]]
      /\ log' = log /\ position' = position /\ committed' = committed
      /\ dlq' = dlq /\ dlqFailed' = dlqFailed /\ skipped' = skipped
  BY DEF TaskDies, ghosts
<1>2. /\ CallInv' /\ \A v \in Workers \ {w} : call'[v] = call[v]
      /\ \A t \in Txns : status[t] # "PENDING" => status'[t] # "PENDING"
  BY CallStepKeeps
<1>3. Messages' = Messages /\ \A x : Msg(x)' = Msg(x)
  BY <1>1, SameLog
<1>4. NothingTakenBack
  BY <1>1, <1>2, <1>3 DEF NothingTakenBack
<1>5. faults' \in 0 .. MaxFaults /\ faults <= faults' /\ faults' \in Nat
  BY BoundsAssumption DEF Fault, GroupTypes
<1>6. /\ at'[w] = None
      /\ \A v \in Workers \ {w} : at'[v] = at[v]
      /\ at' \in [Workers -> Messages \cup {None}]
  BY <1>1 DEF GroupTypes
<1>7. GroupTypes'
  <2>1. /\ owner' \in [Partitions -> Workers \cup {None}]
        /\ retries' \in [Workers -> 0 .. MaxRetries]
    BY <1>1, MaxRetriesAssumption DEF GroupTypes
  <2> QED
    BY <1>1, <1>3, <1>5, <1>6, <2>1 DEF GroupTypes
<1>8. ASSUME NEW v \in Workers
       PROVE  AtWork(v)' /\ DoneBefore(v)' /\ OwnsItsMessage(v)'
  <2>2. CASE v = w
    BY <1>6, <2>2 DEF AtWork, DoneBefore, OwnsItsMessage
  <2>3. CASE v # w
    <3>1. ASSUME faults' = 0, at[v] # None
          PROVE  owner'[at[v][1]] = v
      <4>1. faults = 0
        BY <1>5, <3>1, BoundsAssumption DEF GroupTypes
      <4>2. owner[at[v][1]] = v
        BY <3>1, <4>1 DEF OwnsItsMessage
      <4>3. at[v][1] \in Partitions
        BY <3>1, MessageForm DEF GroupTypes
      <4> QED
        BY <1>1, <2>3, <4>2, <4>3
    <3>2. OwnsItsMessage(v)'
      BY <1>6, <2>3, <3>1 DEF OwnsItsMessage
    <3> QED
      BY <1>2, <1>4, <1>6, <2>3, <3>2, TaskStays
  <2> QED
    BY <2>2, <2>3
<1>9. ASSUME NEW p \in Partitions
       PROVE  DoneByOwner(p)' /\ DoneCommitted(p)'
  <2>1. DoneCommitted(p)'
    BY <1>1, <1>4, CommittedStays
  <2>2. CASE owner[p] = w
    BY <1>1, <2>1, <2>2 DEF DoneByOwner
  <2>3. CASE owner[p] # w
    <3>1. owner'[p] = owner[p] /\ position'[p] = position[p]
      BY <1>1, <2>3
    <3>2. owner[p] # None => at'[owner[p]] = at[owner[p]]
      BY <1>6, <2>3 DEF GroupTypes
    <3>3. DoneByOwner(p)'
      BY <1>4, <3>1, <3>2, OwnerStays
    <3> QED
      BY <2>1, <3>3
  <2> QED
    BY <2>2, <2>3
<1>10. SkippedOnlyAfterFault'
  BY <1>1, <1>4, <1>5, SkippedStays
<1> QED
  BY <1>2, <1>7, <1>8, <1>9, <1>10

LEMMA CrashStep ==
    ASSUME GroupInv, NEW w \in Workers, Crash(w)
    PROVE  GroupInv'
<1>1. CallStep(w)
  BY DEF Crash, CallStep
<1>2. call'[w].at = "idle"
  BY DEF Crash, CallDies, Collect, Return, Abandon, CallInv, GroupInv
<1>3. LeftBehind'
  BY BoundsAssumption DEF Crash, Fault, LeftBehind, GroupInv, GroupTypes
<1> QED
  BY <1>1, <1>2, <1>3, DeathStep DEF Crash

(* The lock a poison message leaves behind is explained by its id. *)
LEMMA PoisonedStep ==
    ASSUME GroupInv, NEW w \in Workers, Poisoned(w)
    PROVE  GroupInv'
<1> USE DEF GroupInv
<1>1. PICK m : m = at[w]
  OBVIOUS
<1>2. /\ Msg(m) \in Poison /\ call[w].at = "holding" /\ call[w].id = Msg(m)
      /\ CallDies(w) /\ TaskDies(w) /\ faults' = faults
  BY <1>1 DEF Poisoned, AtWork
<1>3. CallStep(w)
  BY <1>2 DEF CallStep
<1>4. call'[w].at = "idle"
  BY <1>2 DEF CallDies, Return, Abandon, CallInv
<1>5. /\ log' = log /\ dlq' = dlq /\ dlqFailed' = dlqFailed /\ skipped' = skipped
      /\ at' = [at EXCEPT ![w] = None]
  BY <1>2 DEF TaskDies, ghosts
<1>6. /\ \A v \in Workers \ {w} : call'[v] = call[v] /\ at'[v] = at[v]
      /\ NothingTakenBack
  BY <1>3, <1>5, CallStepKeeps, SameLog DEF NothingTakenBack, GroupTypes
<1>7. ASSUME NEW k \in LockKeys, holder'[k] \in LockKeys, holder[k] \notin LockKeys
      PROVE  Explained(k)'
  <2>1. holder[k] = w
    BY <1>3, <1>7, CallStepKeeps
  <2>2. LockKey[Msg(m)] = k
    BY <1>2, <2>1 DEF CallInv, LocksHeld
  <2> QED
    BY <1>2, <2>2 DEF Explained
<1>8. LeftBehind'
  BY <1>2, <1>6, <1>7, LeftStays
<1> QED
  BY <1>2, <1>3, <1>4, <1>8, DeathStep

LEMMA ReleasedStep ==
    ASSUME GroupInv, NEW k \in LockKeys, Released(k)
    PROVE  GroupInv'
<1> USE DEF GroupInv
<1>1. /\ log' = log /\ owner' = owner /\ position' = position /\ committed' = committed
      /\ at' = at /\ retries' = retries /\ faults' = faults
      /\ dlq' = dlq /\ dlqFailed' = dlqFailed /\ skipped' = skipped
  BY DEF Released, kafkaVars, taskVars, ghosts
<1>2. /\ CallInv' /\ call' = call /\ status' = status
      /\ \A j \in LockKeys : holder'[j] \in LockKeys => holder[j] \in LockKeys
  BY LateKeeps DEF Released
<1>3. Messages' = Messages /\ \A m : Msg(m)' = Msg(m)
  BY <1>1, SameLog
<1>4. NothingTakenBack
  BY <1>1, <1>2, <1>3 DEF NothingTakenBack
<1>5. GroupTypes'
  BY <1>1, <1>3 DEF GroupTypes
<1>6. \A w \in Workers : AtWork(w)' /\ DoneBefore(w)' /\ OwnsItsMessage(w)'
  BY <1>1, <1>2, <1>4, TaskStays DEF OwnsItsMessage
<1>7. \A p \in Partitions : DoneByOwner(p)' /\ DoneCommitted(p)'
  BY <1>1, <1>4, OwnerStays, CommittedStays
<1>8. SkippedOnlyAfterFault'
  BY <1>1, <1>4, BoundsAssumption, SkippedStays DEF GroupTypes
<1>9. LeftBehind'
  BY <1>1, <1>2, <1>4, LeftStays
<1> QED
  BY <1>2, <1>5, <1>6, <1>7, <1>8, <1>9

LEMMA GroupStepKeeps ==
    ASSUME GroupInv, GroupStep
    PROVE  GroupInv'
<1>1. ASSUME NEW w \in Workers, Loop(w)
      PROVE  GroupInv'
  BY <1>1, ProcessingStep, PoisonedStep, RetryStep, FinishSteps DEF Loop
<1> QED
  BY <1>1, ReceiveStep, CrashStep, AssignStep, ReleasedStep DEF GroupStep

-----------------------------------------------------------------------------
(* The log grows, whoever appends to it.                                   *)

LEMMA AppendStep ==
    ASSUME GroupInv, NEW p \in Partitions, NEW x \in Ids \cup {Malformed, Empty},
           log' = [log EXCEPT ![p] = Append(log[p], x)],
           UNCHANGED <<callVars, owner, position, committed, taskVars, dlq, ghosts, faults>>
    PROVE  GroupInv' /\ NothingTakenBack
<1> USE DEF GroupInv
<1>1. /\ owner' = owner /\ position' = position /\ committed' = committed
      /\ at' = at /\ retries' = retries /\ faults' = faults
      /\ dlq' = dlq /\ dlqFailed' = dlqFailed /\ skipped' = skipped
      /\ status' = status /\ holder' = holder /\ call' = call
  BY DEF callVars, taskVars, ghosts
<1>2. /\ log[p] \in Seq(Ids \cup {Malformed, Empty})
      /\ Len(log[p]) \in Nat /\ DOMAIN log[p] = 1 .. Len(log[p])
  BY MessageForm DEF GroupTypes
<1>3. PICK s : s = Append(log[p], x)
  OBVIOUS
<1>4. /\ s \in Seq(Ids \cup {Malformed, Empty})
      /\ Len(s) = Len(log[p]) + 1
      /\ DOMAIN s = 1 .. Len(s)
      /\ \A i \in 1 .. Len(log[p]) : s[i] = log[p][i]
  BY <1>2, <1>3, AppendProperties, LenProperties
<1>5. log'[p] = s /\ \A q \in Partitions \ {p} : log'[q] = log[q]
  BY <1>3 DEF GroupTypes
<1>6. /\ log' \in [Partitions -> Seq(Ids \cup {Malformed, Empty})]
      /\ \A q \in Partitions : Len(log[q]) <= Len(log'[q]) /\ Len(log'[q]) \in Nat
  <2>1. \A q \in Partitions : Len(log[q]) \in Nat
    BY MessageForm
  <2> QED
    BY <1>2, <1>3, <1>4, <1>5, <2>1 DEF GroupTypes
<1>7. ASSUME NEW m \in Messages
      PROVE  m \in Messages' /\ Msg(m)' = Msg(m)
  <2>1. m = <<m[1], m[2]>> /\ m[1] \in Partitions /\ m[2] \in 1 .. Len(log[m[1]])
    BY MessageForm
  <2>2. m[2] \in DOMAIN log'[m[1]] /\ log'[m[1]][m[2]] = log[m[1]][m[2]]
    <3>1. CASE m[1] = p
      BY <1>2, <1>4, <1>5, <2>1, <3>1
    <3>2. CASE m[1] # p
      BY <1>5, <2>1, <3>2, MessageForm
    <3> QED
      BY <3>1, <3>2
  <2>3. <<m[1], m[2]>> \in Messages'
    BY <2>1, <2>2 DEF Messages
  <2> QED
    BY <2>1, <2>2, <2>3 DEF Msg
<1>8. NothingTakenBack
  BY <1>1, <1>7 DEF NothingTakenBack
<1>9. CallInv'
  BY <1>1 DEF CallInv, LocksHeld
<1>10. GroupTypes'
  <2>1. Messages \subseteq Messages'
    BY <1>7
  <2>2. \A q \in Partitions : position[q] <= Len(log'[q]) /\ committed[q] <= Len(log'[q])
    <3>1. \A q \in Partitions : /\ position[q] \in Nat /\ committed[q] \in Nat /\ Len(log[q]) \in Nat
                                /\ position[q] <= Len(log[q]) /\ committed[q] <= Len(log[q])
      BY MessageForm DEF GroupTypes
    <3> QED
      BY <1>6, <3>1
  <2> QED
    BY <1>1, <1>6, <2>1, <2>2 DEF GroupTypes
<1>11. ASSUME NEW w \in Workers
       PROVE  AtWork(w)' /\ DoneBefore(w)' /\ OwnsItsMessage(w)'
  BY <1>1, <1>8, TaskStays DEF OwnsItsMessage
<1>12. ASSUME NEW q \in Partitions
       PROVE  DoneByOwner(q)' /\ DoneCommitted(q)'
  BY <1>1, <1>8, OwnerStays, CommittedStays
<1>13. SkippedOnlyAfterFault'
  <2>1. faults' \in Nat /\ faults <= faults'
    BY <1>1, BoundsAssumption DEF GroupTypes
  <2> QED
    BY <1>1, <1>8, <2>1, SkippedStays
<1>14. LeftBehind'
  BY <1>1, <1>8, LeftStays
<1> QED
  BY <1>8, <1>9, <1>10, <1>11, <1>12, <1>13, <1>14

LEMMA ProduceStep ==
    ASSUME GroupInv, NEW p \in Partitions, Produce(p)
    PROVE  GroupInv'
<1>1. PICK x : x = Incoming[p][Len(log[p]) + 1]
  OBVIOUS
<1>2. Len(log[p]) \in Nat
  BY MessageForm DEF GroupInv
<1>3. x \in Ids \cup {Malformed, Empty}
  <2>1. Incoming[p] \in Seq(Ids \cup {Malformed, Empty})
    BY IncomingAssumption
  <2>2. Len(log[p]) + 1 \in 1 .. Len(Incoming[p])
    BY <1>2, <2>1, LenProperties DEF Produce
  <2> QED
    BY <1>1, <2>1, <2>2, ElementOfSeq
<1> QED
  BY <1>1, <1>3, AppendStep DEF Produce

LEMMA GroupUnchanged ==
    ASSUME GroupInv, UNCHANGED vars
    PROVE  GroupInv'
<1>1. /\ log' = log /\ owner' = owner /\ position' = position /\ committed' = committed
      /\ at' = at /\ retries' = retries /\ faults' = faults
      /\ dlq' = dlq /\ dlqFailed' = dlqFailed /\ skipped' = skipped
      /\ status' = status /\ holder' = holder /\ call' = call
  BY DEF vars, callVars, kafkaVars, taskVars, ghosts
<1>2. Messages' = Messages /\ \A m : Msg(m)' = Msg(m)
  BY <1>1, SameLog
<1>3. NothingTakenBack
  BY <1>1, <1>2 DEF NothingTakenBack
<1>4. CallInv' /\ GroupTypes'
  BY <1>1, <1>2 DEF GroupInv, CallInv, LocksHeld, GroupTypes
<1>5. \A w \in Workers : AtWork(w)' /\ DoneBefore(w)' /\ OwnsItsMessage(w)'
  BY <1>1, <1>3, TaskStays DEF GroupInv, OwnsItsMessage
<1>6. \A p \in Partitions : DoneByOwner(p)' /\ DoneCommitted(p)'
  BY <1>1, <1>3, OwnerStays, CommittedStays
<1>7. SkippedOnlyAfterFault'
  <2>1. faults' \in Nat /\ faults <= faults'
    BY <1>1, BoundsAssumption DEF GroupInv, GroupTypes
  <2> QED
    BY <1>1, <1>3, <2>1, SkippedStays DEF GroupInv
<1>8. LeftBehind'
  BY <1>1, <1>3, LeftStays DEF GroupInv
<1> QED
  BY <1>4, <1>5, <1>6, <1>7, <1>8 DEF GroupInv

LEMMA GroupInit == Init => GroupInv
<1> SUFFICES ASSUME Init
             PROVE  GroupInv
  OBVIOUS
<1> USE DEF Init, CallInit
<1>1. CallInv
  <2>1. [at |-> "idle", id |-> None] \in Calls
    BY DEF Calls, Ready
  <2> QED
    BY <2>1, NoneAssumption DEF CallInv, LocksHeld
<1>2. GroupTypes
  <2>1. <<>> \in Seq(Ids \cup {Malformed, Empty}) /\ Len(<<>>) = 0
    BY EmptySeq
  <2> QED
    BY <2>1, MaxRetriesAssumption, BoundsAssumption DEF GroupTypes
<1>3. \A w \in Workers : AtWork(w) /\ DoneBefore(w) /\ OwnsItsMessage(w)
  BY DEF AtWork, DoneBefore, OwnsItsMessage
<1>4. \A p \in Partitions : DoneByOwner(p) /\ DoneCommitted(p)
  BY DEF DoneByOwner, DoneCommitted
<1>5. SkippedOnlyAfterFault
  BY DEF SkippedOnlyAfterFault
<1>6. LeftBehind
  BY OwnersAssumption DEF LeftBehind
<1> QED
  BY <1>1, <1>2, <1>3, <1>4, <1>5, <1>6 DEF GroupInv

THEOREM GroupInvariance == Spec => []GroupInv
<1>1. GroupInv /\ [Next]_vars => GroupInv'
  BY GroupStepKeeps, ProduceStep, GroupUnchanged DEF Next
<1> QED
  BY <1>1, GroupInit, PTL DEF Spec

-----------------------------------------------------------------------------
(* What follows from the invariant.                                        *)

LEMMA GroupTypeOK == GroupInv => TypeOK
<1> SUFFICES ASSUME GroupInv
             PROVE  TypeOK
  OBVIOUS
<1>1. \A p \in Partitions : {position[p], committed[p]} \subseteq 0 .. Len(log[p])
  BY MessageForm DEF GroupInv, GroupTypes
<1> QED
  BY <1>1 DEF GroupInv, CallInv, GroupTypes, TypeOK

LEMMA GroupPassedOver == GroupInv => PassedOverIsHandled
<1> SUFFICES ASSUME GroupInv, NEW m \in Messages, PassedOver(m), Msg(m) # Empty
             PROVE  Dealt(m)
  BY DEF PassedOverIsHandled
<1>1. /\ m = <<m[1], m[2]>> /\ m[1] \in Partitions
      /\ m[2] \in 1 .. Len(log[m[1]]) /\ m[2] \in Nat
  BY MessageForm DEF GroupInv
<1>2. committed[m[1]] \in Nat /\ committed[m[1]] >= m[2]
  BY <1>1 DEF GroupInv, GroupTypes, PassedOver
<1>3. m[2] \in 1 .. committed[m[1]]
  BY <1>1, <1>2
<1>4. Closed(<<m[1], m[2]>>)
  BY <1>1, <1>3 DEF GroupInv, DoneCommitted
<1> QED
  BY <1>1, <1>4 DEF Closed

(* The memory of the tasks, the broker's offsets and the parked messages   *)
(* keep their types: no task retries more than MaxRetries times, and no    *)
(* offset runs past the end of its partition.                              *)
THEOREM TypesAreKept == Spec => []TypeOK
  BY GroupInvariance, GroupTypeOK, PTL

(* At-least-once delivery: what the group has committed past is decided or *)
(* in the DLQ, up to failed DLQ writes and skipped messages, whatever      *)
(* crashes, rebalances and commits by former owners there are.             *)
THEOREM CommittedIsHandled == Spec => []PassedOverIsHandled
  BY GroupInvariance, GroupPassedOver, PTL

(* No message is skipped unless there was a fault, two ids share a lock    *)
(* key, a transaction is in two partitions, or a message of the same       *)
(* transaction is poison or was given up, whose lock is not released yet.  *)
THEOREM SkipsNeedFaults == Spec => []SkippedOnlyAfterFault
<1>1. GroupInv => SkippedOnlyAfterFault
  BY DEF GroupInv
<1> QED
  BY <1>1, GroupInvariance, PTL

-----------------------------------------------------------------------------
(* The consumer makes calls as Settlement allows them.                     *)

LEMMA GroupStepCalls ==
    ASSUME GroupInv, GroupStep
    PROVE  [CallNext]_callVars
<1>1. \A w \in Workers : CallStep(w) => CallNext
  BY DEF CallStep, CallNext
<1>2. ASSUME NEW w \in Workers, Receive(w)
      PROVE  [CallNext]_callVars
  <2>1. PICK p \in Partitions :
          LET m == <<p, position[p] + 1>> IN
          /\ position[p] < Len(log[p])
          /\ Msg(m) = Empty \/ Msg(m) = Malformed => UNCHANGED callVars
          /\ Msg(m) # Empty /\ Msg(m) # Malformed => Start(w, Msg(m))
    BY <1>2 DEF Receive
  <2>2. position[p] + 1 \in 1 .. Len(log[p])
    BY <2>1, MessageForm DEF GroupInv, GroupTypes
  <2>3. Msg(<<p, position[p] + 1>>) \in Ids \cup {Malformed, Empty}
    BY <2>2, MessageForm DEF GroupInv
  <2> QED
    BY <1>1, <2>1, <2>3 DEF CallStep
<1>3. ASSUME NEW w \in Workers, Retry(w)
      PROVE  CallNext
  <2>1. at[w] # None /\ call[w].at = "retryable" /\ Start(w, Msg(at[w]))
    BY <1>3 DEF Retry
  <2>2. at[w] \in Messages /\ Msg(at[w]) # Empty /\ Msg(at[w]) # Malformed
    BY <2>1 DEF GroupInv, GroupTypes, AtWork
  <2>3. Msg(at[w]) \in Ids
    BY <2>2, MessageForm DEF GroupInv
  <2> QED
    BY <1>1, <2>1, <2>3 DEF CallStep
<1>4. ASSUME NEW w \in Workers, Processing(w) \/ Succeed(w) \/ SendToDlq(w) \/ DlqFails(w) \/ Crash(w)
      PROVE  CallNext
  BY <1>1, <1>4 DEF Processing, Succeed, SendToDlq, DlqFails, Crash, Idle, CallStep
<1>6. ASSUME NEW w \in Workers, Poisoned(w)
      PROVE  CallNext
  BY <1>1, <1>6 DEF Poisoned, CallStep
<1>7. ASSUME NEW k \in LockKeys, Released(k)
      PROVE  CallNext
  BY <1>7 DEF Released, CallNext
<1>5. ASSUME NEW p \in Partitions, NEW w \in Workers, Join(p, w) \/ Rebalance(p, w)
      PROVE  UNCHANGED callVars
  BY <1>5 DEF Join, Rebalance, Assign
<1> QED
  BY <1>2, <1>3, <1>4, <1>5, <1>6, <1>7 DEF GroupStep, Loop

(* The consumer starts, awaits and abandons calls of process_transaction   *)
(* only in the ways Settlement has, which the processor implements.        *)
THEOREM CallsAsPromised == Spec => CallSpec
<1>1. Init => CallInit
  BY DEF Init
<1>2. GroupInv /\ [Next]_vars => [CallNext]_callVars
  <2> SUFFICES ASSUME GroupInv, [Next]_vars
               PROVE  [CallNext]_callVars
    OBVIOUS
  <2>1. ASSUME NEW p \in Partitions, Produce(p)
        PROVE  UNCHANGED callVars
    BY <2>1 DEF Produce
  <2>2. UNCHANGED vars => UNCHANGED callVars
    BY DEF vars
  <2> QED
    BY <2>1, <2>2, GroupStepCalls DEF Next
<1> QED
  BY <1>1, <1>2, GroupInvariance, PTL DEF Spec, CallSpec

-----------------------------------------------------------------------------
(* Together with the outbox.                                               *)

Published ==
    /\ event \in [Txns -> {"ABSENT", "PENDING", "PUBLISHED", "FAILED"}]
    /\ \A t \in Txns : event[t] = "PUBLISHED" => Relay!InLog(t)

(* The messages of a transaction are in the partition of its key. *)
Keyed == \A m \in Messages : Msg(m) \in Txns /\ m[1] = Target[Msg(m)]

PlatformInv == GroupInv /\ Published /\ Keyed

LEMMA KeyedStays ==
    ASSUME Keyed, log' = log
    PROVE  Keyed'
  BY SameLog DEF Keyed

LEMMA PlatformStepInv ==
    ASSUME PlatformInv, [PlatformNext]_platformVars
    PROVE  PlatformInv'
<1> USE DEF PlatformInv
<1>1. ASSUME NEW t \in Txns, Submit(t)
      PROVE  PlatformInv'
  <2>1. /\ UNCHANGED vars
        /\ event' = [event EXCEPT ![t] = "PENDING"] /\ log' = log
    BY <1>1 DEF Submit, Relay!Write, vars, kafkaVars, groupVars, taskVars
  <2>2. Published'
    BY <2>1 DEF Published, Relay!InLog
  <2> QED
    BY <2>1, <2>2, GroupUnchanged, KeyedStays
<1>2. ASSUME NEW t \in Txns, RelaySends(t)
      PROVE  PlatformInv'
  <2>1. /\ log' = [log EXCEPT ![Target[t]] = Append(log[Target[t]], t)]
        /\ event' = event
        /\ UNCHANGED <<callVars, owner, position, committed, taskVars, dlq, ghosts, faults>>
    BY <1>2 DEF RelaySends, Relay!Send, groupVars
  <2>2. Target[t] \in Partitions /\ t \in Ids \cup {Malformed, Empty}
    BY TargetAssumption DEF Ids
  <2>3. GroupInv' /\ NothingTakenBack
    BY <2>1, <2>2, AppendStep
  <2>4. ASSUME NEW d \in Txns, event[d] = "PUBLISHED"
        PROVE  Relay!InLog(d)'
    <3>1. PICK i \in DOMAIN log[Target[d]] : log[Target[d]][i] = d
      BY <2>4 DEF Published, Relay!InLog
    <3>2. <<Target[d], i>> \in Messages /\ Msg(<<Target[d], i>>) = d
      BY <3>1, TargetAssumption DEF Messages, Msg
    <3>3. <<Target[d], i>> \in Messages' /\ Msg(<<Target[d], i>>)' = d
      BY <2>3, <3>2 DEF NothingTakenBack
    <3>4. i \in DOMAIN log'[Target[d]] /\ log'[Target[d]][i] = d
      BY <3>3 DEF Messages, Msg
    <3> QED
      BY <3>4 DEF Relay!InLog
  <2>5. Keyed'
    <3> SUFFICES ASSUME NEW m \in Messages'
                 PROVE  Msg(m)' \in Txns /\ m[1] = Target[Msg(m)']
      BY DEF Keyed
    <3>1. /\ m = <<m[1], m[2]>> /\ m[1] \in Partitions /\ m[2] \in DOMAIN log'[m[1]]
          /\ Msg(m)' = log'[m[1]][m[2]]
      BY DEF Messages, Msg
    <3>2. CASE m \in Messages
      BY <2>3, <3>2 DEF NothingTakenBack, Keyed
    <3>3. CASE m \notin Messages
      <4>1. m[2] \notin DOMAIN log[m[1]]
        BY <3>1, <3>3 DEF Messages
      <4>2. m[1] = Target[t]
        BY <2>1, <3>1, <4>1 DEF GroupInv, GroupTypes
      <4>3. PICK s : s = log[Target[t]]
        OBVIOUS
      <4>4. /\ s \in Seq(Ids \cup {Malformed, Empty}) /\ Len(s) \in Nat /\ DOMAIN s = 1 .. Len(s)
            /\ log'[Target[t]] = Append(s, t)
        BY <2>1, <2>2, <4>3, MessageForm DEF GroupInv, GroupTypes
      <4>5. DOMAIN Append(s, t) = 1 .. (Len(s) + 1) /\ Append(s, t)[Len(s) + 1] = t
        BY <2>2, <4>4, AppendProperties, LenProperties
      <4>6. m[2] = Len(s) + 1
        BY <3>1, <4>1, <4>2, <4>3, <4>4, <4>5
      <4> QED
        BY <3>1, <4>2, <4>4, <4>5, <4>6
    <3> QED
      BY <3>2, <3>3
  <2> QED
    BY <2>1, <2>3, <2>4, <2>5 DEF Published
<1>3. ASSUME NEW t \in Txns, RelayRecords(t)
      PROVE  PlatformInv'
  <2>1. PICK sent \in SUBSET Txns, lost \in SUBSET Txns : Relay!Record(sent, lost)
    BY <1>3 DEF RelayRecords, Relay!Resolve
  <2>2. UNCHANGED vars /\ log' = log
    BY <1>3, <2>1 DEF RelayRecords, Relay!Record, vars, kafkaVars, groupVars, taskVars
  <2>3. /\ \A d \in sent : Relay!InLog(d)
        /\ event' = [d \in Txns |-> CASE d \in sent -> "PUBLISHED"
                                      [] d \in lost -> "FAILED"
                                      [] OTHER -> event[d]]
    BY <2>1 DEF Relay!Record
  <2>4. ASSUME NEW d \in Txns
        PROVE  /\ event'[d] \in {"ABSENT", "PENDING", "PUBLISHED", "FAILED"}
               /\ event'[d] = "PUBLISHED" => Relay!InLog(d)
    <3>1. \/ event'[d] = "PUBLISHED" /\ d \in sent
          \/ event'[d] = "FAILED"
          \/ event'[d] = event[d]
      BY <2>3
    <3> QED
      BY <2>3, <3>1 DEF Published
  <2>5. Published'
    BY <2>2, <2>3, <2>4 DEF Published, Relay!InLog
  <2> QED
    BY <2>2, <2>5, GroupUnchanged, KeyedStays
<1>4. ASSUME GroupStep, UNCHANGED event
      PROVE  PlatformInv'
  <2>1. log' = log
    BY <1>4 DEF GroupStep, Receive, Loop, Processing, Retry, Succeed, SendToDlq, DlqFails,
                Crash, Poisoned, TaskDies, Released, Join, Rebalance, Assign, kafkaVars
  <2> QED
    BY <1>4, <2>1, GroupStepKeeps, KeyedStays DEF Published, Relay!InLog
<1>5. ASSUME UNCHANGED platformVars
      PROVE  PlatformInv'
  <2>1. UNCHANGED vars /\ event' = event /\ log' = log
    BY <1>5 DEF platformVars, vars, kafkaVars
  <2> QED
    BY <2>1, GroupUnchanged, KeyedStays DEF Published, Relay!InLog
<1> QED
  BY <1>1, <1>2, <1>3, <1>4, <1>5 DEF PlatformNext

THEOREM PlatformInvariance == PlatformSpec => []PlatformInv
<1>1. PlatformInit => PlatformInv
  BY GroupInit DEF PlatformInit, PlatformInv, Published, Keyed, Messages, Relay!Init
<1> QED
  BY <1>1, PlatformStepInv, PTL DEF PlatformSpec

LEMMA PlatformNothingLost == PlatformInv => NothingLost
<1> SUFFICES ASSUME PlatformInv, NEW t \in Txns, event[t] = "PUBLISHED",
                    \A m \in Copies(t) : PassedOver(m)
             PROVE  Decided(t) \/ Parked(t) \/ FellThrough(t)
  BY DEF PlatformInv, Published, NothingLost, Traced, Parked
<1>1. PICK i \in DOMAIN log[Target[t]] : log[Target[t]][i] = t
  BY DEF PlatformInv, Published, Relay!InLog
<1>2. PICK m : m = <<Target[t], i>>
  OBVIOUS
<1>3. m \in Messages /\ Msg(m) = t
  BY <1>1, <1>2, TargetAssumption DEF Messages, Msg
<1>4. m \in Copies(t) /\ PassedOver(m)
  BY <1>3 DEF Copies
<1>5. Msg(m) # Empty
  BY <1>3, MessageAssumption DEF Ids
<1>6. Dealt(m)
  BY <1>3, <1>4, <1>5, GroupPassedOver DEF PlatformInv, PassedOverIsHandled
<1> QED
  BY <1>3, <1>4, <1>6 DEF Dealt, Handled, Decided, Parked, FellThrough

(* Between the ingestion service and the worker a submitted transaction is *)
(* lost without a trace only through a failed DLQ write or an answer under *)
(* a held lock: otherwise it is decided, its event is FAILED or PENDING, a *)
(* message of it is in the DLQ, or the group has one yet to commit past.   *)
THEOREM NothingIsLost == PlatformSpec => []NothingLost
  BY PlatformInvariance, PlatformNothingLost, PTL

(* The second hole is open only after a fault, for a poison message or for *)
(* ids that share a lock key: with one partition_key per transaction, and  *)
(* as long as no DLQ write of it has failed, any other submitted           *)
(* transaction leaves a trace.                                             *)
THEOREM TracedWithoutFaults ==
    PlatformSpec =>
       [](\A t \in Txns :
             /\ event[t] # "ABSENT"
             /\ faults = 0
             /\ t \notin Poison
             /\ Copies(t) \cap dlqFailed = {}
             /\ \A d, e \in Ids : LockKey[d] = LockKey[e] => d = e
             => Traced(t))
<1>1. ASSUME PlatformInv, NEW t \in Txns, event[t] # "ABSENT", faults = 0, t \notin Poison,
             Copies(t) \cap dlqFailed = {},
             \A d, e \in Ids : LockKey[d] = LockKey[e] => d = e
      PROVE  Traced(t)
  <2>1. Traced(t) \/ FellThrough(t)
    BY <1>1, PlatformNothingLost DEF NothingLost
  <2>2. ASSUME FellThrough(t)
        PROVE  Parked(t)
    <3>1. PICK m \in Copies(t) : m \in skipped
      BY <1>1, <2>2 DEF FellThrough
    <3>2. m \in Messages /\ Msg(m) = t
      BY <3>1 DEF Copies
    <3>3. \A x, y \in Messages : Msg(x) = Msg(y) => x[1] = y[1]
      BY <1>1 DEF PlatformInv, Keyed
    <3>4. ~(faults > 0)
      BY <1>1
    <3>5. \A x \in skipped : Msg(x) \in Poison \/ \E n \in dlq \cup dlqFailed : Msg(n) = Msg(x)
      BY <1>1, <3>1, <3>3, <3>4 DEF PlatformInv, GroupInv, SkippedOnlyAfterFault
    <3>6. PICK n \in dlq \cup dlqFailed : Msg(n) = t
      BY <1>1, <3>1, <3>2, <3>5
    <3>7. n \in Messages
      BY <1>1, <3>6 DEF PlatformInv, GroupInv, GroupTypes
    <3> QED
      BY <1>1, <3>6, <3>7 DEF Copies, Parked
  <2> QED
    BY <2>1, <2>2 DEF Traced
<1>2. PlatformInv =>
         \A t \in Txns :
             /\ event[t] # "ABSENT"
             /\ faults = 0
             /\ t \notin Poison
             /\ Copies(t) \cap dlqFailed = {}
             /\ \A d, e \in Ids : LockKey[d] = LockKey[e] => d = e
             => Traced(t)
  BY <1>1
<1> QED
  BY <1>2, PlatformInvariance, PTL

(* The platform uses the outbox as Outbox describes it, which the relay    *)
(* implements, and makes the calls Settlement describes, which the         *)
(* processor implements.                                                   *)
THEOREM PartsAsPromised == PlatformSpec => Relay!Spec /\ CallSpec
<1>1. PlatformInit => Relay!Init /\ CallInit
  BY DEF PlatformInit, Init
<1>2. PlatformInv /\ [PlatformNext]_platformVars =>
         [Relay!Next]_(Relay!outboxVars) /\ [CallNext]_callVars
  <2> SUFFICES ASSUME PlatformInv, [PlatformNext]_platformVars
               PROVE  [Relay!Next]_(Relay!outboxVars) /\ [CallNext]_callVars
    OBVIOUS
  <2>1. ASSUME NEW t \in Txns, Submit(t) \/ RelaySends(t) \/ RelayRecords(t)
        PROVE  Relay!Next /\ UNCHANGED callVars
    BY <2>1 DEF Submit, RelaySends, RelayRecords, Relay!Next, groupVars
  <2>2. ASSUME GroupStep, UNCHANGED event
        PROVE  UNCHANGED Relay!outboxVars /\ [CallNext]_callVars
    <3>1. log' = log
      BY <2>2 DEF GroupStep, Receive, Loop, Processing, Retry, Succeed, SendToDlq, DlqFails,
                  Crash, Poisoned, TaskDies, Released, Join, Rebalance, Assign, kafkaVars
    <3> QED
      BY <2>2, <3>1, GroupStepCalls DEF PlatformInv, Relay!outboxVars
  <2>3. ASSUME UNCHANGED platformVars
        PROVE  UNCHANGED Relay!outboxVars /\ UNCHANGED callVars
    BY <2>3 DEF platformVars, vars, kafkaVars, Relay!outboxVars
  <2> QED
    BY <2>1, <2>2, <2>3 DEF PlatformNext
<1> QED
  BY <1>1, <1>2, PlatformInvariance, PTL DEF PlatformSpec, Relay!Spec, CallSpec

=============================================================================
