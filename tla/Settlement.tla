----------------------------- MODULE Settlement -----------------------------
(***************************************************************************)
(* process_transaction as its caller sees it: a call takes the advisory    *)
(* lock of its transaction or returns Ok at once, and whoever holds the    *)
(* lock decides the transaction, finds it decided, or fails without any    *)
(* effect.  How the decision is made is left to Processor.                 *)
(***************************************************************************)
CONSTANTS
    Workers, Txns, Strays, LockKeys, LockKey, None,
    Abandonable     \* bound: the lock keys a call may leave behind

Ids == Txns \cup Strays

ASSUME LockKeyAssumption == LockKey \in [Ids -> LockKeys]
ASSUME OwnersAssumption == Workers \cap LockKeys = {} /\ None \notin LockKeys

VARIABLES
    status,     \* status[t]: the visible status of t
    holder,     \* holder[k]: the worker that holds the advisory lock k, or k
                \* when the call that took it is over and not rolled back yet
    call        \* call[w]: the state of w's call, and the id it is for

callVars == <<status, holder, call>>

Returned == {"ok", "retryable", "permanent"}
Ready    == {"idle"} \cup Returned
Calls    == [at : Ready \cup {"trying", "holding"}, id : Ids \cup {None}]

CallInit ==
    /\ status = [t \in Txns |-> "PENDING"]
    /\ holder = [k \in LockKeys |-> None]
    /\ call = [w \in Workers |-> [at |-> "idle", id |-> None]]

Start(w, t) ==
    /\ call[w].at \in Ready
    /\ call' = [call EXCEPT ![w] = [at |-> "trying", id |-> t]]
    /\ UNCHANGED <<status, holder>>

(* Mutant: the advisory lock outlives the call. *)
ReturnKeepsLock(w, r) ==
    /\ call' = [call EXCEPT ![w] = [at |-> r, id |-> None]]
    /\ UNCHANGED holder

Return(w, r) ==
    /\ call' = [call EXCEPT ![w] = [at |-> r, id |-> None]]
    /\ holder' = [k \in LockKeys |-> IF holder[k] = w THEN None ELSE holder[k]]

(* The call is over before its database transaction has been rolled back. *)
Abandon(w, r) ==
    /\ call[w].at = "holding"
    /\ LockKey[call[w].id] \in Abandonable
    /\ call' = [call EXCEPT ![w] = [at |-> r, id |-> None]]
    /\ holder' = [k \in LockKeys |-> IF holder[k] = w THEN k ELSE holder[k]]

LateRollback(k) ==
    /\ holder[k] = k
    /\ holder' = [j \in LockKeys |-> IF holder[j] = k THEN None ELSE holder[j]]
    /\ UNCHANGED <<status, call>>

(* Another call holds the key, possibly for another transaction, or has    *)
(* left it behind.                                                         *)
Skip(w) ==
    /\ call[w].at = "trying"
    /\ holder[LockKey[call[w].id]] # None
    /\ Return(w, "ok")
    /\ UNCHANGED status

Take(w) ==
    /\ call[w].at = "trying"
    /\ holder[LockKey[call[w].id]] = None
    /\ holder' = [holder EXCEPT ![LockKey[call[w].id]] = w]
    /\ call' = [call EXCEPT ![w].at = "holding"]
    /\ UNCHANGED status

(* An injected fault, or no connection. *)
Unavailable(w) ==
    /\ call[w].at = "trying"
    /\ \E r \in {"retryable", "permanent"} : Return(w, r)
    /\ UNCHANGED status

FindDecided(w) ==
    /\ call[w].at = "holding"
    /\ call[w].id \in Txns
    /\ \/ status[call[w].id] = "SETTLED" /\ Return(w, "ok")
       \/ status[call[w].id] = "FAILED" /\ Return(w, "permanent")
    /\ UNCHANGED status

(* The decision is committed; its caller may not learn of it. *)
Decide(w) ==
    /\ call[w].at = "holding"
    /\ call[w].id \in Txns
    /\ status[call[w].id] = "PENDING"
    /\ \E s \in {"SETTLED", "FAILED"}, r \in {"ok", "permanent", "idle"} :
         /\ r = "ok" => s = "SETTLED"
         /\ status' = [status EXCEPT ![call[w].id] = s]
         /\ Return(w, r)

(* A failed statement or an unknown id. *)
CallFails(w) ==
    /\ call[w].at \in {"trying", "holding"}
    /\ Return(w, "permanent") \/ Abandon(w, "permanent")
    /\ UNCHANGED status

CallDies(w) ==
    /\ call[w].at \in {"trying", "holding"}
    /\ Return(w, "idle") \/ Abandon(w, "idle")
    /\ UNCHANGED status

(* The caller has taken the result. *)
Collect(w) ==
    /\ call[w].at \in Ready
    /\ call' = [call EXCEPT ![w] = [at |-> "idle", id |-> None]]
    /\ UNCHANGED <<status, holder>>

CallNext ==
    \/ \E w \in Workers :
        \/ \E t \in Ids : Start(w, t)
        \/ Skip(w) \/ Take(w) \/ Unavailable(w) \/ FindDecided(w) \/ Decide(w)
        \/ CallFails(w) \/ CallDies(w) \/ Collect(w)
    \/ \E k \in LockKeys : LateRollback(k)

CallSpec == CallInit /\ [][CallNext]_callVars

=============================================================================
