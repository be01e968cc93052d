------------------------------ MODULE Processor ------------------------------
(***************************************************************************)
(* process_transaction, run by every worker against one Postgres database. *)
(*                                                                         *)
(* A worker runs one database transaction per call.  What it reads under   *)
(* its row locks and what it means to write is private to it ("row",       *)
(* "read") until Commit publishes everything in one step; a rollback, a    *)
(* failed statement and a crash discard it.  Every await of the code that  *)
(* other workers can get in between is a step of its own.  Statements that *)
(* only touch rows the transaction has locked, or rows it has not          *)
(* committed, are one step with the one before them.                       *)
(*                                                                         *)
(* The caller is any consumer: a call may come for any transaction, at any *)
(* time and any number of times.                                           *)
(***************************************************************************)
EXTENDS Requests, Sequences, FiniteSets, FiniteSetsExt

CONSTANTS
    Workers,            \* the consumer tasks of all worker processes
    Strays,             \* aggregate ids of events that no row exists for
    LockKeys,           \* the values derive_advisory_lock_key returns
    LockKey,            \* LockKey[t]: the advisory lock key of id t
    AutoApproveLimit,   \* amounts above it are blocked by the fraud check
    Abandonable         \* bound: the lock keys a call may leave behind

Ids == Txns \cup Strays

ASSUME LockKeyAssumption == LockKey \in [Ids -> LockKeys]
ASSUME NoneAssumption == None \notin Workers \cup Ids \cup LockKeys
ASSUME OwnersAssumption == Workers \cap LockKeys = {}
ASSUME FiniteAssumption == IsFiniteSet(Accounts)

VARIABLES
    \* committed rows
    txn,        \* txn[t]: status, version and compliance_checked of t
    acct,       \* acct[a]: balance and version of a
    ledger,     \* ledger[a]: the ledger_entries of a, in commit order
    audit,      \* audit[t]: the actions in audit_log about t, after SUBMITTED
    \* lock tables: the worker whose open database transaction holds the lock,
    \* or the lock key of one that its call has left behind
    advisory, txnLock, acctLock,
    \* one call of process_transaction per worker
    pc,         \* where the call is, or what the last call returned
    cur,        \* the id it was called with
    row,        \* the row of cur as this database transaction sees it
    read        \* the account rows it has read under FOR UPDATE

tables == <<txn, acct, ledger, audit>>
locks  == <<advisory, txnLock, acctLock>>
vars   == <<tables, locks, pc, cur, row, read>>

Status == {"PENDING", "PROCESSING", "SETTLED", "FAILED", "REVERSED"}

TxnRow  == [status : Status, version : Nat, checked : BOOLEAN]
AcctRow == [balance : Int, version : Nat]
Entry   == [txn : Txns, type : {"DEBIT", "CREDIT"}, amount : Nat,
            currency : {Currency[a] : a \in Accounts},
            running : Int, seq : Nat]

(* Ok(()), an error that is_retryable accepts, any other error. *)
Returned == {"ok", "retryable", "permanent"}
Ready    == {"idle"} \cup Returned
Open     == {"lock", "load", "mark", "fraud", "accounts", "commit"}

NoRow  == [status |-> "PENDING", version |-> 0, checked |-> FALSE]
NoRead == [a \in {} |-> 0]

Init ==
    /\ txn = [t \in Txns |-> [status |-> "PENDING", version |-> 1, checked |-> FALSE]]
    /\ acct = [a \in Accounts |-> [balance |-> Opening[a], version |-> 1]]
    /\ ledger = [a \in Accounts |-> <<>>]
    /\ audit = [t \in Txns |-> <<>>]
    /\ advisory = [k \in LockKeys |-> None]
    /\ txnLock = [t \in Txns |-> None]
    /\ acctLock = [a \in Accounts |-> None]
    /\ pc = [w \in Workers |-> "idle"]
    /\ cur = [w \in Workers |-> None]
    /\ row = [w \in Workers |-> NoRow]
    /\ read = [w \in Workers |-> NoRead]

-----------------------------------------------------------------------------
(* The end of a call, which returns r.  The locks of its database          *)
(* transaction go to o: to nobody when Postgres has ended the transaction. *)

Passed(lock, w, o) == [x \in DOMAIN lock |-> IF lock[x] = w THEN o ELSE lock[x]]

Leave(w, r, o) ==
    /\ advisory' = Passed(advisory, w, o)
    /\ txnLock' = Passed(txnLock, w, o)
    /\ acctLock' = Passed(acctLock, w, o)
    /\ pc' = [pc EXCEPT ![w] = r]
    /\ cur' = [cur EXCEPT ![w] = None]
    /\ row' = [row EXCEPT ![w] = NoRow]
    /\ read' = [read EXCEPT ![w] = NoRead]

(* Mutant: account locks outlive the database transaction. *)
EndKeepsAccounts(w, r) ==
    /\ advisory' = Passed(advisory, w, None)
    /\ txnLock' = Passed(txnLock, w, None)
    /\ pc' = [pc EXCEPT ![w] = r]
    /\ cur' = [cur EXCEPT ![w] = None]
    /\ row' = [row EXCEPT ![w] = NoRow]
    /\ read' = [read EXCEPT ![w] = NoRead]
    /\ UNCHANGED acctLock

End(w, r) == Leave(w, r, None)

Rollback(w, r) == End(w, r) /\ UNCHANGED tables

(* A database transaction that is dropped, by an error the call returns or *)
(* with its worker: the ROLLBACK sqlx queues, or the loss of the           *)
(* connection, reaches Postgres when the call is over.  Until then the     *)
(* locks are held by the lock key, which only one such transaction holds.  *)
Abandon(w, r) ==
    /\ pc[w] # "lock"
    /\ LockKey[cur[w]] \in Abandonable
    /\ Leave(w, r, LockKey[cur[w]])
    /\ UNCHANGED tables

Drop(w, r) == Rollback(w, r) \/ Abandon(w, r)

LateRollback(k) ==
    /\ advisory[k] = k
    /\ advisory' = Passed(advisory, k, None)
    /\ txnLock' = Passed(txnLock, k, None)
    /\ acctLock' = Passed(acctLock, k, None)
    /\ UNCHANGED <<tables, pc, cur, row, read>>

Goto(w, label) == pc' = [pc EXCEPT ![w] = label]

-----------------------------------------------------------------------------

(* The consumer calls process_transaction, which begins a transaction. *)
Call(w, t) ==
    /\ pc[w] \in Ready
    /\ Goto(w, "lock")
    /\ cur' = [cur EXCEPT ![w] = t]
    /\ UNCHANGED <<tables, locks, row, read>>

(* An injected fault or a pool that timed out ends the call before it has  *)
(* begun a transaction.                                                    *)
Refuse(w) ==
    /\ pc[w] = "lock"
    /\ \E r \in {"retryable", "permanent"} : Rollback(w, r)

(* pg_try_advisory_xact_lock does not wait: the call succeeds, having done *)
(* nothing, when another transaction holds the key.                        *)
TryLock(w) ==
    /\ pc[w] = "lock"
    /\ LET k == LockKey[cur[w]] IN
         IF advisory[k] = None
         THEN /\ advisory' = [advisory EXCEPT ![k] = w]
              /\ Goto(w, "load")
              /\ UNCHANGED <<tables, txnLock, acctLock, cur, row, read>>
         ELSE Rollback(w, "ok")

NotFound(w) ==
    /\ pc[w] = "load"
    /\ cur[w] \notin Txns
    /\ Drop(w, "permanent")

(* Mutant: a FAILED row ends the call like a SETTLED one. *)
LoadSkipsFailed(w) ==
    LET t == cur[w] IN
    /\ pc[w] = "load"
    /\ t \in Txns
    /\ txnLock[t] = None
    /\ IF txn[t].status \in {"SETTLED", "REVERSED", "FAILED"}
       THEN Rollback(w, "ok")
       ELSE /\ txnLock' = [txnLock EXCEPT ![t] = w]
            /\ row' = [row EXCEPT ![w] = txn[t]]
            /\ Goto(w, "mark")
            /\ UNCHANGED <<tables, advisory, acctLock, cur, read>>

(* SELECT ... FOR UPDATE waits for the row lock; a terminal row ends the   *)
(* call.                                                                   *)
Load(w) ==
    LET t == cur[w] IN
    /\ pc[w] = "load"
    /\ t \in Txns
    /\ txnLock[t] = None
    /\ CASE txn[t].status \in {"SETTLED", "REVERSED"} -> Rollback(w, "ok")
         [] txn[t].status = "FAILED" -> Rollback(w, "permanent")
         [] OTHER -> /\ txnLock' = [txnLock EXCEPT ![t] = w]
                     /\ row' = [row EXCEPT ![w] = txn[t]]
                     /\ Goto(w, "mark")
                     /\ UNCHANGED <<tables, advisory, acctLock, cur, read>>

(* The optimistic check: UPDATE ... WHERE version = the version loaded. *)
MarkProcessing(w) ==
    LET t == cur[w] IN
    /\ pc[w] = "mark"
    /\ IF /\ txn[t].version = row[w].version
          /\ txn[t].status \in {"PENDING", "PROCESSING"}
       THEN /\ row' = [row EXCEPT ![w].status = "PROCESSING", ![w].version = @ + 1]
            /\ Goto(w, "fraud")
            /\ UNCHANGED <<tables, locks, cur, read>>
       ELSE Rollback(w, "retryable")

(* mark_failed, the effect of which is committed. *)
MarkFailed(w) ==
    /\ row' = [row EXCEPT ![w].status = "FAILED", ![w].version = @ + 1]
    /\ Goto(w, "commit")
    /\ UNCHANGED <<tables, locks, cur, read>>

FraudPassed(w) ==
    /\ pc[w] = "fraud"
    /\ row[w].checked \/ Amount[cur[w]] <= AutoApproveLimit
    /\ row' = [row EXCEPT ![w].checked = TRUE]
    /\ Goto(w, "accounts")
    /\ UNCHANGED <<tables, locks, cur, read>>

FraudBlocked(w) ==
    /\ pc[w] = "fraud"
    /\ ~row[w].checked
    /\ Amount[cur[w]] > AutoApproveLimit
    /\ MarkFailed(w)

FraudTimeout(w) ==
    /\ pc[w] = "fraud"
    /\ ~row[w].checked
    /\ MarkFailed(w)

-----------------------------------------------------------------------------
(* The business logic: process_transfer, process_credit, process_debit.    *)

Held(w)   == DOMAIN read[w]
Wanted(w) == IF Executable(cur[w]) THEN Parties(cur[w]) \ Held(w) ELSE {}

(* Mutant: the source account first. *)
NextWantedSourceFirst(w) ==
    {a \in Wanted(w) : a \in Debited(cur[w]) \/ Wanted(w) \cap Debited(cur[w]) = {}}

(* The account to lock next: the one with the smaller id. *)
NextWanted(w) == {a \in Wanted(w) : \A b \in Wanted(w) : a <= b}

(* Mutant: a plain SELECT. *)
LockAccountUnlocked(w) ==
    /\ pc[w] = "accounts"
    /\ \E a \in NextWanted(w) :
         read' = [read EXCEPT ![w] =
                   [b \in Held(w) \cup {a} |-> IF b = a THEN acct[a] ELSE read[w][b]]]
    /\ UNCHANGED <<tables, locks, pc, cur, row>>

(* SELECT ... FOR UPDATE on one account; it waits while another worker     *)
(* holds the row.                                                          *)
LockAccount(w) ==
    /\ pc[w] = "accounts"
    /\ \E a \in NextWanted(w) :
         /\ acctLock[a] = None
         /\ acctLock' = [acctLock EXCEPT ![a] = w]
         /\ read' = [read EXCEPT ![w] =
                       [b \in Held(w) \cup {a} |-> IF b = a THEN acct[a] ELSE read[w][b]]]
    /\ UNCHANGED <<tables, advisory, txnLock, pc, cur, row>>

NewBalance(w, a) == After(cur[w], a, read[w][a].balance)

(* Mutants: the row is never marked SETTLED; the locks are let go of before *)
(* the commit.                                                             *)
ExecuteUnmarked(w) ==
    /\ pc[w] = "accounts"
    /\ Wanted(w) = {}
    /\ Goto(w, "commit")
    /\ UNCHANGED <<tables, locks, cur, row, read>>
ExecuteUnlocks(w) ==
    /\ pc[w] = "accounts"
    /\ Wanted(w) = {}
    /\ row' = [row EXCEPT ![w].status = "SETTLED", ![w].version = @ + 1]
    /\ Goto(w, "commit")
    /\ advisory' = Passed(advisory, w, None)
    /\ txnLock' = Passed(txnLock, w, None)
    /\ acctLock' = Passed(acctLock, w, None)
    /\ UNCHANGED <<tables, cur, read>>

(* The rules are checked on what was read, before anything is written. An  *)
(* amount the balance column cannot hold makes the UPDATE fail, and with   *)
(* it the whole database transaction.                                      *)
Execute(w) ==
    LET t == cur[w] IN
    /\ pc[w] = "accounts"
    /\ Wanted(w) = {}
    /\ IF ~Executable(t) \/ Refused(t, [a \in Held(w) |-> read[w][a].balance])
       THEN MarkFailed(w)
       ELSE IF \E a \in Parties(t) : NewBalance(w, a) > MaxBalance
       THEN Rollback(w, "permanent")
       ELSE /\ row' = [row EXCEPT ![w].status = "SETTLED", ![w].version = @ + 1]
            /\ Goto(w, "commit")
            /\ UNCHANGED <<tables, locks, cur, read>>

(* UPDATE accounts: the transfer's WHERE version = $3 has no effect when   *)
(* the row has moved on, and nothing looks at rows_affected.               *)
Updated(w) ==
    {a \in Parties(cur[w]) :
        Kind[cur[w]] = "TRANSFER" => acct[a].version = read[w][a].version}

(* COALESCE(MAX(sequence_num), 0) + 1 *)
NextSeq(a) ==
    IF ledger[a] = <<>> THEN 1
    ELSE Max({ledger[a][i].seq : i \in DOMAIN ledger[a]}) + 1

NewEntry(w, a) ==
    [txn      |-> cur[w],
     type     |-> IF a \in Debited(cur[w]) THEN "DEBIT" ELSE "CREDIT",
     amount   |-> Amount[cur[w]],
     currency |-> Currency[a],
     running  |-> NewBalance(w, a),
     seq      |-> NextSeq(a)]

(* Mutant: a failed transaction is posted too. *)
PublishAlwaysPosts(w) ==
    LET t == cur[w] IN
    /\ txn' = [txn EXCEPT ![t] = row[w]]
    /\ audit' = [audit EXCEPT ![t] = Append(@, row[w].status)]
    /\ acct' = [a \in Accounts |->
                  IF a \in Held(w)
                  THEN [balance |-> NewBalance(w, a), version |-> acct[a].version + 1]
                  ELSE acct[a]]
    /\ ledger' = [a \in Accounts |->
                    IF a \in Held(w) THEN Append(ledger[a], NewEntry(w, a)) ELSE ledger[a]]

(* What the call wrote becomes visible: the transaction's row and its      *)
(* audit record and, when it settles, the balances and ledger entries, one *)
(* of each per account, since a transfer is between two.                   *)
Publish(w) ==
    LET t == cur[w]
        settles == row[w].status = "SETTLED"
    IN
    /\ txn' = [txn EXCEPT ![t] = row[w]]
    /\ audit' = [audit EXCEPT ![t] = Append(@, row[w].status)]
    /\ acct' = [a \in Accounts |->
                  IF settles /\ a \in Updated(w)
                  THEN [balance |-> NewBalance(w, a), version |-> acct[a].version + 1]
                  ELSE acct[a]]
    /\ ledger' = [a \in Accounts |->
                    IF settles /\ a \in Parties(t)
                    THEN Append(ledger[a], NewEntry(w, a))
                    ELSE ledger[a]]

Commit(w) ==
    /\ pc[w] = "commit"
    /\ Publish(w)
    /\ End(w, IF row[w].status = "SETTLED" THEN "ok" ELSE "permanent")

(* The commit took effect but the worker never learns: the connection or   *)
(* the worker is gone.                                                     *)
CommitUnseen(w) ==
    /\ pc[w] = "commit"
    /\ Publish(w)
    /\ \E r \in {"idle", "permanent"} : End(w, r)

-----------------------------------------------------------------------------
(* Any statement can fail, which is not retryable, and the worker can      *)
(* crash: Postgres rolls back, at once when the statement failed there.    *)

DbError(w) == pc[w] \in Open /\ Drop(w, "permanent")

Crash(w) == pc[w] \in Open /\ Drop(w, "idle")

Step(w) ==
    \/ TryLock(w) \/ NotFound(w) \/ Load(w) \/ MarkProcessing(w)
    \/ FraudPassed(w) \/ FraudBlocked(w) \/ FraudTimeout(w)
    \/ LockAccount(w) \/ Execute(w) \/ Commit(w)

Next ==
    \/ \E w \in Workers :
        \/ \E t \in Ids : Call(w, t)
        \/ Step(w)
        \/ Refuse(w) \/ CommitUnseen(w) \/ DbError(w) \/ Crash(w)
    \/ \E k \in LockKeys : LateRollback(k)

Spec == Init /\ [][Next]_vars

(* A call makes progress whenever it can again and again: row locks are    *)
(* granted in the order they were asked for, and the runtime polls every   *)
(* task.  A dropped transaction is rolled back in the end.                 *)
FairSpec ==
    /\ Spec
    /\ \A w \in Workers : SF_vars(Step(w))
    /\ \A k \in LockKeys : WF_vars(LateRollback(k))

=============================================================================
