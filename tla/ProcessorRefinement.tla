------------------------- MODULE ProcessorRefinement -------------------------
(***************************************************************************)
(* The transaction processor implements its two abstract specifications:   *)
(* the atomic book (LedgerBook) and the call the consumer makes            *)
(* (Settlement).                                                           *)
(***************************************************************************)
EXTENDS ProcessorSafetyProofs

-----------------------------------------------------------------------------
(* The book.                                                               *)

(* The abstract specification uses the same rules. *)
LEMMA SameRules ==
    ASSUME NEW t, NEW a, NEW x, NEW f
    PROVE  /\ Book!Debited(t) = Debited(t)
           /\ Book!Parties(t) = Parties(t)
           /\ Book!Executable(t) <=> Executable(t)
           /\ Book!After(t, a, x) = After(t, a, x)
           /\ Book!Refused(t, f) <=> Refused(t, f)
  BY DEF Book!Debited, Book!Credited, Book!Parties, Book!Executable, Book!After,
     Book!Refused, Debited, Credited, Parties, Executable, After, Refused

LEMMA BookInit ==
    ASSUME Init
    PROVE  Book!Init
<1>1. [t \in Txns |-> txn[t].status] = [t \in Txns |-> "PENDING"]
  <2>1. ASSUME NEW t \in Txns
        PROVE  txn[t].status = "PENDING"
    <3>1. txn[t] = [status |-> "PENDING", version |-> 1, checked |-> FALSE]
      BY DEF Init
    <3> QED
      BY <3>1
  <2> QED
    BY <2>1
<1>2. [a \in Accounts |-> acct[a].balance] = Opening
  BY OpeningBalance, AccountsAssumption
<1>3. [a \in Accounts |-> [i \in DOMAIN ledger[a] |-> ledger[a][i].txn]]
        = [a \in Accounts |-> <<>>]
  <2>1. ASSUME NEW a \in Accounts
        PROVE  [i \in DOMAIN ledger[a] |-> ledger[a][i].txn] = <<>>
    <3>1. ledger[a] = <<>> /\ DOMAIN ledger[a] = {}
      BY DEF Init
    <3> QED
      BY <3>1
  <2> QED
    BY <2>1
<1> QED
  BY <1>1, <1>2, <1>3 DEF Book!Init

(* The entry a commit appends is the transaction the book gets. *)
LEMMA BookAppend ==
    ASSUME Core, NEW w \in Workers, pc[w] = "commit", Publish(w),
           row[w].status = "SETTLED", NEW a \in Parties(cur[w])
    PROVE  [i \in DOMAIN ledger'[a] |-> ledger'[a][i].txn]
             = Append([i \in DOMAIN ledger[a] |-> ledger[a][i].txn], cur[w])
<1> DEFINE n == Len(ledger[a])
           old == [i \in 1 .. n |-> ledger[a][i].txn]
           new == [i \in 1 .. n + 1 |-> ledger'[a][i].txn]
<1>1. a \in Accounts /\ cur[w] \in Txns
  BY NewEntryType, AtCommit
<1>2. /\ n \in Nat /\ DOMAIN ledger[a] = 1 .. n
      /\ \A i \in 1 .. n : ledger[a][i].txn \in Txns
  BY <1>1, LedgerType DEF Entry
<1>3. /\ DOMAIN ledger'[a] = 1 .. n + 1
      /\ \A i \in 1 .. n : ledger'[a][i] = ledger[a][i]
      /\ ledger'[a][n + 1] = NewEntry(w, a)
  BY LedgerAppend
<1>4. NewEntry(w, a).txn = cur[w]
  BY DEF NewEntry
<1>5. old \in Seq(Txns) /\ Len(old) = n
  BY <1>2
<1>6. /\ \A i \in 1 .. n : new[i] = old[i]
      /\ new[n + 1] = cur[w]
  BY <1>2, <1>3, <1>4
<1>7. new \in Seq(Txns) /\ Len(new) = n + 1
  BY <1>1, <1>2, <1>3, <1>4
<1> HIDE DEF old, new, n
<1>8. new = Append(old, cur[w])
  BY <1>1, <1>2, <1>5, <1>6, <1>7
<1> QED
  BY <1>2, <1>3, <1>8 DEF old, new, n

LEMMA BookSettles ==
    ASSUME Core, NEW w \in Workers, pc[w] = "commit", Publish(w),
           row[w].status = "SETTLED", NEW t \in Txns, t = cur[w]
    PROVE  Book!Settle(t)
<1> DEFINE status == [u \in Txns |-> txn[u].status]
           balance == [a \in Accounts |-> acct[a].balance]
           book == [a \in Accounts |-> [i \in DOMAIN ledger[a] |-> ledger[a][i].txn]]
<1>1. /\ t \in Txns /\ txn[t].status = "PENDING" /\ Approved(w)
      /\ Parties(t) \subseteq Accounts
  BY PartiesType DEF Core, CallShapes, CallShape, Locked, Approved
<1>2. status[t] = "PENDING" /\ status' = [status EXCEPT ![t] = "SETTLED"]
  <2>1. txn'[t] = row[w] /\ \A u \in Txns \ {t} : txn'[u] = txn[u]
    BY AtCommit
  <2> QED
    BY <1>1, <2>1
<1>3. ~Refused(t, balance)
  <2>1. \A a \in Parties(t) : a \in Active
    BY NewBalanceIs
  <2>2. ASSUME NEW a \in Debited(t)
        PROVE  ~(balance[a] < Amount[t])
    <3>1. a \in Parties(t)
      BY DEF Parties
    <3>2. acct[a].balance >= Amount[t] /\ acct[a].balance \in Int
      BY <1>1, <3>1, NewBalanceIs DEF Core, TypeOK, TablesOK, AcctRow
    <3>3. Amount[t] \in Int
      BY <1>1, RowsAssumption
    <3> QED
      BY <1>1, <3>1, <3>2, <3>3
  <2> QED
    BY <2>1, <2>2 DEF Refused
<1>4. \A a \in Parties(t) : After(t, a, balance[a]) <= MaxBalance
  BY <1>1, NewBalanceIs
<1>5. balance'
        = [a \in Accounts |-> IF a \in Parties(t) THEN After(t, a, balance[a])
                                                  ELSE balance[a]]
  <2>1. ASSUME NEW a \in Parties(t)
        PROVE  acct'[a].balance = After(t, a, balance[a])
    <3>1. acct'[a] = [balance |-> NewBalance(w, a), version |-> acct[a].version + 1]
      BY <1>1, PublishEffect
    <3> QED
      BY <1>1, <3>1, NewBalanceIs
  <2>2. ASSUME NEW a \in Accounts, a \notin Parties(t)
        PROVE  acct'[a] = acct[a]
    BY <2>2, PublishEffect
  <2> QED
    BY <2>1, <2>2
<1>6. book'
        = [a \in Accounts |-> IF a \in Parties(t) THEN Append(book[a], t) ELSE book[a]]
  <2>1. ASSUME NEW a \in Accounts, a \notin Parties(t)
        PROVE  ledger'[a] = ledger[a]
    BY <2>1, PublishEffect
  <2> QED
    BY <2>1, BookAppend
<1>7. Executable(t)
  BY <1>1 DEF Approved
<1> HIDE DEF status, balance, book
<1>8. /\ Book!Executable(t)
      /\ ~Book!Refused(t, balance)
      /\ \A a \in Book!Parties(t) : Book!After(t, a, balance[a]) <= MaxBalance
  BY <1>3, <1>4, <1>7, SameRules
<1>9. /\ Book!Parties(t) = Parties(t)
      /\ \A a \in Accounts : Book!After(t, a, balance[a]) = After(t, a, balance[a])
  BY SameRules
<1>10. balance' = [a \in Accounts |-> IF a \in Book!Parties(t)
                                      THEN Book!After(t, a, balance[a])
                                      ELSE balance[a]]
  BY <1>5, <1>9
<1>11. book' = [a \in Accounts |-> IF a \in Book!Parties(t) THEN Append(book[a], t)
                                                            ELSE book[a]]
  BY <1>6, <1>9
<1> QED
  BY <1>2, <1>8, <1>10, <1>11 DEF Book!Settle, status, balance, book

LEMMA BookFails ==
    ASSUME Core, NEW w \in Workers, pc[w] = "commit", Publish(w),
           row[w].status = "FAILED", NEW t \in Txns, t = cur[w]
    PROVE  Book!Fail(t)
<1>1. txn[t].status = "PENDING"
  BY AtCommit
<1>2. [u \in Txns |-> txn'[u].status]
        = [[u \in Txns |-> txn[u].status] EXCEPT ![t] = "FAILED"]
  <2>1. txn'[t] = row[w] /\ \A u \in Txns \ {t} : txn'[u] = txn[u]
    BY AtCommit
  <2> QED
    BY <2>1
<1>3. \A a \in Accounts : ledger'[a] = ledger[a] /\ acct'[a] = acct[a]
  BY PublishEffect
<1> QED
  BY <1>1, <1>2, <1>3 DEF Book!Fail

(* Every step of a worker decides a transaction in the book, or nothing    *)
(* that the book shows changes: process_transaction behaves as if it were  *)
(* one atomic step, whatever else the workers do.                          *)
THEOREM ImplementsBook == Spec => BookSpec
<1>1. Init => Book!Init
  BY BookInit
<1>2. ASSUME Core, [Next]_vars
      PROVE  Book!Next \/ UNCHANGED Book!bookVars
  <2>1. CASE UNCHANGED tables
    BY <2>1 DEF tables, Book!bookVars
  <2>2. ASSUME NEW w \in Workers, pc[w] = "commit", Publish(w)
        PROVE  Book!Next
    <3>1. cur[w] \in Txns /\ row[w].status \in {"SETTLED", "FAILED"}
      BY <1>2, <2>2, AtCommit
    <3>2. PICK t \in Txns : t = cur[w]
      BY <3>1
    <3>3. Book!Settle(t) \/ Book!Fail(t)
      BY <1>2, <2>2, <3>1, <3>2, BookSettles, BookFails
    <3> QED
      BY <3>3 DEF Book!Next
  <2> QED
    BY <1>2, <2>1, <2>2, TablesStep DEF vars
<1> QED
  BY <1>1, <1>2, CoreHolds, PTL DEF Spec, BookSpec, Book!Spec

-----------------------------------------------------------------------------
(* The call.                                                               *)

Calls == [w \in Workers |-> CallState(w)]

LEMMA CallStateIs ==
    ASSUME NEW w
    PROVE  /\ pc[w] \in Ready => CallState(w) = [at |-> pc[w], id |-> cur[w]]
           /\ pc[w] = "lock" => CallState(w) = [at |-> "trying", id |-> cur[w]]
           /\ pc[w] \in Holding => CallState(w) = [at |-> "holding", id |-> cur[w]]
  BY DEF CallState, Ready, Returned, Holding, Locked

LEMMA CallInits ==
    ASSUME Init
    PROVE  Caller!CallInit
<1>1. [t \in Txns |-> txn[t].status] = [t \in Txns |-> "PENDING"]
  BY BookInit DEF Book!Init
<1>2. \A w \in Workers : CallState(w) = [at |-> "idle", id |-> None]
  BY CallStateIs DEF Init, Ready
<1> QED
  BY <1>1, <1>2 DEF Init, Caller!CallInit

(* A step of w leaves the calls of the others alone. *)
LEMMA OnlyThisCall ==
    ASSUME CallsOK, NEW w \in Workers, NEW s,
           CallState(w)' = s,
           \A v \in Workers : v # w => pc'[v] = pc[v] /\ cur'[v] = cur[v]
    PROVE  Calls' = [Calls EXCEPT ![w] = s]
<1>1. \A v \in Workers : v # w => CallState(v)' = CallState(v)
  BY DEF CallState
<1> QED
  BY <1>1 DEF Calls

(* The end of a call, whoever gets its locks. *)
LEMMA CallEnds ==
    ASSUME Core, NEW w \in Workers, NEW r \in Ready, NEW o, Leave(w, r, o)
    PROVE  /\ Calls' = [Calls EXCEPT ![w] = [at |-> r, id |-> None]]
           /\ advisory' = [k \in LockKeys |-> IF advisory[k] = w THEN o ELSE advisory[k]]
<1>1. CallsOK /\ LocksOK
  BY DEF Core, TypeOK
<1>2. /\ pc'[w] = r /\ cur'[w] = None
      /\ \A v \in Workers : v # w => pc'[v] = pc[v] /\ cur'[v] = cur[v]
  BY <1>1 DEF Leave, CallsOK
<1>3. CallState(w)' = [at |-> r, id |-> None]
  BY <1>2 DEF CallState, Ready, Returned
<1>4. Calls' = [Calls EXCEPT ![w] = [at |-> r, id |-> None]]
  BY <1>1, <1>2, <1>3, OnlyThisCall
<1>5. advisory' = [k \in LockKeys |-> IF advisory[k] = w THEN o ELSE advisory[k]]
  BY <1>1 DEF Leave, Passed, LocksOK
<1> QED
  BY <1>4, <1>5

LEMMA EndReturns ==
    ASSUME Core, NEW w \in Workers, NEW r \in Ready, End(w, r)
    PROVE  Caller!Return(w, r)
  BY CallEnds DEF End, Caller!Return, Calls

(* What the caller sees of a call, in terms of the abstract specification. *)
LEMMA CallSeen ==
    ASSUME CallsOK, NEW w \in Workers
    PROVE  /\ Calls[w] = CallState(w)
           /\ pc[w] \in Ready => Calls[w].at \in Caller!Ready
           /\ pc[w] = "lock" => Calls[w].at = "trying" /\ Calls[w].id = cur[w]
           /\ pc[w] \in Holding => Calls[w].at = "holding" /\ Calls[w].id = cur[w]
<1>1. Calls[w] = CallState(w)
  BY DEF Calls
<1> QED
  BY <1>1, CallStateIs DEF Ready, Returned, Caller!Ready, Caller!Returned

LEMMA CallStarts ==
    ASSUME Core, NEW w \in Workers, NEW t \in Ids, Call(w, t)
    PROVE  Caller!Start(w, t)
<1>1. CallsOK
  BY DEF Core, TypeOK
<1>2. /\ pc'[w] = "lock" /\ cur'[w] = t
      /\ \A v \in Workers : v # w => pc'[v] = pc[v] /\ cur'[v] = cur[v]
  BY <1>1 DEF Call, Goto, CallsOK
<1>3. CallState(w)' = [at |-> "trying", id |-> t]
  BY <1>2 DEF CallState, Ready, Returned
<1>4. Calls' = [Calls EXCEPT ![w] = [at |-> "trying", id |-> t]]
  BY <1>1, <1>2, <1>3, OnlyThisCall
<1>5. Calls[w].at \in Caller!Ready
  BY <1>1, CallSeen DEF Call
<1> QED
  BY <1>4, <1>5 DEF Call, tables, locks, Caller!Start, Calls

LEMMA CallTakes ==
    ASSUME Core, NEW w \in Workers, Take(w)
    PROVE  Caller!Take(w)
<1>1. CallsOK /\ LocksOK
  BY DEF Core, TypeOK
<1>2. /\ pc'[w] = "load" /\ cur' = cur
      /\ \A v \in Workers : v # w => pc'[v] = pc[v]
  BY <1>1 DEF Take, Goto, CallsOK
<1>3. CallState(w)' = [at |-> "holding", id |-> cur[w]]
  BY <1>2 DEF CallState, Ready, Returned
<1>4. CallState(w) = [at |-> "trying", id |-> cur[w]]
  BY CallStateIs DEF Take
<1>5. CallState(w)' = [CallState(w) EXCEPT !.at = "holding"]
  BY <1>3, <1>4
<1>6. Calls' = [Calls EXCEPT ![w] = [CallState(w) EXCEPT !.at = "holding"]]
  BY <1>1, <1>2, <1>5, OnlyThisCall
<1>7. Calls[w] = CallState(w) /\ Calls[w].at = "trying" /\ Calls[w].id = cur[w]
  BY <1>1, CallSeen DEF Take
<1> QED
  BY <1>6, <1>7 DEF Take, tables, Caller!Take, Calls

(* The lock that a dropped transaction keeps is the one it took. *)
LEMMA CallAbandons ==
    ASSUME Core, NEW w \in Workers, pc[w] \in Open, NEW r \in Ready, Abandon(w, r)
    PROVE  Caller!Abandon(w, r) /\ UNCHANGED tables
<1>1. CallsOK /\ pc[w] \in Holding
  BY DEF Core, TypeOK, Abandon, Open, Holding, Locked
<1>2. Calls[w].at = "holding" /\ Calls[w].id = cur[w]
  BY <1>1, CallSeen
<1>3. \A k \in LockKeys : advisory[k] = w => LockKey[cur[w]] = k
  BY DEF Core, LocksHeld
<1>4. Leave(w, r, LockKey[cur[w]])
  BY DEF Abandon
<1>5. advisory' = [k \in LockKeys |-> IF advisory[k] = w THEN k ELSE advisory[k]]
  BY <1>3, <1>4, CallEnds
<1>6. Calls' = [Calls EXCEPT ![w] = [at |-> r, id |-> None]]
  BY <1>4, CallEnds
<1> QED
  BY <1>2, <1>5, <1>6 DEF Abandon, Caller!Abandon, Calls

LEMMA CallLateRollback ==
    ASSUME Core, NEW k \in LockKeys, LateRollback(k)
    PROVE  Caller!LateRollback(k)
<1>1. advisory' = [j \in LockKeys |-> IF advisory[j] = k THEN None ELSE advisory[j]]
  BY DEF LateRollback, Passed, Core, TypeOK, LocksOK
<1>2. Calls' = Calls /\ UNCHANGED txn
  BY DEF LateRollback, Calls, CallState, tables
<1> QED
  BY <1>1, <1>2 DEF LateRollback, Caller!LateRollback, Calls

LEMMA CallDecides ==
    ASSUME Core, NEW w \in Workers, pc[w] = "commit", Publish(w),
           NEW r \in {"ok", "permanent", "idle"}, End(w, r),
           r = "ok" => row[w].status = "SETTLED"
    PROVE  Caller!Decide(w)
<1> DEFINE status == [t \in Txns |-> txn[t].status]
<1>1. CallsOK /\ r \in Ready
  BY DEF Core, TypeOK, Ready, Returned
<1>2. Calls[w].at = "holding" /\ Calls[w].id = cur[w]
  BY <1>1, CallSeen DEF Holding, Locked
<1>3. PICK s \in {"SETTLED", "FAILED"} : s = row[w].status
  BY AtCommit
<1>4. cur[w] \in Txns /\ status[cur[w]] = "PENDING"
  BY AtCommit
<1>5. status' = [status EXCEPT ![cur[w]] = s]
  <2>1. txn'[cur[w]] = row[w] /\ \A t \in Txns \ {cur[w]} : txn'[t] = txn[t]
    BY AtCommit
  <2> QED
    BY <1>3, <2>1
<1>6. Caller!Return(w, r)
  BY <1>1, EndReturns
<1> QED
  BY <1>2, <1>3, <1>4, <1>5, <1>6 DEF Caller!Decide, Calls

(* A call that has the lock and goes on is still a call that has the lock. *)
LEMMA CallGoesOn ==
    ASSUME Core, NEW w \in Workers, pc[w] \in Holding, pc'[w] \in Holding,
           \A v \in Workers : v # w => pc'[v] = pc[v],
           UNCHANGED <<txn, advisory, cur>>
    PROVE  UNCHANGED Caller!callVars
<1>1. CallState(w)' = CallState(w)
  BY DEF CallState, Ready, Returned, Holding, Locked
<1>2. \A v \in Workers : v # w => CallState(v)' = CallState(v)
  BY DEF CallState
<1> QED
  BY <1>1, <1>2 DEF Caller!callVars

LEMMA CallStep ==
    ASSUME Core, Next
    PROVE  Caller!CallNext \/ UNCHANGED Caller!callVars
<1>1. CallsOK /\ CallShapes /\ TablesOK
  BY DEF Core, TypeOK
<1>2. SUFFICES ASSUME NEW w \in Workers,
                      \/ \E t \in Ids : Call(w, t)
                      \/ Step(w)
                      \/ Refuse(w) \/ CommitUnseen(w) \/ DbError(w) \/ Crash(w)
               PROVE  Caller!CallNext \/ UNCHANGED Caller!callVars
  BY CallLateRollback DEF Next, Caller!CallNext
<1> DEFINE status == [t \in Txns |-> txn[t].status]
<1>3. ASSUME NEW r \in Ready, Rollback(w, r)
      PROVE  Caller!Return(w, r) /\ UNCHANGED status
  BY <1>3, EndReturns DEF Rollback, tables
<1>4. /\ pc[w] = "lock" => Calls[w].at = "trying" /\ Calls[w].id = cur[w]
      /\ pc[w] \in Holding => Calls[w].at = "holding" /\ Calls[w].id = cur[w]
      /\ pc[w] \in Open => Calls[w].at \in {"trying", "holding"}
  BY <1>1, CallSeen DEF Open, Holding, Locked
<1>5. {"ok", "permanent", "retryable", "idle"} \subseteq Ready
  BY DEF Ready, Returned
<1>6. CASE \E t \in Ids : Call(w, t)
  <2>1. PICK t \in Ids : Call(w, t)
    BY <1>6
  <2>2. Caller!Start(w, t)
    BY <2>1, CallStarts
  <2> QED
    BY <2>2 DEF Caller!CallNext, Ids, Caller!Ids
<1>7. CASE Refuse(w)
  <2>1. pc[w] = "lock" /\ \E r \in {"retryable", "permanent"} : Rollback(w, r)
    BY <1>7 DEF Refuse
  <2>2. Caller!Unavailable(w)
    BY <1>3, <1>4, <1>5, <2>1 DEF Caller!Unavailable, Calls
  <2> QED
    BY <2>2 DEF Caller!CallNext
<1>8. CASE TryLock(w)
  <2>1. CASE advisory[LockKey[cur[w]]] = None
    <3>1. Caller!Take(w)
      BY <1>8, <2>1, CallTakes DEF TryLock, Take
    <3> QED
      BY <3>1 DEF Caller!CallNext
  <2>2. CASE advisory[LockKey[cur[w]]] # None
    <3>1. pc[w] = "lock" /\ Rollback(w, "ok")
      BY <1>8, <2>2 DEF TryLock
    <3>2. Caller!Skip(w)
      BY <1>3, <1>4, <1>5, <2>2, <3>1 DEF Caller!Skip, Calls
    <3> QED
      BY <3>2 DEF Caller!CallNext
  <2> QED
    BY <2>1, <2>2
<1>18. ASSUME pc[w] \in Open, NEW r \in Ready, Drop(w, r)
       PROVE  (Caller!Return(w, r) \/ Caller!Abandon(w, r)) /\ UNCHANGED status
  BY <1>3, <1>18, CallAbandons DEF Drop, tables
<1>9. ASSUME pc[w] \in Open, Drop(w, "permanent")
      PROVE  Caller!CallNext
  <2>1. Caller!CallFails(w)
    BY <1>4, <1>5, <1>9, <1>18 DEF Caller!CallFails, Calls
  <2> QED
    BY <2>1 DEF Caller!CallNext
<1>10. CASE NotFound(w) \/ DbError(w)
  BY <1>9, <1>10 DEF NotFound, DbError, Open
<1>11. CASE Crash(w)
  <2>1. Caller!CallDies(w)
    BY <1>4, <1>5, <1>11, <1>18 DEF Crash, Caller!CallDies, Calls
  <2> QED
    BY <2>1 DEF Caller!CallNext
<1>12. CASE Load(w)
  <2>1. /\ pc[w] = "load" /\ pc[w] \in Holding /\ cur[w] \in Txns
        /\ txn[cur[w]].status \in {"PENDING", "SETTLED", "FAILED"}
    BY <1>1, <1>12 DEF Load, Holding, TablesOK
  <2>2. CASE txn[cur[w]].status = "SETTLED"
    <3>1. Rollback(w, "ok")
      BY <1>12, <2>2 DEF Load
    <3>2. Caller!FindDecided(w)
      BY <1>3, <1>4, <1>5, <2>1, <2>2, <3>1 DEF Caller!FindDecided, Calls
    <3> QED
      BY <3>2 DEF Caller!CallNext
  <2>3. CASE txn[cur[w]].status = "FAILED"
    <3>1. Rollback(w, "permanent")
      BY <1>12, <2>3 DEF Load
    <3> QED
      BY <1>9, <2>1, <3>1 DEF Open, Drop
  <2>4. CASE txn[cur[w]].status = "PENDING"
    <3>1. LockRow(w)
      BY <1>12, <2>4 DEF Load, LockRow
    <3> QED
      BY <1>1, <2>1, <3>1, CallGoesOn DEF LockRow, Goto, Holding, Locked, CallsOK, tables
  <2> QED
    BY <2>1, <2>2, <2>3, <2>4
<1>13. CASE MarkProcessing(w)
  <2>1. row[w] = txn[cur[w]] /\ txn[cur[w]].status = "PENDING"
    BY <1>1, <1>13 DEF MarkProcessing, CallShapes, CallShape, Locked
  <2>2. Mark(w)
    BY <1>13, <2>1 DEF MarkProcessing, Mark
  <2> QED
    BY <1>1, <2>2, CallGoesOn DEF Mark, Goto, Holding, Locked, CallsOK, tables, locks
<1>14. CASE FraudPassed(w) \/ FraudBlocked(w) \/ FraudTimeout(w)
  BY <1>1, <1>14, CallGoesOn DEF FraudPassed, FraudBlocked, FraudTimeout, MarkFailed,
     Goto, Holding, Locked, CallsOK, tables, locks
<1>15. CASE LockAccount(w)
  <2>1. pc[w] = "accounts" /\ UNCHANGED <<txn, advisory, pc, cur>>
    BY <1>15 DEF LockAccount, tables
  <2> QED
    BY <2>1, CallGoesOn DEF Holding, Locked
<1>16. CASE Execute(w)
  <2>1. CASE Rollback(w, "permanent")
    BY <1>9, <1>16, <2>1 DEF Execute, Open, Drop
  <2>2. CASE ~Rollback(w, "permanent")
    <3>1. pc[w] = "accounts" /\ Goto(w, "commit") /\ UNCHANGED <<txn, advisory, cur>>
      BY <1>16, <2>2 DEF Execute, MarkFailed, tables, locks
    <3> QED
      BY <1>1, <3>1, CallGoesOn DEF Goto, Holding, Locked, CallsOK
  <2> QED
    BY <2>1, <2>2
<1>17. CASE Commit(w) \/ CommitUnseen(w)
  <2>1. /\ pc[w] = "commit" /\ Publish(w)
        /\ \E r \in {"ok", "permanent", "idle"} :
              End(w, r) /\ (r = "ok" => row[w].status = "SETTLED")
    BY <1>17 DEF Commit, CommitUnseen
  <2>2. Caller!Decide(w)
    BY <2>1, CallDecides
  <2> QED
    BY <2>2 DEF Caller!CallNext
<1> QED
  BY <1>2, <1>6, <1>7, <1>8, <1>10, <1>11, <1>12, <1>13, <1>14, <1>15, <1>16, <1>17
     DEF Step

(* The consumer may take process_transaction for the call of Settlement:   *)
(* every step of a worker is one of its steps or invisible to the caller.  *)
THEOREM ImplementsCall == Spec => CallSpec
<1>1. Init => Caller!CallInit
  BY CallInits
<1>2. Core /\ [Next]_vars => Caller!CallNext \/ UNCHANGED Caller!callVars
  <2>1. UNCHANGED vars => UNCHANGED Caller!callVars
    BY DEF vars, tables, locks, Caller!callVars, CallState
  <2> QED
    BY <2>1, CallStep
<1> QED
  BY <1>1, <1>2, CoreHolds, PTL DEF Spec, CallSpec, Caller!CallSpec

=============================================================================
