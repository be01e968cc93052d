--------------------------- MODULE ProcessorProofs ---------------------------
(***************************************************************************)
(* Theorems about the transaction processor, for every set of workers,     *)
(* accounts and transactions.                                              *)
(***************************************************************************)
EXTENDS ProcessorProperties, TLAPS

-----------------------------------------------------------------------------
(* The steps, sorted by what they do.  Everything that undoes a database   *)
(* transaction is one case, everything that commits one is another.        *)

Locked   == {"mark", "fraud", "accounts", "commit"}    \* holds the txn row
Holding  == {"load"} \cup Locked                        \* holds the advisory lock

Undo(w) ==
    /\ pc[w] \in Open
    /\ \E r \in Ready, o \in LockKeys \cup {None} : Leave(w, r, o)
    /\ UNCHANGED tables

Take(w) ==
    /\ pc[w] = "lock"
    /\ advisory[LockKey[cur[w]]] = None
    /\ advisory' = [advisory EXCEPT ![LockKey[cur[w]]] = w]
    /\ Goto(w, "load")
    /\ UNCHANGED <<tables, txnLock, acctLock, cur, row, read>>

LockRow(w) ==
    /\ pc[w] = "load"
    /\ cur[w] \in Txns
    /\ txnLock[cur[w]] = None
    /\ txn[cur[w]].status \notin {"SETTLED", "REVERSED", "FAILED"}
    /\ txnLock' = [txnLock EXCEPT ![cur[w]] = w]
    /\ row' = [row EXCEPT ![w] = txn[cur[w]]]
    /\ Goto(w, "mark")
    /\ UNCHANGED <<tables, advisory, acctLock, cur, read>>

Mark(w) ==
    /\ pc[w] = "mark"
    /\ row' = [row EXCEPT ![w].status = "PROCESSING", ![w].version = @ + 1]
    /\ Goto(w, "fraud")
    /\ UNCHANGED <<tables, locks, cur, read>>

Reject(w) == pc[w] \in {"fraud", "accounts"} /\ MarkFailed(w)

Approve(w) ==
    /\ pc[w] = "accounts"
    /\ Wanted(w) = {}
    /\ Executable(cur[w])
    /\ ~Refused(cur[w], [a \in Held(w) |-> read[w][a].balance])
    /\ \A a \in Parties(cur[w]) : ~(NewBalance(w, a) > MaxBalance)
    /\ row' = [row EXCEPT ![w].status = "SETTLED", ![w].version = @ + 1]
    /\ Goto(w, "commit")
    /\ UNCHANGED <<tables, locks, cur, read>>

Finish(w) == pc[w] = "commit" /\ Publish(w) /\ \E r \in Ready : End(w, r)

Moves(w) ==
    \/ \E t \in Ids : Call(w, t)
    \/ Take(w) \/ LockRow(w) \/ Mark(w) \/ FraudPassed(w) \/ Reject(w)
    \/ LockAccount(w) \/ Approve(w) \/ Finish(w) \/ Undo(w)

(* A rollback that is done when the call returns and one that comes later  *)
(* both discard what the call did; they differ in who gets its locks.      *)
LEMMA Undone ==
    ASSUME NEW w \in Workers, pc[w] \in Open, cur[w] \in Ids, NEW r \in Ready,
           Rollback(w, r) \/ Drop(w, r)
    PROVE  Undo(w)
<1>1. LockKey[cur[w]] \in LockKeys
  BY LockKeyAssumption
<1> QED
  BY <1>1 DEF Rollback, Drop, Abandon, End, Undo

LEMMA StepCases ==
    ASSUME Next, \A w \in Workers : pc[w] \in Open => cur[w] \in Ids
    PROVE  \/ \E w \in Workers : Moves(w)
           \/ \E k \in LockKeys : LateRollback(k)
<1>1. SUFFICES ASSUME NEW w \in Workers,
                      \/ Step(w)
                      \/ Refuse(w) \/ CommitUnseen(w) \/ DbError(w) \/ Crash(w)
               PROVE  Moves(w)
  BY DEF Next, Moves
<1>2. ASSUME pc[w] \in Open,
             \E r \in {"ok", "retryable", "permanent", "idle"} : Rollback(w, r) \/ Drop(w, r)
      PROVE  Undo(w)
  BY <1>2, Undone DEF Ready, Returned
<1>3. CASE Refuse(w) \/ DbError(w) \/ Crash(w) \/ NotFound(w)
  BY <1>2, <1>3 DEF Refuse, DbError, Crash, NotFound, Open, Moves
<1>4. CASE Commit(w) \/ CommitUnseen(w)
  BY <1>4 DEF Commit, CommitUnseen, Finish, Ready, Returned, Moves
<1>5. CASE TryLock(w)
  BY <1>2, <1>5 DEF TryLock, Take, Open, Moves
<1>6. CASE Load(w)
  BY <1>2, <1>6 DEF Load, LockRow, Open, Moves
<1>7. CASE MarkProcessing(w)
  BY <1>2, <1>7 DEF MarkProcessing, Mark, Open, Moves
<1>8. CASE FraudBlocked(w) \/ FraudTimeout(w)
  BY <1>8 DEF FraudBlocked, FraudTimeout, Reject, Moves
<1>9. CASE Execute(w)
  BY <1>2, <1>9 DEF Execute, Approve, Reject, Open, Moves
<1> QED
  BY <1>1, <1>3, <1>4, <1>5, <1>6, <1>7, <1>8, <1>9 DEF Step, Moves

-----------------------------------------------------------------------------
(* The inductive invariant.                                                *)

(* Each lock is held by exactly the call that says so. *)
LocksHeld ==
    /\ \A w \in Workers, k \in LockKeys :
          advisory[k] = w <=> pc[w] \in Holding /\ LockKey[cur[w]] = k
    /\ \A w \in Workers, t \in Txns :
          txnLock[t] = w <=> pc[w] \in Locked /\ cur[w] = t
    /\ \A w \in Workers, a \in Accounts :
          acctLock[a] = w <=> a \in Held(w)

(* What an open call knows. *)
Approved(w) ==
    /\ Executable(cur[w])
    /\ Held(w) = Parties(cur[w])
    /\ ~Refused(cur[w], [a \in Held(w) |-> read[w][a].balance])
    /\ \A a \in Parties(cur[w]) : ~(NewBalance(w, a) > MaxBalance)

CallShape(w) ==
    /\ pc[w] \in Open => cur[w] \in Ids
    /\ pc[w] \in Locked => cur[w] \in Txns /\ txn[cur[w]].status = "PENDING"
    /\ Held(w) # {} => /\ pc[w] \in {"accounts", "commit"}
                       /\ Executable(cur[w])
                       /\ Held(w) \subseteq Parties(cur[w])
    /\ pc[w] = "mark" => row[w] = txn[cur[w]]
    /\ pc[w] = "commit" => row[w].status \in {"SETTLED", "FAILED"}
    /\ pc[w] = "commit" /\ row[w].status = "SETTLED" => Approved(w)

CallShapes == \A w \in Workers : CallShape(w)

(* The entries of an account are numbered from 1. *)
Numbered ==
    \A a \in Accounts : \A i \in 1 .. Len(ledger[a]) : ledger[a][i].seq = i

Core == TypeOK /\ LocksHeld /\ CallShapes /\ Numbered /\ ReadsCurrent

LEMMA CoreCases ==
    ASSUME Core, Next
    PROVE  \/ \E w \in Workers : Moves(w)
           \/ \E k \in LockKeys : LateRollback(k)
  BY StepCases DEF Core, CallShapes, CallShape

-----------------------------------------------------------------------------
(* Facts about the data.                                                   *)

(* The accounts of a well-formed row are existing accounts. *)
LEMMA PartiesType ==
    ASSUME NEW t \in Txns, Executable(t)
    PROVE  Parties(t) \subseteq Accounts
  BY RowsAssumption DEF Executable, Parties, Debited, Credited

LEMMA AfterType ==
    ASSUME NEW t \in Txns, NEW a, NEW b \in Int
    PROVE  After(t, a, b) \in Int
<1>1. Amount[t] \in Int
  BY RowsAssumption
<1> QED
  BY <1>1 DEF After

(* MAX(sequence_num) + 1 is the number of the entry to come. *)
LEMMA NextSeqValue ==
    ASSUME TablesOK, Numbered, NEW a \in Accounts
    PROVE  NextSeq(a) = Len(ledger[a]) + 1
<1> DEFINE l == ledger[a]
           seqs == {l[i].seq : i \in DOMAIN l}
<1>1. l \in Seq(Entry)
  BY DEF TablesOK
<1>2. DOMAIN l = 1 .. Len(l) /\ Len(l) \in Nat
  BY <1>1
<1>3. \A i \in DOMAIN l : l[i].seq = i
  BY <1>2 DEF Numbered
<1>4. CASE l = <<>>
  BY <1>4 DEF NextSeq
<1>5. CASE l # <<>>
  <2>1. Len(l) \in 1 .. Len(l)
    BY <1>1, <1>2, <1>5
  <2>2. seqs = 1 .. Len(l)
    BY <1>2, <1>3
  <2>3. Max(1 .. Len(l)) = Len(l)
    <3>1. \A y \in 1 .. Len(l) : Len(l) >= y
      BY <1>2
    <3>2. \A x \in 1 .. Len(l) : (\A y \in 1 .. Len(l) : x >= y) => x = Len(l)
      BY <1>2, <2>1
    <3> QED
      BY <2>1, <3>1, <3>2 DEF Max
  <2> QED
    BY <1>5, <2>2, <2>3 DEF NextSeq
<1> QED
  BY <1>4, <1>5

(* What a ledger entry is made of when a call commits. *)
LEMMA NewEntryType ==
    ASSUME Core, NEW w \in Workers, pc[w] = "commit", row[w].status = "SETTLED",
           NEW a \in Parties(cur[w])
    PROVE  /\ a \in Accounts /\ a \in Held(w)
           /\ NewBalance(w, a) \in Int
           /\ NewEntry(w, a) \in Entry
<1> DEFINE t == cur[w]
<1>1. t \in Txns /\ Approved(w)
  BY DEF Core, CallShapes, CallShape, Locked
<1>2. a \in Held(w) /\ a \in Accounts
  BY <1>1, PartiesType DEF Approved
<1>3. read[w][a].balance \in Int
  BY <1>2 DEF Core, TypeOK, CallsOK, AcctRow
<1>4. NewBalance(w, a) \in Int
  BY <1>1, <1>3, AfterType DEF NewBalance
<1>5. NextSeq(a) \in Nat
  BY <1>2, NextSeqValue DEF Core, TypeOK, TablesOK
<1>6. Amount[t] \in Nat
  BY <1>1, RowsAssumption
<1> QED
  BY <1>1, <1>2, <1>4, <1>5, <1>6 DEF NewEntry, Entry

(* The end of a database transaction leaves calls and locks well-typed. *)
LEMMA EndType ==
    ASSUME LocksOK, CallsOK, NEW w \in Workers, NEW r \in Ready,
           NEW o \in LockKeys \cup {None}, Leave(w, r, o)
    PROVE  LocksOK' /\ CallsOK'
<1>1. NoRow \in TxnRow
  BY DEF NoRow, TxnRow, Status
<1>2. /\ DOMAIN NoRead = {}
      /\ NoRead \in [{} -> AcctRow]
  BY DEF NoRead
<1>3. LocksOK'
  BY DEF Leave, Passed, LocksOK, Owners
<1>4. /\ pc' \in [Workers -> Ready \cup Open]
      /\ cur' \in [Workers -> Ids \cup {None}]
      /\ row' \in [Workers -> TxnRow]
  BY <1>1 DEF Leave, CallsOK
<1>5. /\ DOMAIN read' = Workers
      /\ \A v \in Workers : read'[v] = IF v = w THEN NoRead ELSE read[v]
  BY DEF Leave, CallsOK
<1>6. \A v \in Workers : /\ Held(v)' \subseteq Accounts
                         /\ read'[v] \in [Held(v)' -> AcctRow]
  BY <1>2, <1>5 DEF CallsOK, Held
<1> QED
  BY <1>3, <1>4, <1>5, <1>6 DEF CallsOK

(* A late rollback frees locks that no call holds, and does nothing else. *)
LEMMA LateEffect ==
    ASSUME TypeOK, NEW k \in LockKeys, LateRollback(k)
    PROVE  /\ UNCHANGED <<tables, pc, cur, row, read>>
           /\ LocksOK'
           /\ \A j \in LockKeys : advisory'[j] = IF advisory[j] = k THEN None ELSE advisory[j]
           /\ \A t \in Txns : txnLock'[t] = IF txnLock[t] = k THEN None ELSE txnLock[t]
           /\ \A a \in Accounts : acctLock'[a] = IF acctLock[a] = k THEN None ELSE acctLock[a]
  BY DEF LateRollback, Passed, TypeOK, LocksOK, Owners

LEMMA PublishType ==
    ASSUME Core, NEW w \in Workers, pc[w] = "commit", Publish(w)
    PROVE  TablesOK'
<1> DEFINE t == cur[w]
           settles == row[w].status = "SETTLED"
<1>1. /\ t \in Txns
      /\ row[w] \in TxnRow
      /\ row[w].status \in {"SETTLED", "FAILED"}
  BY DEF Core, CallShapes, CallShape, Locked, TypeOK, CallsOK
<1>2. TablesOK
  BY DEF Core, TypeOK
<1>3. /\ txn' \in [Txns -> TxnRow]
      /\ \A u \in Txns : txn'[u].status \in {"PENDING", "SETTLED", "FAILED"}
  BY <1>1, <1>2 DEF Publish, TablesOK
<1>4. audit' \in [Txns -> Seq({"SETTLED", "FAILED"})]
  <2>1. audit' = [audit EXCEPT ![t] = Append(audit[t], row[w].status)]
    BY DEF Publish
  <2>2. Append(audit[t], row[w].status) \in Seq({"SETTLED", "FAILED"})
    BY <1>1, <1>2 DEF TablesOK
  <2> QED
    BY <1>2, <2>1, <2>2 DEF TablesOK
<1>5. acct' \in [Accounts -> AcctRow]
  <2> SUFFICES ASSUME NEW a \in Accounts, settles, a \in Updated(w)
               PROVE  [balance |-> NewBalance(w, a), version |-> acct[a].version + 1]
                        \in AcctRow
    BY <1>2 DEF Publish, TablesOK
  <2>1. NewBalance(w, a) \in Int
    BY NewEntryType DEF Updated
  <2>2. acct[a].version \in Nat
    BY <1>2 DEF TablesOK, AcctRow
  <2> QED
    BY <2>1, <2>2 DEF AcctRow
<1>6. ledger' \in [Accounts -> Seq(Entry)]
  <2>1. ledger' = [a \in Accounts |-> IF settles /\ a \in Parties(t)
                                      THEN Append(ledger[a], NewEntry(w, a))
                                      ELSE ledger[a]]
    BY DEF Publish
  <2>2. ASSUME NEW a \in Accounts, settles, a \in Parties(t)
        PROVE  Append(ledger[a], NewEntry(w, a)) \in Seq(Entry)
    <3>1. NewEntry(w, a) \in Entry
      BY <2>2, NewEntryType
    <3> QED
      BY <1>2, <3>1 DEF TablesOK
  <2> QED
    BY <1>2, <2>1, <2>2 DEF TablesOK
<1> QED
  BY <1>3, <1>4, <1>5, <1>6 DEF TablesOK

LEMMA TypeStep ==
    ASSUME Core, Next
    PROVE  TypeOK'
<1>1. TablesOK /\ LocksOK /\ CallsOK
  BY DEF Core, TypeOK
<1>0. ASSUME NEW k \in LockKeys, LateRollback(k)
      PROVE  TypeOK'
  BY <1>0, LateEffect DEF Core, tables, TypeOK, TablesOK, CallsOK, Held
<1>2. SUFFICES ASSUME NEW w \in Workers, Moves(w)
               PROVE  TypeOK'
  BY <1>0, CoreCases
<1>3. row[w] \in TxnRow
  BY <1>1 DEF CallsOK
<1>4. ASSUME UNCHANGED tables
      PROVE  TablesOK'
  BY <1>1, <1>4 DEF tables, TablesOK
<1>5. CASE \E t \in Ids : Call(w, t)
  BY <1>1, <1>4, <1>5
     DEF Call, Goto, Open, locks, LocksOK, CallsOK, TypeOK, Held
<1>6. CASE Take(w)
  <2>1. cur[w] \in Ids
    BY <1>6 DEF Take, Core, CallShapes, CallShape, Open
  <2>2. LocksOK'
    BY <1>1, <1>6, <2>1, LockKeyAssumption DEF Take, LocksOK, Owners
  <2> QED
    BY <1>1, <1>4, <1>6, <2>2 DEF Take, Goto, Open, CallsOK, TypeOK, Held
<1>7. CASE LockRow(w)
  <2>1. txn[cur[w]] \in TxnRow
    BY <1>1, <1>7 DEF LockRow, TablesOK
  <2>2. CallsOK'
    BY <1>1, <1>7, <2>1 DEF LockRow, Goto, Open, CallsOK, Held
  <2> QED
    BY <1>1, <1>4, <1>7, <2>2 DEF LockRow, LocksOK, Owners, TypeOK
<1>8. CASE Mark(w)
  BY <1>1, <1>3, <1>4, <1>8
     DEF Mark, Goto, Open, Status, TxnRow, locks, LocksOK, CallsOK, TypeOK, Held
<1>9. CASE FraudPassed(w)
  BY <1>1, <1>3, <1>4, <1>9
     DEF FraudPassed, Goto, Open, TxnRow, locks, LocksOK, CallsOK, TypeOK, Held
<1>10. CASE Reject(w)
  BY <1>1, <1>3, <1>4, <1>10
     DEF Reject, MarkFailed, Goto, Open, Status, TxnRow, locks, LocksOK, CallsOK,
         TypeOK, Held
<1>11. CASE LockAccount(w)
  <2>1. PICK a \in NextWanted(w) :
          /\ acctLock[a] = None
          /\ acctLock' = [acctLock EXCEPT ![a] = w]
          /\ read' = [read EXCEPT ![w] =
                        [b \in Held(w) \cup {a} |-> IF b = a THEN acct[a] ELSE read[w][b]]]
    BY <1>11 DEF LockAccount
  <2>2. a \in Accounts
    BY <2>1, <1>11, PartiesType DEF LockAccount, NextWanted, Wanted, Core, CallShapes,
       CallShape, Locked
  <2>3. DOMAIN read' = Workers
    BY <1>1, <2>1 DEF CallsOK
  <2>4. ASSUME NEW v \in Workers
        PROVE  Held(v)' \subseteq Accounts /\ read'[v] \in [Held(v)' -> AcctRow]
    <3>1. CASE v = w
      <4>1. read'[w] = [b \in Held(w) \cup {a} |-> IF b = a THEN acct[a] ELSE read[w][b]]
        BY <1>1, <2>1 DEF CallsOK
      <4>2. Held(w)' = Held(w) \cup {a}
        BY <4>1 DEF Held
      <4> QED
        BY <1>1, <2>2, <3>1, <4>1, <4>2 DEF CallsOK, TablesOK
    <3>2. CASE v # w
      BY <1>1, <2>1, <3>2 DEF CallsOK, Held
    <3> QED
      BY <3>1, <3>2
  <2>5. CallsOK'
    BY <1>1, <1>11, <2>3, <2>4 DEF LockAccount, CallsOK
  <2>6. LocksOK'
    BY <1>1, <1>11, <2>1 DEF LockAccount, LocksOK, Owners
  <2> QED
    BY <1>4, <1>11, <2>5, <2>6 DEF LockAccount, TypeOK
<1>12. CASE Approve(w)
  BY <1>1, <1>3, <1>4, <1>12
     DEF Approve, Goto, Open, Status, TxnRow, locks, LocksOK, CallsOK, TypeOK, Held
<1>13. CASE Finish(w)
  BY <1>1, <1>13, PublishType, EndType DEF Finish, End, TypeOK
<1>14. CASE Undo(w)
  BY <1>1, <1>4, <1>14, EndType DEF Undo, TypeOK
<1> QED
  BY <1>2, <1>5, <1>6, <1>7, <1>8, <1>9, <1>10, <1>11, <1>12, <1>13,
     <1>14 DEF Moves

(* A call that is over holds no lock, whoever has got its locks.           *)
LEMMA EndLocks ==
    ASSUME TypeOK, LocksHeld, NEW w \in Workers, NEW r \in Ready,
           NEW o \in LockKeys \cup {None}, Leave(w, r, o)
    PROVE  LocksHeld'
<1>1. o \notin Workers
  BY NoneAssumption, OwnersAssumption
<1>2. /\ pc'[w] = r /\ r \notin Holding /\ r \notin Locked
      /\ \A v \in Workers : v # w => pc'[v] = pc[v] /\ cur'[v] = cur[v]
  BY DEF Leave, TypeOK, CallsOK, Ready, Returned, Holding, Locked
<1>3. /\ Held(w)' = {}
      /\ \A v \in Workers : v # w => Held(v)' = Held(v)
  BY DEF Leave, TypeOK, CallsOK, NoRead, Held
<1>4. /\ \A k \in LockKeys : advisory'[k] = IF advisory[k] = w THEN o ELSE advisory[k]
      /\ \A t \in Txns : txnLock'[t] = IF txnLock[t] = w THEN o ELSE txnLock[t]
      /\ \A a \in Accounts : acctLock'[a] = IF acctLock[a] = w THEN o ELSE acctLock[a]
  BY DEF Leave, Passed, TypeOK, LocksOK
<1>5. (\A v \in Workers, k \in LockKeys :
          advisory[k] = v <=> pc[v] \in Holding /\ LockKey[cur[v]] = k)'
  BY <1>1, <1>2, <1>4 DEF LocksHeld
<1>6. (\A v \in Workers, t \in Txns :
          txnLock[t] = v <=> pc[v] \in Locked /\ cur[v] = t)'
  BY <1>1, <1>2, <1>4 DEF LocksHeld
<1>7. (\A v \in Workers, a \in Accounts : acctLock[a] = v <=> a \in Held(v))'
  BY <1>1, <1>3, <1>4 DEF LocksHeld
<1> QED
  BY <1>5, <1>6, <1>7 DEF LocksHeld

LEMMA LateLocks ==
    ASSUME TypeOK, LocksHeld, NEW k \in LockKeys, LateRollback(k)
    PROVE  LocksHeld'
<1>1. k \notin Workers /\ None \notin Workers
  BY NoneAssumption, OwnersAssumption
<1>2. \A w \in Workers : Held(w)' = Held(w)
  BY LateEffect DEF Held
<1> QED
  BY <1>1, <1>2, LateEffect DEF LocksHeld

LEMMA LocksStep ==
    ASSUME Core, Next
    PROVE  LocksHeld'
<1>1. TypeOK /\ LocksHeld /\ CallShapes
  BY DEF Core
<1>0. ASSUME NEW k \in LockKeys, LateRollback(k)
      PROVE  LocksHeld'
  BY <1>0, LateLocks DEF Core
<1>2. SUFFICES ASSUME NEW w \in Workers, Moves(w)
               PROVE  LocksHeld'
  BY <1>0, CoreCases
<1>3. None \notin Workers
  BY NoneAssumption
<1>4. CASE \E t \in Ids : Call(w, t)
  BY <1>1, <1>4 DEF Call, Goto, Ready, Returned, Holding, Locked, locks, LocksHeld,
     TypeOK, CallsOK, Held
<1>5. CASE Take(w)
  <2>1. cur[w] \in Ids
    BY <1>1, <1>5 DEF Take, CallShapes, CallShape, Open
  <2>2. LockKey[cur[w]] \in LockKeys
    BY <2>1, LockKeyAssumption
  <2>3. (\A v \in Workers, k \in LockKeys :
            advisory[k] = v <=> pc[v] \in Holding /\ LockKey[cur[v]] = k)'
    BY <1>1, <1>3, <1>5, <2>2 DEF Take, Goto, Holding, Locked, LocksHeld,
       TypeOK, CallsOK, LocksOK
  <2> QED
    BY <1>1, <1>5, <2>3 DEF Take, Goto, Locked, LocksHeld, TypeOK, CallsOK, Held
<1>6. CASE LockRow(w)
  <2>1. (\A v \in Workers, t \in Txns :
            txnLock[t] = v <=> pc[v] \in Locked /\ cur[v] = t)'
    BY <1>1, <1>3, <1>6 DEF LockRow, Goto, Locked, LocksHeld, TypeOK, CallsOK, LocksOK
  <2> QED
    BY <1>1, <1>6, <2>1 DEF LockRow, Goto, Holding, Locked, LocksHeld, TypeOK, CallsOK,
       Held
<1>7. CASE Mark(w) \/ FraudPassed(w) \/ Reject(w) \/ Approve(w)
  <2>1. /\ pc[w] \in Locked /\ pc'[w] \in Locked
        /\ \A v \in Workers : v # w => pc'[v] = pc[v]
        /\ UNCHANGED <<locks, cur, read>>
    BY <1>1, <1>7 DEF Mark, FraudPassed, Reject, MarkFailed, Approve, Goto, Locked,
       TypeOK, CallsOK
  <2> QED
    BY <1>1, <2>1 DEF Holding, locks, LocksHeld, Held
<1>8. CASE LockAccount(w)
  <2>1. PICK a \in NextWanted(w) :
          /\ acctLock[a] = None
          /\ acctLock' = [acctLock EXCEPT ![a] = w]
          /\ read' = [read EXCEPT ![w] =
                        [b \in Held(w) \cup {a} |-> IF b = a THEN acct[a] ELSE read[w][b]]]
    BY <1>8 DEF LockAccount
  <2>2. a \in Accounts
    BY <1>1, <2>1, <1>8, PartiesType DEF LockAccount, NextWanted, Wanted, CallShapes,
       CallShape, Locked
  <2>3. /\ Held(w)' = Held(w) \cup {a}
        /\ \A v \in Workers : v # w => Held(v)' = Held(v)
    BY <1>1, <2>1 DEF TypeOK, CallsOK, Held
  <2>4. (\A v \in Workers, b \in Accounts : acctLock[b] = v <=> b \in Held(v))'
    BY <1>1, <1>3, <2>1, <2>2, <2>3 DEF LocksHeld, TypeOK, LocksOK
  <2> QED
    BY <1>1, <1>8, <2>4 DEF LockAccount, LocksHeld
<1>9. CASE Finish(w)
  BY <1>1, <1>9, EndLocks DEF Finish, End
<1>10. CASE Undo(w)
  BY <1>1, <1>10, EndLocks DEF Undo
<1> QED
  BY <1>2, <1>4, <1>5, <1>6, <1>7, <1>8, <1>9, <1>10 DEF Moves

(* No two calls have the row of the same transaction locked. *)
LEMMA OneLocker ==
    ASSUME LocksHeld, NEW w \in Workers, NEW v \in Workers, v # w,
           pc[w] \in Locked, pc[v] \in Locked, cur[w] \in Txns
    PROVE  cur[v] # cur[w]
  BY DEF LocksHeld

(* A step of another worker does not disturb what a call knows. *)
LEMMA OtherShape ==
    ASSUME NEW v \in Workers, CallShape(v),
           pc'[v] = pc[v], cur'[v] = cur[v], row'[v] = row[v], read'[v] = read[v],
           pc[v] \in Locked => txn'[cur[v]] = txn[cur[v]]
    PROVE  CallShape(v)'
<1>1. Held(v)' = Held(v)
  BY DEF Held
<1>2. \A a : NewBalance(v, a)' = NewBalance(v, a)
  BY DEF NewBalance
<1>3. [a \in Held(v) |-> read[v][a].balance]' = [a \in Held(v) |-> read[v][a].balance]
  BY DEF Held
<1>4. Approved(v)' <=> Approved(v)
  BY <1>1, <1>2, <1>3 DEF Approved
<1> QED
  BY <1>1, <1>4 DEF CallShape, Locked

(* The end of a call leaves nothing to know about it. *)
LEMMA EndShape ==
    ASSUME TypeOK, NEW w \in Workers, NEW r \in Ready, NEW o, Leave(w, r, o)
    PROVE  /\ CallShape(w)'
           /\ \A v \in Workers : v # w => /\ pc'[v] = pc[v] /\ cur'[v] = cur[v]
                                          /\ row'[v] = row[v] /\ read'[v] = read[v]
<1>1. pc'[w] = r /\ r \notin Open /\ r \notin Locked
  BY DEF Leave, TypeOK, CallsOK, Ready, Returned, Open, Locked
<1>2. Held(w)' = {}
  BY DEF Leave, TypeOK, CallsOK, NoRead, Held
<1>3. CallShape(w)'
  BY <1>1, <1>2 DEF CallShape, Open, Locked
<1> QED
  BY <1>3 DEF Leave, TypeOK, CallsOK

LEMMA ShapesStep ==
    ASSUME Core, Next
    PROVE  CallShapes'
<1>1. TypeOK /\ LocksHeld /\ CallShapes /\ TablesOK /\ CallsOK
  BY DEF Core, TypeOK
<1>0. ASSUME NEW k \in LockKeys, LateRollback(k)
      PROVE  CallShapes'
  BY <1>0, LateEffect, OtherShape DEF Core, tables, CallShapes
<1>2. SUFFICES ASSUME NEW w \in Workers, Moves(w)
               PROVE  CallShapes'
  BY <1>0, CoreCases
<1>3. CallShape(w) /\ row[w] \in TxnRow
  BY <1>1 DEF CallShapes, CallsOK
<1>4. ASSUME CallShape(w)', UNCHANGED txn,
             \A v \in Workers : v # w => /\ pc'[v] = pc[v] /\ cur'[v] = cur[v]
                                         /\ row'[v] = row[v] /\ read'[v] = read[v]
      PROVE  CallShapes'
  BY <1>1, <1>4, OtherShape DEF CallShapes
<1>5. CASE \E t \in Ids : Call(w, t)
  <2>1. pc[w] \notin Locked /\ Held(w) = {}
    BY <1>3, <1>5 DEF Call, Ready, Returned, Locked, CallShape
  <2>2. pc'[w] = "lock" /\ cur'[w] \in Ids /\ Held(w)' = {}
    BY <1>1, <1>5, <2>1 DEF Call, Goto, CallsOK, Held
  <2>3. CallShape(w)'
    BY <2>2 DEF CallShape, Locked
  <2> QED
    BY <1>1, <1>4, <1>5, <2>3 DEF Call, Goto, CallsOK, tables
<1>6. CASE Take(w)
  <2>1. Held(w)' = {} /\ pc'[w] = "load" /\ cur'[w] \in Ids
    BY <1>1, <1>3, <1>6 DEF Take, Goto, CallsOK, CallShape, Held, Open
  <2>2. CallShape(w)'
    BY <2>1 DEF CallShape, Locked
  <2> QED
    BY <1>1, <1>4, <1>6, <2>2 DEF Take, Goto, CallsOK, tables
<1>7. CASE LockRow(w)
  <2>1. /\ Held(w)' = {} /\ pc'[w] = "mark" /\ cur'[w] = cur[w]
        /\ cur[w] \in Ids /\ row'[w] = txn[cur[w]] /\ UNCHANGED txn
    BY <1>1, <1>3, <1>7 DEF LockRow, Goto, CallsOK, CallShape, Held, Open, tables
  <2>2. cur[w] \in Txns /\ txn[cur[w]].status = "PENDING"
    BY <1>1, <1>7 DEF LockRow, TablesOK
  <2>3. CallShape(w)'
    BY <2>1, <2>2 DEF CallShape
  <2> QED
    BY <1>1, <1>4, <1>7, <2>3 DEF LockRow, Goto, CallsOK, tables
<1>8. CASE Mark(w)
  <2>1. /\ Held(w)' = {} /\ pc'[w] = "fraud" /\ cur'[w] = cur[w]
        /\ cur[w] \in Ids /\ UNCHANGED txn
    BY <1>1, <1>3, <1>8 DEF Mark, Goto, CallsOK, CallShape, Held, Open, tables
  <2>2. cur[w] \in Txns /\ txn[cur[w]].status = "PENDING"
    BY <1>3, <1>8 DEF Mark, CallShape, Locked
  <2>3. CallShape(w)'
    BY <2>1, <2>2 DEF CallShape
  <2> QED
    BY <1>1, <1>4, <1>8, <2>3 DEF Mark, Goto, CallsOK, tables
<1>9. CASE FraudPassed(w)
  <2>1. /\ Held(w)' = {} /\ pc'[w] = "accounts" /\ cur'[w] = cur[w]
        /\ cur[w] \in Ids /\ UNCHANGED txn
    BY <1>1, <1>3, <1>9 DEF FraudPassed, Goto, CallsOK, CallShape, Held, Open, tables
  <2>2. cur[w] \in Txns /\ txn[cur[w]].status = "PENDING"
    BY <1>3, <1>9 DEF FraudPassed, CallShape, Locked
  <2>3. CallShape(w)'
    BY <2>1, <2>2 DEF CallShape
  <2> QED
    BY <1>1, <1>4, <1>9, <2>3 DEF FraudPassed, Goto, CallsOK, tables
<1>10. CASE Reject(w)
  <2>1. /\ Held(w)' = Held(w) /\ pc'[w] = "commit" /\ cur'[w] = cur[w]
        /\ cur[w] \in Ids /\ UNCHANGED txn
        /\ row'[w].status = "FAILED"
    BY <1>1, <1>3, <1>10 DEF Reject, MarkFailed, Goto, CallsOK, CallShape, Held, Open,
       tables, TxnRow
  <2>2. cur[w] \in Txns /\ txn[cur[w]].status = "PENDING"
    BY <1>3, <1>10 DEF Reject, CallShape, Locked
  <2>3. Held(w) # {} => Executable(cur[w]) /\ Held(w) \subseteq Parties(cur[w])
    BY <1>3 DEF CallShape
  <2>4. CallShape(w)'
    BY <2>1, <2>2, <2>3 DEF CallShape
  <2> QED
    BY <1>1, <1>4, <1>10, <2>4 DEF Reject, MarkFailed, Goto, CallsOK, tables
<1>11. CASE LockAccount(w)
  <2>1. PICK a \in NextWanted(w) :
          read' = [read EXCEPT ![w] =
                    [b \in Held(w) \cup {a} |-> IF b = a THEN acct[a] ELSE read[w][b]]]
    BY <1>11 DEF LockAccount
  <2>2. /\ pc'[w] = "accounts" /\ pc[w] = "accounts" /\ cur'[w] = cur[w]
        /\ UNCHANGED txn
    BY <1>1, <1>11 DEF LockAccount, tables
  <2>3. Held(w)' = Held(w) \cup {a}
    BY <1>1, <2>1 DEF CallsOK, Held
  <2>4. Executable(cur[w]) /\ a \in Parties(cur[w])
    BY <2>1 DEF NextWanted, Wanted
  <2>5. CallShape(w)'
    BY <1>3, <2>2, <2>3, <2>4 DEF CallShape, Locked, Open
  <2> QED
    BY <1>1, <1>4, <1>11, <2>1, <2>5 DEF LockAccount, CallsOK, tables
<1>12. CASE Approve(w)
  <2>1. /\ read' = read /\ pc'[w] = "commit" /\ cur'[w] = cur[w]
        /\ cur[w] \in Ids /\ UNCHANGED txn
        /\ row'[w].status = "SETTLED"
    BY <1>1, <1>3, <1>12 DEF Approve, Goto, CallsOK, CallShape, Held, Open,
       tables, TxnRow
  <2>2. cur[w] \in Txns /\ txn[cur[w]].status = "PENDING"
    BY <1>3, <1>12 DEF Approve, CallShape, Locked
  <2>3. Held(w) = Parties(cur[w])
    BY <1>3, <1>12 DEF Approve, CallShape, Wanted
  <2>4. Approved(w)
    BY <1>12, <2>3 DEF Approve, Approved
  <2>5. /\ Held(w)' = Held(w)
        /\ \A a : NewBalance(w, a)' = NewBalance(w, a)
        /\ [a \in Held(w) |-> read[w][a].balance]' = [a \in Held(w) |-> read[w][a].balance]
    BY <2>1 DEF Held, NewBalance
  <2>6. Approved(w)'
    BY <2>1, <2>4, <2>5 DEF Approved
  <2>7. CallShape(w)'
    BY <2>1, <2>2, <2>3, <2>4, <2>5, <2>6 DEF CallShape, Approved
  <2> QED
    BY <1>1, <1>4, <1>12, <2>7 DEF Approve, Goto, CallsOK, tables
<1>13. CASE Finish(w)
  <2>1. PICK r \in Ready : Leave(w, r, None)
    BY <1>13 DEF Finish, End
  <2>2. cur[w] \in Txns /\ pc[w] \in Locked
    BY <1>3, <1>13 DEF Finish, CallShape, Locked
  <2>3. ASSUME NEW v \in Workers, v # w
        PROVE  CallShape(v)'
    <3>1. CallShape(v)
      BY <1>1 DEF CallShapes
    <3>2. ASSUME pc[v] \in Locked
          PROVE  txn'[cur[v]] = txn[cur[v]]
      <4>1. cur[v] # cur[w] /\ cur[v] \in Txns
        BY <1>1, <2>2, <2>3, <3>1, <3>2, OneLocker DEF CallShape
      <4> QED
        BY <1>1, <1>13, <4>1 DEF Finish, Publish, TablesOK
    <3> QED
      BY <1>1, <2>1, <2>3, <3>1, <3>2, EndShape, OtherShape
  <2> QED
    BY <1>1, <2>1, <2>3, EndShape DEF CallShapes
<1>14. CASE Undo(w)
  BY <1>1, <1>4, <1>14, EndShape DEF Undo, tables
<1> QED
  BY <1>2, <1>5, <1>6, <1>7, <1>8, <1>9, <1>10, <1>11, <1>12, <1>13,
     <1>14 DEF Moves

(* A commit changes only rows the call has locked, and appends at most one *)
(* entry per account, numbered after the last.                             *)
LEMMA PublishEffect ==
    ASSUME Core, NEW w \in Workers, pc[w] = "commit", Publish(w), NEW a \in Accounts
    PROVE  IF row[w].status = "SETTLED" /\ a \in Parties(cur[w])
           THEN /\ a \in Held(w)
                /\ ledger'[a] = Append(ledger[a], NewEntry(w, a))
                /\ acct'[a] = [balance |-> NewBalance(w, a),
                               version |-> acct[a].version + 1]
           ELSE ledger'[a] = ledger[a] /\ acct'[a] = acct[a]
<1>1. CASE row[w].status = "SETTLED" /\ a \in Parties(cur[w])
  <2>1. a \in Held(w)
    BY <1>1, NewEntryType
  <2>2. acct[a].version = read[w][a].version
    BY <2>1 DEF Core, ReadsCurrent
  <2> QED
    BY <1>1, <2>1, <2>2 DEF Publish, Updated
<1>2. CASE ~(row[w].status = "SETTLED" /\ a \in Parties(cur[w]))
  BY <1>2 DEF Publish, Updated
<1> QED
  BY <1>1, <1>2

LEMMA NumberedStep ==
    ASSUME Core, Next
    PROVE  Numbered'
<1>1. TablesOK /\ Numbered
  BY DEF Core, TypeOK
<1>0. ASSUME NEW k \in LockKeys, LateRollback(k)
      PROVE  Numbered'
  BY <1>0, LateEffect DEF Core, tables, Numbered
<1>2. SUFFICES ASSUME NEW w \in Workers, Moves(w)
               PROVE  Numbered'
  BY <1>0, CoreCases
<1>3. CASE Finish(w)
  <2> SUFFICES ASSUME NEW a \in Accounts, NEW i \in 1 .. Len(ledger'[a])
               PROVE  ledger'[a][i].seq = i
    BY DEF Numbered
  <2> DEFINE l == ledger[a]
             e == NewEntry(w, a)
  <2>1. l \in Seq(Entry)
    BY <1>1 DEF TablesOK
  <2>2. CASE row[w].status = "SETTLED" /\ a \in Parties(cur[w])
    <3>1. e.seq = Len(l) + 1
      BY <1>1, NextSeqValue DEF NewEntry
    <3>2. ledger'[a] = Append(l, e)
      BY <1>3, <2>2, PublishEffect DEF Finish
    <3>3. e \in Entry
      BY <1>3, <2>2, NewEntryType DEF Finish
    <3> HIDE DEF e
    <3>4. /\ Len(ledger'[a]) = Len(l) + 1 /\ Len(l) \in Nat
          /\ \A j \in 1 .. Len(l) : ledger'[a][j] = l[j]
          /\ ledger'[a][Len(l) + 1] = e
      BY <2>1, <3>2, <3>3
    <3>5. CASE i = Len(l) + 1
      BY <3>1, <3>4, <3>5
    <3>6. CASE i # Len(l) + 1
      <4>1. i \in 1 .. Len(l)
        BY <3>4, <3>6
      <4> QED
        BY <1>1, <3>4, <4>1 DEF Numbered
    <3> QED
      BY <3>5, <3>6
  <2>3. CASE ~(row[w].status = "SETTLED" /\ a \in Parties(cur[w]))
    BY <1>1, <1>3, <2>3, PublishEffect DEF Finish, Numbered
  <2> QED
    BY <2>2, <2>3
<1>4. CASE ~Finish(w)
  BY <1>1, <1>2, <1>4 DEF Moves, Call, Take, LockRow, Mark, FraudPassed, Reject,
     MarkFailed, LockAccount, Approve, Undo, tables, Numbered
<1> QED
  BY <1>3, <1>4

LEMMA ReadsStep ==
    ASSUME Core, Next
    PROVE  ReadsCurrent'
<1>1. TypeOK /\ LocksHeld /\ ReadsCurrent /\ CallsOK /\ TablesOK
  BY DEF Core, TypeOK
<1>0. ASSUME NEW k \in LockKeys, LateRollback(k)
      PROVE  ReadsCurrent'
  BY <1>0, LateEffect DEF Core, tables, ReadsCurrent, Held
<1>2. SUFFICES ASSUME NEW w \in Workers, Moves(w)
               PROVE  ReadsCurrent'
  BY <1>0, CoreCases
<1>3. \A v \in Workers : pc'[v] = "mark" => row'[v] = txn'[cur'[v]]
  BY ShapesStep DEF CallShapes, CallShape
<1> SUFFICES \A v \in Workers : \A a \in Held(v)' : read'[v][a] = acct'[a]
  BY <1>3 DEF ReadsCurrent
<1>4. CASE UNCHANGED <<acct, read>>
  BY <1>1, <1>4 DEF ReadsCurrent, Held
<1>5. CASE LockAccount(w)
  <2>1. PICK a \in NextWanted(w) :
          read' = [read EXCEPT ![w] =
                    [b \in Held(w) \cup {a} |-> IF b = a THEN acct[a] ELSE read[w][b]]]
    BY <1>5 DEF LockAccount
  <2>2. UNCHANGED acct
    BY <1>5 DEF LockAccount, tables
  <2>3. \A b \in Held(w)' : read'[w][b] = acct[b]
    BY <1>1, <2>1 DEF CallsOK, Held, ReadsCurrent
  <2>4. \A v \in Workers : v # w => read'[v] = read[v]
    BY <1>1, <2>1 DEF CallsOK
  <2> QED
    BY <1>1, <2>2, <2>3, <2>4 DEF Held, ReadsCurrent
<1>6. ASSUME NEW r \in Ready, NEW o, Leave(w, r, o)
      PROVE  /\ Held(w)' = {}
             /\ \A v \in Workers : v # w => read'[v] = read[v]
  BY <1>1, <1>6 DEF Leave, CallsOK, NoRead, Held
<1>7. CASE Finish(w)
  <2>1. ASSUME NEW v \in Workers, v # w, NEW a \in Held(v)
        PROVE  acct'[a] = acct[a]
    <3>1. a \in Accounts /\ a \notin Held(w)
      BY <1>1, <2>1 DEF LocksHeld, CallsOK
    <3> QED
      BY <1>7, <3>1, PublishEffect DEF Finish
  <2> QED
    BY <1>1, <1>6, <1>7, <2>1 DEF Finish, End, Held, ReadsCurrent
<1>8. CASE Undo(w)
  BY <1>1, <1>6, <1>8 DEF Undo, tables, Held, ReadsCurrent
<1> QED
  BY <1>2, <1>4, <1>5, <1>7, <1>8 DEF Moves, Call, Take, LockRow, Mark, FraudPassed, Reject,
     MarkFailed, Approve, tables

-----------------------------------------------------------------------------

LEMMA CoreInit == Init => Core
<1> SUFFICES ASSUME Init
             PROVE  Core
  OBVIOUS
<1>1. /\ NoRow \in TxnRow
      /\ \A w \in Workers : Held(w) = {} /\ read[w] \in [Held(w) -> AcctRow]
  BY DEF Init, NoRow, TxnRow, Status, NoRead, Held
<1>2. TablesOK
  <2>1. \A a \in Accounts : Opening[a] \in Int
    BY AccountsAssumption
  <2> QED
    BY <2>1 DEF Init, TablesOK, TxnRow, Status, AcctRow
<1>3. LocksOK /\ CallsOK
  BY <1>1 DEF Init, LocksOK, Owners, CallsOK, Ready
<1>4. LocksHeld
  BY <1>1, NoneAssumption DEF Init, LocksHeld, Holding, Locked
<1>5. CallShapes
  BY <1>1 DEF Init, CallShapes, CallShape, Open, Locked
<1>6. Numbered
  BY DEF Init, Numbered
<1>7. ReadsCurrent
  BY <1>1 DEF Init, ReadsCurrent
<1> QED
  BY <1>2, <1>3, <1>4, <1>5, <1>6, <1>7 DEF Core, TypeOK

LEMMA CoreStep == Core /\ [Next]_vars => Core'
<1> SUFFICES ASSUME Core, [Next]_vars
             PROVE  Core'
  OBVIOUS
<1>1. CASE Next
  BY <1>1, TypeStep, LocksStep, ShapesStep, NumberedStep, ReadsStep DEF Core
<1>2. CASE UNCHANGED vars
  <2>1. TypeOK' /\ Numbered'
    BY <1>2 DEF vars, tables, locks, Core, TypeOK, TablesOK, LocksOK, CallsOK, Held,
       Numbered
  <2>2. LocksHeld' /\ ReadsCurrent'
    BY <1>2 DEF vars, tables, locks, Core, LocksHeld, ReadsCurrent, Held
  <2>3. CallShapes'
    BY <1>2, OtherShape DEF vars, tables, Core, CallShapes
  <2> QED
    BY <2>1, <2>2, <2>3 DEF Core
<1> QED
  BY <1>1, <1>2

(* The inductive invariant holds: locks are where the calls say, reads are *)
(* current, entries are numbered.                                          *)
THEOREM CoreHolds == Spec => []Core
  BY CoreInit, CoreStep, PTL DEF Spec

(* Every variable keeps its type, and no worker ever commits PROCESSING    *)
(* (process_transaction marks and decides in one database transaction).    *)
THEOREM TypeCorrect == Spec => []TypeOK
<1>1. Core => TypeOK
  BY DEF Core
<1> QED
  BY <1>1, CoreHolds, PTL

(* Whatever the other workers do between the awaits of a call, what it has *)
(* read under FOR UPDATE is still the committed row when it writes.        *)
THEOREM ReadsStayCurrent == Spec => []ReadsCurrent
<1>1. Core => ReadsCurrent
  BY DEF Core
<1> QED
  BY <1>1, CoreHolds, PTL

=============================================================================
