------------------------ MODULE ProcessorSafetyProofs ------------------------
(***************************************************************************)
(* The safety properties of the transaction processor follow, one by one,  *)
(* from the invariant Core of ProcessorProofs.                             *)
(***************************************************************************)
EXTENDS ProcessorProofs, FiniteSetTheorems, WellFoundedInduction

-----------------------------------------------------------------------------
(* Only a commit changes the tables, and only of a pending transaction.    *)

LEMMA TablesStep ==
    ASSUME Core, Next
    PROVE  \/ UNCHANGED tables
           \/ \E w \in Workers : Finish(w) /\ pc[w] = "commit" /\ Publish(w)
  BY CoreCases DEF Moves, Call, Take, LockRow, Mark, FraudPassed, Reject, MarkFailed,
     LockAccount, Approve, Finish, Undo, LateRollback

(* What is true of a call that commits. *)
LEMMA AtCommit ==
    ASSUME Core, NEW w \in Workers, pc[w] = "commit", Publish(w)
    PROVE  /\ cur[w] \in Txns
           /\ txn[cur[w]].status = "PENDING"
           /\ row[w].status \in {"SETTLED", "FAILED"}
           /\ txn'[cur[w]] = row[w]
           /\ audit'[cur[w]] = Append(audit[cur[w]], row[w].status)
           /\ \A t \in Txns \ {cur[w]} : txn'[t] = txn[t] /\ audit'[t] = audit[t]
<1>1. /\ cur[w] \in Txns
      /\ txn[cur[w]].status = "PENDING"
      /\ row[w].status \in {"SETTLED", "FAILED"}
  BY DEF Core, CallShapes, CallShape, Locked
<1>2. txn \in [Txns -> TxnRow] /\ audit \in [Txns -> Seq({"SETTLED", "FAILED"})]
  BY DEF Core, TypeOK, TablesOK
<1> QED
  BY <1>1, <1>2 DEF Publish

-----------------------------------------------------------------------------

LEMMA AuditStep ==
    ASSUME Core, AuditedOnce, [Next]_vars
    PROVE  AuditedOnce'
<1>1. CASE UNCHANGED tables
  BY <1>1 DEF tables, AuditedOnce, Terminal
<1>2. ASSUME NEW w \in Workers, pc[w] = "commit", Publish(w)
      PROVE  AuditedOnce'
  <2> DEFINE t == cur[w]
  <2>1. audit[t] = <<>> /\ t \in Txns
    BY <1>2, AtCommit DEF AuditedOnce, Terminal
  <2>2. audit'[t] = <<row[w].status>> /\ txn'[t].status = row[w].status
    BY <1>2, <2>1, AtCommit
  <2>3. row[w].status \in {"SETTLED", "FAILED"}
    BY <1>2, AtCommit
  <2>4. \A u \in Txns \ {t} : txn'[u] = txn[u] /\ audit'[u] = audit[u]
    BY <1>2, AtCommit
  <2> HIDE DEF t
  <2> QED
    BY <2>2, <2>3, <2>4 DEF AuditedOnce, Terminal
<1> QED
  BY <1>1, <1>2, TablesStep DEF vars

(* A transaction has the one audit record of its decision, however often   *)
(* it is delivered (mark_failed and the business logic call audit::record  *)
(* in the database transaction that decides).                              *)
THEOREM AuditIsComplete == Spec => []AuditedOnce
<1>1. Init => AuditedOnce
  BY DEF Init, AuditedOnce, Terminal
<1>2. Core /\ AuditedOnce /\ [Next]_vars => AuditedOnce'
  BY AuditStep
<1> QED
  BY <1>1, <1>2, CoreHolds, PTL DEF Spec

-----------------------------------------------------------------------------

(* A decided row and its audit records never change again: replays find it *)
(* terminal under its row lock (process_transaction's match on status).    *)
THEOREM DecisionsAreFinal == Spec => TerminalIsFinal
<1>1. ASSUME Core, [Next]_vars
      PROVE  \A t \in Txns : Terminal(t) => txn'[t] = txn[t] /\ audit'[t] = audit[t]
  <2>1. CASE UNCHANGED tables
    BY <2>1 DEF tables
  <2>2. ASSUME NEW w \in Workers, pc[w] = "commit", Publish(w), NEW t \in Txns, Terminal(t)
        PROVE  txn'[t] = txn[t] /\ audit'[t] = audit[t]
    <3>1. t # cur[w]
      BY <1>1, <2>2, AtCommit DEF Terminal
    <3> QED
      BY <1>1, <2>2, <3>1, AtCommit
  <2> QED
    BY <1>1, <2>1, <2>2, TablesStep DEF vars
<1> QED
  BY <1>1, CoreHolds, PTL DEF Spec, TerminalIsFinal

-----------------------------------------------------------------------------
(* Balances.                                                               *)

(* The balance a commit writes follows from the committed one, and the     *)
(* rules have been checked on the committed one.                           *)
LEMMA NewBalanceIs ==
    ASSUME Core, NEW w \in Workers, pc[w] = "commit", row[w].status = "SETTLED",
           NEW a \in Parties(cur[w])
    PROVE  /\ cur[w] \in Txns /\ a \in Accounts
           /\ NewBalance(w, a) = After(cur[w], a, acct[a].balance)
           /\ NewBalance(w, a) <= MaxBalance
           /\ a \in Debited(cur[w]) => acct[a].balance >= Amount[cur[w]]
           /\ a \in Active
<1>1. /\ cur[w] \in Txns
      /\ Approved(w)
  BY DEF Core, CallShapes, CallShape, Locked
<1>2. a \in Accounts /\ a \in Held(w) /\ NewBalance(w, a) \in Int
  BY NewEntryType
<1>3. read[w][a] = acct[a]
  BY <1>2 DEF Core, ReadsCurrent
<1>4. acct[a].balance \in Int
  BY <1>2 DEF Core, TypeOK, TablesOK, AcctRow
<1>5. Amount[cur[w]] \in Nat /\ MaxBalance \in Nat
  BY <1>1, RowsAssumption, AccountsAssumption
<1>6. NewBalance(w, a) = After(cur[w], a, acct[a].balance)
  BY <1>3 DEF NewBalance
<1>7. ~(NewBalance(w, a) > MaxBalance)
  BY <1>1 DEF Approved
<1>8. a \in Debited(cur[w]) => ~(acct[a].balance < Amount[cur[w]])
  BY <1>1, <1>2, <1>3 DEF Approved, Refused
<1>9. a \in Active
  BY <1>1 DEF Approved, Refused
<1> QED
  BY <1>1, <1>2, <1>4, <1>5, <1>6, <1>7, <1>8, <1>9

LEMMA OpeningBalance ==
    ASSUME Init, NEW a \in Accounts
    PROVE  acct[a].balance = Opening[a]
<1>1. acct[a] = [balance |-> Opening[a], version |-> 1]
  BY DEF Init
<1> QED
  BY <1>1

LEMMA SolventStep ==
    ASSUME Core, Solvent, [Next]_vars
    PROVE  Solvent'
<1>1. CASE UNCHANGED tables
  BY <1>1 DEF tables, Solvent
<1>2. ASSUME NEW w \in Workers, pc[w] = "commit", Publish(w), NEW a \in Accounts
      PROVE  acct'[a].balance \in 0 .. MaxBalance
  <2>1. CASE row[w].status = "SETTLED" /\ a \in Parties(cur[w])
    <3>1. acct'[a].balance = NewBalance(w, a)
      <4>1. acct'[a] = [balance |-> NewBalance(w, a), version |-> acct[a].version + 1]
        BY <1>2, <2>1, PublishEffect
      <4> QED
        BY <4>1
    <3>2. /\ NewBalance(w, a) = After(cur[w], a, acct[a].balance)
          /\ NewBalance(w, a) <= MaxBalance
          /\ a \in Debited(cur[w]) => acct[a].balance >= Amount[cur[w]]
          /\ cur[w] \in Txns
      BY <1>2, <2>1, NewBalanceIs
    <3>3. Amount[cur[w]] \in Nat /\ MaxBalance \in Nat
      BY <3>2, RowsAssumption, AccountsAssumption
    <3>4. acct[a].balance \in Nat
      BY <3>3 DEF Solvent
    <3> QED
      BY <3>1, <3>2, <3>3, <3>4 DEF After
  <2>2. CASE ~(row[w].status = "SETTLED" /\ a \in Parties(cur[w]))
    BY <1>2, <2>2, PublishEffect DEF Solvent
  <2> QED
    BY <2>1, <2>2
<1> QED
  BY <1>1, <1>2, TablesStep DEF vars, Solvent

(* No balance is ever negative or too large for its column: the check of   *)
(* the business rules still holds when the UPDATE is executed.             *)
THEOREM BalancesInRange == Spec => []Solvent
<1>1. Init => Solvent
  <2>1. \A a \in Accounts : Opening[a] \in 0 .. MaxBalance
    BY AccountsAssumption
  <2> QED
    BY <2>1, OpeningBalance DEF Solvent
<1>2. Core /\ Solvent /\ [Next]_vars => Solvent'
  BY SolventStep
<1> QED
  BY <1>1, <1>2, CoreHolds, PTL DEF Spec

-----------------------------------------------------------------------------
(* The ledger.                                                             *)

LEMMA LedgerType ==
    ASSUME Core, NEW a \in Accounts
    PROVE  /\ ledger[a] \in Seq(Entry)
           /\ Len(ledger[a]) \in Nat
           /\ DOMAIN ledger[a] = 1 .. Len(ledger[a])
           /\ \A i \in 1 .. Len(ledger[a]) : ledger[a][i] \in Entry
  BY DEF Core, TypeOK, TablesOK

LEMMA LedgerAppend ==
    ASSUME Core, NEW w \in Workers, pc[w] = "commit", Publish(w),
           row[w].status = "SETTLED", NEW a \in Parties(cur[w])
    PROVE  /\ Len(ledger'[a]) = Len(ledger[a]) + 1
           /\ DOMAIN ledger'[a] = 1 .. Len(ledger[a]) + 1
           /\ \A i \in 1 .. Len(ledger[a]) : ledger'[a][i] = ledger[a][i]
           /\ ledger'[a][Len(ledger[a]) + 1] = NewEntry(w, a)
<1> DEFINE l == ledger[a]
           e == NewEntry(w, a)
<1>1. a \in Accounts /\ e \in Entry
  BY NewEntryType
<1>2. l \in Seq(Entry)
  BY <1>1, LedgerType
<1>3. ledger'[a] = Append(l, e)
  BY <1>1, PublishEffect
<1> HIDE DEF l, e
<1>4. /\ Len(Append(l, e)) = Len(l) + 1
      /\ DOMAIN Append(l, e) = 1 .. Len(l) + 1
      /\ \A i \in 1 .. Len(l) : Append(l, e)[i] = l[i]
      /\ Append(l, e)[Len(l) + 1] = e
  BY <1>1, <1>2
<1> QED
  BY <1>3, <1>4 DEF l, e

LEMMA ChainStep ==
    ASSUME Core, LedgerChain, [Next]_vars
    PROVE  LedgerChain'
<1>1. ASSUME NEW a \in Accounts, ledger'[a] = ledger[a], acct'[a] = acct[a]
      PROVE  Chained(a)'
  BY <1>1 DEF LedgerChain, Chained
<1>2. ASSUME NEW w \in Workers, pc[w] = "commit", Publish(w),
             row[w].status = "SETTLED", NEW a \in Accounts, a \in Parties(cur[w])
      PROVE  Chained(a)'
  <2> DEFINE n == Len(ledger[a])
             Before(i) == IF i = 0 THEN Opening[a] ELSE ledger[a][i].running
  <2>1. /\ n \in Nat /\ n + 1 # 0 /\ n + 1 - 1 = n
        /\ \A i \in 1 .. n : i - 1 \in 0 .. n
        /\ \A i \in 1 .. n + 1 : i # n + 1 => i \in 1 .. n
    BY LedgerType
  <2>2. /\ \A i \in 1 .. n : /\ ledger[a][i].seq = i
                             /\ ledger[a][i].running
                                  = After(ledger[a][i].txn, a, Before(i - 1))
        /\ acct[a].balance = Before(n)
    BY <1>2 DEF LedgerChain, Chained
  <2>3. /\ Len(ledger'[a]) = n + 1
        /\ \A i \in 1 .. n : ledger'[a][i] = ledger[a][i]
        /\ ledger'[a][n + 1] = NewEntry(w, a)
    BY <1>2, LedgerAppend
  <2>4. acct'[a].balance = NewBalance(w, a)
    <3>1. acct'[a] = [balance |-> NewBalance(w, a), version |-> acct[a].version + 1]
      BY <1>2, PublishEffect
    <3> QED
      BY <3>1
  <2>5. /\ NewEntry(w, a).running = NewBalance(w, a)
        /\ NewEntry(w, a).txn = cur[w]
        /\ NewEntry(w, a).seq = n + 1
    BY NextSeqValue DEF NewEntry, Core, TypeOK
  <2>6. NewBalance(w, a) = After(cur[w], a, Before(n))
    BY <1>2, <2>2, NewBalanceIs
  <2> DEFINE BeforeNow(i) == IF i = 0 THEN Opening[a] ELSE ledger'[a][i].running
  <2>7. \A i \in 0 .. n : BeforeNow(i) = Before(i)
    BY <2>1, <2>3
  <2>8. ASSUME NEW i \in 1 .. n + 1
        PROVE  /\ ledger'[a][i].seq = i
               /\ ledger'[a][i].running = After(ledger'[a][i].txn, a, BeforeNow(i - 1))
    <3>1. CASE i = n + 1
      <4>1. BeforeNow(i - 1) = Before(n)
        BY <2>1, <2>7, <3>1
      <4> QED
        BY <2>3, <2>5, <2>6, <3>1, <4>1
    <3>2. CASE i # n + 1
      <4>1. i \in 1 .. n /\ i - 1 \in 0 .. n
        BY <2>1, <3>2
      <4>2. BeforeNow(i - 1) = Before(i - 1)
        BY <2>7, <4>1
      <4> QED
        BY <2>2, <2>3, <4>1, <4>2
    <3> QED
      BY <3>1, <3>2
  <2>9. acct'[a].balance = BeforeNow(n + 1)
    BY <2>1, <2>3, <2>4, <2>5
  <2> QED
    BY <2>3, <2>8, <2>9 DEF Chained
<1>3. ASSUME NEW a \in Accounts
      PROVE  Chained(a)'
  <2>1. CASE UNCHANGED tables
    BY <1>1, <2>1 DEF tables
  <2>2. ASSUME NEW w \in Workers, pc[w] = "commit", Publish(w)
        PROVE  Chained(a)'
    <3>1. CASE row[w].status = "SETTLED" /\ a \in Parties(cur[w])
      BY <1>2, <2>2, <3>1
    <3>2. CASE ~(row[w].status = "SETTLED" /\ a \in Parties(cur[w]))
      BY <1>1, <2>2, <3>2, PublishEffect
    <3> QED
      BY <3>1, <3>2
  <2> QED
    BY <2>1, <2>2, TablesStep DEF vars
<1> QED
  BY <1>3 DEF LedgerChain

(* The entries of an account explain its balance one by one: they are      *)
(* numbered without gaps and each running balance follows from the last    *)
(* (write_ledger_entry and the UPDATEs next to it).                        *)
THEOREM LedgerExplainsBalance == Spec => []LedgerChain
<1>1. ASSUME Init, NEW a \in Accounts
      PROVE  Chained(a)
  <2>1. ledger[a] = <<>> /\ Len(<<>>) = 0
    BY <1>1 DEF Init
  <2>2. acct[a].balance = Opening[a]
    BY <1>1, OpeningBalance
  <2> QED
    BY <2>1, <2>2 DEF Chained
<1>2. Init => LedgerChain
  BY <1>1 DEF LedgerChain
<1>3. Core /\ LedgerChain /\ [Next]_vars => LedgerChain'
  BY ChainStep
<1> QED
  BY <1>2, <1>3, CoreHolds, PTL DEF Spec

-----------------------------------------------------------------------------
(* Posting.                                                                *)

LEMMA PostedStep ==
    ASSUME Core, PostedOnce, [Next]_vars
    PROVE  PostedOnce'
<1>1. ASSUME NEW a \in Accounts, ledger'[a] = ledger[a],
             \A t \in Txns : Settled(t)' /\ a \in Parties(t) <=> Settled(t) /\ a \in Parties(t)
      PROVE  PostedTo(a)'
  BY <1>1 DEF PostedOnce, PostedTo
<1>2. ASSUME NEW w \in Workers, pc[w] = "commit", Publish(w)
      PROVE  /\ cur[w] \in Txns
             /\ ~Settled(cur[w])
             /\ txn'[cur[w]].status = "SETTLED" <=> row[w].status = "SETTLED"
             /\ \A t \in Txns \ {cur[w]} : Settled(t)' <=> Settled(t)
  <2>1. /\ cur[w] \in Txns
        /\ txn[cur[w]].status = "PENDING"
        /\ txn'[cur[w]] = row[w]
        /\ \A t \in Txns \ {cur[w]} : txn'[t] = txn[t]
    BY <1>2, AtCommit
  <2> QED
    BY <2>1 DEF Settled
<1>3. ASSUME NEW w \in Workers, pc[w] = "commit", Publish(w),
             row[w].status = "SETTLED", NEW a \in Accounts, a \in Parties(cur[w])
      PROVE  PostedTo(a)'
  <2> DEFINE n == Len(ledger[a])
             e == NewEntry(w, a)
  <2>1. n \in Nat /\ DOMAIN ledger[a] = 1 .. n
    BY LedgerType
  <2>2. /\ DOMAIN ledger'[a] = 1 .. n + 1
        /\ \A i \in 1 .. n : ledger'[a][i] = ledger[a][i]
        /\ ledger'[a][n + 1] = e
    BY <1>3, LedgerAppend
  <2>3. /\ e.txn = cur[w]
        /\ e.amount = Amount[e.txn]
        /\ e.type = IF a \in Debited(e.txn) THEN "DEBIT" ELSE "CREDIT"
    BY DEF NewEntry
  <2>4. \A i \in 1 .. n : ledger[a][i].txn # cur[w]
    BY <1>2, <1>3, <2>1 DEF PostedOnce, PostedTo
  <2>5. /\ n + 1 \in 1 .. n + 1
        /\ \A i \in 1 .. n + 1 : i # n + 1 => i \in 1 .. n
        /\ \A i \in 1 .. n : i \in 1 .. n + 1
    BY <2>1
  <2> HIDE DEF e
  <2>6. PostedTo(a)
    BY DEF PostedOnce
  <2>7. \A i, j \in 1 .. n + 1 : ledger'[a][i].txn = ledger'[a][j].txn => i = j
    <3> SUFFICES ASSUME NEW i \in 1 .. n + 1, NEW j \in 1 .. n + 1,
                        ledger'[a][i].txn = ledger'[a][j].txn
                 PROVE  i = j
      OBVIOUS
    <3>1. CASE i # n + 1 /\ j # n + 1
      <4>1. i \in 1 .. n /\ j \in 1 .. n
        BY <2>5, <3>1
      <4>2. ledger[a][i].txn = ledger[a][j].txn
        BY <2>2, <4>1
      <4> QED
        BY <2>1, <2>6, <4>1, <4>2 DEF PostedTo
    <3>2. CASE i = n + 1 /\ j # n + 1
      <4>1. j \in 1 .. n
        BY <2>5, <3>2
      <4>2. ledger[a][j].txn = cur[w]
        BY <2>2, <2>3, <3>2, <4>1
      <4> QED
        BY <2>4, <4>1, <4>2
    <3>3. CASE i # n + 1 /\ j = n + 1
      <4>1. i \in 1 .. n
        BY <2>5, <3>3
      <4>2. ledger[a][i].txn = cur[w]
        BY <2>2, <2>3, <3>3, <4>1
      <4> QED
        BY <2>4, <4>1, <4>2
    <3> QED
      BY <3>1, <3>2, <3>3
  <2>8. ASSUME NEW t \in Txns
        PROVE  (\E i \in 1 .. n + 1 : ledger'[a][i].txn = t)
                  <=> Settled(t)' /\ a \in Parties(t)
    <3>1. CASE t = cur[w]
      <4>1. ledger'[a][n + 1].txn = t
        BY <2>2, <2>3, <3>1
      <4>2. Settled(t)'
        BY <1>2, <1>3, <3>1 DEF Settled
      <4> QED
        BY <1>3, <2>5, <3>1, <4>1, <4>2
    <3>2. CASE t # cur[w]
      <4>1. (\E i \in 1 .. n + 1 : ledger'[a][i].txn = t)
               <=> (\E i \in 1 .. n : ledger[a][i].txn = t)
        BY <2>2, <2>3, <2>5, <3>2
      <4> QED
        BY <1>2, <1>3, <2>1, <2>6, <3>2, <4>1 DEF PostedTo
    <3> QED
      BY <3>1, <3>2
  <2>9. ASSUME NEW i \in 1 .. n + 1
        PROVE  /\ ledger'[a][i].amount = Amount[ledger'[a][i].txn]
               /\ ledger'[a][i].type
                    = IF a \in Debited(ledger'[a][i].txn) THEN "DEBIT" ELSE "CREDIT"
    <3>1. CASE i = n + 1
      BY <2>2, <2>3, <3>1
    <3>2. CASE i # n + 1
      <4>1. i \in 1 .. n /\ ledger'[a][i] = ledger[a][i]
        BY <2>2, <2>5, <3>2
      <4> QED
        BY <2>1, <2>6, <4>1 DEF PostedTo
    <3> QED
      BY <3>1, <3>2
  <2> QED
    BY <2>2, <2>7, <2>8, <2>9 DEF PostedTo
<1>4. ASSUME NEW a \in Accounts
      PROVE  PostedTo(a)'
  <2>1. CASE UNCHANGED tables
    BY <1>1, <2>1 DEF tables, Settled
  <2>2. ASSUME NEW w \in Workers, pc[w] = "commit", Publish(w)
        PROVE  PostedTo(a)'
    <3>1. CASE row[w].status = "SETTLED" /\ a \in Parties(cur[w])
      BY <1>3, <2>2, <3>1
    <3>2. CASE ~(row[w].status = "SETTLED" /\ a \in Parties(cur[w]))
      <4>1. ledger'[a] = ledger[a]
        BY <2>2, <3>2, PublishEffect
      <4>2. ASSUME NEW t \in Txns
            PROVE  Settled(t)' /\ a \in Parties(t) <=> Settled(t) /\ a \in Parties(t)
        <5>1. CASE t = cur[w]
          BY <1>2, <2>2, <3>2, <5>1 DEF Settled
        <5>2. CASE t # cur[w]
          BY <1>2, <2>2, <5>2
        <5> QED
          BY <5>1, <5>2
      <4> QED
        BY <1>1, <4>1, <4>2
    <3> QED
      BY <3>1, <3>2
  <2> QED
    BY <2>1, <2>2, TablesStep DEF vars
<1> QED
  BY <1>4 DEF PostedOnce

(* Exactly-once effect of at-least-once delivery: a settled transaction    *)
(* has one entry in the ledger of each account it touches, on the right    *)
(* side and for its amount; any other transaction has none.                *)
THEOREM EffectIsExactlyOnce == Spec => []PostedOnce
<1>1. ASSUME Init, NEW a \in Accounts
      PROVE  PostedTo(a)
  <2>1. ledger[a] = <<>> /\ DOMAIN ledger[a] = {}
    BY <1>1 DEF Init
  <2>2. \A t \in Txns : ~Settled(t)
    BY <1>1 DEF Init, Settled
  <2> QED
    BY <2>1, <2>2 DEF PostedTo
<1>2. Init => PostedOnce
  BY <1>1 DEF PostedOnce
<1>3. Core /\ PostedOnce /\ [Next]_vars => PostedOnce'
  BY PostedStep
<1> QED
  BY <1>2, <1>3, CoreHolds, PTL DEF Spec

-----------------------------------------------------------------------------
(* Reconciliation.                                                         *)

(* The equation that sum solves in LedgerBalance(a). *)
SumsUp(a, sum) ==
    sum = [n \in 0 .. Len(ledger[a]) |->
             IF n = 0 THEN 0
             ELSE LET e == ledger[a][n]
                  IN  IF e.type = "CREDIT" THEN sum[n - 1] + e.amount
                                           ELSE sum[n - 1] - e.amount]

LEMMA LedgerBalanceIs ==
    ASSUME NEW a
    PROVE  LedgerBalance(a) = (CHOOSE sum : SumsUp(a, sum))[Len(ledger[a])]
  BY DEF LedgerBalance, SumsUp

(* A rule that takes every value from the one before has one solution. *)
LEMMA OneSolution ==
    ASSUME NEW N \in Nat, NEW f, NEW g,
           f[0] = g[0],
           \A n \in 1 .. N : f[n - 1] = g[n - 1] => f[n] = g[n]
    PROVE  f[N] = g[N]
<1> SUFFICES ASSUME f[N] # g[N]
             PROVE  FALSE
  OBVIOUS
<1> DEFINE differ == {n \in 0 .. N : f[n] # g[n]}
<1>1. differ \subseteq Nat /\ differ # {}
  BY SMT
<1>2. IsWellFoundedOn(OpToRel(<, Nat), Nat)
  BY NatLessThanWellFounded
<1>3. PICK n \in differ : \A m \in differ : ~(<<m, n>> \in OpToRel(<, Nat))
  <2> HIDE DEF differ
  <2> QED
    BY <1>1, <1>2, WFMin
<1>4. \A m \in differ : ~(m < n)
  <2> HIDE DEF differ
  <2> QED
    BY <1>1, <1>3 DEF OpToRel
<1>5. n \in 1 .. N /\ n - 1 \in 0 .. N /\ n - 1 < n
  OBVIOUS
<1>6. f[n - 1] = g[n - 1]
  <2>1. n - 1 \notin differ
    BY <1>4, <1>5
  <2> QED
    BY <1>5, <2>1
<1> QED
  BY <1>5, <1>6

(* The running balances less the opening balance solve the equation, and   *)
(* nothing else does.                                                      *)
LEMMA DriftIsOpening ==
    ASSUME Core, LedgerChain, PostedOnce, NEW a \in Accounts
    PROVE  acct[a].balance - LedgerBalance(a) = Opening[a]
<1> DEFINE N == Len(ledger[a])
           Before(n) == IF n = 0 THEN Opening[a] ELSE ledger[a][n].running
           net == [n \in 0 .. N |-> Before(n) - Opening[a]]
<1>1. /\ N \in Nat
      /\ DOMAIN ledger[a] = 1 .. N
      /\ 0 \in 0 .. N /\ N \in 0 .. N
      /\ \A n \in 0 .. N : n # 0 => n \in 1 .. N
      /\ \A n \in 1 .. N : n # 0 /\ n \in 0 .. N /\ n - 1 \in 0 .. N
  BY LedgerType
<1>2. /\ \A n \in 1 .. N : ledger[a][n].running = After(ledger[a][n].txn, a, Before(n - 1))
      /\ acct[a].balance = Before(N)
  BY DEF LedgerChain, Chained
<1>3. \A n \in 1 .. N :
         LET e == ledger[a][n] IN
         /\ e.amount = Amount[e.txn]
         /\ e.type = IF a \in Debited(e.txn) THEN "DEBIT" ELSE "CREDIT"
  BY <1>1 DEF PostedOnce, PostedTo
<1>4. /\ Opening[a] \in Int
      /\ \A n \in 0 .. N : Before(n) \in Int
      /\ \A n \in 1 .. N : ledger[a][n].amount \in Int
  <2>1. \A n \in 1 .. N : ledger[a][n].amount \in Nat /\ ledger[a][n].running \in Int
    BY LedgerType DEF Entry
  <2>2. Opening[a] \in 0 .. MaxBalance
    BY AccountsAssumption
  <2> QED
    BY <1>1, <2>1, <2>2
<1>5. \A n \in 1 .. N :
         net[n] = IF ledger[a][n].type = "CREDIT" THEN net[n - 1] + ledger[a][n].amount
                                                  ELSE net[n - 1] - ledger[a][n].amount
  <2> SUFFICES ASSUME NEW n \in 1 .. N
               PROVE  net[n] = IF ledger[a][n].type = "CREDIT"
                               THEN net[n - 1] + ledger[a][n].amount
                               ELSE net[n - 1] - ledger[a][n].amount
    OBVIOUS
  <2>1. net[n - 1] = Before(n - 1) - Opening[a] /\ net[n] = Before(n) - Opening[a]
    BY <1>1
  <2>2. ledger[a][n].type = "CREDIT" <=> a \notin Debited(ledger[a][n].txn)
    BY <1>3
  <2>3. Before(n) = IF ledger[a][n].type = "CREDIT"
                    THEN Before(n - 1) + ledger[a][n].amount
                    ELSE Before(n - 1) - ledger[a][n].amount
    <3>1. Before(n) = After(ledger[a][n].txn, a, Before(n - 1))
      BY <1>1, <1>2
    <3> HIDE DEF Before
    <3> QED
      BY <1>3, <2>2, <3>1 DEF After
  <2>4. Before(n - 1) \in Int /\ ledger[a][n].amount \in Int
    BY <1>1, <1>4
  <2> HIDE DEF net, Before
  <2> QED
    BY <1>4, <2>1, <2>3, <2>4
<1>6. net[0] = 0
  BY <1>1, <1>4
<1>7. net[N] = acct[a].balance - Opening[a]
  BY <1>1, <1>2
<1>8. acct[a].balance \in Int
  BY <1>1, <1>2, <1>4
<1>9. SumsUp(a, net)
  <2>1. net = [n \in 0 .. N |-> net[n]]
    OBVIOUS
  <2> HIDE DEF net
  <2> QED
    BY <1>1, <1>5, <1>6, <2>1 DEF SumsUp
<1> DEFINE sum == CHOOSE s : SumsUp(a, s)
<1>10. SumsUp(a, sum)
  BY <1>9
<1> HIDE DEF sum, net
<1>11. sum[0] = net[0]
  BY <1>1, <1>9, <1>10 DEF SumsUp
<1>12. \A n \in 1 .. N : sum[n - 1] = net[n - 1] => sum[n] = net[n]
  BY <1>1, <1>9, <1>10 DEF SumsUp
<1>13. sum[N] = net[N]
  BY <1>1, <1>11, <1>12, OneSolution
<1>14. LedgerBalance(a) = acct[a].balance - Opening[a]
  BY <1>7, <1>13, LedgerBalanceIs DEF sum
<1> QED
  BY <1>4, <1>8, <1>14

(* At every moment verify_account_balance, which sums the entries of an    *)
(* account from zero, differs from accounts.balance by exactly the balance *)
(* the account was created with.                                           *)
THEOREM DriftIsConstant == Spec => []Reconciled
<1>1. Core /\ LedgerChain /\ PostedOnce => Reconciled
  BY DriftIsOpening DEF Reconciled
<1> QED
  BY <1>1, CoreHolds, LedgerExplainsBalance, EffectIsExactlyOnce, PTL

-----------------------------------------------------------------------------
(* What a call returns.                                                    *)

LEMMA ReturnStep ==
    ASSUME Core, Next, NEW w \in Workers, pc[w] \in Open
    PROVE  ReturnMeans(w)
<1>1. CallsOK /\ TablesOK
  BY DEF Core, TypeOK
<1>3. ASSUME pc'[w] \notin {"ok", "retryable"}
      PROVE  ReturnMeans(w)
  BY <1>3 DEF ReturnMeans
<1>0. ASSUME NEW k \in LockKeys, LateRollback(k)
      PROVE  ReturnMeans(w)
  BY <1>0, <1>3 DEF LateRollback, Open
<1>2. SUFFICES ASSUME NEW v \in Workers,
                      \/ \E t \in Ids : Call(v, t)
                      \/ Step(v)
                      \/ Refuse(v) \/ CommitUnseen(v) \/ DbError(v) \/ Crash(v)
               PROVE  ReturnMeans(w)
  BY <1>0 DEF Next
<1>4. ASSUME NEW r \in Ready, NEW o, Leave(v, r, o)
      PROVE  pc'[v] = r /\ \A u \in Workers : u # v => pc'[u] = pc[u]
  BY <1>1, <1>4 DEF Leave, CallsOK
<1>14. ASSUME NEW r \in Ready, Rollback(v, r) \/ Abandon(v, r)
       PROVE  /\ UNCHANGED tables
              /\ pc'[v] = r
              /\ \A u \in Workers : u # v => pc'[u] = pc[u]
  BY <1>4, <1>14 DEF Rollback, Abandon, End
<1>5. {"ok", "permanent", "retryable", "idle"} \subseteq Ready
  BY DEF Ready, Returned
<1>6. CASE v # w
  <2>1. pc'[w] = pc[w]
    <3>1. CASE \E r \in Ready : Leave(v, r, None) \/ Rollback(v, r) \/ Abandon(v, r)
      BY <1>4, <1>6, <1>14, <3>1
    <3>2. CASE ~\E r \in Ready : Leave(v, r, None) \/ Rollback(v, r) \/ Abandon(v, r)
      BY <1>1, <1>2, <1>5, <1>6, <3>2 DEF Call, Step, Refuse, CommitUnseen, DbError,
         Crash, TryLock, NotFound, Load, MarkProcessing, FraudPassed, FraudBlocked,
         FraudTimeout, LockAccount, Execute, Commit, MarkFailed, Drop, End, Goto, CallsOK
    <3> QED
      BY <3>1, <3>2
  <2> QED
    BY <1>3, <2>1 DEF Open
<1>7. CASE v = w
  <2>1. CASE \E t \in Ids : Call(v, t)
    BY <1>7, <2>1 DEF Call, Open, Ready, Returned
  <2>2. CASE Refuse(v) \/ NotFound(v) \/ DbError(v) \/ Crash(v)
    <3>1. \E r \in {"retryable", "permanent", "idle"} : Rollback(v, r) \/ Abandon(v, r)
      BY <2>2 DEF Refuse, NotFound, DbError, Crash, Drop
    <3> QED
      BY <1>5, <1>7, <1>14, <3>1 DEF ReturnMeans
  <2>3. CASE TryLock(v)
    <3>1. CASE advisory[LockKey[cur[w]]] = None
      BY <1>1, <1>3, <1>7, <2>3, <3>1 DEF TryLock, Goto, CallsOK
    <3>2. CASE advisory[LockKey[cur[w]]] # None
      <4>1. pc[w] = "lock" /\ Rollback(w, "ok")
        BY <1>7, <2>3, <3>2 DEF TryLock
      <4>2. cur[w] \in Ids /\ LockKey[cur[w]] \in LockKeys
        BY LockKeyAssumption DEF Core, CallShapes, CallShape
      <4>3. advisory[LockKey[cur[w]]] # w
        BY <4>1, <4>2 DEF Core, LocksHeld, Holding, Locked
      <4> QED
        BY <1>5, <1>7, <1>14, <3>2, <4>1, <4>3 DEF ReturnMeans
    <3> QED
      BY <3>1, <3>2
  <2>4. CASE Load(v)
    <3>1. cur[w] \in Txns /\ txn[cur[w]].status \in {"PENDING", "SETTLED", "FAILED"}
      BY <1>1, <1>7, <2>4 DEF Load, TablesOK
    <3>2. CASE txn[cur[w]].status = "SETTLED"
      <4>1. Rollback(w, "ok")
        BY <1>7, <2>4, <3>2 DEF Load
      <4>2. PICK t \in Txns : t = cur[w]
        BY <3>1
      <4>3. Settled(t)'
        BY <1>5, <1>7, <1>14, <3>2, <4>1, <4>2 DEF tables, Settled
      <4> QED
        BY <1>5, <1>7, <1>14, <4>1, <4>2, <4>3 DEF ReturnMeans
    <3>3. CASE txn[cur[w]].status = "FAILED"
      BY <1>3, <1>5, <1>7, <1>14, <2>4, <3>3 DEF Load
    <3>4. CASE txn[cur[w]].status = "PENDING"
      BY <1>1, <1>3, <1>7, <2>4, <3>4 DEF Load, Goto, CallsOK
    <3> QED
      BY <3>1, <3>2, <3>3, <3>4
  <2>5. CASE MarkProcessing(v) \/ Execute(v)
    <3>1. \/ Rollback(v, "retryable") \/ Rollback(v, "permanent")
          \/ Goto(v, "fraud") \/ Goto(v, "commit")
      BY <2>5 DEF MarkProcessing, Execute, MarkFailed
    <3>2. CASE Rollback(v, "retryable") \/ Rollback(v, "permanent")
      BY <1>5, <1>7, <1>14, <3>2 DEF ReturnMeans
    <3>3. CASE Goto(v, "fraud") \/ Goto(v, "commit")
      BY <1>1, <1>3, <1>7, <3>3 DEF Goto, CallsOK
    <3> QED
      BY <3>1, <3>2, <3>3
  <2>6. CASE FraudPassed(v) \/ FraudBlocked(v) \/ FraudTimeout(v) \/ LockAccount(v)
    BY <1>1, <1>3, <1>7, <2>6 DEF FraudPassed, FraudBlocked, FraudTimeout, MarkFailed,
       LockAccount, Goto, CallsOK
  <2>7. CASE Commit(v) \/ CommitUnseen(v)
    <3>1. PICK r \in {"ok", "permanent", "idle"} :
             Leave(w, r, None) /\ (r = "ok" => row[w].status = "SETTLED")
      BY <1>7, <2>7 DEF Commit, CommitUnseen, End
    <3>2. pc[w] = "commit" /\ Publish(w)
      BY <1>7, <2>7 DEF Commit, CommitUnseen
    <3>3. PICK t \in Txns : t = cur[w]
      BY <3>2, AtCommit
    <3>4. txn'[t] = row[w]
      BY <3>2, <3>3, AtCommit
    <3> QED
      BY <1>4, <1>5, <1>7, <3>1, <3>3, <3>4 DEF ReturnMeans, Settled
  <2> QED
    BY <1>2, <1>7, <2>1, <2>2, <2>3, <2>4, <2>5, <2>6, <2>7 DEF Step
<1> QED
  BY <1>6, <1>7

(* Ok means settled, or that another database transaction has the lock     *)
(* key; a retryable error means that nothing has changed (ProcessError).   *)
THEOREM ReturnsAreRight == Spec => ReturnsMean
<1>1. ASSUME Core, [Next]_vars, NEW w \in Workers, pc[w] \in Open
      PROVE  ReturnMeans(w)
  <2>1. CASE UNCHANGED vars
    BY <1>1, <2>1 DEF vars, ReturnMeans, Open
  <2> QED
    BY <1>1, <2>1, ReturnStep
<1>2. Core /\ [Next]_vars => \A w \in Workers : pc[w] \in Open => ReturnMeans(w)
  BY <1>1
<1> QED
  BY <1>2, CoreHolds, PTL DEF Spec, ReturnsMean

-----------------------------------------------------------------------------
(* Row locks never make the workers wait for each other in a circle.       *)

(* A finite set of numbers has a greatest element. *)
LEMMA Greatest ==
    ASSUME NEW S \in SUBSET Nat, IsFiniteSet(S), S # {}
    PROVE  \E x \in S : \A y \in S : y <= x
<1> DEFINE Above(x) == {y \in S : y > x}
           sizes == {Cardinality(Above(x)) : x \in S}
<1>1. \A x \in S : IsFiniteSet(Above(x)) /\ Cardinality(Above(x)) \in Nat
  <2> SUFFICES ASSUME NEW x \in S
               PROVE  IsFiniteSet(Above(x)) /\ Cardinality(Above(x)) \in Nat
    OBVIOUS
  <2>1. IsFiniteSet(Above(x))
    BY FS_Subset
  <2> QED
    BY <2>1, FS_CardinalityType
<1>2. PICK n \in sizes : \A m \in sizes : ~(m < n)
  <2>1. sizes \subseteq Nat /\ sizes # {}
    BY <1>1
  <2>2. IsWellFoundedOn(OpToRel(<, Nat), Nat)
    BY NatLessThanWellFounded
  <2> HIDE DEF sizes
  <2>3. PICK n \in sizes : \A m \in sizes : ~(<<m, n>> \in OpToRel(<, Nat))
    BY <2>1, <2>2, WFMin
  <2> QED
    BY <2>1, <2>3 DEF OpToRel
<1>3. PICK x \in S : n = Cardinality(Above(x))
  BY <1>2
<1>4. ASSUME NEW y \in S, y > x
      PROVE  FALSE
  <2>1. /\ Above(y) \in SUBSET Above(x)
        /\ y \in Above(x) /\ y \notin Above(y)
    <3>1. \A z \in S : z \in Nat
      OBVIOUS
    <3>2. ASSUME NEW z \in S, z > y
          PROVE  z > x
      BY <1>4, <3>1, <3>2
    <3>3. y \in Nat /\ ~(y > y)
      BY <3>1
    <3> QED
      BY <1>4, <3>2, <3>3
  <2>2. /\ Cardinality(Above(y)) <= Cardinality(Above(x))
        /\ Cardinality(Above(x)) # Cardinality(Above(y))
    BY <1>1, <2>1, FS_Subset
  <2>3. Cardinality(Above(y)) < n
    BY <1>1, <1>3, <2>2
  <2>4. Cardinality(Above(y)) \in sizes
    OBVIOUS
  <2> QED
    BY <1>2, <2>3, <2>4
<1> QED
  BY <1>4

(* Accounts are locked in ascending order.                                 *)

Ordered ==
    \A w \in Workers : pc[w] = "accounts" => \A a \in Held(w), b \in Wanted(w) : a < b

LEMMA WantedType ==
    ASSUME Core, NEW w \in Workers, pc[w] = "accounts"
    PROVE  /\ Wanted(w) \subseteq Accounts
           /\ Held(w) \subseteq Accounts
           /\ Accounts \subseteq Nat
<1>1. Executable(cur[w]) => Parties(cur[w]) \subseteq Accounts
  BY PartiesType DEF Core, CallShapes, CallShape, Locked
<1> QED
  BY <1>1, AccountsAssumption DEF Wanted, Core, TypeOK, CallsOK

LEMMA OrderedStep ==
    ASSUME Core, Ordered, [Next]_vars
    PROVE  Ordered'
<1>1. ASSUME NEW v \in Workers, pc'[v] = pc[v], cur'[v] = cur[v], read'[v] = read[v]
      PROVE  pc'[v] = "accounts" => \A a \in Held(v)', b \in Wanted(v)' : a < b
  BY <1>1 DEF Ordered, Wanted, Held
<1>2. CASE UNCHANGED vars
  BY <1>1, <1>2 DEF vars, Ordered
<1>3. ASSUME NEW w \in Workers,
             pc'[w] = "accounts" => \A a \in Held(w)', b \in Wanted(w)' : a < b,
             \A v \in Workers : v # w => /\ pc'[v] = pc[v] /\ cur'[v] = cur[v]
                                         /\ read'[v] = read[v]
      PROVE  Ordered'
  BY <1>1, <1>3 DEF Ordered
<1>4. CallsOK /\ CallShapes
  BY DEF Core, TypeOK
<1>5. ASSUME NEW w \in Workers, LockAccount(w)
      PROVE  Ordered'
  <2>1. PICK a \in NextWanted(w) :
          read' = [read EXCEPT ![w] =
                    [b \in Held(w) \cup {a} |-> IF b = a THEN acct[a] ELSE read[w][b]]]
    BY <1>5 DEF LockAccount
  <2>2. pc[w] = "accounts" /\ UNCHANGED <<pc, cur>>
    BY <1>5 DEF LockAccount
  <2>3. Held(w)' = Held(w) \cup {a}
    BY <1>4, <2>1 DEF CallsOK, Held
  <2>4. Wanted(w)' = Wanted(w) \ {a}
    BY <2>2, <2>3 DEF Wanted
  <2>5. /\ a \in Wanted(w)
        /\ \A b \in Wanted(w) : a <= b
        /\ \A h \in Held(w), b \in Wanted(w) : h < b
    BY <2>1, <2>2 DEF NextWanted, Ordered
  <2>6. /\ Wanted(w) \subseteq Nat
        /\ Held(w) \subseteq Nat
    BY <2>2, WantedType
  <2>7. ASSUME NEW h \in Held(w)', NEW b \in Wanted(w)'
        PROVE  h < b
    <3>1. b \in Wanted(w) /\ b # a
      BY <2>4
    <3>2. CASE h \in Held(w)
      BY <2>5, <3>1, <3>2
    <3>3. CASE h = a
      <4>1. a <= b /\ a \in Nat /\ b \in Nat
        BY <2>5, <2>6, <3>1
      <4> QED
        BY <3>1, <3>3, <4>1
    <3> QED
      BY <2>3, <3>2, <3>3
  <2> QED
    BY <1>3, <1>4, <2>1, <2>2, <2>7 DEF CallsOK
<1>6. ASSUME NEW w \in Workers, FraudPassed(w)
      PROVE  Ordered'
  <2>1. Held(w)' = {}
    BY <1>4, <1>6 DEF FraudPassed, CallShapes, CallShape, Held
  <2> QED
    BY <1>3, <1>4, <1>6, <2>1 DEF FraudPassed, Goto, CallsOK
<1>7. ASSUME NEW w \in Workers,
             \/ \E t \in Ids : Call(w, t)
             \/ Take(w) \/ LockRow(w) \/ Mark(w) \/ Reject(w) \/ Approve(w)
      PROVE  Ordered'
  BY <1>3, <1>4, <1>7 DEF Call, Take, LockRow, Mark, Reject, MarkFailed, Approve, Goto,
     CallsOK
<1>8. ASSUME NEW w \in Workers, NEW r \in Ready, NEW o, Leave(w, r, o)
      PROVE  Ordered'
  <2>1. pc'[w] # "accounts"
    BY <1>4, <1>8 DEF Leave, CallsOK, Ready, Returned
  <2> QED
    BY <1>3, <1>4, <1>8, <2>1 DEF Leave, CallsOK
<1>9. ASSUME NEW w \in Workers, Finish(w) \/ Undo(w)
      PROVE  Ordered'
  BY <1>8, <1>9 DEF Finish, Undo, End
<1>10. ASSUME NEW k \in LockKeys, LateRollback(k)
       PROVE  Ordered'
  BY <1>1, <1>10 DEF LateRollback, Ordered
<1> QED
  BY <1>2, <1>5, <1>6, <1>7, <1>9, <1>10, CoreCases DEF Moves

-----------------------------------------------------------------------------

LEMMA NoCircle ==
    ASSUME Core, Ordered
    PROVE  NoCircularWait
<1> SUFFICES ASSUME NEW ws \in SUBSET Workers, ws # {},
                    \A w \in ws : \E v \in ws : Waits(w, v)
             PROVE  FALSE
  BY DEF NoCircularWait
<1> DEFINE wanted == {a \in Accounts : \E w \in ws : pc[w] = "accounts" /\ a \in NextWanted(w)}
<1>1. ASSUME NEW w \in ws, pc[w] = "accounts"
      PROVE  \E a \in wanted, v \in ws : a \in NextWanted(w) /\ acctLock[a] = v
  <2>1. PICK v \in ws : Waits(w, v)
    OBVIOUS
  <2>2. PICK a \in NextWanted(w) : acctLock[a] = v
    BY <1>1, <2>1 DEF Waits
  <2>3. a \in Accounts
    BY <1>1, <2>2, WantedType DEF NextWanted
  <2> QED
    BY <1>1, <2>2, <2>3
<1>2. ASSUME NEW v \in ws, pc[v] \in Locked
      PROVE  pc[v] = "accounts"
  BY <1>2 DEF Waits, Locked
<1>3. PICK w \in ws : pc[w] = "accounts"
  <2>1. PICK w \in ws, v \in ws : Waits(w, v)
    OBVIOUS
  <2>2. CASE pc[w] = "load"
    <3>1. cur[w] \in Txns /\ txnLock[cur[w]] = v
      BY <2>1, <2>2 DEF Waits
    <3>2. pc[v] \in Locked
      BY <3>1 DEF Core, LocksHeld
    <3> QED
      BY <1>2, <3>2
  <2> QED
    BY <2>1, <2>2 DEF Waits
<1>4. PICK a \in wanted : \A b \in wanted : b <= a
  <2>1. wanted \in SUBSET Nat /\ wanted \in SUBSET Accounts
    BY AccountsAssumption
  <2>2. IsFiniteSet(wanted)
    BY <2>1, FiniteAssumption, FS_Subset
  <2>3. wanted # {}
    BY <1>1, <1>3
  <2> HIDE DEF wanted
  <2> QED
    BY <2>1, <2>2, <2>3, Greatest
<1>5. PICK u \in ws : pc[u] = "accounts" /\ a \in NextWanted(u)
  OBVIOUS
<1>6. PICK v \in ws : acctLock[a] = v
  <2>1. PICK c \in wanted, v \in ws : c \in NextWanted(u) /\ acctLock[c] = v
    BY <1>1, <1>5
  <2>2. c = a
    <3>1. c <= a /\ a <= c
      BY <1>5, <2>1 DEF NextWanted
    <3>2. c \in Nat /\ a \in Nat
      BY AccountsAssumption
    <3> QED
      BY <3>1, <3>2
  <2> QED
    BY <2>1, <2>2
<1>7. a \in Held(v) /\ pc[v] = "accounts"
  <2>1. a \in Held(v)
    BY <1>6 DEF Core, LocksHeld
  <2> QED
    BY <1>2, <2>1 DEF Core, CallShapes, CallShape, Locked
<1>8. PICK b \in wanted : b \in NextWanted(v)
  BY <1>1, <1>7
<1>9. a < b
  BY <1>7, <1>8 DEF Ordered, NextWanted
<1>10. a \in Nat /\ b \in Nat
  BY AccountsAssumption
<1> QED
  BY <1>4, <1>9, <1>10

(* No circle of workers waits for each other's rows: whoever waits for an  *)
(* account holds smaller ones only (first_id and second_id of              *)
(* process_transfer), and whoever waits for a transaction holds no account.*)
THEOREM LocksNeverCircular == Spec => []NoCircularWait
<1>1. Init => Ordered
  BY DEF Init, Ordered
<1>2. Core /\ Ordered /\ [Next]_vars => Ordered'
  BY OrderedStep
<1>3. Core /\ Ordered => NoCircularWait
  BY NoCircle
<1> QED
  BY <1>1, <1>2, <1>3, CoreHolds, PTL DEF Spec

=============================================================================
