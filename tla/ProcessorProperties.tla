------------------------- MODULE ProcessorProperties -------------------------
(***************************************************************************)
(* What must be true of the transaction processor.                         *)
(***************************************************************************)
EXTENDS Processor

(* Type invariant.  PROCESSING is never visible: it is written and         *)
(* overwritten within one database transaction.                            *)
TablesOK ==
    /\ txn \in [Txns -> TxnRow]
    /\ \A t \in Txns : txn[t].status \in {"PENDING", "SETTLED", "FAILED"}
    /\ acct \in [Accounts -> AcctRow]
    /\ ledger \in [Accounts -> Seq(Entry)]
    /\ audit \in [Txns -> Seq({"SETTLED", "FAILED"})]
Owners == Workers \cup LockKeys \cup {None}
LocksOK ==
    /\ advisory \in [LockKeys -> Owners]
    /\ txnLock \in [Txns -> Owners]
    /\ acctLock \in [Accounts -> Owners]
CallsOK ==
    /\ pc \in [Workers -> Ready \cup Open]
    /\ cur \in [Workers -> Ids \cup {None}]
    /\ row \in [Workers -> TxnRow]
    /\ DOMAIN read = Workers
    /\ \A w \in Workers : /\ Held(w) \subseteq Accounts
                          /\ read[w] \in [Held(w) -> AcctRow]
TypeOK == TablesOK /\ LocksOK /\ CallsOK

Settled(t)  == txn[t].status = "SETTLED"
Terminal(t) == txn[t].status \in {"SETTLED", "FAILED"}

(* The entries of a are one for each settled transaction that touches it.  *)
PostedTo(a) ==
    /\ \A i, j \in DOMAIN ledger[a] : ledger[a][i].txn = ledger[a][j].txn => i = j
    /\ \A t \in Txns : (\E i \in DOMAIN ledger[a] : ledger[a][i].txn = t)
                         <=> Settled(t) /\ a \in Parties(t)
    /\ \A i \in DOMAIN ledger[a] :
          LET e == ledger[a][i] IN
          /\ e.amount = Amount[e.txn]
          /\ e.type = IF a \in Debited(e.txn) THEN "DEBIT" ELSE "CREDIT"

(* However often a transaction is delivered, whoever processes it and      *)
(* whenever a worker dies, it has exactly one entry per account it touches *)
(* once it is SETTLED, for its amount and on the right side, and none      *)
(* before or otherwise (processor.rs, invariants 1, 3 and 7).              *)
PostedOnce == \A a \in Accounts : PostedTo(a)

(* The balance before the first entry is the opening balance. *)
Chained(a) ==
    LET balanceAfter(i) == IF i = 0 THEN Opening[a] ELSE ledger[a][i].running
        n == Len(ledger[a])
    IN  /\ \A i \in 1 .. n :
              /\ ledger[a][i].seq = i
              /\ ledger[a][i].running = After(ledger[a][i].txn, a, balanceAfter(i - 1))
        /\ acct[a].balance = balanceAfter(n)

(* The entries of an account are numbered without gaps, each               *)
(* running_balance follows from the one before, and the last one is the    *)
(* balance (write_ledger_entry; the unread rows_affected of the transfer's *)
(* UPDATEs).                                                               *)
LedgerChain == \A a \in Accounts : Chained(a)

(* The sum of the reconciliation query: credits less debits in the ledger. *)
LedgerBalance(a) ==
    LET sum[n \in 0 .. Len(ledger[a])] ==
            IF n = 0 THEN 0
            ELSE LET e == ledger[a][n]
                 IN  IF e.type = "CREDIT" THEN sum[n - 1] + e.amount
                                          ELSE sum[n - 1] - e.amount
    IN  sum[Len(ledger[a])]

(* verify_account_balance reports a difference exactly for the accounts    *)
(* that were given a balance without an entry when they were created       *)
(* (seed.sql; the API opens accounts with 0), and always the opening       *)
(* balance: the worker never adds to it, whatever fails.                   *)
Reconciled ==
    \A a \in Accounts : acct[a].balance - LedgerBalance(a) = Opening[a]

(* The business rules and the row locks alone keep every balance in range: *)
(* the CHECK (balance >= 0) of the schema is never what stops an overdraft.*)
Solvent == \A a \in Accounts : acct[a].balance \in 0 .. MaxBalance

(* A transaction gets one audit record when it is decided, which says how, *)
(* and no other from the worker.                                           *)
AuditedOnce ==
    \A t \in Txns :
        audit[t] = IF Terminal(t) THEN <<txn[t].status>> ELSE <<>>

(* What a call has read under its locks is still what is committed, so     *)
(* the balances it computes, the version checks whose result it ignores    *)
(* and MAX(sequence_num) + 1 are all right when it commits.                *)
ReadsCurrent ==
    \A w \in Workers :
        /\ \A a \in Held(w) : read[w][a] = acct[a]
        /\ pc[w] = "mark" => row[w] = txn[cur[w]]

(* Row locks never make workers wait for each other in a circle, also for  *)
(* transfers in opposite directions (process_transfer's lock order).       *)
Waits(w, v) ==
    \/ /\ pc[w] = "load" /\ cur[w] \in Txns
       /\ txnLock[cur[w]] = v
    \/ /\ pc[w] = "accounts"
       /\ \E a \in NextWanted(w) : acctLock[a] = v
NoCircularWait ==
    \A ws \in (SUBSET Workers) \ {{}} :
        \E w \in ws : \A v \in ws : ~Waits(w, v)

(* A decided transaction is never changed again, by replays either. *)
TerminalIsFinal ==
    [][\A t \in Txns : Terminal(t) => txn'[t] = txn[t] /\ audit'[t] = audit[t]]_vars

(* What is true when a call of w returns. *)
ReturnMeans(w) ==
    /\ pc'[w] = "ok" =>
         \/ \E t \in Txns : t = cur[w] /\ Settled(t)'
         \/ advisory[LockKey[cur[w]]] \notin {w, None}
    /\ pc'[w] = "retryable" => UNCHANGED tables

(* What the consumer may conclude from a return value: after Ok the        *)
(* transaction is settled or another database transaction, the call of     *)
(* which may be over, still holds its lock key; after a retryable error    *)
(* nothing has changed.                                                    *)
ReturnsMean == [][\A w \in Workers : pc[w] \in Open => ReturnMeans(w)]_vars

(* The processor implements the atomic book of LedgerBook. *)
Book == INSTANCE LedgerBook WITH
    status  <- [t \in Txns |-> txn[t].status],
    balance <- [a \in Accounts |-> acct[a].balance],
    book    <- [a \in Accounts |-> [i \in DOMAIN ledger[a] |-> ledger[a][i].txn]]
BookSpec == Book!Spec

CallState(w) ==
    [at |-> CASE pc[w] \in Ready -> pc[w]
              [] pc[w] = "lock" -> "trying"
              [] OTHER -> "holding",
     id |-> cur[w]]

(* The processor implements the call that Consumer makes. *)
Caller == INSTANCE Settlement WITH
    status <- [t \in Txns |-> txn[t].status],
    holder <- advisory,
    call   <- [w \in Workers |-> CallState(w)]
CallSpec == Caller!CallSpec

(* Every call returns: no lock wait lasts forever.  (FairSpec) *)
CallsReturn == \A w \in Workers : pc[w] \in Open ~> pc[w] \in Ready

=============================================================================
