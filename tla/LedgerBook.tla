----------------------------- MODULE LedgerBook -----------------------------
(***************************************************************************)
(* What the transaction processor promises, with no workers, locks or      *)
(* database transactions: a PENDING transaction is decided once, in one    *)
(* step.  It either settles, which moves its whole amount and appends one  *)
(* entry to the ledger of each account it touches, or it fails and moves   *)
(* nothing.                                                                *)
(***************************************************************************)
EXTENDS Requests, Sequences

VARIABLES
    status,     \* status[t]: the visible status of t
    balance,    \* balance[a]: the visible balance of a
    book        \* book[a]: the transactions posted to a, oldest first

bookVars == <<status, balance, book>>

Init ==
    /\ status = [t \in Txns |-> "PENDING"]
    /\ balance = Opening
    /\ book = [a \in Accounts |-> <<>>]

Settle(t) ==
    /\ status[t] = "PENDING"
    /\ Executable(t)
    /\ ~Refused(t, balance)
    /\ \A a \in Parties(t) : After(t, a, balance[a]) <= MaxBalance
    /\ status' = [status EXCEPT ![t] = "SETTLED"]
    /\ balance' = [a \in Accounts |->
                     IF a \in Parties(t) THEN After(t, a, balance[a]) ELSE balance[a]]
    /\ book' = [a \in Accounts |->
                     IF a \in Parties(t) THEN Append(book[a], t) ELSE book[a]]

Fail(t) ==
    /\ status[t] = "PENDING"
    /\ status' = [status EXCEPT ![t] = "FAILED"]
    /\ UNCHANGED <<balance, book>>

Next == \E t \in Txns : Settle(t) \/ Fail(t)

Spec == Init /\ [][Next]_bookVars

=============================================================================
