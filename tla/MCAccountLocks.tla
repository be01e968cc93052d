---------------------------- MODULE MCAccountLocks ----------------------------
(***************************************************************************)
(* Instances of AccountLocks for TLC.                                      *)
(***************************************************************************)
EXTENDS AccountLocks

CONSTANTS t1, t2, usd, up, down

(* t1 and t2 are opposite transfers. *)
MCKind == [t \in Txns |-> "TRANSFER"]
MCAmount == [t \in Txns |-> 1]
MCSource == [t \in Txns |-> IF t = t1 THEN 1 ELSE 2]
MCDest == [t \in Txns |-> IF t = t1 THEN 2 ELSE 1]
MCCurrency == [a \in Accounts |-> usd]
MCOpening == [a \in Accounts |-> 2]
OwnKey == [t \in Ids |-> t]

(* A transfer with the order of the workers and one against it. *)
MCFrom == [i \in Inserts |-> IF i = up THEN 1 ELSE 2]
MCTo == [i \in Inserts |-> IF i = up THEN 2 ELSE 1]

=============================================================================
