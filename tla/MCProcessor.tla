----------------------------- MODULE MCProcessor -----------------------------
(***************************************************************************)
(* Instances of Processor for TLC.  Every transaction is a record here and *)
(* the columns are read off it.                                            *)
(***************************************************************************)
EXTENDS ProcessorProperties, TLC

CONSTANTS t1, t2, t3, t4, t5, stray, usd

Request(kind, amount, source, dest) ==
    [kind |-> kind, amount |-> amount, source |-> source, dest |-> dest]

(* t1 and t2 are opposite transfers: t1 leaves enough for the fee t3, or   *)
(* the fee for t1, not both, and t2 is more than the balance column holds  *)
(* as long as neither has been.  t4 credits an inactive account, t5 is     *)
(* blocked by the fraud check.                                             *)
Requested == [t \in Txns |->
    CASE t = t1 -> Request("TRANSFER", 2, 1, 2)
      [] t = t2 -> Request("TRANSFER", 3, 2, 1)
      [] t = t3 -> Request("FEE", 2, 1, None)
      [] t = t4 -> Request("CREDIT", 1, None, 3)
      [] t = t5 -> Request("DEBIT", 5, 2, None)]

MCKind == [t \in Txns |-> Requested[t].kind]
MCAmount == [t \in Txns |-> Requested[t].amount]
MCSource == [t \in Txns |-> Requested[t].source]
MCDest == [t \in Txns |-> Requested[t].dest]
MCCurrency == [a \in Accounts |-> usd]
MCOpening == [a \in Accounts |-> IF a = 3 THEN 0 ELSE 3]

(* The two halves of a UUID are XORed into 64 bits, so ids can share a     *)
(* lock key: all but the transfers do here.                                *)
SharedKey == [t \in Ids |-> IF t \in {t1, t2} THEN t ELSE t3]

Symmetry == Permutations(Workers)

=============================================================================
