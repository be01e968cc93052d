------------------------------ MODULE MCReports ------------------------------
(***************************************************************************)
(* Instances of Reports for TLC.                                           *)
(***************************************************************************)
EXTENDS Reports

CONSTANTS t1, t2

(* A transfer that all reports are about, and a fee that is internal. *)
MCKind == [t \in Txns |-> IF t = t1 THEN "TRANSFER" ELSE "FEE"]
MCCurrency == [t \in Txns |-> "USD"]
MCAmount == [t \in Txns |-> IF t = t1 THEN 2 ELSE 3]

=============================================================================
