----------------------------- MODULE MCConsumer -----------------------------
(***************************************************************************)
(* Instances of Consumer for TLC.                                          *)
(***************************************************************************)
EXTENDS Consumer

CONSTANTS t1, t2, bad, p1

(* A transaction delivered twice, two messages no worker can process, and  *)
(* at last a message that no worker survives.                              *)
MCIncoming == [p \in Partitions |-> <<t1, t1, Malformed, Empty, bad>>]
TwoTransactions == [p \in Partitions |-> <<t1, t2>>]

MCLockKey == [t \in Ids |-> t]

=============================================================================
