------------------------------ MODULE MCPlatform ------------------------------
(***************************************************************************)
(* Instances of Platform for TLC.                                          *)
(***************************************************************************)
EXTENDS Platform

CONSTANTS p1

NoProducers == [p \in Partitions |-> <<>>]
OwnKey == [t \in Ids |-> t]
OneTarget == [t \in Txns |-> p1]

=============================================================================
