---------------------------- MODULE MCOutboxRelay ----------------------------
(***************************************************************************)
(* Instances of OutboxRelay for TLC.                                       *)
(***************************************************************************)
EXTENDS OutboxRelay

CONSTANTS a, b

(* The source account of each event: events 1 and 2 are of one account. *)
MCKey == [e \in Events |-> IF e = 3 THEN b ELSE a]

=============================================================================
