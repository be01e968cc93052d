----------------------------- MODULE AccountLocks -----------------------------
(***************************************************************************)
(* The account rows as the worker and the ingestion service lock them.     *)
(*                                                                         *)
(* INSERT INTO transactions takes FOR KEY SHARE on the source account and  *)
(* then on the destination account (its foreign keys), which conflicts     *)
(* with the worker's FOR UPDATE.  Postgres ends a circular wait by         *)
(* aborting a transaction of the circle.                                   *)
(*                                                                         *)
(* A step here is a step of Processor or leaves its variables alone.       *)
(***************************************************************************)
EXTENDS ProcessorProperties

CONSTANTS
    Inserts,    \* the requests being inserted
    From, To    \* From[i], To[i]: source_account_id and dest_account_id of i

ASSUME InsertsAssumption ==
    /\ Inserts \cap (Workers \cup LockKeys \cup {None}) = {}
    /\ From \in [Inserts -> Accounts \cup {None}]
    /\ To \in [Inserts -> Accounts \cup {None}]

VARIABLES
    ins,        \* ins[i]: how far the insert of i is
    shares      \* shares[i]: the accounts i has locked FOR KEY SHARE

lockVars == <<vars, ins, shares>>

Shared == UNION {shares[i] : i \in Inserts}

(* The account i locks next: the foreign keys are checked in the order of  *)
(* their columns.                                                          *)
Due(i, a) == {a} \ (shares[i] \cup {None})
NextShare(i) ==
    CASE ins[i] # "open"      -> {}
      [] Due(i, From[i]) # {} -> Due(i, From[i])
      [] OTHER                -> Due(i, To[i])

LockInit ==
    /\ Init
    /\ ins = [i \in Inserts |-> "new"]
    /\ shares = [i \in Inserts |-> {}]

BeginInsert(i) ==
    /\ ins[i] = "new"
    /\ ins' = [ins EXCEPT ![i] = "open"]
    /\ UNCHANGED <<vars, shares>>

(* FOR KEY SHARE waits for FOR UPDATE only. *)
ShareAccount(i) ==
    /\ \E a \in NextShare(i) :
         /\ acctLock[a] = None
         /\ shares' = [shares EXCEPT ![i] = @ \cup {a}]
    /\ UNCHANGED <<vars, ins>>

(* Mutant: the share locks outlive the database transaction. *)
CloseInsertKeepsShares(i) ==
    /\ ins' = [ins EXCEPT ![i] = "closed"]
    /\ UNCHANGED <<vars, shares>>

CloseInsert(i) ==
    /\ ins' = [ins EXCEPT ![i] = "closed"]
    /\ shares' = [shares EXCEPT ![i] = {}]
    /\ UNCHANGED vars

(* Both foreign keys are fine; the commit or the rollback follows. *)
EndInsert(i) == ins[i] = "open" /\ NextShare(i) = {} /\ CloseInsert(i)

AbortInsert(i) == ins[i] = "open" /\ CloseInsert(i)

(* A step of Processor, which takes no account that is locked FOR KEY SHARE. *)
UnderShares(step) ==
    /\ step
    /\ \A a \in Shared : acctLock'[a] # None => acctLock[a] # None
    /\ UNCHANGED <<ins, shares>>

-----------------------------------------------------------------------------

Blocks(x, y) ==
    \/ /\ x \in Workers /\ pc[x] = "accounts"
       /\ \/ y \in Workers /\ \E a \in NextWanted(x) : acctLock[a] = y
          \/ y \in Inserts /\ NextWanted(x) \cap shares[y] # {}
    \/ /\ x \in Workers /\ pc[x] = "load" /\ cur[x] \in Txns
       /\ txnLock[cur[x]] = y
    \/ /\ x \in Inserts
       /\ \E a \in NextShare(x) : acctLock[a] = y

(* The sets in which everybody waits for a member, and the smallest ones.  *)
Actors  == Workers \cup Inserts
Waiting == {x \in Actors : \E y \in Actors : Blocks(x, y)}
Stuck   == {S \in SUBSET Waiting : S # {} /\ \A x \in S : \E y \in S : Blocks(x, y)}
Circles == {S \in Stuck : \A R \in Stuck : R \subseteq S => R = S}

(* The deadlock detector: an aborted worker's call returns a database      *)
(* error, which is not retryable, and an aborted insert answers 500.       *)
AbortVictim ==
    \E S \in Circles : \E x \in S :
        \/ x \in Workers /\ pc[x] \in Open /\ Rollback(x, "permanent") /\ UNCHANGED <<ins, shares>>
        \/ x \in Inserts /\ AbortInsert(x)

InsertStep(i) == ShareAccount(i) \/ EndInsert(i)

LockNext ==
    \/ \E w \in Workers :
         \/ \E t \in Ids : UnderShares(Call(w, t))
         \/ UnderShares(Step(w) \/ Refuse(w) \/ CommitUnseen(w) \/ DbError(w) \/ Crash(w))
    \/ \E k \in LockKeys : UnderShares(LateRollback(k))
    \/ \E i \in Inserts : BeginInsert(i) \/ InsertStep(i) \/ AbortInsert(i)
    \/ AbortVictim

LockSpec == LockInit /\ [][LockNext]_lockVars

(* As in Processor; the database also runs the inserts and, when it finds  *)
(* a circle, aborts a victim, whose locks it releases at once.             *)
LockFairSpec ==
    /\ LockSpec
    /\ \A w \in Workers : SF_lockVars(UnderShares(Step(w)))
    /\ \A k \in LockKeys : WF_lockVars(UnderShares(LateRollback(k)))
    /\ \A i \in Inserts : SF_lockVars(InsertStep(i))
    /\ WF_lockVars(AbortVictim)

-----------------------------------------------------------------------------

(* Workers and inserts wait for each other in a circle only if an insert   *)
(* of the circle locks its accounts against the order of the workers, the  *)
(* larger id first.                                                        *)
CirclesDescend ==
    \A S \in Circles :
        \E i \in S \cap Inserts : None \notin {From[i], To[i]} /\ From[i] > To[i]

(* Every insert ends, also one that waits for a worker.  (LockFairSpec) *)
InsertsEnd == \A i \in Inserts : ins[i] = "open" ~> ins[i] = "closed"

=============================================================================
