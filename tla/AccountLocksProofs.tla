------------------------- MODULE AccountLocksProofs -------------------------
(***************************************************************************)
(* The account locks of the worker and of ingestion, for every set of      *)
(* workers and of requests being inserted.                                 *)
(***************************************************************************)
EXTENDS AccountLocks, ProcessorSafetyProofs

-----------------------------------------------------------------------------
(* The inserts only keep workers waiting: whatever the processor does      *)
(* beside them it could do alone.                                          *)

LEMMA LockStep ==
    ASSUME [LockNext]_lockVars
    PROVE  [Next]_vars
<1>1. ASSUME NEW w \in Workers, NEW t \in Ids, UnderShares(Call(w, t))
      PROVE  Next
  BY <1>1 DEF UnderShares, Next
<1>2. ASSUME NEW w \in Workers,
             UnderShares(Step(w) \/ Refuse(w) \/ CommitUnseen(w) \/ DbError(w) \/ Crash(w))
      PROVE  Next
  BY <1>2 DEF UnderShares, Next
<1>3. ASSUME NEW i \in Inserts, BeginInsert(i) \/ InsertStep(i) \/ AbortInsert(i)
      PROVE  UNCHANGED vars
  BY <1>3 DEF BeginInsert, InsertStep, ShareAccount, EndInsert, AbortInsert, CloseInsert
<1>4. ASSUME AbortVictim
      PROVE  [Next]_vars
  <2>1. PICK S \in Circles : \E x \in S :
                \/ x \in Workers /\ DbError(x)
                \/ x \in Inserts /\ AbortInsert(x)
    BY <1>4 DEF AbortVictim, DbError, Drop
  <2> QED
    BY <1>3, <2>1 DEF Next
<1>5. CASE UNCHANGED lockVars
  BY <1>5 DEF lockVars
<1>6. ASSUME NEW k \in LockKeys, UnderShares(LateRollback(k))
      PROVE  Next
  BY <1>6 DEF UnderShares, Next
<1> QED
  BY <1>1, <1>2, <1>3, <1>4, <1>5, <1>6 DEF LockNext

(* With the foreign key locks of ingestion in the database the processor   *)
(* still does what Processor says, so every theorem about it holds here.   *)
THEOREM LocksCarryOver == LockSpec => Spec
<1>1. LockInit => Init
  BY DEF LockInit
<1>2. [LockNext]_lockVars => [Next]_vars
  BY LockStep
<1> QED
  BY <1>1, <1>2, PTL DEF LockSpec, Spec

-----------------------------------------------------------------------------
(* What an insert has locked: its source account first.                    *)

ShareShape(i) ==
    /\ shares[i] \subseteq {From[i], To[i]} \ {None}
    /\ \A a \in shares[i] : a = From[i] \/ From[i] \in shares[i] \cup {None}

SharesOK == DOMAIN shares = Inserts /\ \A i \in Inserts : ShareShape(i)

(* An insert waits for its source account, or for its destination once it  *)
(* has the source.                                                         *)
LEMMA NextShareCases ==
    ASSUME NEW i \in Inserts, NEW a \in NextShare(i)
    PROVE  /\ a # None /\ a \notin shares[i]
           /\ \/ a = From[i]
              \/ a = To[i] /\ From[i] \in shares[i] \cup {None}
<1>1. CASE Due(i, From[i]) # {}
  <2>1. a \in Due(i, From[i])
    BY <1>1 DEF NextShare
  <2> QED
    BY <2>1 DEF Due
<1>2. CASE Due(i, From[i]) = {}
  <2>1. a \in Due(i, To[i])
    BY <1>2 DEF NextShare
  <2>2. From[i] \in shares[i] \cup {None}
    BY <1>2 DEF Due
  <2> QED
    BY <2>1, <2>2 DEF Due
<1> QED
  BY <1>1, <1>2

LEMMA NextShareType ==
    ASSUME NEW i \in Inserts
    PROVE  NextShare(i) \subseteq Accounts
<1> SUFFICES ASSUME NEW a \in NextShare(i)
             PROVE  a \in Accounts
  OBVIOUS
<1>1. a # None /\ a \in {From[i], To[i]}
  BY NextShareCases
<1>2. From[i] \in Accounts \cup {None} /\ To[i] \in Accounts \cup {None}
  BY InsertsAssumption
<1> QED
  BY <1>1, <1>2

LEMMA SharesStep ==
    ASSUME SharesOK, [LockNext]_lockVars
    PROVE  SharesOK'
<1>1. CASE UNCHANGED shares
  BY <1>1 DEF SharesOK, ShareShape
<1>2. ASSUME NEW i \in Inserts, ShareAccount(i)
      PROVE  SharesOK'
  <2>1. PICK a \in NextShare(i) : shares' = [shares EXCEPT ![i] = @ \cup {a}]
    BY <1>2 DEF ShareAccount
  <2>2. /\ shares'[i] = shares[i] \cup {a}
        /\ \A j \in Inserts : j # i => shares'[j] = shares[j]
        /\ DOMAIN shares' = Inserts
    BY <2>1 DEF SharesOK
  <2>3. ShareShape(i)'
    BY <2>2, NextShareCases DEF SharesOK, ShareShape
  <2> QED
    BY <2>2, <2>3 DEF SharesOK, ShareShape
<1>3. ASSUME NEW i \in Inserts, CloseInsert(i)
      PROVE  SharesOK'
  <2>1. /\ shares'[i] = {}
        /\ \A j \in Inserts : j # i => shares'[j] = shares[j]
        /\ DOMAIN shares' = Inserts
    BY <1>3 DEF CloseInsert, SharesOK
  <2> QED
    BY <2>1 DEF SharesOK, ShareShape
<1>4. CASE AbortVictim
  BY <1>1, <1>3, <1>4 DEF AbortVictim, AbortInsert
<1>5. ASSUME NEW i \in Inserts, BeginInsert(i) \/ InsertStep(i) \/ AbortInsert(i)
      PROVE  SharesOK'
  BY <1>1, <1>2, <1>3, <1>5 DEF BeginInsert, InsertStep, EndInsert, AbortInsert
<1> QED
  BY <1>1, <1>4, <1>5 DEF LockNext, UnderShares, lockVars

-----------------------------------------------------------------------------

LEMMA CirclesStep ==
    ASSUME Core, Ordered, SharesOK
    PROVE  CirclesDescend
<1> SUFFICES ASSUME NEW S \in SUBSET (Workers \cup Inserts), S # {},
                    \A x \in S : \E y \in S : Blocks(x, y)
             PROVE  \E i \in S \cap Inserts :
                        None \notin {From[i], To[i]} /\ From[i] > To[i]
  BY DEF CirclesDescend, Circles, Stuck, Waiting, Actors
<1> DEFINE awaited == {a \in Accounts :
                \E x \in S : \/ x \in Workers /\ pc[x] = "accounts" /\ a \in NextWanted(x)
                             \/ x \in Inserts /\ a \in NextShare(x)}
<1>1. /\ None \notin S
      /\ \A a \in Accounts : acctLock[a] \in S => acctLock[a] \in Workers
      /\ \A t \in Txns : txnLock[t] \in S => txnLock[t] \in Workers
  BY InsertsAssumption, NoneAssumption DEF Core, TypeOK, LocksOK, Owners
(* Who holds an account or a transaction and waits wants an account. *)
<1>2. ASSUME NEW v \in S, v \in Workers, pc[v] \in Locked
      PROVE  pc[v] = "accounts" /\ \E b \in awaited : b \in NextWanted(v)
  <2>1. PICK y \in S : Blocks(v, y)
    OBVIOUS
  <2>2. v \notin Inserts /\ pc[v] # "load"
    BY <1>2, InsertsAssumption DEF Locked
  <2>3. pc[v] = "accounts" /\ NextWanted(v) # {}
    BY <2>1, <2>2 DEF Blocks
  <2>4. NextWanted(v) \subseteq Accounts
    BY <1>2, <2>3, WantedType DEF NextWanted
  <2> QED
    BY <1>2, <2>3, <2>4
<1>3. awaited # {}
  <2>1. PICK x \in S, y \in S : Blocks(x, y)
    OBVIOUS
  <2>2. CASE x \in Workers /\ pc[x] = "accounts"
    BY <1>2, <2>2 DEF Locked
  <2>3. CASE x \in Workers /\ pc[x] = "load" /\ cur[x] \in Txns /\ txnLock[cur[x]] = y
    <3>1. y \in Workers
      BY <1>1, <2>3
    <3>2. pc[y] \in Locked
      BY <2>3, <3>1 DEF Core, LocksHeld
    <3> QED
      BY <1>2, <3>1, <3>2
  <2>4. CASE x \in Inserts /\ NextShare(x) # {}
    BY <2>4, NextShareType
  <2> QED
    BY <2>1, <2>2, <2>3, <2>4 DEF Blocks
<1>4. PICK a \in awaited : \A b \in awaited : b <= a
  <2>1. awaited \in SUBSET Nat /\ awaited \in SUBSET Accounts
    BY AccountsAssumption
  <2>2. IsFiniteSet(awaited)
    BY <2>1, FiniteAssumption, FS_Subset
  <2> HIDE DEF awaited
  <2> QED
    BY <1>3, <2>1, <2>2, Greatest
<1>5. Accounts \subseteq Nat
  BY AccountsAssumption
(* No worker of the circle holds it: it would want a greater one. *)
<1>6. ASSUME NEW v \in S, acctLock[a] = v
      PROVE  FALSE
  <2>1. v \in Workers
    BY <1>1, <1>6
  <2>2. a \in Held(v)
    BY <1>6, <2>1 DEF Core, LocksHeld
  <2>3. pc[v] \in Locked
    BY <2>1, <2>2 DEF Core, CallShapes, CallShape, Locked
  <2>4. pc[v] = "accounts"
    BY <1>2, <2>1, <2>3
  <2>5. PICK b \in awaited : b \in NextWanted(v)
    BY <1>2, <2>1, <2>3
  <2>6. a < b
    BY <2>1, <2>2, <2>4, <2>5 DEF Ordered, NextWanted
  <2> QED
    BY <1>4, <1>5, <2>6
(* So a worker waits for it and an insert has it. *)
<1>7. PICK i \in S : i \in Inserts /\ a \in shares[i]
  <2>1. PICK x \in S : \/ x \in Workers /\ pc[x] = "accounts" /\ a \in NextWanted(x)
                       \/ x \in Inserts /\ a \in NextShare(x)
    OBVIOUS
  <2>2. PICK y \in S : Blocks(x, y)
    OBVIOUS
  <2>3. CASE x \in Workers /\ pc[x] = "accounts" /\ a \in NextWanted(x)
    <3>1. \A b \in NextWanted(x) : b = a
      <4>1. NextWanted(x) \subseteq Nat
        BY <1>5, <2>3, WantedType DEF NextWanted
      <4>2. ASSUME NEW b \in NextWanted(x)
            PROVE  b <= a /\ a <= b
        BY <2>3 DEF NextWanted
      <4> QED
        BY <2>3, <4>1, <4>2
    <3>2. x \notin Inserts
      BY <2>3, InsertsAssumption
    <3> QED
      BY <1>6, <2>2, <2>3, <3>1, <3>2 DEF Blocks
  <2>4. CASE x \in Inserts /\ a \in NextShare(x)
    <3>1. x \notin Workers
      BY <2>4, InsertsAssumption
    <3>2. PICK b \in NextShare(x) : acctLock[b] = y
      BY <2>2, <3>1 DEF Blocks
    <3>3. b = a
      BY <2>4, <3>2 DEF NextShare, Due
    <3> QED
      BY <1>6, <3>2, <3>3
  <2> QED
    BY <2>1, <2>3, <2>4
<1>8. PICK b \in NextShare(i) : b \in awaited
  <2>1. i \notin Workers
    BY <1>7, InsertsAssumption
  <2>2. PICK y \in S : Blocks(i, y)
    OBVIOUS
  <2>3. NextShare(i) # {}
    BY <2>1, <2>2 DEF Blocks
  <2> QED
    BY <1>7, <2>3, NextShareType
<1>9. a = From[i] /\ b = To[i] /\ None \notin {a, b} /\ a # b
  <2>1. ShareShape(i)
    BY <1>7 DEF SharesOK
  <2>2. /\ b # None /\ b \notin shares[i]
        /\ \/ b = From[i]
           \/ b = To[i] /\ From[i] \in shares[i] \cup {None}
    BY <1>7, <1>8, NextShareCases
  <2> QED
    BY <1>7, <2>1, <2>2 DEF ShareShape
<1>10. From[i] > To[i]
  <2>1. b <= a /\ a \in Nat /\ b \in Nat
    BY <1>4, <1>5, <1>8
  <2> HIDE DEF awaited
  <2> QED
    BY <1>9, <2>1
<1> QED
  BY <1>7, <1>9, <1>10

-----------------------------------------------------------------------------

LEMMA LockInvariants == LockSpec => [](Core /\ Ordered /\ SharesOK)
<1>1. LockInit => Ordered /\ SharesOK
  BY DEF LockInit, Init, Ordered, SharesOK, ShareShape
<1>2. LockSpec => []Core
  BY LocksCarryOver, CoreHolds, PTL
<1>3. Core /\ Ordered /\ [LockNext]_lockVars => Ordered'
  BY LockStep, OrderedStep
<1>4. SharesOK /\ [LockNext]_lockVars => SharesOK'
  BY SharesStep
<1> QED
  BY <1>1, <1>2, <1>3, <1>4, PTL DEF LockSpec

(* Every circle of workers and inserts contains an insert with the larger  *)
(* account as its source: the order in which the worker locks (first_id,   *)
(* second_id) leaves only those requests to the deadlock detector.         *)
THEOREM OnlyDescendingCircles == LockSpec => []CirclesDescend
<1>1. Core /\ Ordered /\ SharesOK => CirclesDescend
  BY CirclesStep
<1> QED
  BY <1>1, LockInvariants, PTL

=============================================================================
