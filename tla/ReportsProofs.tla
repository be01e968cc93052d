---------------------------- MODULE ReportsProofs ----------------------------
(***************************************************************************)
(* The reports, for every set of transactions, every limit and every       *)
(* length of the day.                                                      *)
(***************************************************************************)
EXTENDS Reports, FiniteSetTheorems, WellFoundedInduction, TLAPS

-----------------------------------------------------------------------------
(* The inductive invariant.                                                *)

Types ==
    /\ now \in 0 .. Horizon
    /\ state \in [Txns -> States]
    /\ submitted \in [Txns -> 0 .. now]
    /\ posted \in [Txns -> 0 .. now]
    /\ report \in Kinds
    /\ asOf \in (0 .. now) \cup {None}
    /\ last \in 0 .. now
    /\ met \subseteq Txns \X States
    /\ ctr \subseteq Txns
    /\ high \subseteq UNION {Entries(t) : t \in Txns}
    /\ cut \subseteq UNION {Entries(t) : t \in Txns}
    /\ daily.date \in -1 .. Horizon

(* A report is made at least once a day. *)
Daily == now - last <= Day

(* The window of the next report reaches back to the last one. *)
Met(t) == \E s \in Noted[report] : <<t, s>> \in met

NewIsInWindow ==
    \A t \in Txns :
        state[t] \in Noted[report] /\ ~Met(t) =>
            /\ report = "ctr" => submitted[t] >= last
            /\ report = "high" => posted[t] >= last

IInv ==
    /\ Types
    /\ Daily
    /\ NewIsInWindow
    /\ CtrMissesOnlyUndecided
    /\ HighValueMissesOnlyOpen

-----------------------------------------------------------------------------
(* The transactions and the clock.                                         *)

LEMMA InitIInv == Init => IInv
<1> SUFFICES ASSUME Init
             PROVE  IInv
  OBVIOUS
<1>1. Types
  BY HorizonAssumption DEF Init, Types, States, Kinds, NoSummary
<1>2. Daily
  BY DayAssumption DEF Init, Daily
<1>3. NewIsInWindow
  BY DEF Init, NewIsInWindow, Noted, Kinds
<1>4. CtrMissesOnlyUndecided /\ HighValueMissesOnlyOpen
  BY DEF Init, CtrMissesOnlyUndecided, HighValueMissesOnlyOpen
<1> QED
  BY <1>1, <1>2, <1>3, <1>4 DEF IInv

(* The reports made stay the same, and so does what they miss. *)
LEMMA MissedStays ==
    ASSUME IInv, UNCHANGED <<report, met, ctr, high, cut>>
    PROVE  CtrMissesOnlyUndecided' /\ HighValueMissesOnlyOpen'
  BY DEF IInv, CtrMissesOnlyUndecided, HighValueMissesOnlyOpen

LEMMA TickStep ==
    ASSUME IInv, Tick
    PROVE  IInv'
<1> USE DEF IInv
<1>1. /\ now < Horizon /\ now - last < Day /\ now' = now + 1
      /\ state' = state /\ submitted' = submitted /\ posted' = posted
      /\ report' = report /\ asOf' = asOf /\ last' = last /\ met' = met
      /\ ctr' = ctr /\ high' = high /\ cut' = cut /\ daily' = daily
  BY DEF Tick, txnVars, rowsReported
<1>2. now' \in 0 .. Horizon /\ 0 .. now \subseteq 0 .. now'
  BY <1>1, HorizonAssumption DEF Types
<1>3. Types'
  BY <1>1, <1>2 DEF Types
<1>4. Daily'
  BY <1>1, DayAssumption DEF Types, Daily
<1>5. NewIsInWindow'
  BY <1>1 DEF NewIsInWindow, Met
<1> QED
  BY <1>1, <1>3, <1>4, <1>5, MissedStays

LEMMA AskStep ==
    ASSUME IInv, Ask
    PROVE  IInv'
<1> USE DEF IInv
<1>1. /\ asOf' = now /\ now' = now
      /\ state' = state /\ submitted' = submitted /\ posted' = posted
      /\ report' = report /\ last' = last /\ met' = met
      /\ ctr' = ctr /\ high' = high /\ cut' = cut /\ daily' = daily
  BY DEF Ask, txnVars, rowsReported
<1>2. Types' /\ Daily'
  BY <1>1, HorizonAssumption DEF Types, Daily
<1>3. NewIsInWindow'
  BY <1>1 DEF NewIsInWindow, Met
<1> QED
  BY <1>1, <1>2, <1>3, MissedStays

(* A transaction enters the window with its timestamp, and what leaves it  *)
(* is no longer noted.                                                     *)
LEMMA TxnStep ==
    ASSUME IInv, NEW t \in Txns,
           BeginSubmit(t) \/ CommitSubmit(t) \/ BeginProcess(t) \/ Settle(t) \/ Discard(t)
    PROVE  IInv'
<1> USE DEF IInv
<1>1. /\ now' = now /\ report' = report /\ asOf' = asOf /\ last' = last /\ met' = met
      /\ ctr' = ctr /\ high' = high /\ cut' = cut /\ daily' = daily
  BY DEF BeginSubmit, CommitSubmit, BeginProcess, Settle, Discard, Move, rowsReported
<1>2. PICK s \in States :
        /\ state' = [state EXCEPT ![t] = s]
        /\ \/ /\ state[t] = "absent" /\ s = "submitting"
              /\ submitted' = [submitted EXCEPT ![t] = now] /\ posted' = posted
           \/ /\ state[t] = "submitting" /\ s = "pending"
              /\ submitted' = submitted /\ posted' = posted
           \/ /\ state[t] = "pending" /\ s = "processing"
              /\ submitted' = submitted /\ posted' = [posted EXCEPT ![t] = now]
           \/ /\ state[t] = "processing" /\ s = "settled"
              /\ submitted' = submitted /\ posted' = posted
           \/ /\ state[t] = "processing" /\ s \in {"failed", "pending"}
              /\ submitted' = submitted /\ posted' = [posted EXCEPT ![t] = 0]
  BY DEF BeginSubmit, CommitSubmit, BeginProcess, Settle, Discard, Move, States
<1>3. now \in 0 .. now /\ 0 \in 0 .. now
  BY HorizonAssumption DEF Types
<1>4. /\ state' \in [Txns -> States]
      /\ submitted' \in [Txns -> 0 .. now] /\ posted' \in [Txns -> 0 .. now]
  BY <1>2, <1>3 DEF Types
<1>5. Types' /\ Daily'
  BY <1>1, <1>4 DEF Types, Daily
<1>6. NewIsInWindow'
  <2> SUFFICES ASSUME NEW u \in Txns, state'[u] \in Noted[report], ~Met(u)
               PROVE  /\ report = "ctr" => submitted'[u] >= last
                      /\ report = "high" => posted'[u] >= last
    BY <1>1 DEF NewIsInWindow, Met
  <2>1. now >= last
    BY HorizonAssumption DEF Types
  <2>2. CASE u # t
    <3>1. state'[u] = state[u] /\ submitted'[u] = submitted[u] /\ posted'[u] = posted[u]
      BY <1>2, <2>2 DEF Types
    <3> QED
      BY <3>1 DEF NewIsInWindow
  <2>3. CASE u = t /\ report = "ctr"
    BY <1>2, <2>1, <2>3 DEF NewIsInWindow, Noted, Types
  <2>4. CASE u = t /\ report = "high"
    BY <1>2, <2>1, <2>4 DEF NewIsInWindow, Noted, Types
  <2> QED
    BY <2>2, <2>3, <2>4
<1> QED
  BY <1>1, <1>5, <1>6, MissedStays

-----------------------------------------------------------------------------
(* The reports.                                                            *)

(* What every report does: it notes what it meets, so nothing that is      *)
(* noted is new, and a new transaction has a timestamp in its window.      *)
LEMMA MadeStep ==
    ASSUME IInv, NEW kind \in Kinds, Made(kind)
    PROVE  /\ asOf \in 0 .. now /\ report = kind
           /\ UNCHANGED <<now, txnVars, report>>
           /\ asOf' = None /\ last' = now
           /\ met' \subseteq Txns \X States
           /\ Daily' /\ NewIsInWindow'
           /\ \A t \in Txns : \A s : <<t, s>> \in met' <=>
                 <<t, s>> \in met \/ (s = state[t] /\ s \in Noted[kind])
           /\ \A t \in Txns : state[t] \in Noted[kind] /\ ~Met(t) =>
                 /\ kind = "ctr" => submitted[t] >= asOf - Day
                 /\ kind = "high" => posted[t] >= asOf - Day
<1> USE DEF IInv
<1>1. /\ report = kind /\ asOf # None /\ asOf' = None /\ last' = now
      /\ met' = met \cup {<<t, state[t]>> : t \in {u \in Txns : state[u] \in Noted[kind]}}
      /\ now' = now /\ state' = state /\ submitted' = submitted /\ posted' = posted
      /\ report' = report
  BY DEF Made, txnVars
<1>2. asOf \in 0 .. now /\ now \in Nat /\ last \in 0 .. now
  BY <1>1, HorizonAssumption DEF Types
<1>3. met' \subseteq Txns \X States
  BY <1>1 DEF Types
<1>4. Daily'
  BY <1>1, <1>2, DayAssumption DEF Daily
<1>5. \A t \in Txns : \A s : <<t, s>> \in met' <=>
         <<t, s>> \in met \/ (s = state[t] /\ s \in Noted[kind])
  BY <1>1
<1>6. NewIsInWindow'
  <2> SUFFICES ASSUME NEW t \in Txns, state'[t] \in Noted[report'], ~Met(t)'
               PROVE  FALSE
    BY DEF NewIsInWindow
  <2> QED
    BY <1>1, <1>5 DEF Met
<1>7. ASSUME NEW t \in Txns, state[t] \in Noted[kind], ~Met(t)
      PROVE  /\ kind = "ctr" => submitted[t] >= asOf - Day
             /\ kind = "high" => posted[t] >= asOf - Day
  <2>1. asOf - Day <= last
    BY <1>2, DayAssumption DEF Daily
  <2>2. submitted[t] \in Nat /\ posted[t] \in Nat
    BY <1>2 DEF Types
  <2> QED
    BY <1>1, <1>2, <1>7, <2>1, <2>2, DayAssumption DEF NewIsInWindow
<1> QED
  BY <1>1, <1>2, <1>3, <1>4, <1>5, <1>6, <1>7 DEF txnVars

LEMMA CtrStep ==
    ASSUME IInv, CurrencyTransactionReport
    PROVE  IInv'
<1> USE DEF IInv
<1>1. /\ Made("ctr") /\ "ctr" \in Kinds
      /\ ctr' = ctr \cup CtrRows(asOf)
      /\ high' = high /\ cut' = cut /\ daily' = daily
  BY DEF CurrencyTransactionReport, Kinds
<1>2. /\ report = "ctr" /\ report' = report
      /\ now' = now /\ state' = state /\ submitted' = submitted /\ posted' = posted
      /\ asOf' = None /\ last' = now /\ met' \subseteq Txns \X States
      /\ Daily' /\ NewIsInWindow'
  BY <1>1, MadeStep DEF txnVars
<1>3. \A t \in Txns : \A s : <<t, s>> \in met' <=>
         <<t, s>> \in met \/ (s = state[t] /\ s \in Noted["ctr"])
  BY <1>1, MadeStep
<1>4. \A t \in Txns : state[t] \in Noted["ctr"] /\ ~Met(t) => submitted[t] >= asOf - Day
  BY <1>1, MadeStep
<1>5. Types'
  <2>1. ctr' \subseteq Txns
    BY <1>1 DEF Types, CtrRows
  <2>2. now \in 0 .. now
    BY HorizonAssumption DEF Types
  <2> QED
    BY <1>1, <1>2, <2>1, <2>2 DEF Types
<1>6. CtrMissesOnlyUndecided'
  <2> SUFFICES ASSUME NEW t \in Txns, Reportable(t), <<t, "settled">> \in met',
                      \A s \in {"submitting", "pending", "processing"} : <<t, s>> \notin met'
               PROVE  t \in ctr'
    BY DEF CtrMissesOnlyUndecided, Reportable
  <2>1. \A s \in {"submitting", "pending", "processing"} : <<t, s>> \notin met
    BY <1>3
  <2>2. CASE <<t, "settled">> \in met
    BY <1>1, <1>2, <2>1, <2>2 DEF CtrMissesOnlyUndecided
  <2>3. CASE <<t, "settled">> \notin met
    <3>1. state[t] = "settled" /\ state[t] \in Noted["ctr"]
      BY <1>3, <2>3
    <3>2. ~Met(t)
      BY <1>2, <2>1, <2>3 DEF Met, Noted
    <3>3. t \in CtrRows(asOf)
      BY <1>4, <3>1, <3>2 DEF CtrRows
    <3> QED
      BY <1>1, <3>3
  <2> QED
    BY <2>2, <2>3
<1>7. HighValueMissesOnlyOpen'
  BY <1>2 DEF HighValueMissesOnlyOpen
<1> QED
  BY <1>2, <1>5, <1>6, <1>7

LEMMA HighStep ==
    ASSUME IInv, HighValueTransactions
    PROVE  IInv'
<1> USE DEF IInv
<1>1. PICK found, rows :
        /\ found = HighValue(asOf) /\ rows \subseteq found
        /\ high' = high \cup rows
        /\ cut' = cut \cup (found \ rows)
        /\ Made("high") /\ "high" \in Kinds
        /\ ctr' = ctr /\ daily' = daily
  BY DEF HighValueTransactions, Kinds
<1>2. /\ report = "high" /\ report' = report
      /\ now' = now /\ state' = state /\ submitted' = submitted /\ posted' = posted
      /\ asOf' = None /\ last' = now /\ met' \subseteq Txns \X States
      /\ Daily' /\ NewIsInWindow'
  BY <1>1, MadeStep DEF txnVars
<1>3. \A t \in Txns : \A s : <<t, s>> \in met' <=>
         <<t, s>> \in met \/ (s = state[t] /\ s \in Noted["high"])
  BY <1>1, MadeStep
<1>4. \A t \in Txns : state[t] \in Noted["high"] /\ ~Met(t) => posted[t] >= asOf - Day
  BY <1>1, MadeStep
<1>5. Types'
  <2>1. found \subseteq UNION {Entries(t) : t \in Txns}
    BY <1>1 DEF HighValue
  <2>2. /\ high' \subseteq UNION {Entries(t) : t \in Txns}
        /\ cut' \subseteq UNION {Entries(t) : t \in Txns}
    BY <1>1, <2>1 DEF Types
  <2>3. now \in 0 .. now
    BY HorizonAssumption DEF Types
  <2> QED
    BY <1>1, <1>2, <2>2, <2>3 DEF Types, Entries
<1>6. HighValueMissesOnlyOpen'
  <2> SUFFICES ASSUME NEW t \in Txns, Amount[t] >= Threshold,
                      <<t, "settled">> \in met', <<t, "processing">> \notin met'
               PROVE  Entries(t) \subseteq high' \cup cut'
    BY DEF HighValueMissesOnlyOpen, Entries
  <2>1. <<t, "processing">> \notin met
    BY <1>3
  <2>2. high \cup cut \subseteq high' \cup cut' /\ found \subseteq high' \cup cut'
    BY <1>1
  <2>3. CASE <<t, "settled">> \in met
    BY <1>2, <2>1, <2>2, <2>3 DEF HighValueMissesOnlyOpen
  <2>4. CASE <<t, "settled">> \notin met
    <3>1. state[t] = "settled" /\ state[t] \in Noted["high"]
      BY <1>3, <2>4
    <3>2. ~Met(t)
      BY <1>2, <2>1, <2>4 DEF Met, Noted
    <3>3. posted[t] >= asOf - Day
      BY <1>4, <3>1, <3>2
    <3>4. Entries(t) \subseteq found
      BY <1>1, <3>1, <3>3 DEF HighValue
    <3> QED
      BY <2>2, <3>4
  <2> QED
    BY <2>3, <2>4
<1>7. CtrMissesOnlyUndecided'
  BY <1>2 DEF CtrMissesOnlyUndecided
<1> QED
  BY <1>2, <1>5, <1>6, <1>7

LEMMA DailyStep ==
    ASSUME IInv, DailySummary
    PROVE  IInv'
<1> USE DEF IInv
<1>1. /\ Made("daily") /\ "daily" \in Kinds
      /\ daily'.date = asOf \div Day
      /\ ctr' = ctr /\ high' = high /\ cut' = cut
  BY DEF DailySummary, Kinds
<1>2. /\ report = "daily" /\ report' = report /\ asOf \in 0 .. now
      /\ now' = now /\ state' = state /\ submitted' = submitted /\ posted' = posted
      /\ asOf' = None /\ last' = now /\ met' \subseteq Txns \X States
      /\ Daily' /\ NewIsInWindow'
  BY <1>1, MadeStep DEF txnVars
<1>3. asOf \div Day \in 0 .. Horizon
  <2>1. asOf \in Nat /\ asOf <= Horizon /\ Day \in Nat \ {0} /\ Horizon \in Nat
    BY <1>2, HorizonAssumption, DayAssumption DEF Types
  <2> QED
    BY <2>1
<1>4. Types'
  <2>1. now \in 0 .. now
    BY HorizonAssumption DEF Types
  <2> QED
    BY <1>1, <1>2, <1>3, <2>1 DEF Types
<1>5. CtrMissesOnlyUndecided' /\ HighValueMissesOnlyOpen'
  BY <1>2 DEF CtrMissesOnlyUndecided, HighValueMissesOnlyOpen
<1> QED
  BY <1>2, <1>4, <1>5

THEOREM Invariance == Spec => []IInv
<1>1. IInv /\ [Next]_vars => IInv'
  <2> SUFFICES ASSUME IInv, [Next]_vars
               PROVE  IInv'
    OBVIOUS
  <2>1. CASE UNCHANGED vars
    <3>1. /\ now' = now /\ state' = state /\ submitted' = submitted /\ posted' = posted
          /\ report' = report /\ asOf' = asOf /\ last' = last /\ met' = met
          /\ ctr' = ctr /\ high' = high /\ cut' = cut /\ daily' = daily
      BY <2>1 DEF vars, txnVars, rowsReported
    <3>2. Types' /\ Daily' /\ NewIsInWindow'
      BY <3>1 DEF IInv, Types, Daily, NewIsInWindow, Met
    <3> QED
      BY <3>1, <3>2, MissedStays DEF IInv
  <2> QED
    BY <2>1, TickStep, AskStep, TxnStep, CtrStep, HighStep, DailyStep DEF Next
<1> QED
  BY <1>1, InitIInv, PTL DEF Spec

-----------------------------------------------------------------------------
(* What follows from the invariant.                                        *)

(* Every timestamp a report compares is in the past, and the rows it gives *)
(* out are of transactions and their entries.                              *)
THEOREM TypesAreKept == Spec => []TypeOK
<1>1. IInv => TypeOK
  BY DEF IInv, Types, TypeOK
<1> QED
  BY <1>1, Invariance, PTL

(* Of the reportable transactions that a daily CTR has met settled, only   *)
(* one that an earlier CTR met undecided can be missing from all of them.  *)
THEOREM CtrIsCompleteBut == Spec => []CtrMissesOnlyUndecided
<1>1. IInv => CtrMissesOnlyUndecided
  BY DEF IInv
<1> QED
  BY <1>1, Invariance, PTL

(* Of the large ledger entries that a daily high-value report has met,     *)
(* only those cut by the limit or open during an earlier report can be     *)
(* missing from all of them.                                               *)
THEOREM HighValueIsCompleteBut == Spec => []HighValueMissesOnlyOpen
<1>1. IInv => HighValueMissesOnlyOpen
  BY DEF IInv
<1> QED
  BY <1>1, Invariance, PTL

-----------------------------------------------------------------------------
(* The volume of a set of transactions.                                    *)

(* The volume of a summary is a fold over a set, which is a function that  *)
(* solves an equation over the subsets of T.                               *)
Volume(T) == MapThenSumSet(LAMBDA t : Amount[t], T)

First(S) == CHOOSE t \in S : TRUE

Adds(T, sum) ==
    sum = [S \in SUBSET T |->
             IF S = {} THEN 0 ELSE Amount[First(S)] + sum[S \ {First(S)}]]

LEMMA VolumeIs ==
    ASSUME NEW T
    PROVE  Volume(T) = (CHOOSE sum : Adds(T, sum))[T]
  BY DEF Volume, Adds, First, MapThenSumSet, MapThenFoldSet

LEMMA FirstIn ==
    ASSUME NEW S, S # {}
    PROVE  First(S) \in S
  BY DEF First

(* Of some finite sets one has no other of them among its proper subsets:  *)
(* induction over finite sets.                                             *)
LEMMA Smallest ==
    ASSUME NEW F, F # {}, \A S \in F : IsFiniteSet(S)
    PROVE  \E S \in F : \A R \in F : R \subseteq S => R = S
<1> DEFINE sizes == {Cardinality(S) : S \in F}
<1>1. sizes \subseteq Nat /\ sizes # {}
  BY FS_CardinalityType
<1>2. IsWellFoundedOn(OpToRel(<, Nat), Nat)
  BY NatLessThanWellFounded
<1>3. PICK n \in sizes : \A m \in sizes : ~(m < n)
  <2> HIDE DEF sizes
  <2>1. PICK n \in sizes : \A m \in sizes : ~(<<m, n>> \in OpToRel(<, Nat))
    BY <1>1, <1>2, WFMin
  <2> QED
    BY <1>1, <2>1 DEF OpToRel
<1>4. PICK S \in F : Cardinality(S) = n
  BY <1>3
<1>5. ASSUME NEW R \in F, R \subseteq S, R # S
      PROVE  FALSE
  <2>1. /\ Cardinality(R) <= Cardinality(S)
        /\ Cardinality(R) # Cardinality(S)
        /\ Cardinality(R) \in Nat /\ Cardinality(S) \in Nat
    BY <1>5, FS_Subset, FS_CardinalityType
  <2>2. Cardinality(R) \in sizes
    OBVIOUS
  <2> HIDE DEF sizes
  <2> QED
    BY <1>3, <1>4, <2>1, <2>2
<1> QED
  BY <1>5

(* Solutions over different sets agree. *)
LEMMA SumsAgree ==
    ASSUME NEW T, NEW S \in SUBSET T, IsFiniteSet(S),
           NEW f, Adds(S, f), NEW g, Adds(T, g)
    PROVE  f[S] = g[S]
<1> DEFINE differ == {R \in SUBSET S : f[R] # g[R]}
<1> SUFFICES ASSUME differ # {}
             PROVE  FALSE
  OBVIOUS
<1>1. \A R \in differ : IsFiniteSet(R)
  BY FS_Subset
<1>2. PICK R \in differ : \A Q \in differ : Q \subseteq R => Q = R
  <2> HIDE DEF differ
  <2> QED
    BY <1>1, Smallest
<1>3. R # {}
  BY DEF Adds
<1>4. f[R \ {First(R)}] = g[R \ {First(R)}]
  BY <1>2, <1>3, FirstIn
<1>5. /\ f[R] = Amount[First(R)] + f[R \ {First(R)}]
      /\ g[R] = Amount[First(R)] + g[R \ {First(R)}]
  BY <1>3 DEF Adds
<1> QED
  BY <1>4, <1>5

LEMMA SumExists ==
    ASSUME NEW T, IsFiniteSet(T)
    PROVE  \E sum : Adds(T, sum)
<1> DEFINE without == {S \in SUBSET T : ~\E sum : Adds(S, sum)}
<1> SUFFICES ASSUME without # {}
             PROVE  FALSE
  OBVIOUS
<1>1. \A S \in without : IsFiniteSet(S)
  BY FS_Subset
<1>2. PICK S \in without : \A R \in without : R \subseteq S => R = S
  <2> HIDE DEF without
  <2> QED
    BY <1>1, Smallest
<1>3. ASSUME NEW R \in SUBSET S, R # S
      PROVE  /\ Adds(R, CHOOSE sum : Adds(R, sum))
             /\ Volume(R) = (CHOOSE sum : Adds(R, sum))[R]
  <2>1. R \in SUBSET T /\ R \notin without
    BY <1>2, <1>3
  <2>2. \E sum : Adds(R, sum)
    BY <2>1
  <2> QED
    BY <2>2, VolumeIs
<1>4. ASSUME NEW R \in SUBSET S, R # S
      PROVE  Volume(R) = IF R = {} THEN 0 ELSE Amount[First(R)] + Volume(R \ {First(R)})
  <2> DEFINE f == CHOOSE sum : Adds(R, sum)
  <2>1. Adds(R, f) /\ Volume(R) = f[R]
    BY <1>3, <1>4
  <2> HIDE DEF f
  <2>2. CASE R = {}
    BY <2>1, <2>2 DEF Adds
  <2>3. CASE R # {}
    <3> DEFINE Q == R \ {First(R)}
               g == CHOOSE sum : Adds(Q, sum)
    <3>1. Q \in SUBSET R /\ Q \in SUBSET S /\ Q # S /\ IsFiniteSet(Q)
      <4>1. First(R) \in R
        BY <2>3, FirstIn
      <4>2. IsFiniteSet(S)
        BY <1>1
      <4> QED
        BY <4>1, <4>2, FS_Subset
    <3>2. Adds(Q, g) /\ Volume(Q) = g[Q]
      BY <1>3, <3>1
    <3>3. f[R] = Amount[First(R)] + f[Q]
      BY <2>1, <2>3 DEF Adds
    <3> HIDE DEF Q, g
    <3>4. f[Q] = g[Q]
      BY <2>1, <3>1, <3>2, SumsAgree
    <3> QED
      BY <2>1, <2>3, <3>2, <3>3, <3>4 DEF Q
  <2> QED
    BY <2>2, <2>3
<1> DEFINE h == [R \in SUBSET S |->
                   IF R # S THEN Volume(R)
                   ELSE IF S = {} THEN 0 ELSE Amount[First(S)] + Volume(S \ {First(S)})]
<1>5. ASSUME NEW R \in SUBSET S, R # {}
      PROVE  h[R \ {First(R)}] = Volume(R \ {First(R)})
  <2>1. First(R) \in R
    BY <1>5, FirstIn
  <2>2. R \ {First(R)} \in SUBSET S /\ R \ {First(R)} # S
    BY <2>1
  <2> QED
    BY <2>2
<1>6. Adds(S, h)
  <2> SUFFICES ASSUME NEW R \in SUBSET S
               PROVE  h[R] = IF R = {} THEN 0 ELSE Amount[First(R)] + h[R \ {First(R)}]
    BY DEF Adds
  <2>1. CASE R # S
    BY <1>4, <1>5, <2>1
  <2>2. CASE R = S
    BY <1>5, <2>2
  <2> QED
    BY <2>1, <2>2
<1> QED
  BY <1>2, <1>6

(* Volume adds the amounts one by one. *)
LEMMA VolumeOf ==
    ASSUME NEW S, IsFiniteSet(S)
    PROVE  Volume(S) = IF S = {} THEN 0 ELSE Amount[First(S)] + Volume(S \ {First(S)})
<1> DEFINE f == CHOOSE sum : Adds(S, sum)
<1>1. Adds(S, f) /\ Volume(S) = f[S]
  BY SumExists, VolumeIs
<1> HIDE DEF f
<1>2. CASE S = {}
  BY <1>1, <1>2 DEF Adds
<1>3. CASE S # {}
  <2> DEFINE Q == S \ {First(S)}
             g == CHOOSE sum : Adds(Q, sum)
  <2>1. Q \in SUBSET S /\ IsFiniteSet(Q)
    BY FS_Subset
  <2>2. Adds(Q, g) /\ Volume(Q) = g[Q]
    BY <2>1, SumExists, VolumeIs
  <2>3. f[S] = Amount[First(S)] + f[Q]
    BY <1>1, <1>3 DEF Adds
  <2> HIDE DEF Q, g
  <2>4. f[Q] = g[Q]
    BY <1>1, <2>1, <2>2, SumsAgree
  <2> QED
    BY <1>1, <1>3, <2>2, <2>3, <2>4 DEF Q
<1> QED
  BY <1>2, <1>3

LEMMA VolumeType ==
    ASSUME NEW S \in SUBSET Txns, IsFiniteSet(S)
    PROVE  Volume(S) \in Nat
<1> DEFINE bad == {R \in SUBSET S : Volume(R) \notin Nat}
<1> SUFFICES ASSUME bad # {}
             PROVE  FALSE
  OBVIOUS
<1>1. \A R \in bad : IsFiniteSet(R)
  BY FS_Subset
<1>2. PICK R \in bad : \A Q \in bad : Q \subseteq R => Q = R
  <2> HIDE DEF bad
  <2> QED
    BY <1>1, Smallest
<1>3. R # {}
  BY <1>1, VolumeOf
<1>4. First(R) \in R /\ First(R) \in Txns
  BY <1>3, FirstIn
<1>5. Volume(R \ {First(R)}) \in Nat
  BY <1>2, <1>4
<1>6. Volume(R) = Amount[First(R)] + Volume(R \ {First(R)})
  BY <1>1, <1>3, VolumeOf
<1>7. Amount[First(R)] \in Nat
  BY <1>4, AmountAssumption
<1>8. Volume(R) \in Nat
  BY <1>5, <1>6, <1>7
<1> QED
  BY <1>8

(* ... in any order. *)
LEMMA VolumeSplits ==
    ASSUME NEW S \in SUBSET Txns, IsFiniteSet(S), NEW t \in S
    PROVE  Volume(S) = Amount[t] + Volume(S \ {t})
<1> DEFINE bad == {R \in SUBSET S : \E u \in R : Volume(R) # Amount[u] + Volume(R \ {u})}
<1> SUFFICES ASSUME bad # {}
             PROVE  FALSE
  OBVIOUS
<1>1. \A R \in bad : IsFiniteSet(R)
  BY FS_Subset
<1>2. PICK R \in bad : \A Q \in bad : Q \subseteq R => Q = R
  <2> HIDE DEF bad
  <2> QED
    BY <1>1, Smallest
<1>3. PICK u \in R : Volume(R) # Amount[u] + Volume(R \ {u})
  OBVIOUS
<1> DEFINE v == First(R)
<1>4. v \in R /\ Volume(R) = Amount[v] + Volume(R \ {v})
  BY <1>1, <1>3, FirstIn, VolumeOf
<1> HIDE DEF v
<1>5. u # v
  BY <1>3, <1>4
<1>6. /\ Volume(R \ {v}) = Amount[u] + Volume((R \ {v}) \ {u})
      /\ Volume(R \ {u}) = Amount[v] + Volume((R \ {u}) \ {v})
  <2>1. /\ R \ {v} \in SUBSET S /\ R \ {v} \notin bad /\ u \in R \ {v}
        /\ R \ {u} \in SUBSET S /\ R \ {u} \notin bad /\ v \in R \ {u}
    BY <1>2, <1>4, <1>5
  <2> QED
    BY <2>1
<1>7. (R \ {v}) \ {u} = (R \ {u}) \ {v}
  OBVIOUS
<1>8. /\ Amount[u] \in Nat /\ Amount[v] \in Nat
      /\ Volume((R \ {u}) \ {v}) \in Nat
  <2>1. (R \ {u}) \ {v} \in SUBSET Txns /\ IsFiniteSet((R \ {u}) \ {v})
    BY FS_Subset
  <2> QED
    BY <1>4, <2>1, AmountAssumption, VolumeType
<1>9. /\ Volume(R \ {v}) = Amount[u] + Volume((R \ {u}) \ {v})
      /\ Volume(R) = Amount[v] + (Amount[u] + Volume((R \ {u}) \ {v}))
      /\ Amount[u] + Volume(R \ {u}) = Amount[u] + (Amount[v] + Volume((R \ {u}) \ {v}))
  BY <1>4, <1>6, <1>7
<1>10. \A i, j, k \in Nat : i + (j + k) = j + (i + k)
  OBVIOUS
<1> HIDE DEF bad
<1> QED
  BY <1>3, <1>8, <1>9, <1>10

LEMMA VolumeGrows ==
    ASSUME NEW T \in SUBSET Txns, IsFiniteSet(T), NEW S \in SUBSET T
    PROVE  Volume(S) <= Volume(T)
<1> DEFINE bad == {R \in SUBSET T : \E Q \in SUBSET R : ~(Volume(Q) <= Volume(R))}
<1> SUFFICES ASSUME bad # {}
             PROVE  FALSE
  OBVIOUS
<1>1. \A R \in bad : IsFiniteSet(R)
  BY FS_Subset
<1>2. PICK R \in bad : \A Q \in bad : Q \subseteq R => Q = R
  <2> HIDE DEF bad
  <2> QED
    BY <1>1, Smallest
<1>3. PICK Q \in SUBSET R : ~(Volume(Q) <= Volume(R))
  OBVIOUS
<1>4. /\ R \in SUBSET Txns /\ IsFiniteSet(R)
      /\ \A P \in SUBSET R : P \in SUBSET Txns /\ IsFiniteSet(P) /\ Volume(P) \in Nat
  BY <1>1, FS_Subset, VolumeType
<1>5. PICK t \in R : t \notin Q
  BY <1>3, <1>4
<1>6. Volume(R) = Amount[t] + Volume(R \ {t})
  BY <1>4, VolumeSplits
<1>7. Volume(Q) <= Volume(R \ {t})
  <2>1. R \ {t} \in SUBSET T /\ R \ {t} \notin bad /\ Q \in SUBSET (R \ {t})
    BY <1>2, <1>5
  <2> QED
    BY <2>1
<1>8. Amount[t] \in Nat /\ Volume(R \ {t}) \in Nat /\ Volume(Q) \in Nat
  BY <1>4, AmountAssumption
<1> HIDE DEF bad
<1> QED
  BY <1>3, <1>6, <1>7, <1>8

-----------------------------------------------------------------------------
(* Daily summaries.                                                        *)

Counters == {"total", "volume", "settled", "failed"}

(* The measures of a day in a summary. *)
Measured(T) ==
    [total   |-> Cardinality(T),
     volume  |-> Volume(T),
     settled |-> Count(T, "settled"),
     failed  |-> Count(T, "failed")]

(* What the last summary says of its day is still there. *)
SummaryStands ==
    \A f \in Counters :
        /\ daily[f] \in Nat
        /\ daily[f] <= Measured(SubmittedOn(daily.date))[f]
LEMMA Measures ==
    ASSUME NEW U \in SUBSET Txns, NEW T \in SUBSET U
    PROVE  /\ Cardinality(T) \in Nat /\ Cardinality(U) \in Nat
           /\ Cardinality(T) <= Cardinality(U)
           /\ Volume(T) \in Nat /\ Volume(U) \in Nat
           /\ Volume(T) <= Volume(U)
<1>1. IsFiniteSet(U) /\ IsFiniteSet(T)
  BY TxnsAssumption, FS_Subset
<1> QED
  BY <1>1, FS_Subset, FS_CardinalityType, VolumeType, VolumeGrows

(* The transactions of a day only become more, and decisions stay. *)
LEMMA DayGrows ==
    ASSUME Types, [Next]_vars, NEW date
    PROVE  /\ SubmittedOn(date) \subseteq SubmittedOn(date)'
           /\ \A t \in Txns, s \in {"settled", "failed"} : state[t] = s => state'[t] = s
<1>1. CASE state' = state /\ submitted' = submitted
  BY <1>1 DEF SubmittedOn, Visible
<1>2. CASE \E t \in Txns :
             BeginSubmit(t) \/ CommitSubmit(t) \/ BeginProcess(t) \/ Settle(t) \/ Discard(t)
  <2>1. PICK t \in Txns, s \in States :
          /\ state' = [state EXCEPT ![t] = s]
          /\ \/ /\ state[t] = "absent" /\ s = "submitting"
                /\ submitted' = [submitted EXCEPT ![t] = now]
             \/ /\ state[t] = "submitting" /\ s = "pending"
                /\ submitted' = submitted
             \/ /\ state[t] = "pending" /\ s = "processing"
                /\ submitted' = submitted
             \/ /\ state[t] = "processing" /\ s \in {"settled", "failed", "pending"}
                /\ submitted' = submitted
    BY <1>2 DEF BeginSubmit, CommitSubmit, BeginProcess, Settle, Discard, Move, States
  <2>2. \A u \in Txns : u # t => state'[u] = state[u] /\ submitted'[u] = submitted[u]
    BY <2>1 DEF Types
  <2>3. /\ state'[t] = s
        /\ s = "submitting" \/ submitted'[t] = submitted[t]
    BY <2>1 DEF Types
  <2>4. \A u \in Txns : u \in SubmittedOn(date) => u \in SubmittedOn(date)'
    BY <2>1, <2>2, <2>3 DEF SubmittedOn, Visible
  <2>5. SubmittedOn(date) \subseteq Txns
    BY DEF SubmittedOn, Visible
  <2> QED
    BY <2>1, <2>2, <2>4, <2>5
<1> QED
  BY <1>1, <1>2 DEF Next, vars, txnVars, Tick, Ask, CurrencyTransactionReport,
     HighValueTransactions, DailySummary, Made

LEMMA MeasuredType ==
    ASSUME NEW date, NEW f \in Counters
    PROVE  Measured(SubmittedOn(date))[f] \in Nat
<1> DEFINE T == SubmittedOn(date)
<1>1. \A s : {t \in T : state[t] = s} \in SUBSET Txns /\ T \in SUBSET Txns
  BY DEF SubmittedOn, Visible
<1>2. Count(T, "settled") \in Nat /\ Count(T, "failed") \in Nat
  BY <1>1, Measures DEF Count
<1> HIDE DEF T
<1>3. Cardinality(T) \in Nat /\ Volume(T) \in Nat
  BY <1>1, Measures
<1> QED
  BY <1>2, <1>3 DEF Measured, Counters, T

LEMMA MeasuredGrows ==
    ASSUME Types, [Next]_vars, NEW date, NEW f \in Counters
    PROVE  /\ Measured(SubmittedOn(date))[f]' \in Nat
           /\ Measured(SubmittedOn(date))[f] <= Measured(SubmittedOn(date))[f]'
<1>1. PICK T, U : T = SubmittedOn(date) /\ U = SubmittedOn(date)'
  OBVIOUS
<1>2. T \in SUBSET U /\ U \in SUBSET Txns
  <2>1. SubmittedOn(date) \subseteq SubmittedOn(date)'
    BY DayGrows
  <2>2. SubmittedOn(date)' \subseteq Txns
    BY DEF SubmittedOn, Visible
  <2> QED
    BY <1>1, <2>1, <2>2
<1>3. /\ Cardinality(U) \in Nat /\ Volume(U) \in Nat
      /\ Cardinality(T) <= Cardinality(U) /\ Volume(T) <= Volume(U)
  BY <1>2, Measures
<1>4. ASSUME NEW s \in {"settled", "failed"}
      PROVE  Count(U, s)' \in Nat /\ Count(T, s) <= Count(U, s)'
  <2>1. {t \in T : state[t] = s} \in SUBSET {t \in U : state'[t] = s}
    BY <1>2, DayGrows
  <2>2. {t \in U : state'[t] = s} \in SUBSET Txns
    BY <1>2
  <2> QED
    BY <2>1, <2>2, Measures DEF Count
<1> QED
  BY <1>1, <1>3, <1>4 DEF Measured, Counters

LEMMA SummaryStep ==
    ASSUME IInv, SummaryStands, [Next]_vars
    PROVE  /\ SummaryStands'
           /\ daily'.date = daily.date => \A f \in Counters : daily'[f] >= daily[f]
<1>1. CASE daily' = daily
  <2>1. PICK d : d = daily.date
    OBVIOUS
  <2>2. ASSUME NEW f \in Counters
        PROVE  /\ daily[f] \in Nat
               /\ daily[f] <= Measured(SubmittedOn(d))[f]'
    <3>1. daily[f] \in Nat /\ daily[f] <= Measured(SubmittedOn(d))[f]
      BY <2>1 DEF SummaryStands
    <3>2. /\ Measured(SubmittedOn(d))[f]' \in Nat
          /\ Measured(SubmittedOn(d))[f] <= Measured(SubmittedOn(d))[f]'
      BY MeasuredGrows DEF IInv
    <3>3. Measured(SubmittedOn(d))[f] \in Nat
      BY MeasuredType
    <3> QED
      BY <3>1, <3>2, <3>3
  <2> QED
    BY <1>1, <2>1, <2>2 DEF SummaryStands
<1>2. CASE DailySummary
  <2>1. PICK d : d = asOf \div Day
    OBVIOUS
  <2>2. /\ daily'.date = d
        /\ \A f \in Counters : daily'[f] = Measured(SubmittedOn(d))[f]
    BY <1>2, <2>1 DEF DailySummary, Measured, Counters, Volume
  <2>3. Measured(SubmittedOn(d))' = Measured(SubmittedOn(d))
    BY <1>2 DEF DailySummary, Made, txnVars, Measured, SubmittedOn, Visible, Count
  <2>4. \A f \in Counters : Measured(SubmittedOn(d))[f] \in Nat
    BY MeasuredType
  <2>5. SummaryStands'
    BY <2>2, <2>3, <2>4 DEF SummaryStands
  <2>6. ASSUME daily'.date = daily.date, NEW f \in Counters
        PROVE  daily'[f] >= daily[f]
    <3>1. daily[f] \in Nat /\ daily[f] <= Measured(SubmittedOn(d))[f]
      BY <2>2, <2>6 DEF SummaryStands
    <3> QED
      BY <2>2, <2>4, <3>1
  <2> QED
    BY <2>5, <2>6
<1> QED
  BY <1>1, <1>2 DEF Next, vars, txnVars, rowsReported, Tick, BeginSubmit, CommitSubmit,
     BeginProcess, Settle, Discard, Move, Ask, CurrencyTransactionReport,
     HighValueTransactions

(* A later summary of the same day takes nothing back: the transactions    *)
(* of a day only become more, and a decision stays (DailySummary's query   *)
(* by submitted_at, made while transactions are still being decided).      *)
THEOREM SummariesOnlyGrow == Spec => SummariesGrow
<1>1. Init => SummaryStands
  <2> SUFFICES ASSUME Init, NEW f \in Counters
               PROVE  daily[f] \in Nat /\ daily[f] <= Measured(SubmittedOn(daily.date))[f]
    BY DEF SummaryStands
  <2>1. daily[f] = 0
    BY DEF Init, NoSummary, Counters
  <2>2. Measured(SubmittedOn(daily.date))[f] \in Nat
    BY MeasuredType
  <2> QED
    BY <2>1, <2>2
<1>2. IInv /\ SummaryStands /\ [Next]_vars => SummaryStands'
  BY SummaryStep
<1>3. IInv /\ SummaryStands /\ [Next]_vars =>
        (daily'.date = daily.date =>
           \A f \in {"total", "volume", "settled", "failed"} : daily'[f] >= daily[f])
  BY SummaryStep DEF Counters
<1> QED
  BY <1>1, <1>2, <1>3, Invariance, PTL DEF Spec, SummariesGrow

=============================================================================
