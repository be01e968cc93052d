------------------------------- MODULE Reports -------------------------------
(***************************************************************************)
(* The reporting service: what its three reports read while transactions   *)
(* are submitted and settled.                                              *)
(*                                                                         *)
(* Time is in ticks.  submitted_at and posted_at are the time at which the *)
(* database transaction that wrote them began (NOW()); the rows appear     *)
(* when it commits.  Every report is made at least once a day.             *)
(***************************************************************************)
EXTENDS Integers, FiniteSets, FiniteSetsExt

CONSTANTS
    Txns,
    Kind, Currency, Amount,     \* columns of transaction t
    Threshold,                  \* 10 000
    Limit,                      \* LIMIT 1000 of the high-value report
    Day,                        \* ticks in a day
    Horizon,                    \* bound on the clock
    None

ASSUME DayAssumption == Day \in Nat \ {0} /\ Limit \in Nat
ASSUME HorizonAssumption == Horizon \in Nat
ASSUME TxnsAssumption == IsFiniteSet(Txns)
ASSUME AmountAssumption == Amount \in [Txns -> Nat] /\ Threshold \in Nat

VARIABLES
    now,
    state,      \* state[t]: how far t is
    submitted,  \* submitted[t]: submitted_at
    posted,     \* posted[t]: posted_at of its ledger entries
    report,     \* the report this behaviour follows, for they share no state
    asOf,       \* the time a request for it has read, or None
    last,       \* when it was last made
    met,        \* the transactions it has met, and in which state
    ctr,        \* all rows of all CTR reports
    high, cut,  \* all rows of all high-value reports, and those over the limit
    daily       \* the last daily summary

txnVars == <<state, submitted, posted>>
rowsReported == <<ctr, high, cut, daily>>
vars == <<now, txnVars, report, asOf, last, met, rowsReported>>

Kinds == {"ctr", "high", "daily"}

NoSummary == [date |-> -1, total |-> 0, volume |-> 0, settled |-> 0, failed |-> 0]

Init ==
    /\ now = 0
    /\ state = [t \in Txns |-> "absent"]
    /\ submitted = [t \in Txns |-> 0]
    /\ posted = [t \in Txns |-> 0]
    /\ report \in Kinds
    /\ asOf = None
    /\ last = 0
    /\ met = {}
    /\ ctr = {} /\ high = {} /\ cut = {}
    /\ daily = NoSummary

Tick ==
    /\ now < Horizon
    /\ now - last < Day
    /\ now' = now + 1
    /\ UNCHANGED <<txnVars, report, asOf, last, met, rowsReported>>

-----------------------------------------------------------------------------
(* The ingestion service and the worker.                                   *)

Move(t, from, to) ==
    /\ state[t] = from
    /\ state' = [state EXCEPT ![t] = to]
    /\ UNCHANGED <<now, report, asOf, last, met, rowsReported>>

BeginSubmit(t) ==
    /\ Move(t, "absent", "submitting")
    /\ submitted' = [submitted EXCEPT ![t] = now]
    /\ UNCHANGED posted

CommitSubmit(t) == Move(t, "submitting", "pending") /\ UNCHANGED <<submitted, posted>>

BeginProcess(t) ==
    /\ Move(t, "pending", "processing")
    /\ posted' = [posted EXCEPT ![t] = now]
    /\ UNCHANGED submitted

Settle(t) == Move(t, "processing", "settled") /\ UNCHANGED <<submitted, posted>>

(* Failed, or rolled back and to be processed again: no ledger entries. *)
Discard(t) ==
    /\ Move(t, "processing", "failed") \/ Move(t, "processing", "pending")
    /\ posted' = [posted EXCEPT ![t] = 0]
    /\ UNCHANGED submitted

-----------------------------------------------------------------------------
(* The reports: Utc::now() first, then one query on a snapshot.            *)

(* Mutant: the day is subtracted twice. *)
AskYesterday ==
    /\ asOf = None
    /\ asOf' = now - Day
    /\ UNCHANGED <<now, txnVars, report, last, met, rowsReported>>

Ask ==
    /\ asOf = None
    /\ asOf' = now
    /\ UNCHANGED <<now, txnVars, report, last, met, rowsReported>>

(* The states of a transaction that the properties of a report ask about. *)
Noted == [ctr   |-> {"submitting", "pending", "processing", "settled"},
          high  |-> {"processing", "settled"},
          daily |-> {}]

Made(kind) ==
    /\ report = kind
    /\ asOf # None
    /\ asOf' = None
    /\ last' = now
    /\ met' = met \cup {<<t, state[t]>> : t \in {u \in Txns : state[u] \in Noted[kind]}}
    /\ UNCHANGED <<now, txnVars, report>>

Visible == {t \in Txns : state[t] \notin {"absent", "submitting"}}

(* FEE, ADJUSTMENT and REVERSAL are internal movements. *)
Reportable(t) ==
    /\ Amount[t] >= Threshold
    /\ Currency[t] = "USD"
    /\ Kind[t] \in {"TRANSFER", "CREDIT", "DEBIT"}

(* Mutant: the window is open at its start. *)
CtrRowsAfter(time) ==
    {t \in Txns : /\ state[t] = "settled"
                  /\ Reportable(t)
                  /\ submitted[t] > time - Day}

CtrRows(time) ==
    {t \in Txns : /\ state[t] = "settled"
                  /\ Reportable(t)
                  /\ submitted[t] >= time - Day}

CurrencyTransactionReport ==
    /\ Made("ctr")
    /\ ctr' = ctr \cup CtrRows(asOf)
    /\ UNCHANGED <<high, cut, daily>>

(* A transfer has an entry on either side. *)
Entries(t) ==
    {<<t, side>> : side \in CASE Kind[t] = "TRANSFER" -> {"DEBIT", "CREDIT"}
                              [] Kind[t] \in {"DEBIT", "FEE"} -> {"DEBIT"}
                              [] Kind[t] = "CREDIT" -> {"CREDIT"}
                              [] OTHER -> {}}

(* Mutant: the window is that of the CTR. *)
HighValueSubmitted(time) ==
    UNION {Entries(t) : t \in {u \in Txns : /\ state[u] = "settled"
                                            /\ Amount[u] >= Threshold
                                            /\ submitted[u] >= time - Day}}

HighValue(time) ==
    UNION {Entries(t) : t \in {u \in Txns : /\ state[u] = "settled"
                                            /\ Amount[u] >= Threshold
                                            /\ posted[u] >= time - Day}}

(* ORDER BY amount DESC LIMIT: which of equal amounts are cut is open. *)
HighValueTransactions ==
    LET found == HighValue(asOf) IN
    /\ Made("high")
    /\ \E rows \in SUBSET found :
         /\ Cardinality(rows) = Min({Limit, Cardinality(found)})
         /\ \A e \in rows, d \in found \ rows : Amount[e[1]] >= Amount[d[1]]
         /\ high' = high \cup rows
         /\ cut' = cut \cup (found \ rows)
    /\ UNCHANGED <<ctr, daily>>

Count(T, s) == Cardinality({t \in T : state[t] = s})

(* Mutant: only what is undecided is counted. *)
SubmittedOnPending(date) ==
    {t \in Visible : submitted[t] \div Day = date /\ state[t] \notin {"settled", "failed"}}

SubmittedOn(date) == {t \in Visible : submitted[t] \div Day = date}

DailySummary ==
    LET date == asOf \div Day
        T == SubmittedOn(date)
    IN  /\ Made("daily")
        /\ daily' = [date    |-> date,
                     total   |-> Cardinality(T),
                     volume  |-> MapThenSumSet(LAMBDA t : Amount[t], T),
                     settled |-> Count(T, "settled"),
                     failed  |-> Count(T, "failed")]
        /\ UNCHANGED <<ctr, high, cut>>

Next ==
    \/ Tick
    \/ \E t \in Txns : BeginSubmit(t) \/ CommitSubmit(t) \/ BeginProcess(t) \/ Settle(t) \/ Discard(t)
    \/ Ask \/ CurrencyTransactionReport \/ HighValueTransactions \/ DailySummary

Spec == Init /\ [][Next]_vars

-----------------------------------------------------------------------------

States == {"absent", "submitting", "pending", "processing", "settled", "failed"}

TypeOK ==
    /\ now \in 0 .. Horizon
    /\ state \in [Txns -> States]
    /\ submitted \in [Txns -> 0 .. now]
    /\ posted \in [Txns -> 0 .. now]
    /\ report \in Kinds
    /\ asOf \in (0 .. now) \cup {None}
    /\ last \in 0 .. now
    /\ met \subseteq Txns \X States
    /\ ctr \subseteq Txns
    /\ high \cup cut \subseteq UNION {Entries(t) : t \in Txns}
    /\ daily.date \in -1 .. Horizon

(* With a report every day, a settled transaction that is to be reported   *)
(* can be missing from all of them only if one was made between its        *)
(* submission and its settlement.                                          *)
CtrMissesOnlyUndecided ==
    \A t \in Txns :
        report = "ctr" /\ Reportable(t) /\ <<t, "settled">> \in met =>
            \/ t \in ctr
            \/ \E s \in {"submitting", "pending", "processing"} : <<t, s>> \in met

(* A high-value ledger entry can be missing from all reports only if one   *)
(* was made while its database transaction was open, or if there were more *)
(* entries than the limit.                                                 *)
HighValueMissesOnlyOpen ==
    \A t \in Txns :
        report = "high" /\ Amount[t] >= Threshold /\ <<t, "settled">> \in met =>
            Entries(t) \subseteq high \cup cut \/ <<t, "processing">> \in met

(* A later summary of a day takes nothing back, although transactions of   *)
(* that day are still being decided.                                       *)
SummariesGrow ==
    [][daily'.date = daily.date =>
         \A f \in {"total", "volume", "settled", "failed"} : daily'[f] >= daily[f]]_vars

(* "Report settled USD transactions >= $10,000 within the last 24 hours"   *)
(* (reports.rs:183), "settled transactions in a time window"               *)
(* (002_indexes_and_partitioning.sql:16): with a report every day, each of *)
(* them is in one.                                                         *)
EverySettledIsReported ==
    \A t \in Txns :
        report = "ctr" /\ Reportable(t) /\ <<t, "settled">> \in met => t \in ctr

=============================================================================
