# The financial data platform in TLA+

Specifications of the platform in `src/` (Rust services over one PostgreSQL
database and Kafka), the TLC configurations that check them on small
instances, and theorems about them with proofs for TLAPS. Paths are relative
to `src/`.

## The system

A client POSTs a transaction to the **ingestion** service, which stores a
`PENDING` row, an outbox event and an audit record in one database
transaction. The **outbox relay** copies outbox events to Kafka. **Worker**
processes run several consumer tasks each; a task takes a message and calls
`process_transaction`, which in one database transaction locks and decides the
row, moves the balances and writes ledger entries. What cannot be processed
goes to the table `dead_letter_queue` (DLQ). The **reporting** service reads.
Everything that several processes share is in PostgreSQL rows and locks, in
the topic, or in the offsets of the consumer group.

| component | state | operations | what is hard | what makes it correct |
|---|---|---|---|---|
| Transaction processor, `crates/worker/src/processor.rs`, `fraud.rs` | rows of `transactions`, `accounts`, `ledger_entries`, `audit_log`; advisory and row locks; one call per task | `process_transaction`, `process_transfer`, `process_credit`, `process_debit`, `write_ledger_entry`, `mark_failed` | every `await` lets other workers in; redelivery; crash around the commit; two lock levels taken one by one; reads used after further awaits; ignored `rows_affected` | a transaction is posted exactly once or not at all, the ledger explains every balance, no balance out of range, decided transactions stay as they are, no deadlock |
| Ledger reconciliation, `crates/worker/src/ledger.rs` | none | `verify_account_balance` | - | balance less ledger sum = opening balance |
| Kafka consumer, `crates/worker/src/consumer.rs` | position per partition, the message at hand, committed offsets, DLQ rows | `run`, `process_with_retry`, `send_to_dlq` | asynchronous unchecked commits, rebalances while a message is processed, crashes, DLQ failures, the skip when the lock is held | nothing committed past is left undecided, nothing but a poison message blocks a partition |
| Outbox relay, `crates/outbox-relay/src/main.rs` | `outbox_events` rows and their locks; the batch in memory | `relay_batch` in a loop | send before commit, several relays, outages, the retry limit | published or given up after the last retry, duplicates only where explained |
| Ingestion: transactions, `crates/ingestion/src/handlers/transactions.rs`, `crates/shared/src/idempotency.rs` | rows of `transactions`, `outbox_events`, `audit_log`, visible at commit; the unique index on `idempotency_key`; FOR KEY SHARE locks of the foreign keys | `submit_transaction`, `validate_parties`, `idempotency_check_and_insert`, queries | concurrent requests with one key, client retries, timeouts around the commit, atomicity of the three inserts, FK locks against the worker's locks | one row, one event and one audit record per key; clients of one key are told the same; a different body is refused |
| Ingestion: accounts, `handlers/accounts.rs` | `accounts` | `create_account`, `get_account` | - | opened with balance 0 |
| Domain types, `crates/shared/src/{domain,error,events}.rs` | none | parsing and printing of types and statuses; `can_transition_to`, `Account::debit`, `Account::credit` (no callers) | - | - |
| Schema, `migrations/*.sql` | constraints, indexes, partitions | - | - | constraints are a second line of defence |
| Fault injection, `crates/shared/src/fault.rs` | counters per rule | `FaultInjector::check` | shared counters | `every:N` fires every N calls |
| Worker process, `crates/worker/src/main.rs` | task handles | `main` | shutdown | stops after Ctrl+C |
| Connection pool, `crates/shared/src/db.rs` | connections | acquire, release | acquire timeout while calls hold locks | - |
| Reporting, `crates/reporting/src/reports.rs` | none (read only) | `daily_summary`, `high_value_transactions`, `currency_transaction_report` | the time is taken before the query; windows by `submitted_at` and by `posted_at`, which are the begin of a database transaction that becomes visible later; `LIMIT 1000` | every settled transaction is in a report, a summary takes nothing back |
| HTTP wiring, health, metrics, configuration, deployment, seed data | none | - | - | - |

`PROJECT.json` lists the components with their status, and under `hazards` every
place in the code that is hard to test, with the properties that cover it.

## The modules

    abstract       detailed           properties, composition        proofs

    LedgerBook  <--+
                   +-- Processor <--- ProcessorProperties <--------- ProcessorProofs,
    Settlement  <--+   (Requests)        ^                           ProcessorSafetyProofs,
        ^                                |                           ProcessorRefinement
        |                           AccountLocks <------------------ AccountLocksProofs
        |
        +------------- Consumer <---+
                                    +--- Platform <----------------- ConsumerProofs
    Outbox  <--------- OutboxRelay <-|------------------------------ OutboxRelayProofs
        ^---------------------------+
    Submissions <----- Ingestion <---------------------------------- IngestionProofs
                       Reports <------------------------------------ ReportsProofs

    MCProcessor, MCAccountLocks, MCConsumer, MCOutboxRelay, MCPlatform, MCReports: instances for TLC

An arrow from the detailed to the abstract column is a refinement: the abstract
specification is a property of the detailed one. Platform is built from the
abstract side of the relay and of the processor.

* **Requests** holds what never changes: the rows as submitted, the accounts,
  and the pure rules: which accounts a type debits and credits, what refuses a
  transaction, what settling does to a balance. `ValidatedAssumption` is
  `validate_parties`: ingestion stores no other rows. `Parties` and `Publish` count
  on it: for a transfer from an account to itself, which ingestion refuses, the
  worker would write two entries and only the first UPDATE would find its version
  (`processor.rs:430`), where the sets of the model have one account.
* **Processor** is `process_transaction` in every worker. `txn`, `acct`,
  `ledger`, `audit` are the committed tables; `advisory`, `txnLock`, `acctLock`
  are Postgres' lock tables; `row` and `read` are what a call has read and
  means to write. One action per await at which another worker can change what
  the call will see: `TryLock` (pg_try_advisory_xact_lock), `Load` (SELECT FOR
  UPDATE of the transaction and the terminal-state branches), `MarkProcessing`
  (the optimistic UPDATE), `FraudPassed`/`FraudBlocked`/`FraudTimeout`,
  `LockAccount` (one account row at a time, in id order), `Execute` (rules and
  outcome), `Commit`. The writes of a call are invisible until the commit, so
  `Publish` makes them all in that step, reading `acct` and `ledger` where the
  statements do: `Updated` keeps the transfer's `WHERE version = $3` whose
  result nobody looks at, `NextSeq` the `MAX(sequence_num) + 1`. `Refuse`
  (injected fault, pool timeout), `DbError` (any statement fails), `Crash` and
  `CommitUnseen` (committed, but the worker never learns) are the failures.
  Where the code awaits `tx.rollback()`, and where Postgres itself ended the
  transaction, the locks are gone when the call returns (`Rollback`). Where `?` or a
  crash drops the transaction, sqlx only queues the ROLLBACK: `Abandon` returns with
  the locks still held, in the name of the lock key, until `LateRollback`.
  The environment calls it for any id, any time, any number of times: that is
  more than Kafka can do.
* **LedgerBook** is what the processor promises: `PENDING` transactions
  `Settle`, moving all their money and writing all their entries in one step,
  or `Fail` and move nothing. `BookSpec` states the refinement.
* **Settlement** is `process_transaction` as its caller sees it, with nothing
  but the advisory lock, which an abandoned call leaves behind here too, and the
  visible status. `CallSpec` states that Processor refines it, which lets Consumer be built on Settlement instead of
  on the whole of Processor.
* **AccountLocks** puts the inserts of the ingestion service beside the
  processor: `ShareAccount` is the FOR KEY SHARE lock that the foreign keys of
  `transactions` take on the source and then on the destination account,
  `UnderShares` a worker's step that must wait for it, `AbortVictim` Postgres'
  deadlock detector. It extends ProcessorProperties; a worker does the same
  as alone (`LocksCarryOver`).
* **Ingestion** is `submit_transaction` in every request at once: `Validate`,
  `Insert` (INSERT ... ON CONFLICT DO NOTHING, which waits for an open insert
  of the key), `Find` (the SELECT after a conflict and the comparison of the
  hashes), `WriteEvent`, `WriteAudit`, `Commit`; `writes` is what the open
  database transaction has written. `CommitUnseen` (the commit took effect,
  the client got an error or its timeout) and `Fail` (rollback at any await:
  failed statement, 30 s timeout, crash) are the failures. A client's retry is
  one more request with the same key.
* **Submissions** is what ingestion promises, with no database: the first valid
  request with a key is accepted and announced in one step.
* **Consumer** is the loop of `consumer.rs` over an external model of a
  consumer group: `Receive`, one step of the call (`Processing`), `Retry`,
  `Succeed`, `SendToDlq`, `DlqFails`. `Join`, `Rebalance` and the lost or stale
  commits of `CommitOffset` are the group's, `Produce` the producers'; `Crash`
  ends a task anywhere, `Poisoned` is the message that kills whoever processes it
  (`Poison`), `Released` the late rollback. Redelivery is not an action: it follows from the
  committed offset.
* **OutboxRelay** is `relay_batch`: `Poll` (the oldest rows that nobody has
  locked, in ascending order: `InOrder`), one `Send` per event, `Record`
  (statuses and commit), `Abort` (crash, failed statement or commit); `Insert`
  is ingestion's commit; `Outage`/`Recover` the brokers.
* **Outbox** is what the relay promises, with no relays, batches or row locks:
  an event stays `PENDING`, and may enter the topic any number of times, until
  it is recorded as published (only if it is in the topic) or given up.
* **Platform** joins Outbox and Consumer by the topic: `Submit`, `RelaySends`,
  `RelayRecords` and `GroupStep`. The partition logs of Consumer are the logs
  that Outbox appends to.
* **Reports** has the clock, the transactions as the reports see them (with the
  time their database transactions began and the later step at which they
  become visible), and the three queries. `Ask` is `Utc::now()`, the query is a
  later step. The reports share no state, so each behaviour follows one of them
  (`report`).

Definitions commented `Mutant:` are wrong on purpose. They are used by no
specification; each is a plausible bug that, put in place of the definition
after it, must break a property.

## What the runs check

| run | properties | shows |
|---|---|---|
| `processor` | `PostedOnce`, `LedgerChain`, `Reconciled`, `Solvent`, `AuditedOnce`, `ReadsCurrent`, `NoCircularWait`, `TerminalIsFinal`, `ReturnsMean`, `BookSpec`, `CallSpec` | each transaction is posted exactly once or not at all under any redelivery, crash and interleaving, and both refinements |
| `locks` | `CirclesDescend`, `CallsReturn`, `InsertsEnd` | which requests can deadlock with the workers; with the deadlock detector every call and every insert ends |
| `ingestion` | `AnswersAgree`, `AnnouncedOnce`, `SubmissionSpec`, `RequestsAnswered` | idempotency under concurrent, failing and retried requests |
| `relay` | `NothingForgotten`, `DuplicatesExplained`, `OnlyPendingIsSent`, `EveryEventResolved`, `OutboxSpec` | what relays that die and brokers that fail do to the events |
| `consumer` | `PassedOverIsHandled`, `SkippedOnlyAfterFault`, `EveryMessageHandled` | at-least-once delivery up to its two holes, and that nothing but a poison message blocks a partition |
| `platform` | `NothingLost`, `SubmittedIsDecided` | from submission to decision across relay, topic and group, with every end named: decided, parked (`Parked`: a FAILED event or a DLQ row), or fallen through one of the consumer's two holes (`FellThrough`) |
| `reports` | `CtrMissesOnlyUndecided`, `HighValueMissesOnlyOpen`, `SummariesGrow` | what can be missing from all reports of a kind |
| `consumer_dlq`, `consumer_skip`, `relay_gives_up`, `relay_order`, `ctr_window` | one each | a statement of a doc or comment that the code does not keep; see Findings |

Each passing run also checks a type invariant, except `locks` and `platform`,
whose variables are those of modules that have one, and a few more.

**Bounds.** `processor`: two workers and five transactions that compete for two
accounts: two opposite transfers, of which one cannot be credited before money has
left its destination (`MaxBalance`), a fee that leaves too little for the first of
them and the other way round, a credit to an inactive account and a debit over the
fraud limit; and an id without a row. All but the transfers share an advisory
lock key. `Abandonable` names the lock keys whose calls may leave their locks
behind: that of one transfer, so that the other meets its account locks, and the
shared one. Every lock conflict is between two transactions, so two workers meet
each kind of conflict; a circular wait among three accounts needs transfers
between three accounts, for which `LocksNeverCircular` is proved. Workers are
symmetric. Statuses are final, versions are bounded by the decisions, and
calls may be repeated for ever, so no counter needs a bound. An ADJUSTMENT,
which no code executes, is covered by the proofs only.

`locks`: two workers on opposite transfers, one insert of a transfer in either
direction, one of the transfers in `Abandonable`. Each insert happens once: see fairness. `ingestion`: three requests,
any of two keys and two bodies or an invalid one; a conflict needs two requests
and a third can meet it before, during and after. `relay`: two relays and two
events of one account, batches up to both; one retry, two outages and two
crashes, so that an event can fail, be retried, and fail for good, and a batch
can be resent twice.

`consumer`: one partition, whose offsets are independent of every other's, with
a valid message twice, a malformed one, an empty one and, last, a poison message,
which nothing is behind; two tasks, `MaxRetries = 1`, and one crash, rebalance or
lost commit (`MaxFaults`); the deaths by the poison message are not counted and go
on for ever. Faults that meet each other are in the proofs, which hold for every
bound. `platform`: two transactions in one partition, `MaxLog = 2` messages (each
event once or one of them twice), `MaxFaults = 1`, `MaxRetries = 0` and
`Poison = {}`, since retries and poison are the subject of `consumer`. `reports`: a day of two ticks and a
clock up to three, so that a transaction can be submitted, visible, decided
and reported in different ticks and on different days; two transactions with
three high-value entries against `Limit = 2`; at least one report a day.

**Fairness.** `locks` assumes strong fairness of a worker's step and of an
insert's: Postgres grants a lock in the order it was asked for, and tokio polls
every task; and weak fairness of the deadlock detector. The order of asking
does not protect a FOR UPDATE from ever new overlapping FOR KEY SHARE lockers, so
the inserts of the run are finitely many. Postgres ends a transaction that was
dropped, so `LateRollback` is weakly fair there. `ingestion` assumes weak fairness of
each request's task, also while it waits for the key. `consumer` assumes weak
fairness of a task's loop (an endless loop in a spawned task) and of the
coordinator's assignment; `relay` of the relay's loop and of Kafka's recovery,
from which the fairness of Outbox follows (`OutboxSpec` includes it);
`platform` of Outbox and of the group. Crashes, faults, outages, new requests,
new calls and `Send` of Outbox need no fairness. `reports` states no liveness.

**Deadlock.** TLC's own check is on in `processor` and `locks`, but it cannot see a
circular wait there: a call that waits for a lock can still crash or fail
(`Crash`, `DbError`), so the state has a successor. Circular waits are covered by
`NoCircularWait` and `CirclesDescend`, which speak of the waits themselves, and by
`CallsReturn`, which does not count on a crash. In the other runs the system does
stop when there is nothing left to submit, to read or to report.

## Findings

* `consumer_dlq`: not committing the offset after a failed DLQ write does not
  redeliver the message, since the next commit of the partition covers it
  (`consumer.rs:10`). This is the exception `dlqFailed` of `PassedOverIsHandled`
  and of `NothingLost`.
* `consumer_skip`: a message skipped because the advisory lock is held is
  committed although nothing is processed; if the holder dies, the transaction
  stays `PENDING` (`consumer.rs:4`). This is the exception `skipped`;
  `SkippedOnlyAfterFault` says what it takes.
* `relay_gives_up`: after an outage longer than eleven sends the event is
  `FAILED` and nobody selects it (`outbox-relay/src/main.rs:6`).
* `relay_order`: a batch goes on after a failed send, so events of one account
  are reordered (`outbox-relay/src/main.rs:11`).
* `ctr_window`: the CTR selects settled transactions by `submitted_at`; one that
  settles after a report made since its submission is outside the window of the
  next one, and so in none (`reporting/src/reports.rs:183`).

Further disagreements of text and code, without a run of their own:

* "Full balance reconstruction from scratch" by the sum of the entries
  (`README.md:1064`), and a mismatch as a bug that "Triggers incident"
  (`README.md:1132`): an account that was given a balance without an entry, as
  `scripts/seed.sql` does, is reported by `verify_account_balance` from the start.
  `Reconciled` is that query, which sums from zero, and says what it finds: the
  opening balance of the account and nothing else.
* "Poison message (crashes every worker)": "After `MAX_RETRIES` attempts: moved to
  `dead_letter_queue` table" (`README.md:1128`). The attempts are counted in memory
  (`consumer.rs:177`) and only when the call returns a retryable error; a message
  that kills its task is delivered again with a count of zero, for as long as
  there are tasks to kill. This is `Poisoned`, and the exception `Blocked` of
  `EveryMessageHandled`: without it TLC finds the loop.
* On insufficient funds "DB transaction rolled back" (`README.md:1130`): it is
  committed, with the status `FAILED` and an audit record (`processor.rs:335`,
  `MarkFailed` and `Commit`).
* A CREDIT, DEBIT or FEE writes one ledger entry, although for every transaction
  "debits = credits" (`migrations/001_initial_schema.sql:136`).
* Nothing compares currencies, although the typed wrapper is "to prevent mixing
  currencies" (`crates/shared/src/domain.rs:10`).
* A replay of a PENDING transaction is answered 200 (`transactions.rs:270`), not
  202 (`idempotency.rs:9`).
* The insert runs under the default READ COMMITTED, not "inside a serializable
  transaction" (`transactions.rs:148`). The unique index is enough, as
  `AnswersAgree` shows.
* The key is unique over all accounts (`migrations/001_initial_schema.sql:117`),
  not "per source account" (line 114).
* The high-value report returns at most 1000 entries, not "all"
  (`README.md:893`); `HighValueMissesOnlyOpen` has the limit as an exception.
* A retried `create_account` opens another account, although "all operations are
  idempotent" (`README.md:1127`).
* An injected `processor.permanent` fault returns before the transaction is
  loaded, so it leaves it `PENDING` instead of `FAILED` (`README.md:1139`); this is
  `Refuse`, and in Platform a message in the DLQ whose transaction is undecided.

## What is proved

Every invariant and every action property that a passing run checks is also a
theorem, for any number of workers, accounts, transactions, inserts, requests,
keys, bodies, relays, events, tasks, partitions and messages, any lock keys,
limits, opening balances and bounds on faults, and any number of calls. So is
every refinement, without its fairness.

| theorem | module | establishes |
|---|---|---|
| `TypeCorrect` | ProcessorProofs | `TypeOK`; no worker commits `PROCESSING` |
| `ReadsStayCurrent` | ProcessorProofs | `ReadsCurrent` |
| `AuditIsComplete` | ProcessorSafetyProofs | `AuditedOnce` |
| `DecisionsAreFinal` | ProcessorSafetyProofs | `TerminalIsFinal` |
| `BalancesInRange` | ProcessorSafetyProofs | `Solvent` |
| `LedgerExplainsBalance` | ProcessorSafetyProofs | `LedgerChain` |
| `EffectIsExactlyOnce` | ProcessorSafetyProofs | `PostedOnce` |
| `DriftIsConstant` | ProcessorSafetyProofs | `Reconciled`: balance less ledger sum is the opening balance, none for an account opened with 0 |
| `ReturnsAreRight` | ProcessorSafetyProofs | `ReturnsMean` |
| `LocksNeverCircular` | ProcessorSafetyProofs | `NoCircularWait` |
| `ImplementsBook` | ProcessorRefinement | `BookSpec` |
| `ImplementsCall` | ProcessorRefinement | `CallSpec` |
| `LocksCarryOver` | AccountLocksProofs | `LockSpec => Spec`: all of the above hold beside ingestion's locks |
| `OnlyDescendingCircles` | AccountLocksProofs | `CirclesDescend` |
| `TypeCorrect` | IngestionProofs | `TypeOK` of Ingestion |
| `ClientsAgree` | IngestionProofs | `AnswersAgree` |
| `EventsMatchRows` | IngestionProofs | `AnnouncedOnce` |
| `ImplementsSubmissions` | IngestionProofs | `SubmissionSpec` |
| `TypesAreKept` | OutboxRelayProofs | `TypeOK` of OutboxRelay |
| `NothingIsForgotten` | OutboxRelayProofs | `NothingForgotten` |
| `DuplicatesAreExplained` | OutboxRelayProofs | `DuplicatesExplained` |
| `SendsAreExclusive` | OutboxRelayProofs | `OnlyPendingIsSent` |
| `ImplementsOutbox` | OutboxRelayProofs | `Spec => Abstract!Spec`, the safety half of `OutboxSpec` |
| `TypesAreKept` | ConsumerProofs | `TypeOK` of Consumer |
| `CommittedIsHandled` | ConsumerProofs | `PassedOverIsHandled` |
| `SkipsNeedFaults` | ConsumerProofs | `SkippedOnlyAfterFault` |
| `CallsAsPromised` | ConsumerProofs | the group's calls are those of Settlement |
| `NothingIsLost` | ConsumerProofs | `NothingLost` of Platform: a trace is left, or a DLQ write has failed, or a message was answered Ok under a held lock |
| `TracedWithoutFaults` | ConsumerProofs | in Platform, before the first fault and with distinct lock keys, every transaction that is not poison leaves a trace unless a DLQ write of it has failed |
| `PartsAsPromised` | ConsumerProofs | Platform does to the outbox what Outbox allows and to the calls what Settlement allows |
| `TypesAreKept` | ReportsProofs | `TypeOK` of Reports |
| `CtrIsCompleteBut` | ReportsProofs | `CtrMissesOnlyUndecided` |
| `HighValueIsCompleteBut` | ReportsProofs | `HighValueMissesOnlyOpen` |
| `SummariesOnlyGrow` | ReportsProofs | `SummariesGrow`, counts and volume |

**Assumptions.** Account ids are numbers (UUIDs are totally ordered), finitely
many of them (`AccountsAssumption`, `FiniteAssumption`, the latter for the lock
order only), rows have the types of their columns with positive amounts
(`RowsAssumption`, ingestion's validation), `None` is no id, worker, relay,
request, message or record (`NoneAssumption`, `RequestAssumption`), inserts are no
workers and their foreign keys name existing accounts (`InsertsAssumption`), every
id has a lock key (`LockKeyAssumption`; nothing says the keys differ), every
partition key a partition (`TargetAssumption`), the outbox and the table of
transactions are finite where rows are counted (`EventsAssumption`,
`TxnsAssumption`), malformed and empty messages are no ids (`MessageAssumption`),
poison messages are ids (`PoisonAssumption`), lock keys, workers and `None` are
different things (`OwnersAssumption`), and the limits and bounds are numbers. No
proof cites `ValidatedAssumption`, but the definitions stand for the code only
under it: the worker is safe for rows whose accounts are missing, which it does not
execute, and not for a transfer from an account to itself (see Requests).

**The inductive invariant of Processor** is `Core` in ProcessorProofs:

    Core == TypeOK /\ LocksHeld /\ CallShapes /\ Numbered /\ ReadsCurrent

`ReadsCurrent`, the fact everything else rests on, is not inductive alone: a
commit of one worker keeps the reads of another only if the two have different
rows locked, which is `LocksHeld` (a lock table names a worker exactly when that
worker's call says it has the lock). `CallShapes` is what a call knows where it
is: from "mark" on that the committed row is still pending; at "commit" with
status `SETTLED` that exactly the transaction's accounts are locked and that the
rules have been checked on what was read of them. `Numbered` (entry i has sequence
number i) is what makes `MAX(sequence_num) + 1` the next number. `StepCases`
sorts the actions of a worker into ten cases that differ in effect, beside
`LateRollback`; each part of `Core` then has a lemma, one step per case.

The safety properties follow from `Core` one at a time, each inductive relative
to it, because only a commit changes the tables and a commit writes what
`AtCommit` says. `Reconciled` needs no step of its own: the running balances of
`LedgerChain`, less the opening balance, solve the equation of the sum, by
`PostedOnce` each entry adds or takes off its transaction's amount, and the
equation has one solution (`OneSolution`). `NoCircularWait` needs one more
invariant, `Ordered`: a call that still wants an account holds smaller ones only.
In a circle of workers, who waits for the greatest awaited account would be waited for by
somebody it cannot be (`Greatest`: a finite set of numbers has a
greatest element, from the well-foundedness of <). The refinements
map every step to a step of the abstract specification or to a stutter:
`ImplementsBook` from `LedgerChain` and `AtCommit` (the balance the abstract
`Settle` computes is the one the call computed from its reads), `ImplementsCall`
by hiding the rows.

**AccountLocks.** Every step is a step of Processor or leaves its variables alone
(`LockStep`), so `Core` and `Ordered` carry over. `SharesOK` says which accounts an
insert has locked: its source before its destination. In any set of workers and
inserts that all wait within the set, no worker holds the greatest awaited
account, by `Ordered`; so an insert has it and waits for a smaller one, which
by `SharesOK` means that its source is the larger id.

**Ingestion.** The inductive invariant is

    IngestionInv == TypeOK /\ CallShapes /\ KeysUnique /\ Counted /\ Answered

`KeysUnique` is the unique index over committed and uncommitted rows: a key has
one row or one open insert, never both, which is what makes a commit the first
for its key. `CallShapes` ties the uncommitted writes to the place of the call,
so that a commit publishes all three inserts or none. `Answered` keeps what a
client was told in `rows`. `ImplementsSubmissions` maps a request's commit or its
end to the one step of Submissions.

**OutboxRelay.** The inductive invariant is

    IInv == Types /\ BatchesAreHeld /\ LockedIsPending /\ RetriesLeft
              /\ AckedIsAppended /\ CopiesCounted

Neither `NothingForgotten` nor `DuplicatesExplained` is inductive: what a relay
records depends on what it has sent since it read the rows. `BatchesAreHeld` says
that everything in its memory is still locked by it, each event once, and either
sent or still to be sent; with `LockedIsPending` (what is locked has not been
decided by another relay) that is `OnlyPendingIsSent`. `AckedIsAppended` remembers
that an acknowledged event is in the topic until that is recorded.
`CopiesCounted` counts the copies of an event with one unit in hand for a send
that is not yet recorded: the next poll is possible only after the unit was
turned into a recorded failure, into a lost batch (`faults`) or into `PUBLISHED`.
In `ImplementsOutbox` a relay's `Send` is one of Outbox if the topic gains a copy,
acknowledged or not, and a stutter otherwise; `Record` is one `Resolve`, which
takes a batch's outcome as a whole. OutboxRelay has one topic, which is Outbox
with one partition: the partition of a copy is that of its key and no status
depends on it.

**Consumer.** The inductive invariant is `GroupInv`. What the group has committed
past (`DoneCommitted`) is handled because a commit of a task covers its message
and all before it, so these must have been handled when the task got its message
(`DoneBefore`), which is what its partition's owner had received and finished by
then (`DoneByOwner`). None of the three holds without the others: a rebalance
makes the committed offset the position of a new owner, while the old owner
still works on a message and may commit later. `AtWork` ties the call to the
message: `Ok` means that the message needs no more work or was skipped.
`OwnsItsMessage` (without a fault nobody works on a message of another's
partition) gives `SkippedOnlyAfterFault`, with `LeftBehind`: without a fault, a lock
that outlives its call is that of a poison message, or of one that has been or is
about to be given up.

That property says more than it first did. Two copies of one id in two different
partitions meet in two tasks without any fault, so the theorem failed until the
property named the case; the instance of the run, with one partition, could not
show it. The relay sends an event's copies to the partition of its key, so that
the case does not arise in Platform (`Keyed`, `TracedWithoutFaults`).

**Platform.** `PlatformInv == GroupInv /\ Published /\ Keyed`. A published event is
in the log (`Published`), and if every copy of it is passed over, one of them was
dealt with (`GroupInv`). The parts fit: Platform's steps are steps of Outbox and
of Settlement's caller (`PartsAsPromised`), OutboxRelay implements Outbox
(`ImplementsOutbox`), and Processor implements Settlement (`ImplementsCall`), so the
abstract side that Platform is built from is what the detailed modules do. A
decision in Settlement may come at any time after the lock is taken and a call may
fail at any time, so what holds in Platform does not depend on how the
processor decides.

**Reports.** `IInv` of ReportsProofs adds to the two properties that a report is
made at least once a day (`Daily`, which is in the guard of `Tick`) and
`NewIsInWindow`: a transaction that no report has met yet has a timestamp since
the last one, so that it is within a day of the time the next one reads.
`SummariesOnlyGrow` rests on `SummaryStands`, that the numbers of the last summary
are at most those of its day now. The volume is a fold over a set: `SumExists`,
`SumsAgree` and `VolumeSplits` show that the fold's equation has one solution, which
adds the amounts in any order, by `Smallest` (of a set of finite sets, one has
none of the others within it), which is induction over finite sets for one
statement at a time.

## Only model-checked

Liveness (`CallsReturn`, `InsertsEnd`, `RequestsAnswered`, `EveryMessageHandled`,
`EveryEventResolved`, `SubmittedIsDecided`) and the fairness part of `OutboxSpec` are
out of the prover's reach: they need ENABLED. The bounds of these runs are given
above. Refuted statements (the runs of Findings) have counterexamples, not
proofs.

## Not modelled

* The fraud rules other than the blocking limit: `risk_score` has no effect.
  Metadata, descriptions, hashes and formats; `get_transaction` and
  `get_account`, which only read; HTTP wiring, health, metrics; configuration;
  deployment and seed data. A cache and a rate limiter, which the documents
  mention, do not exist in the code.
* `create_account`: one INSERT with no state of its own. Accounts are constants.
* The counters of fault injection (`every:N`, `rate:P` without a correlation
  id, `once`): a fault is a nondeterministic step, which every rule is a case of.
* Shutdown of the worker: `run` never returns, so `main` waits for ever after
  Ctrl+C (`worker/src/main.rs:52`); there is nothing to interleave. A killed
  process is `Crash`.
* The size of the connection pool: `process_transaction` and
  `idempotency_check_and_insert` use one connection each, so they never wait
  for one while holding another; a timeout is `Refuse` and `Fail`.
* The grouping of reports by currency and type; currency itself is carried by
  the entries and used by no rule, as in the code.
* Amounts are integers (units of 1/10000). `REVERSED` is a status no code
  writes. The branch of `process_transaction` for a retryable business error is
  never reached, since no error of the three business functions is retryable.

## Plan

Done: all services, the composition of relay and consumer group, and the theorems
about every safety property. What is left:

1. The safety facts behind the liveness properties, as theorems: that a task, a
   relay or a request that has not finished has a step it can take unless it
   waits for a lock, and whose lock that is.
2. The end to end statement in one formula: from Submissions through Outbox and
   Settlement to LedgerBook, a key accepted once is posted at most once.
3. More of the schema's constraints as invariants of the tables they belong to.
