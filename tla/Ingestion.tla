------------------------------ MODULE Ingestion ------------------------------
(***************************************************************************)
(* submit_transaction and idempotency_check_and_insert, run by every       *)
(* request of the ingestion service at once, in READ COMMITTED database    *)
(* transactions.                                                           *)
(*                                                                         *)
(* A client's retry is another request with the same key.  What an open    *)
(* database transaction has written ("writes") is invisible to the others  *)
(* until it commits, but the unique index on idempotency_key makes them    *)
(* wait for it.                                                            *)
(***************************************************************************)
EXTENDS Naturals, FiniteSets

CONSTANTS Requests, Keys, Bodies, None, Invalid     \* as in Submissions

ASSUME RequestAssumption ==
    /\ None \notin Requests
    /\ Invalid \notin Keys \cup Bodies
    /\ None \notin [key : Keys \cup {Invalid}, body : Bodies \cup {Invalid}]
    /\ None \notin [id : Requests, body : Bodies]

VARIABLES
    \* committed rows
    rows,       \* the transactions: id, key and body (its hash)
    outbox,     \* outbox[t]: how many outbox_events are about t
    submitted,  \* submitted[t]: how many SUBMITTED records audit_log has for t
    \* one call of submit_transaction per request
    at,         \* where the call is
    asked,      \* its key and body, or None before it arrives
    writes,     \* the uncommitted rows of its database transaction
    actual,     \* actual_id: the transaction the call is about
    answer      \* what the client was told, or None

tables == <<rows, outbox, submitted>>
vars   == <<tables, at, asked, writes, actual, answer>>

Open == {"insert", "find", "event", "audit", "commit"}

Init ==
    /\ rows = {}
    /\ outbox = [t \in Requests |-> 0]
    /\ submitted = [t \in Requests |-> 0]
    /\ at = [q \in Requests |-> "unsent"]
    /\ asked = [q \in Requests |-> None]
    /\ writes = [q \in Requests |-> {}]
    /\ actual = [q \in Requests |-> None]
    /\ answer = [q \in Requests |-> None]

Goto(q, label) == at' = [at EXCEPT ![q] = label]

(* Mutant: an aborted insert keeps its entry in the unique index. *)
AnswerKeepsWrites(q, says, id) ==
    /\ Goto(q, "done")
    /\ answer' = [answer EXCEPT ![q] = [says |-> says, id |-> id]]
    /\ actual' = [actual EXCEPT ![q] = None]
    /\ UNCHANGED <<asked, writes>>

(* The call and its database transaction end. *)
Answer(q, says, id) ==
    /\ Goto(q, "done")
    /\ answer' = [answer EXCEPT ![q] = [says |-> says, id |-> id]]
    /\ writes' = [writes EXCEPT ![q] = {}]
    /\ actual' = [actual EXCEPT ![q] = None]
    /\ UNCHANGED asked

-----------------------------------------------------------------------------

Receive(q) ==
    /\ at[q] = "unsent"
    /\ \E k \in Keys \cup {Invalid}, b \in Bodies \cup {Invalid} :
         asked' = [asked EXCEPT ![q] = [key |-> k, body |-> b]]
    /\ Goto(q, "check")
    /\ UNCHANGED <<tables, writes, actual, answer>>

(* Mutant: the body is not checked. *)
ValidateKeyOnly(q) ==
    /\ at[q] = "check"
    /\ IF asked[q].key = Invalid
       THEN Answer(q, "rejected", None)
       ELSE /\ Goto(q, "insert")
            /\ UNCHANGED <<asked, writes, actual, answer>>
    /\ UNCHANGED tables

(* The key, the body and its parties are checked before anything is stored.*)
Validate(q) ==
    /\ at[q] = "check"
    /\ IF Invalid \in {asked[q].key, asked[q].body}
       THEN Answer(q, "rejected", None)
       ELSE /\ Goto(q, "insert")
            /\ UNCHANGED <<asked, writes, actual, answer>>
    /\ UNCHANGED tables

Stored(k)    == {r \in rows : r.key = k}
Inserting(k) == {q \in Requests : "row" \in writes[q] /\ asked[q].key = k}

(* Mutant: the key is looked up and the row inserted only if it is absent, *)
(* without a unique index.                                                 *)
InsertLooksFirst(q) ==
    /\ at[q] = "insert"
    /\ IF Stored(asked[q].key) # {}
       THEN /\ Goto(q, "find")
            /\ UNCHANGED <<writes, actual>>
       ELSE /\ Goto(q, "event")
            /\ writes' = [writes EXCEPT ![q] = {"row"}]
            /\ actual' = [actual EXCEPT ![q] = q]
    /\ UNCHANGED <<tables, asked, answer>>

(* INSERT ... ON CONFLICT DO NOTHING waits for an open transaction that    *)
(* has inserted the key, and inserts nothing when the key is there.        *)
Insert(q) ==
    /\ at[q] = "insert"
    /\ Inserting(asked[q].key) = {}
    /\ IF Stored(asked[q].key) # {}
       THEN /\ Goto(q, "find")
            /\ UNCHANGED <<writes, actual>>
       ELSE /\ Goto(q, "event")
            /\ writes' = [writes EXCEPT ![q] = {"row"}]
            /\ actual' = [actual EXCEPT ![q] = q]
    /\ UNCHANGED <<tables, asked, answer>>

(* Mutants: a replay announces the transaction again; the hash of the body *)
(* is not compared.                                                        *)
FindAnnounces(q) ==
    /\ at[q] = "find"
    /\ \E r \in Stored(asked[q].key) :
         IF r.body # asked[q].body
         THEN Answer(q, "reused", None)
         ELSE /\ actual' = [actual EXCEPT ![q] = r.id]
              /\ Goto(q, "event")
              /\ UNCHANGED <<asked, writes, answer>>
    /\ UNCHANGED tables
FindIgnoresBody(q) ==
    /\ at[q] = "find"
    /\ \E r \in Stored(asked[q].key) : actual' = [actual EXCEPT ![q] = r.id]
    /\ Goto(q, "commit")
    /\ UNCHANGED <<tables, asked, writes, answer>>

(* The SELECT after a conflict has a snapshot of its own, which sees the   *)
(* row the INSERT has waited for.                                          *)
Find(q) ==
    /\ at[q] = "find"
    /\ \E r \in Stored(asked[q].key) :
         IF r.body # asked[q].body
         THEN Answer(q, "reused", None)
         ELSE /\ actual' = [actual EXCEPT ![q] = r.id]
              /\ Goto(q, "commit")
              /\ UNCHANGED <<asked, writes, answer>>
    /\ UNCHANGED tables

(* Mutant: the event is written outside the database transaction. *)
WriteEventAtOnce(q) ==
    /\ at[q] = "event"
    /\ outbox' = [outbox EXCEPT ![actual[q]] = @ + 1]
    /\ Goto(q, "audit")
    /\ UNCHANGED <<rows, submitted, asked, writes, actual, answer>>

WriteEvent(q) ==
    /\ at[q] = "event"
    /\ writes' = [writes EXCEPT ![q] = @ \cup {"event"}]
    /\ Goto(q, "audit")
    /\ UNCHANGED <<tables, asked, actual, answer>>

WriteAudit(q) ==
    /\ at[q] = "audit"
    /\ writes' = [writes EXCEPT ![q] = @ \cup {"audit"}]
    /\ Goto(q, "commit")
    /\ UNCHANGED <<tables, asked, actual, answer>>

Publish(q) ==
    /\ rows' = rows \cup {[id |-> q, key |-> asked[q].key, body |-> asked[q].body]
                            : x \in writes[q] \cap {"row"}}
    /\ outbox' = IF "event" \in writes[q] THEN [outbox EXCEPT ![actual[q]] = @ + 1]
                                          ELSE outbox
    /\ submitted' = IF "audit" \in writes[q] THEN [submitted EXCEPT ![actual[q]] = @ + 1]
                                             ELSE submitted

Commit(q) ==
    /\ at[q] = "commit"
    /\ Publish(q)
    /\ Answer(q, IF "row" \in writes[q] THEN "accepted" ELSE "replayed", actual[q])

(* The commit took effect, but the client gets a timeout or an error. *)
CommitUnseen(q) ==
    /\ at[q] = "commit"
    /\ Publish(q)
    /\ Answer(q, "error", None)

(* No connection, a failed statement, the timeout of 30 seconds or a crash *)
(* of the service: the database transaction is rolled back.                *)
Fail(q) ==
    /\ at[q] \in Open
    /\ Answer(q, "error", None)
    /\ UNCHANGED tables

Step(q) ==
    \/ Validate(q) \/ Insert(q) \/ Find(q) \/ WriteEvent(q) \/ WriteAudit(q) \/ Commit(q)

Next == \E q \in Requests : Receive(q) \/ Step(q) \/ CommitUnseen(q) \/ Fail(q)

Spec == Init /\ [][Next]_vars

(* The runtime polls every request, and Postgres wakes up a waiting insert.*)
FairSpec == Spec /\ \A q \in Requests : WF_vars(Step(q))

-----------------------------------------------------------------------------

Ids     == Requests \cup {None}
Asked   == [key : Keys \cup {Invalid}, body : Bodies \cup {Invalid}]
Answers == [says : {"rejected", "accepted", "replayed", "reused", "error"}, id : Ids]

TypeOK ==
    /\ rows \subseteq [id : Requests, key : Keys, body : Bodies]
    /\ outbox \in [Requests -> Nat]
    /\ submitted \in [Requests -> Nat]
    /\ at \in [Requests -> Open \cup {"unsent", "check", "done"}]
    /\ asked \in [Requests -> Asked \cup {None}]
    /\ writes \in [Requests -> SUBSET {"row", "event", "audit"}]
    /\ actual \in [Requests -> Ids]
    /\ answer \in [Requests -> Answers \cup {None}]

(* The transaction q's client was told of, or None. *)
ToldOf(q) == IF answer[q] = None THEN None ELSE answer[q].id

(* However requests with one key are interleaved, aborted and retried, all *)
(* clients that are told of a transaction are told of the same one, which  *)
(* is stored with the body each of them sent, and only one of them is told *)
(* that its request was the first.  (transactions.rs, invariants 1 and 2)  *)
AnswersAgree ==
    \A p, q \in Requests :
        /\ ToldOf(q) # None =>
             [id |-> ToldOf(q), key |-> asked[q].key, body |-> asked[q].body] \in rows
        /\ None \notin {ToldOf(p), ToldOf(q)} /\ asked[p].key = asked[q].key =>
             /\ ToldOf(p) = ToldOf(q)
             /\ p # q => "replayed" \in {answer[p].says, answer[q].says}

(* A stored transaction has one outbox event and one audit record, and     *)
(* nothing else has any, whatever fails between the three inserts.         *)
(* (transactions.rs, invariants 4 and 5)                                   *)
AnnouncedOnce ==
    \A t \in Requests :
        LET n == Cardinality({r \in rows : r.id = t}) IN
        n <= 1 /\ outbox[t] = n /\ submitted[t] = n

(* The ingestion service implements Submissions. *)
Submit == INSTANCE Submissions WITH
    accepted  <- [k \in Keys |->
                    IF Stored(k) = {} THEN None
                    ELSE LET r == CHOOSE r \in Stored(k) : TRUE
                         IN [id |-> r.id, body |-> r.body]],
    announced <- outbox
SubmissionSpec == Submit!Spec

(* Every request is answered: no insert waits for a key forever.  (FairSpec) *)
RequestsAnswered == \A q \in Requests : at[q] # "unsent" ~> at[q] = "done"

=============================================================================
