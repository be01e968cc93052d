----------------------------- MODULE Submissions -----------------------------
(***************************************************************************)
(* What POST /v1/transactions promises, with no database: the first valid  *)
(* request with a key is accepted and announced once, in one step, and     *)
(* every later one with that key is answered from it.                      *)
(***************************************************************************)
EXTENDS Naturals

CONSTANTS
    Requests,   \* the requests clients send; each has a transaction id of its own
    Keys,       \* the valid values of Idempotency-Key
    Bodies,     \* the valid bodies, as request_hash tells them apart
    None,       \* no value
    Invalid     \* a key or a body that is missing or not valid

VARIABLES
    asked,      \* asked[q]: the key and body of q, or None before it arrives
    accepted,   \* accepted[k]: the transaction stored for key k, or None
    announced,  \* announced[t]: how many outbox events transaction t has
    answer      \* answer[q]: the answer to q, or None

submissionVars == <<asked, accepted, announced, answer>>

Asked == [key : Keys \cup {Invalid}, body : Bodies \cup {Invalid}]

Init ==
    /\ asked = [q \in Requests |-> None]
    /\ accepted = [k \in Keys |-> None]
    /\ announced = [t \in Requests |-> 0]
    /\ answer = [q \in Requests |-> None]

Ask(q) ==
    /\ asked[q] = None
    /\ \E a \in Asked : asked' = [asked EXCEPT ![q] = a]
    /\ UNCHANGED <<accepted, announced, answer>>

Answer(q, says, id) ==
    /\ asked[q] # None
    /\ answer[q] = None
    /\ answer' = [answer EXCEPT ![q] = [says |-> says, id |-> id]]
    /\ UNCHANGED asked

(* The caller may not learn that its request was accepted. *)
Accept(q) ==
    LET k == asked[q].key IN
    /\ \/ Answer(q, "accepted", q)
       \/ Answer(q, "error", None)
    /\ Invalid \notin {k, asked[q].body}
    /\ accepted[k] = None
    /\ accepted' = [accepted EXCEPT ![k] = [id |-> q, body |-> asked[q].body]]
    /\ announced' = [announced EXCEPT ![q] = 1]

Replay(q) ==
    LET k == asked[q].key IN
    /\ asked[q] # None
    /\ k \in Keys
    /\ accepted[k] # None
    /\ accepted[k].body = asked[q].body
    /\ Answer(q, "replayed", accepted[k].id)
    /\ UNCHANGED <<accepted, announced>>

Reuse(q) ==
    LET k == asked[q].key IN
    /\ asked[q] # None
    /\ k \in Keys
    /\ accepted[k] # None
    /\ accepted[k].body # asked[q].body
    /\ Answer(q, "reused", None)
    /\ UNCHANGED <<accepted, announced>>

Reject(q) ==
    /\ Answer(q, "rejected", None)
    /\ Invalid \in {asked[q].key, asked[q].body}
    /\ UNCHANGED <<accepted, announced>>

FailRequest(q) ==
    /\ Answer(q, "error", None)
    /\ UNCHANGED <<accepted, announced>>

Next ==
    \E q \in Requests :
        Ask(q) \/ Accept(q) \/ Replay(q) \/ Reuse(q) \/ Reject(q) \/ FailRequest(q)

Spec == Init /\ [][Next]_submissionVars

=============================================================================
