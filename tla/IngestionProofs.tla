--------------------------- MODULE IngestionProofs ---------------------------
(***************************************************************************)
(* Theorems about the ingestion service, for every set of requests, keys   *)
(* and bodies.                                                             *)
(***************************************************************************)
EXTENDS Ingestion, FiniteSetTheorems, TLAPS

-----------------------------------------------------------------------------
(* The inductive invariant.                                                *)

RowFor(q, t) == [id |-> t, key |-> asked[q].key, body |-> asked[q].body]

All == {"row", "event", "audit"}

(* What a call knows and has written, by where it is. *)
CallShape(q) ==
    /\ at[q] = "unsent" <=> asked[q] = None
    /\ at[q] \in Open => asked[q].key \in Keys /\ asked[q].body \in Bodies
    /\ at[q] # "done" => answer[q] = None
    /\ writes[q] # {} => actual[q] = q /\ at[q] \in {"event", "audit", "commit"}
    /\ at[q] = "event" => writes[q] = {"row"}
    /\ at[q] = "audit" => writes[q] = {"row", "event"}
    /\ at[q] = "commit" => writes[q] \in {{}, All}
    /\ at[q] = "commit" /\ writes[q] = {} => RowFor(q, actual[q]) \in rows

CallShapes == \A q \in Requests : CallShape(q)

(* A key has one row, committed or not, and so has an id. *)
KeysUnique ==
    /\ \A r, s \in rows : r.key = s.key \/ r.id = s.id => r = s
    /\ \A r \in rows : at[r.id] = "done"
    /\ \A q \in Requests, r \in rows : writes[q] # {} => r.key # asked[q].key
    /\ \A p, q \in Requests :
          writes[p] # {} /\ writes[q] # {} /\ asked[p].key = asked[q].key => p = q

Rowed(t) == \E r \in rows : r.id = t

Counted ==
    \A t \in Requests :
        /\ Rowed(t) => outbox[t] = 1 /\ submitted[t] = 1
        /\ ~Rowed(t) => outbox[t] = 0 /\ submitted[t] = 0

ToldRight(q) ==
    ToldOf(q) # None =>
        /\ RowFor(q, ToldOf(q)) \in rows
        /\ answer[q].says = "replayed" \/ (answer[q].says = "accepted" /\ ToldOf(q) = q)

Answered == \A q \in Requests : ToldRight(q)

IngestionInv == TypeOK /\ CallShapes /\ KeysUnique /\ Counted /\ Answered

-----------------------------------------------------------------------------
(* The steps, sorted by what they do.                                      *)

Refuse(q) ==
    /\ at[q] \in Open \cup {"check"}
    /\ \/ Invalid \in {asked[q].key, asked[q].body} /\ at[q] = "check" /\ Answer(q, "rejected", None)
       \/ at[q] \in Open /\ Answer(q, "error", None)
       \/ /\ at[q] = "find"
          /\ \E r \in Stored(asked[q].key) : r.body # asked[q].body
          /\ Answer(q, "reused", None)
    /\ UNCHANGED tables

Advance(q, from, to) ==
    /\ at[q] = from
    /\ Goto(q, to)
    /\ UNCHANGED <<tables, asked, answer>>

Admit(q) ==
    /\ Invalid \notin {asked[q].key, asked[q].body}
    /\ Advance(q, "check", "insert")
    /\ UNCHANGED <<writes, actual>>

Conflict(q) == Advance(q, "insert", "find") /\ UNCHANGED <<writes, actual>>

InsertRow(q) ==
    /\ Inserting(asked[q].key) = {}
    /\ Stored(asked[q].key) = {}
    /\ Advance(q, "insert", "event")
    /\ writes' = [writes EXCEPT ![q] = {"row"}]
    /\ actual' = [actual EXCEPT ![q] = q]

Found(q) ==
    /\ Advance(q, "find", "commit")
    /\ \E r \in Stored(asked[q].key) :
         r.body = asked[q].body /\ actual' = [actual EXCEPT ![q] = r.id]
    /\ UNCHANGED writes

Replayed(q) ==
    /\ at[q] = "commit"
    /\ writes[q] = {}
    /\ Answer(q, "replayed", actual[q]) \/ Answer(q, "error", None)
    /\ UNCHANGED tables

Accepted(q) ==
    /\ at[q] = "commit"
    /\ writes[q] = All
    /\ Answer(q, "accepted", q) \/ Answer(q, "error", None)
    /\ rows' = rows \cup {RowFor(q, q)}
    /\ outbox' = [outbox EXCEPT ![q] = @ + 1]
    /\ submitted' = [submitted EXCEPT ![q] = @ + 1]

LEMMA PublishCases ==
    ASSUME NEW q \in Requests, CallShape(q), at[q] = "commit", Publish(q),
           \/ Answer(q, IF "row" \in writes[q] THEN "accepted" ELSE "replayed", actual[q])
           \/ Answer(q, "error", None)
    PROVE  Replayed(q) \/ Accepted(q)
<1>1. CASE writes[q] = {}
  <2>1. UNCHANGED tables
    BY <1>1 DEF Publish, tables
  <2> QED
    BY <1>1, <2>1 DEF Replayed
<1>2. CASE writes[q] = All
  <2>1. actual[q] = q
    BY <1>2 DEF CallShape, All
  <2>2. "row" \in writes[q] /\ "event" \in writes[q] /\ "audit" \in writes[q]
    BY <1>2 DEF All
  <2>3. rows' = rows \cup {RowFor(q, q)}
    BY <2>2 DEF Publish, RowFor
  <2> QED
    BY <1>2, <2>1, <2>2, <2>3 DEF Publish, Accepted
<1> QED
  BY <1>1, <1>2 DEF CallShape

LEMMA StepCases ==
    ASSUME CallShapes, Next
    PROVE  \E q \in Requests :
               \/ Receive(q) \/ Refuse(q) \/ Admit(q) \/ Conflict(q) \/ InsertRow(q)
               \/ Found(q) \/ WriteEvent(q) \/ WriteAudit(q) \/ Replayed(q) \/ Accepted(q)
<1>1. PICK q \in Requests : Receive(q) \/ Step(q) \/ CommitUnseen(q) \/ Fail(q)
  BY DEF Next
<1>2. CASE Fail(q)
  BY <1>2 DEF Fail, Refuse
<1>3. CASE Validate(q)
  BY <1>3 DEF Validate, Refuse, Admit, Advance, tables
<1>4. CASE Insert(q)
  BY <1>4 DEF Insert, Conflict, InsertRow, Advance
<1>5. CASE Find(q)
  BY <1>5 DEF Find, Refuse, Found, Advance, Open, tables
<1>6. CASE Commit(q) \/ CommitUnseen(q)
  <2>1. Replayed(q) \/ Accepted(q)
    BY <1>6, PublishCases DEF Commit, CommitUnseen, CallShapes
  <2> QED
    BY <2>1
<1> QED
  BY <1>1, <1>2, <1>3, <1>4, <1>5, <1>6 DEF Step

(* What a step does to the calls. *)
Others(q) ==
    \A p \in Requests \ {q} :
        /\ at'[p] = at[p] /\ asked'[p] = asked[p] /\ writes'[p] = writes[p]
        /\ actual'[p] = actual[p] /\ answer'[p] = answer[p]

LEMMA AnswerEffect ==
    ASSUME TypeOK, NEW q \in Requests, NEW says, NEW id, Answer(q, says, id)
    PROVE  /\ at'[q] = "done" /\ asked'[q] = asked[q] /\ writes'[q] = {}
           /\ answer'[q] = [says |-> says, id |-> id]
           /\ Others(q)
  BY DEF Answer, Goto, TypeOK, Others

LEMMA Effects ==
    ASSUME TypeOK, NEW q \in Requests,
           \/ Receive(q) \/ Refuse(q) \/ Admit(q) \/ Conflict(q) \/ InsertRow(q)
           \/ Found(q) \/ WriteEvent(q) \/ WriteAudit(q) \/ Replayed(q) \/ Accepted(q)
    PROVE  /\ Others(q)
           /\ at[q] # "unsent" => asked'[q] = asked[q]
           /\ at[q] # "done"
<1>1. ASSUME Receive(q)
      PROVE  Others(q) /\ at[q] = "unsent"
  BY <1>1 DEF Receive, Goto, TypeOK, Others
<1>2. ASSUME NEW from, NEW to, Advance(q, from, to),
             UNCHANGED <<writes, actual>>
      PROVE  Others(q) /\ asked' = asked /\ at[q] = from
  BY <1>2 DEF Advance, Goto, TypeOK, Others
<1>3. CASE Refuse(q) \/ Replayed(q) \/ Accepted(q)
  <2>1. \E says, id : Answer(q, says, id)
    BY <1>3 DEF Refuse, Replayed, Accepted
  <2>2. at[q] \in {"check"} \cup Open
    BY <1>3 DEF Refuse, Replayed, Accepted, Open
  <2> QED
    BY <2>1, <2>2, AnswerEffect DEF Open
<1>4. CASE InsertRow(q)
  BY <1>4 DEF InsertRow, Advance, Goto, TypeOK, Others
<1>5. CASE Found(q)
  BY <1>5 DEF Found, Advance, Goto, TypeOK, Others
<1>6. CASE WriteEvent(q) \/ WriteAudit(q)
  BY <1>6 DEF WriteEvent, WriteAudit, Goto, TypeOK, Others
<1>7. CASE Admit(q) \/ Conflict(q)
  BY <1>2, <1>7 DEF Admit, Conflict
<1> QED
  BY <1>1, <1>3, <1>4, <1>5, <1>6, <1>7

-----------------------------------------------------------------------------

LEMMA AnswerType ==
    ASSUME TypeOK, NEW q \in Requests, NEW says, NEW id \in Ids, Answer(q, says, id),
           says \in {"rejected", "accepted", "replayed", "reused", "error"}
    PROVE  /\ at' \in [Requests -> Open \cup {"unsent", "check", "done"}]
           /\ asked' \in [Requests -> Asked \cup {None}]
           /\ writes' \in [Requests -> SUBSET All]
           /\ actual' \in [Requests -> Ids]
           /\ answer' \in [Requests -> Answers \cup {None}]
<1>1. [says |-> says, id |-> id] \in Answers
  BY DEF Answers
<1> QED
  BY <1>1 DEF Answer, Goto, TypeOK, Ids, All

LEMMA TypeStep ==
    ASSUME TypeOK, CallShapes, [Next]_vars
    PROVE  TypeOK'
<1>1. CASE UNCHANGED vars
  BY <1>1 DEF vars, tables, TypeOK
<1>2. ASSUME NEW q \in Requests, Receive(q)
      PROVE  TypeOK'
  <2>1. asked' \in [Requests -> Asked \cup {None}]
    <3>1. PICK k \in Keys \cup {Invalid}, b \in Bodies \cup {Invalid} :
            asked' = [asked EXCEPT ![q] = [key |-> k, body |-> b]]
      BY <1>2 DEF Receive
    <3>2. [key |-> k, body |-> b] \in Asked
      BY DEF Asked
    <3> QED
      BY <3>1, <3>2 DEF TypeOK
  <2> QED
    BY <1>2, <2>1 DEF Receive, Goto, TypeOK, tables
<1>3. ASSUME NEW q \in Requests, Refuse(q)
      PROVE  TypeOK'
  <2>1. PICK says \in {"rejected", "reused", "error"} : Answer(q, says, None)
    BY <1>3 DEF Refuse
  <2>2. UNCHANGED tables
    BY <1>3 DEF Refuse
  <2> QED
    BY <2>1, <2>2, AnswerType DEF TypeOK, tables, Ids, All
<1>4. ASSUME NEW q \in Requests, Admit(q) \/ Conflict(q)
      PROVE  TypeOK'
  BY <1>4 DEF Admit, Conflict, Advance, Goto, tables, TypeOK, Open
<1>5. ASSUME NEW q \in Requests, InsertRow(q)
      PROVE  TypeOK'
  BY <1>5 DEF InsertRow, Advance, Goto, tables, TypeOK, Open, Ids
<1>6. ASSUME NEW q \in Requests, Found(q)
      PROVE  TypeOK'
  <2>1. PICK r \in rows : actual' = [actual EXCEPT ![q] = r.id]
    BY <1>6 DEF Found, Stored
  <2>2. r.id \in Requests
    BY DEF TypeOK
  <2> QED
    BY <1>6, <2>1, <2>2 DEF Found, Advance, Goto, tables, TypeOK, Open, Ids
<1>7. ASSUME NEW q \in Requests, WriteEvent(q) \/ WriteAudit(q)
      PROVE  TypeOK'
  BY <1>7 DEF WriteEvent, WriteAudit, Goto, tables, TypeOK, Open
<1>8. ASSUME NEW q \in Requests, Replayed(q)
      PROVE  TypeOK'
  <2>1. PICK says \in {"replayed", "error"}, id \in Ids : Answer(q, says, id)
    BY <1>8 DEF Replayed, TypeOK, Ids
  <2> QED
    BY <1>8, <2>1, AnswerType DEF Replayed, TypeOK, tables, All
<1>9. ASSUME NEW q \in Requests, Accepted(q)
      PROVE  TypeOK'
  <2>1. PICK says \in {"accepted", "error"}, id \in Ids : Answer(q, says, id)
    BY <1>9 DEF Accepted, Ids
  <2>2. asked[q].key \in Keys /\ asked[q].body \in Bodies
    BY <1>9 DEF Accepted, CallShapes, CallShape, Open
  <2>3. RowFor(q, q) \in [id : Requests, key : Keys, body : Bodies]
    BY <2>2 DEF RowFor
  <2>4. rows' \subseteq [id : Requests, key : Keys, body : Bodies]
    BY <1>9, <2>3 DEF Accepted, TypeOK
  <2>5. outbox' \in [Requests -> Nat] /\ submitted' \in [Requests -> Nat]
    BY <1>9 DEF Accepted, TypeOK
  <2> QED
    BY <2>1, <2>4, <2>5, AnswerType DEF TypeOK, All
<1> QED
  BY <1>1, <1>2, <1>3, <1>4, <1>5, <1>6, <1>7, <1>8, <1>9, StepCases

-----------------------------------------------------------------------------

(* A call's shape says nothing that another call's step can make false.    *)
LEMMA ShapeOfOthers ==
    ASSUME CallShapes, NEW q \in Requests, Others(q), rows \subseteq rows',
           NEW p \in Requests \ {q}
    PROVE  CallShape(p)'
<1>1. RowFor(p, actual[p])' = RowFor(p, actual[p])
  BY DEF Others, RowFor
<1>2. CallShape(p)
  BY DEF CallShapes
<1> QED
  BY <1>1, <1>2 DEF CallShape, Others

LEMMA ShapeStep ==
    ASSUME TypeOK, CallShapes, [Next]_vars
    PROVE  CallShapes'
<1>1. CASE UNCHANGED vars
  BY <1>1 DEF vars, tables, CallShapes, CallShape, RowFor
<1>2. ASSUME NEW q \in Requests, CallShape(q)', rows \subseteq rows', Others(q)
      PROVE  CallShapes'
  BY <1>2, ShapeOfOthers DEF CallShapes
<1>3. ASSUME NEW q \in Requests, Receive(q)
      PROVE  CallShape(q)'
  <2>1. asked'[q] # None
    <3>1. PICK k \in Keys \cup {Invalid}, b \in Bodies \cup {Invalid} :
            asked' = [asked EXCEPT ![q] = [key |-> k, body |-> b]]
      BY <1>3 DEF Receive
    <3>2. [key |-> k, body |-> b] \in [key : Keys \cup {Invalid}, body : Bodies \cup {Invalid}]
      OBVIOUS
    <3>3. [key |-> k, body |-> b] # None
      BY <3>2, RequestAssumption
    <3> QED
      BY <3>1, <3>3 DEF TypeOK
  <2>2. at'[q] = "check" /\ at[q] = "unsent" /\ writes' = writes /\ answer' = answer
    BY <1>3 DEF Receive, Goto, TypeOK
  <2>3. writes[q] = {} /\ answer[q] = None
    BY <2>2 DEF CallShapes, CallShape
  <2> QED
    BY <2>1, <2>2, <2>3 DEF CallShape, Open
<1>4. ASSUME NEW q \in Requests, Refuse(q) \/ Replayed(q) \/ Accepted(q)
      PROVE  CallShape(q)'
  <2>1. \E says, id : Answer(q, says, id)
    BY <1>4 DEF Refuse, Replayed, Accepted
  <2>2. at[q] # "unsent"
    BY <1>4 DEF Refuse, Replayed, Accepted, Open
  <2>3. asked[q] # None
    BY <2>2 DEF CallShapes, CallShape
  <2>4. at'[q] = "done" /\ asked'[q] = asked[q] /\ writes'[q] = {}
    BY <2>1, AnswerEffect
  <2> QED
    BY <2>3, <2>4 DEF CallShape, Open
<1>5. ASSUME NEW q \in Requests, Admit(q)
      PROVE  CallShape(q)'
  <2>1. at[q] = "check" /\ at'[q] = "insert" /\ UNCHANGED <<asked, answer, writes>>
    BY <1>5 DEF Admit, Advance, Goto, TypeOK
  <2>2. asked[q] # None /\ writes[q] = {} /\ answer[q] = None
    BY <2>1 DEF CallShapes, CallShape
  <2>3. asked[q].key \in Keys /\ asked[q].body \in Bodies
    BY <1>5, <2>2 DEF Admit, TypeOK, Asked
  <2> QED
    BY <2>1, <2>2, <2>3 DEF CallShape
<1>6. ASSUME NEW q \in Requests, Conflict(q)
      PROVE  CallShape(q)'
  <2>1. at[q] = "insert" /\ at'[q] = "find" /\ UNCHANGED <<asked, answer, writes>>
    BY <1>6 DEF Conflict, Advance, Goto, TypeOK
  <2> QED
    BY <2>1 DEF CallShapes, CallShape, Open
<1>7. ASSUME NEW q \in Requests, InsertRow(q)
      PROVE  CallShape(q)'
  <2>1. /\ at[q] = "insert" /\ at'[q] = "event" /\ UNCHANGED <<asked, answer>>
        /\ writes'[q] = {"row"} /\ actual'[q] = q
    BY <1>7 DEF InsertRow, Advance, Goto, TypeOK
  <2> QED
    BY <2>1 DEF CallShapes, CallShape, Open
<1>8. ASSUME NEW q \in Requests, Found(q)
      PROVE  CallShape(q)'
  <2>1. /\ at[q] = "find" /\ at'[q] = "commit" /\ UNCHANGED <<asked, answer, writes, rows>>
    BY <1>8 DEF Found, Advance, Goto, TypeOK, tables
  <2>2. PICK r \in rows : r.key = asked[q].key /\ r.body = asked[q].body
                          /\ actual' = [actual EXCEPT ![q] = r.id]
    BY <1>8 DEF Found, Stored
  <2>3. actual'[q] = r.id
    BY <2>2 DEF TypeOK
  <2>4. r = [id |-> r.id, key |-> r.key, body |-> r.body]
    BY DEF TypeOK
  <2>5. RowFor(q, actual[q])' \in rows'
    BY <2>1, <2>2, <2>3, <2>4 DEF RowFor
  <2>6. asked[q] # None /\ asked[q].key \in Keys /\ asked[q].body \in Bodies
        /\ answer[q] = None /\ writes[q] = {}
    BY <2>1 DEF CallShapes, CallShape, Open
  <2> QED
    BY <2>1, <2>5, <2>6 DEF CallShape
<1>9. ASSUME NEW q \in Requests, WriteEvent(q) \/ WriteAudit(q)
      PROVE  CallShape(q)'
  <2>1. UNCHANGED <<asked, answer, actual>>
    BY <1>9 DEF WriteEvent, WriteAudit
  <2>2. \/ at[q] = "event" /\ at'[q] = "audit" /\ writes'[q] = writes[q] \cup {"event"}
        \/ at[q] = "audit" /\ at'[q] = "commit" /\ writes'[q] = writes[q] \cup {"audit"}
    BY <1>9 DEF WriteEvent, WriteAudit, Goto, TypeOK
  <2>3. CallShape(q)
    BY DEF CallShapes
  <2>4. CASE at[q] = "event"
    <3>1. /\ at'[q] = "audit" /\ writes'[q] = {"row", "event"} /\ actual'[q] = q
          /\ asked[q] # None /\ answer[q] = None
          /\ asked[q].key \in Keys /\ asked[q].body \in Bodies
      BY <2>1, <2>2, <2>3, <2>4 DEF CallShape, Open
    <3> QED
      BY <2>1, <3>1 DEF CallShape
  <2>5. CASE at[q] = "audit"
    <3>1. /\ at'[q] = "commit" /\ writes'[q] = All /\ actual'[q] = q
          /\ asked[q] # None /\ answer[q] = None
          /\ asked[q].key \in Keys /\ asked[q].body \in Bodies
      BY <2>1, <2>2, <2>3, <2>5 DEF CallShape, Open, All
    <3>2. writes'[q] # {}
      BY <3>1 DEF All
    <3> QED
      BY <2>1, <3>1, <3>2 DEF CallShape
  <2> QED
    BY <2>2, <2>4, <2>5
<1>10. ASSUME NEW q \in Requests,
              \/ Receive(q) \/ Refuse(q) \/ Admit(q) \/ Conflict(q) \/ InsertRow(q)
              \/ Found(q) \/ WriteEvent(q) \/ WriteAudit(q) \/ Replayed(q) \/ Accepted(q)
       PROVE  rows \subseteq rows'
  BY <1>10 DEF Receive, Refuse, Admit, Conflict, InsertRow, Found, WriteEvent, WriteAudit,
     Replayed, Accepted, Advance, tables
<1> QED
  BY <1>1, <1>2, <1>3, <1>4, <1>5, <1>6, <1>7, <1>8, <1>9, <1>10, StepCases, Effects

-----------------------------------------------------------------------------
(* The steps that leave the tables alone and those that do not.            *)

Quiet(q) ==
    /\ Others(q)
    /\ at[q] # "done"
    /\ UNCHANGED tables
    /\ writes'[q] = {} \/ (writes[q] # {} /\ asked'[q] = asked[q])

LEMMA QuietSteps ==
    ASSUME TypeOK, CallShapes, NEW q \in Requests,
           \/ Receive(q) \/ Refuse(q) \/ Admit(q) \/ Conflict(q)
           \/ Found(q) \/ WriteEvent(q) \/ WriteAudit(q) \/ Replayed(q)
    PROVE  Quiet(q)
<1>1. Others(q) /\ at[q] # "done"
  BY Effects
<1>2. UNCHANGED tables
  BY DEF Receive, Refuse, Admit, Conflict, Found, WriteEvent, WriteAudit, Replayed, Advance
<1>3. CASE Receive(q) \/ Admit(q) \/ Conflict(q) \/ Found(q)
  <2>1. writes' = writes /\ at[q] \in {"unsent", "check", "insert", "find"}
    BY <1>3 DEF Receive, Admit, Conflict, Found, Advance
  <2>2. writes[q] = {}
    BY <2>1 DEF CallShapes, CallShape
  <2> QED
    BY <1>1, <1>2, <2>1, <2>2 DEF Quiet
<1>4. CASE Refuse(q) \/ Replayed(q)
  <2>1. \E says, id : Answer(q, says, id)
    BY <1>4 DEF Refuse, Replayed
  <2> QED
    BY <1>1, <1>2, <2>1, AnswerEffect DEF Quiet
<1>5. CASE WriteEvent(q) \/ WriteAudit(q)
  <2>1. asked' = asked /\ at[q] \in {"event", "audit"}
    BY <1>5 DEF WriteEvent, WriteAudit
  <2>2. writes[q] # {}
    BY <2>1 DEF CallShapes, CallShape
  <2> QED
    BY <1>1, <1>2, <2>1, <2>2 DEF Quiet
<1> QED
  BY <1>3, <1>4, <1>5

LEMMA KeysStep ==
    ASSUME TypeOK, CallShapes, KeysUnique, [Next]_vars
    PROVE  KeysUnique'
<1>1. CASE UNCHANGED vars
  BY <1>1 DEF vars, tables, KeysUnique
<1>2. ASSUME NEW q \in Requests, Quiet(q)
      PROVE  KeysUnique'
  <2>1. rows' = rows
    BY <1>2 DEF Quiet, tables
  <2>2. \A r \in rows : at'[r.id] = "done"
    <3>1. \A r \in rows : r.id \in Requests /\ at[r.id] = "done"
      BY DEF TypeOK, KeysUnique
    <3> QED
      BY <1>2, <3>1 DEF Quiet, Others
  <2>3. \A p \in Requests :
          writes'[p] # {} => writes[p] # {} /\ asked'[p] = asked[p]
    BY <1>2 DEF Quiet, Others
  <2> QED
    BY <2>1, <2>2, <2>3 DEF KeysUnique
<1>3. ASSUME NEW q \in Requests, InsertRow(q)
      PROVE  KeysUnique'
  <2>1. rows' = rows /\ asked' = asked /\ at[q] = "insert"
    BY <1>3 DEF InsertRow, Advance, tables
  <2>2. Others(q)
    BY <1>3, Effects
  <2>3. \A r \in rows : at'[r.id] = "done"
    <3>1. \A r \in rows : r.id \in Requests /\ at[r.id] = "done"
      BY DEF TypeOK, KeysUnique
    <3> QED
      BY <2>1, <2>2, <3>1 DEF Others
  <2>4. \A r \in rows : r.key # asked[q].key
    BY <1>3 DEF InsertRow, Stored
  <2>5. \A p \in Requests \ {q} :
          writes'[p] # {} => writes'[p] = writes[p] /\ asked[p].key # asked[q].key
    <3>1. ASSUME NEW p \in Requests, writes[p] # {}
          PROVE  "row" \in writes[p]
      BY <3>1 DEF CallShapes, CallShape, All
    <3> QED
      BY <1>3, <2>2, <3>1 DEF InsertRow, Inserting, Others
  <2>6. \A p \in Requests, r \in rows' : writes'[p] # {} => r.key # asked'[p].key
    BY <2>1, <2>4, <2>5 DEF KeysUnique
  <2>7. \A p, o \in Requests :
          writes'[p] # {} /\ writes'[o] # {} /\ asked'[p].key = asked'[o].key => p = o
    BY <2>1, <2>5 DEF KeysUnique
  <2> QED
    BY <2>1, <2>3, <2>6, <2>7 DEF KeysUnique
<1>4. ASSUME NEW q \in Requests, Accepted(q)
      PROVE  KeysUnique'
  <2> DEFINE new == RowFor(q, q)
  <2>1. /\ rows' = rows \cup {new} /\ writes[q] # {} /\ at[q] = "commit"
        /\ new.id = q /\ new.key = asked[q].key
    BY <1>4 DEF Accepted, All, RowFor
  <2>2. at'[q] = "done" /\ asked'[q] = asked[q] /\ writes'[q] = {} /\ Others(q)
    BY <1>4, AnswerEffect DEF Accepted
  <2>3. \A r \in rows : r.id \in Requests /\ r.id # q /\ at[r.id] = "done"
                        /\ r.key # asked[q].key
    BY <2>1 DEF TypeOK, KeysUnique
  <2>4. \A r \in rows' : at'[r.id] = "done"
    BY <2>1, <2>2, <2>3 DEF Others
  <2>5. \A r, s \in rows' : r.key = s.key \/ r.id = s.id => r = s
    BY <2>1, <2>3 DEF KeysUnique
  <2>6. \A p \in Requests :
          writes'[p] # {} => p # q /\ writes[p] # {} /\ asked'[p] = asked[p]
                             /\ asked[p].key # asked[q].key
    BY <2>1, <2>2 DEF Others, KeysUnique
  <2>7. \A p \in Requests, r \in rows' : writes'[p] # {} => r.key # asked'[p].key
    <3> HIDE DEF new
    <3> QED
      BY <2>1, <2>6 DEF KeysUnique
  <2>8. \A p, o \in Requests :
          writes'[p] # {} /\ writes'[o] # {} /\ asked'[p].key = asked'[o].key => p = o
    BY <2>6 DEF KeysUnique
  <2> QED
    BY <2>4, <2>5, <2>7, <2>8 DEF KeysUnique
<1> QED
  BY <1>1, <1>2, <1>3, <1>4, StepCases, QuietSteps

LEMMA CountedStep ==
    ASSUME TypeOK, CallShapes, KeysUnique, Counted, [Next]_vars
    PROVE  Counted'
<1>1. CASE UNCHANGED tables
  BY <1>1 DEF tables, Counted, Rowed
<1>2. ASSUME NEW q \in Requests, Accepted(q)
      PROVE  Counted'
  <2>1. /\ rows' = rows \cup {RowFor(q, q)} /\ RowFor(q, q).id = q
        /\ at[q] = "commit"
    BY <1>2 DEF Accepted, RowFor
  <2>2. ~Rowed(q)
    BY <2>1 DEF Rowed, KeysUnique
  <2>3. outbox'[q] = 1 /\ submitted'[q] = 1
    BY <1>2, <2>2 DEF Accepted, TypeOK, Counted
  <2>4. \A t \in Requests \ {q} :
          outbox'[t] = outbox[t] /\ submitted'[t] = submitted[t] /\ (Rowed(t)' <=> Rowed(t))
    BY <1>2, <2>1 DEF Accepted, TypeOK, Rowed
  <2>5. Rowed(q)'
    BY <2>1 DEF Rowed
  <2> QED
    BY <2>3, <2>4, <2>5 DEF Counted
<1>3. ASSUME NEW q \in Requests, InsertRow(q)
      PROVE  UNCHANGED tables
  BY <1>3 DEF InsertRow, Advance
<1>4. ASSUME UNCHANGED vars
      PROVE  UNCHANGED tables
  BY <1>4 DEF vars
<1> QED
  BY <1>1, <1>2, <1>3, <1>4, StepCases, QuietSteps DEF Quiet

LEMMA AnsweredStep ==
    ASSUME TypeOK, CallShapes, Answered, [Next]_vars
    PROVE  Answered'
<1>1. CASE UNCHANGED vars
  BY <1>1 DEF vars, tables, Answered, ToldRight, ToldOf, RowFor
<1>2. ASSUME NEW q \in Requests, ToldRight(q)', rows \subseteq rows', Others(q)
      PROVE  Answered'
  <2>1. ASSUME NEW p \in Requests \ {q}
        PROVE  ToldRight(p)'
    <3>1. ToldOf(p)' = ToldOf(p) /\ RowFor(p, ToldOf(p))' = RowFor(p, ToldOf(p))
      BY <1>2 DEF Others, ToldOf, RowFor
    <3>2. answer'[p] = answer[p] /\ ToldRight(p)
      BY <1>2 DEF Others, Answered
    <3> QED
      BY <1>2, <3>1, <3>2 DEF ToldRight
  <2> QED
    BY <1>2, <2>1 DEF Answered
<1>3. ASSUME NEW q \in Requests, Others(q), answer' = answer, at[q] # "done",
             rows' = rows
      PROVE  Answered'
  <2>1. answer[q] = None
    BY <1>3 DEF CallShapes, CallShape
  <2>2. ToldRight(q)'
    BY <1>3, <2>1 DEF ToldRight, ToldOf
  <2> QED
    BY <1>2, <1>3, <2>2
<1>4. ASSUME NEW q \in Requests, NEW says, NEW id, Answer(q, says, id),
             rows \subseteq rows',
             id # None => /\ RowFor(q, id) \in rows'
                          /\ says = "replayed" \/ (says = "accepted" /\ id = q)
      PROVE  Answered'
  <2>1. /\ asked'[q] = asked[q] /\ answer'[q] = [says |-> says, id |-> id]
        /\ Others(q)
    BY <1>4, AnswerEffect
  <2>2. ToldOf(q)' # None => ToldOf(q)' = id
    BY <2>1 DEF ToldOf
  <2>3. RowFor(q, id)' = RowFor(q, id)
    BY <2>1 DEF RowFor
  <2>4. ToldRight(q)'
    BY <1>4, <2>1, <2>2, <2>3 DEF ToldRight, RowFor
  <2> QED
    BY <1>2, <1>4, <2>1, <2>4
<1>5. ASSUME NEW q \in Requests,
             \/ Receive(q) \/ Admit(q) \/ Conflict(q) \/ InsertRow(q) \/ Found(q)
             \/ WriteEvent(q) \/ WriteAudit(q)
      PROVE  Answered'
  <2>1. answer' = answer /\ rows' = rows
    BY <1>5 DEF Receive, Admit, Conflict, InsertRow, Found, WriteEvent, WriteAudit,
       Advance, tables
  <2> QED
    BY <1>3, <1>5, <2>1, Effects
<1>6. ASSUME NEW q \in Requests, Refuse(q)
      PROVE  Answered'
  <2>1. PICK says : Answer(q, says, None)
    BY <1>6 DEF Refuse
  <2> QED
    BY <1>4, <1>6, <2>1 DEF Refuse, tables
<1>7. ASSUME NEW q \in Requests, Replayed(q)
      PROVE  Answered'
  <2>1. RowFor(q, actual[q]) \in rows /\ rows' = rows
    BY <1>7 DEF Replayed, CallShapes, CallShape, tables
  <2> QED
    BY <1>4, <1>7, <2>1 DEF Replayed
<1>8. ASSUME NEW q \in Requests, Accepted(q)
      PROVE  Answered'
  <2>1. rows \subseteq rows' /\ RowFor(q, q) \in rows'
    BY <1>8 DEF Accepted
  <2> QED
    BY <1>4, <1>8, <2>1 DEF Accepted
<1> QED
  BY <1>1, <1>5, <1>6, <1>7, <1>8, StepCases

LEMMA InvHolds == Spec => []IngestionInv
<1>1. Init => IngestionInv
  BY RequestAssumption DEF Init, IngestionInv, TypeOK, Ids, CallShapes, CallShape, KeysUnique,
     Counted, Rowed, Answered, ToldRight, ToldOf, Open
<1>2. IngestionInv /\ [Next]_vars => IngestionInv'
  BY TypeStep, ShapeStep, KeysStep, CountedStep, AnsweredStep DEF IngestionInv
<1> QED
  BY <1>1, <1>2, PTL DEF Spec

(* Every variable of the ingestion service keeps its type, so that a row   *)
(* is only ever stored for a valid key and body (submit_transaction).      *)
THEOREM TypeCorrect == Spec => []TypeOK
  BY InvHolds, PTL DEF IngestionInv

(* All clients that are told of a transaction for one key are told of the  *)
(* same one, whatever requests run at once, fail or are retried            *)
(* (idempotency_check_and_insert).                                         *)
THEOREM ClientsAgree == Spec => []AnswersAgree
<1>1. ASSUME IngestionInv
      PROVE  AnswersAgree
  <2> USE <1>1 DEF IngestionInv
  <2>1. ASSUME NEW p \in Requests, ToldOf(p) # None
        PROVE  /\ RowFor(p, ToldOf(p)) \in rows
               /\ answer[p].says = "replayed" \/ ToldOf(p) = p
    BY <2>1 DEF Answered, ToldRight
  <2>2. ASSUME NEW p \in Requests, NEW q \in Requests,
               ToldOf(p) # None, ToldOf(q) # None, asked[p].key = asked[q].key
        PROVE  /\ ToldOf(p) = ToldOf(q)
               /\ p # q => "replayed" \in {answer[p].says, answer[q].says}
    <3>1. RowFor(p, ToldOf(p)) = RowFor(q, ToldOf(q))
      <4>1. RowFor(p, ToldOf(p)).key = RowFor(q, ToldOf(q)).key
        BY <2>2 DEF RowFor
      <4> QED
        BY <2>1, <2>2, <4>1 DEF KeysUnique
    <3>2. ToldOf(p) = ToldOf(q)
      BY <3>1 DEF RowFor
    <3> QED
      BY <2>1, <2>2, <3>2
  <2> QED
    BY <2>1, <2>2 DEF AnswersAgree, RowFor
<1> QED
  BY <1>1, InvHolds, PTL

(* A stored transaction has exactly one event and one audit record, and    *)
(* what is not stored has neither (the three inserts of                    *)
(* idempotency_check_and_insert and their commit).                         *)
THEOREM EventsMatchRows == Spec => []AnnouncedOnce
<1>1. ASSUME IngestionInv
      PROVE  AnnouncedOnce
  <2> SUFFICES ASSUME NEW t \in Requests
               PROVE  LET n == Cardinality({r \in rows : r.id = t}) IN
                      n <= 1 /\ outbox[t] = n /\ submitted[t] = n
    BY DEF AnnouncedOnce
  <2> DEFINE found == {r \in rows : r.id = t}
  <2>1. CASE Rowed(t)
    <3>1. PICK r \in rows : r.id = t
      BY <2>1 DEF Rowed
    <3>2. found = {r}
      BY <1>1, <3>1 DEF IngestionInv, KeysUnique
    <3>3. Cardinality(found) = 1
      BY <3>2, FS_Singleton
    <3>4. outbox[t] = 1 /\ submitted[t] = 1
      BY <1>1, <2>1 DEF IngestionInv, Counted
    <3> QED
      BY <3>3, <3>4
  <2>2. CASE ~Rowed(t)
    <3>1. found = {}
      BY <2>2 DEF Rowed
    <3>2. Cardinality(found) = 0
      BY <3>1, FS_EmptySet
    <3>3. outbox[t] = 0 /\ submitted[t] = 0
      BY <1>1, <2>2 DEF IngestionInv, Counted
    <3> QED
      BY <3>2, <3>3
  <2> QED
    BY <2>1, <2>2
<1> QED
  BY <1>1, InvHolds, PTL

-----------------------------------------------------------------------------
(* Ingestion implements Submissions.                                       *)

AcceptedFor(k) ==
    IF Stored(k) = {} THEN None
    ELSE LET r == CHOOSE r \in Stored(k) : TRUE
         IN [id |-> r.id, body |-> r.body]

LEMMA AcceptedRow ==
    ASSUME KeysUnique, NEW k, NEW r \in rows, r.key = k
    PROVE  AcceptedFor(k) = [id |-> r.id, body |-> r.body]
<1>1. Stored(k) = {r}
  BY DEF Stored, KeysUnique
<1> QED
  BY <1>1 DEF AcceptedFor

LEMMA SubmissionStep ==
    ASSUME IngestionInv, [Next]_vars
    PROVE  [Submit!Next]_(Submit!submissionVars)
<1> DEFINE accepted == [k \in Keys |-> AcceptedFor(k)]
<1>0. TypeOK /\ CallShapes /\ KeysUnique /\ Counted /\ KeysUnique'
  BY KeysStep DEF IngestionInv
<1>1. ASSUME UNCHANGED rows
      PROVE  UNCHANGED accepted
  BY <1>1 DEF AcceptedFor, Stored
<1>2. ASSUME UNCHANGED <<rows, outbox, asked, answer>>
      PROVE  UNCHANGED Submit!submissionVars
  BY <1>1, <1>2 DEF Submit!submissionVars, AcceptedFor
<1>3. CASE UNCHANGED vars
  BY <1>2, <1>3 DEF vars, tables
<1>4. ASSUME NEW q \in Requests, Receive(q)
      PROVE  Submit!Ask(q)
  <2>1. asked[q] = None
    BY <1>0, <1>4 DEF Receive, CallShapes, CallShape
  <2>2. \E a \in Submit!Asked : asked' = [asked EXCEPT ![q] = a]
    BY <1>4 DEF Receive, Submit!Asked
  <2>3. UNCHANGED <<accepted, outbox, answer>>
    BY <1>1, <1>4 DEF Receive, tables
  <2> QED
    BY <2>1, <2>2, <2>3 DEF Submit!Ask, AcceptedFor
<1>5. ASSUME NEW q \in Requests,
             Admit(q) \/ Conflict(q) \/ InsertRow(q) \/ Found(q) \/ WriteEvent(q) \/ WriteAudit(q)
      PROVE  UNCHANGED Submit!submissionVars
  BY <1>2, <1>5 DEF Admit, Conflict, InsertRow, Found, WriteEvent, WriteAudit, Advance, tables
<1>6. ASSUME NEW q \in Requests, NEW says, NEW id, Answer(q, says, id),
             at[q] \in Open \cup {"check"}
      PROVE  Submit!Answer(q, says, id) /\ asked[q] # None
  <2>1. asked[q] # None /\ answer[q] = None
    BY <1>0, <1>6 DEF CallShapes, CallShape, Open
  <2> QED
    BY <1>6, <2>1 DEF Answer, Submit!Answer
<1>7. ASSUME NEW q \in Requests, Answer(q, "error", None), UNCHANGED tables,
             at[q] \in Open
      PROVE  Submit!FailRequest(q)
  BY <1>1, <1>6, <1>7 DEF Submit!FailRequest, tables, AcceptedFor
<1>8. ASSUME NEW q \in Requests, Refuse(q)
      PROVE  Submit!Reject(q) \/ Submit!FailRequest(q) \/ Submit!Reuse(q)
  <2>1. UNCHANGED <<accepted, outbox>>
    BY <1>1, <1>8 DEF Refuse, tables
  <2>2. CASE Invalid \in {asked[q].key, asked[q].body} /\ Answer(q, "rejected", None)
    <3>1. Submit!Answer(q, "rejected", None)
      BY <1>6, <1>8, <2>2 DEF Refuse
    <3> QED
      BY <2>1, <2>2, <3>1 DEF Submit!Reject, AcceptedFor
  <2>3. CASE at[q] \in Open /\ Answer(q, "error", None)
    BY <1>7, <1>8, <2>3 DEF Refuse
  <2>4. CASE /\ at[q] = "find"
             /\ \E r \in Stored(asked[q].key) : r.body # asked[q].body
             /\ Answer(q, "reused", None)
    <3>1. PICK r \in rows : r.key = asked[q].key /\ r.body # asked[q].body
      BY <2>4 DEF Stored
    <3>2. asked[q].key \in Keys
      BY <1>0, <2>4 DEF CallShapes, CallShape, Open
    <3>3. accepted[asked[q].key] = [id |-> r.id, body |-> r.body]
      BY <1>0, <3>1, <3>2, AcceptedRow
    <3>4. [id |-> r.id, body |-> r.body] # None
      <4>1. r.id \in Requests /\ r.body \in Bodies
        BY <1>0 DEF TypeOK
      <4>2. [id |-> r.id, body |-> r.body] \in [id : Requests, body : Bodies]
        BY <4>1
      <4> QED
        BY <4>2, RequestAssumption
    <3>5. Submit!Answer(q, "reused", None) /\ asked[q] # None
      BY <1>6, <2>4 DEF Open
    <3> QED
      BY <2>1, <3>1, <3>2, <3>3, <3>4, <3>5 DEF Submit!Reuse, AcceptedFor
  <2> QED
    BY <1>8, <2>2, <2>3, <2>4 DEF Refuse
<1>9. ASSUME NEW q \in Requests, Replayed(q)
      PROVE  Submit!Replay(q) \/ Submit!FailRequest(q)
  <2>1. CASE Answer(q, "error", None)
    BY <1>7, <1>9, <2>1 DEF Replayed, Open
  <2>2. CASE Answer(q, "replayed", actual[q])
    <3> DEFINE r == RowFor(q, actual[q])
    <3>1. r \in rows /\ asked[q].key \in Keys
      BY <1>0, <1>9 DEF Replayed, CallShapes, CallShape, Open
    <3>2. r.id = actual[q] /\ r.key = asked[q].key /\ r.body = asked[q].body
      BY DEF RowFor
    <3>3. accepted[asked[q].key] = [id |-> actual[q], body |-> asked[q].body]
      <4> HIDE DEF r
      <4> QED
        BY <1>0, <3>1, <3>2, AcceptedRow
    <3>4. [id |-> actual[q], body |-> asked[q].body] # None
      <4>1. actual[q] \in Requests /\ asked[q].body \in Bodies
        <5> HIDE DEF r
        <5> QED
          BY <1>0, <3>1, <3>2 DEF TypeOK
      <4>2. [id |-> actual[q], body |-> asked[q].body] \in [id : Requests, body : Bodies]
        BY <4>1
      <4> QED
        BY <4>2, RequestAssumption
    <3>5. Submit!Answer(q, "replayed", actual[q]) /\ asked[q] # None
      BY <1>6, <1>9, <2>2 DEF Replayed, Open
    <3>6. UNCHANGED <<accepted, outbox>>
      BY <1>1, <1>9 DEF Replayed, tables
    <3> QED
      BY <3>1, <3>3, <3>4, <3>5, <3>6 DEF Submit!Replay, AcceptedFor
  <2> QED
    BY <1>9, <2>1, <2>2 DEF Replayed
<1>10. ASSUME NEW q \in Requests, Accepted(q)
       PROVE  Submit!Accept(q)
  <2> DEFINE new == RowFor(q, q)
  <2>0. PICK k \in Keys : k = asked[q].key
    BY <1>0, <1>10 DEF Accepted, CallShapes, CallShape, Open
  <2>1. /\ asked[q].body \in Bodies
        /\ at[q] = "commit" /\ writes[q] # {}
    BY <1>0, <1>10 DEF Accepted, CallShapes, CallShape, Open, All
  <2>2. Invalid \notin {k, asked[q].body}
    BY <2>0, <2>1, RequestAssumption
  <2>3. Submit!Answer(q, "accepted", q) \/ Submit!Answer(q, "error", None)
    BY <1>6, <1>10, <2>1 DEF Accepted, Open
  <2>4. accepted[k] = None
    BY <1>0, <2>0, <2>1 DEF KeysUnique, Stored, AcceptedFor
  <2>5. new.id = q /\ new.key = k /\ new.body = asked[q].body /\ rows' = rows \cup {new}
    BY <1>10, <2>0 DEF Accepted, RowFor
  <2>6. AcceptedFor(k)' = [id |-> q, body |-> asked[q].body]
    <3>1. Stored(k)' = {new}
      <4>1. \A r \in rows : r.key # k
        BY <1>0, <2>0, <2>1 DEF KeysUnique
      <4> HIDE DEF new
      <4> QED
        BY <2>5, <4>1 DEF Stored
    <3>2. new.id = q /\ new.body = asked[q].body
      BY <2>5
    <3> HIDE DEF new
    <3>3. (CHOOSE r \in Stored(k)' : TRUE) = new /\ Stored(k)' # {}
      BY <3>1
    <3> QED
      BY <3>2, <3>3 DEF AcceptedFor
  <2>7. \A j \in Keys \ {k} : AcceptedFor(j)' = AcceptedFor(j)
    BY <2>5 DEF AcceptedFor, Stored
  <2>8. accepted' = [accepted EXCEPT ![k] = [id |-> q, body |-> asked[q].body]]
    BY <2>6, <2>7
  <2>9. outbox' = [outbox EXCEPT ![q] = 1]
    <3>1. outbox[q] = 0
      BY <1>0, <2>1 DEF Counted, Rowed, KeysUnique
    <3> QED
      BY <1>10, <3>1 DEF Accepted
  <2> QED
    BY <2>0, <2>2, <2>3, <2>4, <2>8, <2>9 DEF Submit!Accept, AcceptedFor
<1> QED
  BY <1>0, <1>3, <1>4, <1>5, <1>8, <1>9, <1>10, StepCases DEF Submit!Next

(* The ingestion service keeps the promise of Submissions: the first valid *)
(* request with a key is accepted and announced in one step, and every     *)
(* later one is answered from it.                                          *)
THEOREM ImplementsSubmissions == Spec => SubmissionSpec
<1>1. Init => Submit!Init
  BY DEF Init, Submit!Init, Stored
<1>2. IngestionInv /\ [Next]_vars => [Submit!Next]_(Submit!submissionVars)
  BY SubmissionStep
<1> QED
  BY <1>1, <1>2, InvHolds, PTL DEF Spec, SubmissionSpec, Submit!Spec

=============================================================================
