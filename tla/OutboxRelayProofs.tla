-------------------------- MODULE OutboxRelayProofs --------------------------
(***************************************************************************)
(* The outbox relay, for every number of relays, events, failures and      *)
(* outages.                                                                *)
(***************************************************************************)
EXTENDS OutboxRelay, FiniteSetTheorems, SequenceTheorems, TLAPS

-----------------------------------------------------------------------------
(* The inductive invariant.                                                *)

Sent(e) == \E r \in Relays : e \in published[r] \cup failed[r]

Types ==
    /\ status \in [Events -> {"ABSENT", "PENDING", "PUBLISHED", "FAILED"}]
    /\ retries \in [Events -> Nat]
    /\ lock \in [Events -> Relays \cup {None}]
    /\ topic \in Seq(Events)
    /\ up \in BOOLEAN
    /\ outages \in 0 .. MaxOutages
    /\ faults \in 0 .. MaxFaults
    /\ batch \in [Relays -> Seq(Events)]
    /\ published \in [Relays -> SUBSET Events]
    /\ failed \in [Relays -> SUBSET Events]

(* A relay works on what it has locked, and has sent an event or has it    *)
(* still to send, but not both.                                            *)
BatchesAreHeld ==
    \A r \in Relays :
        /\ \A i \in DOMAIN batch[r] : /\ batch[r][i] \in Holds(r)
                                      /\ batch[r][i] \notin published[r] \cup failed[r]
        /\ \A i, j \in DOMAIN batch[r] : i # j => batch[r][i] # batch[r][j]
        /\ published[r] \cup failed[r] \subseteq Holds(r)
        /\ published[r] \cap failed[r] = {}

LockedIsPending == \A e \in Events : lock[e] # None => status[e] = "PENDING"

(* An event that can still be sent has failures left. *)
RetriesLeft ==
    \A e \in Events :
        /\ status[e] \in {"ABSENT", "PENDING"} => retries[e] <= RetryLimit
        /\ retries[e] <= RetryLimit + 1
        /\ status[e] = "FAILED" => retries[e] = RetryLimit + 1

Appended(e) == \E i \in DOMAIN topic : topic[i] = e

AckedIsAppended ==
    /\ \A r \in Relays : \A e \in published[r] : Appended(e)
    /\ \A e \in Events : status[e] = "PUBLISHED" => Appended(e)

(* Every copy is accounted for: by a failure that is recorded, by a batch  *)
(* that was lost, or by the one send that is recorded or will be.          *)
CopiesCounted ==
    \A e \in Events :
        Copies(e) <= retries[e] + faults
                     + (IF status[e] = "PUBLISHED" \/ Sent(e) THEN 1 ELSE 0)

IInv ==
    /\ Types
    /\ BatchesAreHeld
    /\ LockedIsPending
    /\ RetriesLeft
    /\ AckedIsAppended
    /\ CopiesCounted

-----------------------------------------------------------------------------
(* Sequences and cardinalities.                                            *)

TimesIn(s, e) == Cardinality({i \in DOMAIN s : s[i] = e})

LEMMA CopiesType ==
    ASSUME NEW s \in Seq(Events), NEW e
    PROVE  /\ IsFiniteSet({i \in DOMAIN s : s[i] = e})
           /\ TimesIn(s, e) \in Nat
           /\ TimesIn(s, e) > 0 <=> \E i \in DOMAIN s : s[i] = e
<1> DEFINE C == {i \in DOMAIN s : s[i] = e}
<1>1. IsFiniteSet(1 .. Len(s)) /\ DOMAIN s = 1 .. Len(s)
  BY LenProperties, FS_Interval
<1>2. IsFiniteSet(C)
  BY <1>1, FS_Subset
<1>3. Cardinality(C) \in Nat /\ (Cardinality(C) = 0 <=> C = {})
  BY <1>2, FS_CardinalityType, FS_EmptySet
<1>4. C # {} <=> \E i \in DOMAIN s : s[i] = e
  OBVIOUS
<1> HIDE DEF C
<1>5. Cardinality(C) > 0 <=> \E i \in DOMAIN s : s[i] = e
  BY <1>3, <1>4
<1> QED
  BY <1>2, <1>3, <1>5 DEF C, TimesIn

(* Appending an event adds one copy of it and none of another. *)
LEMMA CopiesAppend ==
    ASSUME NEW s \in Seq(Events), NEW d \in Events, NEW e
    PROVE  TimesIn(Append(s, d), e) = TimesIn(s, e) + (IF d = e THEN 1 ELSE 0)
<1> DEFINE C == {i \in DOMAIN s : s[i] = e}
           n == Len(s) + 1
           D == {i \in DOMAIN Append(s, d) : Append(s, d)[i] = e}
<1>1. /\ Len(s) \in Nat
      /\ DOMAIN s = 1 .. Len(s)
      /\ DOMAIN Append(s, d) = 1 .. n
      /\ \A i \in 1 .. Len(s) : Append(s, d)[i] = s[i]
      /\ Append(s, d)[n] = d
  BY LenProperties, AppendProperties
<1>2. n \notin C
  BY <1>1
<1>3. D = IF d = e THEN C \cup {n} ELSE C
  BY <1>1
<1>4. IsFiniteSet(C)
  BY CopiesType
<1>5. Cardinality(C \cup {n}) = Cardinality(C) + 1
  BY <1>2, <1>4, FS_AddElement
<1>6. Cardinality(C) \in Nat
  BY <1>4, FS_CardinalityType
<1> HIDE DEF C, D, n
<1>7. Cardinality(D) = Cardinality(C) + (IF d = e THEN 1 ELSE 0)
  BY <1>3, <1>5, <1>6
<1> QED
  BY <1>7 DEF C, D, TimesIn

LEMMA CopiesNat ==
    ASSUME Types, NEW e
    PROVE  Copies(e) \in Nat /\ Copies(e) = TimesIn(topic, e)
<1>1. TimesIn(topic, e) \in Nat
  BY CopiesType DEF Types
<1> QED
  BY <1>1 DEF Copies, TimesIn

LEMMA AppendToTopic ==
    ASSUME Types, NEW e \in Events
    PROVE  /\ Append(topic, e) \in Seq(Events)
           /\ \A i \in DOMAIN topic : i \in DOMAIN Append(topic, e) /\ Append(topic, e)[i] = topic[i]
           /\ \E i \in DOMAIN Append(topic, e) : Append(topic, e)[i] = e
<1>1. /\ topic \in Seq(Events) /\ Len(topic) \in Nat /\ DOMAIN topic = 1 .. Len(topic)
  BY LenProperties DEF Types
<1>2. /\ Append(topic, e) \in Seq(Events)
      /\ DOMAIN Append(topic, e) = 1 .. (Len(topic) + 1)
      /\ \A i \in 1 .. Len(topic) : Append(topic, e)[i] = topic[i]
      /\ Append(topic, e)[Len(topic) + 1] = e
  BY <1>1, AppendProperties, LenProperties
<1>3. Len(topic) + 1 \in DOMAIN Append(topic, e)
  BY <1>1, <1>2
<1> QED
  BY <1>1, <1>2, <1>3

(* The rows a poll selects, in order, are a sequence without repetition. *)
LEMMA InOrderProperties ==
    ASSUME NEW S \in SUBSET Events, NEW s \in InOrder(S)
    PROVE  /\ s \in Seq(S)
           /\ \A i \in DOMAIN s : s[i] \in S
           /\ \A i, j \in DOMAIN s : i # j => s[i] # s[j]
<1>1. Cardinality(S) \in Nat
  BY EventsAssumption, FS_Subset, FS_CardinalityType
<1>2. /\ s \in [1 .. Cardinality(S) -> S]
      /\ \A i, j \in 1 .. Cardinality(S) : i < j => s[i] < s[j]
  BY DEF InOrder
<1>3. s \in Seq(S)
  BY <1>1, <1>2, SeqDef
<1>4. DOMAIN s = 1 .. Cardinality(S) /\ \A i \in DOMAIN s : s[i] \in Nat
  BY <1>2, EventsAssumption
<1>5. ASSUME NEW i \in DOMAIN s, NEW j \in DOMAIN s, i # j
      PROVE  s[i] # s[j]
  <2>1. s[i] < s[j] \/ s[j] < s[i]
    <3>1. i < j \/ j < i
      BY <1>1, <1>4, <1>5
    <3> QED
      BY <1>2, <1>4, <3>1
  <2> QED
    BY <1>4, <2>1
<1> QED
  BY <1>2, <1>3, <1>5

-----------------------------------------------------------------------------
(* The steps preserve the invariant.                                       *)

LEMMA InitIInv == Init => IInv
<1> SUFFICES ASSUME Init
             PROVE  IInv
  OBVIOUS
<1>1. Types
  BY RetryLimitAssumption, BoundsAssumption DEF Init, Types
<1>2. BatchesAreHeld /\ LockedIsPending /\ AckedIsAppended
  BY NoneAssumption DEF Init, BatchesAreHeld, LockedIsPending, AckedIsAppended
<1>3. RetriesLeft
  BY RetryLimitAssumption DEF Init, RetriesLeft
<1>4. CopiesCounted
  <2> SUFFICES ASSUME NEW e \in Events
               PROVE  Copies(e) <= retries[e] + faults + (IF status[e] = "PUBLISHED" \/ Sent(e) THEN 1 ELSE 0)
    BY DEF CopiesCounted
  <2>1. Copies(e) = 0
    <3>1. {i \in DOMAIN topic : topic[i] = e} = {}
      BY EmptySeq DEF Init
    <3> QED
      BY <3>1, FS_EmptySet DEF Copies
  <2>2. ~Sent(e)
    BY DEF Init, Sent
  <2> QED
    BY <2>1, <2>2 DEF Init
<1> QED
  BY <1>1, <1>2, <1>3, <1>4 DEF IInv

(* A step that changes neither a status, a lock, the topic nor what a      *)
(* relay has sent preserves the account of the copies.                     *)
LEMMA SameCopies ==
    ASSUME CopiesCounted, retries' = retries, faults' = faults, topic' = topic,
           published' = published, failed' = failed,
           \A e \in Events : status[e] = "PUBLISHED" <=> status'[e] = "PUBLISHED"
    PROVE  CopiesCounted'
  BY DEF CopiesCounted, Copies, Sent

LEMMA InsertStep ==
    ASSUME IInv, NEW e \in Events, Insert(e)
    PROVE  IInv'
<1> USE DEF IInv
<1>1. Types'
  BY DEF Types, Insert, kafkaVars, relayVars
<1>2. BatchesAreHeld'
  BY DEF BatchesAreHeld, Holds, Insert, kafkaVars, relayVars
<1>3. LockedIsPending'
  BY DEF Types, LockedIsPending, Insert
<1>4. RetriesLeft'
  BY DEF Types, RetriesLeft, Insert
<1>5. AckedIsAppended'
  BY DEF Types, AckedIsAppended, Appended, Insert, kafkaVars, relayVars
<1>6. CopiesCounted'
  BY SameCopies DEF Types, Insert, kafkaVars, relayVars
<1> QED
  BY <1>1, <1>2, <1>3, <1>4, <1>5, <1>6

LEMMA PollStep ==
    ASSUME IInv, NEW r \in Relays, Poll(r)
    PROVE  IInv'
<1> USE DEF IInv
<1> DEFINE pending == {e \in Events : Selectable(e)}
           oldest  == {e \in pending : Cardinality({d \in pending : d < e}) < BatchSize}
<1>1. PICK s \in InOrder(oldest) : batch' = [batch EXCEPT ![r] = s]
  BY DEF Poll
<1>2. /\ oldest \subseteq Events
      /\ \A e \in oldest : status[e] = "PENDING" /\ lock[e] = None
  BY DEF Selectable
<1>3. /\ Holds(r) = {}
      /\ lock' = [e \in Events |-> IF e \in oldest THEN r ELSE lock[e]]
      /\ status' = status /\ retries' = retries /\ topic' = topic
      /\ up' = up /\ outages' = outages /\ faults' = faults
      /\ published' = published /\ failed' = failed
  BY DEF Poll, kafkaVars
<1> HIDE DEF oldest, pending
<1>4. /\ s \in Seq(oldest)
      /\ \A i \in DOMAIN s : s[i] \in oldest
      /\ \A i, j \in DOMAIN s : i # j => s[i] # s[j]
  BY <1>2, InOrderProperties
<1>5. Types'
  <2>1. s \in Seq(Events)
    BY <1>2, <1>4, SeqMonotonic
  <2> QED
    BY <1>1, <1>3, <2>1 DEF Types
<1>6. BatchesAreHeld'
  <2> SUFFICES ASSUME NEW q \in Relays
               PROVE  /\ \A i \in DOMAIN batch'[q] :
                           /\ batch'[q][i] \in Holds(q)'
                           /\ batch'[q][i] \notin published[q] \cup failed[q]
                      /\ \A i, j \in DOMAIN batch'[q] : i # j => batch'[q][i] # batch'[q][j]
                      /\ published[q] \cup failed[q] \subseteq Holds(q)'
                      /\ published[q] \cap failed[q] = {}
    BY <1>3 DEF BatchesAreHeld
  <2>1. CASE q = r
    <3>1. batch'[q] = s
      BY <1>1, <2>1 DEF Types
    <3>2. published[q] = {} /\ failed[q] = {}
      BY <1>3, <2>1 DEF BatchesAreHeld
    <3>3. oldest \subseteq Holds(q)'
      BY <1>2, <1>3, <2>1 DEF Holds
    <3> QED
      BY <1>4, <3>1, <3>2, <3>3
  <2>2. CASE q # r
    <3>1. batch'[q] = batch[q]
      BY <1>1, <2>2 DEF Types
    <3>2. Holds(q) \subseteq Holds(q)'
      BY <1>2, <1>3, NoneAssumption DEF Holds
    <3> QED
      BY <3>1, <3>2 DEF BatchesAreHeld
  <2> QED
    BY <2>1, <2>2
<1>7. LockedIsPending'
  BY <1>2, <1>3 DEF LockedIsPending
<1>8. RetriesLeft' /\ AckedIsAppended'
  BY <1>3 DEF RetriesLeft, AckedIsAppended, Appended
<1>9. CopiesCounted'
  BY <1>3, SameCopies
<1> QED
  BY <1>5, <1>6, <1>7, <1>8, <1>9

(* The event a relay sends: locked by it, PENDING, and sent by nobody. *)
LEMMA NextEvent ==
    ASSUME IInv, NEW r \in Relays, batch[r] # <<>>
    PROVE  /\ Head(batch[r]) \in Events
           /\ lock[Head(batch[r])] = r
           /\ status[Head(batch[r])] = "PENDING"
           /\ ~Sent(Head(batch[r]))
           /\ Tail(batch[r]) \in Seq(Events)
           /\ \A i \in DOMAIN Tail(batch[r]) :
                i + 1 \in DOMAIN batch[r] /\ Tail(batch[r])[i] = batch[r][i + 1]
           /\ \A i \in DOMAIN Tail(batch[r]) : Tail(batch[r])[i] # Head(batch[r])
<1> DEFINE s == batch[r]
<1>1. s \in Seq(Events)
  BY DEF IInv, Types
<1>2. /\ Len(s) \in Nat \ {0} /\ DOMAIN s = 1 .. Len(s)
      /\ Head(s) = s[1] /\ Head(s) \in Events
  BY <1>1, EmptySeq, LenProperties, HeadTailProperties
<1>3. /\ Tail(s) \in Seq(Events)
      /\ DOMAIN Tail(s) = 1 .. (Len(s) - 1)
      /\ \A i \in 1 .. (Len(s) - 1) : Tail(s)[i] = s[i + 1]
  BY <1>1, HeadTailProperties, LenProperties
<1>4. /\ \A i \in DOMAIN s : s[i] \in Holds(r) /\ s[i] \notin published[r] \cup failed[r]
      /\ \A i, j \in DOMAIN s : i # j => s[i] # s[j]
  BY DEF IInv, BatchesAreHeld
<1> HIDE DEF s
<1>5. 1 \in DOMAIN s
  BY <1>2
<1>6. lock[Head(s)] = r /\ Head(s) \notin published[r] \cup failed[r]
  BY <1>2, <1>4, <1>5 DEF Holds
<1>7. status[Head(s)] = "PENDING"
  BY <1>2, <1>6, NoneAssumption DEF IInv, LockedIsPending
<1>8. ~Sent(Head(s))
  BY <1>6 DEF IInv, BatchesAreHeld, Holds, Sent
<1>9. \A i \in DOMAIN Tail(s) : i + 1 \in DOMAIN s /\ Tail(s)[i] = s[i + 1] /\ i + 1 # 1
  BY <1>2, <1>3
<1>10. \A i \in DOMAIN Tail(s) : Tail(s)[i] # Head(s)
  BY <1>2, <1>4, <1>5, <1>9
<1> QED
  BY <1>2, <1>3, <1>6, <1>7, <1>8, <1>9, <1>10 DEF s

LEMMA SendStep ==
    ASSUME IInv, NEW r \in Relays, Send(r)
    PROVE  IInv'
<1> USE DEF IInv
<1>0. PICK e : e = Head(batch[r])
  OBVIOUS
<1>1. /\ batch[r] # <<>>
      /\ batch' = [batch EXCEPT ![r] = Tail(batch[r])]
      /\ topic' \in {topic, Append(topic, e)}
      /\ status' = status /\ retries' = retries /\ lock' = lock /\ up' = up
      /\ outages' = outages /\ faults' = faults
      /\ \/ /\ topic' = Append(topic, e)
            /\ published' = [published EXCEPT ![r] = published[r] \cup {e}]
            /\ failed' = failed
         \/ /\ failed' = [failed EXCEPT ![r] = failed[r] \cup {e}]
            /\ published' = published
  BY <1>0 DEF Send
<1>2. /\ e \in Events /\ lock[e] = r /\ status[e] = "PENDING" /\ ~Sent(e)
      /\ Tail(batch[r]) \in Seq(Events)
      /\ \A i \in DOMAIN Tail(batch[r]) :
           i + 1 \in DOMAIN batch[r] /\ Tail(batch[r])[i] = batch[r][i + 1]
      /\ \A i \in DOMAIN Tail(batch[r]) : Tail(batch[r])[i] # e
  BY <1>0, <1>1, NextEvent
<1>3. Types'
  <2>1. topic' \in Seq(Events)
    BY <1>1, <1>2, AppendToTopic DEF Types
  <2>2. batch' \in [Relays -> Seq(Events)]
    BY <1>1, <1>2 DEF Types
  <2>3. published' \in [Relays -> SUBSET Events] /\ failed' \in [Relays -> SUBSET Events]
    <3>1. published[r] \cup {e} \in SUBSET Events /\ failed[r] \cup {e} \in SUBSET Events
      BY <1>2 DEF Types
    <3> QED
      BY <1>1, <3>1 DEF Types
  <2> QED
    BY <1>1, <2>1, <2>2, <2>3 DEF Types
<1>4. /\ \A q \in Relays \ {r} : batch'[q] = batch[q] /\ published'[q] = published[q] /\ failed'[q] = failed[q]
      /\ batch'[r] = Tail(batch[r])
      /\ published'[r] \cup failed'[r] = published[r] \cup failed[r] \cup {e}
      /\ \/ published'[r] = published[r] \cup {e} /\ failed'[r] = failed[r]
         \/ failed'[r] = failed[r] \cup {e} /\ published'[r] = published[r]
  BY <1>1 DEF Types
<1>5. BatchesAreHeld'
  <2> SUFFICES ASSUME NEW q \in Relays
               PROVE  /\ \A i \in DOMAIN batch'[q] :
                           /\ batch'[q][i] \in Holds(q)
                           /\ batch'[q][i] \notin published'[q] \cup failed'[q]
                      /\ \A i, j \in DOMAIN batch'[q] : i # j => batch'[q][i] # batch'[q][j]
                      /\ published'[q] \cup failed'[q] \subseteq Holds(q)
                      /\ published'[q] \cap failed'[q] = {}
    BY <1>1 DEF BatchesAreHeld, Holds
  <2>1. CASE q # r
    BY <1>4, <2>1 DEF BatchesAreHeld
  <2>2. CASE q = r
    <3>1. e \in Holds(r) /\ e \notin published[r] \cup failed[r]
      BY <1>2 DEF Holds, Sent
    <3>2. \A i \in DOMAIN batch'[r] :
            batch'[r][i] \in Holds(r) /\ batch'[r][i] \notin published[r] \cup failed[r] \cup {e}
      BY <1>2, <1>4 DEF BatchesAreHeld
    <3>3. \A i, j \in DOMAIN batch'[r] : i # j => batch'[r][i] # batch'[r][j]
      <4>1. SUFFICES ASSUME NEW i \in DOMAIN Tail(batch[r]), NEW j \in DOMAIN Tail(batch[r]), i # j
                     PROVE  batch[r][i + 1] # batch[r][j + 1]
        BY <1>2, <1>4
      <4>2. i \in Int /\ j \in Int
        BY <1>2, LenProperties
      <4>3. i + 1 # j + 1
        BY <4>1, <4>2
      <4> QED
        BY <1>2, <4>3 DEF BatchesAreHeld
    <3>4. published[r] \cup failed[r] \subseteq Holds(r) /\ published[r] \cap failed[r] = {}
      BY DEF BatchesAreHeld
    <3>5. published'[r] \cup failed'[r] \subseteq Holds(r) /\ published'[r] \cap failed'[r] = {}
      BY <1>4, <3>1, <3>4
    <3> QED
      BY <1>4, <2>2, <3>2, <3>3, <3>5
  <2> QED
    BY <2>1, <2>2
<1>6. LockedIsPending' /\ RetriesLeft'
  BY <1>1 DEF LockedIsPending, RetriesLeft
<1>7. /\ \A i \in DOMAIN topic : i \in DOMAIN Append(topic, e) /\ Append(topic, e)[i] = topic[i]
      /\ \E i \in DOMAIN Append(topic, e) : Append(topic, e)[i] = e
  BY <1>2, AppendToTopic
<1>8. \A d : Appended(d) => Appended(d)'
  <2>1. CASE topic' = topic
    BY <2>1 DEF Appended
  <2>2. CASE topic' = Append(topic, e)
    BY <1>7, <2>2 DEF Appended
  <2> QED
    BY <1>1, <2>1, <2>2
<1>9. AckedIsAppended'
  <2>1. topic' = Append(topic, e) => Appended(e)'
    BY <1>7 DEF Appended
  <2>2. ASSUME NEW q \in Relays, NEW d \in published'[q]
        PROVE  Appended(d)'
    <3>1. d \in published[q] \/ (d = e /\ topic' = Append(topic, e))
      BY <1>1, <2>2 DEF Types
    <3>2. \A x \in published[q] : Appended(x)
      BY DEF AckedIsAppended
    <3>3. CASE d \in published[q]
      BY <1>8, <3>2, <3>3
    <3>4. CASE d = e /\ topic' = Append(topic, e)
      BY <2>1, <3>4
    <3> QED
      BY <3>1, <3>3, <3>4
  <2>3. \A d \in Events : status'[d] = "PUBLISHED" => Appended(d)'
    BY <1>1, <1>8 DEF AckedIsAppended
  <2> QED
    BY <2>2, <2>3 DEF AckedIsAppended
<1>10. CopiesCounted'
  <2> SUFFICES ASSUME NEW d \in Events
               PROVE  Copies(d)' <= retries[d] + faults
                                    + (IF status[d] = "PUBLISHED" \/ Sent(d)' THEN 1 ELSE 0)
    BY <1>1 DEF CopiesCounted
  <2>1. Copies(d) <= retries[d] + faults + (IF status[d] = "PUBLISHED" \/ Sent(d) THEN 1 ELSE 0)
    BY DEF CopiesCounted
  <2>2. Copies(d) \in Nat /\ retries[d] \in Nat /\ faults \in Nat
    BY BoundsAssumption, CopiesNat DEF Types
  <2>3. Sent(d)' <=> Sent(d) \/ d = e
    BY <1>4 DEF Sent
  <2>4. Copies(d)' \in {Copies(d), Copies(d) + (IF e = d THEN 1 ELSE 0)}
    <3>1. Copies(d) = TimesIn(topic, d) /\ Copies(d)' = TimesIn(topic', d)
      BY DEF Copies, TimesIn
    <3>2. TimesIn(Append(topic, e), d) = TimesIn(topic, d) + (IF e = d THEN 1 ELSE 0)
      BY <1>2, CopiesAppend DEF Types
    <3> QED
      BY <1>1, <3>1, <3>2
  <2>5. CASE d = e
    BY <1>2, <2>1, <2>2, <2>3, <2>4, <2>5
  <2>6. CASE d # e
    BY <2>1, <2>2, <2>3, <2>4, <2>6
  <2> QED
    BY <2>5, <2>6
<1> QED
  BY <1>3, <1>5, <1>6, <1>9, <1>10

-----------------------------------------------------------------------------
(* The end of a batch.                                                     *)

(* Done gives up the locks of r alone, and nobody is left with an event of *)
(* r's batch.                                                              *)
LEMMA DoneStep ==
    ASSUME IInv, NEW r \in Relays, Done(r)
    PROVE  /\ batch' \in [Relays -> Seq(Events)]
           /\ published' \in [Relays -> SUBSET Events]
           /\ failed' \in [Relays -> SUBSET Events]
           /\ lock' \in [Events -> Relays \cup {None}]
           /\ topic' = topic /\ up' = up /\ outages' = outages
           /\ BatchesAreHeld'
           /\ \A e \in Events : lock'[e] # None => lock'[e] = lock[e] /\ lock[e] # r
           /\ \A q \in Relays : published'[q] \subseteq published[q]
           /\ \A e \in Events :
                 Sent(e)' <=> Sent(e) /\ e \notin published[r] \cup failed[r]
<1> USE DEF IInv
<1>1. /\ lock' = [e \in Events |-> IF lock[e] = r THEN None ELSE lock[e]]
      /\ batch' = [batch EXCEPT ![r] = <<>>]
      /\ published' = [published EXCEPT ![r] = {}]
      /\ failed' = [failed EXCEPT ![r] = {}]
      /\ topic' = topic /\ up' = up /\ outages' = outages
  BY DEF Done, kafkaVars
<1>2. /\ <<>> \in Seq(Events) /\ DOMAIN <<>> = {}
      /\ batch'[r] = <<>> /\ published'[r] = {} /\ failed'[r] = {}
      /\ \A q \in Relays \ {r} :
           batch'[q] = batch[q] /\ published'[q] = published[q] /\ failed'[q] = failed[q]
  BY <1>1 DEF Types
<1>3. \A q \in Relays \ {r} : Holds(q)' = Holds(q)
  BY <1>1, NoneAssumption DEF Holds, Types
<1>4. BatchesAreHeld'
  <2> SUFFICES ASSUME NEW q \in Relays
               PROVE  /\ \A i \in DOMAIN batch'[q] :
                           /\ batch'[q][i] \in Holds(q)'
                           /\ batch'[q][i] \notin published'[q] \cup failed'[q]
                      /\ \A i, j \in DOMAIN batch'[q] : i # j => batch'[q][i] # batch'[q][j]
                      /\ published'[q] \cup failed'[q] \subseteq Holds(q)'
                      /\ published'[q] \cap failed'[q] = {}
    BY DEF BatchesAreHeld
  <2>1. CASE q = r
    BY <1>2, <2>1
  <2>2. CASE q # r
    BY <1>2, <1>3, <2>2 DEF BatchesAreHeld
  <2> QED
    BY <2>1, <2>2
<1>5. ASSUME NEW e \in Events
      PROVE  Sent(e)' <=> Sent(e) /\ e \notin published[r] \cup failed[r]
  <2>1. \A q \in Relays \ {r} :
          e \in published[q] \cup failed[q] => e \notin published[r] \cup failed[r]
    BY DEF BatchesAreHeld, Holds
  <2> QED
    BY <1>2, <2>1 DEF Sent
<1>6. \A e \in Events : lock'[e] # None => lock'[e] = lock[e] /\ lock[e] # r
  BY <1>1
<1>7. \A q \in Relays : published'[q] \subseteq published[q]
  BY <1>2
<1>8. /\ batch' \in [Relays -> Seq(Events)]
      /\ published' \in [Relays -> SUBSET Events]
      /\ failed' \in [Relays -> SUBSET Events]
      /\ lock' \in [Events -> Relays \cup {None}]
  BY <1>1, <1>2 DEF Types
<1> QED
  BY <1>1, <1>4, <1>5, <1>6, <1>7, <1>8

LEMMA RecordStep ==
    ASSUME IInv, NEW r \in Relays, Record(r)
    PROVE  IInv'
<1> USE DEF IInv
<1>1. /\ status' = [e \in Events |->
                      CASE e \in published[r] -> "PUBLISHED"
                        [] e \in failed[r] /\ retries[e] >= RetryLimit -> "FAILED"
                        [] OTHER -> status[e]]
      /\ retries' = [e \in Events |-> IF e \in failed[r] THEN retries[e] + 1 ELSE retries[e]]
      /\ faults' = faults
      /\ Done(r)
  BY DEF Record
<1>2. /\ \A e \in Events : e \in published[r] \cup failed[r] =>
                              lock[e] = r /\ status[e] = "PENDING"
      /\ published[r] \cap failed[r] = {}
  BY NoneAssumption DEF BatchesAreHeld, Holds, LockedIsPending
<1>3. \A e \in Events :
        /\ e \in published[r] => status'[e] = "PUBLISHED" /\ retries'[e] = retries[e]
        /\ e \in failed[r] => /\ retries'[e] = retries[e] + 1
                              /\ status'[e] = IF retries[e] >= RetryLimit THEN "FAILED" ELSE "PENDING"
        /\ e \notin published[r] \cup failed[r] => status'[e] = status[e] /\ retries'[e] = retries[e]
  BY <1>1, <1>2
<1>4. Types'
  <2>1. \A e \in Events : /\ status'[e] \in {"ABSENT", "PENDING", "PUBLISHED", "FAILED"}
                          /\ retries'[e] \in Nat
    BY <1>3 DEF Types
  <2> QED
    BY <1>1, <2>1, DoneStep DEF Types
<1>5. LockedIsPending'
  BY <1>1, <1>2, <1>3, DoneStep DEF LockedIsPending
<1>6. RetriesLeft'
  <2> SUFFICES ASSUME NEW e \in Events
               PROVE  /\ status'[e] \in {"ABSENT", "PENDING"} => retries'[e] <= RetryLimit
                      /\ retries'[e] <= RetryLimit + 1
                      /\ status'[e] = "FAILED" => retries'[e] = RetryLimit + 1
    BY DEF RetriesLeft
  <2>1. /\ retries[e] \in Nat /\ RetryLimit \in Nat
        /\ status[e] \in {"ABSENT", "PENDING"} => retries[e] <= RetryLimit
        /\ retries[e] <= RetryLimit + 1
        /\ status[e] = "FAILED" => retries[e] = RetryLimit + 1
    BY RetryLimitAssumption DEF Types, RetriesLeft
  <2>2. CASE e \in failed[r]
    BY <1>2, <1>3, <2>1, <2>2
  <2>3. CASE e \in published[r]
    BY <1>2, <1>3, <2>1, <2>3
  <2>4. CASE e \notin published[r] \cup failed[r]
    BY <1>3, <2>1, <2>4
  <2> QED
    BY <2>2, <2>3, <2>4
<1>7. AckedIsAppended'
  <2>1. \A e \in Events : status'[e] = "PUBLISHED" => e \in published[r] \/ status[e] = "PUBLISHED"
    BY <1>2, <1>3
  <2>2. \A e : Appended(e)' <=> Appended(e)
    BY <1>1, DoneStep DEF Appended
  <2> QED
    BY <1>1, <2>1, <2>2, DoneStep DEF AckedIsAppended
<1>8. CopiesCounted'
  <2> SUFFICES ASSUME NEW e \in Events
               PROVE  Copies(e)' <= retries'[e] + faults
                                    + (IF status'[e] = "PUBLISHED" \/ Sent(e)' THEN 1 ELSE 0)
    BY <1>1 DEF CopiesCounted
  <2>1. Copies(e) <= retries[e] + faults + (IF status[e] = "PUBLISHED" \/ Sent(e) THEN 1 ELSE 0)
    BY DEF CopiesCounted
  <2>2. Copies(e) \in Nat /\ retries[e] \in Nat /\ faults \in Nat
    BY BoundsAssumption, CopiesNat DEF Types
  <2>3. Copies(e)' = Copies(e) /\ (Sent(e)' <=> Sent(e) /\ e \notin published[r] \cup failed[r])
    BY <1>1, DoneStep DEF Copies
  <2>4. CASE e \in failed[r]
    BY <1>2, <1>3, <2>1, <2>2, <2>3, <2>4
  <2>5. CASE e \in published[r]
    BY <1>3, <2>1, <2>2, <2>3, <2>5
  <2>6. CASE e \notin published[r] \cup failed[r]
    BY <1>3, <2>1, <2>2, <2>3, <2>6
  <2> QED
    BY <2>4, <2>5, <2>6
<1> QED
  BY <1>1, <1>4, <1>5, <1>6, <1>7, <1>8, DoneStep

LEMMA AbortStep ==
    ASSUME IInv, NEW r \in Relays, Abort(r)
    PROVE  IInv'
<1> USE DEF IInv
<1>1. /\ faults < MaxFaults /\ faults' = faults + 1
      /\ status' = status /\ retries' = retries
      /\ Done(r)
  BY DEF Abort
<1>2. Types'
  BY <1>1, BoundsAssumption, DoneStep DEF Types
<1>3. /\ topic' = topic
      /\ \A e \in Events : lock'[e] # None => lock'[e] = lock[e]
      /\ \A q \in Relays : published'[q] \subseteq published[q]
  BY <1>1, DoneStep
<1>4. LockedIsPending' /\ RetriesLeft'
  BY <1>1, <1>3 DEF LockedIsPending, RetriesLeft
<1>5. AckedIsAppended'
  BY <1>1, <1>3 DEF AckedIsAppended, Appended
<1>6. CopiesCounted'
  <2> SUFFICES ASSUME NEW e \in Events
               PROVE  Copies(e)' <= retries[e] + faults'
                                    + (IF status[e] = "PUBLISHED" \/ Sent(e)' THEN 1 ELSE 0)
    BY <1>1 DEF CopiesCounted
  <2>1. Copies(e) <= retries[e] + faults + (IF status[e] = "PUBLISHED" \/ Sent(e) THEN 1 ELSE 0)
    BY DEF CopiesCounted
  <2>2. Copies(e) \in Nat /\ retries[e] \in Nat /\ faults \in Nat
    BY BoundsAssumption, CopiesNat DEF Types
  <2>3. Copies(e)' = Copies(e)
    BY <1>3 DEF Copies
  <2> QED
    BY <1>1, <2>1, <2>2, <2>3
<1> QED
  BY <1>1, <1>2, <1>4, <1>5, <1>6, DoneStep

LEMMA KafkaStep ==
    ASSUME IInv, Outage \/ Recover
    PROVE  IInv'
<1> USE DEF IInv
<1>1. /\ status' = status /\ retries' = retries /\ lock' = lock /\ topic' = topic
      /\ faults' = faults /\ batch' = batch /\ published' = published /\ failed' = failed
      /\ up' \in BOOLEAN
  BY DEF Types, Outage, Recover, relayVars
<1>2. Types'
  <2>1. outages' = outages \/ (outages < MaxOutages /\ outages' = outages + 1)
    BY DEF Outage, Recover
  <2>2. outages' \in 0 .. MaxOutages
    BY <2>1, BoundsAssumption DEF Types
  <2> QED
    BY <1>1, <2>2 DEF Types
<1>3. BatchesAreHeld' /\ LockedIsPending' /\ RetriesLeft' /\ AckedIsAppended'
  BY <1>1 DEF BatchesAreHeld, Holds, LockedIsPending, RetriesLeft, AckedIsAppended, Appended
<1>4. CopiesCounted'
  BY <1>1, SameCopies
<1> QED
  BY <1>2, <1>3, <1>4

LEMMA NextIInv == IInv /\ [Next]_vars => IInv'
<1> SUFFICES ASSUME IInv, [Next]_vars
             PROVE  IInv'
  OBVIOUS
<1>1. CASE UNCHANGED vars
  <2>1. /\ status' = status /\ retries' = retries /\ lock' = lock /\ topic' = topic
        /\ up' = up /\ outages' = outages /\ faults' = faults
        /\ batch' = batch /\ published' = published /\ failed' = failed
    BY <1>1 DEF vars, kafkaVars, relayVars
  <2>2. CopiesCounted'
    BY <2>1, SameCopies DEF IInv
  <2> QED
    BY <2>1, <2>2 DEF IInv, Types, BatchesAreHeld, Holds, LockedIsPending, RetriesLeft,
                      AckedIsAppended, Appended
<1> QED
  BY <1>1, InsertStep, PollStep, SendStep, RecordStep, AbortStep, KafkaStep DEF Next

THEOREM Invariance == Spec => []IInv
  BY InitIInv, NextIInv, PTL DEF Spec

-----------------------------------------------------------------------------
(* What follows from the invariant.                                        *)

(* The tables and the memory of the relays keep their types: a batch, and  *)
(* the published and failed ids, are of events the relay holds locks on.   *)
THEOREM TypesAreKept == Spec => []TypeOK
<1>1. IInv => TypeOK
  <2> SUFFICES ASSUME IInv
               PROVE  TypeOK
    OBVIOUS
  <2> USE DEF IInv
  <2>1. retries \in [Events -> 0 .. RetryLimit + 1]
    BY RetryLimitAssumption DEF Types, RetriesLeft
  <2>2. ASSUME NEW r \in Relays
        PROVE  batch[r] \in Seq(Holds(r))
    <3>1. /\ Len(batch[r]) \in Nat /\ DOMAIN batch[r] = 1 .. Len(batch[r])
          /\ batch[r] \in [1 .. Len(batch[r]) -> Events]
      BY LenProperties DEF Types
    <3>2. batch[r] \in [1 .. Len(batch[r]) -> Holds(r)]
      BY <3>1 DEF BatchesAreHeld
    <3> QED
      BY <3>1, <3>2, SeqDef
  <2>3. \A r \in Relays : published[r] \cup failed[r] \subseteq Holds(r)
    BY DEF BatchesAreHeld
  <2> QED
    BY <2>1, <2>2, <2>3 DEF TypeOK, Types
<1> QED
  BY <1>1, Invariance, PTL

(* An event recorded as PUBLISHED is in the topic and one recorded as      *)
(* FAILED has failed RetryLimit + 1 times, wherever relays die.            *)
THEOREM NothingIsForgotten == Spec => []NothingForgotten
<1>1. IInv => NothingForgotten
  <2> SUFFICES ASSUME IInv, NEW e \in Events
               PROVE  /\ status[e] = "PUBLISHED" => InTopic(e)
                      /\ status[e] = "FAILED" => retries[e] = RetryLimit + 1
    BY DEF NothingForgotten
  <2>1. Appended(e) => InTopic(e)
    BY CopiesType DEF IInv, Types, Appended, InTopic, Copies, TimesIn
  <2> QED
    BY <2>1 DEF IInv, AckedIsAppended, RetriesLeft
<1> QED
  BY <1>1, Invariance, PTL

(* Every copy of an event beyond the first is explained by a failed send   *)
(* or a batch that was never recorded.                                     *)
THEOREM DuplicatesAreExplained == Spec => []DuplicatesExplained
<1>1. IInv => DuplicatesExplained
  <2> SUFFICES ASSUME IInv, NEW e \in Events
               PROVE  Copies(e) <= 1 + retries[e] + faults
    BY DEF DuplicatesExplained
  <2>1. Copies(e) \in Nat /\ retries[e] \in Nat /\ faults \in Nat
    BY BoundsAssumption, CopiesNat DEF IInv, Types
  <2>2. Copies(e) <= retries[e] + faults + (IF status[e] = "PUBLISHED" \/ Sent(e) THEN 1 ELSE 0)
    BY DEF IInv, CopiesCounted
  <2> QED
    BY <2>1, <2>2
<1> QED
  BY <1>1, Invariance, PTL

(* What enters the topic is a PENDING event that one relay alone has in    *)
(* its batch.                                                              *)
LEMMA AppendIsExclusive ==
    ASSUME IInv, [Next]_vars, NEW e \in Events, topic' = Append(topic, e)
    PROVE  /\ status[e] = "PENDING"
           /\ \A q, r \in Relays :
                q # r => e \notin ToSet(batch[q]) \/ e \notin ToSet(batch[r])
<1>1. topic \in Seq(Events)
  BY DEF IInv, Types
<1>2. topic' # topic
  <2>1. Len(Append(topic, e)) = Len(topic) + 1 /\ Len(topic) \in Nat
    BY <1>1, AppendProperties, LenProperties
  <2> QED
    BY <2>1
<1>3. PICK r \in Relays : Send(r)
  <2>1. UNCHANGED vars => topic' = topic
    BY DEF vars, kafkaVars
  <2>2. \A d \in Events : Insert(d) => topic' = topic
    BY DEF Insert, kafkaVars
  <2>3. \A r \in Relays : Poll(r) \/ Record(r) \/ Abort(r) => topic' = topic
    BY DEF Poll, Record, Abort, Done, kafkaVars
  <2>4. Outage \/ Recover => topic' = topic
    BY DEF Outage, Recover
  <2> QED
    BY <1>2, <2>1, <2>2, <2>3, <2>4 DEF Next
<1>4. PICK d : d = Head(batch[r])
  OBVIOUS
<1>5. batch[r] # <<>> /\ topic' \in {topic, Append(topic, d)}
  BY <1>3, <1>4 DEF Send
<1>6. d \in Events /\ lock[d] = r /\ status[d] = "PENDING"
  BY <1>4, <1>5, NextEvent
<1>7. d = e
  BY <1>1, <1>2, <1>5, <1>6, AppendInjective
<1>8. \A q \in Relays : e \in ToSet(batch[q]) => q = r
  BY <1>6, <1>7 DEF IInv, BatchesAreHeld, Holds, ToSet
<1> QED
  BY <1>6, <1>7, <1>8

(* What is recorded as PUBLISHED or FAILED is not sent again, and no two   *)
(* relays send one event at the same time.                                 *)
THEOREM SendsAreExclusive == Spec => OnlyPendingIsSent
<1>1. IInv /\ [Next]_vars =>
        [\A e \in Events :
           topic' = Append(topic, e) =>
              /\ status[e] = "PENDING"
              /\ \A q, r \in Relays :
                   q # r => e \notin ToSet(batch[q]) \/ e \notin ToSet(batch[r])]_vars
  BY AppendIsExclusive
<1> QED
  BY <1>1, Invariance, PTL DEF Spec, OnlyPendingIsSent

-----------------------------------------------------------------------------
(* The relay implements Outbox.                                            *)

LEMMA RelayInitRefines == Init => Abstract!Init
  BY DEF Init, Abstract!Init

LEMMA RelayStepRefines ==
    ASSUME IInv, [Next]_vars
    PROVE  [Abstract!Next]_(Abstract!outboxVars)
<1> USE DEF Abstract!outboxVars
<1>1. ASSUME NEW e \in Events, Insert(e)
      PROVE  Abstract!Next
  BY <1>1 DEF Insert, kafkaVars, Abstract!Next, Abstract!Write
<1>2. ASSUME NEW r \in Relays, Send(r)
      PROVE  [Abstract!Next]_(Abstract!outboxVars)
  <2>1. PICK e : e = Head(batch[r])
    OBVIOUS
  <2>2. batch[r] # <<>> /\ topic' \in {topic, Append(topic, e)} /\ status' = status
    BY <1>2, <2>1 DEF Send
  <2>3. e \in Events /\ status[e] = "PENDING"
    BY <2>1, <2>2, NextEvent
  <2>4. CASE topic' = topic
    BY <2>2, <2>4
  <2>5. CASE topic' = Append(topic, e)
    <3>1. Abstract!Send(e)
      BY <2>2, <2>3, <2>5 DEF Abstract!Send
    <3> QED
      BY <2>3, <3>1 DEF Abstract!Next
  <2> QED
    BY <2>2, <2>4, <2>5
<1>3. ASSUME NEW r \in Relays, Record(r)
      PROVE  [Abstract!Next]_(Abstract!outboxVars)
  <2> DEFINE sent == published[r]
             lost == {e \in failed[r] : retries[e] >= RetryLimit}
  <2>1. topic' = topic
    BY <1>3 DEF Record, Done, kafkaVars
  <2>2. /\ sent \in SUBSET Events /\ lost \in SUBSET Events
        /\ sent \cup lost \subseteq {e \in Events : status[e] = "PENDING"}
    BY NoneAssumption DEF IInv, Types, BatchesAreHeld, Holds, LockedIsPending
  <2>3. \A e \in sent : Abstract!InLog(e)
    BY DEF IInv, Types, AckedIsAppended, Appended, Abstract!InLog
  <2>4. status' = [e \in Events |-> CASE e \in sent -> "PUBLISHED"
                                      [] e \in lost -> "FAILED"
                                      [] OTHER -> status[e]]
    <3>1. status' = [e \in Events |->
                       CASE e \in published[r] -> "PUBLISHED"
                         [] e \in failed[r] /\ retries[e] >= RetryLimit -> "FAILED"
                         [] OTHER -> status[e]]
      BY <1>3 DEF Record
    <3>2. sent \cap lost = {}
      BY DEF IInv, BatchesAreHeld
    <3> QED
      BY <3>1, <3>2
  <2> HIDE DEF sent, lost
  <2>5. Abstract!Record(sent, lost)
    BY <2>1, <2>2, <2>3, <2>4 DEF Abstract!Record
  <2>6. CASE sent \cup lost = {}
    <3>1. status' = status
      BY <2>4, <2>6 DEF IInv, Types
    <3> QED
      BY <2>1, <3>1
  <2>7. ASSUME NEW e \in sent \cup lost
        PROVE  Abstract!Next
    BY <2>2, <2>5, <2>7 DEF Abstract!Next, Abstract!Resolve
  <2> QED
    BY <2>6, <2>7
<1>4. ASSUME NEW r \in Relays, Poll(r) \/ Abort(r)
      PROVE  UNCHANGED Abstract!outboxVars
  BY <1>4 DEF Poll, Abort, Done, kafkaVars
<1>5. ASSUME Outage \/ Recover
      PROVE  UNCHANGED Abstract!outboxVars
  BY <1>5 DEF Outage, Recover
<1>6. ASSUME UNCHANGED vars
      PROVE  UNCHANGED Abstract!outboxVars
  BY <1>6 DEF vars, kafkaVars
<1> QED
  BY <1>1, <1>2, <1>3, <1>4, <1>5, <1>6 DEF Next

(* Batches, row locks and retries, however many relays share the table,    *)
(* implement the outbox the rest of the platform relies on.                *)
THEOREM ImplementsOutbox == Spec => Abstract!Spec
  BY Invariance, RelayInitRefines, RelayStepRefines, PTL DEF Spec, Abstract!Spec

=============================================================================
