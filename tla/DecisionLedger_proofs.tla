------------------------ MODULE DecisionLedger_proofs ------------------------
(***************************************************************************)
(* Proofs about DecisionLedger, for any number of threads, tenants,        *)
(* decisions and revisions.                                                *)
(***************************************************************************)
EXTENDS DecisionLedger, SequenceTheorems, NaturalsInduction,
        WellFoundedInduction, TLAPS

------------------------------------------------------------------------------
(***************************************************************************)
(* The inductive invariant                                                 *)
(***************************************************************************)

\* r is what a call makes of the first r.revision - 1 records of the chain.
Successor(chain, r) ==
  LET k == r.revision - 1
  IN  /\ k \in 0 .. Len(chain)
      /\ VerifyRecord(r)
      /\ r.parent = IF k = 0 THEN NoParent ELSE chain[k].hash
      /\ \/ r.entry = Evaluated(r.entry.request)
         \/ /\ k > 0
            /\ Approvable(chain[k].entry)
            /\ r.entry.approval \in Verdicts
            /\ r.entry = Approved(chain[k].entry, r.entry.approval)

\* A record waiting to be put follows a revision that is still stored.
PendingFollows ==
  \A t \in Threads :
    At(t, "put") => Successor(records[call[t].decision], call[t].record)

\* Each stored revision was made of the one before it.
HistoryFollows ==
  \A d \in Decisions : \A i \in DOMAIN records[d] :
    /\ records[d][i].revision = i
    /\ Successor(records[d], records[d][i])

\* A thread that has put its record and not yet announced it.
Announcing(t) == At(t, "link") \/ At(t, "append")

\* It announces a stored record, which it alone announces, for the first
\* time.
AnnouncementsPending ==
  \A t \in Threads : Announcing(t) =>
    LET c == call[t]
    IN  /\ c.record.revision \in DOMAIN records[c.decision]
        /\ records[c.decision][c.record.revision] = c.record
        /\ \A i \in DOMAIN events :
             ~ Announces(events[i], c.decision, c.record.revision)
        /\ \A u \in Threads : Announcing(u) /\ u # t =>
             \/ call[u].decision # c.decision
             \/ call[u].record.revision # c.record.revision

\* The link a thread has read leads to an event of its tenant.
LinksRead ==
  \A t \in Threads : At(t, "append") =>
    \/ call[t].prev = NoEvent
    \/ \E j \in DOMAIN events : /\ EventId(events[j]) = call[t].prev
                               /\ events[j].tenant = call[t].tenant

ChainInv == TypeOK /\ PendingFollows /\ HistoryFollows
EventInv == AnnouncementsPending /\ EventsFaithful
LinkInv == LinksRead /\ LinksGoBack

------------------------------------------------------------------------------
(***************************************************************************)
(* Lemmas on maxima, entries and records                                   *)
(***************************************************************************)

\* A non-empty set of positions has a greatest one.
LEMMA MaxOfPositions ==
  ASSUME NEW n \in Nat, NEW S \in SUBSET (1 .. n), S # {}
  PROVE  Max(S) \in S /\ \A j \in S : Max(S) >= j
<1> DEFINE T == {n - i : i \in S}
<1>0. \A i \in S : n - i \in Nat
  OBVIOUS
<1>1. T \subseteq Nat /\ T # {}
  BY <1>0
<1>2. PICK x \in T : \A y \in T : <<y, x>> \notin OpToRel(<, Nat)
  BY <1>1, NatLessThanWellFounded, WFMin, Zenon
<1>3. \A y \in T : ~(y < x)
  BY <1>1, <1>2 DEF OpToRel
<1>4. PICK m \in S : x = n - m
  OBVIOUS
<1>5. \A j \in S : m >= j
  BY <1>3, <1>4
<1> QED
  BY <1>4, <1>5 DEF Max

\* Evaluation and approval make well-formed entries.
LEMMA EntryTypes ==
  /\ \A q \in Requests : Evaluated(q) \in Entry
  /\ \A e \in Entry, v \in Verdicts : Approved(e, v) \in Entry
<1>1. \A q \in Requests : Evaluated(q) \in Entry
  BY RecordAssumption DEF Evaluated, Entry
<1>2. \A e \in Entry, v \in Verdicts : Approved(e, v) \in Entry
  BY RecordAssumption DEF Approved, Entry
<1> QED
  BY <1>1, <1>2

\* A record is well formed when its entry, number and parent are.
LEMMA SealTypes ==
  ASSUME NEW entry \in Entry, NEW n \in Nat \ {0}, NEW parent \in Hash
  PROVE  /\ SealRecord(entry, n, parent) \in Record
         /\ VerifyRecord(SealRecord(entry, n, parent))
<1>1. [entry |-> entry, revision |-> n] \in Content
  BY DEF Content
<1>2. Digest(entry, n, parent) \in Hash
  BY <1>1, AppendProperties DEF Digest, Hash
<1> QED
  BY <1>2 DEF SealRecord, VerifyRecord, Record

\* The record a call makes of the chain it reads is well formed, sealed and
\* linked to the end of that chain.
LEMMA NextRecordType ==
  ASSUME NEW chain \in Seq(Record), NEW entry \in Entry
  PROVE  LET r == NextRecord(chain, entry)
         IN  /\ r \in Record
             /\ VerifyRecord(r)
             /\ r.entry = entry
             /\ r.revision = Len(chain) + 1
             /\ r.parent = IF chain = <<>> THEN NoParent ELSE Last(chain).hash
<1> DEFINE parent == IF chain = <<>> THEN NoParent ELSE Last(chain).hash
<1>1. chain # <<>> => Last(chain) \in Record
  BY EmptySeq, ElementOfSeq DEF Last
<1>2. parent \in Hash
  BY <1>1 DEF NoParent, Hash, Record
<1>3. Len(chain) + 1 \in Nat \ {0}
  BY LenProperties
<1>4. NextRecord(chain, entry) = SealRecord(entry, Len(chain) + 1, parent)
  BY DEF NextRecord
<1>5. NextRecord(chain, entry) \in Record /\ VerifyRecord(NextRecord(chain, entry))
  BY <1>2, <1>3, <1>4, SealTypes
<1> QED
  BY <1>4, <1>5 DEF SealRecord

\* What follows a revision of a chain still follows it when the chain grows.
LEMMA SuccessorStable ==
  ASSUME NEW chain \in Seq(Record), NEW s \in Record, NEW r \in Record,
         Successor(chain, r)
  PROVE  Successor(Append(chain, s), r)
<1>1. r.revision \in Nat \ {0}
  BY DEF Record
<1>2. /\ Len(chain) \in Nat
      /\ Len(Append(chain, s)) = Len(chain) + 1
      /\ \A i \in 1 .. Len(chain) : Append(chain, s)[i] = chain[i]
  BY AppendProperties, LenProperties
<1>3. r.revision - 1 > 0 =>
        Append(chain, s)[r.revision - 1] = chain[r.revision - 1]
  BY <1>1, <1>2 DEF Successor
<1> QED
  BY <1>1, <1>2, <1>3 DEF Successor

------------------------------------------------------------------------------
(***************************************************************************)
(* The type invariant                                                      *)
(***************************************************************************)

\* The hash an event links to is NoEvent or that of a logged event of the
\* same tenant.
LEMMA LastHashFound ==
  ASSUME NEW tenant \in Tenants, events \in Seq(Event)
  PROVE  \/ LastHash(events, tenant) = NoEvent
         \/ \E j \in DOMAIN events :
              /\ EventId(events[j]) = LastHash(events, tenant)
              /\ events[j].tenant = tenant
<1> DEFINE mine == {i \in DOMAIN events : events[i].tenant = tenant}
<1>1. CASE mine = {}
  BY <1>1 DEF LastHash
<1>2. CASE mine # {}
  <2>1. Len(events) \in Nat /\ mine \in SUBSET (1 .. Len(events))
    BY LenProperties
  <2>2. Max(mine) \in mine
    BY <1>2, <2>1, MaxOfPositions
  <2>3. LastHash(events, tenant) = EventId(events[Max(mine)])
    BY <1>2 DEF LastHash
  <2> QED
    BY <2>2, <2>3
<1> QED
  BY <1>1, <1>2

\* So it can be linked to.
LEMMA LastHashType ==
  ASSUME NEW tenant \in Tenants, events \in Seq(Event)
  PROVE  LastHash(events, tenant) \in EventRef
<1>1. \A j \in DOMAIN events : EventId(events[j]) \in EventRef
  <2>1. \A j \in DOMAIN events : events[j] \in Event
    BY ElementOfSeq, LenProperties
  <2> QED
    BY <2>1 DEF Event, EventId, EventRef
<1> QED
  BY <1>1, LastHashFound DEF EventRef

\* What a call in progress looks like.
LEMMA CallTypes ==
  ASSUME TypeOK, NEW t \in Threads, NEW step, At(t, step)
  PROVE  /\ call[t] \in Call
         /\ call[t].decision \in Decisions
         /\ call[t].record \in Record
         /\ call[t].tenant \in Tenants
         /\ call[t].step = step
BY DEF TypeOK, At, Call

\* Initially all variables have their types.
LEMMA TypeInit == Init => TypeOK
<1> SUFFICES ASSUME Init PROVE TypeOK
  OBVIOUS
<1>1. \A S : <<>> \in Seq(S)
  BY EmptySeq
<1> QED
  BY <1>1 DEF Init, TypeOK

\* A thread that begins a call has made a record of the right type.
LEMMA BeginType ==
  ASSUME NEW tenant \in Tenants, NEW d \in Decisions, NEW entry \in Entry,
         TypeOK
  PROVE  InCall(tenant, d, NextRecord(records[d], entry)) \in Call
<1>1. records[d] \in Seq(Record)
  BY DEF TypeOK
<1>2. NextRecord(records[d], entry) \in Record
  BY <1>1, NextRecordType
<1> QED
  BY <1>2 DEF InCall, Call, EventRef

\* The entry an approval makes of the latest revision has the right type.
LEMMA LatestEntryType ==
  ASSUME TypeOK, NEW d \in Decisions, records[d] # <<>>
  PROVE  /\ Len(records[d]) \in Nat \ {0}
         /\ Last(records[d]) = records[d][Len(records[d])]
         /\ Last(records[d]) \in Record
         /\ Last(records[d]).entry \in Entry
<1>1. records[d] \in Seq(Record)
  BY DEF TypeOK
<1>2. Len(records[d]) \in Nat \ {0}
  BY <1>1, EmptySeq
<1>3. Last(records[d]) \in Record
  BY <1>1, <1>2, ElementOfSeq DEF Last
<1> QED
  BY <1>2, <1>3 DEF Last, Record

\* Every step keeps the types.
LEMMA TypeStep == TypeOK /\ [Next]_vars => TypeOK'
<1> SUFFICES ASSUME TypeOK, [Next]_vars PROVE TypeOK'
  OBVIOUS
<1>1. ASSUME NEW t \in Threads, BeginEvaluate(t) PROVE TypeOK'
  <2>1. PICK tenant \in Tenants, d \in Decisions, q \in Requests :
          /\ call' = [call EXCEPT ![t] =
                        InCall(tenant, d, NextRecord(records[d], Evaluated(q)))]
          /\ UNCHANGED <<durable, records, events, restarts>>
    BY <1>1 DEF BeginEvaluate
  <2>2. InCall(tenant, d, NextRecord(records[d], Evaluated(q))) \in Call
    BY EntryTypes, BeginType
  <2> QED
    BY <2>1, <2>2 DEF TypeOK
<1>2. ASSUME NEW t \in Threads, BeginApprove(t) PROVE TypeOK'
  <2>1. PICK tenant \in Tenants, d \in Decisions, verdict \in Verdicts :
          /\ records[d] # <<>>
          /\ call' = [call EXCEPT ![t] =
                        InCall(tenant, d,
                          NextRecord(records[d],
                                     Approved(Last(records[d]).entry, verdict)))]
          /\ UNCHANGED <<durable, records, events, restarts>>
    BY <1>2 DEF BeginApprove
  <2>2. Approved(Last(records[d]).entry, verdict) \in Entry
    BY <2>1, EntryTypes, LatestEntryType
  <2>3. InCall(tenant, d, NextRecord(records[d],
               Approved(Last(records[d]).entry, verdict))) \in Call
    BY <2>2, BeginType
  <2> QED
    BY <2>1, <2>3 DEF TypeOK
<1>3. ASSUME NEW t \in Threads, Put(t) PROVE TypeOK'
  <2>1. At(t, "put")
    BY <1>3 DEF Put
  <2>2. /\ call[t].decision \in Decisions /\ call[t].record \in Record
        /\ call[t] \in Call
    BY <2>1, CallTypes
  <2>3. Append(records[call[t].decision], call[t].record) \in Seq(Record)
    BY <2>2, AppendProperties DEF TypeOK
  <2>4. [call[t] EXCEPT !.step = "link"] \in Call
    BY <2>2 DEF Call
  <2>5. /\ records' = [records EXCEPT ![call[t].decision] =
                         Append(records[call[t].decision], call[t].record)]
        /\ call' = [call EXCEPT ![t] = [call[t] EXCEPT !.step = "link"]]
        /\ UNCHANGED <<durable, events, restarts>>
    BY <1>3 DEF Put
  <2> QED
    BY <2>3, <2>4, <2>5 DEF TypeOK
<1>4. ASSUME NEW t \in Threads, Conflict(t) PROVE TypeOK'
  BY <1>4 DEF Conflict, TypeOK
<1>5. ASSUME NEW t \in Threads, LinkEvent(t) PROVE TypeOK'
  <2>1. call[t] \in Call /\ call[t].tenant \in Tenants
    BY <1>5, CallTypes DEF LinkEvent
  <2>2. LastHash(events, call[t].tenant) \in EventRef
    BY <2>1, LastHashType DEF TypeOK
  <2>3. call' = [call EXCEPT ![t] =
                   [call[t] EXCEPT !.step = "append",
                                   !.prev = LastHash(events, call[t].tenant)]]
    BY <1>5 DEF LinkEvent
  <2>4. [call[t] EXCEPT !.step = "append",
                        !.prev = LastHash(events, call[t].tenant)] \in Call
    BY <2>1, <2>2 DEF Call
  <2> QED
    BY <1>5, <2>3, <2>4 DEF LinkEvent, TypeOK
<1>6. ASSUME NEW t \in Threads, AppendEvent(t) PROVE TypeOK'
  <2>1. call[t] \in Call
    BY <1>6, CallTypes DEF AppendEvent
  <2>2. DomainEvent(call[t]) \in Event
    BY <2>1 DEF DomainEvent, Call, Event, Record
  <2>3. Append(events, DomainEvent(call[t])) \in Seq(Event)
    BY <2>2, AppendProperties DEF TypeOK
  <2> QED
    BY <1>6, <2>3 DEF AppendEvent, TypeOK
<1>7. CASE Restart
  <2>1. \A S : <<>> \in Seq(S)
    BY EmptySeq
  <2> QED
    BY <1>7, <2>1 DEF Restart, TypeOK
<1>8. CASE UNCHANGED vars
  BY <1>8 DEF vars, TypeOK
<1> QED
  BY <1>1, <1>2, <1>3, <1>4, <1>5, <1>6, <1>7, <1>8 DEF Next, Continue

\* The state of the service always has the type TypeOK gives it.
THEOREM TypeCorrect == Spec => []TypeOK
BY TypeInit, TypeStep, PTL DEF Spec

------------------------------------------------------------------------------
(***************************************************************************)
(* Histories                                                               *)
(***************************************************************************)

\* The record a call makes follows the latest revision it read.
LEMMA BeginFollows ==
  ASSUME TypeOK, NEW d \in Decisions, NEW entry \in Entry,
         \/ entry = Evaluated(entry.request)
         \/ /\ records[d] # <<>>
            /\ Approvable(Last(records[d]).entry)
            /\ entry.approval \in Verdicts
            /\ entry = Approved(Last(records[d]).entry, entry.approval)
  PROVE  Successor(records[d], NextRecord(records[d], entry))
<1> DEFINE r == NextRecord(records[d], entry)
<1>1. records[d] \in Seq(Record) /\ Len(records[d]) \in Nat
  BY LenProperties DEF TypeOK
<1>2. /\ VerifyRecord(r)
      /\ r.entry = entry
      /\ r.revision = Len(records[d]) + 1
      /\ r.parent = IF records[d] = <<>> THEN NoParent ELSE Last(records[d]).hash
  BY <1>1, NextRecordType
<1>3. r.revision - 1 = Len(records[d])
  BY <1>1, <1>2
<1>4. records[d] = <<>> <=> Len(records[d]) = 0
  BY <1>1, EmptySeq
<1> HIDE DEF r
<1>5. Successor(records[d], r)
  BY <1>1, <1>2, <1>3, <1>4 DEF Successor, Last
<1> QED
  BY <1>5 DEF r

\* The put accepts only the number after the latest: the revision the call
\* read is still the latest.
LEMMA PutExtends ==
  ASSUME ChainInv, NEW t \in Threads, Put(t)
  PROVE  LET chain == records[call[t].decision]
             r     == call[t].record
         IN  /\ chain \in Seq(Record) /\ r \in Record
             /\ Successor(chain, r)
             /\ r.revision = Len(chain) + 1
<1> DEFINE chain == records[call[t].decision]
           r     == call[t].record
<1>1. /\ At(t, "put")
      /\ call[t].decision \in Decisions
      /\ r \in Record
      /\ Fits(chain, r)
  BY CallTypes DEF Put, ChainInv
<1>2. chain \in Seq(Record) /\ Len(chain) \in Nat
  BY <1>1, LenProperties DEF ChainInv, TypeOK
<1>3. Successor(chain, r)
  BY <1>1 DEF ChainInv, PendingFollows
<1>4. CASE chain = <<>>
  <2>1. Len(chain) = 0
    BY <1>4
  <2>2. r.revision \in Nat
    BY <1>1 DEF Record
  <2> QED
    BY <1>1, <1>2, <1>3, <2>1, <2>2 DEF Successor
<1>5. CASE chain # <<>>
  <2>1. Len(chain) \in DOMAIN chain
    BY <1>2, <1>5, EmptySeq, LenProperties
  <2>2. Last(chain).revision = Len(chain)
    BY <1>1, <2>1 DEF ChainInv, HistoryFollows, Last
  <2>3. r.revision = Last(chain).revision + 1
    BY <1>1, <1>5 DEF Fits, FitsInMemory, FitsInDatabase
  <2> QED
    BY <1>1, <1>2, <1>3, <2>2, <2>3
<1> QED
  BY <1>1, <1>2, <1>3, <1>4, <1>5

\* A step that leaves the histories alone, and gives a thread at most a
\* record that follows the history it is for, keeps PendingFollows.
LEMMA PendingKept ==
  ASSUME PendingFollows, UNCHANGED records, NEW t \in Threads,
         \A u \in Threads : u # t => call'[u] = call[u],
         At(t, "put")' =>
           Successor(records[call'[t].decision], call'[t].record)
  PROVE  PendingFollows'
BY DEF PendingFollows, At

\* Initially there are no histories.
LEMMA ChainInit == Init => ChainInv
<1> SUFFICES ASSUME Init PROVE ChainInv
  OBVIOUS
<1>1. PendingFollows
  BY DEF Init, PendingFollows, At
<1>2. HistoryFollows
  <2>1. \A d \in Decisions : DOMAIN records[d] = {}
    BY DEF Init
  <2> QED
    BY <2>1 DEF HistoryFollows
<1> QED
  BY <1>1, <1>2, TypeInit DEF ChainInv

\* Every step keeps the histories well made.
LEMMA ChainStep == ChainInv /\ [Next]_vars => ChainInv'
<1> SUFFICES ASSUME ChainInv, [Next]_vars PROVE ChainInv'
  OBVIOUS
<1>0. TypeOK /\ TypeOK' /\ PendingFollows /\ HistoryFollows
  BY TypeStep DEF ChainInv
<1>a. ASSUME UNCHANGED records PROVE HistoryFollows'
  BY <1>0, <1>a DEF HistoryFollows
<1>1. ASSUME NEW t \in Threads, BeginEvaluate(t) PROVE ChainInv'
  <2>1. PICK tenant \in Tenants, d \in Decisions, q \in Requests :
          /\ call' = [call EXCEPT ![t] =
                        InCall(tenant, d, NextRecord(records[d], Evaluated(q)))]
          /\ UNCHANGED records
    BY <1>1 DEF BeginEvaluate
  <2>2. Evaluated(q) \in Entry /\ Evaluated(q) = Evaluated(Evaluated(q).request)
    BY EntryTypes DEF Evaluated
  <2>3. Successor(records[d], NextRecord(records[d], Evaluated(q)))
    BY <1>0, <2>2, BeginFollows
  <2>4. call'[t] = InCall(tenant, d, NextRecord(records[d], Evaluated(q)))
    BY <1>0, <2>1 DEF TypeOK
  <2>5. PendingFollows'
    BY <1>0, <2>1, <2>3, <2>4, PendingKept DEF InCall
  <2> QED
    BY <1>0, <1>a, <2>1, <2>5 DEF ChainInv
<1>2. ASSUME NEW t \in Threads, BeginApprove(t) PROVE ChainInv'
  <2>1. PICK tenant \in Tenants, d \in Decisions, verdict \in Verdicts :
          /\ records[d] # <<>>
          /\ Approvable(Last(records[d]).entry)
          /\ call' = [call EXCEPT ![t] =
                        InCall(tenant, d,
                          NextRecord(records[d],
                                     Approved(Last(records[d]).entry, verdict)))]
          /\ UNCHANGED records
    BY <1>2 DEF BeginApprove
  <2> DEFINE entry == Approved(Last(records[d]).entry, verdict)
  <2>2. Last(records[d]).entry \in Entry
    BY <1>0, <2>1, LatestEntryType
  <2>3. entry \in Entry /\ entry.approval = verdict
    BY <2>2, EntryTypes DEF Approved, Entry
  <2>4. Successor(records[d], NextRecord(records[d], entry))
    BY <1>0, <2>1, <2>3, BeginFollows
  <2>5. call'[t] = InCall(tenant, d, NextRecord(records[d], entry))
    BY <1>0, <2>1 DEF TypeOK
  <2>6. PendingFollows'
    BY <1>0, <2>1, <2>4, <2>5, PendingKept DEF InCall
  <2> QED
    BY <1>0, <1>a, <2>1, <2>6 DEF ChainInv
<1>3. ASSUME NEW t \in Threads, Put(t) PROVE ChainInv'
  <2> DEFINE d     == call[t].decision
             r     == call[t].record
             chain == records[d]
  <2>1. /\ chain \in Seq(Record) /\ r \in Record /\ d \in Decisions
        /\ Successor(chain, r)
        /\ r.revision = Len(chain) + 1
    BY <1>3, <1>0, PutExtends, CallTypes DEF Put
  <2>2. /\ records' = [records EXCEPT ![d] = Append(chain, r)]
        /\ call' = [call EXCEPT ![t].step = "link"]
    BY <1>3 DEF Put
  <2>3. /\ \A e \in Decisions : e # d => records'[e] = records[e]
        /\ records'[d] = Append(chain, r)
    BY <1>0, <2>1, <2>2 DEF TypeOK
  <2>4. \A s \in Record : Successor(chain, s) => Successor(records'[d], s)
    BY <2>1, <2>3, SuccessorStable
  <2>5. PendingFollows'
    <3> SUFFICES ASSUME NEW u \in Threads, At(u, "put")'
                 PROVE  Successor(records'[call'[u].decision], call'[u].record)
      BY DEF PendingFollows
    <3>1. u # t
      BY <1>0, <1>3, <2>2, CallTypes DEF At, Put, TypeOK, Call
    <3>2. call'[u] = call[u] /\ At(u, "put")
      BY <2>2, <3>1 DEF At
    <3>3. /\ call[u].record \in Record /\ call[u].decision \in Decisions
          /\ Successor(records[call[u].decision], call[u].record)
      BY <1>0, <3>2, CallTypes DEF PendingFollows
    <3> QED
      BY <2>3, <2>4, <3>2, <3>3
  <2>6. HistoryFollows'
    <3> SUFFICES ASSUME NEW e \in Decisions, NEW i \in DOMAIN records'[e]
                 PROVE  /\ records'[e][i].revision = i
                        /\ Successor(records'[e], records'[e][i])
      BY DEF HistoryFollows
    <3>1. CASE e # d
      BY <1>0, <2>3, <3>1 DEF HistoryFollows
    <3>2. CASE e = d
      <4>1. /\ Len(chain) \in Nat /\ DOMAIN chain = 1 .. Len(chain)
            /\ DOMAIN Append(chain, r) = 1 .. Len(chain) + 1
            /\ \A j \in 1 .. Len(chain) : Append(chain, r)[j] = chain[j]
            /\ Append(chain, r)[Len(chain) + 1] = r
        BY <2>1, AppendProperties, LenProperties
      <4>2. CASE i \in DOMAIN chain
        <5>1. /\ records'[e][i] = chain[i] /\ chain[i] \in Record
              /\ chain[i].revision = i /\ Successor(chain, chain[i])
          BY <1>0, <2>1, <2>3, <3>2, <4>1, <4>2, ElementOfSeq DEF HistoryFollows
        <5> QED
          BY <2>4, <3>2, <5>1
      <4>3. CASE i = Len(chain) + 1
        BY <2>1, <2>3, <2>4, <3>2, <4>1, <4>3
      <4> QED
        BY <2>3, <3>2, <4>1, <4>2, <4>3
    <3> QED
      BY <3>1, <3>2
  <2> QED
    BY <1>0, <2>5, <2>6 DEF ChainInv
<1>4. ASSUME NEW t \in Threads, Conflict(t) PROVE ChainInv'
  <2>1. call' = [call EXCEPT ![t] = Idle] /\ UNCHANGED records
    BY <1>4 DEF Conflict
  <2>2. PendingFollows'
    BY <1>0, <2>1, PendingKept DEF TypeOK, At
  <2> QED
    BY <1>0, <1>a, <2>1, <2>2 DEF ChainInv
<1>5. ASSUME NEW t \in Threads, LinkEvent(t) PROVE ChainInv'
  <2>1. /\ call' = [call EXCEPT ![t].step = "append",
                                ![t].prev = LastHash(events, call[t].tenant)]
        /\ call[t] \in Call
        /\ UNCHANGED records
    BY <1>0, <1>5, CallTypes DEF LinkEvent
  <2>2. /\ ~ At(t, "put")'
        /\ \A u \in Threads : u # t => call'[u] = call[u]
    BY <1>0, <2>1 DEF TypeOK, Call, At
  <2>3. PendingFollows'
    BY <1>0, <2>1, <2>2, PendingKept
  <2> QED
    BY <1>0, <1>a, <2>1, <2>3 DEF ChainInv
<1>6. ASSUME NEW t \in Threads, AppendEvent(t) PROVE ChainInv'
  <2>1. call' = [call EXCEPT ![t] = Idle] /\ UNCHANGED records
    BY <1>6 DEF AppendEvent
  <2>2. PendingFollows'
    BY <1>0, <2>1, PendingKept DEF TypeOK, At
  <2> QED
    BY <1>0, <1>a, <2>1, <2>2 DEF ChainInv
<1>7. CASE Restart
  <2>1. PendingFollows'
    BY <1>7 DEF Restart, PendingFollows, At
  <2>2. \/ UNCHANGED records
        \/ \A d \in Decisions : DOMAIN records'[d] = {}
    BY <1>7 DEF Restart
  <2>3. HistoryFollows'
    BY <1>a, <2>2 DEF HistoryFollows
  <2> QED
    BY <1>0, <2>1, <2>3 DEF ChainInv
<1>8. CASE UNCHANGED vars
  BY <1>0, <1>8 DEF vars, ChainInv, PendingFollows, HistoryFollows, At
<1> QED
  BY <1>1, <1>2, <1>3, <1>4, <1>5, <1>6, <1>7, <1>8 DEF Next, Continue

LEMMA ChainInvariant == Spec => []ChainInv
BY ChainInit, ChainStep, PTL DEF Spec

\* Whatever the callers do and however they race, every stored history
\* passes verify_chain.
THEOREM HistoriesVerify == Spec => []ChainsVerify
<1>1. ChainInv => ChainsVerify
  <2> SUFFICES ASSUME ChainInv, NEW d \in Decisions, NEW i \in DOMAIN records[d]
               PROVE  /\ VerifyRecord(records[d][i])
                      /\ records[d][i].revision = i
                      /\ i > 1 => records[d][i].parent = records[d][i - 1].hash
    BY DEF ChainsVerify, VerifyChain
  <2>1. /\ records[d][i].revision = i
        /\ Successor(records[d], records[d][i])
    BY DEF ChainInv, HistoryFollows
  <2>2. i \in Nat \ {0}
    BY LenProperties DEF ChainInv, TypeOK
  <2> QED
    BY <2>1, <2>2 DEF Successor
<1> QED
  BY <1>1, ChainInvariant, PTL

\* An approval is always of the revision before it, and that revision was
\* approvable.
THEOREM ApprovalsAreOfTheLatest == Spec => []ApprovalsExtendWhatWasRead
<1>1. ChainInv => ApprovalsExtendWhatWasRead
  <2> SUFFICES ASSUME ChainInv, NEW d \in Decisions, NEW i \in DOMAIN records[d],
                      records[d][i].entry.approval # "none"
               PROVE  /\ i > 1
                      /\ Approvable(records[d][i - 1].entry)
                      /\ records[d][i].entry
                           = Approved(records[d][i - 1].entry,
                                      records[d][i].entry.approval)
    BY DEF ApprovalsExtendWhatWasRead
  <2>1. /\ records[d][i].revision = i
        /\ Successor(records[d], records[d][i])
    BY DEF ChainInv, HistoryFollows
  <2>2. i \in Nat \ {0}
    BY LenProperties DEF ChainInv, TypeOK
  <2>3. records[d][i].entry # Evaluated(records[d][i].entry.request)
    BY DEF Evaluated
  <2> QED
    BY <2>1, <2>2, <2>3 DEF Successor
<1> QED
  BY <1>1, ChainInvariant, PTL

------------------------------------------------------------------------------
(***************************************************************************)
(* The events                                                              *)
(***************************************************************************)

EventsInv == EventInv /\ LinkInv

\* A step that touches neither records nor events, after which the only
\* thread it moved is not announcing, keeps what is known of the events.
LEMMA EventsKept ==
  ASSUME EventsInv, UNCHANGED <<records, events>>, NEW t \in Threads,
         \A u \in Threads : u # t => call'[u] = call[u],
         ~ Announcing(t)'
  PROVE  EventsInv'
<1>1. \A u \in Threads : Announcing(u)' => u # t /\ Announcing(u)
  BY DEF Announcing, At
<1>2. \A u \in Threads : At(u, "append")' => u # t /\ At(u, "append")
  BY DEF Announcing, At
<1>3. AnnouncementsPending'
  BY <1>1 DEF EventsInv, EventInv, AnnouncementsPending
<1>4. EventsFaithful'
  BY DEF EventsInv, EventInv, EventsFaithful
<1>5. LinksRead'
  BY <1>2 DEF EventsInv, LinkInv, LinksRead
<1>6. LinksGoBack'
  BY DEF EventsInv, LinkInv, LinksGoBack
<1> QED
  BY <1>3, <1>4, <1>5, <1>6 DEF EventsInv, EventInv, LinkInv

\* What is known of logged events.
LEMMA EventFacts ==
  ASSUME TypeOK, NEW i \in DOMAIN events
  PROVE  /\ events[i] \in Event
         /\ events[i].decision \in Decisions
         /\ events[i].tenant \in Tenants
         /\ events[i].revision \in Nat \ {0}
<1>1. events[i] \in Event
  BY ElementOfSeq, LenProperties DEF TypeOK
<1> QED
  BY <1>1 DEF Event

\* The put of a record: nobody has announced it, nobody else will.
LEMMA PutKeepsEvents ==
  ASSUME ChainInv, EventsInv, NEW t \in Threads, Put(t)
  PROVE  EventsInv'
<1> DEFINE d     == call[t].decision
           r     == call[t].record
           chain == records[d]
<1>0. TypeOK
  BY DEF ChainInv
<1>1. /\ chain \in Seq(Record) /\ r \in Record /\ d \in Decisions
      /\ r.revision = Len(chain) + 1
      /\ call[t] \in Call
  BY <1>0, PutExtends, CallTypes DEF Put
<1>2. /\ records' = [records EXCEPT ![d] = Append(chain, r)]
      /\ call' = [call EXCEPT ![t].step = "link"]
      /\ events' = events
  BY DEF Put
<1>3. /\ \A e \in Decisions : e # d => records'[e] = records[e]
      /\ records'[d] = Append(chain, r)
  BY <1>0, <1>1, <1>2 DEF TypeOK
<1>4. /\ Len(chain) \in Nat /\ DOMAIN chain = 1 .. Len(chain)
      /\ DOMAIN Append(chain, r) = 1 .. Len(chain) + 1
      /\ \A j \in 1 .. Len(chain) : Append(chain, r)[j] = chain[j]
      /\ Append(chain, r)[Len(chain) + 1] = r
  BY <1>1, AppendProperties, LenProperties
<1>5. \A e \in Decisions : \A n \in DOMAIN records[e] :
        n \in DOMAIN records'[e] /\ records'[e][n] = records[e][n]
  <2> SUFFICES ASSUME NEW e \in Decisions, NEW n \in DOMAIN records[e]
               PROVE  n \in DOMAIN records'[e] /\ records'[e][n] = records[e][n]
    OBVIOUS
  <2>1. CASE e # d
    BY <1>3, <2>1
  <2>2. CASE e = d
    <3>1. n \in 1 .. Len(chain) /\ n \in 1 .. Len(chain) + 1
      BY <1>4, <2>2
    <3>2. records'[e] = Append(chain, r)
      BY <1>3, <2>2
    <3> QED
      BY <1>4, <2>2, <3>1, <3>2
  <2> QED
    BY <2>1, <2>2
<1>6. \A u \in Threads : u # t => call'[u] = call[u]
  BY <1>2
<1>7. call'[t].decision = d /\ call'[t].record = r /\ ~ At(t, "append")'
  BY <1>0, <1>1, <1>2 DEF TypeOK, Call, At
<1>8. \A i \in DOMAIN events : ~ Announces(events[i], d, r.revision)
  <2> SUFFICES ASSUME NEW i \in DOMAIN events,
                      events[i].decision = d, events[i].revision = r.revision
               PROVE  FALSE
    BY DEF Announces
  <2>1. events[i].revision \in DOMAIN chain
    BY DEF EventsInv, EventInv, EventsFaithful
  <2> QED
    BY <1>1, <1>4, <2>1
<1>9. AnnouncementsPending'
  <2> SUFFICES ASSUME NEW u \in Threads, Announcing(u)'
               PROVE
                 /\ call'[u].record.revision \in DOMAIN records'[call'[u].decision]
                 /\ records'[call'[u].decision][call'[u].record.revision]
                      = call'[u].record
                 /\ \A i \in DOMAIN events :
                      ~ Announces(events[i], call'[u].decision,
                                  call'[u].record.revision)
                 /\ \A v \in Threads : Announcing(v)' /\ v # u =>
                      \/ call'[v].decision # call'[u].decision
                      \/ call'[v].record.revision # call'[u].record.revision
    BY <1>2 DEF AnnouncementsPending, Announces
  <2>1. \A v \in Threads : v # t /\ Announcing(v)' =>
          /\ Announcing(v)
          /\ call[v].decision \in Decisions
          /\ call[v].record.revision \in DOMAIN records[call[v].decision]
          /\ records[call[v].decision][call[v].record.revision] = call[v].record
          /\ \A i \in DOMAIN events :
               ~ Announces(events[i], call[v].decision, call[v].record.revision)
          /\ \A w \in Threads : Announcing(w) /\ w # v =>
               \/ call[w].decision # call[v].decision
               \/ call[w].record.revision # call[v].record.revision
    <3> SUFFICES ASSUME NEW v \in Threads, v # t, Announcing(v)'
                 PROVE  Announcing(v) /\ call[v].decision \in Decisions
      BY DEF EventsInv, EventInv, AnnouncementsPending
    <3>1. Announcing(v)
      BY <1>6 DEF Announcing, At
    <3> QED
      BY <1>0, <3>1, CallTypes DEF Announcing
  <2>2. \A v \in Threads : v # t /\ Announcing(v)' =>
          \/ call[v].decision # d
          \/ call[v].record.revision # r.revision
    BY <1>1, <1>4, <2>1
  <2>3. CASE u = t
    <3>1. /\ r.revision \in DOMAIN records'[d]
          /\ records'[d][r.revision] = r
      BY <1>1, <1>3, <1>4
    <3>2. \A v \in Threads : Announcing(v)' /\ v # t =>
            \/ call'[v].decision # d
            \/ call'[v].record.revision # r.revision
      BY <1>6, <2>2
    <3> QED
      BY <1>7, <1>8, <2>3, <3>1, <3>2
  <2>4. CASE u # t
    <3>1. call'[u] = call[u]
      BY <1>6, <2>4
    <3>2. \A v \in Threads : Announcing(v)' /\ v # u =>
            \/ call'[v].decision # call[u].decision
            \/ call'[v].record.revision # call[u].record.revision
      BY <1>6, <1>7, <2>1, <2>2, <2>4
    <3> QED
      BY <1>5, <2>1, <2>4, <3>1, <3>2
  <2> QED
    BY <2>3, <2>4
<1>10. EventsFaithful'
  <2>1. \A i \in DOMAIN events :
          /\ events[i].decision \in Decisions
          /\ events[i].revision \in DOMAIN records[events[i].decision]
    BY <1>0, EventFacts DEF EventsInv, EventInv, EventsFaithful
  <2> QED
    BY <1>2, <1>5, <2>1 DEF EventsInv, EventInv, EventsFaithful, EventId
<1>11. LinksRead'
  <2>1. \A u \in Threads : At(u, "append")' => u # t /\ At(u, "append")
    BY <1>6, <1>7 DEF At
  <2> QED
    BY <1>2, <1>6, <2>1 DEF EventsInv, LinkInv, LinksRead, EventId
<1>12. LinksGoBack'
  BY <1>2 DEF EventsInv, LinkInv, LinksGoBack, EventId
<1> QED
  BY <1>9, <1>10, <1>11, <1>12 DEF EventsInv, EventInv, LinkInv

\* The append of an event: it announces what its thread had stored, and it
\* links to an event that is already in the log.
LEMMA AppendKeepsEvents ==
  ASSUME ChainInv, EventsInv, NEW t \in Threads, AppendEvent(t)
  PROVE  EventsInv'
<1> DEFINE e == DomainEvent(call[t])
           n == Len(events)
<1>0. TypeOK
  BY DEF ChainInv
<1>1. /\ At(t, "append") /\ Announcing(t)
      /\ call[t] \in Call /\ call[t].decision \in Decisions
      /\ call[t].tenant \in Tenants
      /\ events' = Append(events, e)
      /\ call' = [call EXCEPT ![t] = Idle]
      /\ records' = records
  BY <1>0, CallTypes DEF AppendEvent, Announcing
<1>2. e \in Event
  BY <1>1 DEF DomainEvent, Call, Event, Record
<1>3. /\ n \in Nat /\ DOMAIN events = 1 .. n
      /\ DOMAIN events' = 1 .. n + 1
      /\ \A i \in 1 .. n : events'[i] = events[i]
      /\ events'[n + 1] = e
  BY <1>0, <1>1, <1>2, AppendProperties, LenProperties DEF TypeOK
<1>4. /\ e.decision = call[t].decision
      /\ e.revision = call[t].record.revision
      /\ e.hash = call[t].record.hash
      /\ e.tenant = call[t].tenant
      /\ e.prev = call[t].prev
      /\ e.type = IF call[t].record.entry.approval = "none"
                  THEN "decision.evaluated" ELSE "decision.approved"
  BY DEF DomainEvent
<1>5. /\ \A u \in Threads : u # t => call'[u] = call[u]
      /\ ~ Announcing(t)'
  BY <1>0, <1>1 DEF TypeOK, Announcing, At
<1>6. \A u \in Threads : Announcing(u)' => u # t /\ Announcing(u)
  BY <1>5 DEF Announcing, At
<1> HIDE DEF e, n
<1>7. AnnouncementsPending'
  <2> SUFFICES ASSUME NEW u \in Threads, Announcing(u)'
               PROVE
                 /\ call[u].record.revision \in DOMAIN records[call[u].decision]
                 /\ records[call[u].decision][call[u].record.revision]
                      = call[u].record
                 /\ \A i \in DOMAIN events' :
                      ~ Announces(events'[i], call[u].decision,
                                  call[u].record.revision)
                 /\ \A v \in Threads : Announcing(v)' /\ v # u =>
                      \/ call[v].decision # call[u].decision
                      \/ call[v].record.revision # call[u].record.revision
    BY <1>1, <1>5, <1>6 DEF AnnouncementsPending, Announces
  <2>1. /\ u # t /\ Announcing(u)
        /\ call[u].record.revision \in DOMAIN records[call[u].decision]
        /\ records[call[u].decision][call[u].record.revision] = call[u].record
        /\ \A i \in DOMAIN events :
             ~ Announces(events[i], call[u].decision, call[u].record.revision)
        /\ \A v \in Threads : Announcing(v) /\ v # u =>
             \/ call[v].decision # call[u].decision
             \/ call[v].record.revision # call[u].record.revision
    BY <1>6 DEF EventsInv, EventInv, AnnouncementsPending
  <2>2. ~ Announces(e, call[u].decision, call[u].record.revision)
    BY <1>1, <1>4, <2>1 DEF Announces
  <2>3. \A i \in DOMAIN events' :
          ~ Announces(events'[i], call[u].decision, call[u].record.revision)
    BY <1>3, <2>1, <2>2
  <2> QED
    BY <1>6, <2>1, <2>3
<1>8. EventsFaithful'
  <2>1. /\ call[t].record.revision \in DOMAIN records[call[t].decision]
        /\ records[call[t].decision][call[t].record.revision] = call[t].record
        /\ \A i \in DOMAIN events :
             ~ Announces(events[i], call[t].decision, call[t].record.revision)
    BY <1>1 DEF EventsInv, EventInv, AnnouncementsPending
  <2>2. /\ e.revision \in DOMAIN records[e.decision]
        /\ e.hash = records[e.decision][e.revision].hash
        /\ e.type = IF records[e.decision][e.revision].entry.approval = "none"
                    THEN "decision.evaluated" ELSE "decision.approved"
    BY <1>4, <2>1
  <2>3. \A i \in 1 .. n : EventId(events'[i]) # EventId(e)
    BY <1>3, <1>4, <2>1 DEF Announces, EventId
  <2>4. \A i \in 1 .. n + 1 : LET f == events'[i] IN
          /\ f.revision \in DOMAIN records[f.decision]
          /\ f.hash = records[f.decision][f.revision].hash
          /\ f.type = IF records[f.decision][f.revision].entry.approval = "none"
                      THEN "decision.evaluated" ELSE "decision.approved"
    BY <1>3, <2>2 DEF EventsInv, EventInv, EventsFaithful
  <2>5. \A i, j \in 1 .. n + 1 :
          EventId(events'[i]) = EventId(events'[j]) => i = j
    BY <1>3, <2>3 DEF EventsInv, EventInv, EventsFaithful
  <2> QED
    BY <1>1, <1>3, <2>4, <2>5 DEF EventsFaithful, EventId
<1>9. \A j \in DOMAIN events : j \in DOMAIN events' /\ events'[j] = events[j]
  BY <1>3
<1>10. LinksRead'
  <2> SUFFICES ASSUME NEW u \in Threads, At(u, "append")'
               PROVE  \/ call'[u].prev = NoEvent
                      \/ \E j \in DOMAIN events' :
                           /\ EventId(events'[j]) = call'[u].prev
                           /\ events'[j].tenant = call'[u].tenant
    BY DEF LinksRead, EventId
  <2>1. u # t /\ At(u, "append") /\ call'[u] = call[u]
    BY <1>5 DEF At, Announcing
  <2>2. \/ call[u].prev = NoEvent
        \/ \E j \in DOMAIN events : /\ EventId(events[j]) = call[u].prev
                                   /\ events[j].tenant = call[u].tenant
    BY <2>1 DEF EventsInv, LinkInv, LinksRead
  <2> QED
    BY <1>9, <2>1, <2>2
<1>11. LinksGoBack'
  <2> SUFFICES ASSUME NEW i \in DOMAIN events'
               PROVE  \/ events'[i].prev = NoEvent
                      \/ \E j \in 1 .. i - 1 :
                           /\ EventId(events'[j]) = events'[i].prev
                           /\ events'[j].tenant = events'[i].tenant
    BY DEF LinksGoBack, EventId
  <2>1. CASE i \in 1 .. n
    <3>1. \/ events[i].prev = NoEvent
          \/ \E j \in 1 .. i - 1 : /\ EventId(events[j]) = events[i].prev
                                   /\ events[j].tenant = events[i].tenant
      BY <1>3, <2>1 DEF EventsInv, LinkInv, LinksGoBack
    <3>2. \A j \in 1 .. i - 1 : events'[j] = events[j]
      BY <1>3, <2>1
    <3> QED
      BY <1>3, <2>1, <3>1, <3>2
  <2>2. CASE i = n + 1
    <3>1. \/ call[t].prev = NoEvent
          \/ \E j \in DOMAIN events : /\ EventId(events[j]) = call[t].prev
                                     /\ events[j].tenant = call[t].tenant
      BY <1>1 DEF EventsInv, LinkInv, LinksRead
    <3>2. DOMAIN events = 1 .. i - 1
      BY <1>3, <2>2
    <3> QED
      BY <1>3, <1>4, <1>9, <2>2, <3>1, <3>2
  <2> QED
    BY <1>3, <2>1, <2>2
<1> QED
  BY <1>7, <1>8, <1>10, <1>11 DEF EventsInv, EventInv, LinkInv

\* Reading the hash to link to.
LEMMA LinkKeepsEvents ==
  ASSUME ChainInv, EventsInv, NEW t \in Threads, LinkEvent(t)
  PROVE  EventsInv'
<1>0. TypeOK
  BY DEF ChainInv
<1>1. /\ At(t, "link") /\ Announcing(t)
      /\ call[t] \in Call /\ call[t].tenant \in Tenants
      /\ call' = [call EXCEPT ![t] = [call[t] EXCEPT !.step = "append",
                    !.prev = LastHash(events, call[t].tenant)]]
      /\ records' = records /\ events' = events
  BY <1>0, CallTypes DEF LinkEvent, Announcing
<1>2. /\ \A u \in Threads : u # t => call'[u] = call[u]
      /\ call'[t] = [call[t] EXCEPT !.step = "append",
                       !.prev = LastHash(events, call[t].tenant)]
  BY <1>0, <1>1 DEF TypeOK
<1>3. /\ call'[t].decision = call[t].decision
      /\ call'[t].record = call[t].record
      /\ call'[t].tenant = call[t].tenant
      /\ call'[t].prev = LastHash(events, call[t].tenant)
  <2>1. ASSUME NEW c \in Call, NEW h
        PROVE  LET k == [c EXCEPT !.step = "append", !.prev = h]
               IN  /\ k.decision = c.decision /\ k.record = c.record
                   /\ k.tenant = c.tenant /\ k.prev = h
    BY DEF Call
  <2>2. call[t] \in Call
    BY <1>1
  <2> QED
    BY <1>2, <2>1, <2>2
<1>4. \A u \in Threads :
        /\ Announcing(u)' => Announcing(u)
        /\ call'[u].decision = call[u].decision
        /\ call'[u].record = call[u].record
  BY <1>1, <1>2, <1>3 DEF Announcing, At
<1>5. AnnouncementsPending'
  BY <1>1, <1>4 DEF EventsInv, EventInv, AnnouncementsPending, Announces
<1>6. EventsFaithful'
  BY <1>1 DEF EventsInv, EventInv, EventsFaithful, EventId
<1>7. LinksRead'
  <2> SUFFICES ASSUME NEW u \in Threads, At(u, "append")'
               PROVE  \/ call'[u].prev = NoEvent
                      \/ \E j \in DOMAIN events :
                           /\ EventId(events[j]) = call'[u].prev
                           /\ events[j].tenant = call'[u].tenant
    BY <1>1 DEF LinksRead, EventId
  <2>1. CASE u = t
    <3>1. events \in Seq(Event)
      BY <1>0 DEF TypeOK
    <3>2. \/ LastHash(events, call[t].tenant) = NoEvent
          \/ \E j \in DOMAIN events :
               /\ EventId(events[j]) = LastHash(events, call[t].tenant)
               /\ events[j].tenant = call[t].tenant
      BY <1>1, <3>1, LastHashFound
    <3> QED
      BY <1>3, <2>1, <3>2
  <2>2. CASE u # t
    <3>1. call'[u] = call[u] /\ At(u, "append")
      BY <1>2, <2>2 DEF At
    <3> QED
      BY <3>1 DEF EventsInv, LinkInv, LinksRead
  <2> QED
    BY <2>1, <2>2
<1>8. LinksGoBack'
  BY <1>1 DEF EventsInv, LinkInv, LinksGoBack, EventId
<1> QED
  BY <1>5, <1>6, <1>7, <1>8 DEF EventsInv, EventInv, LinkInv

\* Initially, and after a restart, there is nothing to know.
LEMMA EventsInit ==
  ASSUME events = <<>>, \A t \in Threads : call[t] = Idle
  PROVE  EventsInv
<1>1. DOMAIN events = {}
  OBVIOUS
<1>2. \A t \in Threads : ~ Announcing(t) /\ ~ At(t, "append")
  BY DEF Announcing, At
<1> QED
  BY <1>1, <1>2 DEF EventsInv, EventInv, LinkInv, AnnouncementsPending,
                    EventsFaithful, LinksRead, LinksGoBack

LEMMA EventsStep == ChainInv /\ EventsInv /\ [Next]_vars => EventsInv'
<1> SUFFICES ASSUME ChainInv, EventsInv, [Next]_vars PROVE EventsInv'
  OBVIOUS
<1>0. TypeOK
  BY DEF ChainInv
<1>1. ASSUME NEW t \in Threads, BeginEvaluate(t) PROVE EventsInv'
  <2>1. /\ UNCHANGED <<records, events>>
        /\ \A u \in Threads : u # t => call'[u] = call[u]
        /\ ~ Announcing(t)'
    BY <1>0, <1>1 DEF BeginEvaluate, TypeOK, Announcing, At, InCall
  <2> QED
    BY <2>1, EventsKept
<1>2. ASSUME NEW t \in Threads, BeginApprove(t) PROVE EventsInv'
  <2>1. /\ UNCHANGED <<records, events>>
        /\ \A u \in Threads : u # t => call'[u] = call[u]
        /\ ~ Announcing(t)'
    BY <1>0, <1>2 DEF BeginApprove, TypeOK, Announcing, At, InCall
  <2> QED
    BY <2>1, EventsKept
<1>3. ASSUME NEW t \in Threads, Put(t) PROVE EventsInv'
  BY <1>3, PutKeepsEvents
<1>4. ASSUME NEW t \in Threads, Conflict(t) PROVE EventsInv'
  <2>1. /\ UNCHANGED <<records, events>>
        /\ \A u \in Threads : u # t => call'[u] = call[u]
        /\ ~ Announcing(t)'
    BY <1>0, <1>4 DEF Conflict, TypeOK, Announcing, At
  <2> QED
    BY <2>1, EventsKept
<1>5. ASSUME NEW t \in Threads, LinkEvent(t) PROVE EventsInv'
  BY <1>5, LinkKeepsEvents
<1>6. ASSUME NEW t \in Threads, AppendEvent(t) PROVE EventsInv'
  BY <1>6, AppendKeepsEvents
<1>7. CASE Restart
  <2>1. events' = <<>> /\ \A t \in Threads : call'[t] = Idle
    BY <1>7 DEF Restart
  <2>2. DOMAIN events' = {}
    BY <2>1
  <2>3. \A t \in Threads : ~ Announcing(t)' /\ ~ At(t, "append")'
    BY <2>1 DEF Announcing, At
  <2> QED
    BY <2>2, <2>3 DEF EventsInv, EventInv, LinkInv, AnnouncementsPending,
                      EventsFaithful, LinksRead, LinksGoBack
<1>8. CASE UNCHANGED vars
  BY <1>8 DEF vars, EventsInv, EventInv, LinkInv, AnnouncementsPending,
              EventsFaithful, LinksRead, LinksGoBack, Announcing, At
<1> QED
  BY <1>1, <1>2, <1>3, <1>4, <1>5, <1>6, <1>7, <1>8 DEF Next, Continue

LEMMA EventsInvariant == Spec => []EventsInv
<1>1. Init => EventsInv
  BY EventsInit DEF Init
<1> QED
  BY <1>1, EventsStep, ChainInvariant, PTL DEF Spec

\* Every event tells the truth about a stored revision, and no revision is
\* announced twice.
THEOREM EventsAreFaithful == Spec => []EventsFaithful
<1>1. EventsInv => EventsFaithful
  BY DEF EventsInv, EventInv
<1> QED
  BY <1>1, EventsInvariant, PTL

\* Links between events lead back in the log, within one tenant.
THEOREM EventLinksGoBack == Spec => []LinksGoBack
<1>1. EventsInv => LinksGoBack
  BY DEF EventsInv, LinkInv
<1> QED
  BY <1>1, EventsInvariant, PTL

------------------------------------------------------------------------------
(***************************************************************************)
(* The refinement                                                          *)
(***************************************************************************)

\* The history the atomic ledger sees in a chain of records.
EntriesOf(chain) == [i \in DOMAIN chain |-> chain[i].entry]

LedgerOf(recs) == [d \in Decisions |-> EntriesOf(recs[d])]

\* A longer chain has one more entry.
LEMMA EntriesAppend ==
  ASSUME NEW chain \in Seq(Record), NEW r \in Record
  PROVE  EntriesOf(Append(chain, r)) = Append(EntriesOf(chain), r.entry)
<1> DEFINE n == Len(chain)
<1>1. /\ n \in Nat /\ DOMAIN chain = 1 .. n
      /\ DOMAIN Append(chain, r) = 1 .. n + 1
      /\ \A i \in 1 .. n : Append(chain, r)[i] = chain[i] /\ chain[i] \in Record
      /\ Append(chain, r)[n + 1] = r
  BY AppendProperties, LenProperties, ElementOfSeq
<1>2. EntriesOf(chain) \in Seq(Entry) /\ Len(EntriesOf(chain)) = n
  BY <1>1 DEF EntriesOf, Record
<1>3. r.entry \in Entry
  BY DEF Record
<1>4. /\ Append(EntriesOf(chain), r.entry) \in Seq(Entry)
      /\ Len(Append(EntriesOf(chain), r.entry)) = n + 1
      /\ \A i \in 1 .. n :
           Append(EntriesOf(chain), r.entry)[i] = EntriesOf(chain)[i]
      /\ Append(EntriesOf(chain), r.entry)[n + 1] = r.entry
  BY <1>2, <1>3, AppendProperties
<1>5. /\ EntriesOf(Append(chain, r)) \in Seq(Entry)
      /\ Len(EntriesOf(Append(chain, r))) = n + 1
  BY <1>1, <1>3 DEF EntriesOf, Record
<1> HIDE DEF n
<1>6. \A i \in 1 .. n + 1 :
        EntriesOf(Append(chain, r))[i] = Append(EntriesOf(chain), r.entry)[i]
  BY <1>1, <1>4 DEF EntriesOf
<1> QED
  BY <1>4, <1>5, <1>6, SeqEqual

\* No history is a history of no entries.
LEMMA EntriesEmpty == EntriesOf(<<>>) = <<>>
BY DEF EntriesOf

\* The steps of the atomic ledger that extend a history.
LEMMA AtomicSteps ==
  /\ \A d \in Decisions, q \in Requests : Atomic!Evaluate(d, q) => Atomic!Next
  /\ \A d \in Decisions, v \in Verdicts : Atomic!Approve(d, v) => Atomic!Next
BY Zenon DEF Atomic!Next

\* A put is an evaluate or an approve of the atomic ledger.
LEMMA PutIsAtomic ==
  ASSUME ChainInv, NEW t \in Threads, Put(t)
  PROVE  Atomic!Next
<1>0. TypeOK
  BY DEF ChainInv
<1>a. PICK d \in Decisions : d = call[t].decision
  BY <1>0, CallTypes DEF Put
<1> DEFINE r     == call[t].record
           chain == records[d]
           L     == LedgerOf(records)
<1>1. /\ chain \in Seq(Record) /\ r \in Record /\ d \in Decisions
      /\ Successor(chain, r)
      /\ r.revision = Len(chain) + 1
      /\ Len(chain) \in Nat /\ DOMAIN chain = 1 .. Len(chain)
  BY <1>0, <1>a, PutExtends, CallTypes, LenProperties DEF Put
<1>2. records' = [records EXCEPT ![d] = Append(chain, r)]
  BY <1>a DEF Put
<1>3. LedgerOf(records') = [L EXCEPT ![d] = Append(EntriesOf(chain), r.entry)]
  <2>1. EntriesOf(Append(chain, r)) = Append(EntriesOf(chain), r.entry)
    BY <1>1, EntriesAppend
  <2>2. \A e \in Decisions : records'[e] =
          IF e = d THEN Append(chain, r) ELSE records[e]
    BY <1>0, <1>2 DEF TypeOK
  <2> QED
    BY <2>1, <2>2 DEF LedgerOf
<1>4. L[d] = EntriesOf(chain)
  BY <1>1 DEF LedgerOf
<1>5. CASE r.entry = Evaluated(r.entry.request)
  <2>1. PICK q \in Requests : q = r.entry.request
    BY <1>1 DEF Record, Entry
  <2>2. LedgerOf(records') =
          [L EXCEPT ![d] = Append(L[d], Evaluated(q))]
    BY <1>3, <1>4, <1>5, <2>1
  <2>3. Atomic!Evaluate(d, q)
    BY <2>2 DEF Atomic!Evaluate, LedgerOf, EntriesOf, Evaluated, Atomic!Evaluated
  <2> QED
    BY <2>3, AtomicSteps
<1>6. CASE r.entry # Evaluated(r.entry.request)
  <2> DEFINE n == Len(chain)
  <2>1. /\ n > 0
        /\ Approvable(chain[n].entry)
        /\ r.entry.approval \in Verdicts
        /\ r.entry = Approved(chain[n].entry, r.entry.approval)
    BY <1>1, <1>6 DEF Successor
  <2>v. PICK v \in Verdicts : v = r.entry.approval
    BY <2>1
  <2>2. L[d] # <<>> /\ Len(L[d]) = n /\ L[d][n] = chain[n].entry
    <3>1. /\ EntriesOf(chain) \in Seq(Entry)
          /\ Len(EntriesOf(chain)) = n
          /\ EntriesOf(chain)[n] = chain[n].entry
      <4>0. \A i \in 1 .. Len(chain) : chain[i] \in Record
        BY <1>1, ElementOfSeq
      <4>1. \A i \in 1 .. n : chain[i].entry \in Entry
        BY <4>0 DEF Record
      <4> QED
        BY <1>1, <2>1, <4>1 DEF EntriesOf
    <3> QED
      BY <1>4, <2>1, <3>1
  <2>3. LedgerOf(records') =
          [L EXCEPT ![d] =
             Append(L[d], Approved(L[d][Len(L[d])], v))]
    BY <1>3, <1>4, <2>1, <2>2, <2>v
  <2>4. Approvable(L[d][Len(L[d])])
    BY <2>1, <2>2
  <2>5. Atomic!Approve(d, v)
    BY <2>2, <2>3, <2>4 DEF Atomic!Approve, LedgerOf, EntriesOf, Approved,
       Atomic!Approved, Approvable, Atomic!Approvable
  <2> QED
    BY <2>5, AtomicSteps
<1> QED
  BY <1>5, <1>6

\* The service implements the atomic ledger: under every interleaving of its
\* callers, each successful put is one atomic evaluate or approve, a restart
\* forgets everything or nothing, and no other step shows.
THEOREM Implementation == Spec => ImplementsAtomicLedger
<1>1. Init => Atomic!Init
  BY EntriesEmpty DEF Init, Atomic!Init, EntriesOf
<1>2. ChainInv /\ [Next]_vars => [Atomic!Next]_(LedgerOf(records))
  <2> SUFFICES ASSUME ChainInv, [Next]_vars
               PROVE  Atomic!Next \/ UNCHANGED LedgerOf(records)
    OBVIOUS
  <2>1. ASSUME UNCHANGED records PROVE UNCHANGED LedgerOf(records)
    BY <2>1 DEF LedgerOf, EntriesOf
  <2>2. ASSUME NEW t \in Threads, Put(t) PROVE Atomic!Next
    BY <2>2, PutIsAtomic
  <2>3. CASE Restart
    <3>1. CASE durable
      BY <2>1, <2>3, <3>1 DEF Restart
    <3>2. CASE ~ durable
      <4>1. records' = [d \in Decisions |-> <<>>]
        BY <2>3, <3>2 DEF Restart
      <4>2. Atomic!Forget
        BY <4>1, EntriesEmpty DEF Atomic!Forget, EntriesOf
      <4> QED
        BY <4>2 DEF Atomic!Next
    <3> QED
      BY <3>1, <3>2
  <2>4. ASSUME NEW t \in Threads,
               \/ BeginEvaluate(t) \/ BeginApprove(t) \/ Conflict(t)
               \/ LinkEvent(t) \/ AppendEvent(t)
        PROVE  UNCHANGED records
    BY <2>4 DEF BeginEvaluate, BeginApprove, Conflict, LinkEvent, AppendEvent
  <2>5. CASE UNCHANGED vars
    BY <2>1, <2>5 DEF vars
  <2> QED
    BY <2>1, <2>2, <2>3, <2>4, <2>5 DEF Next, Continue
<1>3. [Atomic!Next]_(LedgerOf(records)) =>
        [Atomic!Next]_([d \in Decisions |->
                          [i \in DOMAIN records[d] |-> records[d][i].entry]])
  BY DEF LedgerOf, EntriesOf
<1> QED
  BY <1>1, <1>2, <1>3, ChainInvariant, PTL
     DEF Spec, ImplementsAtomicLedger, Atomic!Spec
=============================================================================
