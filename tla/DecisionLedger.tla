--------------------------- MODULE DecisionLedger ---------------------------
(***************************************************************************)
(* The decision service with concurrent callers (service.py, repository.py, *)
(* persistence/postgres.py, persistence/event_store.py).  evaluate() and   *)
(* approve() run on the server's thread pool.  Each reads the latest       *)
(* revision, computes and seals the next one with no lock held, and puts   *)
(* it; the repository refuses it when another revision got there first.    *)
(* Then the call announces the revision in its tenant's event log: it      *)
(* reads the hash of the tenant's last event, and appends an event that    *)
(* links to it, in two separate critical sections.                         *)
(***************************************************************************)
EXTENDS DecisionRecord, FiniteSetsExt

CONSTANTS
  Decisions,      \* decision ids, given by the callers
  Threads,        \* the threads that serve calls
  Tenants,        \* tenants, each with its own event chain
  Idle,           \* a thread that serves no call
  NoEvent,        \* prev_hash of a tenant's first event
  MaxRevisions,   \* bound: no call begins on a longer history
  MaxRestarts     \* bound on the restarts of the service

ASSUME LedgerAssumption == MaxRevisions \in Nat /\ MaxRestarts \in Nat

VARIABLES
  durable,    \* whether decisions are kept in a database
  records,    \* the stored revisions of every decision
  events,     \* the event log, in the order of the appends
  call,       \* the call each thread is in
  restarts    \* how often the service was restarted

vars == <<durable, records, events, call, restarts>>

Last(s) == s[Len(s)]

------------------------------------------------------------------------------
(***************************************************************************)
(* The repository                                                          *)
(***************************************************************************)

\* InMemoryDecisionRepository.put: nothing is asked of a first revision.
FitsInMemory(chain, r) ==
  chain # <<>> => /\ r.revision = Last(chain).revision + 1
                  /\ r.parent = Last(chain).hash

\* PostgresDecisionRepository.put: the revision is always checked, here or
\* by the primary key, and the parent when there is one on both sides.
FitsInDatabase(chain, r) ==
  /\ r.revision = IF chain = <<>> THEN 1 ELSE Last(chain).revision + 1
  /\ chain # <<>> /\ r.parent # NoParent => r.parent = Last(chain).hash

\* Faulty variant: the put renumbers nothing and compares nothing.
FitsAlways(chain, r) == VerifyRecord(r)

Fits(chain, r) ==
  /\ VerifyRecord(r)
  /\ IF durable THEN FitsInDatabase(chain, r) ELSE FitsInMemory(chain, r)

\* repository.get refuses a history that does not verify.
Readable(d) == VerifyChain(records[d])

------------------------------------------------------------------------------
(***************************************************************************)
(* The calls                                                               *)
(***************************************************************************)

\* A call that has made its record and is about to put it.
InCall(tenant, d, r) ==
  [step |-> "put", tenant |-> tenant, decision |-> d, record |-> r,
   prev |-> NoEvent]

At(t, step) == call[t] # Idle /\ call[t].step = step

Init ==
  /\ durable \in BOOLEAN
  /\ records = [d \in Decisions |-> <<>>]
  /\ events = <<>>
  /\ call = [t \in Threads |-> Idle]
  /\ restarts = 0

\* Faulty variant: the next revision has the number of the last.
NextRecordUnnumbered(chain, entry) ==
  SealRecord(entry, Len(chain),
             IF chain = <<>> THEN NoParent ELSE Last(chain).hash)

\* The record a call makes of the history it reads.
NextRecord(chain, entry) ==
  SealRecord(entry, Len(chain) + 1,
             IF chain = <<>> THEN NoParent ELSE Last(chain).hash)

\* A call reads a history that verifies.
MayRead(t, d) ==
  /\ call[t] = Idle
  /\ Len(records[d]) < MaxRevisions
  /\ Readable(d)

\* evaluate() up to the put: evaluation depends on the request alone.
BeginEvaluate(t) ==
  \E tenant \in Tenants, d \in Decisions, q \in Requests :
    /\ MayRead(t, d)
    /\ call' = [call EXCEPT ![t] =
                  InCall(tenant, d, NextRecord(records[d], Evaluated(q)))]
    /\ UNCHANGED <<durable, records, events, restarts>>

\* Faulty variant: any latest revision may be approved.
BeginAnyApprove(t) ==
  \E tenant \in Tenants, d \in Decisions, verdict \in Verdicts :
    /\ MayRead(t, d)
    /\ records[d] # <<>>
    /\ call' = [call EXCEPT ![t] =
                  InCall(tenant, d,
                    NextRecord(records[d],
                               Approved(Last(records[d]).entry, verdict)))]
    /\ UNCHANGED <<durable, records, events, restarts>>

\* approve() up to the put: an unknown decision (404) and one that cannot
\* be approved (409) end the call with nothing changed.
BeginApprove(t) ==
  \E tenant \in Tenants, d \in Decisions, verdict \in Verdicts :
    /\ MayRead(t, d)
    /\ records[d] # <<>>
    /\ Approvable(Last(records[d]).entry)
    /\ call' = [call EXCEPT ![t] =
                  InCall(tenant, d,
                    NextRecord(records[d],
                               Approved(Last(records[d]).entry, verdict)))]
    /\ UNCHANGED <<durable, records, events, restarts>>

\* Faulty variant: the call ends with the put.
PutUnannounced(t) ==
  LET c == call[t]
  IN  /\ At(t, "put")
      /\ Fits(records[c.decision], c.record)
      /\ records' = [records EXCEPT ![c.decision] = Append(@, c.record)]
      /\ call' = [call EXCEPT ![t] = Idle]
      /\ UNCHANGED <<durable, events, restarts>>

\* The put stores the record.
Put(t) ==
  LET c == call[t]
  IN  /\ At(t, "put")
      /\ Fits(records[c.decision], c.record)
      /\ records' = [records EXCEPT ![c.decision] = Append(@, c.record)]
      /\ call' = [call EXCEPT ![t].step = "link"]
      /\ UNCHANGED <<durable, events, restarts>>

\* Faulty variant: the refused revision is announced all the same.
ConflictAnnounced(t) ==
  LET c == call[t]
  IN  /\ At(t, "put")
      /\ ~Fits(records[c.decision], c.record)
      /\ call' = [call EXCEPT ![t].step = "link"]
      /\ UNCHANGED <<durable, records, events, restarts>>

\* The put finds another revision: the call fails and nothing retries it.
Conflict(t) ==
  LET c == call[t]
  IN  /\ At(t, "put")
      /\ ~Fits(records[c.decision], c.record)
      /\ call' = [call EXCEPT ![t] = Idle]
      /\ UNCHANGED <<durable, records, events, restarts>>

\* An event's hash covers a fresh id; it is modelled by what the event
\* announces, which no other event does.
EventId(e) == <<e.decision, e.revision>>

\* Faulty variant: the log's last event, whosever it is.
LastHashOfAll(log, tenant) ==
  IF log = <<>> THEN NoEvent ELSE EventId(Last(log))

\* last_hash: the tenant's last event.
LastHash(log, tenant) ==
  LET mine == {i \in DOMAIN log : log[i].tenant = tenant}
  IN  IF mine = {} THEN NoEvent ELSE EventId(log[Max(mine)])

\* _emit_event reads the hash to link to.
LinkEvent(t) ==
  /\ At(t, "link")
  /\ call' = [call EXCEPT ![t].step = "append",
                          ![t].prev = LastHash(events, call[t].tenant)]
  /\ UNCHANGED <<durable, records, events, restarts>>

DomainEvent(c) ==
  [type     |-> IF c.record.entry.approval = "none" THEN "decision.evaluated"
                ELSE "decision.approved",
   tenant   |-> c.tenant,
   decision |-> c.decision,
   revision |-> c.record.revision,
   hash     |-> c.record.hash,
   prev     |-> c.prev]

\* _emit_event appends the event and the call returns.
AppendEvent(t) ==
  /\ At(t, "append")
  /\ events' = Append(events, DomainEvent(call[t]))
  /\ call' = [call EXCEPT ![t] = Idle]
  /\ UNCHANGED <<durable, records, restarts>>

\* The service stops and starts again.  The calls it was serving are gone,
\* and so is the event log, which _build_service keeps in memory whether or
\* not decisions are kept in a database.
Restart ==
  /\ restarts < MaxRestarts
  /\ restarts' = restarts + 1
  /\ records' = IF durable THEN records ELSE [d \in Decisions |-> <<>>]
  /\ events' = <<>>
  /\ call' = [t \in Threads |-> Idle]
  /\ UNCHANGED durable

\* What a thread does once it is in a call.
Continue(t) == Put(t) \/ Conflict(t) \/ LinkEvent(t) \/ AppendEvent(t)

Next ==
  \/ \E t \in Threads : BeginEvaluate(t) \/ BeginApprove(t) \/ Continue(t)
  \/ Restart

Spec == Init /\ [][Next]_vars

\* A thread in a call is scheduled until the call is over; nobody has to
\* make a call, and nothing makes the service restart.
FairSpec == Spec /\ \A t \in Threads : WF_vars(Continue(t))

------------------------------------------------------------------------------
(***************************************************************************)
(* Properties                                                              *)
(***************************************************************************)

EventRef == (Decisions \X (Nat \ {0})) \cup {NoEvent}

Event ==
  [type : {"decision.evaluated", "decision.approved"}, tenant : Tenants,
   decision : Decisions, revision : Nat \ {0}, hash : Hash, prev : EventRef]

Call ==
  [step : {"put", "link", "append"}, tenant : Tenants, decision : Decisions,
   record : Record, prev : EventRef]

\* Type invariant.
TypeOK ==
  /\ durable \in BOOLEAN
  /\ records \in [Decisions -> Seq(Record)]
  /\ events \in Seq(Event)
  /\ call \in [Threads -> Call \cup {Idle}]
  /\ restarts \in Nat

\* Every stored history verifies, however many callers raced to extend it,
\* so a read never fails on the service's own writes (repository.py:33-57).
ChainsVerify == \A d \in Decisions : VerifyChain(records[d])

\* An approval is of the revision approve() itself read, the one just before
\* it, unapproved and approvable, although the status was checked on a copy
\* before the put (service.py:108-119, approval.py:30-55).  What the human was
\* shown before the call may be an older revision: the approval names neither
\* a revision nor a hash (schemas.py:523-527).
ApprovalsExtendWhatWasRead ==
  \A d \in Decisions : \A i \in DOMAIN records[d] :
    LET entry == records[d][i].entry
        read  == records[d][i - 1].entry
    IN  entry.approval # "none" =>
          /\ i > 1
          /\ Approvable(read)
          /\ entry = Approved(read, entry.approval)

Announces(e, d, n) == e.decision = d /\ e.revision = n

\* Every event announces a stored revision, with its hash and its kind, and
\* no revision is announced twice (service.py:67-75, 128-137).
EventsFaithful ==
  /\ \A i \in DOMAIN events :
       LET e == events[i]
           r == records[e.decision][e.revision]
       IN  /\ e.revision \in DOMAIN records[e.decision]
           /\ e.hash = r.hash
           /\ e.type = IF r.entry.approval = "none" THEN "decision.evaluated"
                       ELSE "decision.approved"
  /\ \A i, j \in DOMAIN events :
       EventId(events[i]) = EventId(events[j]) => i = j

\* An event links to nothing or to an earlier event of its own tenant:
\* links never dangle, form a cycle or cross tenants
\* (event_store.py:137-140).
LinksGoBack ==
  \A i \in DOMAIN events :
    \/ events[i].prev = NoEvent
    \/ \E j \in 1 .. i - 1 : /\ EventId(events[j]) = events[i].prev
                             /\ events[j].tenant = events[i].tenant

\* Behind the races the histories are those of the atomic ledger.
Atomic == INSTANCE AtomicLedger WITH
  ledger <- [d \in Decisions |->
               [i \in DOMAIN records[d] |-> records[d][i].entry]]

\* Every behaviour of the service is one of the atomic ledger: a put that
\* succeeds is the whole of an evaluate or an approve on the latest
\* revision, and nothing else changes a history (service.py:42-138).
ImplementsAtomicLedger == Atomic!Spec

\* Unless the service stops first, every stored revision is announced
\* (service.py:67, 128).
EventFollowsRecord ==
  \A d \in Decisions, n \in 1 .. MaxRevisions :
    restarts = 0 /\ n \in DOMAIN records[d]
      ~> restarts > 0 \/ \E i \in DOMAIN events : Announces(events[i], d, n)

------------------------------------------------------------------------------
(***************************************************************************)
(* What the documentation says and the code does not do                    *)
(***************************************************************************)

\* "Events are immutable and chained by prev_hash so the event log itself is
\* independently auditable" (event_store.py:4-5): a tenant's events form one
\* chain, so no two of them link to the same predecessor.
EventChainLinear ==
  \A i, j \in DOMAIN events :
    events[i].tenant = events[j].tenant /\ events[i].prev = events[j].prev
      => i = j
=============================================================================
