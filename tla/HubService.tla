------------------------------ MODULE HubService ------------------------------
(***************************************************************************)
(* The service as its clients meet it (api/main.py): the rate limiter      *)
(* admits a call (api/ratelimit.py), the metrics count how it ends         *)
(* (observability/metrics.py), the endpoint's dependencies refuse it or    *)
(* let it through (api/security.py, api/authz.py), and the handler works   *)
(* on the decisions (service.py) and the hub's reports                     *)
(* (hub/orchestrator.py, hub/repository.py).  Handlers run on the server's *)
(* thread pool, so calls overlap; the limiter and the metrics run on the   *)
(* event loop, one step each.                                              *)
(*                                                                         *)
(* An analysis first commits a revision of its decision, then analyses     *)
(* that revision, and last puts the report: the two stores are written in  *)
(* two steps, and a failure or a restart can come between them.            *)
(*                                                                         *)
(* Time is counted in ticks, Minute of them to a minute, and a token is    *)
(* cut into Minute parts, so that a bucket gains `rate' parts a tick.      *)
(***************************************************************************)
EXTENDS DecisionRecord, FiniteSets

CONSTANTS
  Decisions,      \* decision ids, given by the clients
  Clients,        \* clients as the limiter tells them apart
  Permitted,      \* the operations each client's token and scopes permit
  Rates,          \* the values SP_RATE_LIMIT may have, zero for no limit
  Minute,         \* ticks in a minute
  Idle,           \* a client without a call
  MaxTime,        \* bound on the ticks
  MaxCalls,       \* bound on the calls between two starts of the service
  MaxRestarts     \* bound on the restarts

Operation == {"evaluate", "approve", "analyze", "report"}

\* A call in progress: what is asked of which decision, what comes next,
\* and the revision the call has read or committed.
Call ==
  [op : Operation, decision : Decisions,
   step : {"dependencies", "put", "report"}, seen : Nat]

ASSUME ServiceAssumption ==
  /\ IsFiniteSet(Clients)
  /\ Idle \notin Call
  /\ Permitted \in [Clients -> SUBSET Operation]
  /\ Rates \subseteq Nat
  /\ Minute \in Nat \ {0}
  /\ MaxTime \in Nat /\ MaxCalls \in Nat /\ MaxRestarts \in Nat

VARIABLES
  durable,    \* whether both stores are in a database
  rate,       \* the calls a minute a client may make, zero for no limit
  ledger,     \* the history of every decision
  reports,    \* the stored reports: the revision each one is about
  bucket,     \* each client's token bucket
  now,        \* the monotonic clock
  metrics,    \* the calls counted, and the errors among them
  call,       \* the call each client is in
  restarts,   \* how often the service was restarted
  admitted,   \* history: when each client's calls were admitted
  answered,   \* history: the reports the clients were given
  unsettled   \* history: analysed revisions less reports, since the start

stores == <<ledger, reports, unsettled>>
limiter == <<bucket, now, admitted>>
setting == <<durable, rate>>
vars == <<setting, stores, limiter, metrics, call, restarts, answered>>

L == INSTANCE AtomicLedger

Revisions(d) == Len(ledger[d])

\* A report is about the revision the analysis committed.
ReportOn(d, n) == [decision |-> d, revision |-> n]

FullBucket(t) == [tokens |-> rate * Minute, last |-> t]

Fresh ==
  /\ metrics' = [calls |-> 0, errors |-> 0]
  /\ call' = [c \in Clients |-> Idle]
  /\ admitted' = [c \in Clients |-> <<>>]
  /\ bucket' = [c \in Clients |-> FullBucket(now)]

Init ==
  /\ durable \in BOOLEAN
  /\ rate \in Rates
  /\ L!Init
  /\ reports = <<>>
  /\ now = 0
  /\ bucket = [c \in Clients |-> FullBucket(0)]
  /\ metrics = [calls |-> 0, errors |-> 0]
  /\ call = [c \in Clients |-> Idle]
  /\ restarts = 0
  /\ admitted = [c \in Clients |-> <<>>]
  /\ answered = {}
  /\ unsettled = 0

------------------------------------------------------------------------------
(***************************************************************************)
(* The rate limiter                                                        *)
(***************************************************************************)

\* Faulty variant: an idle client saves tokens without end.
RefilledUncapped(b) == b.tokens + (now - b.last) * rate

\* A bucket keeps at most a minute's tokens.  One is made, full, at a
\* client's first call; until then it is as good as full.
Refilled(b) ==
  LET gained == b.tokens + (now - b.last) * rate
  IN  IF gained < rate * Minute THEN gained ELSE rate * Minute

At(c, step) == call[c] # Idle /\ call[c].step = step

\* A call reaches the service: its dependencies are next.
Enter(c) ==
  \E op \in Operation, d \in Decisions :
    call' = [call EXCEPT ![c] =
               [op |-> op, decision |-> d, step |-> "dependencies", seen |-> 0]]

MayCall(c) == call[c] = Idle /\ metrics.calls < MaxCalls

EnterUnlimited(c) ==
  /\ MayCall(c)
  /\ rate = 0
  /\ Enter(c)
  /\ UNCHANGED <<setting, stores, limiter, metrics, restarts, answered>>

Admit(c) ==
  LET tokens == Refilled(bucket[c])
  IN  /\ MayCall(c)
      /\ rate > 0
      /\ tokens >= Minute
      /\ bucket' = [bucket EXCEPT ![c] = [tokens |-> tokens - Minute, last |-> now]]
      /\ admitted' = [admitted EXCEPT ![c] = Append(@, now)]
      /\ Enter(c)
      /\ UNCHANGED <<setting, stores, now, metrics, restarts, answered>>

\* The limiter is the outermost middleware: what it refuses is not counted.
TurnAway(c) ==
  LET tokens == Refilled(bucket[c])
  IN  /\ MayCall(c)
      /\ rate > 0
      /\ tokens < Minute
      /\ bucket' = [bucket EXCEPT ![c] = [tokens |-> tokens, last |-> now]]
      /\ UNCHANGED <<setting, stores, now, admitted, metrics, call, restarts,
                     answered>>

\* Only the limiter reads the clock.
Tick ==
  /\ rate > 0
  /\ now < MaxTime
  /\ now' = now + 1
  /\ UNCHANGED <<setting, stores, bucket, admitted, metrics, call, restarts,
                 answered>>

------------------------------------------------------------------------------
(***************************************************************************)
(* How a call ends                                                         *)
(***************************************************************************)

\* The response passes the metrics on its way out.
Answer(c) ==
  /\ metrics' = [metrics EXCEPT !.calls = @ + 1]
  /\ call' = [call EXCEPT ![c] = Idle]

\* Faulty variant: an exception passes the metrics uncounted.
RaiseUncounted(c) ==
  /\ metrics' = metrics
  /\ call' = [call EXCEPT ![c] = Idle]

\* So does an exception no handler caught, as an error.
Raise(c) ==
  /\ metrics' = [calls |-> metrics.calls + 1, errors |-> metrics.errors + 1]
  /\ call' = [call EXCEPT ![c] = Idle]

------------------------------------------------------------------------------
(***************************************************************************)
(* The endpoints                                                           *)
(***************************************************************************)

\* verify_api_key answers 401, require_scope 403.
Deny(c) ==
  /\ At(c, "dependencies")
  /\ call[c].op \notin Permitted[c]
  /\ Answer(c)
  /\ UNCHANGED <<setting, stores, limiter, restarts, answered>>

Let(c, op) == At(c, "dependencies") /\ call[c].op = op /\ op \in Permitted[c]

\* get_report, of an id the client was given or another: 200 or 404.
ReadReport(c) ==
  /\ Let(c, "report")
  /\ Answer(c)
  /\ UNCHANGED <<setting, stores, limiter, restarts, answered>>

CanApprove(d) == ledger[d] # <<>> /\ Approvable(ledger[d][Revisions(d)])

\* approve of an unknown decision (404) or one it does not apply to (409).
RefuseApproval(c) ==
  /\ Let(c, "approve")
  /\ ~CanApprove(call[c].decision)
  /\ Answer(c)
  /\ UNCHANGED <<setting, stores, limiter, restarts, answered>>

\* evaluate and approve read the latest revision and prepare the next.
Prepare(c) ==
  /\ At(c, "dependencies")
  /\ call[c].op \in Permitted[c] \ {"report"}
  /\ IF call[c].op = "approve" THEN CanApprove(call[c].decision) ELSE TRUE
  /\ call' = [call EXCEPT ![c].step = "put",
                         ![c].seen = Revisions(call[c].decision)]
  /\ UNCHANGED <<setting, stores, limiter, metrics, restarts, answered>>

\* The put appends the prepared revision.
Commit(c) ==
  LET d == call[c].decision
  IN  IF call[c].op = "approve"
      THEN \E verdict \in Verdicts : L!Approve(d, verdict)
      ELSE \E q \in Requests : L!Evaluate(d, q)

UpToDate(c) == Revisions(call[c].decision) = call[c].seen

\* A plain evaluation or an approval is answered with its record.
PutRecord(c) ==
  /\ At(c, "put")
  /\ call[c].op # "analyze"
  /\ UpToDate(c)
  /\ Commit(c)
  /\ Answer(c)
  /\ UNCHANGED <<setting, reports, unsettled, limiter, restarts, answered>>

\* analyze goes on with the record it committed: the scenarios, the causal
\* reconstruction and the cognitive scan change nothing but the report.
PutAnalysed(c) ==
  /\ At(c, "put")
  /\ call[c].op = "analyze"
  /\ UpToDate(c)
  /\ Commit(c)
  /\ unsettled' = unsettled + 1
  /\ call' = [call EXCEPT ![c].step = "report", ![c].seen = @ + 1]
  /\ UNCHANGED <<setting, reports, limiter, metrics, restarts, answered>>

\* Faulty variant: an analysis whose revision was refused is reported.
ConflictReported(c) ==
  /\ At(c, "put")
  /\ ~UpToDate(c)
  /\ call' = [call EXCEPT ![c].step = "report", ![c].seen = @ + 1]
  /\ UNCHANGED <<setting, stores, limiter, metrics, restarts, answered>>

\* Another call's revision got there first: the put raises.
Conflict(c) ==
  /\ At(c, "put")
  /\ ~UpToDate(c)
  /\ Raise(c)
  /\ UNCHANGED <<setting, stores, limiter, restarts, answered>>

\* The report is sealed, put and returned.
PutReport(c) ==
  LET report == ReportOn(call[c].decision, call[c].seen)
  IN  /\ At(c, "report")
      /\ reports' = Append(reports, report)
      /\ unsettled' = unsettled - 1
      /\ answered' = answered \cup {report}
      /\ Answer(c)
      /\ UNCHANGED <<setting, ledger, limiter, restarts>>

------------------------------------------------------------------------------
(***************************************************************************)
(* Failures                                                                *)
(***************************************************************************)

\* The database refuses a read or a write; nothing is rolled back, for what
\* the call committed before it committed alone.
DatabaseFails(c) ==
  /\ durable
  /\ call[c] # Idle
  /\ call[c].op \in Permitted[c]
  /\ Raise(c)
  /\ UNCHANGED <<setting, stores, limiter, restarts, answered>>

\* The database commits, but the connection breaks before it says so.
CommitUnacknowledged(c) ==
  /\ durable
  /\ At(c, "put")
  /\ UpToDate(c)
  /\ Commit(c)
  /\ unsettled' = IF call[c].op = "analyze" THEN unsettled + 1 ELSE unsettled
  /\ Raise(c)
  /\ UNCHANGED <<setting, reports, limiter, restarts, answered>>

ReportUnacknowledged(c) ==
  /\ durable
  /\ At(c, "report")
  /\ reports' = Append(reports, ReportOn(call[c].decision, call[c].seen))
  /\ unsettled' = unsettled - 1
  /\ Raise(c)
  /\ UNCHANGED <<setting, ledger, limiter, restarts, answered>>

\* Faulty variant: the stores are built apart, and the decisions alone are
\* kept in memory.
RestartForgetsLedger ==
  /\ restarts < MaxRestarts
  /\ restarts' = restarts + 1
  /\ Fresh
  /\ unsettled' = 0
  /\ L!Forget
  /\ reports' = IF durable THEN reports ELSE <<>>
  /\ answered' = IF durable THEN answered ELSE {}
  /\ UNCHANGED <<setting, now>>

\* The process stops and starts: calls are cut off, buckets and metrics are
\* lost, and so are both stores unless they are in a database.  What the
\* clients hold of a memory-only service is void.
Restart ==
  /\ restarts < MaxRestarts
  /\ restarts' = restarts + 1
  /\ Fresh
  /\ unsettled' = 0
  /\ IF durable
     THEN UNCHANGED <<ledger, reports, answered>>
     ELSE L!Forget /\ reports' = <<>> /\ answered' = {}
  /\ UNCHANGED <<setting, now>>

Next ==
  \/ Tick
  \/ Restart
  \/ \E c \in Clients :
       \/ EnterUnlimited(c) \/ Admit(c) \/ TurnAway(c)
       \/ Deny(c) \/ ReadReport(c) \/ RefuseApproval(c)
       \/ Prepare(c) \/ PutRecord(c) \/ PutAnalysed(c) \/ Conflict(c)
       \/ PutReport(c) \/ DatabaseFails(c)
       \/ CommitUnacknowledged(c) \/ ReportUnacknowledged(c)

Spec == Init /\ [][Next]_vars

------------------------------------------------------------------------------
(***************************************************************************)
(* Properties                                                              *)
(***************************************************************************)

Stored == {reports[i] : i \in DOMAIN reports}

\* However calls overlap and whatever fails, every stored report is about a
\* revision the ledger holds, of an evaluation and not of an approval, no
\* two are about the same one, and each report a client was given is still
\* stored (hub/orchestrator.py:59-103, hub/repository.py:20-43).
ReportsAreOfHistory ==
  /\ \A r \in Stored :
       /\ r.revision \in 1 .. Revisions(r.decision)
       /\ ledger[r.decision][r.revision].approval = "none"
  /\ \A i, j \in DOMAIN reports : reports[i] = reports[j] => i = j
  /\ answered \subseteq Stored

\* Between any two admissions of a client there is room for them: from the
\* i-th to the j-th they exceed a minute's allowance by no more than the
\* time between them earned (api/ratelimit.py:27-34).
AdmittedWithinRate ==
  rate > 0 =>
    \A c \in Clients : \A i, j \in DOMAIN admitted[c] :
      i <= j => (j - i + 1) * Minute
                  <= rate * Minute + (admitted[c][j] - admitted[c][i]) * rate

\* A revision that an analysis committed and never reported shows: its call
\* is still in flight or was counted as an error (hub/orchestrator.py:60,
\* observability/metrics.py:60-75).
UnreportedRevisionsShow ==
  unsettled <= metrics.errors + Cardinality({c \in Clients : At(c, "report")})
=============================================================================
