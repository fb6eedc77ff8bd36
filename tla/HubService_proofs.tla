--------------------------- MODULE HubService_proofs --------------------------
(***************************************************************************)
(* Proofs about HubService, for any clients, decisions, rate, clock and    *)
(* number of calls and restarts.                                           *)
(*                                                                         *)
(* Two things vary independently: what the calls do to the two stores, and *)
(* what the limiter does to the buckets.  Each has an inductive invariant  *)
(* of its own, and a lemma says of every step of Next what it is to each.  *)
(***************************************************************************)
EXTENDS HubService, SequenceTheorems, FiniteSetTheorems, TLAPS

Report == [decision : Decisions, revision : Nat]
Counters == [calls : Nat, errors : Nat]

------------------------------------------------------------------------------
(***************************************************************************)
(* What the calls do to the stores                                         *)
(***************************************************************************)

StoresTyped ==
  /\ ledger \in [Decisions -> Seq(Entry)]
  /\ reports \in Seq(Report)
  /\ call \in [Clients -> Call \cup {Idle}]
  /\ metrics \in Counters
  /\ unsettled \in Int

\* Nothing the stores hold and no call changes.
StandsStill == UNCHANGED <<stores, answered, metrics, call>>

\* A call moves on, but not to its report, or ends; one that ends before
\* its report is put is counted as an error.
MovesOn(c) ==
  /\ UNCHANGED <<stores, answered>>
  /\ \E x \in Call \cup {Idle} :
       /\ x # Idle => x.step # "report"
       /\ call' = [call EXCEPT ![c] = x]
  /\ metrics' \in Counters
  /\ \/ metrics'.errors = metrics.errors + 1
     \/ metrics'.errors = metrics.errors /\ ~ At(c, "report")

\* A call commits a revision: it ends, or it is an analysis that goes on to
\* its report.
Commits(c) ==
  /\ At(c, "put") /\ UpToDate(c) /\ Commit(c)
  /\ UNCHANGED <<reports, answered>>
  /\ metrics' \in Counters
  /\ unsettled' \in Int
  /\ \/ /\ call' = [call EXCEPT ![c] = Idle]
        /\ unsettled' - unsettled <= metrics'.errors - metrics.errors
     \/ /\ call[c].op = "analyze"
        /\ call' = [call EXCEPT ![c].step = "report", ![c].seen = @ + 1]
        /\ unsettled' = unsettled + 1
        /\ metrics' = metrics

\* A call puts its report and ends, with an answer or without.
Puts(c) ==
  LET report == ReportOn(call[c].decision, call[c].seen)
  IN  /\ At(c, "report")
      /\ reports' = Append(reports, report)
      /\ answered' \subseteq answered \cup {report}
      /\ UNCHANGED ledger
      /\ call' = [call EXCEPT ![c] = Idle]
      /\ unsettled' = unsettled - 1
      /\ metrics' \in Counters
      /\ metrics'.errors >= metrics.errors

\* A call in progress is a call.
LEMMA CallTyped ==
  ASSUME StoresTyped, NEW c \in Clients, NEW step, At(c, step)
  PROVE  call[c] \in Call /\ call[c] # Idle /\ call[c].step = step
BY DEF StoresTyped, At

\* What counting a call's end does to the counters.
LEMMA Counted ==
  ASSUME StoresTyped, NEW c \in Clients
  PROVE  /\ metrics.errors \in Nat
         /\ Answer(c) => /\ metrics' \in Counters
                         /\ metrics'.errors = metrics.errors
                         /\ call' = [call EXCEPT ![c] = Idle]
         /\ Raise(c) => /\ metrics' \in Counters
                        /\ metrics'.errors = metrics.errors + 1
                        /\ call' = [call EXCEPT ![c] = Idle]
BY DEF StoresTyped, Answer, Raise, Counters

\* The calls that do not come as far as writing.
LEMMA QuietSteps ==
  ASSUME StoresTyped, NEW c \in Clients,
         \/ EnterUnlimited(c) \/ Admit(c)
         \/ Deny(c) \/ ReadReport(c) \/ RefuseApproval(c)
         \/ Prepare(c) \/ Conflict(c) \/ DatabaseFails(c)
  PROVE  MovesOn(c)
<1>1. CASE EnterUnlimited(c) \/ Admit(c)
  <2>1. /\ Enter(c) /\ call[c] = Idle
        /\ UNCHANGED <<stores, answered, metrics>>
    BY <1>1 DEF EnterUnlimited, Admit, MayCall, stores
  <2>2. PICK op \in Operation, d \in Decisions :
          call' = [call EXCEPT ![c] = [op |-> op, decision |-> d,
                                       step |-> "dependencies", seen |-> 0]]
    BY <2>1 DEF Enter
  <2>3. [op |-> op, decision |-> d, step |-> "dependencies", seen |-> 0] \in Call
    BY DEF Call
  <2>4. ~ At(c, "report") /\ metrics' \in Counters
    BY <2>1 DEF At, StoresTyped
  <2> QED
    BY <2>1, <2>2, <2>3, <2>4 DEF MovesOn
<1>2. CASE Deny(c) \/ ReadReport(c) \/ RefuseApproval(c)
  <2>1. /\ At(c, "dependencies") /\ Answer(c)
        /\ UNCHANGED <<stores, answered>>
    BY <1>2 DEF Deny, ReadReport, RefuseApproval, Let
  <2>2. ~ At(c, "report")
    BY <2>1 DEF At
  <2> QED
    BY <2>1, <2>2, Counted DEF MovesOn
<1>3. CASE Prepare(c)
  <2> DEFINE x == [call[c] EXCEPT !.step = "put",
                                  !.seen = Revisions(call[c].decision)]
  <2>1. /\ At(c, "dependencies")
        /\ call' = [call EXCEPT ![c].step = "put",
                                ![c].seen = Revisions(call[c].decision)]
        /\ UNCHANGED <<stores, answered, metrics>>
    BY <1>3 DEF Prepare
  <2>2. call[c] \in Call /\ ~ At(c, "report")
    BY <2>1, CallTyped DEF At
  <2>3. Revisions(call[c].decision) \in Nat
    BY <2>2, LenProperties DEF StoresTyped, Call, Revisions
  <2>4. x \in Call /\ x.step = "put"
    BY <2>2, <2>3 DEF Call
  <2>5. call' = [call EXCEPT ![c] = x]
    BY <2>1
  <2>6. metrics' \in Counters /\ metrics'.errors = metrics.errors
    BY <2>1 DEF StoresTyped
  <2> HIDE DEF x
  <2> QED
    BY <2>1, <2>2, <2>4, <2>5, <2>6 DEF MovesOn
<1>4. CASE Conflict(c) \/ DatabaseFails(c)
  <2>1. Raise(c) /\ UNCHANGED <<stores, answered>>
    BY <1>4 DEF Conflict, DatabaseFails
  <2> QED
    BY <2>1, Counted DEF MovesOn
<1> QED
  BY <1>1, <1>2, <1>3, <1>4

\* The calls that write a revision or a report.
LEMMA WritingSteps ==
  ASSUME StoresTyped, NEW c \in Clients
  PROVE  /\ PutRecord(c) \/ PutAnalysed(c) \/ CommitUnacknowledged(c)
              => Commits(c)
         /\ PutReport(c) \/ ReportUnacknowledged(c) => Puts(c)
<1>1. ASSUME PutRecord(c)
      PROVE  Commits(c)
  <2>1. UNCHANGED <<reports, answered, unsettled>> /\ unsettled \in Int
    BY <1>1 DEF PutRecord, StoresTyped
  <2>2. At(c, "put") /\ UpToDate(c) /\ Commit(c) /\ Answer(c)
    BY <1>1 DEF PutRecord
  <2> QED
    BY <2>1, <2>2, Counted DEF Commits
<1>2. ASSUME PutAnalysed(c)
      PROVE  Commits(c)
  <2>1. unsettled' \in Int /\ metrics' \in Counters
    BY <1>2 DEF PutAnalysed, StoresTyped
  <2> QED
    BY <1>2, <2>1 DEF Commits, PutAnalysed
<1>3. ASSUME CommitUnacknowledged(c)
      PROVE  Commits(c)
  <2>1. /\ At(c, "put") /\ UpToDate(c) /\ Commit(c) /\ Raise(c)
        /\ UNCHANGED <<reports, answered>>
        /\ unsettled' = unsettled \/ unsettled' = unsettled + 1
    BY <1>3 DEF CommitUnacknowledged
  <2>2. unsettled \in Int
    BY DEF StoresTyped
  <2> QED
    BY <2>1, <2>2, Counted DEF Commits
<1>4. ASSUME PutReport(c)
      PROVE  Puts(c)
  <2>1. Answer(c)
    BY <1>4 DEF PutReport
  <2> QED
    BY <1>4, <2>1, Counted DEF PutReport, Puts
<1>5. ASSUME ReportUnacknowledged(c)
      PROVE  Puts(c)
  <2>1. Raise(c)
    BY <1>5 DEF ReportUnacknowledged
  <2> QED
    BY <1>5, <2>1, Counted DEF ReportUnacknowledged, Puts
<1> QED
  BY <1>1, <1>2, <1>3, <1>4, <1>5

\* What a step of Next is to the stores.
LEMMA StepKinds ==
  ASSUME StoresTyped, [Next]_vars
  PROVE  \/ StandsStill
         \/ Restart
         \/ \E c \in Clients : MovesOn(c) \/ Commits(c) \/ Puts(c)
<1>1. CASE UNCHANGED vars \/ Tick
  BY <1>1 DEF vars, StandsStill, Tick
<1>2. ASSUME NEW c \in Clients, TurnAway(c)
      PROVE  StandsStill
  BY <1>2 DEF StandsStill, TurnAway
<1> QED
  BY <1>1, <1>2, QuietSteps, WritingSteps DEF Next

------------------------------------------------------------------------------
(***************************************************************************)
(* The ledger                                                              *)
(***************************************************************************)

\* What the promised ledger adds to a history is an entry.
LEMMA EntryTypes ==
  /\ \A q \in Requests : /\ L!Evaluated(q) \in Entry
                          /\ L!Evaluated(q).approval = "none"
  /\ \A e \in Entry, v \in Verdicts : L!Approved(e, v) \in Entry
<1>1. \A q \in Requests : L!Evaluated(q) \in Entry
  BY RecordAssumption DEF L!Evaluated, Entry
<1>2. \A q \in Requests : L!Evaluated(q).approval = "none"
  BY DEF L!Evaluated
<1>3. \A e \in Entry, v \in Verdicts : L!Approved(e, v) \in Entry
  BY DEF L!Approved, Entry
<1> QED
  BY <1>1, <1>2, <1>3

\* A commit adds one entry to one history; an evaluation's has no approval.
LEMMA CommitAdds ==
  ASSUME StoresTyped, NEW c \in Clients, call[c] \in Call, Commit(c)
  PROVE  \E e \in Entry :
           /\ ledger' = [ledger EXCEPT ![call[c].decision] = Append(@, e)]
           /\ call[c].op # "approve" => e.approval = "none"
<1> DEFINE d == call[c].decision
<1>1. d \in Decisions /\ ledger[d] \in Seq(Entry)
  BY DEF StoresTyped, Call
<1>2. CASE call[c].op = "approve"
  <2>1. PICK verdict \in Verdicts : L!Approve(d, verdict)
    BY <1>2 DEF Commit
  <2> DEFINE latest == ledger[d][Len(ledger[d])]
  <2>2. /\ ledger[d] # <<>>
        /\ ledger' = [ledger EXCEPT ![d] = Append(@, L!Approved(latest, verdict))]
    BY <2>1 DEF L!Approve
  <2>3. latest \in Entry
    BY <1>1, <2>2, EmptySeq, ElementOfSeq
  <2>4. L!Approved(latest, verdict) \in Entry
    BY <2>3, EntryTypes
  <2> QED
    BY <1>2, <2>2, <2>4
<1>3. CASE call[c].op # "approve"
  <2>1. PICK q \in Requests : L!Evaluate(d, q)
    BY <1>3 DEF Commit
  <2>2. ledger' = [ledger EXCEPT ![d] = Append(@, L!Evaluated(q))]
    BY <2>1 DEF L!Evaluate
  <2> QED
    BY <2>2, EntryTypes
<1> QED
  BY <1>2, <1>3

\* A commit leaves the entries a history has as they are; the call's own
\* history gets one more.
LEMMA CommitGrows ==
  ASSUME StoresTyped, NEW c \in Clients, call[c] \in Call, Commit(c)
  PROVE  /\ ledger' \in [Decisions -> Seq(Entry)]
         /\ \A d \in Decisions :
              /\ Revisions(d) \in Nat
              /\ Revisions(d)' = IF d = call[c].decision THEN Revisions(d) + 1
                                 ELSE Revisions(d)
              /\ \A n \in 1 .. Revisions(d) : ledger'[d][n] = ledger[d][n]
         /\ call[c].op # "approve" =>
              ledger'[call[c].decision][Revisions(call[c].decision) + 1].approval
                = "none"
<1> DEFINE f == call[c].decision
<1>1. PICK e \in Entry :
        /\ ledger' = [ledger EXCEPT ![f] = Append(@, e)]
        /\ call[c].op # "approve" => e.approval = "none"
  BY CommitAdds
<1>2. f \in Decisions /\ \A d \in Decisions : ledger[d] \in Seq(Entry)
  BY DEF StoresTyped, Call
<1> HIDE DEF f
<1>3. \A d \in Decisions :
        ledger'[d] = IF d = f THEN Append(ledger[f], e) ELSE ledger[d]
  BY <1>1, <1>2 DEF StoresTyped
<1>4. /\ Append(ledger[f], e) \in Seq(Entry)
      /\ Len(Append(ledger[f], e)) = Len(ledger[f]) + 1
      /\ \A n \in 1 .. Len(ledger[f]) : Append(ledger[f], e)[n] = ledger[f][n]
      /\ Append(ledger[f], e)[Len(ledger[f]) + 1] = e
  BY <1>2, AppendProperties
<1>5. ledger' \in [Decisions -> Seq(Entry)]
  BY <1>1, <1>2, <1>4 DEF StoresTyped
<1>6. \A d \in Decisions : Len(ledger[d]) \in Nat
  BY <1>2, LenProperties
<1>7. call[c].op # "approve" =>
        ledger'[f][Len(ledger[f]) + 1].approval = "none"
  BY <1>1, <1>2, <1>3, <1>4
<1>8. ASSUME NEW d \in Decisions
      PROVE  /\ Len(ledger'[d]) = IF d = f THEN Len(ledger[d]) + 1
                                  ELSE Len(ledger[d])
             /\ \A n \in 1 .. Len(ledger[d]) : ledger'[d][n] = ledger[d][n]
  BY <1>3, <1>4
<1> QED
  BY <1>5, <1>6, <1>7, <1>8 DEF Revisions, f

------------------------------------------------------------------------------
(***************************************************************************)
(* The type invariant of the stores and the calls                          *)
(***************************************************************************)

\* A call that goes on to its report.
LEMMA Reporting ==
  ASSUME NEW x \in Call
  PROVE  LET y == [x EXCEPT !.step = "report", !.seen = @ + 1]
         IN  /\ y \in Call
             /\ y.decision = x.decision
             /\ y.step = "report"
             /\ y.seen = x.seen + 1
<1> DEFINE y == [x EXCEPT !.step = "report", !.seen = @ + 1]
<1>1. /\ x.op \in Operation /\ x.decision \in Decisions /\ x.seen + 1 \in Nat
  BY DEF Call
<1>2. y = [op |-> x.op, decision |-> x.decision, step |-> "report",
           seen |-> x.seen + 1]
  <2> DEFINE z == [x EXCEPT !.step = "report"]
  <2>1. z = [op |-> x.op, decision |-> x.decision, step |-> "report",
             seen |-> x.seen]
    BY DEF Call
  <2>2. [z EXCEPT !.seen = x.seen + 1]
          = [op |-> x.op, decision |-> x.decision, step |-> "report",
             seen |-> x.seen + 1]
    <3> HIDE DEF z
    <3> QED
      BY <2>1
  <2> QED
    BY <2>1, <2>2, Zenon
<1> HIDE DEF y
<1>3. y \in Call
  BY <1>1, <1>2 DEF Call
<1> QED
  BY <1>2, <1>3 DEF y

LEMMA StoresTypedInit == Init => StoresTyped
<1> SUFFICES ASSUME Init
             PROVE  StoresTyped
  OBVIOUS
<1>1. ledger = [d \in Decisions |-> <<>>] /\ reports = <<>>
  BY DEF Init, L!Init
<1>2. <<>> \in Seq(Entry) /\ <<>> \in Seq(Report)
  BY EmptySeq
<1>3. metrics \in Counters /\ unsettled \in Int
  BY DEF Init, Counters
<1> QED
  BY <1>1, <1>2, <1>3 DEF Init, StoresTyped

LEMMA StoresTypedStep == StoresTyped /\ [Next]_vars => StoresTyped'
<1> SUFFICES ASSUME StoresTyped, [Next]_vars
             PROVE  StoresTyped'
  OBVIOUS
<1>1. CASE StandsStill
  BY <1>1 DEF StandsStill, stores, StoresTyped
<1>2. CASE Restart
  <2>1. /\ call' = [c \in Clients |-> Idle]
        /\ metrics' = [calls |-> 0, errors |-> 0]
        /\ unsettled' = 0
    BY <1>2 DEF Restart, Fresh
  <2>2. \/ UNCHANGED <<ledger, reports>>
        \/ ledger' = [d \in Decisions |-> <<>>] /\ reports' = <<>>
    BY <1>2 DEF Restart, L!Forget
  <2>3. <<>> \in Seq(Entry) /\ <<>> \in Seq(Report)
    BY EmptySeq
  <2>4. metrics' \in Counters
    BY <2>1 DEF Counters
  <2>5. ledger' \in [Decisions -> Seq(Entry)] /\ reports' \in Seq(Report)
    BY <2>2, <2>3 DEF StoresTyped
  <2>6. call' \in [Clients -> Call \cup {Idle}] /\ unsettled' \in Int
    BY <2>1
  <2> QED
    BY <2>4, <2>5, <2>6 DEF StoresTyped
<1>3. ASSUME NEW c \in Clients, MovesOn(c)
      PROVE  StoresTyped'
  <2>1. UNCHANGED <<ledger, reports, unsettled>> /\ metrics' \in Counters
    BY <1>3 DEF MovesOn, stores
  <2>2. call' \in [Clients -> Call \cup {Idle}]
    BY <1>3 DEF MovesOn, StoresTyped
  <2> QED
    BY <2>1, <2>2 DEF StoresTyped
<1>4. ASSUME NEW c \in Clients, Commits(c)
      PROVE  StoresTyped'
  <2>1. call[c] \in Call
    BY <1>4, CallTyped DEF Commits
  <2>2. ledger' \in [Decisions -> Seq(Entry)]
    BY <1>4, <2>1, CommitGrows DEF Commits
  <2>3. call' \in [Clients -> Call \cup {Idle}]
    <3>1. [call[c] EXCEPT !.step = "report", !.seen = @ + 1] \in Call
      BY <2>1, Reporting
    <3>2. \/ call' = [call EXCEPT ![c] = Idle]
          \/ call' = [call EXCEPT ![c] =
                        [call[c] EXCEPT !.step = "report", !.seen = @ + 1]]
      BY <1>4 DEF Commits
    <3> QED
      BY <3>1, <3>2 DEF StoresTyped
  <2> QED
    BY <1>4, <2>2, <2>3 DEF Commits, StoresTyped
<1>5. ASSUME NEW c \in Clients, Puts(c)
      PROVE  StoresTyped'
  <2>1. call[c] \in Call
    BY <1>5, CallTyped DEF Puts
  <2>2. ReportOn(call[c].decision, call[c].seen) \in Report
    BY <2>1 DEF ReportOn, Report, Call
  <2>3. reports' \in Seq(Report)
    BY <1>5, <2>2, AppendProperties DEF Puts, StoresTyped
  <2> QED
    BY <1>5, <2>3 DEF Puts, StoresTyped
<1> QED
  BY <1>1, <1>2, <1>3, <1>4, <1>5, StepKinds

------------------------------------------------------------------------------
(***************************************************************************)
(* The limiter                                                             *)
(***************************************************************************)

\* What a bucket has left and what its client was admitted to: tokens taken
\* since the i-th admission and tokens left were all there, or earned since.
Balanced(b, times) ==
  /\ b \in [tokens : Nat, last : Nat]
  /\ b.last <= now
  /\ times \in Seq(Nat)
  /\ \A i \in 1 .. Len(times) :
       /\ times[i] <= b.last
       /\ (Len(times) - i + 1) * Minute + b.tokens
            <= rate * Minute + (b.last - times[i]) * rate
  /\ \A i, j \in 1 .. Len(times) :
       i <= j => (j - i + 1) * Minute
                   <= rate * Minute + (times[j] - times[i]) * rate

LimiterInv ==
  /\ rate \in Nat
  /\ now \in Nat
  /\ bucket = [c \in Clients |-> bucket[c]]
  /\ admitted = [c \in Clients |-> admitted[c]]
  /\ \A c \in Clients : Balanced(bucket[c], admitted[c])

\* The products the limiter computes with.
LEMMA Earned ==
  ASSUME NEW r \in Nat, NEW a \in Nat, NEW b \in Nat, NEW t \in Nat,
         a <= b, b <= t
  PROVE  /\ (t - b) * r \in Nat
         /\ (b - a) * r \in Nat
         /\ (t - a) * r = (b - a) * r + (t - b) * r
<1>1. ASSUME NEW k \in Nat
      PROVE  k * r \in Nat
  OBVIOUS
<1>2. t - b \in Nat /\ b - a \in Nat
  OBVIOUS
<1>3. (t - a) * r = (b - a) * r + (t - b) * r
  BY Z3
<1> QED
  BY <1>1, <1>2, <1>3

LEMMA OneMore ==
  ASSUME NEW k \in Int, NEW m \in Nat
  PROVE  k * m \in Int /\ (k + 1) * m = k * m + m
BY Z3

\* Refilling a bucket up to now keeps it balanced.
LEMMA RefilledBalanced ==
  ASSUME rate \in Nat, now \in Nat, NEW b, NEW times, Balanced(b, times)
  PROVE  LET full == [tokens |-> Refilled(b), last |-> now]
         IN  Balanced(full, times)
<1> DEFINE full == [tokens |-> Refilled(b), last |-> now]
           gain == (now - b.last) * rate
           cap == rate * Minute
<1>1. b.tokens \in Nat /\ b.last \in Nat /\ b.last <= now
  BY DEF Balanced
<1>2. gain \in Nat
  BY <1>1, Earned
<1>3. Minute \in Nat /\ cap \in Nat
  BY ServiceAssumption
<1>4. Refilled(b) = IF b.tokens + gain < cap THEN b.tokens + gain ELSE cap
  BY DEF Refilled
<1>5. Refilled(b) \in Nat /\ Refilled(b) <= b.tokens + gain
  <2> HIDE DEF gain, cap
  <2> QED
    BY <1>1, <1>2, <1>3, <1>4
<1>6. full \in [tokens : Nat, last : Nat] /\ full.last = now
  BY <1>5
<1>7. times \in Seq(Nat) /\ Len(times) \in Nat
  BY LenProperties DEF Balanced
<1>8. ASSUME NEW i \in 1 .. Len(times)
      PROVE  /\ times[i] <= now
             /\ (Len(times) - i + 1) * Minute + Refilled(b)
                  <= cap + (now - times[i]) * rate
  <2> DEFINE taken == (Len(times) - i + 1) * Minute
             before == (b.last - times[i]) * rate
  <2>1. times[i] \in Nat
    BY <1>7, ElementOfSeq
  <2>2. times[i] <= b.last /\ taken + b.tokens <= cap + before
    BY DEF Balanced
  <2>3. before \in Nat /\ (now - times[i]) * rate = before + gain
    BY <1>1, <2>1, <2>2, Earned
  <2>4. taken \in Int
    BY <1>3, <1>7, OneMore
  <2> HIDE DEF taken, before, gain, cap
  <2>5. taken + Refilled(b) <= cap + (before + gain)
    BY <1>1, <1>2, <1>3, <1>5, <2>2, <2>3, <2>4
  <2> QED
    BY <1>1, <2>1, <2>2, <2>3, <2>5 DEF taken
<1>9. \A i, j \in 1 .. Len(times) :
        i <= j => (j - i + 1) * Minute <= cap + (times[j] - times[i]) * rate
  BY DEF Balanced
<1> HIDE DEF full
<1>10. full.tokens = Refilled(b)
  BY DEF full
<1>11. now <= now
  OBVIOUS
<1> QED
  BY <1>6, <1>7, <1>8, <1>9, <1>10, <1>11 DEF Balanced, full

\* Taking a token now for a call admitted now keeps it balanced.
LEMMA AdmissionBalanced ==
  ASSUME rate \in Nat, now \in Nat, NEW n \in Nat, NEW times,
         Balanced([tokens |-> n, last |-> now], times),
         n >= Minute, n <= rate * Minute
  PROVE  Balanced([tokens |-> n - Minute, last |-> now], Append(times, now))
<1> DEFINE b == [tokens |-> n, last |-> now]
           left == [tokens |-> n - Minute, last |-> now]
           more == Append(times, now)
           k == Len(times)
           cap == rate * Minute
<1>1. times \in Seq(Nat) /\ k \in Nat
  BY LenProperties DEF Balanced
<1>2. /\ more \in Seq(Nat)
      /\ Len(more) = k + 1
      /\ \A i \in 1 .. k : more[i] = times[i]
      /\ more[k + 1] = now
  BY <1>1, AppendProperties
<1>3. Minute \in Nat /\ cap \in Nat /\ n - Minute \in Nat
  BY ServiceAssumption
<1>4. left \in [tokens : Nat, last : Nat] /\ left.last <= now
  BY <1>3
<1> HIDE DEF more, k
<1>5. ASSUME NEW i \in 1 .. k + 1
      PROVE  /\ more[i] \in Nat /\ more[i] <= now
             /\ (now - more[i]) * rate \in Nat
             /\ ((k + 1) - i + 1) * Minute \in Int
             /\ ((k + 1) - i + 1) * Minute + (n - Minute)
                  <= cap + (now - more[i]) * rate
  <2>1. CASE i = k + 1
    <3>1. (k + 1) - i + 1 = 1 /\ now - more[i] = 0
      BY <1>1, <1>2, <2>1
    <3>2. ((k + 1) - i + 1) * Minute = Minute /\ (now - more[i]) * rate = 0
      BY <1>3, <3>1
    <3>3. more[i] = now
      BY <1>2, <2>1
    <3> HIDE DEF cap
    <3>4. Minute + (n - Minute) <= cap + 0
      BY <1>3 DEF cap
    <3> QED
      BY <1>3, <3>2, <3>3, <3>4
  <2>2. CASE i # k + 1
    <3> DEFINE taken == (k - i + 1) * Minute
               earned == (now - times[i]) * rate
    <3>1. i \in 1 .. k /\ more[i] = times[i] /\ times[i] \in Nat
      BY <1>1, <1>2, <2>2, ElementOfSeq DEF k
    <3>2. times[i] <= now /\ taken + n <= cap + earned
      BY <3>1 DEF Balanced, k
    <3>3. earned \in Nat
      BY <3>1, <3>2, Earned
    <3>4. (k + 1) - i + 1 = (k - i + 1) + 1 /\ k - i + 1 \in Int
      BY <1>1, <3>1
    <3>5. taken \in Int /\ ((k + 1) - i + 1) * Minute = taken + Minute
      BY <1>3, <3>4, OneMore
    <3> HIDE DEF taken, earned, cap
    <3>6. (taken + Minute) + (n - Minute) <= cap + earned
      BY <1>3, <3>2, <3>3, <3>5
    <3>7. taken + Minute \in Int
      BY <1>3, <3>5
    <3> QED
      BY <3>1, <3>2, <3>3, <3>5, <3>6, <3>7 DEF earned
  <2> QED
    BY <2>1, <2>2
<1>6. ASSUME NEW i \in 1 .. k + 1, NEW j \in 1 .. k + 1, i <= j
      PROVE  (j - i + 1) * Minute <= cap + (more[j] - more[i]) * rate
  <2>1. CASE j = k + 1
    <3> DEFINE taken == ((k + 1) - i + 1) * Minute
               earned == (now - more[i]) * rate
    <3>1. /\ taken \in Int /\ earned \in Nat
          /\ taken + (n - Minute) <= cap + earned
      BY <1>5
    <3>2. (j - i + 1) * Minute = taken /\ (more[j] - more[i]) * rate = earned
      BY <1>2, <2>1
    <3> HIDE DEF taken, earned, cap
    <3> QED
      BY <1>3, <3>1, <3>2
  <2>2. CASE j # k + 1
    <3>1. /\ i \in 1 .. k /\ j \in 1 .. k
          /\ more[i] = times[i] /\ more[j] = times[j]
      BY <1>1, <1>2, <1>6, <2>2
    <3>2. (j - i + 1) * Minute <= cap + (times[j] - times[i]) * rate
      BY <1>6, <3>1 DEF Balanced, k
    <3> QED
      BY <3>1, <3>2
  <2> QED
    BY <2>1, <2>2
<1> HIDE DEF left
<1>7. left.tokens = n - Minute /\ left.last = now
  BY DEF left
<1> QED
  BY <1>2, <1>4, <1>5, <1>6, <1>7 DEF Balanced, left, more

\* A step of Next leaves the limiter alone, or is one of its own.
LEMMA LimiterKinds ==
  ASSUME [Next]_vars
  PROVE  /\ rate' = rate
         /\ \/ UNCHANGED limiter
            \/ Tick
            \/ Restart
            \/ \E c \in Clients : Admit(c) \/ TurnAway(c)
<1>1. rate' = rate
  BY DEF Next, vars, setting, Tick, Restart, EnterUnlimited, Admit, TurnAway,
         Deny, ReadReport, RefuseApproval, Prepare, PutRecord, PutAnalysed,
         Conflict, PutReport, DatabaseFails, CommitUnacknowledged,
         ReportUnacknowledged
<1>2. \/ UNCHANGED limiter
      \/ Tick
      \/ Restart
      \/ \E c \in Clients : Admit(c) \/ TurnAway(c)
  BY DEF Next, vars, EnterUnlimited, Deny, ReadReport, RefuseApproval, Prepare,
         PutRecord, PutAnalysed, Conflict, PutReport, DatabaseFails,
         CommitUnacknowledged, ReportUnacknowledged
<1> QED
  BY <1>1, <1>2

\* A new bucket, full, and no admission yet.
LEMMA FullBalanced ==
  ASSUME rate \in Nat, now \in Nat
  PROVE  Balanced(FullBucket(now), <<>>)
<1>1. rate * Minute \in Nat
  BY ServiceAssumption
<1>2. <<>> \in Seq(Nat) /\ Len(<<>>) = 0
  BY EmptySeq
<1> QED
  BY <1>1, <1>2 DEF Balanced, FullBucket

LEMMA LimiterInvariant == Spec => []LimiterInv
<1>1. Init => LimiterInv
  <2> SUFFICES ASSUME Init
               PROVE  LimiterInv
    OBVIOUS
  <2>1. rate \in Nat /\ now = 0 /\ now \in Nat
    BY ServiceAssumption DEF Init
  <2>2. Balanced(FullBucket(0), <<>>)
    BY <2>1, FullBalanced
  <2> QED
    BY <2>1, <2>2 DEF Init, LimiterInv
<1>2. LimiterInv /\ [Next]_vars => LimiterInv'
  <2> SUFFICES ASSUME LimiterInv, [Next]_vars
               PROVE  LimiterInv'
    OBVIOUS
  <2>1. rate \in Nat /\ now \in Nat /\ rate' = rate
    BY LimiterKinds DEF LimiterInv
  <2>2. CASE UNCHANGED limiter
    BY <2>1, <2>2 DEF limiter, LimiterInv, Balanced
  <2>3. CASE Tick
    <3>1. now' = now + 1 /\ bucket' = bucket /\ admitted' = admitted
      BY <2>3 DEF Tick
    <3>2. ASSUME NEW c \in Clients
          PROVE  Balanced(bucket[c], admitted[c])'
      <4>1. Balanced(bucket[c], admitted[c])
        BY DEF LimiterInv
      <4>2. bucket[c].last <= now + 1
        BY <2>1, <4>1 DEF Balanced
      <4> QED
        BY <2>1, <3>1, <4>1, <4>2 DEF Balanced
    <3> QED
      BY <2>1, <3>1, <3>2 DEF LimiterInv
  <2>4. CASE Restart
    <3>1. /\ now' = now
          /\ bucket' = [c \in Clients |-> FullBucket(now)]
          /\ admitted' = [c \in Clients |-> <<>>]
      BY <2>4 DEF Restart, Fresh
    <3>2. Balanced(FullBucket(now), <<>>)
      BY <2>1, FullBalanced
    <3>3. \A c \in Clients : Balanced(bucket[c], admitted[c])'
      BY <2>1, <3>1, <3>2 DEF Balanced
    <3> QED
      BY <2>1, <3>1, <3>3 DEF LimiterInv
  <2>5. ASSUME NEW c \in Clients, Admit(c)
        PROVE  LimiterInv'
    <3> DEFINE n == Refilled(bucket[c])
    <3>1. /\ n >= Minute /\ now' = now
          /\ bucket' = [bucket EXCEPT ![c] = [tokens |-> n - Minute, last |-> now]]
          /\ admitted' = [admitted EXCEPT ![c] = Append(@, now)]
      BY <2>5 DEF Admit
    <3>2. Balanced(bucket[c], admitted[c])
      BY DEF LimiterInv
    <3>3. Balanced([tokens |-> n, last |-> now], admitted[c])
      BY <2>1, <3>2, RefilledBalanced
    <3>4. n \in Nat
      BY <3>3 DEF Balanced
    <3>5. n <= rate * Minute
      <4>1. rate * Minute \in Nat
        BY <2>1, ServiceAssumption
      <4>2. (now - bucket[c].last) * rate \in Nat /\ bucket[c].tokens \in Nat
        BY <2>1, <3>2, Earned DEF Balanced
      <4> QED
        BY <4>1, <4>2 DEF Refilled
    <3> HIDE DEF n
    <3>6. Balanced([tokens |-> n - Minute, last |-> now], Append(admitted[c], now))
      BY <2>1, <3>1, <3>3, <3>4, <3>5, AdmissionBalanced
    <3>7. ASSUME NEW d \in Clients
          PROVE  Balanced(bucket[d], admitted[d])'
      <4>1. Balanced(bucket'[d], admitted'[d])
        BY <3>1, <3>6 DEF LimiterInv
      <4> QED
        BY <2>1, <3>1, <4>1 DEF Balanced
    <3> QED
      BY <2>1, <3>1, <3>7 DEF LimiterInv
  <2>6. ASSUME NEW c \in Clients, TurnAway(c)
        PROVE  LimiterInv'
    <3>1. /\ now' = now /\ admitted' = admitted
          /\ bucket' = [bucket EXCEPT
                          ![c] = [tokens |-> Refilled(bucket[c]), last |-> now]]
      BY <2>6 DEF TurnAway
    <3>2. Balanced([tokens |-> Refilled(bucket[c]), last |-> now], admitted[c])
      BY <2>1, RefilledBalanced DEF LimiterInv
    <3>3. ASSUME NEW d \in Clients
          PROVE  Balanced(bucket[d], admitted[d])'
      <4>1. Balanced(bucket'[d], admitted'[d])
        BY <3>1, <3>2 DEF LimiterInv
      <4> QED
        BY <2>1, <3>1, <4>1 DEF Balanced
    <3> QED
      BY <2>1, <3>1, <3>3 DEF LimiterInv
  <2> QED
    BY <2>2, <2>3, <2>4, <2>5, <2>6, LimiterKinds
<1> QED
  BY <1>1, <1>2, PTL DEF Spec

\* No client is admitted to more than its rate allows, over any stretch of
\* time and at any rate (api/ratelimit.py:27-34).
THEOREM RateTheorem == Spec => []AdmittedWithinRate
<1>1. LimiterInv => AdmittedWithinRate
  <2> SUFFICES ASSUME LimiterInv, NEW c \in Clients,
                      NEW i \in DOMAIN admitted[c], NEW j \in DOMAIN admitted[c],
                      i <= j
               PROVE  (j - i + 1) * Minute
                        <= rate * Minute + (admitted[c][j] - admitted[c][i]) * rate
    BY DEF AdmittedWithinRate
  <2>1. Balanced(bucket[c], admitted[c])
    BY DEF LimiterInv
  <2>2. DOMAIN admitted[c] = 1 .. Len(admitted[c])
    BY <2>1, LenProperties DEF Balanced
  <2> QED
    BY <2>1, <2>2 DEF Balanced
<1> QED
  BY <1>1, LimiterInvariant, PTL

------------------------------------------------------------------------------
(***************************************************************************)
(* The reports                                                             *)
(***************************************************************************)

\* The report is about a revision that the ledger holds, an evaluation's.
OfHistory(report) ==
  /\ report.decision \in Decisions
  /\ report.revision \in 1 .. Revisions(report.decision)
  /\ ledger[report.decision][report.revision].approval = "none"

\* The report that a call at its report will put.
Due(c) == ReportOn(call[c].decision, call[c].seen)

\* What is stored is of the history, and so is what is due; nothing due is
\* stored yet or due to two calls, for each revision is one call's.
ReportsInv ==
  /\ StoresTyped
  /\ ReportsAreOfHistory
  /\ \A c \in Clients : At(c, "report") => OfHistory(Due(c)) /\ Due(c) \notin Stored
  /\ \A b, c \in Clients :
       At(b, "report") /\ At(c, "report") /\ Due(b) = Due(c) => b = c

\* When one call moves, ends or is begun, but not at its report, the calls
\* at their reports were there before.
LEMMA Elsewhere ==
  ASSUME StoresTyped, NEW c \in Clients, NEW x \in Call \cup {Idle},
         x # Idle => x.step # "report",
         call' = [call EXCEPT ![c] = x]
  PROVE  \A b \in Clients : At(b, "report")' =>
           b # c /\ At(b, "report") /\ call'[b] = call[b]
BY DEF StoresTyped, At

\* Every stored report is of the history.
LEMMA StoredOfHistory ==
  ASSUME StoresTyped, ReportsAreOfHistory, NEW r \in Stored
  PROVE  OfHistory(r)
<1>1. r \in Report
  BY LenProperties DEF StoresTyped, Stored
<1> QED
  BY <1>1 DEF ReportsAreOfHistory, OfHistory, Report

\* What is of the history stays so when a revision is committed, and is not
\* about the new revision.
LEMMA HistoryKept ==
  ASSUME StoresTyped, NEW c \in Clients, call[c] \in Call, Commit(c),
         NEW CONSTANT report, OfHistory(report)
  PROVE  /\ OfHistory(report)'
         /\ report # ReportOn(call[c].decision, Revisions(call[c].decision) + 1)
<1> DEFINE d == report.decision
           n == report.revision
<1>1. d \in Decisions /\ n \in 1 .. Revisions(d) /\ ledger[d][n].approval = "none"
  BY DEF OfHistory
<1>2. /\ Revisions(d) \in Nat
      /\ Revisions(d)' \in {Revisions(d), Revisions(d) + 1}
      /\ ledger'[d][n] = ledger[d][n]
  BY <1>1, CommitGrows
<1>3. n \in 1 .. Revisions(d)'
  BY <1>1, <1>2
<1>4. OfHistory(report)'
  BY <1>1, <1>2, <1>3 DEF OfHistory
<1>5. n # Revisions(d) + 1
  BY <1>1, <1>2
<1> QED
  BY <1>4, <1>5 DEF ReportOn

\* The reports after a commit: none is added.
LEMMA CommitKeepsReports ==
  ASSUME ReportsInv, NEW c \in Clients, Commits(c)
  PROVE  ReportsAreOfHistory'
<1>1. StoresTyped /\ call[c] \in Call /\ Commit(c)
  BY CallTyped DEF Commits, ReportsInv
<1>2. Stored' = Stored /\ reports' = reports /\ answered' = answered
  BY DEF Commits, Stored
<1>3. \A r \in Stored : OfHistory(r)'
  BY <1>1, StoredOfHistory, HistoryKept DEF ReportsInv
<1> QED
  BY <1>2, <1>3 DEF ReportsInv, ReportsAreOfHistory, OfHistory

\* A commit keeps the invariant: a call that goes on to its report is the
\* only one on the new revision.
LEMMA CommitKeepsInv ==
  ASSUME ReportsInv, StoresTyped', NEW c \in Clients, Commits(c)
  PROVE  ReportsInv'
<1>1. StoresTyped /\ call[c] \in Call /\ Commit(c) /\ Stored' = Stored
  BY CallTyped DEF Commits, ReportsInv, Stored
<1>2. ReportsAreOfHistory'
  BY CommitKeepsReports
<1>3. ASSUME NEW b \in Clients, At(b, "report")
      PROVE  OfHistory(Due(b)) /\ Due(b) \notin Stored
  BY <1>3 DEF ReportsInv
<1>4. CASE call' = [call EXCEPT ![c] = Idle]
  <2>1. \A b \in Clients : At(b, "report")' =>
          At(b, "report") /\ Due(b)' = Due(b)
    BY <1>1, <1>4, Elsewhere DEF Due
  <2>2. ASSUME NEW b \in Clients, At(b, "report")'
        PROVE  OfHistory(Due(b))' /\ Due(b)' \notin Stored'
    <3>1. OfHistory(Due(b)) /\ Due(b) \notin Stored /\ Due(b)' = Due(b)
      BY <1>3, <2>1, <2>2
    <3>2. \A r : OfHistory(r) => OfHistory(r)'
      BY <1>1, HistoryKept
    <3> QED
      BY <1>1, <3>1, <3>2 DEF OfHistory
  <2> QED
    BY <1>2, <2>1, <2>2 DEF ReportsInv
<1>5. CASE /\ call[c].op = "analyze"
           /\ call' = [call EXCEPT ![c].step = "report", ![c].seen = @ + 1]
  <2>0. PICK d \in Decisions : d = call[c].decision
    BY <1>1 DEF Call
  <2>1. PICK new : new = ReportOn(d, Revisions(d) + 1) /\ call[c].seen = Revisions(d)
    BY <2>0 DEF Commits, UpToDate
  <2>2. /\ At(c, "report")' /\ Due(c)' = new
        /\ \A b \in Clients \ {c} : At(b, "report")' =>
             At(b, "report") /\ Due(b)' = Due(b)
    <3>1. call'[c] = [call[c] EXCEPT !.step = "report", !.seen = @ + 1]
      BY <1>1, <1>5 DEF StoresTyped
    <3>2. /\ call'[c] \in Call /\ call'[c].step = "report"
          /\ call'[c].decision = d /\ call'[c].seen = Revisions(d) + 1
      BY <1>1, <2>0, <2>1, <3>1, Reporting
    <3>3. \A b \in Clients \ {c} : call'[b] = call[b]
      BY <1>1, <1>5 DEF StoresTyped
    <3> QED
      BY <2>1, <3>2, <3>3, ServiceAssumption DEF At, Due
  <2>3. OfHistory(new)'
    <3>1. /\ Revisions(d) \in Nat /\ Revisions(d)' = Revisions(d) + 1
          /\ ledger'[d][Revisions(d) + 1].approval = "none"
      BY <1>1, <1>5, <2>0, CommitGrows
    <3>2. Revisions(d) + 1 \in 1 .. Revisions(d)'
      BY <3>1
    <3> QED
      BY <2>1, <3>1, <3>2 DEF OfHistory, ReportOn
  <2>4. /\ \A r : OfHistory(r) => OfHistory(r)' /\ r # new
        /\ new \notin Stored
    BY <1>1, <2>0, <2>1, HistoryKept, StoredOfHistory DEF ReportsInv
  <2>5. ASSUME NEW b \in Clients, At(b, "report")'
        PROVE  /\ OfHistory(Due(b))' /\ Due(b)' \notin Stored'
               /\ b # c => Due(b)' # new
    <3>1. CASE b = c
      BY <1>1, <2>2, <2>3, <2>4, <3>1 DEF OfHistory
    <3>2. CASE b # c
      <4>1. OfHistory(Due(b)) /\ Due(b) \notin Stored /\ Due(b)' = Due(b)
        BY <1>3, <2>2, <2>5, <3>2
      <4> QED
        BY <1>1, <2>4, <4>1 DEF OfHistory
    <3> QED
      BY <3>1, <3>2
  <2>6. ASSUME NEW a \in Clients, NEW b \in Clients,
               At(a, "report")', At(b, "report")', Due(a)' = Due(b)'
        PROVE  a = b
    <3>1. CASE a # c /\ b # c
      BY <2>2, <2>6, <3>1 DEF ReportsInv
    <3>2. CASE a = c \/ b = c
      BY <2>2, <2>5, <2>6, <3>2
    <3> QED
      BY <3>1, <3>2
  <2> QED
    BY <1>2, <2>5, <2>6 DEF ReportsInv
<1> QED
  BY <1>4, <1>5 DEF Commits

\* A report that is put was due: it is of the history, new, and due to no
\* other call.
LEMMA PutKeepsInv ==
  ASSUME ReportsInv, StoresTyped', NEW c \in Clients, Puts(c)
  PROVE  ReportsInv'
<1>1. StoresTyped /\ reports \in Seq(Report) /\ call[c] \in Call
  BY CallTyped DEF ReportsInv, StoresTyped, Puts
<1>2. PICK new : new = Due(c)
  OBVIOUS
<1>3. OfHistory(new) /\ new \notin Stored
  BY <1>2 DEF ReportsInv, Puts
<1>4. /\ reports' = Append(reports, new)
      /\ answered' \subseteq answered \cup {new}
      /\ ledger' = ledger
      /\ call' = [call EXCEPT ![c] = Idle]
  BY <1>2 DEF Puts, Due
<1>5. new \in Report
  BY <1>1, <1>2 DEF Due, ReportOn, Report, Call
<1>6. /\ Len(reports) \in Nat
      /\ DOMAIN reports = 1 .. Len(reports)
      /\ DOMAIN reports' = 1 .. Len(reports) + 1
      /\ \A i \in 1 .. Len(reports) : reports'[i] = reports[i]
      /\ reports'[Len(reports) + 1] = new
  <2>1. reports' \in Seq(Report) /\ Len(reports') = Len(reports) + 1
    BY <1>1, <1>4, <1>5, AppendProperties
  <2> QED
    BY <1>1, <1>4, <1>5, <2>1, AppendProperties, LenProperties
<1>7. Stored' = Stored \cup {new}
  BY <1>6 DEF Stored
<1>8. ReportsAreOfHistory'
  <2>1. \A r \in Stored' : OfHistory(r)
    BY <1>1, <1>3, <1>7, StoredOfHistory DEF ReportsInv
  <2>2. ASSUME NEW i \in DOMAIN reports', NEW j \in DOMAIN reports',
               reports'[i] = reports'[j]
        PROVE  i = j
    <3>1. \A k \in 1 .. Len(reports) : reports[k] # new
      BY <1>3, <1>6 DEF Stored
    <3>2. CASE i \in 1 .. Len(reports) /\ j \in 1 .. Len(reports)
      BY <1>6, <2>2, <3>2 DEF ReportsInv, ReportsAreOfHistory
    <3>3. CASE i = Len(reports) + 1 \/ j = Len(reports) + 1
      BY <1>6, <2>2, <3>1, <3>3
    <3> QED
      BY <1>6, <3>2, <3>3
  <2>3. answered' \subseteq Stored'
    BY <1>4, <1>7 DEF ReportsInv, ReportsAreOfHistory
  <2> QED
    BY <1>4, <2>1, <2>2, <2>3 DEF ReportsAreOfHistory, OfHistory, Revisions
<1>9. ASSUME NEW b \in Clients, At(b, "report")'
      PROVE  /\ At(b, "report") /\ Due(b)' = Due(b)
             /\ OfHistory(Due(b))' /\ Due(b)' \notin Stored'
  <2>1. b # c /\ At(b, "report") /\ Due(b)' = Due(b)
    BY <1>1, <1>4, <1>9, Elsewhere DEF Due
  <2>2. OfHistory(Due(b)) /\ Due(b) \notin Stored /\ Due(b) # new
    BY <1>2, <2>1 DEF ReportsInv, Puts
  <2> QED
    BY <1>4, <1>7, <2>1, <2>2 DEF OfHistory, Revisions
<1>10. \A a, b \in Clients :
         At(a, "report")' /\ At(b, "report")' /\ Due(a)' = Due(b)' => a = b
  BY <1>9 DEF ReportsInv
<1> QED
  BY <1>8, <1>9, <1>10 DEF ReportsInv

\* With both stores and the calls at their reports as they were, or fewer of
\* these, nothing is lost.
LEMMA StoresKeptInv ==
  ASSUME ReportsInv, StoresTyped',
         UNCHANGED <<ledger, reports, answered>>,
         \A c \in Clients : At(c, "report")' =>
           At(c, "report") /\ call'[c] = call[c]
  PROVE  ReportsInv'
<1>1. Stored' = Stored /\ \A c \in Clients : At(c, "report")' => Due(c)' = Due(c)
  BY DEF Stored, Due
<1>2. ReportsAreOfHistory'
  BY <1>1 DEF ReportsInv, ReportsAreOfHistory, Revisions
<1>3. ASSUME NEW c \in Clients, At(c, "report")'
      PROVE  OfHistory(Due(c))' /\ Due(c)' \notin Stored'
  <2>1. OfHistory(Due(c)) /\ Due(c) \notin Stored
    BY <1>3 DEF ReportsInv
  <2> QED
    BY <1>1, <1>3, <2>1 DEF OfHistory, Revisions
<1>4. \A b, c \in Clients :
        At(b, "report")' /\ At(c, "report")' /\ Due(b)' = Due(c)' => b = c
  BY <1>1 DEF ReportsInv
<1> QED
  BY <1>2, <1>3, <1>4 DEF ReportsInv

LEMMA ReportsInvariant == Spec => []ReportsInv
<1>1. Init => ReportsInv
  <2> SUFFICES ASSUME Init
               PROVE  ReportsInv
    OBVIOUS
  <2>1. /\ reports = <<>> /\ DOMAIN reports = {} /\ answered = {}
        /\ \A c \in Clients : call[c] = Idle
    BY DEF Init
  <2>2. ReportsAreOfHistory
    BY <2>1 DEF ReportsAreOfHistory, Stored
  <2> QED
    BY <2>1, <2>2, StoresTypedInit DEF ReportsInv, At
<1>2. ReportsInv /\ [Next]_vars => ReportsInv'
  <2> SUFFICES ASSUME ReportsInv, [Next]_vars
               PROVE  ReportsInv'
    OBVIOUS
  <2>0. StoresTyped /\ StoresTyped'
    BY StoresTypedStep DEF ReportsInv
  <2>1. CASE StandsStill
    BY <2>0, <2>1, StoresKeptInv DEF StandsStill, stores, At
  <2>2. CASE Restart
    <3>1. \A c \in Clients : call'[c] = Idle
      BY <2>2 DEF Restart, Fresh
    <3>2. CASE UNCHANGED <<ledger, reports, answered>>
      BY <2>0, <3>1, <3>2, StoresKeptInv DEF At
    <3>3. CASE reports' = <<>> /\ answered' = {}
      <4>1. ReportsAreOfHistory'
        BY <3>3 DEF ReportsAreOfHistory, Stored
      <4> QED
        BY <2>0, <3>1, <4>1 DEF ReportsInv, At
    <3> QED
      BY <2>2, <3>2, <3>3 DEF Restart
  <2>3. ASSUME NEW c \in Clients, MovesOn(c)
        PROVE  ReportsInv'
    <3>1. \A b \in Clients : At(b, "report")' =>
            At(b, "report") /\ call'[b] = call[b]
      BY <2>0, <2>3, Elsewhere DEF MovesOn
    <3> QED
      BY <2>0, <2>3, <3>1, StoresKeptInv DEF MovesOn, stores
  <2>4. ASSUME NEW c \in Clients, Commits(c) \/ Puts(c)
        PROVE  ReportsInv'
    BY <2>0, <2>4, CommitKeepsInv, PutKeepsInv
  <2> QED
    BY <2>0, <2>1, <2>2, <2>3, <2>4, StepKinds
<1> QED
  BY <1>1, <1>2, PTL DEF Spec

\* However calls overlap, fail or are cut off, the stored reports are about
\* revisions of the ledger, each about its own, and what the clients were
\* given is among them (hub/orchestrator.py:59-103, hub/repository.py:20-43).
THEOREM ReportsTheorem == Spec => []ReportsAreOfHistory
<1>1. ReportsInv => ReportsAreOfHistory
  BY DEF ReportsInv
<1> QED
  BY <1>1, ReportsInvariant, PTL

------------------------------------------------------------------------------
(***************************************************************************)
(* The analyses without a report                                           *)
(***************************************************************************)

AtReport == {c \in Clients : At(c, "report")}

\* The calls at their reports when one call moves.
LEMMA AtReportAfter ==
  ASSUME StoresTyped, NEW c \in Clients, NEW x \in Call \cup {Idle},
         call' = [call EXCEPT ![c] = x]
  PROVE  AtReport' = IF x # Idle /\ x.step = "report" THEN AtReport \cup {c}
                     ELSE AtReport \ {c}
BY DEF StoresTyped, AtReport, At

\* The clients are finitely many, so these calls can be counted.
LEMMA AtReportCounted ==
  ASSUME NEW c \in Clients
  PROVE  /\ Cardinality(AtReport) \in Nat
         /\ Cardinality(AtReport \cup {c}) =
              Cardinality(AtReport) + (IF At(c, "report") THEN 0 ELSE 1)
         /\ Cardinality(AtReport \ {c}) =
              Cardinality(AtReport) - (IF At(c, "report") THEN 1 ELSE 0)
<1>1. IsFiniteSet(AtReport)
  BY FS_Subset, ServiceAssumption DEF AtReport
<1>2. c \in AtReport <=> At(c, "report")
  BY DEF AtReport
<1>3. Cardinality(AtReport) \in Nat
  BY <1>1, FS_CardinalityType
<1>4. Cardinality(AtReport \cup {c}) =
        IF c \in AtReport THEN Cardinality(AtReport) ELSE Cardinality(AtReport) + 1
  BY <1>1, FS_AddElement
<1>5. Cardinality(AtReport \ {c}) =
        IF c \in AtReport THEN Cardinality(AtReport) - 1 ELSE Cardinality(AtReport)
  BY <1>1, FS_RemoveElement
<1> HIDE DEF AtReport
<1> QED
  BY <1>2, <1>3, <1>4, <1>5

UnreportedInv ==
  /\ StoresTyped
  /\ unsettled <= metrics.errors + Cardinality(AtReport)

LEMMA UnreportedStep == UnreportedInv /\ [Next]_vars => UnreportedInv'
<1> SUFFICES ASSUME UnreportedInv, [Next]_vars
             PROVE  UnreportedInv'
  OBVIOUS
<1> DEFINE n == Cardinality(AtReport)
<1>0. StoresTyped /\ StoresTyped' /\ unsettled <= metrics.errors + n
  BY StoresTypedStep DEF UnreportedInv
<1>1. /\ unsettled \in Int /\ unsettled' \in Int
      /\ metrics.errors \in Nat /\ metrics'.errors \in Nat
  BY <1>0 DEF StoresTyped, Counters
<1>2. CASE StandsStill
  <2>1. AtReport' = AtReport
    BY <1>2 DEF StandsStill, AtReport, At
  <2> QED
    BY <1>0, <1>2, <2>1 DEF StandsStill, stores, UnreportedInv
<1>3. CASE Restart
  <2>1. AtReport' = {} /\ unsettled' = 0
    BY <1>3 DEF Restart, Fresh, AtReport, At
  <2>2. Cardinality(AtReport') = 0
    BY <2>1, FS_EmptySet
  <2> QED
    BY <1>0, <1>1, <2>1, <2>2 DEF UnreportedInv
<1>4. ASSUME NEW c \in Clients, MovesOn(c)
      PROVE  UnreportedInv'
  <2>1. AtReport' = AtReport \ {c}
    BY <1>0, <1>4, AtReportAfter DEF MovesOn
  <2>2. /\ n \in Nat
        /\ Cardinality(AtReport') = n - (IF At(c, "report") THEN 1 ELSE 0)
    BY <2>1, AtReportCounted
  <2>3. unsettled' = unsettled
    BY <1>4 DEF MovesOn, stores
  <2> HIDE DEF n
  <2>4. unsettled' <= metrics'.errors + Cardinality(AtReport')
    BY <1>0, <1>1, <1>4, <2>2, <2>3 DEF MovesOn
  <2> QED
    BY <1>0, <2>4 DEF UnreportedInv
<1>5. ASSUME NEW c \in Clients, Commits(c)
      PROVE  UnreportedInv'
  <2>1. call[c] \in Call /\ ~ At(c, "report") /\ n \in Nat
    BY <1>0, <1>5, CallTyped, AtReportCounted DEF Commits, At
  <2>2. CASE /\ call' = [call EXCEPT ![c] = Idle]
             /\ unsettled' - unsettled <= metrics'.errors - metrics.errors
    <3>1. AtReport' = AtReport \ {c}
      BY <1>0, <2>2, AtReportAfter
    <3>2. Cardinality(AtReport \ {c}) = n
      <4>1. Cardinality(AtReport \ {c}) = n - 0
        BY <2>1, AtReportCounted
      <4> HIDE DEF n
      <4> QED
        BY <2>1, <4>1
    <3> HIDE DEF n
    <3>3. unsettled' <= metrics'.errors + n
      BY <1>0, <1>1, <2>1, <2>2
    <3> QED
      BY <1>0, <3>1, <3>2, <3>3 DEF UnreportedInv
  <2>3. CASE /\ call' = [call EXCEPT ![c].step = "report", ![c].seen = @ + 1]
             /\ unsettled' = unsettled + 1
             /\ metrics' = metrics
    <3> DEFINE x == [call[c] EXCEPT !.step = "report", !.seen = @ + 1]
    <3>1. x \in Call /\ x.step = "report" /\ x # Idle
      BY <2>1, Reporting, ServiceAssumption
    <3>2. call' = [call EXCEPT ![c] = x]
      BY <2>3
    <3> HIDE DEF x
    <3>3. AtReport' = AtReport \cup {c}
      BY <1>0, <3>1, <3>2, AtReportAfter
    <3>4. Cardinality(AtReport') = n + 1
      BY <2>1, <3>3, AtReportCounted
    <3> HIDE DEF n
    <3>5. unsettled' <= metrics'.errors + (n + 1)
      BY <1>0, <1>1, <2>1, <2>3
    <3> QED
      BY <1>0, <3>4, <3>5 DEF UnreportedInv
  <2> QED
    BY <1>5, <2>2, <2>3 DEF Commits
<1>6. ASSUME NEW c \in Clients, Puts(c)
      PROVE  UnreportedInv'
  <2>1. AtReport' = AtReport \ {c}
    BY <1>0, <1>6, AtReportAfter DEF Puts
  <2>2. n \in Nat /\ Cardinality(AtReport') = n - 1
    BY <1>6, <2>1, AtReportCounted DEF Puts
  <2> HIDE DEF n
  <2>3. unsettled' <= metrics'.errors + (n - 1)
    BY <1>0, <1>1, <1>6, <2>2 DEF Puts
  <2> QED
    BY <1>0, <2>2, <2>3 DEF UnreportedInv
<1> QED
  BY <1>0, <1>2, <1>3, <1>4, <1>5, <1>6, StepKinds

\* An analysed revision without a report shows, for any number of clients:
\* its call is in flight or was counted as an error (hub/orchestrator.py:60,
\* observability/metrics.py:60-75).
THEOREM UnreportedTheorem == Spec => []UnreportedRevisionsShow
<1>1. Init => UnreportedInv
  <2> SUFFICES ASSUME Init
               PROVE  UnreportedInv
    OBVIOUS
  <2>1. AtReport = {} /\ unsettled = 0 /\ metrics.errors = 0
    BY DEF Init, AtReport, At
  <2>2. Cardinality(AtReport) = 0
    BY <2>1, FS_EmptySet
  <2> QED
    BY <2>1, <2>2, StoresTypedInit DEF UnreportedInv
<1>2. UnreportedInv => UnreportedRevisionsShow
  BY DEF UnreportedInv, UnreportedRevisionsShow, AtReport
<1> QED
  BY <1>1, <1>2, UnreportedStep, PTL DEF Spec
==============================================================================
