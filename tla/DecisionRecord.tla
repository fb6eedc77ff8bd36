--------------------------- MODULE DecisionRecord ---------------------------
(***************************************************************************)
(* Decision records and the pure functions on them: what the engine's      *)
(* verdict leaves in a record, apply_approval (governance/approval.py), and *)
(* the sealing and verification of records and chains                      *)
(* (decision/integrity.py).                                                *)
(*                                                                         *)
(* A SHA-256 value is modelled by what it commits to: a record's hash is   *)
(* the sequence of the contents of the records up to it, because a record  *)
(* hashes its parent's hash.  Equal hashes are equal contents.             *)
(***************************************************************************)
EXTENDS Integers, Sequences

CONSTANTS
  Requests,    \* decision requests
  StatusOf,    \* the status the engine evaluates each request to
  Verdicts     \* what a human may answer: "approved", "rejected"

EvaluatedStatus ==
  {"EVIDENCE_PENDING", "AUDIT_FAILED", "HUMAN_APPROVAL_REQUIRED"}

ASSUME RecordAssumption ==
  /\ StatusOf \in [Requests -> EvaluatedStatus]
  /\ Verdicts \subseteq {"approved", "rejected"}

\* What a record says: the request, the status of its result, and the
\* approval, "none" when there is none.
Evaluated(q) == [request |-> q, status |-> StatusOf[q], approval |-> "none"]

\* apply_approval refuses a second approval, and a decision whose
\* evaluation failed its audit.
Approvable(e) ==
  /\ e.approval = "none"
  /\ e.status \in {"HUMAN_APPROVAL_REQUIRED", "EVIDENCE_PENDING"}

Approved(e, verdict) ==
  [e EXCEPT !.approval = verdict,
            !.status = IF verdict = "approved" THEN "APPROVED" ELSE "REJECTED"]

Entry ==
  [request : Requests, status : EvaluatedStatus \cup {"APPROVED", "REJECTED"},
   approval : Verdicts \cup {"none"}]

------------------------------------------------------------------------------
(***************************************************************************)
(* Sealed records                                                          *)
(***************************************************************************)

Content == [entry : Entry, revision : Nat \ {0}]
Hash == Seq(Content)

\* parent_record_hash of a first revision is None: the empty commitment.
NoParent == <<>>

Record ==
  [entry : Entry, revision : Nat \ {0}, parent : Hash, hash : Hash]

Digest(entry, revision, parent) ==
  Append(parent, [entry |-> entry, revision |-> revision])

\* seal_record
SealRecord(entry, revision, parent) ==
  [entry    |-> entry,
   revision |-> revision,
   parent   |-> parent,
   hash     |-> Digest(entry, revision, parent)]

VerifyRecord(r) == r.hash = Digest(r.entry, r.revision, r.parent)

\* verify_chain: hashes, revisions and links.
VerifyChain(chain) ==
  \A i \in DOMAIN chain :
    /\ VerifyRecord(chain[i])
    /\ chain[i].revision = i
    /\ i > 1 => chain[i].parent = chain[i - 1].hash
=============================================================================
