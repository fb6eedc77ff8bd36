------------------------------ MODULE SessionHub ------------------------------
(***************************************************************************)
(* A stored reconstruction session shared by concurrent API calls          *)
(* (hub/orchestrator.py, hub/repository.py, api/main.py).  The endpoints   *)
(* are synchronous functions, so each call runs on a thread of the server's *)
(* pool.  A call reads a deep copy of the session under the repository's   *)
(* lock, runs the engine on the copy with no lock held, and then replaces  *)
(* the stored session, again under the lock, whatever is stored by then.   *)
(* Sessions have fresh ids and never meet, so one is modelled: `session`,  *)
(* the variable of ReconSession, is the session as the repository holds    *)
(* it, and that module's Next is one caller alone with the repository.     *)
(***************************************************************************)
EXTENDS ReconSession

CONSTANTS
  Callers,     \* the threads that serve advance and human-decision calls
  NoCopy       \* a caller that is not in a call

VARIABLE copy  \* what each caller read and works on

hubVars == <<session, copy>>

HubInit ==
  /\ Init
  /\ copy = [c \in Callers |-> NoCopy]

InCall(c) == copy[c] # NoCopy

\* _get_session: repository.get returns a deep copy.
ReadSession(c) ==
  /\ ~InCall(c)
  /\ copy' = [copy EXCEPT ![c] = session]
  /\ UNCHANGED session

\* Faulty variant: what others settled in the meantime is merged in after
\* the engine has hashed the session.
UpdateMerged(c, updated) ==
  session' = [updated EXCEPT !.states = [a \in Assumptions |->
              IF session.states[a] = "assumed" THEN @[a] ELSE session.states[a]]]

\* repository.update replaces the stored session; it does not compare it
\* with what the caller read.
Update(c, updated) == session' = updated

\* The rest of advance_session: one round on the copy, then the update.
CommitAdvance(c) ==
  \E d \in DeltaBatches \cup {NoDelta} :
    /\ InCall(c)
    /\ Len(copy[c].rounds) < MaxRounds
    /\ Update(c, Advance(copy[c], d))
    /\ copy' = [copy EXCEPT ![c] = NoCopy]

\* The rest of human_session_decision.
CommitDecision(c) ==
  \E approved \in BOOLEAN, evidence \in Evidence :
    /\ InCall(c)
    /\ Update(c, HumanDecision(copy[c], approved, evidence))
    /\ copy' = [copy EXCEPT ![c] = NoCopy]

\* Delta variables or an evidence state the code refuses: an exception
\* leaves the call before the update.
Refuse(c) ==
  /\ InCall(c)
  /\ copy' = [copy EXCEPT ![c] = NoCopy]
  /\ UNCHANGED session

HubNext ==
  \E c \in Callers :
    ReadSession(c) \/ CommitAdvance(c) \/ CommitDecision(c) \/ Refuse(c)

HubSpec == HubInit /\ [][HubNext]_hubVars

------------------------------------------------------------------------------
(***************************************************************************)
(* Properties                                                              *)
(***************************************************************************)

\* Type invariant.
HubTypeOK ==
  /\ TypeOK
  /\ copy \in [Callers -> Session \cup {NoCopy}]

\* However calls overlap, the stored session is sound in itself: its rounds
\* are linked, its root hash commits to them, its convergence is genuine,
\* and within it no assumption returns to "assumed".  Lost updates can
\* therefore not be seen in what is stored (hub/session.py:48-76).
StoredSessionIsSound ==
  /\ RoundsLinked(session)
  /\ RootCommits(session)
  /\ ConvergenceIsGenuine(session)
  /\ NeverReassumed(session)

\* A call that overlapped no other write acts like a call of the sequential
\* session (ReconSession): only a commit on a stale copy can do anything else
\* (hub/orchestrator.py:129-157).
FreshCommitsAreSequential ==
  [][\/ Next
     \/ \E c \in Callers : InCall(c) /\ copy'[c] = NoCopy /\ copy[c] # session
    ]_session

------------------------------------------------------------------------------
(***************************************************************************)
(* What the documentation says and the code does not do                    *)
(***************************************************************************)

\* "Transitions are monotone: once VERIFIED or FALSIFIED an assumption never
\* returns to ASSUMED" (enums.py:88-89), of the session the repository holds.
StoredStatesNeverReassumed ==
  [][\A a \in Assumptions :
       session.states[a] # "assumed" => session'.states[a] # "assumed"]_session
=============================================================================
