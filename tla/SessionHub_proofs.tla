--------------------------- MODULE SessionHub_proofs --------------------------
(***************************************************************************)
(* Proofs about SessionHub, for any number of overlapping callers, any     *)
(* request, budget, delta variables, evidence and number of rounds.        *)
(*                                                                         *)
(* The engine keeps a sound session sound (ReconSession_proofs), so what  *)
(* is stored stays sound because what every caller works on is sound too:  *)
(* a copy, however stale, was once stored.                                 *)
(***************************************************************************)
EXTENDS SessionHub, ReconSession_proofs

------------------------------------------------------------------------------
(***************************************************************************)
(* Type correctness                                                        *)
(***************************************************************************)

\* What a caller in a call works on is a session.
LEMMA CopyIsSession ==
  ASSUME HubTypeOK, NEW c \in Callers, InCall(c)
  PROVE  copy[c] \in Session
BY DEF HubTypeOK, InCall

\* A call that ends leaves its caller without a copy.
LEMMA CopyDropped ==
  ASSUME HubTypeOK, NEW c \in Callers
  PROVE  [copy EXCEPT ![c] = NoCopy] \in [Callers -> Session \cup {NoCopy}]
BY DEF HubTypeOK

\* Whatever the calls overlap, the session and every copy are well-formed
\* sessions (hub/orchestrator.py:129-157, hub/repository.py:46-63).
THEOREM HubTypeCorrect == HubSpec => []HubTypeOK
<1>1. HubInit => HubTypeOK
  BY StartFields DEF HubInit, Init, HubTypeOK, TypeOK
<1>2. HubTypeOK /\ [HubNext]_hubVars => HubTypeOK'
  <2> SUFFICES ASSUME HubTypeOK, [HubNext]_hubVars
               PROVE  HubTypeOK'
    OBVIOUS
  <2>1. ASSUME NEW c \in Callers, ReadSession(c)
        PROVE  HubTypeOK'
    BY <2>1 DEF ReadSession, HubTypeOK, TypeOK
  <2>2. ASSUME NEW c \in Callers, CommitAdvance(c)
        PROVE  HubTypeOK'
    <3>1. PICK d \in Deltas :
            /\ InCall(c)
            /\ session' = Advance(copy[c], d)
            /\ copy' = [copy EXCEPT ![c] = NoCopy]
      BY <2>2 DEF CommitAdvance, Update, Deltas
    <3>2. session' \in Session
      BY <3>1, CopyIsSession, AdvanceFields
    <3> QED
      BY <3>1, <3>2, CopyDropped DEF HubTypeOK, TypeOK
  <2>3. ASSUME NEW c \in Callers, CommitDecision(c)
        PROVE  HubTypeOK'
    <3>1. PICK approved \in BOOLEAN, evidence \in Evidence :
            /\ InCall(c)
            /\ session' = HumanDecision(copy[c], approved, evidence)
            /\ copy' = [copy EXCEPT ![c] = NoCopy]
      BY <2>3 DEF CommitDecision, Update
    <3>2. session' \in Session
      BY <3>1, CopyIsSession, DecisionFields
    <3> QED
      BY <3>1, <3>2, CopyDropped DEF HubTypeOK, TypeOK
  <2>4. ASSUME NEW c \in Callers, Refuse(c)
        PROVE  HubTypeOK'
    BY <2>4, CopyDropped DEF Refuse, HubTypeOK, TypeOK
  <2>5. CASE UNCHANGED hubVars
    BY <2>5 DEF hubVars, HubTypeOK, TypeOK
  <2> QED
    BY <2>1, <2>2, <2>3, <2>4, <2>5 DEF HubNext
<1> QED
  BY <1>1, <1>2, PTL DEF HubSpec

------------------------------------------------------------------------------
(***************************************************************************)
(* The stored session                                                      *)
(***************************************************************************)

\* The inductive invariant: the stored session is sound, and so is every
\* copy of it a caller still works on.
AllSound ==
  /\ Sound(session)
  /\ \A c \in Callers : InCall(c) => Sound(copy[c])

\* What the end of a call leaves of the copies was there before.
LEMMA OtherCopies ==
  ASSUME HubTypeOK, AllSound, NEW c \in Callers,
         copy' = [copy EXCEPT ![c] = NoCopy]
  PROVE  \A b \in Callers : InCall(b)' => Sound(copy[b])'
<1> SUFFICES ASSUME NEW b \in Callers, copy'[b] # NoCopy
             PROVE  Sound(copy'[b])
  BY DEF InCall
<1>1. b # c /\ copy'[b] = copy[b]
  BY DEF HubTypeOK
<1> QED
  BY <1>1 DEF AllSound, InCall

\* However calls overlap, what is stored is sound, and so is every copy.
LEMMA AllSoundIsInvariant == HubSpec => []AllSound
<1>1. HubInit => AllSound
  <2> SUFFICES ASSUME HubInit
               PROVE  AllSound
    OBVIOUS
  <2>1. Sound(session)
    BY StartSound DEF HubInit, Init
  <2>2. \A c \in Callers : ~ InCall(c)
    BY DEF HubInit, Init, InCall
  <2> QED
    BY <2>1, <2>2 DEF AllSound
<1>2. HubTypeOK /\ AllSound /\ [HubNext]_hubVars => AllSound'
  <2> SUFFICES ASSUME HubTypeOK, AllSound, [HubNext]_hubVars
               PROVE  AllSound'
    OBVIOUS
  <2>1. ASSUME NEW c \in Callers, ReadSession(c)
        PROVE  AllSound'
    <3> SUFFICES ASSUME NEW b \in Callers, copy'[b] # NoCopy
                 PROVE  Sound(copy'[b])
      BY <2>1 DEF AllSound, InCall, ReadSession
    <3>1. copy'[b] = IF b = c THEN session ELSE copy[b]
      BY <2>1 DEF ReadSession, HubTypeOK
    <3> QED
      BY <3>1 DEF AllSound, InCall
  <2>2. ASSUME NEW c \in Callers, CommitAdvance(c)
        PROVE  AllSound'
    <3>1. PICK d \in Deltas :
            /\ InCall(c)
            /\ session' = Advance(copy[c], d)
            /\ copy' = [copy EXCEPT ![c] = NoCopy]
      BY <2>2 DEF CommitAdvance, Update, Deltas
    <3>2. Sound(session')
      BY <3>1, AdvanceSound DEF AllSound
    <3> QED
      BY <3>1, <3>2, OtherCopies DEF AllSound
  <2>3. ASSUME NEW c \in Callers, CommitDecision(c)
        PROVE  AllSound'
    <3>1. PICK approved \in BOOLEAN, evidence \in Evidence :
            /\ InCall(c)
            /\ session' = HumanDecision(copy[c], approved, evidence)
            /\ copy' = [copy EXCEPT ![c] = NoCopy]
      BY <2>3 DEF CommitDecision, Update
    <3>2. Sound(session')
      BY <3>1, DecisionSound DEF AllSound
    <3> QED
      BY <3>1, <3>2, OtherCopies DEF AllSound
  <2>4. ASSUME NEW c \in Callers, Refuse(c)
        PROVE  AllSound'
    <3>1. session' = session /\ copy' = [copy EXCEPT ![c] = NoCopy]
      BY <2>4 DEF Refuse
    <3> QED
      BY <3>1, OtherCopies DEF AllSound
  <2>5. CASE UNCHANGED hubVars
    BY <2>5 DEF hubVars, AllSound, InCall
  <2> QED
    BY <2>1, <2>2, <2>3, <2>4, <2>5 DEF HubNext
<1> QED
  BY <1>1, <1>2, HubTypeCorrect, PTL DEF HubSpec

\* However calls overlap, the stored session is linked, committed to by its
\* root hash, genuine in its convergence and monotone (hub/session.py:48-76).
THEOREM StoredSoundTheorem == HubSpec => []StoredSessionIsSound
<1>1. AllSound => StoredSessionIsSound
  BY DEF AllSound, Sound, StoredSessionIsSound
<1> QED
  BY <1>1, AllSoundIsInvariant, PTL

------------------------------------------------------------------------------
(***************************************************************************)
(* Calls that do not overlap                                               *)
(***************************************************************************)

\* A commit on a copy that is still what is stored is a step of the
\* sequential session; every other commit was begun on a stale copy
\* (hub/orchestrator.py:129-157).
THEOREM FreshCommitsTheorem == HubSpec => FreshCommitsAreSequential
<1> DEFINE Fresh ==
      \/ Next
      \/ \E c \in Callers : InCall(c) /\ copy'[c] = NoCopy /\ copy[c] # session
<1>1. HubTypeOK /\ [HubNext]_hubVars => [Fresh]_session
  <2> SUFFICES ASSUME HubTypeOK, HubNext, session' # session
               PROVE  Fresh
    BY DEF hubVars
  <2>1. PICK c \in Callers : CommitAdvance(c) \/ CommitDecision(c)
    BY DEF HubNext, ReadSession, Refuse
  <2>2. InCall(c) /\ copy'[c] = NoCopy
    BY <2>1 DEF CommitAdvance, CommitDecision, HubTypeOK
  <2>3. CASE copy[c] # session
    BY <2>2, <2>3
  <2>4. CASE copy[c] = session /\ CommitAdvance(c)
    <3>1. PICK d \in DeltaBatches \cup {NoDelta} :
            /\ Len(session.rounds) < MaxRounds
            /\ session' = Advance(session, d)
      BY <2>4 DEF CommitAdvance, Update
    <3>2. AdvanceSession
      BY <3>1 DEF AdvanceSession
    <3> QED
      BY <3>2 DEF Next
  <2>5. CASE copy[c] = session /\ CommitDecision(c)
    <3>1. PICK approved \in BOOLEAN, evidence \in Evidence :
            session' = HumanDecision(session, approved, evidence)
      BY <2>5 DEF CommitDecision, Update
    <3>2. DecideSession
      BY <3>1 DEF DecideSession
    <3> QED
      BY <3>2 DEF Next
  <2> QED
    BY <2>1, <2>3, <2>4, <2>5
<1> QED
  BY <1>1, HubTypeCorrect, PTL DEF HubSpec, FreshCommitsAreSequential
==============================================================================
