---------------------------- MODULE CognitiveReport ----------------------------
(***************************************************************************)
(* The bridge of the decision hub to the cognitive audit                   *)
(* (audit/cognitive/adapter.py): the context of a decision request, the    *)
(* operators registered for it and the findings read off their results.    *)
(*                                                                         *)
(* A request is a record of its objective, what the scanners find in its   *)
(* texts, its assumptions, those of them with a falsification condition,   *)
(* its origin (the resource gaps, or None) and its rollout (or None).      *)
(***************************************************************************)
EXTENDS CognitiveOperators

CONSTANT Outcome      \* the sentence that names the leading candidates

BaseOperators == <<"NS", "IAP", "LCH", "TPG", "BFC", "CCS", "META", "STATE">>

\* An operator without input is not registered.
OperatorsFor(r) ==
  BaseOperators \o (IF r.origin # None THEN <<"ORI">> ELSE <<>>)
                \o (IF r.rollout # None THEN <<"GRF">> ELSE <<>>)

BuildContext(r) ==
  [text        |-> r.text,
   decision    |-> r.objective,
   outcome     |-> Outcome,
   assumptions |-> r.assumptions,
   branches    |-> SelectSeq(r.assumptions, LAMBDA s : s \in r.falsifiable),
   deps        |-> {},
   origin      |-> IF r.origin = None THEN None ELSE r.objective,
   goal        |-> IF r.origin = None THEN None ELSE r.objective,
   resources   |-> IF r.origin = None THEN {} ELSE r.origin,
   facts       |-> {},
   verify      |-> FALSE,
   levels      |-> r.rollout # None /\ r.rollout.levels,
   exposure    |-> IF r.rollout = None THEN "none" ELSE r.rollout.exposure,
   feedback    |-> IF r.rollout = None THEN <<>> ELSE r.rollout.feedback,
   topology    |-> NoTopology]

------------------------------------------------------------------------------
(***************************************************************************)
(* _translate_findings, one clause per operator.  A finding is a record of *)
(* its code and its severity; the model keeps one of several equal ones.   *)
(***************************************************************************)
Finding(code, severity) == [code |-> code, severity |-> severity]

SeverityOf(word) ==
  CASE word = "HALT" -> "ERROR" [] word = "WARN" -> "WARNING" [] word = "PASS" -> "INFO"

ScannerFindings(a) ==
  {Finding(<<"NS", s>>, "WARNING") : s \in a["NS"].detail}
  \cup {Finding(<<"IAP", f>>, SeverityOf(IF f \in HaltFlags THEN "HALT" ELSE "WARN")) :
          f \in a["IAP"].detail}

LatchFindings(a) ==
  LET d == a["LCH"].detail
      severity == CASE d.delta >= 70 -> "ERROR"
                    [] d.delta >= 40 /\ ~(d.delta >= 70) -> "WARNING"
                    [] OTHER -> "INFO"
  IN  {Finding(<<"LCH", "weakest">>, severity) :
         i \in DOMAIN d.report[1]}
      \cup {Finding(<<"LCH", "incomplete">>, "ERROR") : x \in {FALSE} \cap {d.covered}}

ChainFindings(a) ==
  LET checks == a["CCS"].detail[1]
  IN  {Finding(<<"CCS", k>>, SeverityOf(checks[k])) : k \in DOMAIN checks}

\* Faulty variant: the findings of the conditional operators are left out.
NoStatusFindings(a) == {}

\* The findings of ORI and GRF, which carry a status of their own.
StatusFindings(a) ==
  {Finding(<<n, a[n].reason>>, IF a[n].status = "BLOCKED" THEN "ERROR" ELSE "WARNING") :
     n \in {m \in {"ORI", "GRF"} \cap DOMAIN a : a[m].status # "PASS"}}

TopologyFindings(a) ==
  {Finding(<<"TPG", c>>, "ERROR") : c \in a["TPG"].detail.fatal}
  \cup {Finding(<<"TPG", c>>, "WARNING") : c \in a["TPG"].detail.warnings}

LedgerFindings(a) ==
  LET bases == a["META"].detail.bases
  IN  {Finding(<<"META", b>>, "INFO") : b \in DOMAIN bases \ BasesAt(bases, "PASS")}

AnchorFindings(a) ==
  IF a["STATE"].detail.vague THEN {Finding(<<"STATE", "vague">>, "ERROR")} ELSE {}

\* The clause for BFC looks for verdicts that operator never gives, and so
\* finds nothing.
TranslateFindings(a) ==
  ScannerFindings(a) \cup LatchFindings(a) \cup ChainFindings(a)
  \cup StatusFindings(a) \cup TopologyFindings(a)
  \cup LedgerFindings(a) \cup AnchorFindings(a)
=============================================================================
