------------------------- MODULE ConvergenceChecker -------------------------
(***************************************************************************)
(* The formal convergence engine: how one round of a reconstruction        *)
(* session is classified (convergence/checker.py, convergence/types.py,    *)
(* convergence/propositions.py).  The module is pure: the session engine   *)
(* calls Evaluate once per round.                                          *)
(***************************************************************************)
EXTENDS Integers

\* P-1's precondition: the constructor refuses any other budgets.
PropositionTermination(maxIterations, maxEvidence) ==
  /\ maxIterations \in Nat \ {0}
  /\ maxEvidence \in Nat

\* P-2: the leading candidate set is the previous round's.
PropositionFixedPoint(prev, curr) == prev = curr

\* Either of the two budgets is used up.
BudgetUsedUp(used, budget) ==
  \/ used.iterations >= budget.maxIterations
  \/ used.evidence >= budget.maxEvidence

\* Faulty variant: a used-up budget falls through to the other outcomes.
EvaluateIgnoringBudget(prev, curr, used, budget, unresolved, blocked) ==
  CASE blocked                                            -> "blocked"
    [] ~blocked /\ PropositionFixedPoint(prev, curr)      -> "fixed_point"
    [] ~blocked /\ ~PropositionFixedPoint(prev, curr)     ->
         IF unresolved <= 0 THEN "no_gain" ELSE "diverged"

\* Faulty variant: the order the docstring of evaluate gives, a used-up
\* budget before a fixed point.
EvaluateBudgetFirst(prev, curr, used, budget, unresolved, blocked) ==
  IF ~blocked /\ BudgetUsedUp(used, budget) THEN "budget_exhausted"
  ELSE EvaluateIgnoringBudget(prev, curr, used, budget, unresolved, blocked)

\* ConvergenceChecker.evaluate: BLOCKED first, then an exhausted budget
\* unless the round is a fixed point, then FIXED_POINT, NO_GAIN, DIVERGED.
Evaluate(prev, curr, used, budget, unresolved, blocked) ==
  LET fixed  == PropositionFixedPoint(prev, curr)
      usedUp == BudgetUsedUp(used, budget)
  IN  CASE blocked                          -> "blocked"
        [] ~blocked /\ fixed                -> "fixed_point"
        [] ~blocked /\ ~fixed /\ usedUp     -> "budget_exhausted"
        [] ~blocked /\ ~fixed /\ ~usedUp    ->
             IF unresolved <= 0 THEN "no_gain" ELSE "diverged"
=============================================================================
