------------------------------ MODULE ZhiceBudget ------------------------------
(* The engine with a count of the executions each step has begun.             *)
EXTENDS ZhiceEngine

VARIABLE runs   \* how many times each step entered in_progress

Begins(s) == steps[s].status # "in_progress" /\ steps'[s].status = "in_progress"

BudgetInit == Init /\ runs = [s \in Step |-> 0]
BudgetNext == /\ Next
              /\ runs' = [s \in Step |-> runs[s] + IF Begins(s) THEN 1 ELSE 0]
BudgetSpec == BudgetInit /\ [][BudgetNext]_<<vars, runs>>

\* auto_retry bounds the executions of a step: however the retries of submits and
\* of the watchdog race, a step is begun at most once more than it has retries, and
\* what it has left is always paid for.
ExecutionsWithinBudget ==
    \A s \in Step : runs[s] + steps[s].retry <= 1 + InitRetry[s]
=============================================================================
