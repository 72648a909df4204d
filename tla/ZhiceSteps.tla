------------------------------ MODULE ZhiceSteps ------------------------------
(***************************************************************************)
(* The row transitions of zhice/status_machine.py: every operation is one  *)
(* "UPDATE ... WHERE step_id = $1 AND <guard> RETURNING *", modelled by a   *)
(* guard on the row (Can...) and the row it leaves (the past participle).  *)
(* Only the columns that later guards read are kept.                       *)
(***************************************************************************)
EXTENDS Integers

CONSTANTS
    Agent,      \* the agents that may be named in assigned_agent
    NoAgent,    \* assigned_agent IS NULL
    Key,        \* the idempotency keys of submits
    NoKey       \* idempotency_key IS NULL

ASSUME NoAgentAssumption == NoAgent \notin Agent
ASSUME NoKeyAssumption   == NoKey \notin Key

\* steps.status: VALID_STEP_STATUS without 'retry', which no statement writes.
StepStatus == {"pending", "assigned", "in_progress", "completed", "failed",
               "timed_out", "rejected", "skipped", "cancelled"}

\* STEP_TERMINAL: what all_steps_terminal counts as finished.
StepTerminal == {"completed", "failed", "skipped", "cancelled"}

\* A dependency is met when its step is one of these (get_next_step).
DoneStatus == {"completed", "skipped"}

TaskStatus   == {"pending", "running", "paused", "completed", "failed", "cancelled"}
TaskTerminal == {"completed", "failed", "cancelled"}

Row == [status : StepStatus, agent : Agent \cup {NoAgent}, retry : Int,
        key : Key \cup {NoKey}, confirmed : BOOLEAN]

\* A step as create_task inserts it: an agent may be named beforehand.
NewRow(retry, agent) == [status |-> "pending", agent |-> agent, retry |-> retry,
                         key |-> NoKey, confirmed |-> FALSE]
-----------------------------------------------------------------------------
CanAssign(row)         == row.status = "pending"
Assigned(row, a)       == [row EXCEPT !.status = "assigned", !.agent = a]

CanStart(row, a)       == row.status = "assigned" /\ row.agent = a
Started(row)           == [row EXCEPT !.status = "in_progress"]

\* A faulty variant, which lets any caller finish a running step.
CanFinishForAnyone(row, a) == row.status = "in_progress"

\* step_complete and step_fail have the same guard: only the agent that holds
\* the running step may finish it.
CanFinish(row, a)      == row.status = "in_progress" /\ row.agent = a
Completed(row, k)      == [row EXCEPT !.status = "completed", !.key = k]
Failed(row)            == [row EXCEPT !.status = "failed"]

\* step_reject with forced = False: no guard on the agent.
CanReject(row)         == row.status = "in_progress"
Rejected(row)          == [row EXCEPT !.status = "rejected"]

\* Faulty variants: retrying without looking at what is left, writing the status
\* 'retry' that nothing else handles, giving up the agent of a failed step as well.
CanRetryUnbounded(row) == row.status \in {"failed", "rejected", "timed_out"}
RetriedAsRetry(row)    == [row EXCEPT !.status = "retry", !.retry = @ - 1]
RetriedByNobody(row)   ==
    [row EXCEPT !.status = IF @ = "failed" THEN "in_progress" ELSE "pending",
                !.agent = NoAgent, !.retry = @ - 1]

\* step_retry: failed goes back to its agent, the others are given up.
CanRetry(row)          == /\ row.status \in {"failed", "rejected", "timed_out"}
                          /\ row.retry > 0
Retried(row)           ==
    IF row.status = "failed"
    THEN [row EXCEPT !.status = "in_progress", !.retry = @ - 1]
    ELSE [row EXCEPT !.status = "pending", !.agent = NoAgent, !.retry = @ - 1]

CanTimeOut(row)        == row.status \in {"assigned", "in_progress"}
TimedOut(row)          == [row EXCEPT !.status = "timed_out"]

CanSkip(row)           == row.status = "pending"
Skipped(row)           == [row EXCEPT !.status = "skipped"]

\* step_reject_reset: the creator gives the step another chance.
CanReset(row)          == row.status \in {"failed", "rejected", "timed_out"}
ResetTo(row, retry)    == [row EXCEPT !.status = "pending", !.agent = NoAgent,
                                      !.retry = retry]

CanCancel(row)         == row.status \in {"pending", "assigned", "in_progress"}
Cancelled(row)         == [row EXCEPT !.status = "cancelled"]

CanConfirm(row)        == ~row.confirmed
Confirmed(row)         == [row EXCEPT !.confirmed = TRUE]
=============================================================================
