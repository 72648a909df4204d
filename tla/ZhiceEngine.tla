------------------------------ MODULE ZhiceEngine ------------------------------
(***************************************************************************)
(* The zhice task engine: one task row and its step rows in PostgreSQL, the *)
(* HTTP handlers of zhice/api.py and runner.py that change them, and the    *)
(* watchdog of timeout_checker.py.  The handlers run concurrently in one    *)
(* asyncio process; every await on the database is a point where others    *)
(* run, so a handler is split into one action per SQL statement whose       *)
(* result or effect another handler can see.  A statement outside           *)
(* conn.transaction() commits at once.  In a transaction the rows written   *)
(* stay invisible and locked until the commit (READ COMMITTED), which the   *)
(* pcs tx_* and cancel stand for.  Elapsed time is abstracted: any assigned *)
(* or running step may be overdue when the watchdog looks.                  *)
(***************************************************************************)
EXTENDS ZhiceSteps

CONSTANTS
    Step,           \* the step indices of the task
    Req,            \* the API calls that may be in flight at one time
    NoStep,         \* no step
    Deps,           \* depends_on of each step
    NeedsConfirm,   \* the steps with confirmation_required
    InitRetry,      \* auto_retry of each step at creation
    InitAgent,      \* assigned_agent of each step at creation
    ResetRetry,     \* the reset_retry a creator asks for
    HasAcceptance,  \* the task itself has acceptance_criteria
    Verdict,        \* what the checks of a submit may come to
    Ops             \* the optional callers that are active

AllVerdicts == {"pass", "fail", "schema", "bad_signature", "agent_failed"}
AllOps      == {"assign", "confirm", "reset", "reverify", "pause", "cancel",
                "watchdog", "reclaim", "expire", "crash"}

ASSUME StepAssumption    == Step \subseteq Nat /\ NoStep \notin Step
ASSUME DepsAssumption    == Deps \in [Step -> SUBSET Step]
ASSUME DepsBackward      == \A s \in Step : \A d \in Deps[s] : d < s
ASSUME ConfirmAssumption == NeedsConfirm \subseteq Step
ASSUME RetryAssumption   == InitRetry \in [Step -> Nat] /\ ResetRetry \in Nat \ {0}
ASSUME AgentAssumption   == InitAgent \in [Step -> Agent \cup {NoAgent}]
ASSUME VerdictAssumption == Verdict \subseteq AllVerdicts
ASSUME OpsAssumption     == Ops \subseteq AllOps /\ HasAcceptance \in BOOLEAN

VARIABLES
    task,   \* tasks.status
    steps,  \* the committed row of each step
    req,    \* the local state of each API call
    wd      \* the local state of the watchdog's scan

vars == <<task, steps, req, wd>>

TxPc  == {"tx_count", "tx_steps", "tx_commit"}
ReqPc == {"idle", "next", "submit", "failed_key", "failed_retry", "schema_retry",
          "refund", "check_retry", "check_fail", "key", "count", "steps", "finish",
          "cancel", "confirm", "reverify"} \cup TxPc

\* retry: the auto_retry the handler holds, from its snapshot or a RETURNING.
\* decision: what try_complete_task is about to write; todo: the steps it will skip.
Request == [pc : ReqPc, agent : Agent \cup {NoAgent}, step : Step \cup {NoStep},
            key : Key \cup {NoKey}, verdict : AllVerdicts \cup {"none"}, retry : Int,
            decision : {"none", "completed", "failed"}, todo : SUBSET Step]
Idle    == [pc |-> "idle", agent |-> NoAgent, step |-> NoStep, key |-> NoKey,
            verdict |-> "none", retry |-> 0, decision |-> "none", todo |-> {}]

WdPc    == {"idle", "timeout", "requeue", "reclaim", "expire", "expire_read",
            "expire_steps"}
Scan    == [pc : WdPc, todo : SUBSET Step, cur : Step \cup {NoStep}]
WdIdle  == [pc |-> "idle", todo |-> {}, cur |-> NoStep]

TypeOK == /\ task \in TaskStatus
          /\ steps \in [Step -> Row]
          /\ req \in [Req -> Request]
          /\ wd \in Scan

\* create_task inserts the task and its steps and starts it in one transaction.
Init == /\ task = "running"
        /\ steps = [s \in Step |-> NewRow(InitRetry[s], InitAgent[s])]
        /\ req = [r \in Req |-> Idle]
        /\ wd = WdIdle
-----------------------------------------------------------------------------
Locked(s)  == \E r \in Req : req[r].pc \in TxPc /\ req[r].step = s
TaskLocked == \E r \in Req : req[r].pc = "cancel"

Goto(r, pc) == req' = [req EXCEPT ![r].pc = pc]
Return(r)   == req' = [req EXCEPT ![r] = Idle]

\* A single-row UPDATE: blocked while another transaction holds the row, and
\* without effect when the row no longer satisfies the WHERE clause.
Update(s, guard, row) ==
    /\ ~Locked(s)
    /\ steps' = IF guard THEN [steps EXCEPT ![s] = row] ELSE steps

DepsMet(s) == \A d \in Deps[s] : steps[d].status \in DoneStatus

\* A faulty variant that takes a dependency that has merely ended for one that is met.
ClaimableAfterAnyEnd ==
    {s \in Step : /\ steps[s].status = "pending"
                  /\ \A d \in Deps[s] : steps[d].status \in StepTerminal
                  /\ s \in NeedsConfirm => steps[s].confirmed
                  /\ ~Locked(s)}

Claimable == {s \in Step : /\ steps[s].status = "pending"
                           /\ DepsMet(s)
                           /\ s \in NeedsConfirm => steps[s].confirmed
                           /\ ~Locked(s)}
-----------------------------------------------------------------------------
(* GET /tasks/{id}/next: the task is read before the transaction that claims. *)
NextRead(r, a) ==
    /\ req[r].pc = "idle"
    /\ task \in {"running", "pending"}
    /\ req' = [req EXCEPT ![r] = [Idle EXCEPT !.pc = "next", !.agent = a]]
    /\ UNCHANGED <<task, steps, wd>>

\* One UPDATE: the first eligible step, rows locked by others are skipped.
NextClaim(r) ==
    /\ req[r].pc = "next"
    /\ \/ Claimable = {} /\ UNCHANGED steps
       \/ \E s \in Claimable : /\ \A u \in Claimable : s <= u
                               /\ steps' = [steps EXCEPT ![s] = Assigned(@, req[r].agent)]
    /\ Return(r)
    /\ UNCHANGED <<task, wd>>

\* POST /tasks/{id}/assign, one transaction: the step is locked, must be pending, is
\* assigned, and the agent is added to the task's participants; neither the task's
\* status, nor depends_on, nor the confirmation is looked at.
Assign(a, s) ==
    /\ "assign" \in Ops
    /\ ~Locked(s) /\ ~TaskLocked
    /\ CanAssign(steps[s])
    /\ steps' = [steps EXCEPT ![s] = Assigned(@, a)]
    /\ UNCHANGED <<task, req, wd>>

\* POST /steps/{id}/start: the guarded UPDATE repeats what was read before it.
Start(a, s) ==
    /\ ~Locked(s)
    /\ CanStart(steps[s], a)
    /\ steps' = [steps EXCEPT ![s] = Started(@)]
    /\ UNCHANGED <<task, req, wd>>
-----------------------------------------------------------------------------
(* POST /steps/{id}/submit.  The row is read, the caller compared with its    *)
(* assigned_agent and the key with its idempotency_key; the same key ends the  *)
(* call.  The status is not looked at here.                                    *)
SubmitRead(r, a, s, k, v) ==
    /\ req[r].pc = "idle"
    /\ steps[s].agent = a
    /\ steps[s].key # k
    /\ req' = [req EXCEPT ![r] = [Idle EXCEPT !.pc = "submit", !.agent = a, !.step = s,
                                              !.key = k, !.verdict = v,
                                              !.retry = steps[s].retry]]
    /\ UNCHANGED <<task, steps, wd>>

At(r, pc, v) == req[r].pc = pc /\ req[r].verdict = v

\* status = "failed": step_fail, or 409.
SubmitFailed(r) ==
    LET s == req[r].step IN
    /\ At(r, "submit", "agent_failed")
    /\ Update(s, CanFinish(steps[s], req[r].agent), Failed(steps[s]))
    /\ IF CanFinish(steps[s], req[r].agent)
       THEN req' = [req EXCEPT ![r].pc = "failed_key", ![r].retry = steps[s].retry]
       ELSE Return(r)
    /\ UNCHANGED <<task, wd>>

FailedKey(r) ==
    LET s == req[r].step IN
    /\ req[r].pc = "failed_key"
    /\ Update(s, TRUE, [steps[s] EXCEPT !.key = req[r].key])
    /\ IF req[r].retry > 0 THEN Goto(r, "failed_retry")
       ELSE req' = [req EXCEPT ![r] = [Idle EXCEPT !.pc = "count"]]
    /\ UNCHANGED <<task, wd>>

FailedRetry(r) ==
    LET s == req[r].step IN
    /\ req[r].pc = "failed_retry"
    /\ Update(s, CanRetry(steps[s]), Retried(steps[s]))
    /\ IF CanRetry(steps[s]) THEN Return(r)
       ELSE req' = [req EXCEPT ![r] = [Idle EXCEPT !.pc = "count"]]
    /\ UNCHANGED <<task, wd>>

\* check_results whose signature does not verify: only the key is stored.  The same
\* columns change when a rule asks for a manual review (status_reason is not kept).
SubmitBadSignature(r) ==
    LET s == req[r].step IN
    /\ At(r, "submit", "bad_signature")
    /\ Update(s, TRUE, [steps[s] EXCEPT !.key = req[r].key])
    /\ Return(r)
    /\ UNCHANGED <<task, wd>>

\* Only schema errors: step_reject, then step_retry if the snapshot has retries
\* left, then the retry it took is given back.
SubmitSchema(r) ==
    LET s == req[r].step IN
    /\ At(r, "submit", "schema")
    /\ Update(s, CanReject(steps[s]), Rejected(steps[s]))
    /\ Goto(r, IF req[r].retry > 0 THEN "schema_retry" ELSE "key")
    /\ UNCHANGED <<task, wd>>

SchemaRetry(r) ==
    LET s == req[r].step IN
    /\ req[r].pc = "schema_retry"
    /\ Update(s, CanRetry(steps[s]), Retried(steps[s]))
    /\ Goto(r, IF CanRetry(steps[s]) THEN "refund" ELSE "key")
    /\ UNCHANGED <<task, wd>>

SchemaRefund(r) ==
    LET s == req[r].step IN
    /\ req[r].pc = "refund"
    /\ Update(s, TRUE, [steps[s] EXCEPT !.retry = @ + 1])
    /\ Goto(r, "key")
    /\ UNCHANGED <<task, wd>>

\* A real check failure: step_reject; no row back counts as no retry left.
SubmitRejected(r) ==
    LET s    == req[r].step
        left == IF CanReject(steps[s]) THEN steps[s].retry ELSE 0
    IN
    /\ At(r, "submit", "fail")
    /\ Update(s, CanReject(steps[s]), Rejected(steps[s]))
    /\ Goto(r, IF left > 0 THEN "check_retry" ELSE "check_fail")
    /\ UNCHANGED <<task, wd>>

CheckRetry(r) ==
    LET s == req[r].step IN
    /\ req[r].pc = "check_retry"
    /\ Update(s, CanRetry(steps[s]), Retried(steps[s]))
    /\ Goto(r, "key")
    /\ UNCHANGED <<task, wd>>

\* A faulty variant: the late failure without a guard on the status.
CanCheckFailAlways(row) == TRUE

\* UPDATE ... 'failed' WHERE status IN ('rejected', 'in_progress', 'timed_out').
CanCheckFail(row) == row.status \in {"rejected", "in_progress", "timed_out"}
CheckFail(r) ==
    LET s == req[r].step IN
    /\ req[r].pc = "check_fail"
    /\ Update(s, CanCheckFail(steps[s]), Failed(steps[s]))
    /\ Goto(r, "key")
    /\ UNCHANGED <<task, wd>>

StoreKey(r) ==
    LET s == req[r].step IN
    /\ req[r].pc = "key"
    /\ Update(s, TRUE, [steps[s] EXCEPT !.key = req[r].key])
    /\ req' = [req EXCEPT ![r] = [Idle EXCEPT !.pc = "count"]]
    /\ UNCHANGED <<task, wd>>

\* The checks pass: step_complete opens the transaction and locks the row, or 409.
SubmitPassed(r) ==
    LET s == req[r].step IN
    /\ At(r, "submit", "pass")
    /\ ~Locked(s)
    /\ IF CanFinish(steps[s], req[r].agent) THEN Goto(r, "tx_count") ELSE Return(r)
    /\ UNCHANGED <<task, steps, wd>>
-----------------------------------------------------------------------------
(* runner.try_complete_task, in a transaction of its own (pc count, steps,    *)
(* finish) or inside the one of a passing submit (tx_...), where it sees that  *)
(* transaction's own write.                                                    *)
View(r) == IF req[r].pc \in TxPc
           THEN [steps EXCEPT ![req[r].step] = Completed(@, req[r].key)]
           ELSE steps

\* A faulty variant that counts every step that is not open as terminal.
NoneOpen(rows) == \A s \in Step : rows[s].status \notin {"pending", "assigned", "in_progress"}

AllTerminal(rows) == \A s \in Step : rows[s].status \in StepTerminal

TryCount(r) ==
    /\ req[r].pc \in {"count", "tx_count"}
    /\ IF task \in {"running", "pending"} /\ AllTerminal(View(r))
       THEN Goto(r, IF req[r].pc = "count" THEN "steps" ELSE "tx_steps")
       ELSE IF req[r].pc = "count" THEN Return(r) ELSE Goto(r, "tx_commit")
    /\ UNCHANGED <<task, steps, wd>>

\* get_task_steps is a second SELECT: it may see other rows than the count did.
TrySteps(r) ==
    LET failed   == {s \in Step : View(r)[s].status = "failed"}
        orphaned == {s \in Step : /\ View(r)[s].status = "pending"
                                  /\ Deps[s] \cap failed # {}}
    IN
    /\ req[r].pc \in {"steps", "tx_steps"}
    /\ \E accepted \in IF HasAcceptance THEN BOOLEAN ELSE {TRUE} :
         req' = [req EXCEPT ![r] =
             [@ EXCEPT !.pc = IF req[r].pc = "steps" THEN "finish" ELSE "tx_commit",
                       !.decision = IF failed = {} /\ accepted THEN "completed" ELSE "failed",
                       !.todo = orphaned]]
    /\ UNCHANGED <<task, steps, wd>>

\* step_skip of the orphaned steps, then task_complete or task_fail, both of
\* which need a running task.
Skip(rows, todo) ==
    [s \in Step |-> IF s \in todo /\ CanSkip(rows[s]) THEN Skipped(rows[s]) ELSE rows[s]]
\* A faulty variant of the task UPDATE without "AND status = 'running'".
OutcomeUnguarded(decision) == IF decision # "none" THEN decision ELSE task

Outcome(decision) == IF task = "running" /\ decision # "none" THEN decision ELSE task

\* A faulty variant that waits for a running task instead of matching no row.
TryFinishWaiting(r) ==
    /\ req[r].pc = "finish"
    /\ ~TaskLocked /\ task = "running"
    /\ \A s \in req[r].todo : ~Locked(s)
    /\ steps' = Skip(steps, req[r].todo)
    /\ task' = Outcome(req[r].decision)
    /\ Return(r)
    /\ UNCHANGED wd

TryFinish(r) ==
    /\ req[r].pc = "finish"
    /\ ~TaskLocked
    /\ \A s \in req[r].todo : ~Locked(s)
    /\ steps' = Skip(steps, req[r].todo)
    /\ task' = Outcome(req[r].decision)
    /\ Return(r)
    /\ UNCHANGED wd

\* The end of a passing submit: the rest of try_complete_task and the commit.
TxCommit(r) ==
    /\ req[r].pc = "tx_commit"
    /\ req[r].decision # "none" => ~TaskLocked
    /\ \A s \in req[r].todo : ~Locked(s)
    /\ steps' = Skip(View(r), req[r].todo)
    /\ task' = Outcome(req[r].decision)
    /\ Return(r)
    /\ UNCHANGED wd
-----------------------------------------------------------------------------
(* The creator's calls.                                                       *)

\* POST /steps/{id}/reject: a read and a guarded UPDATE; the task is not looked at.
Reset(s) ==
    /\ "reset" \in Ops
    /\ ~Locked(s)
    /\ CanReset(steps[s])
    /\ steps' = [steps EXCEPT ![s] = ResetTo(@, ResetRetry)]
    /\ UNCHANGED <<task, req, wd>>

\* POST /steps/{id}/confirm.
ConfirmRead(r, s) ==
    /\ "confirm" \in Ops
    /\ req[r].pc = "idle"
    /\ s \in NeedsConfirm
    /\ CanConfirm(steps[s])
    /\ task \in {"running", "pending"}
    /\ req' = [req EXCEPT ![r] = [Idle EXCEPT !.pc = "confirm", !.step = s]]
    /\ UNCHANGED <<task, steps, wd>>

ConfirmWrite(r) ==
    LET s == req[r].step IN
    /\ req[r].pc = "confirm"
    /\ Update(s, CanConfirm(steps[s]), Confirmed(steps[s]))
    /\ Return(r)
    /\ UNCHANGED <<task, wd>>

\* POST /steps/{id}/reverify: the write is not guarded by the status it read.
ReverifyRead(r, s) ==
    /\ "reverify" \in Ops
    /\ req[r].pc = "idle"
    /\ steps[s].status = "completed"
    /\ req' = [req EXCEPT ![r] = [Idle EXCEPT !.pc = "reverify", !.step = s]]
    /\ UNCHANGED <<task, steps, wd>>

ReverifyWrite(r) ==
    LET s == req[r].step IN
    /\ req[r].pc = "reverify"
    /\ Update(s, TRUE, Started(steps[s]))
    /\ Return(r)
    /\ UNCHANGED <<task, wd>>

\* POST /tasks/{id}/pause and /resume.
Pause  == /\ "pause" \in Ops
          /\ ~TaskLocked /\ task = "running" /\ task' = "paused"
          /\ UNCHANGED <<steps, req, wd>>
Resume == /\ "pause" \in Ops
          /\ ~TaskLocked /\ task = "paused" /\ task' = "running"
          /\ UNCHANGED <<steps, req, wd>>

\* POST /tasks/{id}/cancel: one transaction.  task_cancel locks the task row and
\* the steps that are not terminal are read ...
CancelBegin(r) ==
    /\ "cancel" \in Ops
    /\ req[r].pc = "idle"
    /\ ~TaskLocked
    /\ task \notin TaskTerminal
    /\ req' = [req EXCEPT ![r] = [Idle EXCEPT !.pc = "cancel",
                    !.todo = {s \in Step : steps[s].status \notin StepTerminal}]]
    /\ UNCHANGED <<task, steps, wd>>

\* ... each is cancelled if step_cancel accepts it, then the pending steps that
\* depend on a cancelled one are skipped, and all of it commits.
CancelCommit(r) ==
    LET rows   == [s \in Step |-> IF s \in req[r].todo /\ CanCancel(steps[s])
                                  THEN Cancelled(steps[s]) ELSE steps[s]]
        orphan == {s \in Step : \E d \in Deps[s] : rows[d].status = "cancelled"}
    IN
    /\ req[r].pc = "cancel"
    /\ \A s \in req[r].todo \cup orphan : ~Locked(s)
    /\ steps' = Skip(rows, orphan)
    /\ task' = "cancelled"
    /\ Return(r)
    /\ UNCHANGED wd

\* PostgreSQL breaks a lock cycle between a cancel and a passing submit by
\* aborting either of the two.
Deadlock(c, r) == /\ req[c].pc = "cancel"
                  /\ req[r].pc = "tx_commit" /\ req[r].decision # "none"
                  /\ req[r].step \in req[c].todo
DeadlockAbort(c, r) ==
    /\ Deadlock(c, r)
    /\ \E victim \in {c, r} : Return(victim)
    /\ UNCHANGED <<task, steps, wd>>
-----------------------------------------------------------------------------
(* The watchdog: the five SELECTs of _scan in turn, each followed by a loop    *)
(* over its rows.  With time abstracted, the rows a SELECT returns are any of  *)
(* those with the right status, and an empty result is no step at all, so the  *)
(* order of the scans need not be kept.                                        *)

\* Scan 1 takes assigned steps, scans 2 and 3 running ones.
WdScan(status) ==
    /\ "watchdog" \in Ops
    /\ wd.pc = "idle"
    /\ \E late \in SUBSET {s \in Step : steps[s].status = status} \ {{}} :
         wd' = [WdIdle EXCEPT !.pc = "timeout", !.todo = late]
    /\ UNCHANGED <<task, steps, req>>

\* Where the loop over todo goes after its step s.
After(s, pc) == IF wd.todo = {s} THEN WdIdle
                ELSE [wd EXCEPT !.pc = pc, !.todo = @ \ {s}, !.cur = NoStep]

\* A faulty variant that comes back to a row until its UPDATE takes effect.
WdTimeoutInsisting(s) ==
    /\ wd.pc = "timeout"
    /\ s \in wd.todo
    /\ Update(s, CanTimeOut(steps[s]), TimedOut(steps[s]))
    /\ wd' = IF CanTimeOut(steps[s])
             THEN IF steps[s].retry > 0 THEN [wd EXCEPT !.pc = "requeue", !.cur = s]
                  ELSE After(s, "timeout")
             ELSE wd
    /\ UNCHANGED <<task, req>>

\* A faulty variant that requeues the step whether or not it has a retry left.
WdTimeoutUnpaid(s) ==
    /\ wd.pc = "timeout"
    /\ s \in wd.todo
    /\ Update(s, CanTimeOut(steps[s]), TimedOut(steps[s]))
    /\ wd' = IF CanTimeOut(steps[s]) THEN [wd EXCEPT !.pc = "requeue", !.cur = s]
             ELSE After(s, "timeout")
    /\ UNCHANGED <<task, req>>

WdTimeout(s) ==
    /\ wd.pc = "timeout"
    /\ s \in wd.todo
    /\ Update(s, CanTimeOut(steps[s]), TimedOut(steps[s]))
    /\ wd' = IF CanTimeOut(steps[s]) /\ steps[s].retry > 0
             THEN [wd EXCEPT !.pc = "requeue", !.cur = s]
             ELSE After(s, "timeout")
    /\ UNCHANGED <<task, req>>

\* A faulty variant that gives the retry for nothing.
RequeuedForFree(row) == [row EXCEPT !.status = "pending", !.agent = NoAgent]

\* The second UPDATE of a timeout has no guard but the step_id.
Requeued(row) == [row EXCEPT !.status = "pending", !.agent = NoAgent, !.retry = @ - 1]
WdRequeue ==
    /\ wd.pc = "requeue"
    /\ Update(wd.cur, TRUE, Requeued(steps[wd.cur]))
    /\ wd' = After(wd.cur, "timeout")
    /\ UNCHANGED <<task, req>>

\* Scan 4: assigned and not started; its UPDATE has no guard but the step_id.
WdScanUnclaimed ==
    /\ {"watchdog", "reclaim"} \subseteq Ops
    /\ wd.pc = "idle"
    /\ \E late \in SUBSET {s \in Step : steps[s].status = "assigned"} \ {{}} :
         wd' = [WdIdle EXCEPT !.pc = "reclaim", !.todo = late]
    /\ UNCHANGED <<task, steps, req>>

Reclaimed(row) == [row EXCEPT !.status = "pending", !.agent = NoAgent]
WdReclaim(s) ==
    /\ wd.pc = "reclaim"
    /\ s \in wd.todo
    /\ Update(s, TRUE, Reclaimed(steps[s]))
    /\ wd' = After(s, "reclaim")
    /\ UNCHANGED <<task, req>>

\* Scan 5: the task itself is overdue.
WdScanTask ==
    /\ {"watchdog", "expire"} \subseteq Ops
    /\ wd.pc = "idle"
    /\ task = "running"
    /\ wd' = [wd EXCEPT !.pc = "expire"]
    /\ UNCHANGED <<task, steps, req>>

\* A faulty variant that expects the task in a status it was never left in.
WdExpirePending ==
    /\ wd.pc = "expire"
    /\ ~TaskLocked
    /\ task' = IF task = "pending" THEN "failed" ELSE task
    /\ wd' = [wd EXCEPT !.pc = "expire_read"]
    /\ UNCHANGED <<steps, req>>

WdExpire ==
    /\ wd.pc = "expire"
    /\ ~TaskLocked
    /\ task' = IF task = "running" THEN "failed" ELSE task
    /\ wd' = [wd EXCEPT !.pc = "expire_read"]
    /\ UNCHANGED <<steps, req>>

\* The rows are read even if the task was no longer running.
WdExpireRead ==
    LET open == {s \in Step : steps[s].status \notin StepTerminal \cup {"timed_out"}} IN
    /\ wd.pc = "expire_read"
    /\ wd' = IF open = {} THEN WdIdle ELSE [wd EXCEPT !.pc = "expire_steps", !.todo = open]
    /\ UNCHANGED <<task, steps, req>>

WdExpireStep(s) ==
    /\ wd.pc = "expire_steps"
    /\ s \in wd.todo
    /\ Update(s, CanTimeOut(steps[s]), TimedOut(steps[s]))
    /\ wd' = After(s, "expire_steps")
    /\ UNCHANGED <<task, req>>

\* _loop catches whatever a scan raises, a failed notification between two UPDATEs
\* included, and the rest of that scan is not done.
WdError ==
    /\ "crash" \in Ops
    /\ wd.pc # "idle"
    /\ wd' = WdIdle
    /\ UNCHANGED <<task, steps, req>>

\* The process stops: the calls in flight and the scan are lost, their open
\* transactions roll back, the committed rows stay.
Crash ==
    /\ "crash" \in Ops
    /\ req' = [r \in Req |-> Idle]
    /\ wd' = WdIdle
    /\ UNCHANGED <<task, steps>>
-----------------------------------------------------------------------------
\* What an agent or a creator may ask for.
Call ==
    \/ \E r \in Req, a \in Agent : NextRead(r, a)
    \/ \E a \in Agent, s \in Step : Assign(a, s) \/ Start(a, s)
    \/ \E r \in Req, a \in Agent, s \in Step, k \in Key, v \in Verdict :
          SubmitRead(r, a, s, k, v)
    \/ \E s \in Step : Reset(s)
    \/ \E r \in Req, s \in Step : ConfirmRead(r, s) \/ ReverifyRead(r, s)
    \/ \E r \in Req : CancelBegin(r)
    \/ Pause \/ Resume

\* The next statement of a call in flight.
Continue(r) ==
    \/ NextClaim(r)
    \/ SubmitFailed(r) \/ FailedKey(r) \/ FailedRetry(r)
    \/ SubmitBadSignature(r)
    \/ SubmitSchema(r) \/ SchemaRetry(r) \/ SchemaRefund(r)
    \/ SubmitRejected(r) \/ CheckRetry(r) \/ CheckFail(r) \/ StoreKey(r)
    \/ SubmitPassed(r) \/ TryCount(r) \/ TrySteps(r) \/ TryFinish(r) \/ TxCommit(r)
    \/ ConfirmWrite(r) \/ ReverifyWrite(r) \/ CancelCommit(r)

\* The next statement of a scan under way.
WdContinue ==
    \/ \E s \in Step : WdTimeout(s) \/ WdReclaim(s) \/ WdExpireStep(s)
    \/ WdRequeue \/ WdExpire \/ WdExpireRead

Watchdog == \/ \E status \in {"assigned", "in_progress"} : WdScan(status)
            \/ WdScanUnclaimed \/ WdScanTask
            \/ WdContinue \/ WdError

Next == \/ Call
        \/ \E r \in Req : Continue(r)
        \/ \E c, r \in Req : DeadlockAbort(c, r)
        \/ Watchdog
        \/ Crash

Spec == Init /\ [][Next]_vars
-----------------------------------------------------------------------------
(* What must not go wrong.                                                     *)

\* A step an agent works on names that agent, or its agent could neither submit
\* nor be told of a timeout (the api compares assigned_agent with the caller).
OwnerKnown ==
    \A s \in Step : steps[s].status \in {"assigned", "in_progress"} => steps[s].agent # NoAgent

\* A step that is worked on or done has all the steps of its depends_on behind it,
\* at every moment and not only when it was claimed.
DependenciesHold ==
    \A s \in Step : steps[s].status \in {"assigned", "in_progress", "completed"} => DepsMet(s)

\* A task is reported completed only over steps that are all done, when each step with
\* a retry has another that depends on it.  One without may be revived between the two
\* SELECTs of try_complete_task: CompletionOverTerminalSteps in ZhiceClaims.
CompletedTaskIsDone ==
    task = "completed" => \A s \in Step : steps[s].status \in DoneStatus

\* auto_retry is a budget: racing consumers never overdraw it.
RetryNotOverdrawn == \A s \in Step : steps[s].retry >= 0

\* A task that reached an outcome keeps it, whatever calls are still in flight.
OutcomeFinal == [][(task \in TaskTerminal) => (task' = task)]_vars

\* A finished step is not reopened by a late submit, retry, reset or timeout.
DoneStepsStay ==
    [][\A s \in Step : steps[s].status \in {"completed", "skipped", "cancelled"} =>
                          steps'[s].status = steps[s].status]_vars

\* A step becomes completed only out of the hands of the agent that runs it: the
\* call that commits was made by the agent the row names at that moment.
OnlyOwnerCompletes ==
    [][\A s \in Step : steps[s].status # "completed" /\ steps'[s].status = "completed" =>
          /\ steps[s].status = "in_progress"
          /\ \E r \in Req : /\ req[r].pc = "tx_commit" /\ req[r].step = s
                             /\ req[r].agent = steps[s].agent]_vars

\* Every run of the engine is one of TaskLifecycle, the abstract specification of a task:
\* a step moves only along its lifecycle, with its agent and against its tries, and the
\* task ends once.  For a task as CompletedTaskIsDone says, and its ordinary callers.
Stage(status)  == IF status \in {"failed", "rejected", "timed_out"} THEN "missed" ELSE status
HolderOf(row)  == IF row.status \in {"pending", "skipped", "cancelled"} THEN NoAgent ELSE row.agent
Lifecycle == INSTANCE TaskLifecycle WITH
               Nobody <- NoAgent, Tries <- InitRetry,
               outcome <- IF task \in TaskTerminal THEN task ELSE "open",
               state <- [s \in Step |-> Stage(steps[s].status)],
               holder <- [s \in Step |-> HolderOf(steps[s])],
               left <- [s \in Step |-> steps[s].retry]
ImplementsLifecycle == Lifecycle!Spec
-----------------------------------------------------------------------------
(* Scheduling.  asyncio resumes every call and the scan after its statement     *)
(* returns, and a row lock is granted in the order it was asked for, so a       *)
(* statement that is enabled again and again is executed; _scan comes to its    *)
(* fifth SELECT in every round.  Agents and creators may stop at any time.      *)
Fairness == /\ \A r \in Req : SF_vars(Continue(r))
            /\ \A c, r \in Req : WF_vars(DeadlockAbort(c, r))
            /\ SF_vars(WdContinue)
            /\ SF_vars(WdScanTask)

FairSpec == Spec /\ Fairness

\* A task that has a timeout does not stay running, whatever its agents do.
OverdueTaskEnds == (task = "running") ~> (task # "running")

\* Every call and every scan comes to its end: nobody waits for a lock for ever,
\* not even when a cancel and the submit of the last step wait for each other.
CallsReturn == \A r \in Req : (req[r].pc # "idle") ~> (req[r].pc = "idle")
ScansEnd    == (wd.pc # "idle") ~> (wd.pc = "idle")
=============================================================================
