--------------------------- MODULE ZhiceSafetyProofs ---------------------------
(***************************************************************************)
(* Safety of the engine, for every instance: outcomes are final, only the   *)
(* owner of a running step completes it, and, without reverifications, a    *)
(* step that is worked on has an owner.                                     *)
(***************************************************************************)
EXTENDS ZhiceTypeProofs

-----------------------------------------------------------------------------
(* A task keeps its outcome.  Every statement that writes tasks.status looks  *)
(* at it, except the commit of a cancel, which relies on the row lock that     *)
(* task_cancel took: while it is held the task is not terminal, and no second  *)
(* cancel is under way.                                                        *)
CancelInv == \A r \in Req : req[r].pc = "cancel" =>
                /\ task \notin TaskTerminal
                /\ \A q \in Req : req[q].pc = "cancel" => q = r

\* No call begins a cancel.
NoNewCancel == \A q \in Req : req'[q].pc = "cancel" => req[q].pc = "cancel"

LEMMA GotoNoCancel ==
    ASSUME CallsOK, NEW r \in Req, NEW pc \in ReqPc \ {"cancel"}, Goto(r, pc)
    PROVE  NoNewCancel
BY DEF NoNewCancel, Goto, CallsOK, CallOK, Request

LEMMA ReturnNoCancel == ASSUME CallsOK, NEW r \in Req, Return(r) PROVE NoNewCancel
BY DEF NoNewCancel, Return, Idle, CallsOK

\* Submits, claims, confirmations and reverifications do not touch the task.
LEMMA CallsKeepTask ==
    ASSUME TypeInv, NEW r \in Req,
           \/ NextClaim(r)
           \/ SubmitFailed(r) \/ FailedKey(r) \/ FailedRetry(r)
           \/ SubmitBadSignature(r)
           \/ SubmitSchema(r) \/ SchemaRetry(r) \/ SchemaRefund(r)
           \/ SubmitRejected(r) \/ CheckRetry(r) \/ CheckFail(r) \/ StoreKey(r)
           \/ SubmitPassed(r) \/ TryCount(r) \/ TrySteps(r)
           \/ ConfirmWrite(r) \/ ReverifyWrite(r)
    PROVE  task' = task /\ NoNewCancel
<1> USE DEF TypeInv
<1>1. CASE NextClaim(r) \/ SubmitBadSignature(r) \/ ConfirmWrite(r) \/ ReverifyWrite(r)
  BY <1>1, ReturnNoCancel DEF NextClaim, SubmitBadSignature, ConfirmWrite, ReverifyWrite
<1>2. CASE SubmitSchema(r) \/ SchemaRetry(r) \/ SchemaRefund(r) \/ SubmitRejected(r)
             \/ CheckRetry(r) \/ CheckFail(r)
  BY <1>2, GotoNoCancel DEF SubmitSchema, SchemaRetry, SchemaRefund, SubmitRejected,
     CheckRetry, CheckFail, ReqPc
<1>3. CASE SubmitPassed(r) \/ TryCount(r)
  BY <1>3, GotoNoCancel, ReturnNoCancel DEF SubmitPassed, TryCount, ReqPc, TxPc
<1>4. CASE SubmitFailed(r) \/ FailedKey(r) \/ FailedRetry(r) \/ StoreKey(r)
  <2>1. CASE SubmitFailed(r)
    BY <2>1, ReturnNoCancel DEF SubmitFailed, NoNewCancel, CallsOK, CallOK, Request
  <2>2. [Idle EXCEPT !.pc = "count"].pc # "cancel"
    BY DEF Idle
  <2>3. CASE FailedKey(r) \/ FailedRetry(r) \/ StoreKey(r)
    BY <2>2, <2>3, GotoNoCancel, ReturnNoCancel
    DEF FailedKey, FailedRetry, StoreKey, ReqPc, NoNewCancel, CallsOK
  <2>4. QED
    BY <1>4, <2>1, <2>3
<1>5. CASE TrySteps(r)
  <2>1. PICK pc \in {"finish", "tx_commit"}, d \in {"completed", "failed"}, skip \in SUBSET Step :
           req' = [req EXCEPT ![r] = Decided(req[r], pc, d, skip)]
    BY <1>5, TryStepsGo
  <2>2. Decided(req[r], pc, d, skip).pc = pc
    BY DEF Decided, CallsOK, CallOK, Request
  <2>3. QED
    BY <1>5, <2>1, <2>2 DEF TrySteps, NoNewCancel, CallsOK
<1>6. QED
  BY <1>1, <1>2, <1>3, <1>4, <1>5

\* What else a step may be: it leaves the task alone and begins no cancel, or it is
\* a statement that writes tasks.status.
Quiet     == task' = task /\ NoNewCancel
TaskWrite == /\ ~TaskLocked
             /\ task \notin TaskTerminal
             /\ NoNewCancel

LEMMA TaskSteps ==
    ASSUME TypeInv, [Next]_vars
    PROVE  \/ Quiet
           \/ TaskWrite
           \/ \E r \in Req : CancelBegin(r) \/ CancelCommit(r)
<1> USE DEF TypeInv
<1>1. ASSUME NEW r \in Req, NEW a \in Agent, NextRead(r, a) PROVE Quiet
  BY <1>1 DEF NextRead, Quiet, NoNewCancel, Idle, CallsOK
<1>2. ASSUME NEW r \in Req, Continue(r), ~TryFinish(r), ~TxCommit(r), ~CancelCommit(r)
      PROVE  Quiet
  BY <1>2, CallsKeepTask DEF Continue, Quiet
<1>3. ASSUME NEW r \in Req, TryFinish(r) \/ TxCommit(r)
      PROVE  Quiet \/ TaskWrite
  BY <1>3, ReturnNoCancel
  DEF TryFinish, TxCommit, Outcome, Quiet, TaskWrite, TaskTerminal
<1>4. ASSUME NEW a \in Agent, NEW s \in Step, Assign(a, s) \/ Start(a, s) PROVE Quiet
  BY <1>4 DEF Assign, Start, Quiet, NoNewCancel
<1>5. ASSUME NEW r \in Req, NEW a \in Agent, NEW s \in Step, NEW k \in Key, NEW v \in Verdict,
             SubmitRead(r, a, s, k, v)
      PROVE  Quiet
  BY <1>5 DEF SubmitRead, Quiet, NoNewCancel, Idle, CallsOK
<1>6. ASSUME NEW s \in Step, Reset(s) PROVE Quiet
  BY <1>6 DEF Reset, Quiet, NoNewCancel
<1>7. ASSUME NEW r \in Req, NEW s \in Step, ConfirmRead(r, s) \/ ReverifyRead(r, s)
      PROVE  Quiet
  BY <1>7 DEF ConfirmRead, ReverifyRead, Quiet, NoNewCancel, Idle, CallsOK
<1>8. CASE Pause \/ Resume
  BY <1>8 DEF Pause, Resume, TaskWrite, TaskTerminal, NoNewCancel
<1>9. ASSUME NEW c \in Req, NEW r \in Req, DeadlockAbort(c, r) PROVE Quiet
  BY <1>9, ReturnNoCancel DEF DeadlockAbort, Quiet
<1>10. CASE WdExpire
  BY <1>10 DEF WdExpire, Quiet, TaskWrite, TaskTerminal, NoNewCancel
<1>11. CASE Watchdog /\ ~WdExpire
  BY <1>11 DEF Watchdog, WdContinue, WdScan, WdScanUnclaimed, WdScanTask, WdError, WdTimeout,
     WdReclaim, WdExpireStep, WdRequeue, WdExpireRead, Quiet, NoNewCancel
<1>12. CASE Crash
  BY <1>12 DEF Crash, Quiet, NoNewCancel, Idle
<1>13. CASE UNCHANGED vars
  BY <1>13 DEF vars, Quiet, NoNewCancel
<1>14. QED
  BY <1>1, <1>2, <1>3, <1>4, <1>5, <1>6, <1>7, <1>8, <1>9, <1>10, <1>11, <1>12, <1>13
  DEF Next, Call

\* A cancel that has been answered is final, as is a completed or failed task:
\* CancelInv is inductive and the commit of a cancel never overwrites an outcome.
THEOREM CancelExclusive == Spec => []CancelInv
<1>1. Init => CancelInv
  BY DEF Init, CancelInv, Idle
<1>2. TypeInv /\ CancelInv /\ [Next]_vars => CancelInv'
  <2> SUFFICES ASSUME TypeInv, CancelInv, [Next]_vars PROVE CancelInv'
    OBVIOUS
  <2>1. CASE Quiet
    BY <2>1 DEF Quiet, NoNewCancel, CancelInv
  <2>2. CASE TaskWrite
    BY <2>2 DEF TaskWrite, TaskLocked, NoNewCancel, CancelInv
  <2>3. ASSUME NEW r \in Req, CancelBegin(r) PROVE CancelInv'
    BY <2>3 DEF CancelBegin, CancelInv, TaskLocked, TypeInv, CallsOK
  <2>4. ASSUME NEW r \in Req, CancelCommit(r) PROVE CancelInv'
    BY <2>4 DEF CancelCommit, Return, Idle, CancelInv, TypeInv, CallsOK
  <2>5. QED
    BY <2>1, <2>2, <2>3, <2>4, TaskSteps
<1>3. QED
  BY <1>1, <1>2, TypeInvariant, PTL DEF Spec

\* A task that reached an outcome keeps it, whatever calls are still in flight.
THEOREM OutcomeIsFinal == Spec => OutcomeFinal
<1>1. TypeInv /\ CancelInv /\ [Next]_vars => [(task \in TaskTerminal) => (task' = task)]_vars
  <2> SUFFICES ASSUME TypeInv, CancelInv, [Next]_vars, task \in TaskTerminal PROVE task' = task
    OBVIOUS
  <2>1. ASSUME NEW r \in Req PROVE ~CancelBegin(r) /\ ~CancelCommit(r)
    BY DEF CancelBegin, CancelCommit, CancelInv
  <2>2. QED
    BY <2>1, TaskSteps DEF Quiet, TaskWrite
<1>2. QED
  BY <1>1, TypeInvariant, CancelExclusive, PTL DEF Spec, OutcomeFinal
-----------------------------------------------------------------------------
(* A step is completed by the agent that runs it.  step_complete looks at the *)
(* row when the transaction begins; the row lock keeps it as it was until the  *)
(* commit, because every other statement waits for the lock.                   *)
TxInv == \A r \in Req : req[r].pc \in TxPc =>
            /\ CanFinish(steps[req[r].step], req[r].agent)
            /\ \A q \in Req : req[q].pc \in TxPc /\ req[q].step = req[r].step => q = r

\* No call opens a transaction, and those that are open stay on their row.
NoNewTx == \A q \in Req : req'[q].pc \in TxPc =>
              /\ req[q].pc \in TxPc
              /\ req'[q].step = req[q].step /\ req'[q].agent = req[q].agent

\* Locked rows are left alone, and no row becomes completed.
RowKept(s)  == /\ Locked(s) => steps'[s] = steps[s]
               /\ steps'[s].status = "completed" => steps[s].status = "completed"
RowsKept    == \A s \in Step : RowKept(s)

LEMMA UpdateKeeps ==
    ASSUME StepsOK, NEW s \in Step, NEW guard, NEW row, Update(s, guard, row),
           row.status = "completed" => steps[s].status = "completed"
    PROVE  RowsKept
BY DEF StepsOK, Update, RowsKept, RowKept

LEMMA GotoNoTx ==
    ASSUME CallsOK, NEW r \in Req, NEW pc \in ReqPc, Goto(r, pc),
           pc \in TxPc => req[r].pc \in TxPc
    PROVE  NoNewTx
BY DEF NoNewTx, Goto, CallsOK, CallOK, Request

LEMMA CountNoTx ==
    ASSUME CallsOK, NEW r \in Req, req' = [req EXCEPT ![r] = [Idle EXCEPT !.pc = "count"]]
    PROVE  NoNewTx
<1>1. [Idle EXCEPT !.pc = "count"].pc = "count"
  BY DEF Idle
<1>2. req'[r].pc \notin TxPc /\ \A q \in Req \ {r} : req'[q] = req[q]
  BY <1>1 DEF CallsOK, TxPc
<1>3. QED
  BY <1>2 DEF NoNewTx

LEMMA ReturnNoTx == ASSUME CallsOK, NEW r \in Req, Return(r) PROVE NoNewTx
BY DEF NoNewTx, Return, Idle, CallsOK, TxPc

\* The statements of a submit that are not part of its final transaction.
LEMMA SubmitKeepsRows ==
    ASSUME TypeInv, NEW r \in Req,
           \/ SubmitFailed(r) \/ FailedKey(r) \/ FailedRetry(r)
           \/ SubmitBadSignature(r)
           \/ SubmitSchema(r) \/ SchemaRetry(r) \/ SchemaRefund(r)
           \/ SubmitRejected(r) \/ CheckRetry(r) \/ CheckFail(r) \/ StoreKey(r)
    PROVE  RowsKept /\ NoNewTx
<1> USE DEF TypeInv
<1>1. req[r].step \in Step /\ steps[req[r].step] \in Row
  BY DEF SubmitFailed, FailedKey, FailedRetry, SubmitBadSignature, SubmitSchema, SchemaRetry,
     SchemaRefund, SubmitRejected, CheckRetry, CheckFail, StoreKey, At, CallsOK, CallOK, NoStepPc,
     StepsOK
<1> DEFINE s == req[r].step
<1>2. /\ Failed(steps[s]).status # "completed"
      /\ Rejected(steps[s]).status # "completed"
      /\ Retried(steps[s]).status # "completed"
      /\ [steps[s] EXCEPT !.key = req[r].key].status = steps[s].status
      /\ [steps[s] EXCEPT !.retry = @ + 1].status = steps[s].status
  BY <1>1 DEF Failed, Rejected, Retried, Row
<1>3. RowsKept
  <2>1. CASE SubmitFailed(r)
    BY <1>1, <1>2, <2>1, UpdateKeeps DEF SubmitFailed
  <2>2. CASE FailedKey(r) \/ SubmitBadSignature(r) \/ StoreKey(r)
    BY <1>1, <1>2, <2>2 DEF FailedKey, SubmitBadSignature, StoreKey, Update, StepsOK, RowsKept, RowKept
  <2>3. CASE FailedRetry(r) \/ SchemaRetry(r) \/ CheckRetry(r)
    BY <1>1, <1>2, <2>3, UpdateKeeps DEF FailedRetry, SchemaRetry, CheckRetry
  <2>4. CASE SubmitSchema(r) \/ SubmitRejected(r)
    BY <1>1, <1>2, <2>4, UpdateKeeps DEF SubmitSchema, SubmitRejected
  <2>5. CASE SchemaRefund(r)
    BY <1>1, <1>2, <2>5 DEF SchemaRefund, Update, StepsOK, RowsKept, RowKept
  <2>6. CASE CheckFail(r)
    BY <1>1, <1>2, <2>6, UpdateKeeps DEF CheckFail
  <2>7. QED
    BY <2>1, <2>2, <2>3, <2>4, <2>5, <2>6
<1>4. NoNewTx
  <2>1. CASE SubmitBadSignature(r)
    BY <2>1, ReturnNoTx DEF SubmitBadSignature
  <2>2. CASE SubmitSchema(r) \/ SchemaRetry(r) \/ SchemaRefund(r) \/ SubmitRejected(r)
               \/ CheckRetry(r) \/ CheckFail(r)
    BY <2>2, GotoNoTx DEF SubmitSchema, SchemaRetry, SchemaRefund, SubmitRejected, CheckRetry,
       CheckFail, ReqPc, TxPc
  <2>3. CASE SubmitFailed(r)
    BY <2>3, ReturnNoTx DEF SubmitFailed, NoNewTx, CallsOK, CallOK, Request, TxPc
  <2>4. CASE FailedKey(r) \/ FailedRetry(r) \/ StoreKey(r)
    BY <2>4, ReturnNoTx, GotoNoTx, CountNoTx DEF FailedKey, FailedRetry, StoreKey, ReqPc, TxPc
  <2>5. QED
    BY <2>1, <2>2, <2>3, <2>4
<1>5. QED
  BY <1>3, <1>4

\* The watchdog waits for row locks as everyone does.
LEMMA WatchdogKeepsRows == ASSUME TypeInv, Watchdog PROVE RowsKept /\ NoNewTx
<1> USE DEF TypeInv
<1>1. UNCHANGED req
  BY DEF Watchdog, WdContinue, WdScan, WdScanUnclaimed, WdScanTask, WdError, WdTimeout,
     WdReclaim, WdExpireStep, WdRequeue, WdExpire, WdExpireRead
<1>2. NoNewTx
  BY <1>1 DEF NoNewTx
<1>3. \A s \in Step : /\ TimedOut(steps[s]).status # "completed"
                      /\ Requeued(steps[s]).status # "completed"
                      /\ Reclaimed(steps[s]).status # "completed"
  BY DEF TimedOut, Requeued, Reclaimed, StepsOK, Row
<1>4. ASSUME NEW s \in Step, WdTimeout(s) \/ WdExpireStep(s) \/ WdReclaim(s) PROVE RowsKept
  BY <1>3, <1>4, UpdateKeeps DEF WdTimeout, WdExpireStep, WdReclaim, Update, RowsKept, RowKept, StepsOK
<1>5. CASE WdRequeue
  BY <1>2, <1>3, <1>5 DEF WdRequeue, Update, ScanOK, RowsKept, RowKept, StepsOK
<1>6. CASE UNCHANGED steps
  BY <1>2, <1>6 DEF RowsKept, RowKept
<1>7. QED
  BY <1>2, <1>4, <1>5, <1>6
  DEF Watchdog, WdContinue, WdScan, WdScanUnclaimed, WdScanTask, WdError, WdExpire, WdExpireRead

\* Every step but the opening and the commit of a passing submit keeps locked rows.
LEMMA RowSteps ==
    ASSUME TypeInv, [Next]_vars
    PROVE  \/ RowsKept /\ NoNewTx
           \/ \E r \in Req : SubmitPassed(r) \/ TxCommit(r)
<1> USE DEF TypeInv
<1>1. ASSUME UNCHANGED steps PROVE RowsKept
  BY <1>1 DEF RowsKept, RowKept
<1>2. ASSUME NEW r \in Req, NEW a \in Agent, NextRead(r, a) PROVE RowsKept /\ NoNewTx
  BY <1>1, <1>2 DEF NextRead, NoNewTx, Idle, CallsOK, TxPc
<1>3. ASSUME NEW r \in Req, NextClaim(r) PROVE RowsKept /\ NoNewTx
  <2>1. \A s \in Step : Assigned(steps[s], req[r].agent).status # "completed"
    BY DEF Assigned, StepsOK, Row
  <2>2. RowsKept
    BY <1>3, <2>1 DEF NextClaim, Claimable, StepsOK, RowsKept, RowKept
  <2>3. QED
    BY <1>3, <2>2, ReturnNoTx DEF NextClaim
<1>4. ASSUME NEW a \in Agent, NEW s \in Step, Assign(a, s) \/ Start(a, s)
      PROVE  RowsKept /\ NoNewTx
  <2>1. Assigned(steps[s], a).status # "completed" /\ Started(steps[s]).status # "completed"
    BY DEF Assigned, Started, StepsOK, Row
  <2>2. QED
    BY <1>4, <2>1 DEF Assign, Start, StepsOK, RowsKept, RowKept, NoNewTx
<1>5. ASSUME NEW r \in Req, NEW a \in Agent, NEW s \in Step, NEW k \in Key, NEW v \in Verdict,
             SubmitRead(r, a, s, k, v)
      PROVE  RowsKept /\ NoNewTx
  BY <1>1, <1>5 DEF SubmitRead, NoNewTx, Idle, CallsOK, TxPc
<1>6. ASSUME NEW s \in Step, Reset(s) PROVE RowsKept /\ NoNewTx
  <2>1. ResetTo(steps[s], ResetRetry).status # "completed"
    BY DEF ResetTo, StepsOK, Row
  <2>2. QED
    BY <1>6, <2>1 DEF Reset, StepsOK, RowsKept, RowKept, NoNewTx
<1>7. ASSUME NEW r \in Req, NEW s \in Step, ConfirmRead(r, s) \/ ReverifyRead(r, s)
      PROVE  RowsKept /\ NoNewTx
  <2>1. /\ [Idle EXCEPT !.pc = "confirm", !.step = s].pc = "confirm"
        /\ [Idle EXCEPT !.pc = "reverify", !.step = s].pc = "reverify"
    BY DEF Idle
  <2>2. req'[r].pc \notin TxPc /\ \A q \in Req \ {r} : req'[q] = req[q]
    BY <1>7, <2>1 DEF ConfirmRead, ReverifyRead, CallsOK, TxPc
  <2>3. QED
    BY <1>1, <1>7, <2>2 DEF ConfirmRead, ReverifyRead, NoNewTx
<1>8. ASSUME NEW r \in Req, ConfirmWrite(r) \/ ReverifyWrite(r) PROVE RowsKept /\ NoNewTx
  <2>1. req[r].step \in Step
    BY <1>8 DEF ConfirmWrite, ReverifyWrite, CallsOK, CallOK, NoStepPc
  <2>2. /\ Confirmed(steps[req[r].step]).status = steps[req[r].step].status
        /\ Started(steps[req[r].step]).status # "completed"
    BY <2>1 DEF Confirmed, Started, StepsOK, Row
  <2>3. RowsKept
    BY <1>8, <2>1, <2>2 DEF ConfirmWrite, ReverifyWrite, Update, StepsOK, RowsKept, RowKept
  <2>4. QED
    BY <1>8, <2>3, ReturnNoTx DEF ConfirmWrite, ReverifyWrite
<1>9. ASSUME NEW r \in Req, TryCount(r) PROVE RowsKept /\ NoNewTx
  BY <1>1, <1>9, GotoNoTx, ReturnNoTx DEF TryCount, ReqPc, TxPc
<1>10. ASSUME NEW r \in Req, TrySteps(r) PROVE RowsKept /\ NoNewTx
  <2>1. PICK pc \in {"finish", "tx_commit"}, d \in {"completed", "failed"},
             skip \in SUBSET Step :
           /\ req' = [req EXCEPT ![r] = Decided(req[r], pc, d, skip)]
           /\ pc = "tx_commit" <=> req[r].pc = "tx_steps"
    BY <1>10, TryStepsGo
  <2>2. /\ Decided(req[r], pc, d, skip).pc = pc
        /\ Decided(req[r], pc, d, skip).step = req[r].step
        /\ Decided(req[r], pc, d, skip).agent = req[r].agent
    BY DEF Decided, CallsOK, CallOK, Request
  <2>3. NoNewTx
    BY <2>1, <2>2 DEF NoNewTx, CallsOK, TxPc
  <2>4. QED
    BY <1>1, <1>10, <2>3 DEF TrySteps
<1>11. ASSUME NEW r \in Req, TryFinish(r) PROVE RowsKept /\ NoNewTx
  <2>1. \A s \in Step : Skipped(steps[s]).status # "completed"
    BY DEF Skipped, StepsOK, Row
  <2>2. RowsKept
    BY <1>11, <2>1 DEF TryFinish, Skip, StepsOK, RowsKept, RowKept
  <2>3. QED
    BY <1>11, <2>2, ReturnNoTx DEF TryFinish
<1>12. ASSUME NEW r \in Req, CancelBegin(r) PROVE RowsKept /\ NoNewTx
  BY <1>1, <1>12 DEF CancelBegin, NoNewTx, Idle, CallsOK, TxPc
<1>13. ASSUME NEW r \in Req, CancelCommit(r) PROVE RowsKept /\ NoNewTx
  <2>1. \A s \in Step : /\ Cancelled(steps[s]).status = "cancelled"
                        /\ Skipped(steps[s]).status # "completed"
                        /\ Skipped(Cancelled(steps[s])).status # "completed"
    BY DEF Cancelled, Skipped, StepsOK, Row
  <2>2. RowsKept
    BY <1>13, <2>1 DEF CancelCommit, Skip, CanSkip, StepsOK, RowsKept, RowKept
  <2>3. QED
    BY <1>13, <2>2, ReturnNoTx DEF CancelCommit
<1>14. ASSUME NEW c \in Req, NEW r \in Req, DeadlockAbort(c, r) PROVE RowsKept /\ NoNewTx
  BY <1>1, <1>14, ReturnNoTx DEF DeadlockAbort
<1>15. CASE Pause \/ Resume
  BY <1>1, <1>15 DEF Pause, Resume, NoNewTx
<1>16. CASE Crash
  BY <1>1, <1>16 DEF Crash, NoNewTx, Idle, TxPc
<1>17. CASE UNCHANGED vars
  BY <1>1, <1>17 DEF vars, NoNewTx
<1>18. QED
  BY <1>2, <1>3, <1>4, <1>5, <1>6, <1>7, <1>8, <1>9, <1>10, <1>11, <1>12, <1>13, <1>14, <1>15,
     <1>16, <1>17, SubmitKeepsRows, WatchdogKeepsRows
  DEF Next, Call, Continue

\* While a passing submit is in its transaction, its step is in_progress and names its
\* agent, and no other submit is in a transaction on that step.
THEOREM TransactionHolds == Spec => []TxInv
<1>1. Init => TxInv
  BY DEF Init, TxInv, Idle, TxPc
<1>2. TypeInv /\ TxInv /\ [Next]_vars => TxInv'
  <2> SUFFICES ASSUME TypeInv, TxInv, [Next]_vars PROVE TxInv'
    OBVIOUS
  <2> USE DEF TypeInv
  <2>1. \A q \in Req : req[q].pc \in TxPc => req[q].step \in Step /\ Locked(req[q].step)
    BY DEF CallsOK, CallOK, NoStepPc, TxPc, Locked
  <2>2. CASE RowsKept /\ NoNewTx
    <3> SUFFICES ASSUME NEW r \in Req, req'[r].pc \in TxPc
                 PROVE  /\ CanFinish(steps[req[r].step], req[r].agent)'
                        /\ \A q \in Req : req'[q].pc \in TxPc /\ req'[q].step = req'[r].step => q = r
      BY DEF TxInv, TxPc
    <3>1. /\ req[r].pc \in TxPc
          /\ req'[r].step = req[r].step /\ req'[r].agent = req[r].agent
      BY <2>2 DEF NoNewTx
    <3>2. steps'[req[r].step] = steps[req[r].step]
      BY <2>1, <2>2, <3>1 DEF RowsKept, RowKept
    <3>3. CanFinish(steps[req[r].step], req[r].agent)'
      BY <3>1, <3>2 DEF TxInv, CanFinish
    <3>4. \A q \in Req : req'[q].pc \in TxPc /\ req'[q].step = req'[r].step => q = r
      BY <2>2, <3>1 DEF TxInv, NoNewTx
    <3>5. QED
      BY <3>3, <3>4
  <2>3. ASSUME NEW r \in Req, SubmitPassed(r) PROVE TxInv'
    <3>1. CASE Return(r)
      BY <2>3, <3>1 DEF SubmitPassed, Return, Idle, TxInv, CallsOK, TxPc
    <3>2. CASE CanFinish(steps[req[r].step], req[r].agent) /\ Goto(r, "tx_count")
      <4>1. /\ req'[r].pc = "tx_count"
            /\ req'[r].step = req[r].step /\ req'[r].agent = req[r].agent
            /\ \A q \in Req \ {r} : req'[q] = req[q]
        BY <3>2 DEF Goto, CallsOK, CallOK, Request
      <4>2. \A q \in Req : req[q].pc \in TxPc => req[q].step # req[r].step
        BY <2>3 DEF SubmitPassed, Locked
      <4>3. steps' = steps
        BY <2>3 DEF SubmitPassed
      <4>4. QED
        BY <3>2, <4>1, <4>2, <4>3 DEF TxInv, CanFinish
    <3>3. QED
      BY <2>3, <3>1, <3>2 DEF SubmitPassed
  <2>4. ASSUME NEW r \in Req, TxCommit(r) PROVE TxInv'
    <3>1. /\ req'[r].pc = "idle"
          /\ \A q \in Req \ {r} : req'[q] = req[q]
      BY <2>4 DEF TxCommit, Return, Idle, CallsOK
    <3>2. req[r].pc \in TxPc
      BY <2>4 DEF TxCommit, TxPc
    <3>3. ASSUME NEW q \in Req \ {r}, req[q].pc \in TxPc
          PROVE  steps'[req[q].step] = steps[req[q].step]
      <4>1. req[q].step # req[r].step
        BY <3>2, <3>3 DEF TxInv
      <4>2. req[q].step \notin req[r].todo
        BY <2>1, <2>4, <3>3 DEF TxCommit
      <4>3. QED
        BY <2>1, <2>4, <3>3, <4>1, <4>2 DEF TxCommit, Skip, View, StepsOK
    <3>4. QED
      BY <3>1, <3>3 DEF TxInv, CanFinish, TxPc
  <2>5. QED
    BY <2>2, <2>3, <2>4, RowSteps
<1>3. QED
  BY <1>1, <1>2, TypeInvariant, PTL DEF Spec

\* A step becomes completed only out of the hands of the agent that runs it, whatever
\* else is going on between the check of the submit and its commit.
THEOREM OwnerCompletes == Spec => OnlyOwnerCompletes
<1> DEFINE Owned(s) == steps[s].status # "completed" /\ steps'[s].status = "completed" =>
                          /\ steps[s].status = "in_progress"
                          /\ \E r \in Req : /\ req[r].pc = "tx_commit" /\ req[r].step = s
                                             /\ req[r].agent = steps[s].agent
<1>1. TypeInv /\ TxInv /\ [Next]_vars => [\A s \in Step : Owned(s)]_vars
  <2> SUFFICES ASSUME TypeInv, TxInv, [Next]_vars, NEW s \in Step PROVE Owned(s)
    OBVIOUS
  <2> USE DEF TypeInv
  <2>1. CASE RowsKept
    BY <2>1 DEF RowsKept, RowKept
  <2>2. ASSUME NEW r \in Req, SubmitPassed(r) PROVE Owned(s)
    BY <2>2 DEF SubmitPassed
  <2>3. ASSUME NEW r \in Req, TxCommit(r) PROVE Owned(s)
    <3>1. req[r].pc = "tx_commit" /\ CanFinish(steps[req[r].step], req[r].agent)
      BY <2>3 DEF TxCommit, TxInv, TxPc
    <3>2. \A u \in Step : Skipped(View(r)[u]).status = "skipped"
      BY <2>3 DEF Skipped, View, Completed, StepsOK, Row
    <3>3. s # req[r].step => View(r)[s] = steps[s]
      BY DEF View
    <3>4. steps'[s].status = "completed" => steps'[s] = View(r)[s]
      BY <2>3, <3>2 DEF TxCommit, Skip
    <3>5. QED
      BY <3>1, <3>3, <3>4 DEF CanFinish
  <2>4. QED
    BY <2>1, <2>2, <2>3, RowSteps
<1>2. QED
  BY <1>1, TypeInvariant, TransactionHolds, PTL DEF Spec, OnlyOwnerCompletes

-----------------------------------------------------------------------------
(* Owners, with every caller but reverify, whose write is not guarded by the  *)
(* status it read: it may set a step running that was given up meanwhile.      *)
Unverified == "reverify" \notin Ops

NoReverify == \A r \in Req : req[r].pc # "reverify"

\* Also a failed, rejected or timed-out step names its agent: a retry may give it back.
Named(row) == row.status \in {"pending", "skipped", "cancelled"} \/ row.agent # NoAgent
AllNamed   == \A s \in Step : Named(steps[s])

LEMMA NamedRows ==
    ASSUME NEW row \in Row, Named(row)
    PROVE  /\ \A a \in Agent : Named(Assigned(row, a))
           /\ CanReject(row) => Named(Rejected(row))
           /\ CanRetry(row) => Named(Retried(row))
           /\ CanTimeOut(row) => Named(TimedOut(row))
           /\ CanCheckFail(row) => Named(Failed(row))
           /\ \A a \in Agent : CanStart(row, a) => Named(Started(row))
           /\ \A a : CanFinish(row, a) => Named(Failed(row)) /\ \A k : Named(Completed(row, k))
           /\ CanSkip(row) => Named(Skipped(row))
           /\ Named(ResetTo(row, ResetRetry)) /\ Named(Cancelled(row)) /\ Named(Confirmed(row))
           /\ Named(Requeued(row)) /\ Named(Reclaimed(row))
           /\ \A k : Named([row EXCEPT !.key = k])
           /\ Named([row EXCEPT !.retry = @ + 1])
BY NoAgentAssumption
DEF Named, Row, Assigned, Rejected, Retried, TimedOut, Failed, Started, Completed, Skipped, ResetTo,
    Cancelled, Confirmed, Requeued, Reclaimed, CanReject, CanRetry, CanTimeOut, CanCheckFail, CanStart,
    CanFinish, CanSkip

LEMMA UpdateNames ==
    ASSUME StepsOK, AllNamed, NEW s \in Step, NEW guard \in BOOLEAN, NEW row, Update(s, guard, row),
           guard => Named(row)
    PROVE  AllNamed'
BY DEF StepsOK, AllNamed, Update

\* Skipped steps were pending, also among the rows that a transaction sees.
LEMMA SkipNames ==
    ASSUME NEW rows \in [Step -> Row], \A s \in Step : Named(rows[s]), NEW todo, steps' = Skip(rows, todo)
    PROVE  AllNamed'
BY NamedRows DEF Skip, AllNamed

LEMMA SubmitNames ==
    ASSUME TypeInv, AllNamed, NEW r \in Req,
           \/ SubmitFailed(r) \/ FailedKey(r) \/ FailedRetry(r) \/ SubmitBadSignature(r)
           \/ SubmitSchema(r) \/ SchemaRetry(r) \/ SchemaRefund(r)
           \/ SubmitRejected(r) \/ CheckRetry(r) \/ CheckFail(r) \/ StoreKey(r) \/ ConfirmWrite(r)
    PROVE  AllNamed'
<1> USE DEF TypeInv
<1>1. req[r].step \in Step
  BY DEF SubmitFailed, FailedKey, FailedRetry, SubmitBadSignature, SubmitSchema, SchemaRetry, SchemaRefund,
     SubmitRejected, CheckRetry, CheckFail, StoreKey, ConfirmWrite, At, CallsOK, CallOK, NoStepPc
<1>2. PICK s \in Step : s = req[r].step
  BY <1>1
<1>3. steps[s] \in Row /\ Named(steps[s])
  BY DEF StepsOK, AllNamed
<1>4. CASE SubmitFailed(r)
  BY <1>2, <1>3, <1>4, NamedRows, UpdateNames DEF SubmitFailed, CanFinish
<1>5. CASE FailedKey(r) \/ StoreKey(r) \/ SubmitBadSignature(r)
  BY <1>2, <1>3, <1>5, NamedRows, UpdateNames DEF FailedKey, StoreKey, SubmitBadSignature
<1>6. CASE FailedRetry(r) \/ SchemaRetry(r) \/ CheckRetry(r)
  BY <1>2, <1>3, <1>6, NamedRows, UpdateNames DEF FailedRetry, SchemaRetry, CheckRetry, CanRetry
<1>7. CASE SubmitSchema(r) \/ SubmitRejected(r)
  BY <1>2, <1>3, <1>7, NamedRows, UpdateNames DEF SubmitSchema, SubmitRejected, CanReject
<1>8. CASE SchemaRefund(r) \/ ConfirmWrite(r)
  <2>1. Named(Confirmed(steps[s])) /\ Named([steps[s] EXCEPT !.retry = @ + 1])
    BY <1>3, NamedRows
  <2>2. CanConfirm(steps[s]) \in BOOLEAN
    BY DEF CanConfirm
  <2>3. CASE SchemaRefund(r)
    BY <1>2, <2>1, <2>3, UpdateNames DEF SchemaRefund
  <2>4. CASE ConfirmWrite(r)
    BY <1>2, <2>1, <2>2, <2>4, UpdateNames DEF ConfirmWrite
  <2>5. QED
    BY <1>8, <2>3, <2>4
<1>9. CASE CheckFail(r)
  <2>1. CanCheckFail(steps[s]) => Named(Failed(steps[s]))
    BY <1>3, NamedRows
  <2>2. CanCheckFail(steps[s]) \in BOOLEAN
    BY DEF CanCheckFail
  <2>3. QED
    BY <1>2, <1>9, <2>1, <2>2, UpdateNames DEF CheckFail
<1>10. QED
  BY <1>4, <1>5, <1>6, <1>7, <1>8, <1>9

LEMMA ContinueNames ==
    ASSUME TypeInv, TxInv, NoReverify, AllNamed, NEW r \in Req, Continue(r)
    PROVE  AllNamed'
<1> USE DEF TypeInv
<1>1. \A s \in Step : steps[s] \in Row /\ Named(steps[s])
  BY DEF StepsOK, AllNamed
<1>2. CASE NextClaim(r)
  <2>1. req[r].agent \in Agent
    BY <1>2 DEF NextClaim, CallsOK, CallOK
  <2>2. \A s \in Step : Named(Assigned(steps[s], req[r].agent))
    BY <1>1, <2>1, NamedRows
  <2>3. QED
    BY <1>2, <2>2 DEF NextClaim, Claimable, StepsOK, AllNamed
<1>3. CASE TryFinish(r)
  BY <1>1, <1>3, SkipNames DEF TryFinish, StepsOK
<1>4. CASE TxCommit(r)
  <2>1. req[r].pc \in TxPc /\ req[r].step \in Step
    BY <1>4 DEF TxCommit, TxPc, CallsOK, CallOK, NoStepPc
  <2>2. CanFinish(steps[req[r].step], req[r].agent)
    BY <2>1 DEF TxInv
  <2>3. Named(Completed(steps[req[r].step], req[r].key))
    BY <1>1, <2>1, <2>2, NamedRows
  <2>4. Completed(steps[req[r].step], req[r].key) \in Row
    BY <1>1, <2>1, CompletedRow DEF CallsOK, Request
  <2>5. View(r) \in [Step -> Row] /\ \A s \in Step : Named(View(r)[s])
    BY <1>1, <2>1, <2>3, <2>4 DEF View, StepsOK
  <2>6. QED
    BY <1>4, <2>5, SkipNames DEF TxCommit
<1>5. CASE CancelCommit(r)
  <2> DEFINE rows == [s \in Step |-> IF s \in req[r].todo /\ CanCancel(steps[s])
                                     THEN Cancelled(steps[s]) ELSE steps[s]]
             orphan == {s \in Step : \E d \in Deps[s] : rows[d].status = "cancelled"}
  <2>1. rows \in [Step -> Row] /\ \A s \in Step : Named(rows[s])
    BY <1>1, NamedRows, CancelledRow
  <2>2. steps' = Skip(rows, orphan)
    BY <1>5 DEF CancelCommit
  <2> HIDE DEF rows, orphan
  <2>3. QED
    BY <2>1, <2>2, SkipNames
<1>6. CASE SubmitPassed(r) \/ TryCount(r) \/ TrySteps(r)
  BY <1>6 DEF SubmitPassed, TryCount, TrySteps, AllNamed
<1>7. ~ReverifyWrite(r)
  BY DEF ReverifyWrite, NoReverify
<1>8. QED
  BY <1>2, <1>3, <1>4, <1>5, <1>6, <1>7, SubmitNames DEF Continue

LEMMA WatchdogNames == ASSUME TypeInv, AllNamed, Watchdog PROVE AllNamed'
<1> USE DEF TypeInv
<1>1. \A s \in Step : steps[s] \in Row /\ Named(steps[s])
  BY DEF StepsOK, AllNamed
<1>2. ASSUME NEW s \in Step, WdTimeout(s) \/ WdExpireStep(s) PROVE AllNamed'
  <2>1. CanTimeOut(steps[s]) => Named(TimedOut(steps[s]))
    BY <1>1, NamedRows
  <2>2. CanTimeOut(steps[s]) \in BOOLEAN
    BY DEF CanTimeOut
  <2>3. QED
    BY <1>2, <2>1, <2>2, UpdateNames DEF WdTimeout, WdExpireStep
<1>3. ASSUME NEW s \in Step, WdReclaim(s) PROVE AllNamed'
  BY <1>1, <1>3, NamedRows, UpdateNames DEF WdReclaim
<1>4. CASE WdRequeue
  <2>1. PICK s \in Step : s = wd.cur
    BY <1>4 DEF WdRequeue, ScanOK
  <2>2. QED
    BY <1>1, <1>4, <2>1, NamedRows, UpdateNames DEF WdRequeue
<1>5. CASE UNCHANGED steps
  BY <1>5 DEF AllNamed
<1>6. QED
  BY <1>2, <1>3, <1>4, <1>5
  DEF Watchdog, WdContinue, WdScan, WdScanUnclaimed, WdScanTask, WdError, WdExpire, WdExpireRead

LEMMA NextNames == ASSUME TypeInv, TxInv, NoReverify, AllNamed, [Next]_vars PROVE AllNamed'
<1> USE DEF TypeInv
<1>1. \A s \in Step : steps[s] \in Row /\ Named(steps[s])
  BY DEF StepsOK, AllNamed
<1>2. ASSUME NEW a \in Agent, NEW s \in Step, Assign(a, s) \/ Start(a, s) PROVE AllNamed'
  BY <1>1, <1>2, NamedRows DEF Assign, Start, StepsOK, AllNamed
<1>3. ASSUME NEW s \in Step, Reset(s) PROVE AllNamed'
  BY <1>1, <1>3, NamedRows DEF Reset, StepsOK, AllNamed
<1>4. CASE UNCHANGED steps
  BY <1>4 DEF AllNamed
<1>5. CASE Call
  BY <1>2, <1>3, <1>4, <1>5
  DEF Call, NextRead, SubmitRead, ConfirmRead, ReverifyRead, CancelBegin, Pause, Resume
<1>6. QED
  BY <1>4, <1>5, ContinueNames, WatchdogNames DEF Next, DeadlockAbort, Crash, vars

LEMMA NewUnverified ==
    ASSUME CallsOK, NoReverify, NEW r \in Req, NEW c, c.pc # "reverify", req' = [req EXCEPT ![r] = c]
    PROVE  NoReverify'
BY DEF CallsOK, NoReverify

LEMMA GotoUnverified ==
    ASSUME CallsOK, NoReverify, NEW r \in Req, NEW pc, pc # "reverify", Goto(r, pc) \/ Return(r)
    PROVE  NoReverify'
BY DEF CallsOK, CallOK, Request, NoReverify, Goto, Return, Idle

LEMMA ContinueUnverified ==
    ASSUME TypeInv, NoReverify, NEW r \in Req, Continue(r)
    PROVE  NoReverify'
<1> USE DEF TypeInv
<1>1. CASE Return(r)
  BY <1>1, GotoUnverified
<1>2. ASSUME NEW pc \in ReqPc \ {"reverify"}, Goto(r, pc) PROVE NoReverify'
  BY <1>2, GotoUnverified
<1>3. CASE req' = [req EXCEPT ![r] = [Idle EXCEPT !.pc = "count"]]
  <2>1. [Idle EXCEPT !.pc = "count"].pc # "reverify"
    BY DEF Idle
  <2>2. QED
    BY <1>3, <2>1, NewUnverified
<1>4. CASE SubmitFailed(r)
  <2>1. req[r] \in Request
    BY DEF CallsOK
  <2>2. \A n : [req[r] EXCEPT !.pc = "failed_key", !.retry = n].pc = "failed_key"
    BY <2>1 DEF Request
  <2>3. CASE ~Return(r)
    <3>1. PICK n : req' = [req EXCEPT ![r] = [req[r] EXCEPT !.pc = "failed_key", !.retry = n]]
      BY <1>4, <2>3 DEF SubmitFailed, CallsOK
    <3>2. QED
      BY <2>2, <3>1, NewUnverified
  <2>4. QED
    BY <1>1, <2>3
<1>5. CASE TrySteps(r)
  <2>1. PICK pc \in {"finish", "tx_commit"}, d \in {"completed", "failed"}, skip \in SUBSET Step :
           req' = [req EXCEPT ![r] = Decided(req[r], pc, d, skip)]
    BY <1>5, TryStepsGo
  <2>2. Decided(req[r], pc, d, skip).pc = pc
    BY DEF Decided, CallsOK, Request
  <2>3. QED
    BY <2>1, <2>2, NewUnverified
<1>6. CASE SubmitRejected(r) \/ SubmitSchema(r) \/ SchemaRetry(r) \/ SchemaRefund(r) \/ CheckRetry(r)
           \/ CheckFail(r)
  BY <1>2, <1>6
  DEF SubmitRejected, SubmitSchema, SchemaRetry, SchemaRefund, CheckRetry, CheckFail, ReqPc
<1>7. CASE SubmitPassed(r) \/ TryCount(r)
  BY <1>1, <1>2, <1>7 DEF SubmitPassed, TryCount, ReqPc, TxPc
<1>8. CASE FailedKey(r) \/ FailedRetry(r) \/ StoreKey(r)
  BY <1>1, <1>2, <1>3, <1>8 DEF FailedKey, FailedRetry, StoreKey, ReqPc
<1>9. QED
  BY <1>1, <1>4, <1>5, <1>6, <1>7, <1>8
  DEF Continue, NextClaim, SubmitBadSignature, TryFinish, TxCommit, ConfirmWrite, ReverifyWrite,
      CancelCommit

LEMMA NextUnverified == ASSUME Unverified, TypeInv, NoReverify, [Next]_vars PROVE NoReverify'
<1> USE DEF TypeInv
<1>1. CASE UNCHANGED req
  BY <1>1 DEF NoReverify
<1>2. ASSUME NEW r \in Req, NEW a \in Agent, NextRead(r, a) PROVE NoReverify'
  <2>1. [Idle EXCEPT !.pc = "next", !.agent = a].pc # "reverify"
    BY DEF Idle
  <2>2. QED
    BY <1>2, <2>1, NewUnverified DEF NextRead
<1>3. ASSUME NEW r \in Req, NEW a \in Agent, NEW s \in Step, NEW k \in Key, NEW v \in Verdict,
             SubmitRead(r, a, s, k, v)
      PROVE  NoReverify'
  <2>1. [Idle EXCEPT !.pc = "submit", !.agent = a, !.step = s, !.key = k, !.verdict = v,
                     !.retry = steps[s].retry].pc # "reverify"
    BY DEF Idle
  <2>2. QED
    BY <1>3, <2>1, NewUnverified DEF SubmitRead
<1>4. ASSUME NEW r \in Req, NEW s \in Step, ConfirmRead(r, s) PROVE NoReverify'
  <2>1. [Idle EXCEPT !.pc = "confirm", !.step = s].pc # "reverify"
    BY DEF Idle
  <2>2. QED
    BY <1>4, <2>1, NewUnverified DEF ConfirmRead
<1>5. ASSUME NEW r \in Req, CancelBegin(r) PROVE NoReverify'
  <2>1. \A todo : [Idle EXCEPT !.pc = "cancel", !.todo = todo].pc # "reverify"
    BY DEF Idle
  <2>2. QED
    BY <1>5, <2>1, NewUnverified DEF CancelBegin
<1>6. ASSUME NEW c \in Req, NEW r \in Req, DeadlockAbort(c, r) PROVE NoReverify'
  BY <1>6, GotoUnverified DEF DeadlockAbort
<1>7. CASE Crash
  BY <1>7 DEF Crash, NoReverify, Idle
<1>8. \A r \in Req, s \in Step : ~ReverifyRead(r, s)
  BY DEF ReverifyRead, Unverified
<1>9. CASE Call
  BY <1>1, <1>2, <1>3, <1>4, <1>5, <1>8, <1>9 DEF Call, Assign, Start, Reset, Pause, Resume
<1>10. CASE Watchdog
  BY <1>1, <1>10
  DEF Watchdog, WdContinue, WdScan, WdScanUnclaimed, WdScanTask, WdError, WdTimeout, WdReclaim,
      WdExpireStep, WdRequeue, WdExpire, WdExpireRead
<1>11. CASE UNCHANGED vars
  BY <1>1, <1>11 DEF vars
<1>12. QED
  BY <1>6, <1>7, <1>9, <1>10, <1>11, ContinueUnverified DEF Next

\* A step an agent works on names that agent, whatever is assigned by hand, reset by the
\* creator, taken away by scan 4, retried, refunded or cancelled in between.
THEOREM OwnersKnown == ASSUME Unverified PROVE Spec => []OwnerKnown
<1>1. Init => NoReverify /\ AllNamed
  BY DEF Init, NoReverify, AllNamed, Named, Idle, NewRow
<1>2. TypeInv /\ TxInv /\ NoReverify /\ AllNamed /\ [Next]_vars => NoReverify' /\ AllNamed'
  BY NextUnverified, NextNames
<1>3. AllNamed => OwnerKnown
  BY DEF AllNamed, Named, OwnerKnown
<1>4. QED
  BY <1>1, <1>2, <1>3, TypeInvariant, TransactionHolds, PTL DEF Spec
===============================================================================
