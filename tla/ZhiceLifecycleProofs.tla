------------------------- MODULE ZhiceLifecycleProofs -------------------------
(***************************************************************************)
(* The life of a step, for every instance without resets, reverifications,  *)
(* scan 4 and the refund of a schema failure: which passages between two     *)
(* states of its row the calls in flight and the watchdog leave to it, what  *)
(* follows from them, and, where no step is assigned by hand, that the      *)
(* engine implements TaskLifecycle.                                         *)
(***************************************************************************)
EXTENDS ZhiceSafetyProofs, ZhiceBudget

Ordinary == Ops \cap {"reset", "reverify", "reclaim"} = {} /\ "schema" \notin Verdict

\* Steps are handed out by /next alone: an assignment does not look at depends_on.
HandedOut == "assign" \notin Ops

\* None of the calls and scans that Ordinary leaves out is under way.
PlainCall(c) == /\ c.pc \notin {"schema_retry", "refund", "reverify"}
                /\ c.verdict # "schema"
CallsPlain   == \A r \in Req : PlainCall(req[r])
PlainInv     == CallsPlain /\ wd.pc # "reclaim"

LEMMA ReturnPlain == ASSUME CallsOK, CallsPlain, NEW r \in Req, Return(r) PROVE CallsPlain'
BY DEF CallsOK, CallsPlain, PlainCall, Return, Idle

LEMMA GotoPlain ==
    ASSUME CallsOK, CallsPlain, NEW r \in Req, NEW pc \in ReqPc, Goto(r, pc),
           pc \notin {"schema_retry", "refund", "reverify"}
    PROVE  CallsPlain'
BY DEF CallsOK, CallOK, CallsPlain, PlainCall, Goto, Request

LEMMA NewPlain ==
    ASSUME CallsOK, CallsPlain, NEW r \in Req, NEW c, PlainCall(c), req' = [req EXCEPT ![r] = c]
    PROVE  CallsPlain'
BY DEF CallsOK, CallsPlain

LEMMA CountPlain ==
    ASSUME CallsOK, CallsPlain, NEW r \in Req, req' = [req EXCEPT ![r] = [Idle EXCEPT !.pc = "count"]]
    PROVE  CallsPlain'
<1>1. PlainCall([Idle EXCEPT !.pc = "count"])
  BY DEF PlainCall, Idle
<1>2. QED
  BY <1>1, NewPlain

LEMMA PlainContinue ==
    ASSUME TypeInv, PlainInv, NEW r \in Req, Continue(r)
    PROVE  CallsPlain'
<1> USE DEF TypeInv, PlainInv
<1>1. PlainCall(req[r]) /\ req[r] \in Request
  BY DEF CallsPlain, CallsOK
<1>2. CASE NextClaim(r) \/ SubmitBadSignature(r) \/ TryFinish(r) \/ TxCommit(r) \/ ConfirmWrite(r)
             \/ CancelCommit(r)
  BY <1>2, ReturnPlain
  DEF NextClaim, SubmitBadSignature, TryFinish, TxCommit, ConfirmWrite, CancelCommit
<1>3. CASE SubmitRejected(r) \/ CheckRetry(r) \/ CheckFail(r)
  BY <1>3, GotoPlain DEF SubmitRejected, CheckRetry, CheckFail, ReqPc
<1>4. CASE SubmitPassed(r) \/ TryCount(r)
  BY <1>4, GotoPlain, ReturnPlain DEF SubmitPassed, TryCount, ReqPc, TxPc
<1>5. CASE FailedKey(r) \/ FailedRetry(r) \/ StoreKey(r)
  BY <1>5, GotoPlain, ReturnPlain, CountPlain DEF FailedKey, FailedRetry, StoreKey, ReqPc
<1>6. CASE SubmitFailed(r)
  BY <1>1, <1>6, ReturnPlain DEF SubmitFailed, CallsOK, CallsPlain, PlainCall, Request
<1>7. CASE TrySteps(r)
  <2>1. PICK pc \in {"finish", "tx_commit"}, d \in {"completed", "failed"}, skip \in SUBSET Step :
           req' = [req EXCEPT ![r] = Decided(req[r], pc, d, skip)]
    BY <1>7, TryStepsGo
  <2>2. PlainCall(Decided(req[r], pc, d, skip))
    BY <1>1 DEF Decided, PlainCall, Request
  <2>3. QED
    BY <2>1, <2>2, NewPlain
<1>8. CASE SubmitSchema(r) \/ SchemaRetry(r) \/ SchemaRefund(r) \/ ReverifyWrite(r)
  BY <1>1, <1>8 DEF SubmitSchema, SchemaRetry, SchemaRefund, ReverifyWrite, At, PlainCall
<1>9. QED
  BY <1>2, <1>3, <1>4, <1>5, <1>6, <1>7, <1>8 DEF Continue

LEMMA PlainCalls ==
    ASSUME Ordinary, TypeInv, PlainInv, [Next]_vars
    PROVE  CallsPlain'
<1> USE DEF TypeInv, PlainInv
<1>1. CASE UNCHANGED req
  BY <1>1 DEF CallsPlain
<1>2. ASSUME NEW r \in Req, NEW a \in Agent, NextRead(r, a) PROVE CallsPlain'
  <2>1. PlainCall([Idle EXCEPT !.pc = "next", !.agent = a])
    BY DEF PlainCall, Idle
  <2>2. QED
    BY <1>2, <2>1, NewPlain DEF NextRead
<1>3. ASSUME NEW r \in Req, NEW a \in Agent, NEW s \in Step, NEW k \in Key, NEW v \in Verdict,
             SubmitRead(r, a, s, k, v)
      PROVE  CallsPlain'
  <2>1. PlainCall([Idle EXCEPT !.pc = "submit", !.agent = a, !.step = s, !.key = k, !.verdict = v,
                               !.retry = steps[s].retry])
    BY DEF PlainCall, Idle, Ordinary
  <2>2. QED
    BY <1>3, <2>1, NewPlain DEF SubmitRead
<1>4. ASSUME NEW r \in Req, NEW s \in Step, ConfirmRead(r, s) PROVE CallsPlain'
  <2>1. PlainCall([Idle EXCEPT !.pc = "confirm", !.step = s])
    BY DEF PlainCall, Idle
  <2>2. QED
    BY <1>4, <2>1, NewPlain DEF ConfirmRead
<1>5. ASSUME NEW r \in Req, CancelBegin(r) PROVE CallsPlain'
  <2>1. \A todo : PlainCall([Idle EXCEPT !.pc = "cancel", !.todo = todo])
    BY DEF PlainCall, Idle
  <2>2. QED
    BY <1>5, <2>1, NewPlain DEF CancelBegin
<1>6. ASSUME NEW c \in Req, NEW r \in Req, DeadlockAbort(c, r) PROVE CallsPlain'
  BY <1>6, ReturnPlain DEF DeadlockAbort
<1>7. CASE Crash
  BY <1>7 DEF Crash, CallsPlain, PlainCall, Idle
<1>8. ASSUME NEW r \in Req, NEW s \in Step PROVE ~ReverifyRead(r, s)
  BY DEF ReverifyRead, Ordinary
<1>9. QED
  BY <1>1, <1>2, <1>3, <1>4, <1>5, <1>6, <1>7, <1>8, PlainContinue
  DEF Next, Call, Assign, Start, Reset, Pause, Resume, Watchdog, WdContinue, WdScan,
      WdScanUnclaimed, WdScanTask, WdError, WdTimeout, WdReclaim, WdExpireStep, WdRequeue,
      WdExpire, WdExpireRead, vars

LEMMA PlainScan ==
    ASSUME Ordinary, TypeInv, PlainInv, [Next]_vars
    PROVE  wd'.pc # "reclaim"
<1> USE DEF TypeInv, PlainInv, ScanOK, Scan
<1>1. CASE UNCHANGED wd
  BY <1>1
<1>2. CASE Watchdog
  <2>1. ~WdScanUnclaimed /\ \A s \in Step : ~WdReclaim(s)
    BY DEF Ordinary, WdScanUnclaimed, WdReclaim
  <2>2. ASSUME NEW s \in Step, WdTimeout(s) \/ WdExpireStep(s) PROVE wd'.pc # "reclaim"
    <3>1. \A pc \in {"timeout", "expire_steps"} : After(s, pc).pc # "reclaim"
      BY DEF After, WdIdle
    <3>2. [wd EXCEPT !.pc = "requeue", !.cur = s].pc # "reclaim"
      OBVIOUS
    <3>3. QED
      BY <2>2, <3>1, <3>2 DEF WdTimeout, WdExpireStep
  <2>3. CASE WdRequeue
    BY <2>3 DEF WdRequeue, After, WdIdle
  <2>4. CASE WdExpire \/ WdScanTask \/ WdError
    BY <2>4 DEF WdExpire, WdScanTask, WdError, WdIdle
  <2>5. CASE WdExpireRead
    <3>1. \A todo : [wd EXCEPT !.pc = "expire_steps", !.todo = todo].pc # "reclaim"
      OBVIOUS
    <3>2. QED
      BY <2>5, <3>1 DEF WdExpireRead, WdIdle
  <2>6. ASSUME NEW status, WdScan(status) PROVE wd'.pc # "reclaim"
    BY <2>6 DEF WdScan, WdIdle
  <2>7. QED
    BY <1>2, <2>1, <2>2, <2>3, <2>4, <2>5, <2>6 DEF Watchdog, WdContinue
<1>3. CASE Crash
  BY <1>3 DEF Crash, WdIdle
<1>4. QED
  BY <1>1, <1>2, <1>3
  DEF Next, Call, Continue, NextRead, Assign, Start, SubmitRead, Reset, ConfirmRead, ReverifyRead,
      CancelBegin, Pause, Resume, DeadlockAbort, NextClaim, SubmitFailed, FailedKey, FailedRetry,
      SubmitBadSignature, SubmitSchema, SchemaRetry, SchemaRefund, SubmitRejected, CheckRetry,
      CheckFail, StoreKey, SubmitPassed, TryCount, TrySteps, TryFinish, TxCommit, ConfirmWrite,
      ReverifyWrite, CancelCommit, vars

LEMMA PlainHolds == ASSUME Ordinary PROVE Spec => []PlainInv
<1>1. Init => PlainInv
  BY DEF Init, PlainInv, CallsPlain, PlainCall, Idle, WdIdle
<1>2. TypeInv /\ PlainInv /\ [Next]_vars => PlainInv'
  BY PlainCalls, PlainScan DEF PlainInv
<1>3. QED
  BY <1>1, <1>2, TypeInvariant, PTL DEF Spec
-----------------------------------------------------------------------------
(* The passages of a row.  Revived are the retries of a failing call and the  *)
(* requeue of the watchdog; everything else is Went or a claim.                *)
Passage(x, y) == \/ x = "pending" /\ y \in {"skipped", "cancelled"}
                 \/ x = "assigned" /\ y \in {"in_progress", "timed_out", "cancelled"}
                 \/ x = "in_progress" /\ y \in {"completed", "failed", "rejected", "timed_out",
                                                "cancelled"}
                 \/ x \in {"rejected", "timed_out"} /\ y = "failed"

Went(old, new) == /\ new.retry = old.retry /\ new.agent = old.agent
                  /\ new.status = old.status \/ Passage(old.status, new.status)

Claims(s, new) == /\ steps[s].status = "pending" /\ (HandedOut => DepsMet(s))
                  /\ new.status = "assigned" /\ new.agent \in Agent /\ new.retry = steps[s].retry

Revived(old, new) ==
    /\ old.retry > 0 /\ new.retry = old.retry - 1
    /\ \/ old.status = "failed" /\ new.status = "in_progress" /\ new.agent = old.agent
       \/ old.status \in {"failed", "rejected", "timed_out"} /\ new.status = "pending"

Calm(s) == Went(steps[s], steps'[s]) \/ Claims(s, steps'[s])
AllCalm == \A s \in Step : Calm(s)

LEMMA WentRow ==
    ASSUME NEW row \in Row, NEW k \in Key \cup {NoKey}
    PROVE  /\ Went(row, row)
           /\ row.status = "assigned" => Went(row, Started(row))
           /\ row.status = "in_progress" => Went(row, Completed(row, k))
           /\ row.status = "in_progress" => Went(row, Failed(row))
           /\ row.status = "in_progress" => Went(row, Rejected(row))
           /\ CanCheckFail(row) => Went(row, Failed(row))
           /\ CanTimeOut(row) => Went(row, TimedOut(row))
           /\ CanSkip(row) => Went(row, Skipped(row))
           /\ CanCancel(row) => Went(row, Cancelled(row))
           /\ Went(row, Confirmed(row))
           /\ Went(row, [row EXCEPT !.key = k])
BY DEF Went, Passage, Row, Started, Completed, Failed, Rejected, TimedOut, Skipped, Cancelled, Confirmed,
       CanCheckFail, CanTimeOut, CanSkip, CanCancel

LEMMA UpdateCalm ==
    ASSUME StepsOK, NEW s \in Step, NEW guard, NEW row, Update(s, guard, row),
           guard => Went(steps[s], row)
    PROVE  AllCalm
<1>1. \A u \in Step : Went(steps[u], steps[u])
  BY DEF StepsOK, Went
<1>2. QED
  BY <1>1 DEF StepsOK, Update, AllCalm, Calm

LEMMA SkipCalm ==
    ASSUME StepsOK, NEW rows, NEW todo, steps' = Skip(rows, todo),
           \A s \in Step : \/ rows[s] = steps[s]
                           \/ (~CanSkip(rows[s]) /\ Went(steps[s], rows[s]))
    PROVE  AllCalm
<1>1. \A s \in Step : Went(steps[s], steps[s]) /\ (CanSkip(steps[s]) => Went(steps[s], Skipped(steps[s])))
  BY WentRow DEF StepsOK
<1>2. QED
  BY <1>1 DEF StepsOK, Skip, AllCalm, Calm

LEMMA SameCalm == ASSUME StepsOK, UNCHANGED steps PROVE AllCalm
BY WentRow DEF StepsOK, AllCalm, Calm, Went
-----------------------------------------------------------------------------
(* Whose turn it is.  A call at one of these has rejected or failed its step   *)
(* and has yet to retry it.                                                    *)
RetryPc == {"failed_key", "failed_retry", "check_retry"}

\* Whoever is to revive a step is alone in that: the step waits in the state it was
\* left in, and the watchdog, whose requeue looks at nothing, has a retry to take.
TurnInv == /\ \A r \in Req : req[r].pc \in RetryPc =>
                /\ steps[req[r].step].status \in {"failed", "rejected"}
                /\ \A q \in Req : req[q].pc \in RetryPc /\ req[q].step = req[r].step => q = r
           /\ wd.pc = "requeue" =>
                /\ steps[wd.cur].status \in {"failed", "timed_out"}
                /\ steps[wd.cur].retry > 0
                /\ \A r \in Req : req[r].pc \in RetryPc => req[r].step # wd.cur

\* What a step may be: nobody's turn begins, or a call's, or the watchdog's; or one
\* of them takes its turn.
NoNewRetry   == \A q \in Req : req'[q].pc \in RetryPc =>
                   req[q].pc \in RetryPc /\ req'[q].step = req[q].step
NoNewRequeue == wd'.pc = "requeue" => wd.pc = "requeue" /\ wd'.cur = wd.cur
Settled      == AllCalm /\ NoNewRetry /\ NoNewRequeue

Opens(r) == /\ AllCalm /\ wd' = wd
            /\ req[r].step \in Step /\ req'[r].step = req[r].step
            /\ steps[req[r].step].status = "in_progress"
            /\ steps'[req[r].step].status \in {"failed", "rejected"}
            /\ \A q \in Req \ {r} : req'[q] = req[q]

Times(s) == /\ AllCalm /\ req' = req
            /\ wd.pc = "timeout" /\ wd'.cur = s
            /\ steps[s].status \in {"assigned", "in_progress"} /\ steps[s].retry > 0
            /\ steps'[s].status = "timed_out"

Retries(r) == /\ wd' = wd
              /\ req[r].pc \in RetryPc /\ req'[r].pc \notin RetryPc
              /\ \A q \in Req \ {r} : req'[q] = req[q]
              /\ req[r].step \in Step /\ CanRetry(steps[req[r].step])
              /\ steps' = [steps EXCEPT ![req[r].step] = Retried(steps[req[r].step])]

Requeues == /\ req' = req
            /\ wd.pc = "requeue" /\ wd'.pc # "requeue" /\ wd.cur \in Step
            /\ steps' = [steps EXCEPT ![wd.cur] = Requeued(steps[wd.cur])]

Turn == \/ Settled
        \/ \E r \in Req : Opens(r) \/ Retries(r)
        \/ \E s \in Step : Times(s)
        \/ Requeues

LEMMA GotoSettled ==
    ASSUME CallsOK, NEW r \in Req, NEW pc \in ReqPc \ RetryPc, Goto(r, pc)
    PROVE  NoNewRetry
BY DEF NoNewRetry, Goto, CallsOK, CallOK, Request

LEMMA ReturnSettled == ASSUME CallsOK, NEW r \in Req, Return(r) PROVE NoNewRetry
BY DEF NoNewRetry, Return, Idle, CallsOK, RetryPc

LEMMA NewSettled ==
    ASSUME CallsOK, NEW r \in Req, NEW c, c.pc \notin RetryPc, req' = [req EXCEPT ![r] = c]
    PROVE  NoNewRetry
BY DEF NoNewRetry, CallsOK

LEMMA CountSettled ==
    ASSUME CallsOK, NEW r \in Req, req' = [req EXCEPT ![r] = [Idle EXCEPT !.pc = "count"]]
    PROVE  NoNewRetry /\ req'[r].pc = "count" /\ \A q \in Req \ {r} : req'[q] = req[q]
<1>1. [Idle EXCEPT !.pc = "count"].pc = "count"
  BY DEF Idle
<1>2. QED
  BY <1>1, NewSettled DEF RetryPc, CallsOK

\* The statements of a submit outside of its transaction.
LEMMA SubmitTurns ==
    ASSUME TypeInv, PlainInv, NEW r \in Req,
           \/ SubmitFailed(r) \/ FailedKey(r) \/ FailedRetry(r)
           \/ SubmitBadSignature(r)
           \/ SubmitRejected(r) \/ CheckRetry(r) \/ CheckFail(r) \/ StoreKey(r)
    PROVE  Settled \/ Opens(r) \/ Retries(r)
<1> USE DEF TypeInv
<1> DEFINE s   == req[r].step
           row == steps[s]
<1>1. /\ s \in Step /\ row \in Row /\ req[r] \in Request /\ req[r].key \in Key \cup {NoKey}
      /\ wd' = wd
  BY DEF SubmitFailed, FailedKey, FailedRetry, SubmitBadSignature, SubmitRejected, CheckRetry,
     CheckFail, StoreKey, At, CallsOK, CallOK, Request, NoStepPc, StepsOK
<1>2. NoNewRequeue
  BY <1>1 DEF NoNewRequeue
<1>3. /\ row.status = "in_progress" => Went(row, Failed(row)) /\ Went(row, Rejected(row))
      /\ CanCheckFail(row) => Went(row, Failed(row))
      /\ Went(row, [row EXCEPT !.key = req[r].key])
  BY <1>1, WentRow
<1>4. Failed(row).status = "failed" /\ Rejected(row).status = "rejected"
  BY <1>1 DEF Failed, Rejected, Row
<1>5. ASSUME NEW pc \in ReqPc, Goto(r, pc)
      PROVE  /\ req'[r].pc = pc /\ req'[r].step = s
             /\ \A q \in Req \ {r} : req'[q] = req[q]
  BY <1>1, <1>5 DEF Goto, CallsOK, Request
<1>6. CASE SubmitFailed(r)
  <2>1. AllCalm
    BY <1>1, <1>3, <1>6, UpdateCalm DEF SubmitFailed, CanFinish
  <2>2. CASE CanFinish(row, req[r].agent)
    <3>1. steps'[s] = Failed(row)
      BY <1>1, <1>6, <2>2 DEF SubmitFailed, Update, StepsOK
    <3>2. req'[r].step = s /\ \A q \in Req \ {r} : req'[q] = req[q]
      BY <1>1, <1>6, <2>2 DEF SubmitFailed, CallsOK, Request
    <3>3. QED
      BY <1>1, <1>4, <2>1, <2>2, <3>1, <3>2 DEF Opens, CanFinish
  <2>3. CASE ~CanFinish(row, req[r].agent)
    BY <1>2, <1>6, <2>1, <2>3, ReturnSettled DEF SubmitFailed, Settled
  <2>4. QED
    BY <2>2, <2>3
<1>7. CASE FailedKey(r)
  <2>1. AllCalm
    BY <1>1, <1>3, <1>7, UpdateCalm DEF FailedKey
  <2>2. NoNewRetry
    BY <1>5, <1>7, CountSettled DEF FailedKey, NoNewRetry, RetryPc, ReqPc
  <2>3. QED
    BY <1>2, <2>1, <2>2 DEF Settled
<1>8. CASE FailedRetry(r) \/ CheckRetry(r)
  <2>1. /\ req[r].pc \in RetryPc /\ req'[r].pc \notin RetryPc
        /\ \A q \in Req \ {r} : req'[q] = req[q]
    <3>1. CASE FailedRetry(r) /\ CanRetry(row)
      BY <3>1 DEF FailedRetry, RetryPc, Return, Idle, CallsOK
    <3>2. CASE FailedRetry(r) /\ ~CanRetry(row)
      BY <3>2, CountSettled DEF FailedRetry, RetryPc
    <3>3. CASE CheckRetry(r)
      BY <1>5, <3>3 DEF CheckRetry, RetryPc, ReqPc
    <3>4. QED
      BY <1>8, <3>1, <3>2, <3>3
  <2>2. Update(s, CanRetry(row), Retried(row))
    BY <1>8 DEF FailedRetry, CheckRetry
  <2>3. CASE CanRetry(row)
    BY <1>1, <2>1, <2>2, <2>3 DEF Retries, Update
  <2>4. CASE ~CanRetry(row)
    <3>1. AllCalm
      BY <2>2, <2>4, SameCalm DEF Update
    <3>2. NoNewRetry
      BY <2>1 DEF NoNewRetry
    <3>3. QED
      BY <1>2, <3>1, <3>2 DEF Settled
  <2>5. QED
    BY <2>3, <2>4
<1>9. CASE SubmitBadSignature(r)
  <2>1. AllCalm
    BY <1>1, <1>3, <1>9, UpdateCalm DEF SubmitBadSignature
  <2>2. QED
    BY <1>2, <1>9, <2>1, ReturnSettled DEF SubmitBadSignature, Settled
<1>10. CASE SubmitRejected(r)
  <2>1. AllCalm
    BY <1>1, <1>3, <1>10, UpdateCalm DEF SubmitRejected, CanReject
  <2>2. CASE Goto(r, "check_fail")
    BY <1>2, <2>1, <2>2, GotoSettled DEF Settled, ReqPc, RetryPc
  <2>3. CASE Goto(r, "check_retry") /\ CanReject(row)
    <3>1. steps'[s] = Rejected(row)
      BY <1>1, <1>10, <2>3 DEF SubmitRejected, Update, StepsOK
    <3>2. req'[r].step = s /\ \A q \in Req \ {r} : req'[q] = req[q]
      BY <1>5, <2>3 DEF ReqPc
    <3>3. QED
      BY <1>1, <1>4, <2>1, <2>3, <3>1, <3>2 DEF Opens, CanReject
  <2>4. QED
    BY <1>10, <2>2, <2>3 DEF SubmitRejected
<1>11. CASE CheckFail(r)
  <2>1. AllCalm
    BY <1>1, <1>3, <1>11, UpdateCalm DEF CheckFail
  <2>2. QED
    BY <1>2, <1>11, <2>1, GotoSettled DEF CheckFail, Settled, ReqPc, RetryPc
<1>12. CASE StoreKey(r)
  <2>1. AllCalm
    BY <1>1, <1>3, <1>12, UpdateCalm DEF StoreKey
  <2>2. QED
    BY <1>2, <1>12, <2>1, CountSettled DEF StoreKey, Settled, NoNewRetry, RetryPc
<1>13. QED
  BY <1>6, <1>7, <1>8, <1>9, <1>10, <1>11, <1>12

\* The other statements of a call in flight.
LEMMA ContinueTurns ==
    ASSUME TypeInv, TxInv, PlainInv, NEW r \in Req, Continue(r)
    PROVE  Settled \/ Opens(r) \/ Retries(r)
<1> USE DEF TypeInv
<1>1. CASE NextClaim(r)
  <2>1. req[r].agent \in Agent
    BY <1>1 DEF NextClaim, CallsOK, CallOK
  <2>2. AllCalm
    <3>1. CASE UNCHANGED steps
      BY <3>1, SameCalm
    <3>2. ASSUME NEW s \in Claimable, steps' = [steps EXCEPT ![s] = Assigned(@, req[r].agent)]
          PROVE  AllCalm
      <4>1. s \in Step /\ Claims(s, Assigned(steps[s], req[r].agent))
        BY <2>1 DEF Claimable, Claims, Assigned, StepsOK, Row
      <4>2. \A u \in Step : Went(steps[u], steps[u])
        BY DEF Went, StepsOK
      <4>3. QED
        BY <3>2, <4>1, <4>2 DEF AllCalm, Calm, StepsOK
    <3>3. QED
      BY <1>1, <3>1, <3>2 DEF NextClaim
  <2>3. QED
    BY <1>1, <2>2, ReturnSettled DEF NextClaim, Settled, NoNewRequeue
<1>2. CASE SubmitPassed(r) \/ TryCount(r)
  BY <1>2, SameCalm, GotoSettled, ReturnSettled
  DEF SubmitPassed, TryCount, Settled, NoNewRequeue, ReqPc, TxPc, RetryPc
<1>3. CASE TrySteps(r)
  <2>1. PICK pc \in {"finish", "tx_commit"}, d \in {"completed", "failed"}, skip \in SUBSET Step :
           req' = [req EXCEPT ![r] = Decided(req[r], pc, d, skip)]
    BY <1>3, TryStepsGo
  <2>2. Decided(req[r], pc, d, skip).pc \notin RetryPc
    BY DEF Decided, CallsOK, Request, RetryPc
  <2>3. QED
    BY <1>3, <2>1, <2>2, SameCalm, NewSettled DEF TrySteps, Settled, NoNewRequeue
<1>4. CASE TryFinish(r)
  <2>1. AllCalm
    BY <1>4, SkipCalm DEF TryFinish
  <2>2. QED
    BY <1>4, <2>1, ReturnSettled DEF TryFinish, Settled, NoNewRequeue
<1>5. CASE TxCommit(r)
  <2>1. req[r].pc \in TxPc
    BY <1>5 DEF TxCommit, TxPc
  <2> DEFINE s == req[r].step
  <2>2. s \in Step /\ steps[s].status = "in_progress" /\ req[r].key \in Key \cup {NoKey}
    BY <2>1 DEF TxInv, CanFinish, CallsOK, CallOK, Request, TxPc, NoStepPc
  <2>3. Went(steps[s], Completed(steps[s], req[r].key)) /\ ~CanSkip(Completed(steps[s], req[r].key))
    BY <2>2, WentRow DEF StepsOK, CanSkip, Completed, Row
  <2>4. \A u \in Step : \/ View(r)[u] = steps[u]
                         \/ (~CanSkip(View(r)[u]) /\ Went(steps[u], View(r)[u]))
    <3>1. View(r) = [steps EXCEPT ![s] = Completed(steps[s], req[r].key)]
      BY <2>1, <2>2 DEF View, StepsOK
    <3>2. View(r)[s] = Completed(steps[s], req[r].key) /\ \A u \in Step \ {s} : View(r)[u] = steps[u]
      BY <2>2, <3>1 DEF StepsOK
    <3>3. ~CanSkip(View(r)[s]) /\ Went(steps[s], View(r)[s])
      BY <2>3, <3>2
    <3>4. QED
      BY <3>2, <3>3
  <2>5. AllCalm
    BY <1>5, <2>4, SkipCalm DEF TxCommit
  <2>6. QED
    BY <1>5, <2>5, ReturnSettled DEF TxCommit, Settled, NoNewRequeue
<1>6. CASE ConfirmWrite(r)
  <2>1. req[r].step \in Step
    BY <1>6 DEF ConfirmWrite, CallsOK, CallOK, NoStepPc
  <2>2. AllCalm
    BY <1>6, <2>1, WentRow, UpdateCalm DEF ConfirmWrite, StepsOK
  <2>3. QED
    BY <1>6, <2>2, ReturnSettled DEF ConfirmWrite, Settled, NoNewRequeue
<1>7. CASE CancelCommit(r)
  <2> DEFINE rows == [u \in Step |-> IF u \in req[r].todo /\ CanCancel(steps[u])
                                     THEN Cancelled(steps[u]) ELSE steps[u]]
  <2>1. \A u \in Step : /\ CanCancel(steps[u]) => Went(steps[u], Cancelled(steps[u]))
                        /\ ~CanSkip(Cancelled(steps[u]))
    BY WentRow DEF StepsOK, CanSkip, Cancelled, Row
  <2>2. \A u \in Step : rows[u] = steps[u] \/ (~CanSkip(rows[u]) /\ Went(steps[u], rows[u]))
    BY <2>1
  <2>3. \E todo : steps' = Skip(rows, todo)
    BY <1>7 DEF CancelCommit
  <2>4. AllCalm
    BY <2>2, <2>3, SkipCalm
  <2>5. QED
    BY <1>7, <2>4, ReturnSettled DEF CancelCommit, Settled, NoNewRequeue
<1>8. ~SubmitSchema(r) /\ ~SchemaRetry(r) /\ ~SchemaRefund(r) /\ ~ReverifyWrite(r)
  BY DEF PlainInv, CallsPlain, PlainCall, SubmitSchema, SchemaRetry, SchemaRefund, ReverifyWrite, At
<1>9. QED
  BY <1>1, <1>2, <1>3, <1>4, <1>5, <1>6, <1>7, <1>8, SubmitTurns DEF Continue

LEMMA WatchdogTurns ==
    ASSUME Ordinary, TypeInv, PlainInv, Watchdog
    PROVE  Settled \/ (\E s \in Step : Times(s)) \/ Requeues
<1> USE DEF TypeInv
<1>1. req' = req /\ NoNewRetry
  BY DEF NoNewRetry, Watchdog, WdContinue, WdScan, WdScanUnclaimed, WdScanTask, WdError, WdTimeout,
     WdReclaim, WdExpireStep, WdRequeue, WdExpire, WdExpireRead
<1>2. ASSUME NEW s \in Step, NEW pc, pc # "requeue" PROVE After(s, pc).pc # "requeue"
  BY <1>2 DEF After, WdIdle, ScanOK, Scan
<1>3. ASSUME NEW s \in Step, WdTimeout(s) \/ WdExpireStep(s)
      PROVE  AllCalm
  <2>1. CanTimeOut(steps[s]) => Went(steps[s], TimedOut(steps[s]))
    BY WentRow DEF StepsOK
  <2>2. QED
    BY <1>3, <2>1, UpdateCalm DEF WdTimeout, WdExpireStep
<1>4. ASSUME NEW s \in Step, WdTimeout(s) PROVE Settled \/ Times(s)
  <2>1. CASE CanTimeOut(steps[s]) /\ steps[s].retry > 0
    <3>1. wd'.cur = s
      BY <1>4, <2>1 DEF WdTimeout, ScanOK, Scan
    <3>2. steps'[s].status = "timed_out"
      BY <1>4, <2>1 DEF WdTimeout, Update, TimedOut, StepsOK, Row
    <3>3. QED
      BY <1>1, <1>3, <1>4, <2>1, <3>1, <3>2 DEF WdTimeout, Times, CanTimeOut
  <2>2. CASE ~(CanTimeOut(steps[s]) /\ steps[s].retry > 0)
    BY <1>1, <1>2, <1>3, <1>4, <2>2 DEF WdTimeout, Settled, NoNewRequeue
  <2>3. QED
    BY <2>1, <2>2
<1>5. CASE WdRequeue
  <2>1. wd.cur \in Step
    BY <1>5 DEF WdRequeue, ScanOK
  <2>2. QED
    BY <1>1, <1>2, <1>5, <2>1 DEF WdRequeue, Requeues, Update
<1>6. ASSUME NEW s \in Step, WdExpireStep(s) PROVE Settled
  BY <1>1, <1>2, <1>3, <1>6 DEF WdExpireStep, Settled, NoNewRequeue
<1>7. CASE UNCHANGED steps /\ wd'.pc # "requeue"
  BY <1>1, <1>7, SameCalm DEF Settled, NoNewRequeue
<1>8. ASSUME NEW status, WdScan(status) PROVE UNCHANGED steps /\ wd'.pc # "requeue"
  BY <1>8 DEF WdScan, WdIdle
<1>9. CASE WdScanTask \/ WdExpire \/ WdError
  BY <1>7, <1>9 DEF WdScanTask, WdExpire, WdError, WdIdle, ScanOK, Scan
<1>10. CASE WdExpireRead
  <2>1. \A open : [wd EXCEPT !.pc = "expire_steps", !.todo = open].pc # "requeue"
    BY DEF ScanOK, Scan
  <2>2. QED
    BY <1>7, <1>10, <2>1 DEF WdExpireRead, WdIdle
<1>11. ~WdScanUnclaimed /\ \A s \in Step : ~WdReclaim(s)
  BY DEF WdReclaim, WdScanUnclaimed, Ordinary, PlainInv
<1>12. QED
  BY <1>4, <1>5, <1>6, <1>7, <1>8, <1>9, <1>10, <1>11 DEF Watchdog, WdContinue

LEMMA TurnSteps == ASSUME Ordinary, TypeInv, TxInv, PlainInv, [Next]_vars PROVE Turn
<1> USE DEF TypeInv
<1>1. ASSUME UNCHANGED <<steps, wd>>, NoNewRetry PROVE Settled
  BY <1>1, SameCalm DEF Settled, NoNewRequeue
<1>2. ASSUME NEW r \in Req, NEW a \in Agent, NextRead(r, a) PROVE Settled
  <2>1. [Idle EXCEPT !.pc = "next", !.agent = a].pc \notin RetryPc
    BY DEF Idle, RetryPc
  <2>2. QED
    BY <1>1, <1>2, <2>1, NewSettled DEF NextRead
<1>3. ASSUME NEW r \in Req, NEW a \in Agent, NEW s \in Step, NEW k \in Key, NEW v \in Verdict,
             SubmitRead(r, a, s, k, v)
      PROVE  Settled
  <2>1. [Idle EXCEPT !.pc = "submit", !.agent = a, !.step = s, !.key = k, !.verdict = v,
                     !.retry = steps[s].retry].pc \notin RetryPc
    BY DEF Idle, RetryPc
  <2>2. QED
    BY <1>1, <1>3, <2>1, NewSettled DEF SubmitRead
<1>4. ASSUME NEW r \in Req, NEW s \in Step, ConfirmRead(r, s) PROVE Settled
  <2>1. [Idle EXCEPT !.pc = "confirm", !.step = s].pc \notin RetryPc
    BY DEF Idle, RetryPc
  <2>2. QED
    BY <1>1, <1>4, <2>1, NewSettled DEF ConfirmRead
<1>5. ASSUME NEW r \in Req, CancelBegin(r) PROVE Settled
  <2>1. \A todo : [Idle EXCEPT !.pc = "cancel", !.todo = todo].pc \notin RetryPc
    BY DEF Idle, RetryPc
  <2>2. QED
    BY <1>1, <1>5, <2>1, NewSettled DEF CancelBegin
<1>6. ASSUME NEW a \in Agent, NEW s \in Step, Start(a, s) PROVE Settled
  <2>1. Went(steps[s], Started(steps[s])) /\ \A u \in Step : Went(steps[u], steps[u])
    BY <1>6, WentRow DEF Start, CanStart, StepsOK
  <2>2. AllCalm
    BY <1>6, <2>1 DEF Start, AllCalm, Calm, StepsOK
  <2>3. QED
    BY <1>6, <2>2 DEF Start, Settled, NoNewRetry, NoNewRequeue
<1>7. ASSUME NEW a \in Agent, NEW s \in Step, Assign(a, s) PROVE Settled
  <2>1. Claims(s, Assigned(steps[s], a)) /\ \A u \in Step : Went(steps[u], steps[u])
    BY <1>7 DEF Assign, CanAssign, Assigned, Claims, HandedOut, Went, StepsOK, Row
  <2>2. AllCalm
    BY <1>7, <2>1 DEF Assign, AllCalm, Calm, StepsOK
  <2>3. QED
    BY <1>7, <2>2 DEF Assign, Settled, NoNewRetry, NoNewRequeue
<1>7a. /\ \A s \in Step : ~Reset(s)
       /\ \A r \in Req, s \in Step : ~ReverifyRead(r, s)
  BY DEF Reset, ReverifyRead, Ordinary
<1>8. ASSUME NEW c \in Req, NEW r \in Req, DeadlockAbort(c, r) PROVE Settled
  BY <1>1, <1>8, ReturnSettled DEF DeadlockAbort
<1>9. CASE UNCHANGED <<steps, req, wd>>
  BY <1>1, <1>9 DEF NoNewRetry, Turn
<1>10. CASE Crash
  <2>1. \A r \in Req : req'[r].pc \notin RetryPc
    BY <1>10 DEF Crash, Idle, RetryPc
  <2>2. wd'.pc # "requeue" /\ UNCHANGED steps
    BY <1>10 DEF Crash, WdIdle
  <2>3. QED
    BY <2>1, <2>2, SameCalm DEF Settled, NoNewRetry, NoNewRequeue, Turn
<1>11. ASSUME Pause \/ Resume \/ UNCHANGED vars PROVE UNCHANGED <<steps, req, wd>>
  BY <1>11 DEF Pause, Resume, vars
<1>12. CASE Call
  BY <1>2, <1>3, <1>4, <1>5, <1>6, <1>7, <1>9, <1>11, <1>12, <1>7a DEF Call, Turn
<1>13. QED
  BY <1>8, <1>9, <1>10, <1>11, <1>12, ContinueTurns, WatchdogTurns DEF Next, Turn

LEMMA TurnsKept ==
    ASSUME Ordinary, TypeInv, TxInv, PlainInv, TurnInv, [Next]_vars
    PROVE  TurnInv'
<1> USE DEF TypeInv
<1>1. \A r \in Req : req[r].pc \in RetryPc => req[r].step \in Step
  BY DEF CallsOK, CallOK, NoStepPc, RetryPc
<1>2. wd.pc = "requeue" => wd.cur \in Step
  BY DEF ScanOK
<1>3. ASSUME AllCalm, NEW s \in Step
      PROVE  /\ steps'[s].retry = steps[s].retry
             /\ steps[s].status \in {"failed", "rejected"} => steps'[s].status \in {"failed", "rejected"}
             /\ steps[s].status \in {"failed", "timed_out"} => steps'[s].status \in {"failed", "timed_out"}
  BY <1>3 DEF AllCalm, Calm, Went, Claims, Passage
<1>4. CASE Settled
  BY <1>1, <1>2, <1>3, <1>4 DEF Settled, TurnInv, NoNewRetry, NoNewRequeue
<1>5. ASSUME NEW r \in Req, Opens(r) PROVE TurnInv'
  <2>1. AllCalm /\ wd' = wd /\ \A q \in Req \ {r} : req'[q] = req[q]
    BY <1>5 DEF Opens
  <2>2. /\ \A q \in Req : req[q].pc \in RetryPc => req[q].step # req[r].step
        /\ wd.pc = "requeue" => wd.cur # req[r].step
    BY <1>5 DEF Opens, TurnInv
  <2>3. req'[r].step = req[r].step /\ steps'[req[r].step].status \in {"failed", "rejected"}
    BY <1>5 DEF Opens
  <2>4. ASSUME NEW q \in Req, req'[q].pc \in RetryPc
        PROVE  /\ steps'[req'[q].step].status \in {"failed", "rejected"}
               /\ \A p \in Req : req'[p].pc \in RetryPc /\ req'[p].step = req'[q].step => p = q
               /\ wd'.pc = "requeue" => req'[q].step # wd'.cur
    BY <1>1, <1>3, <2>1, <2>2, <2>3, <2>4 DEF TurnInv
  <2>5. wd'.pc = "requeue" => steps'[wd'.cur].status \in {"failed", "timed_out"} /\ steps'[wd'.cur].retry > 0
    BY <1>2, <1>3, <2>1 DEF TurnInv
  <2>6. QED
    BY <2>4, <2>5 DEF TurnInv
<1>6. ASSUME NEW s \in Step, Times(s) PROVE TurnInv'
  <2>1. AllCalm /\ req' = req /\ wd'.cur = s
    BY <1>6 DEF Times
  <2>2. \A q \in Req : req[q].pc \in RetryPc => req[q].step # s
    BY <1>6 DEF Times, TurnInv
  <2>3. steps'[s].status = "timed_out" /\ steps'[s].retry > 0
    BY <1>3, <1>6, <2>1 DEF Times
  <2>4. QED
    BY <1>1, <1>3, <2>1, <2>2, <2>3 DEF TurnInv
<1>7. ASSUME NEW r \in Req, Retries(r) PROVE TurnInv'
  <2>1. /\ req'[r].pc \notin RetryPc /\ req[r].pc \in RetryPc
        /\ \A q \in Req \ {r} : req'[q] = req[q]
        /\ wd' = wd
        /\ \A u \in Step \ {req[r].step} : steps'[u] = steps[u]
    BY <1>7 DEF Retries, StepsOK
  <2>2. QED
    BY <1>1, <1>2, <2>1 DEF TurnInv
<1>8. CASE Requeues
  <2>1. /\ req' = req /\ wd'.pc # "requeue" /\ wd.pc = "requeue"
        /\ \A u \in Step \ {wd.cur} : steps'[u] = steps[u]
    BY <1>8 DEF Requeues, StepsOK
  <2>2. QED
    BY <1>1, <2>1 DEF TurnInv
<1>9. QED
  BY <1>4, <1>5, <1>6, <1>7, <1>8, TurnSteps DEF Turn

\* At most one of the calls and the watchdog is about to revive a step, and the step is
\* as that one left it.
LEMMA TurnsHold == ASSUME Ordinary PROVE Spec => []TurnInv
<1>1. Init => TurnInv
  BY DEF Init, TurnInv, Idle, WdIdle, RetryPc
<1>2. TypeInv /\ TxInv /\ PlainInv /\ TurnInv /\ [Next]_vars => TurnInv'
  BY TurnsKept
<1>3. QED
  BY <1>1, <1>2, TypeInvariant, TransactionHolds, PlainHolds, PTL DEF Spec

\* Every step of the engine leaves a row in a state that its state before leads to.
LEMMA Passes ==
    ASSUME Ordinary, TypeInv, TxInv, PlainInv, TurnInv, [Next]_vars, NEW s \in Step
    PROVE  Calm(s) \/ Revived(steps[s], steps'[s])
<1> USE DEF TypeInv
<1>1. CASE AllCalm
  BY <1>1 DEF AllCalm
<1>2. Went(steps[s], steps[s])
  BY DEF Went
<1>3. ASSUME NEW r \in Req, Retries(r) PROVE Calm(s) \/ Revived(steps[s], steps'[s])
  <2>1. CASE s = req[r].step
    <3>1. steps'[s] = Retried(steps[s]) /\ CanRetry(steps[s]) /\ steps[s] \in Row
      BY <1>3, <2>1 DEF Retries, StepsOK
    <3>2. steps[s].retry - 1 \in Int
      BY <3>1 DEF Row
    <3>3. QED
      BY <3>1, <3>2 DEF Retried, CanRetry, Revived, Row
  <2>2. CASE s # req[r].step
    BY <1>2, <1>3, <2>2 DEF Retries, StepsOK, Calm
  <2>3. QED
    BY <2>1, <2>2
<1>4. CASE Requeues
  <2>1. CASE s = wd.cur
    <3>1. steps'[s] = Requeued(steps[s]) /\ steps[s] \in Row
          /\ steps[s].status \in {"failed", "timed_out"} /\ steps[s].retry > 0
      BY <1>4, <2>1 DEF Requeues, StepsOK, TurnInv
    <3>2. steps[s].retry - 1 \in Int
      BY <3>1 DEF Row
    <3>3. QED
      BY <3>1, <3>2 DEF Requeued, Revived, Row
  <2>2. CASE s # wd.cur
    BY <1>2, <1>4, <2>2 DEF Requeues, StepsOK, Calm
  <2>3. QED
    BY <2>1, <2>2
<1>5. QED
  BY <1>1, <1>3, <1>4, TurnSteps DEF Turn, Settled, Opens, Times
-----------------------------------------------------------------------------
(* What the passages leave to a row.                                          *)

\* A finished step is not reopened, whatever calls of its agents are still in flight
\* and wherever the watchdog is in its scan.
THEOREM DoneStepsKept == ASSUME Ordinary PROVE Spec => DoneStepsStay
<1>1. TypeInv /\ TxInv /\ PlainInv /\ TurnInv /\ [Next]_vars =>
         [\A s \in Step : steps[s].status \in {"completed", "skipped", "cancelled"} =>
                             steps'[s].status = steps[s].status]_vars
  BY Passes DEF Calm, Went, Claims, Passage, Revived
<1>2. QED
  BY <1>1, TypeInvariant, TransactionHolds, PlainHolds, TurnsHold, PTL DEF Spec, DoneStepsStay

\* A step that was ever claimed: its retry does not look at its dependencies again.
Touched == {"assigned", "in_progress", "completed", "failed", "rejected", "timed_out"}
MetInv  == \A s \in Step : steps[s].status \in Touched => DepsMet(s)

LEMMA MetHolds == ASSUME Ordinary, HandedOut PROVE Spec => []MetInv
<1>1. Init => MetInv
  BY DEF Init, MetInv, NewRow, Touched
<1>2. TypeInv /\ TxInv /\ PlainInv /\ TurnInv /\ MetInv /\ [Next]_vars => MetInv'
  <2> SUFFICES ASSUME TypeInv, TxInv, PlainInv, TurnInv, MetInv, [Next]_vars,
                      NEW s \in Step, steps'[s].status \in Touched
               PROVE  DepsMet(s)'
    BY DEF MetInv, Touched
  <2>1. DepsMet(s) => DepsMet(s)'
    <3>1. \A d \in Deps[s] : d \in Step
      BY DepsAssumption
    <3>2. ASSUME NEW d \in Step, steps[d].status \in DoneStatus PROVE steps'[d].status \in DoneStatus
      BY <3>2, Passes DEF Calm, Went, Claims, Passage, Revived, DoneStatus
    <3>3. QED
      BY <3>1, <3>2 DEF DepsMet
  <2>2. CASE Went(steps[s], steps'[s])
    BY <2>1, <2>2 DEF Went, Passage, Touched, MetInv
  <2>3. CASE Claims(s, steps'[s])
    BY <2>1, <2>3 DEF Claims
  <2>4. CASE Revived(steps[s], steps'[s])
    BY <2>1, <2>4 DEF Revived, Touched, MetInv
  <2>5. QED
    BY <2>2, <2>3, <2>4, Passes DEF Calm
<1>3. QED
  BY <1>1, <1>2, TypeInvariant, TransactionHolds, PlainHolds, TurnsHold, PTL DEF Spec

\* A step that is worked on or done has all its dependencies behind it, and keeps them
\* through every retry and every timeout, as long as none is assigned by hand.
THEOREM DependenciesMet == ASSUME Ordinary, HandedOut PROVE Spec => []DependenciesHold
<1>1. MetInv => DependenciesHold
  BY DEF MetInv, DependenciesHold, Touched
<1>2. QED
  BY <1>1, MetHolds, PTL

LeftInv == \A s \in Step : steps[s].retry >= 0 /\ steps[s].retry <= InitRetry[s]

LEMMA LeftHolds == ASSUME Ordinary PROVE Spec => []LeftInv
<1>1. Init => LeftInv
  BY RetryAssumption DEF Init, LeftInv, NewRow
<1>2. TypeInv /\ TxInv /\ PlainInv /\ TurnInv /\ LeftInv /\ [Next]_vars => LeftInv'
  <2> SUFFICES ASSUME TypeInv, TxInv, PlainInv, TurnInv, LeftInv, [Next]_vars, NEW s \in Step
               PROVE  steps'[s].retry >= 0 /\ steps'[s].retry <= InitRetry[s]
    BY DEF LeftInv
  <2>1. steps[s].retry \in Int /\ InitRetry[s] \in Int
    BY RetryAssumption DEF TypeInv, StepsOK, Row
  <2>2. steps'[s].retry = steps[s].retry \/ (steps[s].retry > 0 /\ steps'[s].retry = steps[s].retry - 1)
    BY Passes DEF Calm, Went, Claims, Revived
  <2>3. QED
    BY <2>1, <2>2 DEF LeftInv
<1>3. QED
  BY <1>1, <1>2, TypeInvariant, TransactionHolds, PlainHolds, TurnsHold, PTL DEF Spec

\* The retries of racing calls and of the watchdog never overdraw a step's budget,
\* although the requeue looks at nothing.
THEOREM RetriesPaid == ASSUME Ordinary PROVE Spec => []RetryNotOverdrawn
<1>1. LeftInv => RetryNotOverdrawn
  BY DEF LeftInv, RetryNotOverdrawn
<1>2. QED
  BY <1>1, LeftHolds, PTL

\* A step that waits for its next execution has paid for it already.
Owed(s) == IF steps[s].status \in {"pending", "assigned"} THEN 1 ELSE 0
PaidInv == \A s \in Step : runs[s] \in Nat /\ runs[s] + steps[s].retry + Owed(s) <= 1 + InitRetry[s]

\* The executions of a step: at most one more than it has retries at the beginning, and
\* those it has begun are paid for.
THEOREM ExecutionsBounded == ASSUME Ordinary PROVE BudgetSpec => []ExecutionsWithinBudget
<1> DEFINE bvars == <<vars, runs>>
<1>1. BudgetInit => Init /\ PaidInv
  BY RetryAssumption DEF BudgetInit, Init, PaidInv, Owed, NewRow
<1>2. [BudgetNext]_bvars => [Next]_vars
  BY DEF BudgetNext
<1>3. TypeInv /\ TxInv /\ PlainInv /\ TurnInv /\ PaidInv /\ [BudgetNext]_bvars => PaidInv'
  <2> SUFFICES ASSUME TypeInv, TxInv, PlainInv, TurnInv, PaidInv, [BudgetNext]_bvars, NEW s \in Step
               PROVE  (runs[s] \in Nat /\ runs[s] + steps[s].retry + Owed(s) <= 1 + InitRetry[s])'
    BY DEF PaidInv
  <2>1. steps[s].retry \in Int /\ InitRetry[s] \in Int /\ runs[s] \in Nat
        /\ runs[s] + steps[s].retry + Owed(s) <= 1 + InitRetry[s]
    BY RetryAssumption DEF TypeInv, StepsOK, Row, PaidInv
  <2>2. CASE UNCHANGED bvars
    BY <2>1, <2>2 DEF vars, Owed
  <2>3. CASE BudgetNext
    <3>1. runs'[s] = runs[s] + (IF Begins(s) THEN 1 ELSE 0)
      BY <2>3 DEF BudgetNext
    <3>2. Calm(s) \/ Revived(steps[s], steps'[s])
      BY <1>2, Passes
    <3>3. CASE Went(steps[s], steps'[s])
      BY <2>1, <3>1, <3>3 DEF Went, Passage, Begins, Owed
    <3>4. CASE Claims(s, steps'[s])
      BY <2>1, <3>1, <3>4 DEF Claims, Begins, Owed
    <3>5. CASE Revived(steps[s], steps'[s])
      BY <2>1, <3>1, <3>5 DEF Revived, Begins, Owed
    <3>6. QED
      BY <3>2, <3>3, <3>4, <3>5 DEF Calm
  <2>4. QED
    BY <2>2, <2>3
<1>4. TypeInv /\ PaidInv => ExecutionsWithinBudget
  <2> SUFFICES ASSUME TypeInv, PaidInv, NEW s \in Step PROVE runs[s] + steps[s].retry <= 1 + InitRetry[s]
    BY DEF ExecutionsWithinBudget
  <2>1. steps[s].retry \in Int /\ InitRetry[s] \in Int /\ runs[s] \in Nat /\ Owed(s) \in Nat
        /\ runs[s] + steps[s].retry + Owed(s) <= 1 + InitRetry[s]
    BY RetryAssumption DEF TypeInv, StepsOK, Row, PaidInv, Owed
  <2>2. QED
    BY <2>1
<1>5. BudgetSpec => Spec
  BY <1>1, <1>2, PTL DEF BudgetSpec, Spec
<1>6. QED
  BY <1>1, <1>3, <1>4, <1>5, TypeInvariant, TransactionHolds, PlainHolds, TurnsHold, PTL DEF BudgetSpec
-----------------------------------------------------------------------------
(* The end of a task.  try_complete_task counts the terminal steps and then    *)
(* reads the rows again: what it has counted must still be so.                  *)

\* What the call c sees of a step: in its transaction, its own as completed.
Seen(rows, c, s) == IF c.pc \in TxPc /\ s = c.step THEN "completed" ELSE rows[s].status

LEMMA ViewSeen ==
    ASSUME TypeInv, NEW r \in Req, NEW s \in Step
    PROVE  View(r)[s].status = Seen(steps, req[r], s)
<1>1. CASE req[r].pc \in TxPc
  <2>1. req[r].step \in Step
    BY <1>1 DEF TypeInv, CallsOK, CallOK, TxPc, NoStepPc
  <2>2. View(r) = [steps EXCEPT ![req[r].step] = Completed(steps[req[r].step], req[r].key)]
    BY <1>1, <2>1 DEF View, TypeInv, StepsOK
  <2>3. Completed(steps[req[r].step], req[r].key).status = "completed"
    BY <2>1 DEF Completed, TypeInv, StepsOK, Row
  <2>4. QED
    BY <1>1, <2>1, <2>2, <2>3 DEF Seen, TypeInv, StepsOK
<1>2. CASE req[r].pc \notin TxPc
  BY <1>2 DEF View, Seen
<1>3. QED
  BY <1>1, <1>2

SeenPc   == {"steps", "tx_steps", "finish", "tx_commit"}
Blank(c) == c.decision = "none" /\ (c.pc # "cancel" => c.todo = {})
Fresh(c) == c.pc \notin SeenPc /\ Blank(c)

\* Only what its second SELECT has shown makes a call decide.
BlankInv == \A r \in Req : req[r].pc \notin {"finish", "tx_commit"} => Blank(req[r])

\* What a call does next: it goes on as it is, begins or ends, or is in its two SELECTs.
Goes(r) == req'[r] = req[r] \/ Fresh(req'[r]) \/ TryCount(r) \/ TrySteps(r)

\* No step is put aside, and the task is not completed.
Quiets == /\ \A s \in Step : steps'[s].status \in {"skipped", "cancelled"} => steps'[s].status = steps[s].status
          /\ task' = "completed" => task = "completed"

LEMMA IdleFresh == Fresh(Idle)
BY DEF Fresh, Blank, Idle, SeenPc

LEMMA ReturnGoes == ASSUME CallsOK, NEW r \in Req, Return(r) PROVE \A q \in Req : Goes(q)
BY IdleFresh DEF CallsOK, Return, Goes

LEMMA NewGoes ==
    ASSUME CallsOK, NEW r \in Req, NEW c, Fresh(c), req' = [req EXCEPT ![r] = c]
    PROVE  \A q \in Req : Goes(q)
BY DEF CallsOK, Goes

LEMMA GotoGoes ==
    ASSUME CallsOK, BlankInv, NEW r \in Req, NEW pc \in ReqPc, Goto(r, pc), pc \notin SeenPc,
           req[r].pc \notin {"finish", "tx_commit", "cancel"}
    PROVE  \A q \in Req : Goes(q)
<1>1. /\ req'[r].pc = pc /\ req'[r].decision = req[r].decision /\ req'[r].todo = req[r].todo
      /\ \A q \in Req \ {r} : req'[q] = req[q]
  BY DEF Goto, CallsOK, Request
<1>2. Fresh(req'[r])
  BY <1>1 DEF BlankInv, Fresh, Blank
<1>3. QED
  BY <1>1, <1>2 DEF Goes

LEMMA CountGoes ==
    ASSUME CallsOK, NEW r \in Req, req' = [req EXCEPT ![r] = [Idle EXCEPT !.pc = "count"]]
    PROVE  \A q \in Req : Goes(q)
<1>1. Fresh([Idle EXCEPT !.pc = "count"])
  BY DEF Fresh, Blank, Idle, SeenPc
<1>2. QED
  BY <1>1, NewGoes

LEMMA UpdateQuiets ==
    ASSUME StepsOK, NEW s \in Step, NEW guard, NEW row, Update(s, guard, row), task' = task,
           row.status \notin {"skipped", "cancelled"} \/ row.status = steps[s].status
    PROVE  Quiets
BY DEF StepsOK, Update, Quiets

\* The statements of a submit outside of its transaction.
LEMMA SubmitEnds ==
    ASSUME TypeInv, BlankInv, NEW r \in Req,
           \/ SubmitFailed(r) \/ FailedKey(r) \/ FailedRetry(r)
           \/ SubmitBadSignature(r)
           \/ SubmitRejected(r) \/ CheckRetry(r) \/ CheckFail(r) \/ StoreKey(r)
    PROVE  Quiets /\ \A q \in Req : Goes(q)
<1> USE DEF TypeInv
<1> DEFINE s   == req[r].step
           row == steps[s]
<1>1. /\ s \in Step /\ row \in Row /\ req[r] \in Request /\ task' = task
      /\ req[r].pc \notin {"finish", "tx_commit", "cancel"}
  BY DEF SubmitFailed, FailedKey, FailedRetry, SubmitBadSignature, SubmitRejected, CheckRetry,
     CheckFail, StoreKey, At, CallsOK, CallOK, Request, NoStepPc, StepsOK
<1>2. /\ Failed(row).status = "failed" /\ Rejected(row).status = "rejected"
      /\ Retried(row).status \in {"in_progress", "pending"}
      /\ [row EXCEPT !.key = req[r].key].status = row.status
  BY <1>1 DEF Failed, Rejected, Retried, Row
<1>3. Quiets
  <2>1. CASE SubmitFailed(r) \/ CheckFail(r)
    BY <1>1, <1>2, <2>1, UpdateQuiets DEF SubmitFailed, CheckFail
  <2>2. CASE FailedKey(r) \/ SubmitBadSignature(r) \/ StoreKey(r)
    BY <1>1, <1>2, <2>2, UpdateQuiets DEF FailedKey, SubmitBadSignature, StoreKey
  <2>3. CASE FailedRetry(r) \/ CheckRetry(r)
    BY <1>1, <1>2, <2>3, UpdateQuiets DEF FailedRetry, CheckRetry
  <2>4. CASE SubmitRejected(r)
    BY <1>1, <1>2, <2>4, UpdateQuiets DEF SubmitRejected
  <2>5. QED
    BY <2>1, <2>2, <2>3, <2>4
<1>4. \A q \in Req : Goes(q)
  <2>1. CASE SubmitFailed(r)
    <3>1. CASE CanFinish(row, req[r].agent)
      <4>1. /\ req'[r].pc = "failed_key" /\ req'[r].decision = req[r].decision
            /\ req'[r].todo = req[r].todo /\ \A q \in Req \ {r} : req'[q] = req[q]
        BY <1>1, <2>1, <3>1 DEF SubmitFailed, CallsOK, Request
      <4>2. Fresh(req'[r])
        BY <1>1, <4>1 DEF BlankInv, Fresh, Blank, SeenPc
      <4>3. QED
        BY <4>1, <4>2 DEF Goes
    <3>2. QED
      BY <2>1, <3>1, ReturnGoes DEF SubmitFailed
  <2>2. CASE FailedKey(r) \/ FailedRetry(r) \/ StoreKey(r)
    BY <1>1, <2>2, GotoGoes, ReturnGoes, CountGoes DEF FailedKey, FailedRetry, StoreKey, ReqPc, SeenPc
  <2>3. CASE SubmitBadSignature(r)
    BY <2>3, ReturnGoes DEF SubmitBadSignature
  <2>4. CASE SubmitRejected(r) \/ CheckRetry(r) \/ CheckFail(r)
    BY <1>1, <2>4, GotoGoes DEF SubmitRejected, CheckRetry, CheckFail, ReqPc, SeenPc
  <2>5. QED
    BY <2>1, <2>2, <2>3, <2>4
<1>5. QED
  BY <1>3, <1>4

Closes(r) == TryFinish(r) \/ TxCommit(r) \/ CancelCommit(r)

LEMMA WatchdogEnds == ASSUME TypeInv, Watchdog PROVE Quiets /\ req' = req
<1> USE DEF TypeInv
<1>1. req' = req
  BY DEF Watchdog, WdContinue, WdScan, WdScanUnclaimed, WdScanTask, WdError, WdTimeout,
     WdReclaim, WdExpireStep, WdRequeue, WdExpire, WdExpireRead
<1>2. \A s \in Step : /\ TimedOut(steps[s]).status = "timed_out"
                      /\ Requeued(steps[s]).status = "pending"
                      /\ Reclaimed(steps[s]).status = "pending"
  BY DEF TimedOut, Requeued, Reclaimed, StepsOK, Row
<1>3. ASSUME NEW s \in Step, WdTimeout(s) \/ WdExpireStep(s) \/ WdReclaim(s) PROVE Quiets
  BY <1>2, <1>3, UpdateQuiets DEF WdTimeout, WdExpireStep, WdReclaim
<1>4. CASE WdRequeue
  <2>1. wd.cur \in Step
    BY <1>4 DEF WdRequeue, ScanOK
  <2>2. QED
    BY <1>1, <1>2, <1>4, <2>1, UpdateQuiets DEF WdRequeue
<1>5. CASE UNCHANGED steps /\ (task' = task \/ task' = "failed")
  BY <1>1, <1>5 DEF Quiets
<1>6. QED
  BY <1>1, <1>3, <1>4, <1>5
  DEF Watchdog, WdContinue, WdScan, WdScanUnclaimed, WdScanTask, WdError, WdExpire, WdExpireRead

LEMMA EndSteps ==
    ASSUME Ordinary, TypeInv, PlainInv, BlankInv, [Next]_vars
    PROVE  /\ \A q \in Req : Goes(q)
           /\ Quiets \/ \E r \in Req : Closes(r)
<1> USE DEF TypeInv
<1>1. ASSUME UNCHANGED <<task, steps>> PROVE Quiets
  BY <1>1 DEF Quiets
<1>2. ASSUME UNCHANGED req PROVE \A q \in Req : Goes(q)
  BY <1>2 DEF Goes
<1>3. ASSUME NEW r \in Req, NEW a \in Agent, NextRead(r, a) PROVE Quiets /\ \A q \in Req : Goes(q)
  <2>1. Fresh([Idle EXCEPT !.pc = "next", !.agent = a])
    BY DEF Idle, Fresh, Blank, SeenPc
  <2>2. QED
    BY <1>1, <1>3, <2>1, NewGoes DEF NextRead
<1>4. ASSUME NEW r \in Req, NEW a \in Agent, NEW s \in Step, NEW k \in Key, NEW v \in Verdict,
             SubmitRead(r, a, s, k, v)
      PROVE  Quiets /\ \A q \in Req : Goes(q)
  <2>1. Fresh([Idle EXCEPT !.pc = "submit", !.agent = a, !.step = s, !.key = k, !.verdict = v,
                           !.retry = steps[s].retry])
    BY DEF Idle, Fresh, Blank, SeenPc
  <2>2. QED
    BY <1>1, <1>4, <2>1, NewGoes DEF SubmitRead
<1>5. ASSUME NEW r \in Req, NEW s \in Step, ConfirmRead(r, s) PROVE Quiets /\ \A q \in Req : Goes(q)
  <2>1. Fresh([Idle EXCEPT !.pc = "confirm", !.step = s])
    BY DEF Idle, Fresh, Blank, SeenPc
  <2>2. QED
    BY <1>1, <1>5, <2>1, NewGoes DEF ConfirmRead
<1>6. ASSUME NEW r \in Req, CancelBegin(r) PROVE Quiets /\ \A q \in Req : Goes(q)
  <2>1. \A todo : Fresh([Idle EXCEPT !.pc = "cancel", !.todo = todo])
    BY DEF Idle, Fresh, Blank, SeenPc
  <2>2. QED
    BY <1>1, <1>6, <2>1, NewGoes DEF CancelBegin
<1>7. ASSUME NEW a \in Agent, NEW s \in Step, Start(a, s) PROVE Quiets /\ \A q \in Req : Goes(q)
  <2>1. Started(steps[s]).status = "in_progress"
    BY DEF Started, StepsOK, Row
  <2>2. Quiets
    BY <1>7, <2>1 DEF Start, Quiets, StepsOK
  <2>3. QED
    BY <1>2, <1>7, <2>2 DEF Start
<1>8. ASSUME NEW r \in Req, NextClaim(r) PROVE Quiets /\ \A q \in Req : Goes(q)
  <2>1. \A s \in Step : Assigned(steps[s], req[r].agent).status = "assigned"
    BY DEF Assigned, StepsOK, Row
  <2>2. Quiets
    BY <1>8, <2>1 DEF NextClaim, Claimable, Quiets, StepsOK
  <2>3. QED
    BY <1>8, <2>2, ReturnGoes DEF NextClaim
<1>9. ASSUME NEW r \in Req, ConfirmWrite(r) PROVE Quiets /\ \A q \in Req : Goes(q)
  <2>1. req[r].step \in Step
    BY <1>9 DEF ConfirmWrite, CallsOK, CallOK, NoStepPc
  <2>2. Confirmed(steps[req[r].step]).status = steps[req[r].step].status
    BY <2>1 DEF Confirmed, StepsOK, Row
  <2>3. QED
    BY <1>9, <2>1, <2>2, UpdateQuiets, ReturnGoes DEF ConfirmWrite
<1>10. ASSUME NEW r \in Req, SubmitPassed(r) PROVE Quiets /\ \A q \in Req : Goes(q)
  BY <1>1, <1>10, GotoGoes, ReturnGoes DEF SubmitPassed, At, ReqPc, TxPc, SeenPc
<1>11. ASSUME NEW r \in Req, TryCount(r) \/ TrySteps(r) PROVE Quiets /\ \A q \in Req : Goes(q)
  <2>1. \A q \in Req \ {r} : req'[q] = req[q]
    BY <1>11 DEF TryCount, TrySteps, Goto, Return, CallsOK
  <2>2. Quiets
    BY <1>1, <1>11 DEF TryCount, TrySteps
  <2>3. QED
    BY <1>11, <2>1, <2>2 DEF Goes
<1>12. ASSUME NEW r \in Req, Closes(r) PROVE \A q \in Req : Goes(q)
  BY <1>12, ReturnGoes DEF Closes, TryFinish, TxCommit, CancelCommit
<1>13. ASSUME NEW c \in Req, NEW r \in Req, DeadlockAbort(c, r) PROVE Quiets /\ \A q \in Req : Goes(q)
  BY <1>1, <1>13, ReturnGoes DEF DeadlockAbort
<1>14. CASE Pause \/ Resume
  BY <1>2, <1>14 DEF Pause, Resume, Quiets
<1>15. CASE Crash
  BY <1>1, <1>15, IdleFresh DEF Crash, Goes
<1>16. CASE UNCHANGED vars
  BY <1>1, <1>2, <1>16 DEF vars
<1>17. ASSUME NEW a \in Agent, NEW s \in Step, Assign(a, s) PROVE Quiets /\ \A q \in Req : Goes(q)
  <2>1. Assigned(steps[s], a).status = "assigned"
    BY DEF Assigned, StepsOK, Row
  <2>2. Quiets
    BY <1>17, <2>1 DEF Assign, Quiets, StepsOK
  <2>3. QED
    BY <1>2, <1>17, <2>2 DEF Assign
<1>17a. /\ \A s \in Step : ~Reset(s)
       /\ \A r \in Req, s \in Step : ~ReverifyRead(r, s)
  BY DEF Reset, ReverifyRead, Ordinary
<1>18. CASE Call
  BY <1>3, <1>4, <1>5, <1>6, <1>7, <1>14, <1>17, <1>18, <1>17a DEF Call
<1>19. ASSUME NEW r \in Req, Continue(r)
       PROVE  (\A q \in Req : Goes(q)) /\ (Quiets \/ Closes(r))
  <2>1. ~SubmitSchema(r) /\ ~SchemaRetry(r) /\ ~SchemaRefund(r) /\ ~ReverifyWrite(r)
    BY DEF PlainInv, CallsPlain, PlainCall, SubmitSchema, SchemaRetry, SchemaRefund, ReverifyWrite, At
  <2>2. QED
    BY <1>8, <1>9, <1>10, <1>11, <1>12, <1>19, <2>1, SubmitEnds DEF Continue, Closes
<1>20. CASE Watchdog
  BY <1>2, <1>20, WatchdogEnds
<1>21. QED
  BY <1>13, <1>15, <1>16, <1>18, <1>19, <1>20 DEF Next

LEMMA BlankHolds == ASSUME Ordinary PROVE Spec => []BlankInv
<1>1. Init => BlankInv
  BY DEF Init, BlankInv, Blank, Idle
<1>2. TypeInv /\ PlainInv /\ BlankInv /\ [Next]_vars => BlankInv'
  <2> SUFFICES ASSUME TypeInv, PlainInv, BlankInv, [Next]_vars, NEW r \in Req,
                      req'[r].pc \notin {"finish", "tx_commit"}
               PROVE  Blank(req'[r])
    BY DEF BlankInv, Blank
  <2>1. CASE req'[r] = req[r] \/ Fresh(req'[r])
    BY <2>1 DEF BlankInv, Fresh
  <2>2. CASE TryCount(r)
    <3>1. req[r].pc \in {"count", "tx_count"} /\ Blank(req[r])
      BY <2>2 DEF TryCount, BlankInv
    <3>2. CASE Return(r)
      BY <3>2, IdleFresh DEF Return, Fresh, TypeInv, CallsOK
    <3>3. ASSUME NEW pc \in {"steps", "tx_steps", "tx_commit"}, Goto(r, pc) PROVE Blank(req'[r])
      BY <3>1, <3>3 DEF Goto, Blank, TypeInv, CallsOK, Request
    <3>4. QED
      BY <2>2, <3>2, <3>3 DEF TryCount
  <2>3. CASE TrySteps(r)
    <3>1. PICK pc \in {"finish", "tx_commit"}, d \in {"completed", "failed"}, skip \in SUBSET Step :
             req' = [req EXCEPT ![r] = Decided(req[r], pc, d, skip)]
      BY <2>3, TryStepsGo
    <3>2. req'[r].pc = pc
      BY <3>1 DEF Decided, TypeInv, CallsOK, Request
    <3>3. QED
      BY <3>2
  <2>4. QED
    BY <2>1, <2>2, <2>3, EndSteps DEF Goes
<1>3. QED
  BY <1>1, <1>2, TypeInvariant, PlainHolds, PTL DEF Spec

\* What the second SELECT of try_complete_task has shown the call that decides.
LEMMA TryStepsSee ==
    ASSUME TypeInv, NEW r \in Req, TrySteps(r)
    PROVE  \E pc \in {"finish", "tx_commit"}, d \in {"completed", "failed"}, skip \in SUBSET Step :
             /\ req' = [req EXCEPT ![r] = Decided(req[r], pc, d, skip)]
             /\ pc = "tx_commit" <=> req[r].pc = "tx_steps"
             /\ d = "completed" => \A s \in Step : Seen(steps, req[r], s) # "failed"
             /\ \A s \in skip : Seen(steps, req[r], s) = "pending"
<1> DEFINE failed   == {s \in Step : View(r)[s].status = "failed"}
           orphaned == {s \in Step : /\ View(r)[s].status = "pending"
                                     /\ Deps[s] \cap failed # {}}
           pc       == IF req[r].pc = "steps" THEN "finish" ELSE "tx_commit"
<1>1. PICK accepted : req' = [req EXCEPT ![r] =
         Decided(req[r], pc, IF failed = {} /\ accepted THEN "completed" ELSE "failed", orphaned)]
  BY DEF TrySteps, Decided
<1>2. pc = "tx_commit" <=> req[r].pc = "tx_steps"
  BY DEF TrySteps
<1>3. failed = {} => \A s \in Step : Seen(steps, req[r], s) # "failed"
  BY ViewSeen
<1>4. orphaned \in SUBSET Step /\ \A s \in orphaned : Seen(steps, req[r], s) = "pending"
  BY ViewSeen
<1> HIDE DEF failed, orphaned, pc
<1>5. pc \in {"finish", "tx_commit"}
  BY DEF pc
<1>6. CASE failed = {} /\ accepted
  BY <1>1, <1>2, <1>3, <1>4, <1>5, <1>6
<1>7. CASE ~(failed = {} /\ accepted)
  BY <1>1, <1>2, <1>4, <1>5, <1>7
<1>8. QED
  BY <1>6, <1>7

\* What the end of a task writes.
LEMMA FinishRows ==
    ASSUME TypeInv, NEW r \in Req, TryFinish(r) \/ TxCommit(r), NEW s \in Step
    PROVE  \/ steps'[s].status = Seen(steps, req[r], s)
           \/ s \in req[r].todo /\ steps'[s].status = "skipped"
<1>1. steps' = Skip(View(r), req[r].todo)
  BY DEF TryFinish, TxCommit, View, TxPc
<1>2. View(r)[s] \in Row
  BY CompletedRow DEF View, TypeInv, StepsOK, CallsOK, CallOK, Request
<1>3. Skipped(View(r)[s]).status = "skipped"
  BY <1>2 DEF Skipped, Row
<1>4. QED
  BY <1>1, <1>3, ViewSeen DEF Skip

\* A task of which only such steps may be retried as others wait for.
Followed == \A s \in Step : InitRetry[s] > 0 => \E u \in Step : s \in Deps[u]

\* A call that has counted all steps as terminal still sees them so, will put none aside,
\* and completes the task only over done ones.
Over(r) == /\ req[r].pc \in {"steps", "tx_steps", "finish"} \/ req[r].decision # "none" =>
                 \A s \in Step : Seen(steps, req[r], s) \in StepTerminal
           /\ req[r].pc # "cancel" => req[r].todo = {}
           /\ req[r].decision = "completed" =>
                 \A s \in Step : Seen(steps, req[r], s) \in DoneStatus

EndInv == /\ \A s \in Step : steps[s].status = "skipped" => task \in TaskTerminal
          /\ \A s \in Step : steps[s].status = "cancelled" => task = "cancelled"
          /\ task \notin TaskTerminal => \A r \in Req : Over(r)
          /\ CompletedTaskIsDone

LEMMA TerminalStays ==
    ASSUME TypeInv, CancelInv, [Next]_vars, task \in TaskTerminal
    PROVE  task' = task
<1>1. ASSUME NEW r \in Req PROVE ~CancelBegin(r) /\ ~CancelCommit(r)
  BY DEF CancelBegin, CancelCommit, CancelInv
<1>2. QED
  BY <1>1, TaskSteps DEF Quiet, TaskWrite

\* A counted step is not revived: its retries would have a step wait for it that is
\* not terminal either.
LEMMA CountedStay ==
    ASSUME Ordinary, HandedOut, Followed, TypeInv, TxInv, PlainInv, TurnInv, MetInv, LeftInv, EndInv,
           [Next]_vars, task \notin TaskTerminal, NEW r \in Req, NEW s \in Step,
           \A u \in Step : Seen(steps, req[r], u) \in StepTerminal
    PROVE  Seen(steps', req[r], s) = Seen(steps, req[r], s)
<1>1. CASE req[r].pc \in TxPc /\ s = req[r].step
  BY <1>1 DEF Seen
<1>2. CASE ~(req[r].pc \in TxPc /\ s = req[r].step)
  <2>1. steps[s].status \in StepTerminal
    BY <1>2 DEF Seen
  <2>2. ASSUME Revived(steps[s], steps'[s]) PROVE FALSE
    <3>1. steps[s].status = "failed" /\ steps[s].retry > 0
      BY <2>1, <2>2 DEF Revived, StepTerminal
    <3>2. InitRetry[s] > 0
      BY <3>1, RetryAssumption DEF LeftInv, TypeInv, StepsOK, Row
    <3>3. PICK u \in Step : s \in Deps[u]
      BY <3>2 DEF Followed
    <3>4. steps[u].status \notin Touched
      BY <3>1, <3>3 DEF MetInv, DepsMet, DoneStatus
    <3>5. CASE req[r].pc \in TxPc /\ u = req[r].step
      BY <3>4, <3>5 DEF TxInv, CanFinish, Touched
    <3>6. CASE ~(req[r].pc \in TxPc /\ u = req[r].step)
      <4>1. steps[u].status \in {"skipped", "cancelled"}
        BY <3>4, <3>6 DEF Seen, StepTerminal, Touched
      <4>2. QED
        BY <4>1 DEF EndInv, TaskTerminal
    <3>7. QED
      BY <3>5, <3>6
  <2>3. steps'[s].status = steps[s].status
    BY <2>1, <2>2, Passes DEF Calm, Went, Claims, Passage, StepTerminal
  <2>4. QED
    BY <1>2, <2>3 DEF Seen
<1>3. QED
  BY <1>1, <1>2

LEMMA OverKept ==
    ASSUME Ordinary, HandedOut, Followed, TypeInv, TxInv, PlainInv, TurnInv, MetInv, LeftInv, CancelInv,
           BlankInv, EndInv, [Next]_vars, task' \notin TaskTerminal, NEW r \in Req
    PROVE  Over(r)'
<1>1. task \notin TaskTerminal
  BY TerminalStays
<1>2. Over(r)
  BY <1>1 DEF EndInv
<1>3. CASE req'[r] = req[r]
  <2>1. (req[r].pc \in {"steps", "tx_steps", "finish"} \/ req[r].decision # "none") =>
           \A s \in Step : Seen(steps, req[r], s) \in StepTerminal
                          /\ Seen(steps', req[r], s) = Seen(steps, req[r], s)
    BY <1>1, <1>2, CountedStay DEF Over
  <2>2. QED
    BY <1>2, <1>3, <2>1 DEF Over
<1>4. CASE Fresh(req'[r])
  BY <1>4 DEF Fresh, Blank, Over, SeenPc
<1>5. CASE TryCount(r)
  <2>1. req[r].pc \in {"count", "tx_count"} /\ Blank(req[r]) /\ steps' = steps
    BY <1>5 DEF TryCount, BlankInv
  <2>2. CASE Return(r)
    <3>1. req'[r] = Idle
      BY <2>2 DEF Return, TypeInv, CallsOK
    <3>2. QED
      BY <3>1 DEF Over, Idle
  <2>3. ASSUME NEW pc \in {"steps", "tx_steps", "tx_commit"}, Goto(r, pc)
        PROVE  /\ req'[r].pc = pc /\ req'[r].step = req[r].step
               /\ req'[r].decision = "none" /\ req'[r].todo = {}
    BY <2>1, <2>3 DEF Goto, Blank, TypeInv, CallsOK, Request
  <2>4. CASE Goto(r, "tx_commit")
    BY <2>3, <2>4 DEF Over
  <2>5. CASE /\ AllTerminal(View(r))
             /\ Goto(r, IF req[r].pc = "count" THEN "steps" ELSE "tx_steps")
    <3>1. \A s \in Step : Seen(steps, req[r], s) \in StepTerminal
      BY <2>5, ViewSeen DEF AllTerminal
    <3>2. CASE req[r].pc = "count"
      <4>1. req'[r].pc = "steps" /\ req'[r].decision = "none" /\ req'[r].todo = {}
        BY <2>3, <2>5, <3>2
      <4>2. \A s \in Step : Seen(steps', req'[r], s) = Seen(steps, req[r], s)
        BY <2>1, <3>2, <4>1 DEF Seen, TxPc
      <4>3. QED
        BY <3>1, <4>1, <4>2 DEF Over
    <3>3. CASE req[r].pc = "tx_count"
      <4>1. /\ req'[r].pc = "tx_steps" /\ req'[r].decision = "none" /\ req'[r].todo = {}
            /\ req'[r].step = req[r].step
        BY <2>3, <2>5, <3>3
      <4>2. \A s \in Step : Seen(steps', req'[r], s) = Seen(steps, req[r], s)
        BY <2>1, <3>3, <4>1 DEF Seen, TxPc
      <4>3. QED
        BY <3>1, <4>1, <4>2 DEF Over
    <3>4. QED
      BY <2>1, <3>2, <3>3
  <2>6. QED
    BY <1>5, <2>2, <2>4, <2>5 DEF TryCount
<1>6. CASE TrySteps(r)
  <2>1. PICK pc \in {"finish", "tx_commit"}, d \in {"completed", "failed"}, skip \in SUBSET Step :
           /\ req' = [req EXCEPT ![r] = Decided(req[r], pc, d, skip)]
           /\ pc = "tx_commit" <=> req[r].pc = "tx_steps"
           /\ d = "completed" => \A s \in Step : Seen(steps, req[r], s) # "failed"
           /\ \A s \in skip : Seen(steps, req[r], s) = "pending"
    BY <1>6, TryStepsSee
  <2>2. req[r].pc \in {"steps", "tx_steps"} /\ steps' = steps
    BY <1>6 DEF TrySteps
  <2>3. /\ req'[r].pc = pc /\ req'[r].step = req[r].step
        /\ req'[r].decision = d /\ req'[r].todo = skip
    BY <2>1 DEF Decided, TypeInv, CallsOK, Request
  <2>4. \A s \in Step : Seen(steps, req[r], s) \in StepTerminal
    BY <1>2, <2>2 DEF Over
  <2>5. \A s \in Step : Seen(steps', req'[r], s) = Seen(steps, req[r], s)
    BY <2>1, <2>2, <2>3 DEF Seen, TxPc
  <2>6. skip = {}
    BY <2>1, <2>4 DEF StepTerminal
  <2>7. \A s \in Step : Seen(steps, req[r], s) # "cancelled"
    BY <1>1 DEF Seen, EndInv, TaskTerminal
  <2>8. d = "completed" => \A s \in Step : Seen(steps, req[r], s) \in DoneStatus
    BY <2>1, <2>4, <2>7 DEF StepTerminal, DoneStatus
  <2>9. QED
    BY <2>3, <2>4, <2>5, <2>6, <2>8 DEF Over
<1>7. QED
  BY <1>3, <1>4, <1>5, <1>6, EndSteps DEF Goes

LEMMA EndKept ==
    ASSUME Ordinary, HandedOut, Followed, TypeInv, TxInv, PlainInv, TurnInv, MetInv, LeftInv, CancelInv,
           BlankInv, EndInv, [Next]_vars
    PROVE  EndInv'
<1>1. task' \notin TaskTerminal => \A r \in Req : Over(r)'
  BY OverKept
<1>2. task \in TaskTerminal => task' = task
  BY TerminalStays
<1>3. ASSUME NEW r \in Req, TryFinish(r) \/ TxCommit(r)
      PROVE  /\ task' = task \/ (task = "running" /\ task' = req[r].decision /\ req[r].decision # "none")
             /\ \A s \in Step : /\ steps'[s].status = "cancelled" => steps[s].status = "cancelled"
                                /\ steps'[s].status = "skipped" =>
                                      task \in TaskTerminal \/ steps[s].status = "skipped"
             /\ task' = "completed" /\ task # "completed" =>
                    \A s \in Step : steps'[s].status \in DoneStatus
  <2>1. task' = task \/ (task = "running" /\ task' = req[r].decision /\ req[r].decision # "none")
    BY <1>3 DEF TryFinish, TxCommit, Outcome
  <2>2. req[r].pc # "cancel"
    BY <1>3 DEF TryFinish, TxCommit
  <2>3. task \notin TaskTerminal => \A s \in Step : steps'[s].status = Seen(steps, req[r], s)
    BY <1>3, <2>2, FinishRows DEF EndInv, Over
  <2>4. \A s \in Step : steps'[s].status = Seen(steps, req[r], s) \/ steps'[s].status = "skipped"
    BY <1>3, FinishRows
  <2>5. \A s \in Step : Seen(steps, req[r], s) \in {steps[s].status, "completed"}
    BY DEF Seen
  <2>6. ASSUME task' = "completed", task # "completed" PROVE \A s \in Step : steps'[s].status \in DoneStatus
    <3>1. task \notin TaskTerminal /\ req[r].decision = "completed"
      BY <2>1, <2>6 DEF TaskTerminal
    <3>2. QED
      BY <2>3, <3>1 DEF EndInv, Over
  <2>7. QED
    BY <2>1, <2>3, <2>4, <2>5, <2>6
<1>4. ASSUME NEW s \in Step, steps'[s].status = "skipped" PROVE task' \in TaskTerminal
  <2>1. CASE Quiets
    BY <1>2, <1>4, <2>1 DEF Quiets, EndInv
  <2>2. ASSUME NEW r \in Req, TryFinish(r) \/ TxCommit(r) PROVE task' \in TaskTerminal
    BY <1>2, <1>3, <1>4, <2>2 DEF EndInv
  <2>3. ASSUME NEW r \in Req, CancelCommit(r) PROVE task' \in TaskTerminal
    BY <2>3 DEF CancelCommit, TaskTerminal
  <2>4. QED
    BY <2>1, <2>2, <2>3, EndSteps DEF Closes
<1>5. ASSUME NEW s \in Step, steps'[s].status = "cancelled" PROVE task' = "cancelled"
  <2>1. steps[s].status = "cancelled" => task' = "cancelled"
    BY <1>2 DEF EndInv, TaskTerminal
  <2>2. CASE Quiets
    BY <1>5, <2>1, <2>2 DEF Quiets
  <2>3. ASSUME NEW r \in Req, TryFinish(r) \/ TxCommit(r) PROVE task' = "cancelled"
    BY <1>3, <1>5, <2>1, <2>3
  <2>4. ASSUME NEW r \in Req, CancelCommit(r) PROVE task' = "cancelled"
    BY <2>4 DEF CancelCommit
  <2>5. QED
    BY <2>2, <2>3, <2>4, EndSteps DEF Closes
<1>6. ASSUME task' = "completed" PROVE \A s \in Step : steps'[s].status \in DoneStatus
  <2>1. CASE task = "completed"
    BY <2>1, Passes DEF EndInv, CompletedTaskIsDone, Calm, Went, Claims, Passage, Revived, DoneStatus
  <2>2. CASE task # "completed"
    <3>1. PICK r \in Req : Closes(r)
      BY <1>6, <2>2, EndSteps DEF Quiets
    <3>2. ~CancelCommit(r)
      BY <1>6 DEF CancelCommit
    <3>3. QED
      BY <1>3, <1>6, <2>2, <3>1, <3>2 DEF Closes
  <2>3. QED
    BY <2>1, <2>2
<1>7. QED
  BY <1>1, <1>4, <1>5, <1>6 DEF EndInv, CompletedTaskIsDone

\* While a task is open, no step is skipped or cancelled and no call counts what may change.
LEMMA EndHolds == ASSUME Ordinary, HandedOut, Followed PROVE Spec => []EndInv
<1>1. Init => EndInv
  BY DEF Init, EndInv, NewRow, Over, Idle, CompletedTaskIsDone
<1>2. TypeInv /\ TxInv /\ PlainInv /\ TurnInv /\ MetInv /\ LeftInv /\ CancelInv /\ BlankInv /\ EndInv
         /\ [Next]_vars => EndInv'
  BY EndKept
<1>3. QED
  BY <1>1, <1>2, TypeInvariant, TransactionHolds, PlainHolds, TurnsHold, MetHolds, LeftHolds,
     CancelExclusive, BlankHolds, PTL DEF Spec

\* A task is reported completed only over steps that are all done, provided that a step
\* with retries has another one waiting for it.  Without that it is not so: the step may
\* be revived between the two SELECTs of try_complete_task.
THEOREM CompletedOverDone == ASSUME Ordinary, HandedOut, Followed PROVE Spec => []CompletedTaskIsDone
<1>1. EndInv => CompletedTaskIsDone
  BY DEF EndInv
<1>2. QED
  BY <1>1, EndHolds, PTL
-----------------------------------------------------------------------------
(* The refinement of TaskLifecycle.                                            *)

\* A move of one step, as TaskLifecycle sees it.
Lives(s) == \/ Lifecycle!Give(s) \/ Lifecycle!Begin(s) \/ Lifecycle!Finish(s) \/ Lifecycle!Miss(s)
            \/ Lifecycle!TryAgain(s) \/ Lifecycle!Close(s) \/ Lifecycle!Stay(s)

\* What TaskLifecycle reads of a step is what the row says.
LEMMA StageReads ==
    ASSUME NEW s \in Step
    PROVE  /\ [u \in Step |-> Stage(steps[u].status)][s] = Stage(steps[s].status)
           /\ [u \in Step |-> HolderOf(steps[u])][s] = HolderOf(steps[s])
           /\ [u \in Step |-> steps[u].retry][s] = steps[s].retry
OBVIOUS

LEMMA WentLives ==
    ASSUME StepsOK, StepsOK', NEW s \in Step, Went(steps[s], steps'[s]),
           steps'[s].status = "skipped" => task' \in TaskTerminal,
           steps'[s].status = "cancelled" => task' = "cancelled"
    PROVE  Lives(s)
<1> DEFINE old == steps[s]
           new == steps'[s]
<1>1. new.retry = old.retry /\ new.agent = old.agent
  BY DEF Went
<1>2. CASE Stage(new.status) = Stage(old.status)
  <2>1. HolderOf(new) = HolderOf(old)
    BY <1>1, <1>2 DEF Stage, HolderOf, StepsOK, Row, StepStatus
  <2> QED BY <1>1, <1>2, <2>1 DEF Lives, Lifecycle!Stay, Lifecycle!Keeps
<1>3. CASE old.status = "pending" /\ new.status \in {"skipped", "cancelled"}
  <2>1. HolderOf(new) = NoAgent
    BY <1>3 DEF HolderOf
  <2> QED BY <1>1, <1>3, <2>1 DEF Lives, Lifecycle!Close, Stage, TaskTerminal
<1>4. CASE old.status \in {"assigned", "in_progress"} /\ new.status = "cancelled"
  <2>1. HolderOf(new) = NoAgent
    BY <1>4 DEF HolderOf
  <2> QED BY <1>1, <1>4, <2>1 DEF Lives, Lifecycle!Close, Stage, TaskTerminal
<1>5. CASE /\ old.status \in {"assigned", "in_progress"}
           /\ new.status \in {"in_progress", "completed", "failed", "rejected", "timed_out"}
           /\ Passage(old.status, new.status)
  <2>1. HolderOf(new) = HolderOf(old)
    BY <1>1, <1>5 DEF HolderOf
  <2> QED BY <1>1, <1>5, <2>1 DEF Passage, Lives, Lifecycle!Begin, Lifecycle!Finish, Lifecycle!Miss,
          Lifecycle!Keeps, Stage
<1> QED BY <1>2, <1>3, <1>4, <1>5 DEF Went, Passage, Stage

LEMMA ClaimLives ==
    ASSUME HandedOut, StepsOK, StepsOK', NEW s \in Step, Claims(s, steps'[s])
    PROVE  Lives(s)
<1>1. Stage(steps[s].status) = "pending" /\ Stage(steps'[s].status) = "assigned"
  BY DEF Claims, Stage
<1>2. HolderOf(steps'[s]) \in Agent /\ steps'[s].retry = steps[s].retry
  BY DEF Claims, HolderOf
<1>3. \A d \in Deps[s] : d \in Step /\ Stage(steps[d].status) \in {"completed", "skipped"}
  BY DepsAssumption DEF Claims, DepsMet, DoneStatus, Stage
<1> QED BY <1>1, <1>2, <1>3 DEF Lives, Lifecycle!Give, Lifecycle!Finished

LEMMA RevivedLives ==
    ASSUME StepsOK, StepsOK', NEW s \in Step, Revived(steps[s], steps'[s])
    PROVE  Lives(s)
<1>1. /\ steps[s].retry > 0 /\ steps'[s].retry = steps[s].retry - 1
      /\ Stage(steps[s].status) = "missed"
  BY DEF Revived, Stage
<1>2. \/ Stage(steps'[s].status) = "in_progress" /\ HolderOf(steps'[s]) = HolderOf(steps[s])
      \/ Stage(steps'[s].status) = "pending" /\ HolderOf(steps'[s]) = NoAgent
  BY DEF Revived, Stage, HolderOf
<1> QED BY <1>1, <1>2 DEF Lives, Lifecycle!TryAgain

LEMMA TaskLives ==
    ASSUME TypeInv, CancelInv, EndInv', TypeInv', [Next]_vars
    PROVE  LET outcome == IF task \in TaskTerminal THEN task ELSE "open" IN
           outcome' = outcome \/ Lifecycle!End
<1>1. CASE task \in TaskTerminal
  BY <1>1, TerminalStays
<1>2. CASE task \notin TaskTerminal /\ task' \in TaskTerminal
  <2>1. task' = "completed" => \A s \in Step : Stage(steps'[s].status) \in {"completed", "skipped"}
    BY DEF EndInv, CompletedTaskIsDone, Stage, DoneStatus
  <2> QED BY <1>2, <2>1 DEF Lifecycle!End, Lifecycle!Finished, TaskTerminal
<1>3. CASE task \notin TaskTerminal /\ task' \notin TaskTerminal
  BY <1>3
<1> QED BY <1>1, <1>2, <1>3

LEMMA NextLives ==
    ASSUME Ordinary, HandedOut, TypeInv, TxInv, PlainInv, TurnInv, CancelInv,
           TypeInv', LeftInv', EndInv', [Next]_vars
    PROVE  Lifecycle!Next
<1> USE DEF TypeInv
<1>1. ASSUME NEW s \in Step PROVE Lives(s)
  <2>1. /\ steps'[s].status = "skipped" => task' \in TaskTerminal
        /\ steps'[s].status = "cancelled" => task' = "cancelled"
    BY DEF EndInv
  <2> QED BY <2>1, Passes, WentLives, ClaimLives, RevivedLives DEF Calm
<1>2. /\ [s \in Step |-> Stage(steps'[s].status)] \in [Step -> Lifecycle!State]
      /\ [s \in Step |-> HolderOf(steps'[s])] \in [Step -> Agent \cup {NoAgent}]
      /\ [s \in Step |-> steps'[s].retry] \in [Step -> Nat]
  BY DEF StepsOK, Row, StepStatus, Stage, HolderOf, LeftInv, Lifecycle!State
<1> QED BY <1>1, <1>2, TaskLives DEF Lives, Lifecycle!Next

\* With its ordinary callers and watchdog, every run of the engine is one of TaskLifecycle:
\* whatever races, a step is given out after its dependencies, stays with its agent, pays for
\* every new try, and is closed once; the task ends once, and completed only over done steps.
THEOREM LifecycleRefined == ASSUME Ordinary, HandedOut, Followed PROVE Spec => ImplementsLifecycle
<1>1. Init => Lifecycle!Init
  BY RetryAssumption DEF Init, Lifecycle!Init, NewRow, Stage, HolderOf, TaskTerminal
<1>2. TypeInv /\ TxInv /\ PlainInv /\ TurnInv /\ CancelInv /\ TypeInv' /\ LeftInv' /\ EndInv'
         /\ [Next]_vars => [Lifecycle!Next]_(Lifecycle!vars)
  BY NextLives
<1>3. QED
  BY <1>1, <1>2, TypeInvariant, TransactionHolds, PlainHolds, TurnsHold, LeftHolds, CancelExclusive,
     EndHolds, PTL DEF Spec, ImplementsLifecycle, Lifecycle!Spec
===============================================================================
