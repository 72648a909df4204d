---------------------------- MODULE ZhiceTypeProofs ----------------------------
(***************************************************************************)
(* Type correctness of the engine, for every number of steps, calls, agents *)
(* and keys, every dependency graph and every retry budget.                 *)
(***************************************************************************)
EXTENDS ZhiceEngine, TLAPS

\* A call in one of these addresses no row.
NoStepPc == {"idle", "next", "count", "steps", "finish", "cancel"}

CallOK(c) == /\ c \in Request
             /\ c.pc \notin NoStepPc => c.step \in Step
             /\ c.pc = "next" => c.agent \in Agent
CallsOK   == req \in [Req -> Request] /\ \A r \in Req : CallOK(req[r])
StepsOK   == steps \in [Step -> Row]
ScanOK    == wd \in Scan /\ (wd.pc = "requeue" => wd.cur \in Step)

TypeInv == task \in TaskStatus /\ StepsOK /\ CallsOK /\ ScanOK

(* Every operation of ZhiceSteps turns a row into a row.                      *)
LEMMA AssignedRow == ASSUME NEW row \in Row, NEW a \in Agent PROVE Assigned(row, a) \in Row
BY DEF Assigned, Row, StepStatus

LEMMA StartedRow == ASSUME NEW row \in Row PROVE Started(row) \in Row
BY DEF Started, Row, StepStatus

LEMMA CompletedRow ==
    ASSUME NEW row \in Row, NEW k \in Key \cup {NoKey}
    PROVE  Completed(row, k) \in Row
BY DEF Completed, Row, StepStatus

LEMMA FailedRow == ASSUME NEW row \in Row PROVE Failed(row) \in Row
BY DEF Failed, Row, StepStatus

LEMMA RejectedRow == ASSUME NEW row \in Row PROVE Rejected(row) \in Row
BY DEF Rejected, Row, StepStatus

LEMMA RetriedRow == ASSUME NEW row \in Row PROVE Retried(row) \in Row
<1>1. row.retry - 1 \in Int  BY DEF Row
<1>2. QED BY <1>1 DEF Retried, Row, StepStatus

LEMMA TimedOutRow == ASSUME NEW row \in Row PROVE TimedOut(row) \in Row
BY DEF TimedOut, Row, StepStatus

LEMMA SkippedRow == ASSUME NEW row \in Row PROVE Skipped(row) \in Row
BY DEF Skipped, Row, StepStatus

LEMMA ResetRow == ASSUME NEW row \in Row, NEW n \in Int PROVE ResetTo(row, n) \in Row
BY DEF ResetTo, Row, StepStatus

LEMMA CancelledRow == ASSUME NEW row \in Row PROVE Cancelled(row) \in Row
BY DEF Cancelled, Row, StepStatus

LEMMA ConfirmedRow == ASSUME NEW row \in Row PROVE Confirmed(row) \in Row
BY DEF Confirmed, Row, StepStatus

LEMMA RequeuedRow == ASSUME NEW row \in Row PROVE Requeued(row) \in Row
<1>1. row.retry - 1 \in Int  BY DEF Row
<1>2. QED BY <1>1 DEF Requeued, Row, StepStatus

LEMMA ReclaimedRow == ASSUME NEW row \in Row PROVE Reclaimed(row) \in Row
BY DEF Reclaimed, Row, StepStatus

LEMMA KeyedRow ==
    ASSUME NEW row \in Row, NEW k \in Key \cup {NoKey}
    PROVE  [row EXCEPT !.key = k] \in Row
BY DEF Row

LEMMA RefundedRow == ASSUME NEW row \in Row PROVE [row EXCEPT !.retry = @ + 1] \in Row
BY DEF Row

LEMMA IdleOK == CallOK(Idle)
BY DEF CallOK, Idle, Request, ReqPc, TxPc, NoStepPc

\* A call that begins, or that goes on with other registers.
LEMMA CallUpdateOK ==
    ASSUME CallsOK, NEW r \in Req, NEW c, CallOK(c), req' = [req EXCEPT ![r] = c]
    PROVE  CallsOK'
BY DEF CallsOK, CallOK

LEMMA ReturnOK == ASSUME CallsOK, NEW r \in Req, Return(r) PROVE CallsOK'
BY IdleOK, CallUpdateOK DEF Return

\* A call that goes on keeps its registers.
LEMMA GotoOK ==
    ASSUME CallsOK, NEW r \in Req, NEW pc \in ReqPc \ {"next"}, Goto(r, pc),
           pc \notin NoStepPc => req[r].pc \notin NoStepPc
    PROVE  CallsOK'
<1>1. req' = [req EXCEPT ![r] = [@ EXCEPT !.pc = pc]]
  BY DEF Goto, CallsOK, Request
<1>2. CallOK([req[r] EXCEPT !.pc = pc])
  BY DEF CallsOK, CallOK, Request
<1>3. QED BY <1>1, <1>2, CallUpdateOK

\* The rest of a loop over the rows of a scan.
LEMMA AfterOK ==
    ASSUME ScanOK, NEW s \in Step, NEW pc \in {"timeout", "reclaim", "expire_steps"},
           wd' = After(s, pc)
    PROVE  ScanOK'
BY StepAssumption DEF ScanOK, After, WdIdle, Scan, WdPc


\* What try_complete_task has decided after its second SELECT.
Decided(c, pc, d, skip) == [c EXCEPT !.pc = pc, !.decision = d, !.todo = skip]

LEMMA TryStepsGo ==
    ASSUME NEW r \in Req, TrySteps(r)
    PROVE  \E pc \in {"finish", "tx_commit"}, d \in {"completed", "failed"},
              skip \in SUBSET Step :
             /\ req' = [req EXCEPT ![r] = Decided(req[r], pc, d, skip)]
             /\ pc = "tx_commit" <=> req[r].pc = "tx_steps"
<1> DEFINE failed   == {s \in Step : View(r)[s].status = "failed"}
           orphaned == {s \in Step : /\ View(r)[s].status = "pending"
                                     /\ Deps[s] \cap failed # {}}
           pc       == IF req[r].pc = "steps" THEN "finish" ELSE "tx_commit"
<1>1. PICK accepted : req' = [req EXCEPT ![r] =
         Decided(req[r], pc, IF failed = {} /\ accepted THEN "completed" ELSE "failed", orphaned)]
  BY DEF TrySteps, Decided
<1>2. pc = "tx_commit" <=> req[r].pc = "tx_steps"
  BY DEF TrySteps
<1>3. QED
  BY <1>1, <1>2

\* Every reachable state is well-typed, and every statement that addresses a row has
\* one: the registers a handler carries from an earlier SELECT are still set.
THEOREM TypeInvariant == Spec => []TypeInv
<1>1. Init => TypeInv
  <2> SUFFICES ASSUME Init PROVE TypeInv
    OBVIOUS
  <2>1. StepsOK
    BY RetryAssumption, AgentAssumption DEF Init, StepsOK, NewRow, Row, StepStatus
  <2>2. CallsOK
    BY IdleOK DEF Init, CallsOK, CallOK
  <2>3. QED
    BY <2>1, <2>2 DEF Init, TypeInv, ScanOK, TaskStatus, WdIdle, Scan, WdPc
<1>2. TypeInv /\ [Next]_vars => TypeInv'
  <2> SUFFICES ASSUME TypeInv, [Next]_vars PROVE TypeInv'
    OBVIOUS
  <2> USE DEF TypeInv
  <2>1. ASSUME NEW r \in Req, NEW a \in Agent, NextRead(r, a) PROVE TypeInv'
    <3>1. CallsOK'
      BY <2>1, CallUpdateOK, IdleOK DEF NextRead, CallOK, Request, ReqPc, NoStepPc
    <3>2. QED
      BY <2>1, <3>1 DEF NextRead, StepsOK, ScanOK
  <2>2. ASSUME NEW r \in Req, NextClaim(r) PROVE TypeInv'
    <3>1. StepsOK'
      BY <2>2, AssignedRow DEF NextClaim, Claimable, CallsOK, CallOK, StepsOK
    <3>2. CallsOK'
      BY <2>2, ReturnOK DEF NextClaim
    <3>3. QED
      BY <2>2, <3>1, <3>2 DEF NextClaim, ScanOK
  <2>3. ASSUME NEW a \in Agent, NEW s \in Step, Assign(a, s) PROVE TypeInv'
    <3>1. StepsOK'
      BY <2>3, AssignedRow DEF Assign, StepsOK
    <3>2. QED
      BY <2>3, <3>1 DEF Assign, CallsOK, ScanOK
  <2>4. ASSUME NEW a \in Agent, NEW s \in Step, Start(a, s) PROVE TypeInv'
    <3>1. StepsOK'
      BY <2>4, StartedRow DEF Start, StepsOK
    <3>2. QED
      BY <2>4, <3>1 DEF Start, CallsOK, ScanOK
  <2>5. ASSUME NEW r \in Req, NEW a \in Agent, NEW s \in Step, NEW k \in Key, NEW v \in Verdict, SubmitRead(r, a, s, k, v) PROVE TypeInv'
    <3>1. CallsOK'
      BY <2>5, CallUpdateOK, IdleOK, VerdictAssumption DEF SubmitRead, CallOK, Request, ReqPc, NoStepPc, StepsOK, Row
    <3>2. QED
      BY <2>5, <3>1 DEF SubmitRead, StepsOK, ScanOK
  <2>6. ASSUME NEW r \in Req, SubmitBadSignature(r) PROVE TypeInv'
    <3>1. /\ req[r].step \in Step /\ req[r].pc \notin NoStepPc
          /\ req[r].key \in Key \cup {NoKey}
      BY <2>6 DEF SubmitBadSignature, At, CallsOK, CallOK, Request, NoStepPc
    <3>2. StepsOK'
      BY <2>6, <3>1, KeyedRow DEF SubmitBadSignature, StepsOK, Update
    <3>3. CallsOK'
      BY <2>6, <3>1, ReturnOK DEF SubmitBadSignature
    <3>4. QED
      BY <2>6, <3>2, <3>3 DEF SubmitBadSignature, ScanOK
  <2>7. ASSUME NEW r \in Req, SubmitSchema(r) PROVE TypeInv'
    <3>1. req[r].step \in Step /\ req[r].pc \notin NoStepPc
      BY <2>7 DEF SubmitSchema, At, CallsOK, CallOK, NoStepPc
    <3>2. StepsOK'
      BY <2>7, <3>1, RejectedRow DEF SubmitSchema, StepsOK, Update
    <3>3. CallsOK'
      BY <2>7, <3>1, GotoOK DEF SubmitSchema, ReqPc, NoStepPc
    <3>4. QED
      BY <2>7, <3>2, <3>3 DEF SubmitSchema, ScanOK
  <2>8. ASSUME NEW r \in Req, SchemaRetry(r) PROVE TypeInv'
    <3>1. req[r].step \in Step /\ req[r].pc \notin NoStepPc
      BY <2>8 DEF SchemaRetry, At, CallsOK, CallOK, NoStepPc
    <3>2. StepsOK'
      BY <2>8, <3>1, RetriedRow DEF SchemaRetry, StepsOK, Update
    <3>3. CallsOK'
      BY <2>8, <3>1, GotoOK DEF SchemaRetry, ReqPc, NoStepPc
    <3>4. QED
      BY <2>8, <3>2, <3>3 DEF SchemaRetry, ScanOK
  <2>9. ASSUME NEW r \in Req, SchemaRefund(r) PROVE TypeInv'
    <3>1. req[r].step \in Step /\ req[r].pc \notin NoStepPc
      BY <2>9 DEF SchemaRefund, At, CallsOK, CallOK, NoStepPc
    <3>2. StepsOK'
      BY <2>9, <3>1, RefundedRow DEF SchemaRefund, StepsOK, Update
    <3>3. CallsOK'
      BY <2>9, <3>1, GotoOK DEF SchemaRefund, ReqPc, NoStepPc
    <3>4. QED
      BY <2>9, <3>2, <3>3 DEF SchemaRefund, ScanOK
  <2>10. ASSUME NEW r \in Req, SubmitRejected(r) PROVE TypeInv'
    <3>1. req[r].step \in Step /\ req[r].pc \notin NoStepPc
      BY <2>10 DEF SubmitRejected, At, CallsOK, CallOK, NoStepPc
    <3>2. StepsOK'
      BY <2>10, <3>1, RejectedRow DEF SubmitRejected, StepsOK, Update
    <3>3. CallsOK'
      BY <2>10, <3>1, GotoOK DEF SubmitRejected, ReqPc, NoStepPc
    <3>4. QED
      BY <2>10, <3>2, <3>3 DEF SubmitRejected, ScanOK
  <2>11. ASSUME NEW r \in Req, CheckRetry(r) PROVE TypeInv'
    <3>1. req[r].step \in Step /\ req[r].pc \notin NoStepPc
      BY <2>11 DEF CheckRetry, At, CallsOK, CallOK, NoStepPc
    <3>2. StepsOK'
      BY <2>11, <3>1, RetriedRow DEF CheckRetry, StepsOK, Update
    <3>3. CallsOK'
      BY <2>11, <3>1, GotoOK DEF CheckRetry, ReqPc, NoStepPc
    <3>4. QED
      BY <2>11, <3>2, <3>3 DEF CheckRetry, ScanOK
  <2>12. ASSUME NEW r \in Req, CheckFail(r) PROVE TypeInv'
    <3>1. req[r].step \in Step /\ req[r].pc \notin NoStepPc
      BY <2>12 DEF CheckFail, At, CallsOK, CallOK, NoStepPc
    <3>2. StepsOK'
      BY <2>12, <3>1, FailedRow DEF CheckFail, StepsOK, Update
    <3>3. CallsOK'
      BY <2>12, <3>1, GotoOK DEF CheckFail, ReqPc, NoStepPc
    <3>4. QED
      BY <2>12, <3>2, <3>3 DEF CheckFail, ScanOK
  <2>13. ASSUME NEW r \in Req, SubmitFailed(r) PROVE TypeInv'
    <3>1. req[r].step \in Step /\ req[r].pc \notin NoStepPc
      BY <2>13 DEF SubmitFailed, At, CallsOK, CallOK, NoStepPc
    <3>2. StepsOK'
      BY <2>13, <3>1, FailedRow DEF SubmitFailed, StepsOK, Update
    <3>3. CallsOK'
      BY <2>13, <3>1, ReturnOK, CallUpdateOK DEF SubmitFailed, CallsOK, CallOK, Request, ReqPc, NoStepPc, StepsOK, Row
    <3>4. QED
      BY <2>13, <3>2, <3>3 DEF SubmitFailed, ScanOK
  <2>14. ASSUME NEW r \in Req, FailedKey(r) PROVE TypeInv'
    <3>1. /\ req[r].step \in Step /\ req[r].pc \notin NoStepPc
          /\ req[r].key \in Key \cup {NoKey}
      BY <2>14 DEF FailedKey, At, CallsOK, CallOK, Request, NoStepPc
    <3>2. StepsOK'
      BY <2>14, <3>1, KeyedRow DEF FailedKey, StepsOK, Update
    <3>3. CallsOK'
      BY <2>14, <3>1, GotoOK, CallUpdateOK, IdleOK DEF FailedKey, CallOK, Request, ReqPc, NoStepPc
    <3>4. QED
      BY <2>14, <3>2, <3>3 DEF FailedKey, ScanOK
  <2>15. ASSUME NEW r \in Req, FailedRetry(r) PROVE TypeInv'
    <3>1. req[r].step \in Step /\ req[r].pc \notin NoStepPc
      BY <2>15 DEF FailedRetry, At, CallsOK, CallOK, NoStepPc
    <3>2. StepsOK'
      BY <2>15, <3>1, RetriedRow DEF FailedRetry, StepsOK, Update
    <3>3. CallsOK'
      BY <2>15, <3>1, ReturnOK, CallUpdateOK, IdleOK DEF FailedRetry, CallOK, Request, ReqPc, NoStepPc
    <3>4. QED
      BY <2>15, <3>2, <3>3 DEF FailedRetry, ScanOK
  <2>16. ASSUME NEW r \in Req, StoreKey(r) PROVE TypeInv'
    <3>1. /\ req[r].step \in Step /\ req[r].pc \notin NoStepPc
          /\ req[r].key \in Key \cup {NoKey}
      BY <2>16 DEF StoreKey, At, CallsOK, CallOK, Request, NoStepPc
    <3>2. StepsOK'
      BY <2>16, <3>1, KeyedRow DEF StoreKey, StepsOK, Update
    <3>3. CallOK([Idle EXCEPT !.pc = "count"])
      BY IdleOK DEF CallOK, Request, ReqPc, NoStepPc
    <3>4. CallsOK'
      BY <2>16, <3>3, CallUpdateOK DEF StoreKey
    <3>5. QED
      BY <2>16, <3>2, <3>4 DEF StoreKey, ScanOK
  <2>17. ASSUME NEW r \in Req, SubmitPassed(r) PROVE TypeInv'
    <3>1. req[r].step \in Step /\ req[r].pc \notin NoStepPc
      BY <2>17 DEF SubmitPassed, At, CallsOK, CallOK, NoStepPc
    <3>2. CallsOK'
      BY <2>17, <3>1, GotoOK, ReturnOK DEF SubmitPassed, ReqPc, TxPc, NoStepPc
    <3>3. QED
      BY <2>17, <3>2 DEF SubmitPassed, StepsOK, ScanOK
  <2>18. ASSUME NEW r \in Req, TryCount(r) PROVE TypeInv'
    <3>1. CallsOK'
      BY <2>18, GotoOK, ReturnOK DEF TryCount, ReqPc, TxPc, NoStepPc
    <3>2. QED
      BY <2>18, <3>1 DEF TryCount, StepsOK, ScanOK
  <2>19. ASSUME NEW r \in Req, TrySteps(r) PROVE TypeInv'
    <3>1. PICK pc \in {"finish", "tx_commit"}, d \in {"completed", "failed"},
               skip \in SUBSET Step :
             /\ req' = [req EXCEPT ![r] = Decided(req[r], pc, d, skip)]
             /\ pc = "tx_commit" <=> req[r].pc = "tx_steps"
      BY <2>19, TryStepsGo
    <3>2. CallOK(Decided(req[r], pc, d, skip))
      <4>1. req[r] \in Request /\ req[r].pc \in {"steps", "tx_steps"}
        BY <2>19 DEF TrySteps, CallsOK
      <4>2. Decided(req[r], pc, d, skip) \in Request
        BY <4>1 DEF Decided, Request, ReqPc, TxPc
      <4>3. pc = "tx_commit" => req[r].step \in Step
        BY <3>1 DEF CallsOK, CallOK, NoStepPc
      <4>4. QED
        BY <4>1, <4>2, <4>3 DEF Decided, CallOK, Request, NoStepPc
    <3>3. CallsOK'
      BY <3>1, <3>2, CallUpdateOK
    <3>4. QED
      BY <2>19, <3>3 DEF TrySteps, StepsOK, ScanOK
  <2>20. ASSUME NEW r \in Req, TryFinish(r) PROVE TypeInv'
    <3>1. task' \in TaskStatus
      BY <2>20 DEF TryFinish, Outcome, CallsOK, CallOK, Request, TaskStatus
    <3>2. StepsOK'
      BY <2>20, SkippedRow DEF TryFinish, StepsOK, Skip
    <3>3. CallsOK'
      BY <2>20, ReturnOK DEF TryFinish
    <3>4. QED
      BY <2>20, <3>1, <3>2, <3>3 DEF TryFinish, ScanOK
  <2>21. ASSUME NEW r \in Req, TxCommit(r) PROVE TypeInv'
    <3>1. task' \in TaskStatus
      BY <2>21 DEF TxCommit, Outcome, CallsOK, CallOK, Request, TaskStatus
    <3>2. StepsOK'
      BY <2>21, CompletedRow, SkippedRow DEF TxCommit, View, CallsOK, CallOK, Request, StepsOK, Skip
    <3>3. CallsOK'
      BY <2>21, ReturnOK DEF TxCommit
    <3>4. QED
      BY <2>21, <3>1, <3>2, <3>3 DEF TxCommit, ScanOK
  <2>22. ASSUME NEW s \in Step, Reset(s) PROVE TypeInv'
    <3>1. StepsOK'
      BY <2>22, ResetRow, RetryAssumption DEF Reset, StepsOK
    <3>2. QED
      BY <2>22, <3>1 DEF Reset, CallsOK, ScanOK
  <2>23. ASSUME NEW r \in Req, NEW s \in Step, ConfirmRead(r, s) PROVE TypeInv'
    <3>1. CallsOK'
      BY <2>23, CallUpdateOK, IdleOK DEF ConfirmRead, CallOK, Request, ReqPc, NoStepPc
    <3>2. QED
      BY <2>23, <3>1 DEF ConfirmRead, StepsOK, ScanOK
  <2>24. ASSUME NEW r \in Req, ConfirmWrite(r) PROVE TypeInv'
    <3>1. req[r].step \in Step /\ req[r].pc \notin NoStepPc
      BY <2>24 DEF ConfirmWrite, At, CallsOK, CallOK, NoStepPc
    <3>2. StepsOK'
      BY <2>24, <3>1, ConfirmedRow DEF ConfirmWrite, StepsOK, Update
    <3>3. CallsOK'
      BY <2>24, <3>1, ReturnOK DEF ConfirmWrite
    <3>4. QED
      BY <2>24, <3>2, <3>3 DEF ConfirmWrite, ScanOK
  <2>25. ASSUME NEW r \in Req, NEW s \in Step, ReverifyRead(r, s) PROVE TypeInv'
    <3>1. CallsOK'
      <4>1. CallOK([Idle EXCEPT !.pc = "reverify", !.step = s])
        BY IdleOK DEF CallOK, Request, ReqPc, NoStepPc
      <4>2. QED
        BY <2>25, <4>1, CallUpdateOK DEF ReverifyRead
    <3>2. QED
      BY <2>25, <3>1 DEF ReverifyRead, StepsOK, ScanOK
  <2>26. ASSUME NEW r \in Req, ReverifyWrite(r) PROVE TypeInv'
    <3>1. req[r].step \in Step /\ req[r].pc \notin NoStepPc
      BY <2>26 DEF ReverifyWrite, At, CallsOK, CallOK, NoStepPc
    <3>2. StepsOK'
      BY <2>26, <3>1, StartedRow DEF ReverifyWrite, StepsOK, Update
    <3>3. CallsOK'
      BY <2>26, <3>1, ReturnOK DEF ReverifyWrite
    <3>4. QED
      BY <2>26, <3>2, <3>3 DEF ReverifyWrite, ScanOK
  <2>27. ASSUME Pause PROVE TypeInv'
    <3>1. task' \in TaskStatus
      BY <2>27 DEF Pause, TaskStatus
    <3>2. QED
      BY <2>27, <3>1 DEF Pause, StepsOK, CallsOK, ScanOK
  <2>28. ASSUME Resume PROVE TypeInv'
    <3>1. task' \in TaskStatus
      BY <2>28 DEF Resume, TaskStatus
    <3>2. QED
      BY <2>28, <3>1 DEF Resume, StepsOK, CallsOK, ScanOK
  <2>29. ASSUME NEW r \in Req, CancelBegin(r) PROVE TypeInv'
    <3>1. CallsOK'
      <4>1. \A open \in SUBSET Step : CallOK([Idle EXCEPT !.pc = "cancel", !.todo = open])
        BY IdleOK DEF CallOK, Request, ReqPc, NoStepPc
      <4>2. QED
        BY <2>29, <4>1, CallUpdateOK DEF CancelBegin
    <3>2. QED
      BY <2>29, <3>1 DEF CancelBegin, StepsOK, ScanOK
  <2>30. ASSUME NEW r \in Req, CancelCommit(r) PROVE TypeInv'
    <3>1. task' \in TaskStatus
      BY <2>30 DEF CancelCommit, TaskStatus
    <3>2. StepsOK'
      BY <2>30, SkippedRow, CancelledRow DEF CancelCommit, StepsOK, Skip
    <3>3. CallsOK'
      BY <2>30, ReturnOK DEF CancelCommit
    <3>4. QED
      BY <2>30, <3>1, <3>2, <3>3 DEF CancelCommit, ScanOK
  <2>31. ASSUME NEW c \in Req, NEW r \in Req, DeadlockAbort(c, r) PROVE TypeInv'
    <3>1. CallsOK'
      BY <2>31, ReturnOK DEF DeadlockAbort
    <3>2. QED
      BY <2>31, <3>1 DEF DeadlockAbort, StepsOK, ScanOK
  <2>32. ASSUME NEW status \in {"assigned", "in_progress"}, WdScan(status) PROVE TypeInv'
    <3>1. ScanOK'
      BY <2>32 DEF WdScan, ScanOK, WdIdle, Scan, WdPc
    <3>2. QED
      BY <2>32, <3>1 DEF WdScan, StepsOK, CallsOK
  <2>33. ASSUME NEW s \in Step, WdTimeout(s) PROVE TypeInv'
    <3>1. StepsOK'
      BY <2>33, TimedOutRow DEF WdTimeout, StepsOK, Update
    <3>2. ScanOK'
      BY <2>33, AfterOK DEF WdTimeout, ScanOK, Scan, WdPc
    <3>3. QED
      BY <2>33, <3>1, <3>2 DEF WdTimeout, CallsOK
  <2>34. ASSUME WdRequeue PROVE TypeInv'
    <3>1. wd.cur \in Step
      BY <2>34 DEF WdRequeue, ScanOK
    <3>2. StepsOK'
      BY <2>34, <3>1, RequeuedRow DEF WdRequeue, StepsOK, Update
    <3>3. ScanOK'
      BY <2>34, <3>1, AfterOK DEF WdRequeue
    <3>4. QED
      BY <2>34, <3>2, <3>3 DEF WdRequeue, CallsOK
  <2>35. ASSUME WdScanUnclaimed PROVE TypeInv'
    <3>1. ScanOK'
      BY <2>35 DEF WdScanUnclaimed, ScanOK, WdIdle, Scan, WdPc
    <3>2. QED
      BY <2>35, <3>1 DEF WdScanUnclaimed, StepsOK, CallsOK
  <2>36. ASSUME NEW s \in Step, WdReclaim(s) PROVE TypeInv'
    <3>1. StepsOK'
      BY <2>36, ReclaimedRow DEF WdReclaim, StepsOK, Update
    <3>2. ScanOK'
      BY <2>36, AfterOK DEF WdReclaim
    <3>3. QED
      BY <2>36, <3>1, <3>2 DEF WdReclaim, CallsOK
  <2>37. ASSUME WdScanTask PROVE TypeInv'
    <3>1. ScanOK'
      BY <2>37 DEF WdScanTask, ScanOK, Scan, WdPc
    <3>2. QED
      BY <2>37, <3>1 DEF WdScanTask, StepsOK, CallsOK
  <2>38. ASSUME WdExpire PROVE TypeInv'
    <3>1. task' \in TaskStatus
      BY <2>38 DEF WdExpire, TaskStatus
    <3>2. ScanOK'
      BY <2>38 DEF WdExpire, ScanOK, Scan, WdPc
    <3>3. QED
      BY <2>38, <3>1, <3>2 DEF WdExpire, StepsOK, CallsOK
  <2>39. ASSUME WdExpireRead PROVE TypeInv'
    <3>1. ScanOK'
      BY <2>39, StepAssumption DEF WdExpireRead, ScanOK, WdIdle, Scan, WdPc
    <3>2. QED
      BY <2>39, <3>1 DEF WdExpireRead, StepsOK, CallsOK
  <2>40. ASSUME NEW s \in Step, WdExpireStep(s) PROVE TypeInv'
    <3>1. StepsOK'
      BY <2>40, TimedOutRow DEF WdExpireStep, StepsOK, Update
    <3>2. ScanOK'
      BY <2>40, AfterOK DEF WdExpireStep
    <3>3. QED
      BY <2>40, <3>1, <3>2 DEF WdExpireStep, CallsOK
  <2>41. ASSUME WdError PROVE TypeInv'
    <3>1. ScanOK'
      BY <2>41 DEF WdError, ScanOK, WdIdle, Scan, WdPc
    <3>2. QED
      BY <2>41, <3>1 DEF WdError, StepsOK, CallsOK
  <2>42. ASSUME Crash PROVE TypeInv'
    <3>1. CallsOK'
      BY <2>42, IdleOK DEF Crash, CallsOK, CallOK
    <3>2. ScanOK'
      BY <2>42 DEF Crash, ScanOK, WdIdle, Scan, WdPc
    <3>3. QED
      BY <2>42, <3>1, <3>2 DEF Crash, StepsOK
  <2>43. CASE UNCHANGED vars
    BY <2>43 DEF vars, StepsOK, CallsOK, ScanOK
  <2>44. QED
    BY <2>1, <2>2, <2>3, <2>4, <2>5, <2>6, <2>7, <2>8, <2>9, <2>10, <2>11, <2>12, <2>13, <2>14, <2>15, <2>16, <2>17, <2>18, <2>19, <2>20, <2>21, <2>22, <2>23, <2>24, <2>25, <2>26, <2>27, <2>28, <2>29, <2>30, <2>31, <2>32, <2>33, <2>34, <2>35, <2>36, <2>37, <2>38, <2>39, <2>40, <2>41, <2>42, <2>43
    DEF Next, Call, Continue, Watchdog, WdContinue
<1>3. QED
  BY <1>1, <1>2, PTL DEF Spec

\* No UPDATE writes a status, an agent or a key that the columns do not have.
THEOREM TypeCorrect == Spec => []TypeOK
<1>1. TypeInv => TypeOK
  BY DEF TypeInv, TypeOK, StepsOK, CallsOK, ScanOK
<1>2. QED
  BY <1>1, TypeInvariant, PTL
================================================================================
