------------------------------ MODULE ZhiceClaims ------------------------------
(***************************************************************************)
(* What comments, docstrings and the worker guide of zhice say of the      *)
(* engine and the engine does not do.  ReclaimOnlyUnstarted is checked by   *)
(* the run claim_reclaim; the others are stated here, and none of them is   *)
(* used by a proof.                                                        *)
(***************************************************************************)
EXTENDS ZhiceEngine

\* timeout_checker.py:8, scan 4 takes back what was "assigned" and not started, and
\* status_machine.py:3-5, every change is an UPDATE guarded by the status, so that
\* of the watchdog and an agent only one can win.
ReclaimOnlyUnstarted ==
    [][\A s \in Step : wd.pc = "reclaim" /\ wd' # wd /\ steps'[s] # steps[s] =>
                          steps[s].status = "assigned"]_vars

\* api.py:1071, the final UPDATE of a failed check only takes a step that is still
\* rejected or timed_out.
LateFailureOnlyAfterReject ==
    [][\A s \in Step, r \in Req :
          req[r].pc = "check_fail" /\ req'[r].pc = "key" /\ steps'[s] # steps[s] =>
             steps[s].status \in {"rejected", "timed_out"}]_vars

\* api.py:440, a cancel cancels every step that is not terminal.
CancelledTaskHasNoOpenStep == task = "cancelled" => AllTerminal(steps)

\* timeout_checker.py:267, when a task is overdue all its open steps become timed_out.
ExpiryClosesEveryStep ==
    [][\A s \in Step : wd.pc = "expire_steps" /\ wd'.pc = "idle" =>
          steps'[s].status \in StepTerminal \cup {"timed_out"}]_vars

\* api.py:1347 and worker_tools.md:311, the creator's reject gives a failed step one
\* more execution; /next hands out steps of running tasks only.
ResetCanRun == [][(\E s \in Step : Reset(s)) => task \notin TaskTerminal]_vars

\* worker_tools.md:311, a step has terminally failed when no retry is left: the task
\* does not fail over a step that is about to be retried.
TaskFailsOverExhaustedStep ==
    [][task = "running" /\ task' = "failed" =>
          \E s \in Step : steps[s].status = "failed" /\ steps[s].retry = 0]_vars

\* runner.py:1971, a task is completed when all its steps are terminal ...
CompletionOverTerminalSteps ==
    [][task # "completed" /\ task' = "completed" => \A s \in Step :
          steps'[s].status \in StepTerminal]_vars

\* ... and once they all are, it does end.
AllTerminalEndsTask == (task = "running" /\ AllTerminal(steps)) ~> (task # "running")

\* api.py:1400 and runner.py:1735, a high-risk step is not executed before it is
\* confirmed.
ConfirmedBeforeRun ==
    \A s \in NeedsConfirm : steps[s].status = "in_progress" => steps[s].confirmed

\* worker_tools.md:311, a step without retries left is terminally failed: once no
\* call and no scan is under way, it waits in no other state.
ExhaustedStepIsTerminal ==
    wd.pc = "idle" /\ (\A r \in Req : req[r].pc = "idle") =>
       \A s \in Step : steps[s].retry = 0 => steps[s].status \notin {"rejected", "timed_out"}

\* api.py:821, a second submit with the same idempotency key has no effect.
KeyAppliedOnce ==
    [][\A r \in Req : At(r, "submit", "agent_failed") /\ req'[r].pc = "failed_key" =>
          steps[req[r].step].key # req[r].key]_vars

\* Statements of a call in flight go on; agents and creators may stop at any time.
ServerSpec == Spec /\ \A r \in Req : WF_vars(Continue(r))
=============================================================================
