------------------------------ MODULE TaskLifecycle ------------------------------
(***************************************************************************)
(* What the task engine promises about a task and its steps, whatever calls *)
(* race with each other and with the watchdog: a step is given out only      *)
(* after the steps it depends on, keeps the agent it was given to until it   *)
(* is given up, is tried again only against one of its tries, and is closed  *)
(* for good when it is done; a task that has ended has one outcome, and       *)
(* "completed" is said of it only when all its steps are done.  One          *)
(* transaction may move several steps.                                      *)
(***************************************************************************)
EXTENDS Naturals

CONSTANTS Step, Deps, Agent, Nobody,
          Tries     \* how often each step may be tried again

VARIABLES
    outcome,    \* "open", or how the task has ended
    state,      \* of each step
    holder,     \* the agent each step is with
    left        \* the tries each step has left

vars == <<outcome, state, holder, left>>

State    == {"pending", "assigned", "in_progress", "missed", "completed", "skipped", "cancelled"}
Finished == {"completed", "skipped"}

Init == /\ outcome = "open"
        /\ state = [s \in Step |-> "pending"]
        /\ holder = [s \in Step |-> Nobody]
        /\ left = Tries

Keeps(s) == holder'[s] = holder[s] /\ left'[s] = left[s]

Give(s) == /\ state[s] = "pending" /\ \A d \in Deps[s] : state[d] \in Finished
           /\ state'[s] = "assigned" /\ holder'[s] \in Agent /\ left'[s] = left[s]

Begin(s) == state[s] = "assigned" /\ state'[s] = "in_progress" /\ Keeps(s)

Finish(s) == state[s] = "in_progress" /\ state'[s] = "completed" /\ Keeps(s)

Miss(s) == state[s] \in {"assigned", "in_progress"} /\ state'[s] = "missed" /\ Keeps(s)

TryAgain(s) == /\ state[s] = "missed" /\ left[s] > 0 /\ left'[s] = left[s] - 1
               /\ \/ state'[s] = "in_progress" /\ holder'[s] = holder[s]
                  \/ state'[s] = "pending" /\ holder'[s] = Nobody

\* Only with the end of the task, or after it.
Close(s) == /\ \/ state[s] = "pending" /\ state'[s] = "skipped" /\ outcome' # "open"
               \/ /\ state[s] \in {"pending", "assigned", "in_progress"}
                  /\ state'[s] = "cancelled" /\ outcome' = "cancelled"
            /\ holder'[s] = Nobody /\ left'[s] = left[s]

Stay(s) == state'[s] = state[s] /\ Keeps(s)

End == /\ outcome = "open" /\ outcome' \in {"completed", "failed", "cancelled"}
       /\ outcome' = "completed" => \A s \in Step : state'[s] \in Finished

Next == /\ state' \in [Step -> State]
        /\ holder' \in [Step -> Agent \cup {Nobody}] /\ left' \in [Step -> Nat]
        /\ \A s \in Step : \/ Give(s) \/ Begin(s) \/ Finish(s) \/ Miss(s)
                           \/ TryAgain(s) \/ Close(s) \/ Stay(s)
        /\ UNCHANGED outcome \/ End

Spec == Init /\ [][Next]_vars
=============================================================================
