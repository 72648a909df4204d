------------------------------ MODULE SikuClaims ------------------------------
(***************************************************************************)
(* What the comments of siku say of its accounts and the code does not     *)
(* keep, each stated as a property; ApprovedIsCredited is checked by the   *)
(* run claim_unpaid.                                                       *)
(***************************************************************************)
EXTENDS SikuFinance

\* siku/api.py:96, "a failed audit write does not affect the main flow": an order is
\* approved only when the money has been credited.
ApprovedIsCredited == \A n \in Notice : orders[n] = "approved" => Credits(n) # {}

\* siku/api.py:287, "an account can pay only once a year" without a request_id: there
\* are never more such payments than years have begun.
KeylessOncePerYear ==
    \A a \in Account :
       Cardinality({i \in DOMAIN txns : \E y \in 0 .. MaxYear : txns[i].key = PayKey(a, y)})
          <= year + 1

\* siku/api.py:1060, "rejected, not credited", which the human is told.
RejectedNotCredited == \A n \in Notice : orders[n] = "rejected" => Credits(n) = {}

\* siku/finance_agent.py:678, "poll the unread notices of the inbox and process them": a
\* notice of a registered company is credited or queued for a human sooner or later.
NoticeHandled ==
    \A n \in Notice : Payers[n] # {} /\ inbox[n] = "unread" ~>
                         orders[n] # "none" \/ Credits(n) # {}

\* The poll of a process that runs goes on: asyncio resumes it after every await, and
\* the account row it waits for is released by the transaction that holds it.
FairSpec == /\ Spec
            /\ WF_vars(Poll) /\ WF_vars(Commit(Poller)) /\ SF_vars(BeginPosting(Poller))
            /\ \A r \in Req : WF_vars(Commit(r)) /\ WF_vars(CommitPay(r))
=============================================================================
