------------------------------ MODULE SikuFinance ------------------------------
(***************************************************************************)
(* The callers of the siku accounts: the HTTP calls of siku/api.py          *)
(* (recharge, deduct, annual/pay, a human's decision in an IM callback),    *)
(* the finance agent's poll of its inbox (finance_agent.py, the receiving   *)
(* side) and the annual fee cron (annual_cron.py).  All of them run as      *)
(* coroutines of one process over one PostgreSQL database; each SQL         *)
(* statement outside a transaction commits at once, and a crash loses what  *)
(* is in flight and nothing that was committed.                             *)
(***************************************************************************)
EXTENDS SikuLedger, FiniteSets

CONSTANTS
    Payers,     \* the agents registered under the company a notice names
    Modes,      \* the values siku.finance.bank_verify has in the course of time
    Limit,      \* how many unread notices the poll takes at one time (50)
    Escaped,    \* the notices whose voucher number JSON must escape, and 0 if the
                \* remark or reference of a client's call is such a text
    Ops         \* the optional actions that occur

ASSUME PayersAssumption  == Payers \in [Notice -> SUBSET Account]
ASSUME ModesAssumption   == Modes \subseteq {"manual", "stub", "off"}
ASSUME LimitAssumption   == Limit \in Nat \ {0}
ASSUME EscapedAssumption == Escaped \subseteq Notice \cup {0}
ASSUME OpsAssumption     == Ops \subseteq {"recharge", "deduct", "annual", "reject", "crash"}

VARIABLES
    inbox,      \* messages.status of the notices
    orders,     \* pending_recharges.status
    payee,      \* pending_recharges.payer_agent_id
    todo,       \* the notices the poll has fetched and not yet handled
    expires,    \* annual_fee_status.expires_at, in years
    expired,    \* annual_fee_status.is_expired
    active,     \* agents.status is 'active' (else 'inactive')
    due,        \* the agents the cron has selected and not yet marked
    year        \* NOW()

orderVars  == <<inbox, orders, payee, todo>>
annualVars == <<expires, expired, active, due, year>>
vars == <<balance, txns, call, inbox, orders, payee, todo,
          expires, expired, active, due, year>>

TypeOK ==
    /\ balance \in [Account -> Nat]
    /\ txns \in Seq(Txn)
    /\ call \in [Caller -> Call]
    /\ inbox \in [Notice -> {"unsent", "unread", "read"}]
    /\ orders \in [Notice -> {"none", "pending", "approved", "rejected"}]
    /\ payee \in [Notice -> Account \cup {NoAccount}]
    /\ todo \subseteq Notice
    /\ expires \in [Account -> Nat] /\ year \in Nat
    /\ expired \in [Account -> BOOLEAN] /\ active \in [Account -> BOOLEAN]
    /\ due \subseteq Account

\* Every account is freshly opened and has a free year (register_agent).
Init == /\ LedgerInit
        /\ inbox = [n \in Notice |-> "unsent"]
        /\ orders = [n \in Notice |-> "none"]
        /\ payee = [n \in Notice |-> NoAccount]
        /\ todo = {}
        /\ expires = [a \in Account |-> 1]
        /\ expired = [a \in Account |-> FALSE]
        /\ active = [a \in Account |-> TRUE]
        /\ due = {} /\ year = 0
-----------------------------------------------------------------------------
Start(p, c) == call[p].pc = "idle" /\ call' = [call EXCEPT ![p] = c]
Goto(p, pc) == call' = [call EXCEPT ![p].pc = pc]
Return(p)   == call' = [call EXCEPT ![p] = Idle]

\* POST /accounts/recharge and /accounts/deduct; a key is optional for a deduct.
RechargeCall(r, a, k) ==
    /\ "recharge" \in Ops
    /\ Start(r, Posting("recharge", a, 1, ClientKey(k), 0))
    /\ UNCHANGED <<ledgerVars, orderVars, annualVars>>

DeductCall(r, a, key) ==
    /\ "deduct" \in Ops
    /\ Start(r, Posting("deduct", a, -1, key, 0))
    /\ UNCHANGED <<ledgerVars, orderVars, annualVars>>

BeginPosting(p) == Lock(p) /\ UNCHANGED <<ledgerVars, orderVars, annualVars>>

\* The audit record of a posting is inserted in the same transaction.  Its trigger casts
\* the detail to bytea, which rejects JSON's escapes; write_finance_audit only logs the
\* error, and the COMMIT of the failed transaction rolls it back without an error.
AuditFails(c) == c.note \in Escaped

\* The end of a recharge or deduct; a unique violation ends the whole call.
Commit(p) ==
    LET c == call[p] IN
    /\ c.pc = "locked" /\ c.kind # "annual"
    /\ IF Outcome(c) = "ok" /\ ~AuditFails(c) THEN Posted(c) ELSE UNCHANGED ledgerVars
    /\ IF Outcome(c) \in {"ok", "known"} /\ c.kind = "approve" THEN Goto(p, "decide")
       ELSE IF Outcome(c) \in {"ok", "known"} /\ c.kind = "notice" THEN Goto(p, "read")
       ELSE Return(p)
    /\ UNCHANGED <<orderVars, annualVars>>
-----------------------------------------------------------------------------
(* Path B of the finance agent.                                                *)

\* huanyu send_message: the key of a message is its content, so a notice that is
\* sent or forwarded again is the row that is already there.
Send(n) ==
    /\ inbox[n] = "unsent"
    /\ inbox' = [inbox EXCEPT ![n] = "unread"]
    /\ UNCHANGED <<ledgerVars, call, orders, payee, todo, annualVars>>

Unread == {n \in Notice : inbox[n] = "unread"}

\* process_inbox: the oldest unread notices, at most Limit of them.
PollFetch ==
    /\ todo = {} /\ Unread # {} /\ call[Poller].pc = "idle"
    /\ todo' = {n \in Unread : Cardinality({m \in Unread : m < n}) < Limit}
    /\ UNCHANGED <<ledgerVars, call, inbox, orders, payee, annualVars>>

\* A notice whose company nobody is registered for, and every notice while the bank
\* check is off, is skipped and stays unread.
PollSkip(n) ==
    /\ Payers[n] = {} \/ "off" \in Modes
    /\ UNCHANGED <<call, orders, payee>>

\* bank_verify = manual: an order for a human, unless the notice has one already.
PollQueue(n) ==
    /\ "manual" \in Modes
    /\ \E a \in Payers[n] :
          IF orders[n] = "none"
          THEN orders' = [orders EXCEPT ![n] = "pending"] /\ payee' = [payee EXCEPT ![n] = a]
          ELSE UNCHANGED <<orders, payee>>
    /\ Start(Poller, [Idle EXCEPT !.pc = "read", !.kind = "notice", !.note = n])

\* bank_verify = stub: the notice is believed.
PollBelieve(n) ==
    /\ "stub" \in Modes
    /\ \E a \in Payers[n] :
          Start(Poller, Posting("notice", a, 1, NoticeKey(n), n))
    /\ UNCHANGED <<orders, payee>>

\* The next notice of the batch, the oldest first.
PollTake(n) ==
    /\ call[Poller].pc = "idle"
    /\ n \in todo /\ \A m \in todo : n <= m
    /\ PollSkip(n) \/ PollQueue(n) \/ PollBelieve(n)
    /\ todo' = todo \ {n}
    /\ UNCHANGED <<ledgerVars, inbox, annualVars>>

\* mark_read; what it raises is ignored.
PollRead ==
    /\ call[Poller].pc = "read"
    /\ \E done \in IF "crash" \in Ops THEN BOOLEAN ELSE {TRUE} :
          inbox' = IF done THEN [inbox EXCEPT ![call[Poller].note] = "read"] ELSE inbox
    /\ Return(Poller)
    /\ UNCHANGED <<ledgerVars, orders, payee, todo, annualVars>>
-----------------------------------------------------------------------------
(* A human decides an order in an IM channel: the order is read, then the      *)
(* money is credited under the key the poll would use, then the order is       *)
(* marked; a reject only marks it.                                             *)
Approve(r, n) ==
    /\ orders[n] = "pending"
    /\ Start(r, Posting("approve", payee[n], 1, NoticeKey(n), n))
    /\ UNCHANGED <<ledgerVars, orderVars, annualVars>>

Reject(r, n) ==
    /\ "reject" \in Ops
    /\ orders[n] = "pending"
    /\ Start(r, [Idle EXCEPT !.pc = "reject", !.note = n])
    /\ UNCHANGED <<ledgerVars, orderVars, annualVars>>

\* UPDATE ... WHERE message_id = $1 AND status = 'pending'.
Decide(r, pc, status) ==
    LET n == call[r].note IN
    /\ call[r].pc = pc
    /\ orders' = IF orders[n] = "pending" THEN [orders EXCEPT ![n] = status] ELSE orders
    /\ Return(r)
    /\ UNCHANGED <<ledgerVars, inbox, payee, todo, annualVars>>
-----------------------------------------------------------------------------
(* The annual fee.                                                             *)

\* POST /annual/pay reads the agent and its fee status before the transaction; the
\* two SELECTs are one step, since nothing between them changes what either returns
\* together with the other.  Without a request_id the key is the year it pays up to.
PayRead(r, a, id) ==
    LET until == (IF expires[a] > year THEN expires[a] ELSE year) + 1
        key   == PayKey(a, IF id \in PayId THEN id ELSE until)
    IN
    /\ "annual" \in Ops
    /\ until <= MaxYear
    /\ Start(r, [Posting("annual", a, -1, key, 0) EXCEPT !.until = until, !.lapsed = ~active[a]])
    /\ UNCHANGED <<ledgerVars, orderVars, annualVars>>

\* The new expiry and status, written in the transaction of the deduct.
Extended(c) ==
    /\ expires' = [expires EXCEPT ![c.agent] = c.until]
    /\ expired' = [expired EXCEPT ![c.agent] = FALSE]
    /\ active' = IF c.lapsed THEN [active EXCEPT ![c.agent] = TRUE] ELSE active
    /\ UNCHANGED <<due, year>>

\* A faulty variant: a repeated payment is extended again.
ExtendsAgain(outcome) == outcome \in {"ok", "known"}

\* Only a payment that was charged extends the validity.
Extends(outcome) == outcome = "ok"

CommitPay(r) ==
    LET c == call[r] IN
    /\ c.pc = "locked" /\ c.kind = "annual"
    /\ IF Outcome(c) = "ok" THEN Posted(c) ELSE UNCHANGED ledgerVars
    /\ IF Extends(Outcome(c)) THEN Extended(c) ELSE UNCHANGED annualVars
    /\ Return(r)
    /\ UNCHANGED orderVars

\* check_annual_fee_expiry: a SELECT, then a transaction for every row that looks at
\* the expiry no more.
CronSelect ==
    /\ "annual" \in Ops
    /\ due = {}
    /\ due' = {a \in Account : expires[a] < year /\ ~expired[a]}
    /\ due' # {}
    /\ UNCHANGED <<ledgerVars, call, orderVars, expires, expired, active, year>>

CronMark(a) ==
    /\ a \in due
    /\ expired' = [expired EXCEPT ![a] = TRUE]
    /\ active' = [active EXCEPT ![a] = FALSE]
    /\ due' = due \ {a}
    /\ UNCHANGED <<ledgerVars, call, orderVars, expires, year>>

\* Time passes; no year beyond MaxYear.
NewYear ==
    /\ "annual" \in Ops
    /\ year < MaxYear
    /\ year' = year + 1
    /\ UNCHANGED <<ledgerVars, call, orderVars, expires, expired, active, due>>

\* The process stops and starts again.
Crash ==
    /\ "crash" \in Ops
    /\ call' = [p \in Caller |-> Idle]
    /\ todo' = {} /\ due' = {}
    /\ UNCHANGED <<ledgerVars, inbox, orders, payee, expires, expired, active, year>>
-----------------------------------------------------------------------------
ClientCall(r) ==
    \/ \E a \in Account, k \in Key : RechargeCall(r, a, k)
    \/ \E a \in Account, key \in {ClientKey(k) : k \in Key} \cup {Blank} : DeductCall(r, a, key)
    \/ \E n \in Notice : Approve(r, n) \/ Reject(r, n)
    \/ \E a \in Account, id \in PayId \cup {0} : PayRead(r, a, id)

Poll == \/ PollFetch \/ PollRead
        \/ \E n \in Notice : PollTake(n)

Cron == CronSelect \/ \E a \in Account : CronMark(a)

Next == \/ \E r \in Req : \/ ClientCall(r) \/ CommitPay(r)
                          \/ Decide(r, "decide", "approved")
                          \/ Decide(r, "reject", "rejected")
        \/ \E p \in Caller : BeginPosting(p) \/ Commit(p)
        \/ \E n \in Notice : Send(n)
        \/ Poll \/ Cron \/ NewYear \/ Crash

Spec == Init /\ [][Next]_vars
-----------------------------------------------------------------------------
Credits(n) == {i \in DOMAIN txns : txns[i].key = NoticeKey(n)}

\* Every run of the finance agent is one of Payments, the abstract specification: a
\* notice is credited at most once whoever its company is looked up to be, whether the
\* poll or a human posts it and however often; nothing is put aside or approved unpaid.
Promise == INSTANCE Payments WITH credits <- [n \in Notice |-> Credits(n)]
ImplementsPayments == Promise!Spec

\* Every run is one of Bank, the abstract specification of the accounts: a posting, which
\* reads the balance in one statement and writes it in a later one, is atomic to all the
\* others, and its key is used once, by whichever agent.
Teller == INSTANCE Bank WITH
            money <- balance,
            booked <- {[agent |-> txns[i].agent, amount |-> txns[i].amount, key |-> txns[i].key] :
                          i \in DOMAIN txns}
ImplementsBank == Teller!Spec

\* The validity of an account grows only with a fee that is charged to it in the same
\* transaction, and never for a payment that was already processed.
ExtensionIsPaid ==
    [][\A a \in Account : expires'[a] > expires[a] =>
          /\ Len(txns') = Len(txns) + 1
          /\ txns'[Len(txns')].agent = a /\ txns'[Len(txns')].amount < 0]_vars
=============================================================================
