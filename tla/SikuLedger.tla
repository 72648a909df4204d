------------------------------ MODULE SikuLedger ------------------------------
(***************************************************************************)
(* The accounts of siku/account_service.py: recharge and deduct run inside *)
(* a transaction of their caller, lock the account row (FOR UPDATE), look  *)
(* the idempotency key up, and write the new balance and a transaction     *)
(* that is linked to the agent's last one.  The account row stays locked   *)
(* until the caller commits, so a posting is two actions: Lock, which      *)
(* reads the balance, and the caller's commit, which applies Posted.       *)
(***************************************************************************)
EXTENDS Integers, Sequences

CONSTANTS
    Account,    \* the agents that have an account
    Notice,     \* the payment_notify messages, numbered in order of created_at
    Key,        \* the idempotency keys clients choose
    PayId,      \* the request_ids of annual payments
    Req,        \* the calls that may be in flight at one time
    Poller,     \* the loop of the finance agent, a caller like the others
    NoAccount,
    MaxYear     \* bound on the years an account may be paid for

ASSUME NoticeAssumption == Notice \subseteq Nat \ {0}
ASSUME PollerAssumption == Poller \notin Req /\ NoAccount \notin Account
ASSUME YearAssumption   == MaxYear \in Nat

\* The idempotency keys, by their prefixes; Blank is the default of a deduct.
NoticeKey(n) == <<"finance_agent", n>>
ClientKey(k) == <<"client", k>>
PayKey(a, i) == <<"annual_pay", a, i>>      \* i: a request_id, or a year
Blank        == <<"blank">>
AllKeys == {NoticeKey(n) : n \in Notice} \cup {ClientKey(k) : k \in Key}
           \cup {PayKey(a, i) : a \in Account, i \in PayId \cup 0 .. MaxYear} \cup {Blank}

VARIABLES
    balance,    \* accounts.balance_fen (frozen_fen is never written)
    txns,       \* transactions, in order of txn_id
    call        \* the local state of each caller

ledgerVars == <<balance, txns>>

Caller == Req \cup {Poller}

\* prev: the number of the transaction whose row_hash this one repeats, 0 for GENESIS.
Txn == [agent : Account, amount : Int, after : Int, key : AllKeys, prev : Nat]

CallPc == {"idle", "begin", "locked", "decide", "reject", "read"}
\* held: the balance read under the lock; until, lapsed: what annual_pay read.
Call == [pc : CallPc,
         kind : {"none", "recharge", "deduct", "approve", "notice", "annual"},
         agent : Account \cup {NoAccount}, amount : Int, key : AllKeys,
         held : Int, note : Notice \cup {0}, until : Nat, lapsed : BOOLEAN]
Idle == [pc |-> "idle", kind |-> "none", agent |-> NoAccount, amount |-> 0,
         key |-> Blank, held |-> 0, note |-> 0, until |-> 0, lapsed |-> FALSE]

\* A call that is about to post an amount, for a notice or for none (0).
Posting(kind, agent, amount, key, note) ==
    [pc |-> "begin", kind |-> kind, agent |-> agent, amount |-> amount, key |-> key,
     held |-> 0, note |-> note, until |-> 0, lapsed |-> FALSE]

LedgerInit == /\ balance = [a \in Account |-> 0]
              /\ txns = <<>>
              /\ call = [p \in Caller |-> Idle]
-----------------------------------------------------------------------------
\* Faulty variants: a SELECT without FOR UPDATE, a deduct that does not look at the
\* balance, a unique index on (agent_id, idempotency_key).
NeverHeld(a)             == FALSE
CoveredAlways(c)         == TRUE
KeyTakenByAgent(agent, key) == \E i \in DOMAIN txns : txns[i].key = key /\ txns[i].agent = agent

\* Somebody's transaction holds the account row.
Held(a) == \E p \in Caller : call[p].pc = "locked" /\ call[p].agent = a

\* SELECT ... FOR UPDATE.
Lock(p) ==
    /\ call[p].pc = "begin"
    /\ ~Held(call[p].agent)
    /\ call' = [call EXCEPT ![p].pc = "locked", ![p].held = balance[call[p].agent]]

\* A transaction of this agent with this key: already_processed.
Known(agent, key) ==
    key # Blank /\ \E i \in DOMAIN txns : txns[i].key = key /\ txns[i].agent = agent

\* The unique index is on the key alone, and '' is a key to it like any other.
KeyTaken(agent, key) == \E i \in DOMAIN txns : txns[i].key = key

\* A negative amount is a deduct, which needs the money to be there.
Covered(c) == c.amount < 0 => c.held + c.amount >= 0

\* What the posting of call c comes to.
Outcome(c) == IF Known(c.agent, c.key) THEN "known"
              ELSE IF ~Covered(c) THEN "insufficient"
              ELSE IF KeyTaken(c.agent, c.key) THEN "unique_violation"
              ELSE "ok"

\* The last transaction of an agent, 0 if it has none.
Last(a) == IF \E i \in DOMAIN txns : txns[i].agent = a
           THEN CHOOSE i \in DOMAIN txns :
                   /\ txns[i].agent = a
                   /\ \A j \in DOMAIN txns : txns[j].agent = a => j <= i
           ELSE 0

\* The balance and the transaction a posting writes.
Posted(c) ==
    /\ balance' = [balance EXCEPT ![c.agent] = c.held + c.amount]
    /\ txns' = Append(txns, [agent |-> c.agent, amount |-> c.amount,
                             after |-> c.held + c.amount, key |-> c.key,
                             prev |-> Last(c.agent)])
-----------------------------------------------------------------------------
\* The balance a transaction starts from.
Before(i) == IF txns[i].prev = 0 THEN 0 ELSE txns[txns[i].prev].after

\* verify_chain finds nothing, and the books balance: every transaction of an agent
\* follows its previous one, starts from the balance that one left, and the account
\* holds what the last one left.
ChainVerifies ==
    /\ \A i \in DOMAIN txns :
          /\ txns[i].prev < i
          /\ txns[i].prev # 0 => txns[txns[i].prev].agent = txns[i].agent
          /\ \A j \in DOMAIN txns :
                txns[j].agent = txns[i].agent /\ j < i => j <= txns[i].prev
          /\ txns[i].after = Before(i) + txns[i].amount
    /\ \A a \in Account : balance[a] = IF Last(a) = 0 THEN 0 ELSE txns[Last(a)].after
=============================================================================
