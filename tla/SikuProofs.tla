------------------------------ MODULE SikuProofs ------------------------------
(***************************************************************************)
(* Proofs about SikuFinance, for any number of accounts, notices, callers   *)
(* and years: the rows are well-typed and no balance is negative, the books *)
(* balance and the chain verifies, validity is paid for, and the accounts   *)
(* implement the abstract Bank.                                             *)
(***************************************************************************)
EXTENDS SikuFinance, TLAPS

\* What makes a posting safe: it is made for an account, the account row is locked by
\* one transaction at a time, and the balance that transaction holds is still the
\* account's.
Locks ==
    /\ \A p \in Caller : call[p].pc \in {"begin", "locked"} => call[p].agent \in Account
    /\ \A p \in Caller : call[p].pc = "locked" => call[p].held = balance[call[p].agent]
    /\ \A p, q \in Caller : /\ call[p].pc = "locked" /\ call[q].pc = "locked"
                            /\ call[p].agent = call[q].agent
                            => p = q
    /\ \A n \in Notice : orders[n] # "none" => payee[n] \in Account
    /\ \A p \in Caller : call[p].kind = "annual" => call[p].amount = -1

Typed == TypeOK /\ Locks

USE NoticeAssumption, PollerAssumption, YearAssumption, PayersAssumption,
    ModesAssumption, LimitAssumption, EscapedAssumption, OpsAssumption
-----------------------------------------------------------------------------
(* The calls. *)

LEMMA KeysTyped ==
    /\ Blank \in AllKeys
    /\ \A n \in Notice : NoticeKey(n) \in AllKeys
    /\ \A k \in Key : ClientKey(k) \in AllKeys
    /\ \A a \in Account, i \in PayId \cup 0 .. MaxYear : PayKey(a, i) \in AllKeys
BY DEF AllKeys

LEMMA IdleTyped ==
    Idle \in Call /\ Idle.pc = "idle" /\ Idle.kind = "none" /\ Idle.amount = 0
BY KeysTyped DEF Idle, Call, CallPc

LEMMA PostingTyped ==
    ASSUME NEW kind \in {"none", "recharge", "deduct", "approve", "notice", "annual"},
           NEW agent \in Account, NEW amount \in Int, NEW key \in AllKeys,
           NEW note \in Notice \cup {0}
    PROVE  LET c == Posting(kind, agent, amount, key, note) IN
           /\ c \in Call
           /\ c.pc = "begin" /\ c.kind = kind /\ c.agent = agent /\ c.amount = amount
           /\ c.key = key /\ c.note = note
BY DEF Posting, Call, CallPc

\* The ways a call is changed.
Noted(c, pc, n)         == [c EXCEPT !.pc = pc, !.note = n]
Polled(c, n)            == [c EXCEPT !.pc = "read", !.kind = "notice", !.note = n]
Dated(c, until, lapsed) == [c EXCEPT !.until = until, !.lapsed = lapsed]
Gone(c, pc)             == [c EXCEPT !.pc = pc]
Holding(c, held)        == [c EXCEPT !.pc = "locked", !.held = held]

LEMMA NotedTyped ==
    ASSUME NEW c \in Call, NEW pc \in CallPc, NEW n \in Notice
    PROVE  LET d == Noted(c, pc, n) IN
           d \in Call /\ d.pc = pc /\ d.kind = c.kind /\ d.amount = c.amount /\ d.note = n
BY DEF Noted, Call

LEMMA PollTyped ==
    ASSUME NEW c \in Call, NEW n \in Notice
    PROVE  LET d == Polled(c, n) IN
           d \in Call /\ d.pc = "read" /\ d.kind = "notice" /\ d.amount = c.amount /\ d.note = n
BY DEF Polled, Call, CallPc

LEMMA YearTyped ==
    ASSUME NEW c \in Call, NEW until \in Nat, NEW lapsed \in BOOLEAN
    PROVE  LET d == Dated(c, until, lapsed) IN
           /\ d \in Call /\ d.pc = c.pc /\ d.kind = c.kind /\ d.amount = c.amount
           /\ d.agent = c.agent /\ d.key = c.key
BY DEF Dated, Call

LEMMA GoneTyped ==
    ASSUME NEW c \in Call, NEW pc \in CallPc
    PROVE  LET d == Gone(c, pc) IN
           /\ d \in Call /\ d.pc = pc /\ d.kind = c.kind /\ d.amount = c.amount
           /\ d.agent = c.agent /\ d.note = c.note
BY DEF Gone, Call

LEMMA HeldTyped ==
    ASSUME NEW c \in Call, NEW held \in Int
    PROVE  LET d == Holding(c, held) IN
           /\ d \in Call /\ d.pc = "locked" /\ d.held = held /\ d.kind = c.kind
           /\ d.amount = c.amount /\ d.agent = c.agent /\ d.key = c.key /\ d.note = c.note
BY DEF Holding, Call, CallPc

\* A call that is started, moved on or ended without locking anything.
LEMMA CallStep ==
    ASSUME Typed, NEW p \in Caller, NEW c \in Call, call' = [call EXCEPT ![p] = c],
           c.pc # "locked", c.pc = "begin" => c.agent \in Account,
           c.kind = "annual" => c.amount = -1
    PROVE  /\ call' \in [Caller -> Call]
           /\ \A q \in Caller : call'[q].pc \in {"begin", "locked"} => call'[q].agent \in Account
           /\ \A q \in Caller : call'[q].pc = "locked" => q # p /\ call[q].pc = "locked" /\ call'[q] = call[q]
           /\ \A q \in Caller : call'[q].kind = "annual" => call'[q].amount = -1
BY DEF Typed, TypeOK, Locks

LEMMA CallStepSafe ==
    ASSUME Typed, NEW p \in Caller, NEW c \in Call, call' = [call EXCEPT ![p] = c],
           c.pc # "locked", c.pc = "begin" => c.agent \in Account,
           c.kind = "annual" => c.amount = -1,
           UNCHANGED <<ledgerVars, orderVars, annualVars>>
    PROVE  Typed'
<1>1. call' \in [Caller -> Call]
  BY CallStep
<1>2. TypeOK'
  BY <1>1 DEF Typed, TypeOK, ledgerVars, orderVars, annualVars
<1>3. Locks'
  BY CallStep DEF Typed, Locks, ledgerVars, orderVars, annualVars
<1> QED BY <1>2, <1>3 DEF Typed
-----------------------------------------------------------------------------
LEMMA InitTyped == Init => Typed
<1> SUFFICES ASSUME Init PROVE Typed
  OBVIOUS
<1> USE DEF Init, LedgerInit
<1>1. TypeOK
  <2>1. txns \in Seq(Txn)
    OBVIOUS
  <2> QED BY <2>1, IdleTyped DEF TypeOK
<1>2. Locks
  BY IdleTyped DEF Locks
<1> QED BY <1>1, <1>2 DEF Typed

LEMMA RechargeTyped ==
    ASSUME Typed, NEW r \in Req, NEW a \in Account, NEW k \in Key, RechargeCall(r, a, k)
    PROVE  Typed'
<1> DEFINE c == Posting("recharge", a, 1, ClientKey(k), 0)
<1>1. c \in Call /\ c.pc = "begin" /\ c.agent = a /\ c.kind = "recharge"
  BY KeysTyped, PostingTyped
<1>2. call' = [call EXCEPT ![r] = c] /\ UNCHANGED <<ledgerVars, orderVars, annualVars>>
  BY DEF RechargeCall, Start
<1> HIDE DEF c
<1> QED BY <1>1, <1>2, CallStepSafe DEF Caller

LEMMA DeductTyped ==
    ASSUME Typed, NEW r \in Req, NEW a \in Account,
           NEW key \in {ClientKey(k) : k \in Key} \cup {Blank}, DeductCall(r, a, key)
    PROVE  Typed'
<1> DEFINE c == Posting("deduct", a, -1, key, 0)
<1>0. key \in AllKeys /\ -1 \in Int
  BY KeysTyped
<1>1. c \in Call /\ c.pc = "begin" /\ c.agent = a /\ c.kind = "deduct"
  BY <1>0, PostingTyped
<1>2. call' = [call EXCEPT ![r] = c] /\ UNCHANGED <<ledgerVars, orderVars, annualVars>>
  BY DEF DeductCall, Start
<1> HIDE DEF c
<1> QED BY <1>1, <1>2, CallStepSafe DEF Caller

LEMMA ApproveTyped ==
    ASSUME Typed, NEW r \in Req, NEW n \in Notice, Approve(r, n)
    PROVE  Typed'
<1> DEFINE c == Posting("approve", payee[n], 1, NoticeKey(n), n)
<1>0. payee[n] \in Account
  BY DEF Typed, Locks, Approve
<1>1. c \in Call /\ c.pc = "begin" /\ c.agent = payee[n] /\ c.kind = "approve"
  BY <1>0, KeysTyped, PostingTyped
<1>2. call' = [call EXCEPT ![r] = c] /\ UNCHANGED <<ledgerVars, orderVars, annualVars>>
  BY DEF Approve, Start
<1> HIDE DEF c
<1> QED BY <1>0, <1>1, <1>2, CallStepSafe DEF Caller

LEMMA RejectTyped ==
    ASSUME Typed, NEW r \in Req, NEW n \in Notice, Reject(r, n)
    PROVE  Typed'
<1> DEFINE c == Noted(Idle, "reject", n)
<1>1. c \in Call /\ c.pc = "reject" /\ c.kind = "none"
  <2>1. "reject" \in CallPc
    BY DEF CallPc
  <2> QED BY <2>1, IdleTyped, NotedTyped
<1>2. call' = [call EXCEPT ![r] = c] /\ UNCHANGED <<ledgerVars, orderVars, annualVars>>
  BY DEF Reject, Start, Noted
<1> HIDE DEF c
<1> QED BY <1>1, <1>2, CallStepSafe DEF Caller

LEMMA PayReadTyped ==
    ASSUME Typed, NEW r \in Req, NEW a \in Account, NEW id \in PayId \cup {0}, PayRead(r, a, id)
    PROVE  Typed'
<1> DEFINE until == (IF expires[a] > year THEN expires[a] ELSE year) + 1
           key   == PayKey(a, IF id \in PayId THEN id ELSE until)
           b     == Posting("annual", a, -1, key, 0)
           lapsed == ~active[a]
           c     == Dated(b, until, lapsed)
<1>0. until \in Nat /\ until \in 0 .. MaxYear
  BY DEF Typed, TypeOK, PayRead
<1>1. key \in AllKeys
  BY <1>0, KeysTyped
<1>2. lapsed \in BOOLEAN /\ -1 \in Int
  BY DEF Typed, TypeOK
<1>3. call' = [call EXCEPT ![r] = c] /\ UNCHANGED <<ledgerVars, orderVars, annualVars>>
  BY DEF PayRead, Start, Dated
<1> HIDE DEF until, key, lapsed
<1>4. b \in Call /\ b.pc = "begin" /\ b.agent = a /\ b.kind = "annual" /\ b.amount = -1
  BY <1>1, <1>2, PostingTyped
<1> HIDE DEF b
<1>5. c \in Call /\ c.pc = "begin" /\ c.agent = a /\ c.kind = "annual" /\ c.amount = -1
  BY <1>0, <1>2, <1>4, YearTyped
<1> HIDE DEF c
<1> QED BY <1>3, <1>5, CallStepSafe DEF Caller

LEMMA LockTyped ==
    ASSUME Typed, NEW p \in Caller, BeginPosting(p)
    PROVE  Typed'
<1> DEFINE c == Holding(call[p], balance[call[p].agent])
<1>0. call[p] \in Call /\ call[p].agent \in Account /\ balance[call[p].agent] \in Nat
  BY DEF Typed, TypeOK, Locks, BeginPosting, Lock
<1>1. c \in Call /\ c.pc = "locked" /\ c.agent = call[p].agent
      /\ c.held = balance[call[p].agent] /\ c.kind = call[p].kind /\ c.amount = call[p].amount
  BY <1>0, HeldTyped
<1>2. call' = [call EXCEPT ![p] = c] /\ UNCHANGED <<ledgerVars, orderVars, annualVars>>
  BY DEF BeginPosting, Lock, Typed, TypeOK, Holding
<1>3. \A q \in Caller : call[q].pc = "locked" => call[q].agent # call[p].agent
  BY DEF BeginPosting, Lock, Held
<1> HIDE DEF c
<1>4. TypeOK'
  BY <1>1, <1>2 DEF Typed, TypeOK, ledgerVars, orderVars, annualVars
<1>5. Locks'
  BY <1>0, <1>1, <1>2, <1>3 DEF Typed, TypeOK, Locks, ledgerVars, orderVars, annualVars
<1> QED BY <1>4, <1>5 DEF Typed
-----------------------------------------------------------------------------
(* What a posting writes. *)

\* Transaction i is the last one of agent a; an agent with transactions has one.
IsLast(a, i) == /\ i \in DOMAIN txns /\ txns[i].agent = a
                /\ \A j \in DOMAIN txns : txns[j].agent = a => j <= i
HasLast == \A a \in Account : \/ \A i \in DOMAIN txns : txns[i].agent # a
                              \/ \E i \in DOMAIN txns : IsLast(a, i)

Books == Typed /\ HasLast /\ ChainVerifies

LEMMA LastIs ==
    ASSUME HasLast, NEW a \in Account
    PROVE  \/ Last(a) = 0 /\ \A i \in DOMAIN txns : txns[i].agent # a
           \/ IsLast(a, Last(a))
BY DEF HasLast, IsLast, Last

LEMMA LastUnique ==
    ASSUME txns \in Seq(Txn), NEW a \in Account, NEW i, IsLast(a, i)
    PROVE  Last(a) = i
<1>1. IsLast(a, Last(a))
  BY DEF IsLast, Last
<1>2. i \in Nat /\ Last(a) \in Nat /\ i <= Last(a) /\ Last(a) <= i
  BY <1>1 DEF IsLast
<1> QED BY <1>2

\* The transaction a call posts.
Entry(c) == [agent |-> c.agent, amount |-> c.amount, after |-> c.held + c.amount,
             key |-> c.key, prev |-> Last(c.agent)]

LEMMA EntryTyped ==
    ASSUME Books, NEW p \in Caller, call[p].pc = "locked"
    PROVE  LET c == call[p] IN
           /\ c \in Call /\ c.agent \in Account /\ c.amount \in Int /\ c.held \in Nat
           /\ c.held = balance[c.agent]
           /\ Last(c.agent) \in Nat /\ Last(c.agent) <= Len(txns)
           /\ Entry(c) \in Txn
           /\ Entry(c).agent = c.agent /\ Entry(c).amount = c.amount
           /\ Entry(c).after = c.held + c.amount /\ Entry(c).key = c.key
           /\ Entry(c).prev = Last(c.agent)
<1> DEFINE c == call[p]
<1>1. c \in Call /\ c.agent \in Account /\ c.held = balance[c.agent]
  BY DEF Books, Typed, TypeOK, Locks
<1>2. c.held \in Nat /\ c.amount \in Int /\ c.key \in AllKeys
  BY <1>1 DEF Books, Typed, TypeOK, Call
<1>3. Last(c.agent) \in Nat /\ Last(c.agent) <= Len(txns)
  <2>1. txns \in Seq(Txn)
    BY DEF Books, Typed, TypeOK
  <2>2. Last(c.agent) = 0 \/ IsLast(c.agent, Last(c.agent))
    BY <1>1, LastIs DEF Books
  <2> QED BY <2>1, <2>2 DEF IsLast
<1> HIDE DEF c
<1>4. c.held + c.amount \in Int
  BY <1>2
<1>5. Entry(c) \in Txn
  BY <1>1, <1>2, <1>3, <1>4 DEF Entry, Txn
<1>6. /\ Entry(c).agent = c.agent /\ Entry(c).amount = c.amount
      /\ Entry(c).after = c.held + c.amount /\ Entry(c).key = c.key
      /\ Entry(c).prev = Last(c.agent)
  BY DEF Entry
<1> QED BY <1>1, <1>2, <1>3, <1>5, <1>6 DEF c

LEMMA PostedBooks ==
    ASSUME Books, NEW p \in Caller, call[p].pc = "locked",
           Outcome(call[p]) = "ok", Posted(call[p])
    PROVE  /\ balance' \in [Account -> Nat] /\ txns' \in Seq(Txn)
           /\ HasLast' /\ ChainVerifies'
           /\ \A a \in Account \ {call[p].agent} : balance'[a] = balance[a]
<1>1. PICK owner \in Account, amount \in Int, held \in Nat, last \in Nat, e \in Txn, n \in Nat :
         /\ owner = call[p].agent /\ amount = call[p].amount
         /\ held = call[p].held /\ held = balance[owner]
         /\ last = Last(owner) /\ last <= Len(txns) /\ n = Len(txns) + 1
         /\ e = Entry(call[p]) /\ e.agent = owner /\ e.amount = amount
         /\ e.after = held + amount /\ e.prev = last
  <2>1. txns \in Seq(Txn)
    BY DEF Books, Typed, TypeOK
  <2>2. Len(txns) + 1 \in Nat
    BY <2>1
  <2> QED BY <2>2, EntryTyped, SMTT(20)
<1>2. balance' = [balance EXCEPT ![owner] = held + amount] /\ txns' = Append(txns, e)
  BY <1>1 DEF Posted, Entry
<1>3. amount < 0 => held + amount >= 0
  BY <1>1 DEF Outcome, Covered
<1>4. balance \in [Account -> Nat] /\ txns \in Seq(Txn) /\ HasLast /\ ChainVerifies
  BY DEF Books, Typed, TypeOK
<1>5. held + amount \in Nat
  BY <1>3
<1>6. balance' \in [Account -> Nat] /\ balance'[owner] = held + amount
      /\ \A a \in Account \ {owner} : balance'[a] = balance[a]
  BY <1>2, <1>4, <1>5
<1>7. /\ txns' \in Seq(Txn) /\ n \in Nat \ {0} /\ DOMAIN txns = 1 .. Len(txns)
      /\ DOMAIN txns' = DOMAIN txns \cup {n} /\ n \notin DOMAIN txns
      /\ txns'[n] = e /\ \A i \in DOMAIN txns : txns'[i] = txns[i]
      /\ \A i \in DOMAIN txns : i < n /\ i \in Nat \ {0}
  BY <1>1, <1>2, <1>4
<1>8. IsLast(owner, n)'
  BY <1>1, <1>7 DEF IsLast
<1>9. \A a \in Account \ {owner}, i \in DOMAIN txns : IsLast(a, i) => IsLast(a, i)'
  BY <1>1, <1>7 DEF IsLast
<1>10. \A a \in Account \ {owner} :
          (\A i \in DOMAIN txns : txns[i].agent # a) => (\A i \in DOMAIN txns' : txns'[i].agent # a)
  BY <1>1, <1>7
<1>11. HasLast'
  <2> SUFFICES ASSUME NEW a \in Account
               PROVE  \/ \A i \in DOMAIN txns' : txns'[i].agent # a
                      \/ \E i \in DOMAIN txns' : IsLast(a, i)'
    BY DEF HasLast
  <2>1. CASE a = owner
    BY <2>1, <1>7, <1>8
  <2>2. CASE a # owner
    BY <2>2, <1>4, <1>7, <1>9, <1>10 DEF HasLast
  <2> QED BY <2>1, <2>2
<1>12. \A a \in Account, i \in DOMAIN txns' : IsLast(a, i)' => Last(a)' = i
  <2> SUFFICES ASSUME NEW a \in Account, NEW i \in DOMAIN txns', IsLast(a, i)'
               PROVE  Last(a)' = i
    OBVIOUS
  <2>1. IsLast(a, Last(a))'
    BY DEF IsLast, Last
  <2>2. i \in Nat /\ Last(a)' \in Nat /\ i <= Last(a)' /\ Last(a)' <= i
    BY <2>1, <1>7 DEF IsLast
  <2> QED BY <2>2
<1>13. Last(owner)' = n
  BY <1>7, <1>8, <1>12
<1>14. \A a \in Account \ {owner} : Last(a)' = Last(a)
  <2> SUFFICES ASSUME NEW a \in Account \ {owner} PROVE Last(a)' = Last(a)
    OBVIOUS
  <2>1. CASE IsLast(a, Last(a))
    <3>1. PICK l \in DOMAIN txns : l = Last(a) /\ IsLast(a, l)
      BY <2>1 DEF IsLast
    <3> QED BY <3>1, <1>7, <1>9, <1>12
  <2>2. CASE Last(a) = 0 /\ \A i \in DOMAIN txns : txns[i].agent # a
    BY <2>2, <1>10 DEF Last
  <2> QED BY <2>1, <2>2, <1>4, LastIs
<1>15. \A a \in Account : balance'[a] = IF Last(a)' = 0 THEN 0 ELSE txns'[Last(a)'].after
  <2> SUFFICES ASSUME NEW a \in Account
               PROVE  balance'[a] = IF Last(a)' = 0 THEN 0 ELSE txns'[Last(a)'].after
    OBVIOUS
  <2>1. CASE a = owner
    BY <2>1, <1>1, <1>6, <1>7, <1>13
  <2>2. CASE a # owner
    <3>1. balance[a] = IF Last(a) = 0 THEN 0 ELSE txns[Last(a)].after
      BY <1>4 DEF ChainVerifies
    <3>2. Last(a) = 0 \/ Last(a) \in DOMAIN txns
      BY <1>4, LastIs DEF IsLast
    <3> QED BY <2>2, <3>1, <3>2, <1>6, <1>7, <1>14
  <2> QED BY <2>1, <2>2
<1>16. \A i \in DOMAIN txns' :
          /\ txns'[i].prev < i
          /\ txns'[i].prev # 0 => txns'[txns'[i].prev].agent = txns'[i].agent
          /\ \A j \in DOMAIN txns' :
                txns'[j].agent = txns'[i].agent /\ j < i => j <= txns'[i].prev
          /\ txns'[i].after = Before(i)' + txns'[i].amount
  <2> SUFFICES ASSUME NEW i \in DOMAIN txns'
               PROVE  /\ txns'[i].prev < i
                      /\ txns'[i].prev # 0 => txns'[txns'[i].prev].agent = txns'[i].agent
                      /\ \A j \in DOMAIN txns' :
                            txns'[j].agent = txns'[i].agent /\ j < i => j <= txns'[i].prev
                      /\ txns'[i].after = Before(i)' + txns'[i].amount
    OBVIOUS
  <2>1. CASE i = n
    <3>1. last = 0 \/ (last \in DOMAIN txns /\ txns[last].agent = owner)
      BY <1>1, <1>4, LastIs DEF IsLast
    <3>2. \A j \in DOMAIN txns : txns[j].agent = owner => j <= last
      BY <1>1, <1>4, LastIs DEF IsLast
    <3>3. held = IF last = 0 THEN 0 ELSE txns[last].after
      BY <1>1, <1>4 DEF ChainVerifies
    <3>4. Before(i)' = held
      BY <2>1, <3>1, <3>3, <1>1, <1>7 DEF Before
    <3> QED BY <2>1, <3>1, <3>2, <3>4, <1>1, <1>7
  <2>2. CASE i \in DOMAIN txns
    <3>1. /\ txns[i].prev < i
          /\ txns[i].prev # 0 => txns[txns[i].prev].agent = txns[i].agent
          /\ \A j \in DOMAIN txns : txns[j].agent = txns[i].agent /\ j < i => j <= txns[i].prev
          /\ txns[i].after = Before(i) + txns[i].amount
      BY <2>2, <1>4 DEF ChainVerifies
    <3> txns[i] \in Txn
      BY <2>2, <1>4
    <3>2. txns[i].prev \in Nat
      BY DEF Txn
    <3>3. txns[i].prev = 0 \/ txns[i].prev \in DOMAIN txns
      BY <2>2, <3>1, <3>2, <1>4
    <3>4. Before(i)' = Before(i)
      BY <2>2, <3>3, <1>7 DEF Before
    <3> QED BY <2>2, <3>1, <3>3, <3>4, <1>7
  <2> QED BY <2>1, <2>2, <1>7
<1>17. ChainVerifies'
  BY <1>15, <1>16 DEF ChainVerifies
<1> QED BY <1>1, <1>6, <1>7, <1>11, <1>17
-----------------------------------------------------------------------------
(* The actions. *)

LEMMA BooksKept ==
    ASSUME Books, Typed', UNCHANGED ledgerVars
    PROVE  Books'
<1>1. txns' = txns /\ balance' = balance
  BY DEF ledgerVars
<1>2. HasLast'
  BY <1>1 DEF Books, HasLast, IsLast
<1>3. \A a \in Account : Last(a)' = Last(a)
  BY <1>1 DEF Last
<1>4. ChainVerifies'
  BY <1>1, <1>3 DEF Books, ChainVerifies, Before
<1> QED BY <1>2, <1>4 DEF Books

LEMMA ReleaseTyped ==
    ASSUME Books, NEW p \in Caller, call[p].pc = "locked",
           NEW d \in Call, d.pc \notin {"begin", "locked"}, d.kind = "annual" => d.amount = -1,
           call' = [call EXCEPT ![p] = d],
           balance' \in [Account -> Nat], txns' \in Seq(Txn),
           \A a \in Account \ {call[p].agent} : balance'[a] = balance[a],
           expires' \in [Account -> Nat], expired' \in [Account -> BOOLEAN],
           active' \in [Account -> BOOLEAN], UNCHANGED <<due, year>>,
           UNCHANGED orderVars
    PROVE  Typed'
<1>1. /\ call' \in [Caller -> Call]
      /\ \A q \in Caller : call'[q].pc \in {"begin", "locked"} => call'[q].agent \in Account
      /\ \A q \in Caller : call'[q].pc = "locked" => q # p /\ call[q].pc = "locked" /\ call'[q] = call[q]
      /\ \A q \in Caller : call'[q].kind = "annual" => call'[q].amount = -1
  BY CallStep DEF Books
<1>2. TypeOK'
  BY <1>1 DEF Books, Typed, TypeOK, orderVars
<1>3. \A q \in Caller : call'[q].pc = "locked" => call'[q].held = balance'[call'[q].agent]
  <2> SUFFICES ASSUME NEW q \in Caller, call'[q].pc = "locked"
               PROVE  call'[q].held = balance'[call'[q].agent]
    OBVIOUS
  <2>1. q # p /\ call[q].pc = "locked" /\ call'[q] = call[q]
    BY <1>1
  <2>2. call[q].agent \in Account \ {call[p].agent} /\ call[q].held = balance[call[q].agent]
    BY <2>1 DEF Books, Typed, Locks
  <2> QED BY <2>1, <2>2
<1>4. Locks'
  BY <1>1, <1>3 DEF Books, Typed, Locks, orderVars
<1> QED BY <1>2, <1>4 DEF Typed

LEMMA CommitBooks ==
    ASSUME Books, NEW p \in Caller, Commit(p)
    PROVE  Books'
<1>1. call[p] \in Call /\ call[p].pc = "locked" /\ call[p].kind # "annual"
  BY DEF Books, Typed, TypeOK, Commit
<1>2. \E d \in Call : /\ d.pc \notin {"begin", "locked"} /\ d.kind # "annual"
                      /\ call' = [call EXCEPT ![p] = d]
  <2>1. CASE Goto(p, "decide") \/ Goto(p, "read")
    <3>1. PICK pc \in {"decide", "read"} : Goto(p, pc)
      BY <2>1
    <3>2. pc \in CallPc /\ pc \notin {"begin", "locked"}
      BY DEF CallPc
    <3>3. Gone(call[p], pc) \in Call /\ Gone(call[p], pc).pc = pc
          /\ Gone(call[p], pc).kind = call[p].kind
      BY <1>1, <3>2, GoneTyped
    <3>4. call' = [call EXCEPT ![p] = Gone(call[p], pc)]
      BY <3>1 DEF Goto, Gone, Books, Typed, TypeOK
    <3> QED BY <1>1, <3>2, <3>3, <3>4
  <2>2. CASE Return(p)
    BY <2>2, IdleTyped DEF Return
  <2> QED BY <2>1, <2>2 DEF Commit
<1>3. CASE Outcome(call[p]) = "ok" /\ Posted(call[p])
  <2>1. /\ balance' \in [Account -> Nat] /\ txns' \in Seq(Txn) /\ HasLast' /\ ChainVerifies'
        /\ \A a \in Account \ {call[p].agent} : balance'[a] = balance[a]
    BY <1>1, <1>3, PostedBooks
  <2>2. Typed'
    BY <1>1, <1>2, <2>1, ReleaseTyped DEF Books, Typed, TypeOK, Commit, annualVars
  <2> QED BY <2>1, <2>2 DEF Books
<1>4. CASE UNCHANGED ledgerVars
  <2>1. Typed'
    BY <1>1, <1>2, <1>4, ReleaseTyped DEF Books, Typed, TypeOK, Commit, annualVars, ledgerVars
  <2> QED BY <2>1, <1>4, BooksKept
<1> QED BY <1>3, <1>4 DEF Commit

LEMMA CommitPayBooks ==
    ASSUME Books, NEW r \in Req, CommitPay(r)
    PROVE  Books'
<1>1. r \in Caller /\ call[r] \in Call /\ call[r].pc = "locked" /\ call[r].agent \in Account
      /\ call[r].until \in Nat
  BY DEF Books, Typed, TypeOK, Locks, CommitPay, Caller, Call
<1>2. /\ Idle \in Call /\ Idle.pc \notin {"begin", "locked"} /\ Idle.kind # "annual"
      /\ call' = [call EXCEPT ![r] = Idle] /\ UNCHANGED orderVars
  BY IdleTyped DEF CommitPay, Return
<1>3. /\ expires' \in [Account -> Nat] /\ expired' \in [Account -> BOOLEAN]
      /\ active' \in [Account -> BOOLEAN] /\ UNCHANGED <<due, year>>
  BY <1>1 DEF Books, Typed, TypeOK, CommitPay, Extended, annualVars
<1>4. CASE Outcome(call[r]) = "ok" /\ Posted(call[r])
  <2>1. /\ balance' \in [Account -> Nat] /\ txns' \in Seq(Txn) /\ HasLast' /\ ChainVerifies'
        /\ \A a \in Account \ {call[r].agent} : balance'[a] = balance[a]
    BY <1>1, <1>4, PostedBooks
  <2>2. Typed'
    BY <1>1, <1>2, <1>3, <2>1, ReleaseTyped
  <2> QED BY <2>1, <2>2 DEF Books
<1>5. CASE UNCHANGED ledgerVars
  <2>1. /\ balance' \in [Account -> Nat] /\ txns' \in Seq(Txn)
        /\ \A a \in Account \ {call[r].agent} : balance'[a] = balance[a]
    BY <1>5 DEF ledgerVars, Books, Typed, TypeOK
  <2>2. Typed'
    BY <1>1, <1>2, <1>3, <2>1, ReleaseTyped
  <2> QED BY <2>2, <1>5, BooksKept
<1> QED BY <1>4, <1>5 DEF CommitPay

\* A step that moves a call without locking, and leaves the ledger alone.
LEMMA QuietTyped ==
    ASSUME Typed, NEW p \in Caller, NEW d \in Call, d.pc \notin {"begin", "locked"},
           d.kind = "annual" => d.amount = -1, call' = [call EXCEPT ![p] = d],
           UNCHANGED <<ledgerVars, annualVars>>,
           inbox' \in [Notice -> {"unsent", "unread", "read"}],
           orders' \in [Notice -> {"none", "pending", "approved", "rejected"}],
           payee' \in [Notice -> Account \cup {NoAccount}], todo' \subseteq Notice,
           \A n \in Notice : orders'[n] # "none" => payee'[n] \in Account
    PROVE  Typed'
<1>1. call' \in [Caller -> Call]
  BY CallStep
<1>2. TypeOK'
  BY <1>1 DEF Typed, TypeOK, ledgerVars, annualVars
<1>3. Locks'
  BY CallStep DEF Typed, Locks, ledgerVars
<1> QED BY <1>2, <1>3 DEF Typed

\* A step that leaves the ledger and the calls alone.
LEMMA RestTyped ==
    ASSUME Typed, UNCHANGED <<ledgerVars, call>>,
           inbox' \in [Notice -> {"unsent", "unread", "read"}],
           UNCHANGED <<orders, payee>>, todo' \subseteq Notice,
           expires' = expires, year' \in Nat, due' \subseteq Account,
           expired' \in [Account -> BOOLEAN], active' \in [Account -> BOOLEAN]
    PROVE  Typed'
<1>1. TypeOK'
  BY DEF Typed, TypeOK, ledgerVars
<1>2. Locks'
  BY DEF Typed, Locks, ledgerVars
<1> QED BY <1>1, <1>2 DEF Typed

LEMMA PollTakeTyped ==
    ASSUME Typed, NEW n \in Notice, PollTake(n)
    PROVE  Typed'
<1>1. /\ todo' \subseteq Notice /\ UNCHANGED <<ledgerVars, inbox, annualVars>>
      /\ inbox' \in [Notice -> {"unsent", "unread", "read"}]
      /\ orders \in [Notice -> {"none", "pending", "approved", "rejected"}]
      /\ payee \in [Notice -> Account \cup {NoAccount}] /\ Poller \in Caller
  BY DEF Typed, TypeOK, PollTake, Caller
<1>2. CASE PollSkip(n)
  <2>1. UNCHANGED <<call, orders, payee>>
    BY <1>2 DEF PollSkip
  <2> QED BY <1>1, <2>1, RestTyped DEF Typed, TypeOK, annualVars
<1>3. CASE PollQueue(n)
  <2> DEFINE d == Polled(Idle, n)
  <2>1. d \in Call /\ d.pc = "read" /\ d.kind = "notice"
    BY IdleTyped, PollTyped
  <2>2. call' = [call EXCEPT ![Poller] = d]
    BY <1>3 DEF PollQueue, Start, Polled
  <2> HIDE DEF d
  <2>3. PICK a \in Payers[n] :
           IF orders[n] = "none"
           THEN orders' = [orders EXCEPT ![n] = "pending"] /\ payee' = [payee EXCEPT ![n] = a]
           ELSE UNCHANGED <<orders, payee>>
    BY <1>3 DEF PollQueue
  <2>4. a \in Account
    BY <2>3
  <2>5. /\ orders' \in [Notice -> {"none", "pending", "approved", "rejected"}]
        /\ payee' \in [Notice -> Account \cup {NoAccount}]
        /\ \A m \in Notice : orders'[m] # "none" => payee'[m] \in Account
    BY <1>1, <2>3, <2>4 DEF Typed, Locks
  <2> QED BY <1>1, <2>1, <2>2, <2>5, QuietTyped
<1>4. CASE PollBelieve(n)
  <2>1. PICK a \in Payers[n] : Start(Poller, Posting("notice", a, 1, NoticeKey(n), n))
    BY <1>4 DEF PollBelieve
  <2> DEFINE d == Posting("notice", a, 1, NoticeKey(n), n)
  <2>2. a \in Account
    BY <2>1
  <2>3. d \in Call /\ d.pc = "begin" /\ d.agent = a /\ d.kind = "notice"
    BY <2>2, KeysTyped, PostingTyped
  <2>4. call' = [call EXCEPT ![Poller] = d] /\ UNCHANGED <<orders, payee>>
    BY <1>4, <2>1 DEF Start, PollBelieve
  <2> HIDE DEF d
  <2>5. call' \in [Caller -> Call]
    BY <1>1, <2>2, <2>3, <2>4, CallStep
  <2>6. TypeOK'
    BY <1>1, <2>4, <2>5 DEF Typed, TypeOK, ledgerVars, annualVars
  <2>7. Locks'
    BY <1>1, <2>2, <2>3, <2>4, CallStep DEF Typed, Locks, ledgerVars
  <2> QED BY <2>6, <2>7 DEF Typed
<1> QED BY <1>2, <1>3, <1>4 DEF PollTake

LEMMA PollReadTyped == ASSUME Typed, PollRead PROVE Typed'
<1>1. /\ Poller \in Caller /\ Idle \in Call /\ Idle.pc = "idle" /\ Idle.kind = "none"
      /\ call' = [call EXCEPT ![Poller] = Idle]
  BY IdleTyped DEF Caller, PollRead, Return
<1>2. inbox' \in [Notice -> {"unsent", "unread", "read"}]
  BY DEF PollRead, Typed, TypeOK
<1>3. UNCHANGED <<ledgerVars, annualVars>> /\ UNCHANGED <<orders, payee, todo>>
  BY DEF PollRead
<1> QED BY <1>1, <1>2, <1>3, QuietTyped DEF Typed, TypeOK, Locks

LEMMA DecideTyped ==
    ASSUME Typed, NEW r \in Req, NEW pc, NEW status \in {"approved", "rejected"},
           Decide(r, pc, status)
    PROVE  Typed'
<1>1. /\ r \in Caller /\ Idle \in Call /\ Idle.pc = "idle" /\ Idle.kind = "none"
      /\ call' = [call EXCEPT ![r] = Idle]
  BY IdleTyped DEF Caller, Decide, Return
<1>2. /\ orders' \in [Notice -> {"none", "pending", "approved", "rejected"}]
      /\ \A n \in Notice : orders'[n] # "none" => orders[n] # "none"
  BY DEF Decide, Typed, TypeOK
<1>3. UNCHANGED <<ledgerVars, annualVars>> /\ UNCHANGED <<inbox, payee, todo>>
  BY DEF Decide, annualVars
<1> QED BY <1>1, <1>2, <1>3, QuietTyped DEF Typed, TypeOK, Locks

LEMMA CrashTyped == ASSUME Typed, Crash PROVE Typed'
<1>1. TypeOK'
  BY IdleTyped DEF Typed, TypeOK, Crash, ledgerVars
<1>2. Locks'
  BY IdleTyped DEF Typed, Locks, Crash, ledgerVars
<1> QED BY <1>1, <1>2 DEF Typed

LEMMA NextBooks == ASSUME Books, [Next]_vars PROVE Books'
<1> USE DEF Books
<1>1. ASSUME NEW r \in Req, ClientCall(r) PROVE Books'
  <2>1. Typed'
    BY <1>1, RechargeTyped, DeductTyped, ApproveTyped, RejectTyped, PayReadTyped DEF ClientCall
  <2>2. UNCHANGED ledgerVars
    BY <1>1 DEF ClientCall, RechargeCall, DeductCall, Approve, Reject, PayRead
  <2> QED BY <2>1, <2>2, BooksKept
<1>2. ASSUME NEW r \in Req, CommitPay(r) PROVE Books'
  BY <1>2, CommitPayBooks
<1>3. ASSUME NEW r \in Req, Decide(r, "decide", "approved") \/ Decide(r, "reject", "rejected")
      PROVE  Books'
  <2>1. Typed'
    BY <1>3, DecideTyped
  <2>2. UNCHANGED ledgerVars
    BY <1>3 DEF Decide
  <2> QED BY <2>1, <2>2, BooksKept
<1>4. ASSUME NEW p \in Caller, BeginPosting(p) PROVE Books'
  BY <1>4, LockTyped, BooksKept DEF BeginPosting
<1>5. ASSUME NEW p \in Caller, Commit(p) PROVE Books'
  BY <1>5, CommitBooks
<1>6. ASSUME NEW n \in Notice, Send(n) PROVE Books'
  <2>1. Typed'
    BY <1>6, RestTyped DEF Send, Typed, TypeOK, annualVars
  <2> QED BY <1>6, <2>1, BooksKept DEF Send
<1>7. CASE Poll
  <2>1. CASE PollFetch
    <3>1. Typed'
      BY <2>1, RestTyped DEF PollFetch, Typed, TypeOK, annualVars, Unread
    <3> QED BY <2>1, <3>1, BooksKept DEF PollFetch
  <2>2. CASE PollRead
    BY <2>2, PollReadTyped, BooksKept DEF PollRead
  <2>3. ASSUME NEW n \in Notice, PollTake(n) PROVE Books'
    BY <2>3, PollTakeTyped, BooksKept DEF PollTake
  <2> QED BY <1>7, <2>1, <2>2, <2>3 DEF Poll
<1>8. CASE Cron \/ NewYear
  <2>1. CASE CronSelect
    <3>1. Typed'
      BY <2>1, RestTyped DEF CronSelect, Typed, TypeOK, orderVars
    <3> QED BY <2>1, <3>1, BooksKept DEF CronSelect
  <2>2. ASSUME NEW a \in Account, CronMark(a) PROVE Books'
    <3>1. Typed'
      BY <2>2, RestTyped DEF CronMark, Typed, TypeOK, orderVars
    <3> QED BY <2>2, <3>1, BooksKept DEF CronMark
  <2>3. CASE NewYear
    <3>1. Typed'
      BY <2>3, RestTyped DEF NewYear, Typed, TypeOK, orderVars
    <3> QED BY <2>3, <3>1, BooksKept DEF NewYear
  <2> QED BY <1>8, <2>1, <2>2, <2>3 DEF Cron
<1>9. CASE Crash
  BY <1>9, CrashTyped, BooksKept DEF Crash
<1>10. CASE UNCHANGED vars
  <2>1. Typed'
    BY <1>10 DEF vars, Typed, TypeOK, Locks
  <2> QED BY <1>10, <2>1, BooksKept DEF vars, ledgerVars
<1> QED BY <1>1, <1>2, <1>3, <1>4, <1>5, <1>6, <1>7, <1>8, <1>9, <1>10 DEF Next

\* The inductive invariant of the ledger: a transaction that holds an account row reads
\* the balance the last transaction left, so whoever commits continues the chain.
THEOREM BooksHold == Spec => []Books
<1>1. Init => Books
  BY InitTyped DEF Init, LedgerInit, Books, HasLast, ChainVerifies, Last
<1>2. Books /\ [Next]_vars => Books'
  BY NextBooks
<1> QED BY <1>1, <1>2, PTL DEF Spec

\* The columns keep their types, and no balance is ever negative.
THEOREM AccountsTyped == Spec => []TypeOK
<1>1. Books => TypeOK
  BY DEF Books, Typed
<1> QED BY <1>1, BooksHold, PTL

\* The books balance and the hash chain of every agent verifies.
THEOREM ChainHolds == Spec => []ChainVerifies
<1>1. Books => ChainVerifies
  BY DEF Books
<1> QED BY <1>1, BooksHold, PTL
-----------------------------------------------------------------------------
(* Validity is paid for: expires_at is written in the transaction of a        *)
(* deduct, and only when that deduct was charged.                              *)
LEMMA ExtensionStep ==
    ASSUME Books, [Next]_vars, NEW a \in Account, expires'[a] > expires[a]
    PROVE  /\ Len(txns') = Len(txns) + 1
           /\ txns'[Len(txns')].agent = a /\ txns'[Len(txns')].amount < 0
<1>1. expires[a] \in Nat
  BY DEF Books, Typed, TypeOK
<1>2. expires' # expires
  BY <1>1
<1>3. PICK r \in Req : CommitPay(r)
  BY <1>2 DEF Next, vars, annualVars, ClientCall, RechargeCall, DeductCall, Approve, Reject,
     PayRead, Decide, BeginPosting, Commit, Send, Poll, PollFetch, PollRead, PollTake, Cron,
     CronSelect, CronMark, NewYear, Crash
<1>4. r \in Caller /\ call[r].pc = "locked" /\ call[r].kind = "annual"
  BY <1>3 DEF CommitPay, Caller
<1>5. Outcome(call[r]) = "ok" /\ Posted(call[r]) /\ Extended(call[r])
  BY <1>2, <1>3 DEF CommitPay, Extends, annualVars
<1>6. a = call[r].agent
  BY <1>1, <1>5 DEF Extended, Books, Typed, TypeOK
<1>7. PICK e \in Txn : e = Entry(call[r]) /\ e.agent = a /\ e.amount = -1
  BY <1>4, <1>6, EntryTyped DEF Books, Typed, Locks
<1>8. txns' = Append(txns, e) /\ txns \in Seq(Txn)
  BY <1>5, <1>7 DEF Posted, Entry, Books, Typed, TypeOK
<1>9. Len(txns') = Len(txns) + 1 /\ txns'[Len(txns')] = e
  BY <1>8
<1> QED BY <1>7, <1>9

\* An account's validity grows only with a fee charged in the same transaction.
THEOREM ExtensionsArePaid == Spec => ExtensionIsPaid
<1>1. Books /\ [Next]_vars =>
         \A a \in Account : expires'[a] > expires[a] =>
            /\ Len(txns') = Len(txns) + 1
            /\ txns'[Len(txns')].agent = a /\ txns'[Len(txns')].amount < 0
  BY ExtensionStep
<1> QED BY <1>1, BooksHold, PTL DEF Spec, ExtensionIsPaid
-----------------------------------------------------------------------------
(* The accounts as their callers see them.                                    *)
Booking(t) == [agent |-> t.agent, amount |-> t.amount, key |-> t.key]
Booked     == {Booking(txns[i]) : i \in DOMAIN txns}

\* A posting that commits is a booking upon the balance of that moment.
LEMMA PostedIsBooked ==
    ASSUME Books, NEW p \in Caller, call[p].pc = "locked",
           Outcome(call[p]) = "ok", Posted(call[p])
    PROVE  Teller!Book
<1>1. PICK e \in Txn : /\ e = Entry(call[p]) /\ e.key = call[p].key
                       /\ e.agent = call[p].agent /\ e.amount = call[p].amount
  BY EntryTyped
<1>2. txns' = Append(txns, e) /\ txns \in Seq(Txn)
  BY <1>1 DEF Posted, Entry, Books, Typed, TypeOK
<1>3. \A i \in DOMAIN txns : txns[i].key # e.key
  BY <1>1 DEF Outcome, KeyTaken
<1>4. /\ DOMAIN txns' = DOMAIN txns \cup {Len(txns) + 1} /\ txns'[Len(txns) + 1] = e
      /\ \A i \in DOMAIN txns : txns'[i] = txns[i]
  BY <1>2
<1>5. Booked' = Booked \cup {Booking(e)}
  BY <1>4 DEF Booked
<1> DEFINE b == Booking(e)
<1>6. b.agent = e.agent /\ b.amount = e.amount /\ b.key = e.key
  BY DEF Booking
<1> HIDE DEF b
<1>7. \A x \in Booked : x.key # b.key
  BY <1>3, <1>6 DEF Booked, Booking
<1>8. PICK a \in Account, held \in Nat, n \in Int :
         /\ a = e.agent /\ n = e.amount
         /\ a = call[p].agent /\ n = call[p].amount /\ held = call[p].held
         /\ held = balance[a]
  BY <1>1, EntryTyped
<1>9. balance' = [balance EXCEPT ![a] = balance[a] + n] /\ balance \in [Account -> Nat]
  BY <1>8 DEF Posted, Books, Typed, TypeOK
<1>10. n < 0 => held + n >= 0
  BY <1>8 DEF Outcome, Covered
<1>11. n < 0 => balance'[a] >= 0
  BY <1>8, <1>9, <1>10
<1>12. /\ b \in Booked' /\ Booked' = Booked \cup {b}
       /\ balance' = [balance EXCEPT ![b.agent] = @ + b.amount]
       /\ b.amount < 0 => balance'[b.agent] >= 0
  BY <1>5, <1>6, <1>8, <1>9, <1>11 DEF b
<1> QED BY <1>7, <1>12 DEF Teller!Book, Booked, Booking

\* For any number of accounts and callers the two statements of a posting implement one
\* atomic booking: none is lost or made of money that is not there, and no key serves twice.
THEOREM BankRefined == Spec => ImplementsBank
<1>1. Init => Teller!Init
  BY DEF Init, LedgerInit, Teller!Init
<1>2. ASSUME Books, [Next]_vars PROVE [Teller!Book]_(Teller!vars)
  <2>1. CASE UNCHANGED ledgerVars
    BY <2>1 DEF ledgerVars, Teller!vars
  <2>2. ASSUME NEW p \in Caller, call[p].pc = "locked", Outcome(call[p]) = "ok", Posted(call[p])
        PROVE  Teller!Book
    BY <1>2, <2>2, PostedIsBooked
  <2>3. ASSUME NEW p \in Caller, Commit(p) PROVE [Teller!Book]_(Teller!vars)
    BY <2>1, <2>2, <2>3 DEF Commit
  <2>4. ASSUME NEW r \in Req, CommitPay(r) PROVE [Teller!Book]_(Teller!vars)
    BY <2>1, <2>2, <2>4 DEF CommitPay, Caller
  <2>5. \/ UNCHANGED ledgerVars
        \/ \E p \in Caller : Commit(p)
        \/ \E r \in Req : CommitPay(r)
    BY <1>2 DEF Next, vars, ledgerVars, ClientCall, RechargeCall, DeductCall, Approve, Reject,
       PayRead, Decide, BeginPosting, Send, Poll, PollFetch, PollRead, PollTake, Cron,
       CronSelect, CronMark, NewYear, Crash
  <2> QED BY <2>1, <2>3, <2>4, <2>5
<1> QED BY <1>1, <1>2, BooksHold, PTL DEF Spec, ImplementsBank, Teller!Spec
=============================================================================
