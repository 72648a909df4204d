---------------------------- MODULE SikuRefinement ----------------------------
(***************************************************************************)
(* The finance agent implements Payments, for any number of notices,        *)
(* accounts and callers, as long as no voucher number breaks the audit      *)
(* record of its recharge (claim_unpaid shows what happens when one does).  *)
(***************************************************************************)
EXTENDS SikuProofs

\* Why a payment is never credited twice nor put aside or approved unpaid: whoever
\* posts a notice does it under that notice's key, and nobody else does; what waits to
\* be put aside is queued or credited; and only the poll puts a notice aside, once.
CallGood(p, c) ==
    /\ c.pc \in {"begin", "locked"} =>
          IF c.kind \in {"approve", "notice"}
          THEN c.note \in Notice /\ inbox[c.note] # "unsent" /\ c.key = NoticeKey(c.note)
          ELSE \A n \in Notice : c.key # NoticeKey(n)
    /\ c.pc = "decide" => c.note \in Notice /\ Credits(c.note) # {}
    /\ c.pc = "reject" => c.note \in Notice
    /\ c.pc = "read" => p = Poller /\ (orders[c.note] # "none" \/ Credits(c.note) # {})
    /\ c.pc # "idle" => (c.kind = "notice" <=> p = Poller)
    /\ c.pc # "idle" /\ p = Poller => c.note \in Notice \ todo /\ inbox[c.note] = "unread"

\* Every transaction has a key of its own.
KeysUnique == \A i, j \in DOMAIN txns : txns[i].key = txns[j].key => i = j

PayInv == /\ KeysUnique
          /\ \A p \in Caller : CallGood(p, call[p])
          /\ \A n \in todo : inbox[n] = "unread"
          /\ \A n \in Notice : orders[n] # "none" => inbox[n] # "unsent"

Inv == Books /\ PayInv
NoEscapes == Escaped \cap Notice = {}
-----------------------------------------------------------------------------
(* What a step does to the calls that it is not a step of. *)
Mono == /\ \A n \in Notice : inbox[n] # "unsent" => inbox'[n] # "unsent"
        /\ \A n \in Notice : orders[n] # "none" => orders'[n] # "none"
        /\ \A n \in Notice : Credits(n) # {} => Credits(n)' # {}

LEMMA GoodStays ==
    ASSUME Mono, NEW CONSTANT p, NEW CONSTANT c \in Call, CallGood(p, c),
           \/ p # Poller
           \/ c.pc = "idle"
           \/ todo' \subseteq todo /\ \A n \in Notice : inbox[n] = "unread" => inbox'[n] = "unread"
    PROVE  CallGood(p, c)'
<1>1. c.pc # "idle" /\ p = Poller => c.note \in Notice \ todo' /\ inbox'[c.note] = "unread"
  BY DEF CallGood
<1>2. c.pc \in {"begin", "locked"} /\ c.kind \in {"approve", "notice"} =>
         c.note \in Notice /\ inbox'[c.note] # "unsent" /\ c.key = NoticeKey(c.note)
  BY DEF CallGood, Mono
<1>3. c.pc = "decide" => c.note \in Notice /\ Credits(c.note)' # {}
  BY DEF CallGood, Mono
<1>4. c.pc = "read" => p = Poller /\ (orders'[c.note] # "none" \/ Credits(c.note)' # {})
  BY DEF CallGood, Mono
<1> QED BY <1>1, <1>2, <1>3, <1>4 DEF CallGood

LEMMA IdleGood == ASSUME NEW p PROVE CallGood(p, Idle) /\ CallGood(p, Idle)'
BY IdleTyped DEF CallGood, Idle

\* A step of call p alone, of which the abstract specification sees nothing.
LEMMA CallPay ==
    ASSUME Inv, Typed', NEW CONSTANT p \in Caller, NEW CONSTANT c \in Call, CallGood(p, c),
           call' = [call EXCEPT ![p] = c], UNCHANGED <<txns, inbox, orders, todo>>
    PROVE  PayInv' /\ UNCHANGED Promise!vars
<1>1. \A n : Credits(n)' = Credits(n)
  BY DEF Credits
<1>2. Mono
  BY <1>1 DEF Mono
<1>3. ASSUME NEW CONSTANT q \in Caller PROVE CallGood(q, call[q])'
  <2>1. PICK d \in Call : d = call'[q] /\ CallGood(q, d)
    BY DEF Inv, Books, Typed, TypeOK, PayInv
  <2>2. CallGood(q, d)'
    BY <1>2, <2>1, GoodStays
  <2> QED BY <2>1, <2>2 DEF CallGood
<1>4. PayInv'
  BY <1>3 DEF Inv, PayInv, KeysUnique
<1>5. UNCHANGED Promise!vars
  BY <1>1 DEF Promise!vars
<1> QED BY <1>4, <1>5
-----------------------------------------------------------------------------
(* The calls of clients and of humans. *)
LEMMA KeysDiffer ==
    /\ \A n, m \in Notice : NoticeKey(n) = NoticeKey(m) => n = m
    /\ \A n \in Notice : Blank # NoticeKey(n)
    /\ \A n \in Notice, k \in Key : ClientKey(k) # NoticeKey(n)
    /\ \A n \in Notice : \A a, i : PayKey(a, i) # NoticeKey(n)
BY DEF NoticeKey, Blank, ClientKey, PayKey

LEMMA ClientPay ==
    ASSUME Inv, Typed', NEW CONSTANT r \in Req, ClientCall(r)
    PROVE  PayInv' /\ UNCHANGED Promise!vars
<1>1. r \in Caller /\ r # Poller /\ UNCHANGED <<txns, inbox, orders, todo>>
  <2>1. UNCHANGED <<ledgerVars, orderVars>>
    BY DEF ClientCall, RechargeCall, DeductCall, Approve, Reject, PayRead
  <2> QED BY <2>1, PollerAssumption DEF Caller, ledgerVars, orderVars
<1>2. \E c \in Call : CallGood(r, c) /\ call' = [call EXCEPT ![r] = c]
  <2>1. ASSUME NEW kind \in {"recharge", "deduct", "approve", "annual"}, NEW a \in Account,
               NEW m \in Int, NEW key \in AllKeys, NEW note \in Notice \cup {0},
               IF kind = "approve"
               THEN note \in Notice /\ inbox[note] # "unsent" /\ key = NoticeKey(note)
               ELSE \A n \in Notice : key # NoticeKey(n)
        PROVE  CallGood(r, Posting(kind, a, m, key, note))
               /\ Posting(kind, a, m, key, note) \in Call
    BY <1>1, <2>1, PostingTyped DEF CallGood
  <2>2. ASSUME NEW a \in Account, NEW k \in Key, RechargeCall(r, a, k)
        PROVE  \E c \in Call : CallGood(r, c) /\ call' = [call EXCEPT ![r] = c]
    <3> DEFINE c == Posting("recharge", a, 1, ClientKey(k), 0)
    <3>1. c \in Call /\ CallGood(r, c)
      BY <2>1, KeysDiffer, KeysTyped
    <3>2. call' = [call EXCEPT ![r] = c]
      BY <2>2 DEF RechargeCall, Start
    <3> HIDE DEF c
    <3> QED BY <3>1, <3>2
  <2>3. ASSUME NEW a \in Account, NEW key \in {ClientKey(k) : k \in Key} \cup {Blank},
               DeductCall(r, a, key)
        PROVE  \E c \in Call : CallGood(r, c) /\ call' = [call EXCEPT ![r] = c]
    <3>1. key \in AllKeys /\ -1 \in Int /\ \A n \in Notice : key # NoticeKey(n)
      BY KeysDiffer, KeysTyped
    <3> DEFINE c == Posting("deduct", a, -1, key, 0)
    <3>2. c \in Call /\ CallGood(r, c)
      BY <2>1, <3>1
    <3>3. call' = [call EXCEPT ![r] = c]
      BY <2>3 DEF DeductCall, Start
    <3> HIDE DEF c
    <3> QED BY <3>2, <3>3
  <2>4. ASSUME NEW n \in Notice, Approve(r, n)
        PROVE  \E c \in Call : CallGood(r, c) /\ call' = [call EXCEPT ![r] = c]
    <3>1. payee[n] \in Account /\ inbox[n] # "unsent" /\ NoticeKey(n) \in AllKeys
      BY <2>4, KeysTyped DEF Approve, Inv, PayInv, Books, Typed, Locks
    <3> DEFINE c == Posting("approve", payee[n], 1, NoticeKey(n), n)
    <3>2. c \in Call /\ CallGood(r, c)
      BY <2>1, <3>1
    <3>3. call' = [call EXCEPT ![r] = c]
      BY <2>4 DEF Approve, Start
    <3> HIDE DEF c
    <3> QED BY <3>2, <3>3
  <2>5. ASSUME NEW n \in Notice, Reject(r, n)
        PROVE  \E c \in Call : CallGood(r, c) /\ call' = [call EXCEPT ![r] = c]
    <3>1. "reject" \in CallPc
      BY DEF CallPc
    <3> DEFINE c == Noted(Idle, "reject", n)
    <3>2. c \in Call /\ c.pc = "reject" /\ c.kind = "none" /\ c.note = n
      BY <3>1, IdleTyped, NotedTyped
    <3>3. call' = [call EXCEPT ![r] = c]
      BY <2>5 DEF Reject, Start, Noted
    <3> HIDE DEF c
    <3>4. CallGood(r, c)
      BY <1>1, <3>2 DEF CallGood
    <3> QED BY <3>2, <3>3, <3>4
  <2>6. ASSUME NEW a \in Account, NEW id \in PayId \cup {0}, PayRead(r, a, id)
        PROVE  \E c \in Call : CallGood(r, c) /\ call' = [call EXCEPT ![r] = c]
    <3> DEFINE until == (IF expires[a] > year THEN expires[a] ELSE year) + 1
               key   == PayKey(a, IF id \in PayId THEN id ELSE until)
               lapsed == ~active[a]
               b     == Posting("annual", a, -1, key, 0)
               c     == Dated(b, until, lapsed)
    <3>1. until \in Nat /\ until \in 0 .. MaxYear
      BY <2>6 DEF Inv, Books, Typed, TypeOK, PayRead
    <3>2. key \in AllKeys /\ (\A n \in Notice : key # NoticeKey(n)) /\ -1 \in Int
          /\ lapsed \in BOOLEAN
      BY <3>1, KeysTyped, KeysDiffer DEF Inv, Books, Typed, TypeOK
    <3>3. call' = [call EXCEPT ![r] = c]
      BY <2>6 DEF PayRead, Start, Dated
    <3> HIDE DEF until, key, lapsed
    <3>4. b \in Call /\ b.pc = "begin" /\ b.kind = "annual" /\ b.key = key
      BY <3>2, PostingTyped
    <3> HIDE DEF b
    <3>5. c \in Call /\ c.pc = "begin" /\ c.kind = "annual" /\ c.key = key
      BY <3>1, <3>2, <3>4, YearTyped
    <3> HIDE DEF c
    <3>6. CallGood(r, c)
      BY <1>1, <3>2, <3>5 DEF CallGood
    <3> QED BY <3>3, <3>5, <3>6
  <2> QED BY <2>2, <2>3, <2>4, <2>5, <2>6 DEF ClientCall
<1> QED BY <1>1, <1>2, CallPay

LEMMA LockPay ==
    ASSUME Inv, Typed', NEW CONSTANT p \in Caller, BeginPosting(p)
    PROVE  PayInv' /\ UNCHANGED Promise!vars
<1> DEFINE c == Holding(call[p], balance[call[p].agent])
<1>1. call[p] \in Call /\ call[p].pc = "begin" /\ balance[call[p].agent] \in Int
      /\ CallGood(p, call[p])
  BY DEF Inv, PayInv, Books, Typed, TypeOK, Locks, BeginPosting, Lock
<1>2. /\ c \in Call /\ c.pc = "locked" /\ c.kind = call[p].kind /\ c.key = call[p].key
      /\ c.note = call[p].note
  BY <1>1, HeldTyped
<1>3. call' = [call EXCEPT ![p] = c] /\ UNCHANGED <<txns, inbox, orders, todo>>
  BY DEF BeginPosting, Lock, Inv, Books, Typed, TypeOK, Holding, ledgerVars, orderVars
<1> HIDE DEF c
<1>4. CallGood(p, c)
  BY <1>1, <1>2 DEF CallGood
<1> QED BY <1>2, <1>3, <1>4, CallPay
-----------------------------------------------------------------------------
(* The commit of a posting. *)

\* A posting under the key of a notice credits that notice; others change no credit.
LEMMA PostedCredits ==
    ASSUME Inv, NEW p \in Caller, call[p].pc = "locked",
           Outcome(call[p]) = "ok", Posted(call[p])
    PROVE  /\ KeysUnique'
           /\ \A n \in Notice : call[p].key # NoticeKey(n) => Credits(n)' = Credits(n)
           /\ \A n \in Notice : call[p].key = NoticeKey(n) =>
                 Credits(n) = {} /\ Credits(n)' = {Len(txns) + 1}
<1>1. PICK e \in Txn : e = Entry(call[p]) /\ e.key = call[p].key
  BY EntryTyped DEF Inv
<1>2. txns' = Append(txns, e) /\ txns \in Seq(Txn)
  BY <1>1 DEF Posted, Entry, Inv, Books, Typed, TypeOK
<1>3. \A i \in DOMAIN txns : txns[i].key # e.key
  BY <1>1 DEF Outcome, KeyTaken
<1>4. /\ DOMAIN txns' = DOMAIN txns \cup {Len(txns) + 1} /\ txns'[Len(txns) + 1] = e
      /\ \A i \in DOMAIN txns : txns'[i] = txns[i]
  BY <1>2
<1>5. KeysUnique'
  BY <1>3, <1>4 DEF Inv, PayInv, KeysUnique
<1>6. \A n \in Notice : e.key # NoticeKey(n) => Credits(n)' = Credits(n)
  BY <1>4 DEF Credits
<1>7. \A n \in Notice : e.key = NoticeKey(n) => Credits(n) = {} /\ Credits(n)' = {Len(txns) + 1}
  BY <1>3, <1>4 DEF Credits
<1> QED BY <1>1, <1>5, <1>6, <1>7

\* What the commit leaves of the call, on whose key the decision or mark_read rests.
LEMMA CommitLeaves ==
    ASSUME Inv, NEW CONSTANT p \in Caller, Commit(p)
    PROVE  \E c \in Call :
              /\ call' = [call EXCEPT ![p] = c]
              /\ c = Idle \/ /\ c.pc = "decide" /\ call[p].kind = "approve"
                             /\ Outcome(call[p]) \in {"ok", "known"}
                             /\ c.kind = call[p].kind /\ c.note = call[p].note
                          \/ /\ c.pc = "read" /\ call[p].kind = "notice"
                             /\ Outcome(call[p]) \in {"ok", "known"}
                             /\ c.kind = call[p].kind /\ c.note = call[p].note
<1>1. call[p] \in Call
  BY DEF Inv, Books, Typed, TypeOK
<1>2. "decide" \in CallPc /\ "read" \in CallPc
  BY DEF CallPc
<1>3. /\ Gone(call[p], "decide") \in Call /\ Gone(call[p], "decide").pc = "decide"
      /\ Gone(call[p], "decide").kind = call[p].kind /\ Gone(call[p], "decide").note = call[p].note
      /\ Gone(call[p], "read") \in Call /\ Gone(call[p], "read").pc = "read"
      /\ Gone(call[p], "read").kind = call[p].kind /\ Gone(call[p], "read").note = call[p].note
  BY <1>1, <1>2, GoneTyped
<1>4. \A pc : Goto(p, pc) => call' = [call EXCEPT ![p] = Gone(call[p], pc)]
  BY DEF Goto, Gone, Inv, Books, Typed, TypeOK
<1>5. CASE Goto(p, "decide") /\ call[p].kind = "approve" /\ Outcome(call[p]) \in {"ok", "known"}
  BY <1>3, <1>4, <1>5
<1>6. CASE Goto(p, "read") /\ call[p].kind = "notice" /\ Outcome(call[p]) \in {"ok", "known"}
  BY <1>3, <1>4, <1>6
<1>7. CASE Return(p)
  BY <1>7, IdleTyped DEF Return
<1> QED BY <1>5, <1>6, <1>7 DEF Commit

\* The invariant after any step that moves one call and adds at most a credit.
LEMMA MonoPay ==
    ASSUME Inv, Mono, KeysUnique', NEW CONSTANT p \in Caller, NEW CONSTANT c \in Call,
           CallGood(p, c)', call' = [call EXCEPT ![p] = c],
           UNCHANGED <<inbox, orders, todo>>
    PROVE  PayInv'
<1>1. ASSUME NEW CONSTANT q \in Caller PROVE CallGood(q, call[q])'
  <2>1. CASE q = p
    BY <2>1 DEF Inv, Books, Typed, TypeOK
  <2>2. CASE q # p
    <3>1. PICK d \in Call : d = call'[q] /\ CallGood(q, d)
      BY <2>2 DEF Inv, Books, Typed, TypeOK, PayInv
    <3>2. CallGood(q, d)'
      BY <3>1, GoodStays
    <3> QED BY <3>1, <3>2 DEF CallGood
  <2> QED BY <2>1, <2>2
<1> QED BY <1>1 DEF Inv, PayInv

LEMMA KnownCredits ==
    ASSUME NEW c, c.note \in Notice, c.key = NoticeKey(c.note), Outcome(c) = "known"
    PROVE  Credits(c.note) # {}
BY DEF Outcome, Known, Credits

LEMMA CommitPays ==
    ASSUME Inv, Typed', NoEscapes, NEW CONSTANT p \in Caller, Commit(p)
    PROVE  PayInv' /\ [Promise!Next]_(Promise!vars)
<1>1. /\ call[p] \in Call /\ call[p].pc = "locked" /\ CallGood(p, call[p])
      /\ UNCHANGED <<inbox, orders, todo>>
  BY DEF Commit, orderVars, Inv, PayInv, Books, Typed, TypeOK
<1>2. PICK c \in Call :
         /\ call' = [call EXCEPT ![p] = c]
         /\ c = Idle \/ /\ c.pc = "decide" /\ call[p].kind = "approve"
                        /\ Outcome(call[p]) \in {"ok", "known"}
                        /\ c.kind = call[p].kind /\ c.note = call[p].note
                     \/ /\ c.pc = "read" /\ call[p].kind = "notice"
                        /\ Outcome(call[p]) \in {"ok", "known"}
                        /\ c.kind = call[p].kind /\ c.note = call[p].note
  BY CommitLeaves
\* Once the note of the call is credited, whatever it is left to do is right.
<1>3. ASSUME c # Idle => Credits(call[p].note)' # {}
      PROVE  CallGood(p, c)'
  <2>1. CASE c = Idle
    BY <2>1, IdleGood
  <2>2. CASE c # Idle
    <3>1. c.note \in Notice /\ Credits(c.note)' # {} /\ (c.kind = "notice" <=> p = Poller)
          /\ c.pc \in {"decide", "read"} /\ (c.pc = "read" => p = Poller)
          /\ (p = Poller => c.note \in Notice \ todo' /\ inbox'[c.note] = "unread")
      BY <1>1, <1>2, <1>3, <2>2 DEF CallGood
    <3> QED BY <3>1 DEF CallGood
  <2> QED BY <2>1, <2>2
<1>4. CASE Outcome(call[p]) = "ok" /\ Posted(call[p])
  <2>1. /\ KeysUnique'
        /\ \A n \in Notice : call[p].key # NoticeKey(n) => Credits(n)' = Credits(n)
        /\ \A n \in Notice : call[p].key = NoticeKey(n) =>
              Credits(n) = {} /\ Credits(n)' = {Len(txns) + 1}
    BY <1>1, <1>4, PostedCredits
  <2>2. Mono
    BY <1>1, <2>1 DEF Mono
  <2>3. c # Idle => Credits(call[p].note)' # {}
    BY <1>1, <1>2, <2>1 DEF CallGood
  <2>4. PayInv'
    BY <1>1, <1>2, <1>3, <2>1, <2>2, <2>3, MonoPay
  <2>5. CASE call[p].kind \in {"approve", "notice"}
    <3>1. PICK n \in Notice : inbox[n] # "unsent" /\ call[p].key = NoticeKey(n)
      BY <1>1, <2>5 DEF CallGood
    <3>2. \A m \in Notice \ {n} : call[p].key # NoticeKey(m)
      BY <3>1, KeysDiffer
    <3>3. Promise!Credit(n)
      BY <1>1, <2>1, <3>1, <3>2 DEF Promise!Credit
    <3>4. Promise!Next
      BY <3>3 DEF Promise!Next
    <3> QED BY <2>4, <3>4
  <2>6. CASE call[p].kind \notin {"approve", "notice"}
    <3>1. \A n \in Notice : Credits(n)' = Credits(n)
      BY <1>1, <2>1, <2>6 DEF CallGood
    <3>2. UNCHANGED Promise!vars
      BY <1>1, <3>1 DEF Promise!vars
    <3> QED BY <2>4, <3>2
  <2> QED BY <2>5, <2>6
<1>5. CASE UNCHANGED ledgerVars /\ ~(Outcome(call[p]) = "ok" /\ ~AuditFails(call[p]))
  <2>1. txns' = txns
    BY <1>5 DEF ledgerVars
  <2>2. \A n : Credits(n)' = Credits(n)
    BY <2>1 DEF Credits
  <2>3. c # Idle => call[p].note \in Notice /\ call[p].key = NoticeKey(call[p].note)
                    /\ Outcome(call[p]) \in {"ok", "known"}
    BY <1>1, <1>2 DEF CallGood
  <2>4. c # Idle => Outcome(call[p]) = "known"
    BY <1>5, <2>3 DEF AuditFails, NoEscapes
  <2>5. c # Idle => Credits(call[p].note)' # {}
    <3>1. SUFFICES ASSUME c # Idle PROVE Credits(call[p].note)' # {}
      OBVIOUS
    <3>2. Credits(call[p].note) # {}
      BY <2>3, <2>4, <3>1, KnownCredits
    <3>3. PICK n \in Notice : n = call[p].note /\ call'[p] = c /\ c.note = n
      BY <1>1, <1>2, <2>3, <3>1 DEF Inv, Books, Typed, TypeOK
    <3> QED BY <2>2, <3>2, <3>3
  <2>6. Mono
    BY <1>1, <2>2 DEF Mono
  <2>7. KeysUnique'
    BY <2>1 DEF KeysUnique, Inv, PayInv
  <2>8. PayInv'
    BY <1>1, <1>2, <1>3, <2>5, <2>6, <2>7, MonoPay
  <2>9. UNCHANGED Promise!vars
    BY <1>1, <2>2 DEF Promise!vars
  <2> QED BY <2>8, <2>9
<1> QED BY <1>4, <1>5 DEF Commit

LEMMA CommitPayPays ==
    ASSUME Inv, Typed', NEW CONSTANT r \in Req, CommitPay(r)
    PROVE  PayInv' /\ UNCHANGED Promise!vars
<1>1. /\ r \in Caller /\ call[r] \in Call /\ call[r].pc = "locked" /\ call[r].kind = "annual"
      /\ CallGood(r, call[r]) /\ UNCHANGED <<inbox, orders, todo>>
      /\ call' = [call EXCEPT ![r] = Idle]
  BY DEF Caller, CommitPay, Return, orderVars, Inv, PayInv, Books, Typed, TypeOK
<1>2. KeysUnique' /\ \A n \in Notice : Credits(n)' = Credits(n)
  <2>1. CASE Outcome(call[r]) = "ok" /\ Posted(call[r])
    <3>1. \A n \in Notice : call[r].key # NoticeKey(n)
      BY <1>1 DEF CallGood
    <3> QED BY <1>1, <2>1, <3>1, PostedCredits
  <2>2. CASE UNCHANGED ledgerVars
    BY <2>2 DEF ledgerVars, Credits, Inv, PayInv, KeysUnique
  <2> QED BY <2>1, <2>2 DEF CommitPay
<1>3. Mono
  BY <1>1, <1>2 DEF Mono
<1>4. PayInv'
  BY <1>1, <1>2, <1>3, IdleGood, IdleTyped, MonoPay
<1>5. UNCHANGED Promise!vars
  BY <1>1, <1>2 DEF Promise!vars
<1> QED BY <1>4, <1>5
-----------------------------------------------------------------------------
(* The inbox and the decisions. *)
LEMMA SendPays ==
    ASSUME Inv, Typed', NEW CONSTANT n \in Notice, Send(n)
    PROVE  PayInv' /\ Promise!Next
<1>1. /\ inbox[n] = "unsent" /\ inbox' = [inbox EXCEPT ![n] = "unread"]
      /\ UNCHANGED <<txns, call, orders, todo>> /\ inbox \in [Notice -> {"unsent", "unread", "read"}]
  BY DEF Send, ledgerVars, Inv, Books, Typed, TypeOK
<1>2. \A m : Credits(m)' = Credits(m)
  BY <1>1 DEF Credits
<1>3. Mono /\ \A m \in Notice : inbox[m] = "unread" => inbox'[m] = "unread"
  BY <1>1, <1>2 DEF Mono
<1>4. ASSUME NEW CONSTANT q \in Caller PROVE CallGood(q, call[q])'
  <2>1. PICK d \in Call : d = call[q] /\ CallGood(q, d)
    BY DEF Inv, Books, Typed, TypeOK, PayInv
  <2>2. CallGood(q, d)'
    BY <1>1, <1>3, <2>1, GoodStays
  <2> QED BY <1>1, <2>1, <2>2 DEF CallGood
<1>5. PayInv'
  BY <1>1, <1>3, <1>4 DEF Inv, PayInv, KeysUnique, Books, Typed, TypeOK
<1>6. Promise!Arrive(n)
  BY <1>1, <1>2 DEF Promise!Arrive
<1> QED BY <1>5, <1>6 DEF Promise!Next

LEMMA PollFetchPays ==
    ASSUME Inv, Typed', PollFetch
    PROVE  PayInv' /\ UNCHANGED Promise!vars
<1>1. /\ call[Poller].pc = "idle" /\ todo' \subseteq Unread
      /\ UNCHANGED <<txns, call, inbox, orders>>
  BY DEF PollFetch, ledgerVars
<1>2. \A m : Credits(m)' = Credits(m)
  BY <1>1 DEF Credits
<1>3. Mono
  BY <1>1, <1>2 DEF Mono
<1>4. ASSUME NEW CONSTANT q \in Caller PROVE CallGood(q, call[q])'
  <2>1. PICK d \in Call : d = call[q] /\ CallGood(q, d)
    BY DEF Inv, Books, Typed, TypeOK, PayInv
  <2>2. CallGood(q, d)'
    BY <1>1, <1>3, <2>1, GoodStays
  <2> QED BY <1>1, <2>1, <2>2 DEF CallGood
<1>5. PayInv'
  BY <1>1, <1>4 DEF Inv, PayInv, KeysUnique, Unread
<1> QED BY <1>1, <1>2, <1>5 DEF Promise!vars

LEMMA PollTakePays ==
    ASSUME Inv, Typed', NEW CONSTANT n \in Notice, PollTake(n)
    PROVE  PayInv' /\ [Promise!Next]_(Promise!vars)
<1>1. /\ call[Poller].pc = "idle" /\ n \in todo /\ todo' = todo \ {n} /\ inbox[n] = "unread"
      /\ UNCHANGED <<txns, inbox>> /\ Poller \in Caller /\ n # 0
      /\ orders \in [Notice -> {"none", "pending", "approved", "rejected"}]
      /\ call \in [Caller -> Call] /\ call[Poller] \in Call
  BY NoticeAssumption DEF PollTake, ledgerVars, Caller, Inv, PayInv, Books, Typed, TypeOK
<1>2. \A m : Credits(m)' = Credits(m)
  BY <1>1 DEF Credits
<1>3. KeysUnique' /\ \A m \in todo' : inbox'[m] = "unread"
  BY <1>1 DEF Inv, PayInv, KeysUnique
<1>4. ASSUME Mono, NEW CONSTANT c \in Call, call' = [call EXCEPT ![Poller] = c],
             CallGood(Poller, c)'
      PROVE  \A q \in Caller : CallGood(q, call[q])'
  <2> SUFFICES ASSUME NEW CONSTANT q \in Caller PROVE CallGood(q, call[q])'
    OBVIOUS
  <2>1. CASE q = Poller
    BY <1>1, <1>4, <2>1
  <2>2. CASE q # Poller
    <3>1. PICK d \in Call : d = call'[q] /\ CallGood(q, d)
      BY <1>1, <1>4, <2>2 DEF Inv, PayInv
    <3>2. CallGood(q, d)'
      BY <1>4, <2>2, <3>1, GoodStays
    <3> QED BY <3>1, <3>2 DEF CallGood
  <2> QED BY <2>1, <2>2
<1>5. CASE PollSkip(n)
  <2>1. UNCHANGED <<call, orders>>
    BY <1>5 DEF PollSkip
  <2>2. Mono
    BY <1>1, <1>2, <2>1 DEF Mono
  <2>3. PICK c \in Call : c = call[Poller] /\ c.pc = "idle" /\ CallGood(Poller, c)
    BY <1>1 DEF Inv, PayInv
  <2>4. CallGood(Poller, c)'
    BY <2>2, <2>3, GoodStays
  <2>5. call' = [call EXCEPT ![Poller] = c]
    BY <1>1, <2>1, <2>3
  <2>6. PayInv'
    BY <1>1, <1>3, <1>4, <2>1, <2>2, <2>4, <2>5 DEF Inv, PayInv
  <2> QED BY <1>1, <1>2, <2>1, <2>6 DEF Promise!vars
<1>6. CASE PollQueue(n)
  <2> DEFINE d == Polled(Idle, n)
  <2>1. d \in Call /\ d.pc = "read" /\ d.kind = "notice" /\ d.note = n
    BY IdleTyped, PollTyped
  <2>2. call' = [call EXCEPT ![Poller] = d]
    BY <1>6 DEF PollQueue, Start, Polled
  <2> HIDE DEF d
  <2>3. orders' = IF orders[n] = "none" THEN [orders EXCEPT ![n] = "pending"] ELSE orders
    BY <1>6 DEF PollQueue
  <2>4. Mono /\ orders'[n] # "none"
    BY <1>1, <1>2, <2>3 DEF Mono
  <2>5. CallGood(Poller, d)'
    BY <1>1, <2>1, <2>4 DEF CallGood
  <2>6. \A m \in Notice : orders'[m] # "none" => inbox'[m] # "unsent"
    BY <1>1, <2>3 DEF Inv, PayInv
  <2>7. PayInv'
    BY <1>3, <1>4, <2>1, <2>2, <2>4, <2>5, <2>6 DEF PayInv
  <2>8. CASE orders[n] = "none"
    <3>1. Promise!Queue(n)
      BY <1>1, <1>2, <2>3, <2>8 DEF Promise!Queue
    <3> QED BY <2>7, <3>1 DEF Promise!Next
  <2>9. CASE orders[n] # "none"
    BY <1>1, <1>2, <2>3, <2>7, <2>9 DEF Promise!vars
  <2> QED BY <2>8, <2>9
<1>7. CASE PollBelieve(n)
  <2>1. PICK a \in Payers[n] : Start(Poller, Posting("notice", a, 1, NoticeKey(n), n))
    BY <1>7 DEF PollBelieve
  <2> DEFINE d == Posting("notice", a, 1, NoticeKey(n), n)
  <2>2. a \in Account /\ NoticeKey(n) \in AllKeys
    BY <2>1, PayersAssumption, KeysTyped
  <2>3. d \in Call /\ d.pc = "begin" /\ d.kind = "notice" /\ d.key = NoticeKey(n) /\ d.note = n
    BY <2>2, PostingTyped
  <2>4. call' = [call EXCEPT ![Poller] = d] /\ UNCHANGED orders
    BY <1>7, <2>1 DEF Start, PollBelieve
  <2> HIDE DEF d
  <2>5. Mono
    BY <1>1, <1>2, <2>4 DEF Mono
  <2>6. CallGood(Poller, d)'
    BY <1>1, <2>3 DEF CallGood
  <2>7. PayInv'
    BY <1>1, <1>3, <1>4, <2>3, <2>4, <2>5, <2>6 DEF Inv, PayInv
  <2> QED BY <1>1, <1>2, <2>4, <2>7 DEF Promise!vars
<1> QED BY <1>5, <1>6, <1>7 DEF PollTake

LEMMA PollReadPays ==
    ASSUME Inv, Typed', PollRead
    PROVE  PayInv' /\ [Promise!Next]_(Promise!vars)
<1>1. PICK n : n = call[Poller].note
  OBVIOUS
<1>2. /\ Poller \in Caller /\ n \in Notice \ todo /\ inbox[n] = "unread"
      /\ orders[n] # "none" \/ Credits(n) # {}
  BY <1>1 DEF PollRead, Inv, PayInv, CallGood, Caller
<1>3. /\ inbox' = inbox \/ inbox' = [inbox EXCEPT ![n] = "read"]
      /\ call' = [call EXCEPT ![Poller] = Idle] /\ UNCHANGED <<txns, orders, todo>>
      /\ inbox \in [Notice -> {"unsent", "unread", "read"}] /\ call \in [Caller -> Call]
  BY <1>1 DEF PollRead, Return, ledgerVars, Inv, Books, Typed, TypeOK
<1>4. \A m : Credits(m)' = Credits(m)
  BY <1>3 DEF Credits
<1>5. Mono /\ \A m \in todo : inbox'[m] = inbox[m]
  BY <1>2, <1>3, <1>4 DEF Mono, Inv, Books, Typed, TypeOK
<1>6. ASSUME NEW CONSTANT q \in Caller PROVE CallGood(q, call[q])'
  <2>1. CASE q = Poller
    BY <1>3, <2>1, IdleGood
  <2>2. CASE q # Poller
    <3>1. PICK d \in Call : d = call'[q] /\ CallGood(q, d)
      BY <1>3, <2>2 DEF Inv, PayInv
    <3>2. CallGood(q, d)'
      BY <1>5, <2>2, <3>1, GoodStays
    <3> QED BY <3>1, <3>2 DEF CallGood
  <2> QED BY <2>1, <2>2
<1>7. PayInv'
  BY <1>3, <1>5, <1>6 DEF Inv, PayInv, KeysUnique, Mono
<1>8. CASE inbox' = inbox
  BY <1>3, <1>4, <1>7, <1>8 DEF Promise!vars
<1>9. CASE inbox' = [inbox EXCEPT ![n] = "read"]
  <2>1. Promise!PutAside(n)
    BY <1>2, <1>3, <1>4, <1>9 DEF Promise!PutAside
  <2> QED BY <1>2, <1>7, <2>1 DEF Promise!Next
<1> QED BY <1>3, <1>8, <1>9

LEMMA DecidePays ==
    ASSUME Inv, Typed', NEW CONSTANT r \in Req,
           Decide(r, "decide", "approved") \/ Decide(r, "reject", "rejected")
    PROVE  PayInv' /\ [Promise!Next]_(Promise!vars)
<1>1. PICK n : n = call[r].note
  OBVIOUS
<1>2. PICK status \in {"approved", "rejected"} :
         /\ Decide(r, IF status = "approved" THEN "decide" ELSE "reject", status)
  OBVIOUS
<1>3. /\ r \in Caller /\ n \in Notice /\ (status = "approved" => Credits(n) # {})
      /\ CallGood(r, call[r])
  BY <1>1, <1>2 DEF Decide, Inv, PayInv, CallGood, Caller
<1>4. /\ orders' = IF orders[n] = "pending" THEN [orders EXCEPT ![n] = status] ELSE orders
      /\ call' = [call EXCEPT ![r] = Idle] /\ UNCHANGED <<txns, inbox, todo>>
      /\ orders \in [Notice -> {"none", "pending", "approved", "rejected"}]
      /\ call \in [Caller -> Call]
  BY <1>1, <1>2 DEF Decide, Return, ledgerVars, Inv, Books, Typed, TypeOK
<1>5. \A m : Credits(m)' = Credits(m)
  BY <1>4 DEF Credits
<1>6. Mono /\ \A m \in Notice : orders'[m] # "none" => orders[m] # "none"
  BY <1>3, <1>4, <1>5 DEF Mono
<1>7. ASSUME NEW CONSTANT q \in Caller PROVE CallGood(q, call[q])'
  <2>1. CASE q = r
    BY <1>4, <2>1, IdleGood
  <2>2. CASE q # r
    <3>1. PICK d \in Call : d = call'[q] /\ CallGood(q, d)
      BY <1>4, <2>2 DEF Inv, PayInv
    <3>2. CallGood(q, d)'
      BY <1>4, <1>6, <3>1, GoodStays
    <3> QED BY <3>1, <3>2 DEF CallGood
  <2> QED BY <2>1, <2>2
<1>8. PayInv'
  BY <1>4, <1>6, <1>7 DEF Inv, PayInv, KeysUnique
<1>9. CASE orders' = orders
  BY <1>4, <1>5, <1>8, <1>9 DEF Promise!vars
<1>10. CASE orders[n] = "pending"
  <2>1. Promise!Approve(n) \/ Promise!Reject(n)
    BY <1>3, <1>4, <1>5, <1>10 DEF Promise!Approve, Promise!Reject
  <2> QED BY <1>3, <1>8, <2>1 DEF Promise!Next
<1> QED BY <1>4, <1>9, <1>10

LEMMA CrashPays == ASSUME Inv, Crash PROVE PayInv' /\ UNCHANGED Promise!vars
<1>1. /\ UNCHANGED <<txns, inbox, orders>> /\ todo' = {}
      /\ \A q \in Caller : call'[q] = Idle
  BY DEF Crash, ledgerVars
<1>2. \A q \in Caller : CallGood(q, call[q])'
  BY <1>1, IdleTyped DEF CallGood
<1> QED BY <1>1, <1>2 DEF Inv, PayInv, KeysUnique, Promise!vars, Credits

\* The annual fee's own variables are not read by any of this.
LEMMA OtherPays ==
    ASSUME Inv, UNCHANGED <<txns, call, inbox, orders, todo>>
    PROVE  PayInv' /\ UNCHANGED Promise!vars
BY DEF Inv, PayInv, KeysUnique, CallGood, Credits, Promise!vars

LEMMA NextPays ==
    ASSUME Inv, NoEscapes, [Next]_vars
    PROVE  Inv' /\ [Promise!Next]_(Promise!vars)
<1>1. Books' /\ Typed'
  BY NextBooks DEF Inv, Books
<1>2. PayInv' /\ [Promise!Next]_(Promise!vars)
  <2>1. ASSUME NEW r \in Req, ClientCall(r) PROVE PayInv' /\ [Promise!Next]_(Promise!vars)
    BY <1>1, <2>1, ClientPay
  <2>2. ASSUME NEW r \in Req, CommitPay(r) PROVE PayInv' /\ [Promise!Next]_(Promise!vars)
    BY <1>1, <2>2, CommitPayPays
  <2>3. ASSUME NEW r \in Req, Decide(r, "decide", "approved") \/ Decide(r, "reject", "rejected")
        PROVE  PayInv' /\ [Promise!Next]_(Promise!vars)
    BY <1>1, <2>3, DecidePays
  <2>4. ASSUME NEW p \in Caller, BeginPosting(p) PROVE PayInv' /\ [Promise!Next]_(Promise!vars)
    BY <1>1, <2>4, LockPay
  <2>5. ASSUME NEW p \in Caller, Commit(p) PROVE PayInv' /\ [Promise!Next]_(Promise!vars)
    BY <1>1, <2>5, CommitPays
  <2>6. ASSUME NEW n \in Notice, Send(n) PROVE PayInv' /\ [Promise!Next]_(Promise!vars)
    BY <1>1, <2>6, SendPays
  <2>7. CASE Poll
    BY <1>1, <2>7, PollFetchPays, PollReadPays, PollTakePays DEF Poll
  <2>8. CASE Crash
    BY <2>8, CrashPays
  <2>9. CASE Cron \/ NewYear \/ UNCHANGED vars
    <3>1. UNCHANGED <<txns, call, inbox, orders, todo>>
      BY <2>9 DEF Cron, CronSelect, CronMark, NewYear, vars, ledgerVars, orderVars
    <3> QED BY <3>1, OtherPays
  <2> QED BY <2>1, <2>2, <2>3, <2>4, <2>5, <2>6, <2>7, <2>8, <2>9 DEF Next
<1> QED BY <1>1, <1>2 DEF Inv

LEMMA InitPays == Init => Inv /\ Promise!Init
<1> SUFFICES ASSUME Init PROVE Inv /\ Promise!Init
  OBVIOUS
<1>1. Books
  BY InitTyped DEF Init, LedgerInit, Books, HasLast, ChainVerifies, Last
<1>2. PayInv
  BY IdleTyped DEF PayInv, KeysUnique, CallGood, Init, LedgerInit
<1>3. Promise!Init
  BY DEF Promise!Init, Init, LedgerInit, Credits
<1> QED BY <1>1, <1>2, <1>3 DEF Inv

\* As long as the audit record of no recharge for a notice fails, a notice is credited at
\* most once, and nothing is put aside or approved unpaid, in every run.
THEOREM PaymentsRefined == ASSUME NoEscapes PROVE Spec => ImplementsPayments
<1>1. Init => Inv /\ Promise!Init
  BY InitPays
<1>2. Inv /\ [Next]_vars => Inv' /\ [Promise!Next]_(Promise!vars)
  BY NextPays
<1> QED BY <1>1, <1>2, PTL DEF Spec, ImplementsPayments, Promise!Spec
=============================================================================
