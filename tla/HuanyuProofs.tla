----------------------------- MODULE HuanyuProofs -----------------------------
(***************************************************************************)
(* Proofs about HuanyuDelivery, for any number of messages, coroutines,     *)
(* handlers and crashes: a message is stored once by each way, a row says   *)
(* delivered only when the addressee has the message, the window of         *)
(* sequence numbers never passes one that has not come, every variable      *)
(* keeps its type, and the two bases implement the abstract Mailbox.        *)
(***************************************************************************)
EXTENDS HuanyuDelivery, FiniteSetTheorems, TLAPS

USE DeliveryAssumption

HubPc  == {"pend", "seal", "sent", "hubwait", "hubmark", "endwait"}
SentPc == {"sent", "hubwait", "hubmark", "endwait"}
HandPc == {"insert", "count", "window", "ack"}

Coroutine == [pc : TaskPc, m : Msg \cup {Nobody}, n : Nat, res : Status]
Job       == [pc : {"idle", "batch", "route", "posted", "mark"}, all : SUBSET Msg,
              todo : SUBSET Msg, m : Msg \cup {Nobody}]
Handling  == [pc : HandPc \cup {"idle"}, m : Msg \cup {Nobody}, n : Nat, last : Nat, next : Nat]

\* Whoever is about to send, store or mark something has a message.
TaskTyped == /\ task \in [Task -> Coroutine]
             /\ \A t \in Task : task[t].pc # "idle" => task[t].m \in Msg
JobTyped  == cron \in Job /\ (cron.pc \in {"route", "posted", "mark"} => cron.m \in Msg)
HandTyped == /\ hand \in [Handler -> Handling]
             /\ \A h \in Handler : hand[h].pc # "idle" => hand[h].m \in Msg
RowsTyped == /\ dir \in [Msg -> Entry] /\ row \in [Msg -> Status]
             /\ older \subseteq Msg \X Msg /\ seq \in Nat /\ lastc \in Nat
NetTyped  == /\ outbox \subseteq [m : Msg, n : Nat]
             /\ posts \subseteq [m : Msg, by : Task \cup {"cron", Nobody}]
             /\ answers \subseteq Task \cup {"cron"}
Typed == TaskTyped /\ JobTyped /\ HandTyped /\ RowsTyped /\ NetTyped

OwnRow(m) == [m |-> m, key |-> <<"own", m>>]
MsgRow(m) == [m |-> m, key |-> <<"msg", m>>]
ByItsRoute(x) == \/ x.m \in Routed /\ x = OwnRow(x.m)
                 \/ x.m \in Org /\ x = MsgRow(x.m)

\* What goes by the Hub is for another company, what goes by POST has a base to go to,
\* and which of the two keys a row at B has tells which way it came.
Routes ==
    /\ \A t \in Task : task[t].pc \in HubPc => task[t].m \in Org
    /\ \A p \in posts : p.m \in Routed
    /\ \A e \in outbox : e.m \in Org
    /\ \A x \in inbox : ByItsRoute(x)

\* Every coroutine on the Hub's way, at A or at B, is about an envelope of the Hub.
Sealed ==
    /\ \A e \in outbox : e.n \in 1 .. seq
    /\ \A e, f \in outbox : e.n = f.n => e.m = f.m
    /\ \A t \in Task : task[t].pc \in SentPc => [m |-> task[t].m, n |-> task[t].n] \in outbox
    /\ \A h \in Handler : hand[h].pc # "idle" => [m |-> hand[h].m, n |-> hand[h].n] \in outbox

Held == {x.m : x \in inbox}

\* Numbers are counted and acknowledged after the message is stored.
Counted ==
    /\ got \subseteq 1 .. seq /\ endAcks \subseteq 1 .. seq
    /\ \A h \in Handler : hand[h].pc \in {"count", "window", "ack"} => hand[h].m \in Held
    /\ \A e \in outbox : e.n \in got \cup endAcks => e.m \in Held
    /\ 1 .. lastc \subseteq got
    /\ \A h \in Handler : hand[h].pc = "window" => 1 .. hand[h].next \subseteq got

\* A request and its answer are the present one of the coroutine that waits.
Waited ==
    /\ \A p \in posts : p.by \in Task => /\ task[p.by].pc = "posted" /\ task[p.by].m = p.m
                                         /\ p.by \notin answers
    /\ \A p \in posts : p.by = "cron" => /\ cron.pc = "posted" /\ cron.m = p.m
                                         /\ "cron" \notin answers
    /\ \A t \in Task : t \in answers => task[t].pc = "posted"
    /\ "cron" \in answers => cron.pc = "posted"

\* What has been answered is stored.
Answered ==
    /\ \A t \in Task : t \in answers => task[t].m \in Held
    /\ "cron" \in answers => cron.m \in Held
    /\ \A t \in Task : task[t].pc = "mark" /\ task[t].res = "delivered" => task[t].m \in Held
    /\ cron.pc = "mark" => cron.m \in Held
    /\ \A m \in Msg : row[m] = "delivered" => m \in Held

\* A message that somebody sends has a row.
RowsBegun ==
    /\ \A t \in Task : task[t].pc \notin {"idle", "asked"} => row[task[t].m] # "none"
    /\ \A t \in Task : task[t].pc = "mark" => task[t].res # "none"

\* Acknowledgements are of envelopes.
AcksSent == hubAcks \cup endAcks \subseteq {e.n : e \in outbox}

\* The job tries what it has fetched, and counts to MaxRounds.
JobCounts ==
    /\ cron.todo \subseteq cron.all
    /\ rounds \in [Msg -> 0 .. MaxRounds]
    /\ \A m \in cron.todo : rounds[m] < MaxRounds
    /\ cron.pc \in {"route", "posted", "mark"} => cron.m \in cron.todo

\* Nothing is on its way to B or in the job's hands without a row.
Recorded ==
    /\ \A p \in posts : row[p.m] # "none"
    /\ \A e \in outbox : row[e.m] # "none"
    /\ \A m \in cron.todo : row[m] # "none"
    /\ cron.pc \in {"route", "posted", "mark"} => row[cron.m] # "none"

Begun == RowsBegun /\ AcksSent /\ JobCounts /\ Recorded

Inv == /\ Typed /\ Routes /\ Sealed /\ Counted /\ Waited
       /\ NoRefusal => Answered
-----------------------------------------------------------------------------
(* Types. *)

LEMMA IdleTyped ==
    /\ IdleTask \in Coroutine /\ IdleTask.pc = "idle"
    /\ IdleCron \in Job /\ IdleCron.pc = "idle"
    /\ IdleHand \in Handling /\ IdleHand.pc = "idle"
BY DEF IdleTask, IdleCron, IdleHand, Coroutine, Job, Handling, TaskPc, Status, HandPc

LEMMA InitInv == Init => Inv
<1> SUFFICES ASSUME Init PROVE Inv
  OBVIOUS
<1> USE DEF Init
<1>1. Typed
  BY IdleTyped DEF Typed, TaskTyped, JobTyped, HandTyped, RowsTyped, NetTyped, Status
<1>2. Routes /\ Sealed /\ Counted
  BY IdleTyped DEF Routes, Sealed, Counted, HubPc, SentPc
<1>3. Waited /\ Answered
  BY IdleTyped DEF Waited, Answered
<1> QED BY <1>1, <1>2, <1>3 DEF Inv

\* The ways a coroutine, the job and a handler are changed.
Moved(c, pc)        == [c EXCEPT !.pc = pc]
Ended(c, res)       == [c EXCEPT !.pc = "mark", !.n = 0, !.res = res]
Numbered(c, n)      == [c EXCEPT !.pc = "sent", !.n = n]
Asked(m)            == [IdleTask EXCEPT !.pc = "asked", !.m = m]
Batch(M, L)         == [IdleCron EXCEPT !.pc = "batch", !.all = M, !.todo = L]
Without(j, m)       == [j EXCEPT !.pc = "batch", !.todo = @ \ {m}, !.m = Nobody]
Taken(j, m)         == [j EXCEPT !.pc = "route", !.m = m]
Handed(m, n)        == [IdleHand EXCEPT !.pc = "insert", !.m = m, !.n = n]
HandMoved(c, pc)    == [c EXCEPT !.pc = pc]
Read(c, last, next) == [c EXCEPT !.pc = "window", !.last = last, !.next = next]
Written(c)          == [c EXCEPT !.pc = "ack", !.last = 0, !.next = 0]

LEMMA MovedTyped ==
    ASSUME NEW c \in Coroutine, NEW pc \in TaskPc
    PROVE  Moved(c, pc) \in Coroutine /\ Moved(c, pc).m = c.m
BY DEF Moved, Coroutine

LEMMA EndedTyped ==
    ASSUME NEW c \in Coroutine, NEW res \in Status
    PROVE  Ended(c, res) \in Coroutine /\ Ended(c, res).m = c.m
BY DEF Ended, Coroutine, TaskPc

LEMMA NumberedTyped ==
    ASSUME NEW c \in Coroutine, NEW n \in Nat
    PROVE  Numbered(c, n) \in Coroutine /\ Numbered(c, n).m = c.m
BY DEF Numbered, Coroutine, TaskPc

LEMMA AskedTyped ==
    ASSUME NEW m \in Msg
    PROVE  Asked(m) \in Coroutine /\ Asked(m).m = m
BY IdleTyped DEF Asked, Coroutine, TaskPc

LEMMA BatchTyped ==
    ASSUME NEW M \in SUBSET Msg, NEW L \in SUBSET M
    PROVE  /\ Batch(M, L) \in Job /\ Batch(M, L).pc = "batch"
           /\ Batch(M, L).all = M /\ Batch(M, L).todo = L
BY DEF Batch, IdleCron, Job

LEMMA WithoutTyped ==
    ASSUME NEW j \in Job, NEW m \in Msg
    PROVE  /\ Without(j, m) \in Job /\ Without(j, m).pc = "batch"
           /\ Without(j, m).todo = j.todo \ {m} /\ Without(j, m).all = j.all
BY DEF Without, Job

LEMMA TakenTyped ==
    ASSUME NEW j \in Job, NEW m \in Msg
    PROVE  /\ Taken(j, m) \in Job /\ Taken(j, m).pc = "route" /\ Taken(j, m).m = m
           /\ Taken(j, m).todo = j.todo /\ Taken(j, m).all = j.all
BY DEF Taken, Job

LEMMA HandedTyped ==
    ASSUME NEW m \in Msg, NEW n \in Nat
    PROVE  Handed(m, n) \in Handling /\ Handed(m, n).m = m
BY DEF Handed, IdleHand, Handling, HandPc

LEMMA HandMovedTyped ==
    ASSUME NEW c \in Handling, NEW pc \in HandPc
    PROVE  HandMoved(c, pc) \in Handling /\ HandMoved(c, pc).m = c.m
BY DEF HandMoved, Handling

LEMMA ReadTyped ==
    ASSUME NEW c \in Handling, NEW last \in Nat, NEW next \in Nat
    PROVE  Read(c, last, next) \in Handling /\ Read(c, last, next).m = c.m
BY DEF Read, Handling, HandPc

LEMMA WrittenTyped ==
    ASSUME NEW c \in Handling
    PROVE  Written(c) \in Handling /\ Written(c).m = c.m
BY DEF Written, Handling, HandPc

LEMMA TaskBecomes ==
    ASSUME TaskTyped, NEW t \in Task, NEW c \in Coroutine, c.pc # "idle" => c.m \in Msg,
           task' = [task EXCEPT ![t] = c]
    PROVE  TaskTyped'
BY DEF TaskTyped

LEMMA HandBecomes ==
    ASSUME HandTyped, NEW h \in Handler, NEW c \in Handling, c.pc # "idle" => c.m \in Msg,
           hand' = [hand EXCEPT ![h] = c]
    PROVE  HandTyped'
BY DEF HandTyped

\* What send_message does to the rows and to its coroutine.
LEMMA InsertForm ==
    ASSUME Typed, NEW t \in Task, SendInsert(t) \/ SendLocal(t)
    PROVE  /\ task[t].pc = "asked" /\ task[t].m \in Msg /\ older' \subseteq Msg \X Msg
           /\ row[task[t].m] # "none" => row' = row
           /\ row[task[t].m] = "none" =>
                  \E res \in {"cross_org", "pending", "local"} : row' = [row EXCEPT ![task[t].m] = res]
<1>1. task[t].pc = "asked" /\ task[t].m \in Msg
  BY DEF SendInsert, SendLocal, Typed, TaskTyped
<1>2. PICK res \in {"cross_org", "pending", "local"} : Insert(task[t].m, res)
  BY DEF SendInsert, SendLocal
<1>3. row[task[t].m] # "none" => row' = row
  BY <1>2 DEF Insert
<1>4. row[task[t].m] = "none" => row' = [row EXCEPT ![task[t].m] = res]
  BY <1>2 DEF Insert, MarkRow
<1>5. older' \subseteq Msg \X Msg
  <2>1. CASE row[task[t].m] # "none"
    BY <1>2, <2>1 DEF Insert, Typed, RowsTyped
  <2>2. CASE row[task[t].m] = "none"
    <3>1. older' = older \cup {<<k, task[t].m>> : k \in {k \in Msg : row[k] # "none"}}
      BY <1>2, <2>2 DEF Insert
    <3> QED BY <1>1, <3>1 DEF Typed, RowsTyped
  <2> QED BY <2>1, <2>2
<1> QED BY <1>1, <1>3, <1>4, <1>5

LEMMA SendInsertForm ==
    ASSUME Typed, NEW t \in Task, SendInsert(t)
    PROVE  /\ task[t].pc = "asked" /\ task[t].m \in Msg
           /\ task'[t] = Moved(task[t], "route") \/ (task'[t] = Moved(task[t], "pend") /\ task[t].m \in Org)
           /\ task'[t].pc \in {"route", "pend"} /\ task'[t].m = task[t].m /\ task'[t].n = task[t].n
           /\ task'[t].pc = "pend" => task[t].m \in Org
           /\ \A u \in Task : u # t => task'[u] = task[u]
           /\ task' = [task EXCEPT ![t] = task'[t]]
<1>1. task[t].pc = "asked" /\ task[t].m \in Msg /\ task[t] \in Coroutine /\ task \in [Task -> Coroutine]
  BY DEF SendInsert, Typed, TaskTyped
<1>2. PICK way \in Ways(task[t].m) : To(t, way)
  BY DEF SendInsert
<1>3. way = "route" \/ (way = "pend" /\ task[t].m \in Org)
  BY <1>2 DEF Ways
<1>4. task' = [task EXCEPT ![t] = Moved(task[t], way)]
  BY <1>2 DEF To, Moved
<1>5. Moved(task[t], way).pc = way /\ Moved(task[t], way).m = task[t].m /\ Moved(task[t], way).n = task[t].n
  BY <1>1 DEF Moved, Coroutine
<1> QED BY <1>1, <1>3, <1>4, <1>5

LEMMA SendTyped ==
    ASSUME Typed, NEW t \in Task, Send(t)
    PROVE  TaskTyped'
<1>1. ASSUME NEW m \in Msg, SendAsk(t, m) PROVE TaskTyped'
  <2>1. task' = [task EXCEPT ![t] = Asked(m)]
    BY <1>1 DEF SendAsk, Asked
  <2> QED BY <2>1, AskedTyped, TaskBecomes DEF Typed
<1>2. CASE SendInsert(t)
  <2>1. task[t] \in Coroutine /\ "route" \in TaskPc /\ "pend" \in TaskPc
    BY DEF Typed, TaskTyped, TaskPc
  <2>2. task'[t] \in Coroutine /\ task'[t].m \in Msg /\ task' = [task EXCEPT ![t] = task'[t]]
    BY <1>2, <2>1, SendInsertForm, MovedTyped
  <2> QED BY <2>2, TaskBecomes DEF Typed
<1>3. CASE SendLocal(t)
  BY <1>3, IdleTyped, TaskBecomes DEF SendLocal, Typed
<1> QED BY <1>1, <1>2, <1>3 DEF Send

LEMMA RunTyped ==
    ASSUME Typed, NEW t \in Task, Run(t)
    PROVE  TaskTyped'
<1>0. task[t] \in Coroutine /\ task[t].m \in Msg
  BY DEF Typed, TaskTyped, Run, Forward, ForwardAnswered, ForwardFails, Mark, OrgPending, OrgNoKey,
       OrgNotSent, OrgSend, OrgSent, OrgHubAcked, OrgTimeout
<1>1. ASSUME NEW pc \in TaskPc, To(t, pc) PROVE TaskTyped'
  <2>1. task' = [task EXCEPT ![t] = Moved(task[t], pc)]
    BY <1>1 DEF To, Moved
  <2> QED BY <1>0, <2>1, MovedTyped, TaskBecomes DEF Typed
<1>2. ASSUME NEW res \in {"delivered", "failed"}, Result(t, res) PROVE TaskTyped'
  <2>1. task' = [task EXCEPT ![t] = Ended(task[t], res)]
    BY <1>2 DEF Result, Ended
  <2>2. res \in Status
    BY DEF Status
  <2> QED BY <1>0, <2>1, <2>2, EndedTyped, TaskBecomes DEF Typed
<1>3. CASE OrgSend(t)
  <2>1. task' = [task EXCEPT ![t] = Numbered(task[t], seq + 1)]
    BY <1>3 DEF OrgSend, Numbered
  <2>2. seq + 1 \in Nat
    BY DEF Typed, RowsTyped
  <2> QED BY <1>0, <2>1, <2>2, NumberedTyped, TaskBecomes DEF Typed
<1>4. CASE Mark(t)
  BY <1>4, IdleTyped, TaskBecomes DEF Mark, Typed
<1> QED BY <1>1, <1>2, <1>3, <1>4 DEF Run, Forward, ForwardAnswered, ForwardFails, OrgPending, OrgNoKey,
        OrgNotSent, OrgSent, OrgHubAcked, OrgTimeout, TaskPc

LEMMA AckTyped ==
    ASSUME Typed, NEW n, HubAck(n) \/ EndAck(n)
    PROVE  TaskTyped'
<1>1. ASSUME NEW t \in Task
      PROVE  /\ HubAcked(t, n) \in Coroutine /\ HubAcked(t, n).m = task[t].m
             /\ HubAcked(t, n).pc # "idle" => task[t].pc # "idle"
             /\ EndAcked(t, n) \in Coroutine /\ EndAcked(t, n).m = task[t].m
             /\ EndAcked(t, n).pc # "idle" => task[t].pc # "idle"
  <2>1. task[t] \in Coroutine
    BY DEF Typed, TaskTyped
  <2>2. "hubmark" \in TaskPc /\ "delivered" \in Status
    BY DEF TaskPc, Status
  <2>3. HubAcked(t, n) \in {Moved(task[t], "hubmark"), task[t]}
    BY DEF HubAcked, Moved
  <2>4. EndAcked(t, n) \in {Ended(task[t], "delivered"), task[t]}
    BY DEF EndAcked, Ended
  <2>5. /\ HubAcked(t, n).pc # "idle" => task[t].pc # "idle"
        /\ EndAcked(t, n).pc # "idle" => task[t].pc # "idle"
    BY DEF HubAcked, EndAcked
  <2> QED BY <2>1, <2>2, <2>3, <2>4, <2>5, MovedTyped, EndedTyped
<1>2. CASE HubAck(n)
  BY <1>1, <1>2 DEF HubAck, Typed, TaskTyped
<1>3. CASE EndAck(n)
  BY <1>1, <1>3 DEF EndAck, Typed, TaskTyped
<1> QED BY <1>2, <1>3

\* The job between two messages of its batch, and after the last one.
LEMMA TriedForm ==
    ASSUME Typed, NEW m \in Msg, NEW n, Tried(m, n)
    PROVE  /\ cron' \in Job /\ cron'.pc \in {"idle", "batch"}
           /\ cron'.todo \subseteq cron.todo \ {m}
           /\ cron.todo \subseteq cron.all => cron'.todo \subseteq cron'.all
           /\ \/ rounds' = [rounds EXCEPT ![m] = n]
              \/ rounds' = Counts([rounds EXCEPT ![m] = n], cron.all) /\ cron'.todo = {}
<1>0. cron \in Job
  BY DEF Typed, JobTyped
<1>1. Goes(cron.todo \ {m}, [rounds EXCEPT ![m] = n])
  BY DEF Tried
<1>2. CASE cron.todo \ {m} = {}
  <2>1. cron' = IdleCron /\ rounds' = Counts([rounds EXCEPT ![m] = n], cron.all)
    BY <1>1, <1>2 DEF Goes
  <2> QED BY <2>1, IdleTyped DEF IdleCron
<1>3. CASE cron.todo \ {m} # {}
  <2>1. cron' = Without(cron, m) /\ rounds' = [rounds EXCEPT ![m] = n]
    BY <1>1, <1>3 DEF Goes, Without
  <2> QED BY <1>0, <2>1, WithoutTyped
<1> QED BY <1>2, <1>3

LEMMA FetchForm ==
    ASSUME Typed, CronFetch
    PROVE  /\ cron.pc = "idle" /\ cron' \in Job /\ cron'.pc \in {"idle", "batch"}
           /\ \/ cron' = cron /\ rounds' = Counts(rounds, Oldest(Waiting))
              \/ /\ cron'.todo \subseteq cron'.all /\ cron'.todo \subseteq Waiting
                 /\ \A m \in cron'.todo : rounds[m] < MaxRounds
                 /\ rounds' = rounds
<1> DEFINE all  == Oldest(Waiting)
           todo == {m \in all : rounds[m] < MaxRounds}
<1>0. cron \in Job /\ cron.pc = "idle" /\ all \subseteq Waiting /\ Waiting \subseteq Msg
  BY DEF CronFetch, Typed, JobTyped, Oldest, Waiting
<1>1. \/ cron' = cron /\ rounds' = Counts(rounds, all)
      \/ cron' = Batch(all, todo) /\ rounds' = rounds
  BY DEF CronFetch, Batch
<1>2. all \in SUBSET Msg /\ todo \in SUBSET all /\ todo \subseteq Waiting
  BY <1>0
<1>3. \A m \in todo : rounds[m] < MaxRounds
  OBVIOUS
<1> HIDE DEF todo, all
<1>4. CASE cron' = cron /\ rounds' = Counts(rounds, all)
  BY <1>0, <1>4 DEF all
<1>5. CASE cron' = Batch(all, todo) /\ rounds' = rounds
  BY <1>0, <1>2, <1>3, <1>5, BatchTyped
<1> QED BY <1>1, <1>4, <1>5

LEMMA CronTyped ==
    ASSUME Typed, CronStep
    PROVE  JobTyped'
<1>0. cron \in Job /\ cron.todo \subseteq Msg
  BY DEF Typed, JobTyped, Job
<1>1. CASE CronFetch
  BY <1>1, FetchForm DEF JobTyped
<1>2. CASE CronTake
  <2>1. PICK m \in cron.todo : Tried(m, rounds[m] + 1) \/ cron' = Taken(cron, m)
    BY <1>2 DEF CronTake, Taken
  <2>2. CASE \E n : Tried(m, n)
    BY <1>0, <2>2, TriedForm DEF JobTyped
  <2>3. CASE cron' = Taken(cron, m)
    BY <1>0, <2>3, TakenTyped DEF JobTyped
  <2> QED BY <2>1, <2>2, <2>3
<1>3. CASE CronNoTarget \/ CronFails \/ CronMark
  <2>1. PICK n : Tried(cron.m, n)
    BY <1>3 DEF CronNoTarget, CronFails, CronMark
  <2>2. cron.m \in Msg
    BY <1>3 DEF CronNoTarget, CronFails, CronMark, Typed, JobTyped
  <2> QED BY <2>1, <2>2, TriedForm DEF JobTyped
<1>4. CASE CronPost \/ CronAnswered
  BY <1>4 DEF CronPost, CronAnswered, Typed, JobTyped, Job
<1> QED BY <1>1, <1>2, <1>3, <1>4 DEF CronStep

LEMMA HandleTyped ==
    ASSUME Typed, NEW h \in Handler, Handle(h)
    PROVE  HandTyped'
<1>0. hand[h] \in Handling
  BY DEF Typed, HandTyped
<1>1. CASE Push(h)
  <2>1. PICK e \in outbox :
           hand' = [hand EXCEPT ![h] = [IdleHand EXCEPT !.pc = "insert", !.m = e.m, !.n = e.n]]
    BY <1>1 DEF Push
  <2>2. hand' = [hand EXCEPT ![h] = Handed(e.m, e.n)] /\ e.m \in Msg /\ e.n \in Nat
    BY <2>1 DEF Handed, Typed, NetTyped
  <2> QED BY <2>2, HandedTyped, HandBecomes DEF Typed
<1>2. ASSUME NEW pc \in HandPc, hand' = [hand EXCEPT ![h].pc = pc], hand[h].pc # "idle"
      PROVE  HandTyped'
  <2>1. hand' = [hand EXCEPT ![h] = HandMoved(hand[h], pc)] /\ hand[h].m \in Msg
    BY <1>2 DEF HandMoved, Typed, HandTyped
  <2> QED BY <1>0, <2>1, HandMovedTyped, HandBecomes DEF Typed
<1>3. CASE PushInsert(h)
  BY <1>2, <1>3 DEF PushInsert, HandPc
<1>6. CASE PushWindow(h)
  <2>1. hand' = [hand EXCEPT ![h] = Written(hand[h])] /\ hand[h].m \in Msg
    BY <1>6 DEF PushWindow, Written, Typed, HandTyped
  <2> QED BY <1>0, <2>1, WrittenTyped, HandBecomes DEF Typed
<1>4. CASE PushFails(h) \/ PushAck(h)
  <2>1. hand' = [hand EXCEPT ![h] = IdleHand]
    BY <1>4 DEF PushFails, PushAck
  <2> QED BY <2>1, IdleTyped, HandBecomes DEF Typed
<1>5. CASE PushCount(h)
  <2>1. PICK last \in 0 .. seq :
            hand' = [hand EXCEPT ![h].pc = "window", ![h].last = lastc, ![h].next = last]
    BY <1>5 DEF PushCount
  <2>2. hand' = [hand EXCEPT ![h] = Read(hand[h], lastc, last)]
    BY <2>1 DEF Read
  <2>3. hand[h].m \in Msg /\ lastc \in Nat /\ last \in Nat
    BY <1>5 DEF PushCount, Typed, HandTyped, RowsTyped
  <2> QED BY <1>0, <2>2, <2>3, ReadTyped, HandBecomes DEF Typed
<1> QED BY <1>1, <1>3, <1>4, <1>5, <1>6 DEF Handle

-----------------------------------------------------------------------------
(* What no action undoes, and what some of them do. *)

LEMMA DirKept ==
    ASSUME Next
    PROVE  dir' = dir /\ Org' = Org /\ Routed' = Routed
<1>1. dir' = dir
  BY DEF Next, Send, Run, CronStep, Handle, SendAsk, SendInsert, SendLocal, Forward, ForwardAnswered, ForwardFails,
       Mark, OrgPending, OrgNoKey, OrgNotSent, OrgSend, OrgSent, OrgHubAcked, OrgTimeout, HubAck, EndAck,
       CronFetch, CronTake, CronNoTarget, CronPost, CronAnswered, CronFails, CronMark, Receive,
       Push, PushInsert, PushFails, PushCount, PushWindow, PushAck, CrashA, CrashB
<1> QED BY <1>1 DEF Org, Routed

LEMMA HeldKept ==
    ASSUME Next
    PROVE  Held \subseteq Held'
<1>1. inbox \subseteq inbox'
  BY DEF Next, Send, Run, CronStep, Handle, netVars, bVars, Store, SendAsk, SendInsert, SendLocal, Forward,
       ForwardAnswered, ForwardFails, Mark, OrgPending, OrgNoKey, OrgNotSent, OrgSend, OrgSent,
       OrgHubAcked, OrgTimeout, HubAck, EndAck, CronFetch, CronTake, CronNoTarget, CronPost,
       CronAnswered, CronFails, CronMark, Receive, Push, PushInsert, PushFails, PushCount,
       PushWindow, PushAck, CrashA, CrashB
<1> QED BY <1>1 DEF Held

\* What an end_ack does to the coroutines.
LEMMA EndAckForm ==
    ASSUME Typed, NEW n, EndAck(n)
    PROVE  \A t \in Task :
               \/ task'[t] = task[t]
               \/ /\ task[t].pc = "endwait" /\ task[t].n = n
                  /\ task'[t].pc = "mark" /\ task'[t].m = task[t].m
BY DEF EndAck, EndAcked, Typed, TaskTyped, Coroutine

LEMMA RowForms ==
    /\ \A m : OwnRow(m).m = m /\ MsgRow(m).m = m
    /\ \A m \in Routed : ByItsRoute(OwnRow(m))
    /\ \A m \in Org : ByItsRoute(MsgRow(m))
<1>1. \A m : OwnRow(m).m = m /\ MsgRow(m).m = m
  BY DEF OwnRow, MsgRow
<1> QED BY <1>1 DEF ByItsRoute

LEMMA PushInsertForm ==
    ASSUME NEW h \in Handler, PushInsert(h)
    PROVE  /\ inbox' = inbox \cup {MsgRow(hand[h].m)}
           /\ hand[h].m \in Held'
<1>1. inbox' = inbox \cup {MsgRow(hand[h].m)}
  BY DEF PushInsert, Store, OrgKey, MsgRow
<1> QED BY <1>1, RowForms DEF Held

LEMMA ReceiveForm ==
    ASSUME NEW p \in posts, Receive(p)
    PROVE  /\ \/ inbox' = inbox \cup {OwnRow(p.m)}
              \/ inbox' = inbox
           /\ NoRefusal => p.m \in Held'
<1>1. /\ \/ inbox' = inbox \cup {OwnRow(p.m)}
         \/ inbox' = inbox
      /\ NoRefusal => inbox' = inbox \cup {OwnRow(p.m)}
  BY DEF Receive, Store, OwnRow
<1> QED BY <1>1, RowForms DEF Held

LEMMA AbandonTyped ==
    ASSUME Typed, NEW by
    PROVE  Abandon(by) \subseteq [m : Msg, by : Task \cup {"cron", Nobody}]
BY DEF Abandon, Typed, NetTyped

LEMMA ForwardForm ==
    ASSUME Typed, NEW t \in Task, Forward(t)
    PROVE  /\ task[t].pc = "route" /\ t # "cron" /\ task'[t].m = task[t].m
           /\ \/ task'[t].pc = "posted"
              \/ task'[t].pc = "mark" /\ task'[t].res = "failed" /\ posts' = posts
           /\ \A u \in Task : u # t => task'[u] = task[u]
           /\ \A p \in posts' : 
               \/ p \in posts
               \/ p.m = task[t].m /\ p.by = t /\ p.m \in Routed
<1>1. CASE /\ task[t].m \in Routed /\ To(t, "posted")
           /\ posts' = posts \cup {[m |-> task[t].m, by |-> t]}
  <2>1. posts' = posts \cup {[m |-> task[t].m, by |-> t]} /\ To(t, "posted") /\ task[t].pc = "route"
    BY <1>1 DEF Forward
  <2>2. /\ task'[t].pc = "posted" /\ task'[t].m = task[t].m
        /\ \A u \in Task : u # t => task'[u] = task[u]
    BY <2>1 DEF To, Typed, TaskTyped, Coroutine
  <2>3. \A p \in posts' : p \in posts \/ (p.m = task[t].m /\ p.by = t)
    BY <2>1
  <2> QED BY <1>1, <2>1, <2>2, <2>3
<1>2. CASE Result(t, "failed") /\ posts' = posts
  <2>1. posts' = posts /\ Result(t, "failed") /\ task[t].pc = "route"
    BY <1>2 DEF Forward
  <2>2. /\ task'[t].pc = "mark" /\ task'[t].res = "failed" /\ task'[t].m = task[t].m
        /\ \A u \in Task : u # t => task'[u] = task[u]
    BY <2>1 DEF Result, Typed, TaskTyped, Coroutine
  <2> QED BY <2>1, <2>2
<1> QED BY <1>1, <1>2 DEF Forward

LEMMA CronTakeForm ==
    ASSUME Typed, CronTake
    PROVE  /\ cron'.pc \in {"idle", "batch", "route"}
           /\ cron.pc = "batch" /\ UNCHANGED <<row, task, posts, answers, inbox>>
<1>0. cron \in Job /\ cron.todo \subseteq Msg
  BY DEF Typed, JobTyped, Job
<1>1. PICK m \in cron.todo : Tried(m, rounds[m] + 1) \/ cron' = Taken(cron, m)
  BY DEF CronTake, Taken
<1>2. cron'.pc \in {"idle", "batch", "route"}
  <2>1. CASE \E n : Tried(m, n)
    BY <1>0, <2>1, TriedForm
  <2>2. CASE cron' = Taken(cron, m)
    BY <1>0, <2>2, TakenTyped
  <2> QED BY <1>1, <2>1, <2>2
<1> QED BY <1>2 DEF CronTake, netVars, bVars

-----------------------------------------------------------------------------
(* Every step keeps the types. *)

LEMMA TypedKept ==
    ASSUME Typed, Next
    PROVE  Typed'
<1>1. ASSUME NEW t \in Task, Send(t) \/ Run(t) PROVE Typed'
  <2>1. TaskTyped'
    BY <1>1, SendTyped, RunTyped DEF Typed
  <2>2. JobTyped' /\ HandTyped'
    BY <1>1 DEF Typed, JobTyped, HandTyped, netVars, bVars, Send, Run, SendAsk, SendInsert, SendLocal, Forward,
         ForwardAnswered, ForwardFails, Mark, OrgPending, OrgNoKey, OrgNotSent, OrgSend, OrgSent,
         OrgHubAcked, OrgTimeout
  <2>3. task[t] \in Coroutine /\ (task[t].pc # "idle" => task[t].m \in Msg)
    BY DEF Typed, TaskTyped
  <2>4. RowsTyped'
    <3>1. CASE SendInsert(t) \/ SendLocal(t)
      <4>1. row' \in [Msg -> Status] /\ older' \subseteq Msg \X Msg
        BY <3>1, InsertForm DEF Typed, RowsTyped, Status
      <4> QED BY <3>1, <4>1 DEF SendInsert, SendLocal, Typed, RowsTyped, bVars
    <3>2. CASE Mark(t) \/ OrgPending(t) \/ OrgSent(t) \/ OrgHubAcked(t)
      BY <2>3, <3>2 DEF Mark, OrgPending, OrgSent, OrgHubAcked, MarkRow, Typed, RowsTyped, Status,
           Coroutine, netVars, bVars
    <3>3. CASE OrgNotSent(t) \/ OrgSend(t)
      BY <3>3 DEF OrgNotSent, OrgSend, Typed, RowsTyped, netVars, bVars
    <3>4. CASE UNCHANGED <<dir, row, older, seq, lastc>>
      BY <3>4 DEF Typed, RowsTyped
    <3> QED BY <1>1, <3>1, <3>2, <3>3, <3>4 DEF Send, Run, SendAsk, Forward, ForwardAnswered,
            ForwardFails, OrgNoKey, OrgTimeout, netVars, bVars
  <2>5. NetTyped'
    <3>1. CASE Forward(t)
      BY <2>3, <3>1, ForwardForm DEF Forward, Typed, NetTyped
    <3>2. CASE ForwardAnswered(t) \/ ForwardFails(t)
      BY <3>2, AbandonTyped DEF ForwardAnswered, ForwardFails, Typed, NetTyped
    <3>3. CASE OrgSend(t) \/ OrgNotSent(t)
      BY <2>3, <3>3 DEF OrgSend, OrgNotSent, Typed, NetTyped, RowsTyped
    <3>4. CASE UNCHANGED <<posts, answers, outbox>>
      BY <3>4 DEF Typed, NetTyped
    <3> QED BY <1>1, <3>1, <3>2, <3>3, <3>4 DEF Send, Run, SendAsk, SendInsert, SendLocal, Mark, OrgPending,
            OrgNoKey, OrgSent, OrgHubAcked, OrgTimeout, netVars
  <2> QED BY <2>1, <2>2, <2>4, <2>5 DEF Typed
<1>2. ASSUME NEW n, HubAck(n) \/ EndAck(n) PROVE Typed'
  BY <1>2, AckTyped DEF HubAck, EndAck, bVars, Typed, JobTyped, HandTyped, RowsTyped, NetTyped
<1>3. CASE CronStep
  <2>1. JobTyped'
    BY <1>3, CronTyped
  <2>2. TaskTyped' /\ HandTyped'
    BY <1>3 DEF Typed, TaskTyped, HandTyped, netVars, bVars, CronStep, CronFetch, CronTake, CronNoTarget,
         CronPost, CronAnswered, CronFails, CronMark
  <2>3. RowsTyped'
    BY <1>3 DEF Typed, RowsTyped, JobTyped, Status, MarkRow, netVars, bVars, CronStep, CronFetch,
         CronTake, CronNoTarget, CronPost, CronAnswered, CronFails, CronMark
  <2>4. NetTyped'
    <3>1. CASE CronPost
      BY <3>1 DEF CronPost, Typed, NetTyped, JobTyped
    <3>2. CASE CronAnswered \/ CronFails
      BY <3>2, AbandonTyped DEF CronAnswered, CronFails, Typed, NetTyped
    <3>3. CASE UNCHANGED <<posts, answers, outbox>>
      BY <3>3 DEF Typed, NetTyped
    <3> QED BY <1>3, <3>1, <3>2, <3>3 DEF CronStep, CronFetch, CronTake, CronNoTarget, CronMark, netVars
  <2> QED BY <2>1, <2>2, <2>3, <2>4 DEF Typed
<1>4. ASSUME NEW p \in posts, Receive(p) PROVE Typed'
  BY <1>4 DEF Receive, aVars, Typed, TaskTyped, JobTyped, HandTyped, RowsTyped, NetTyped
<1>5. ASSUME NEW h \in Handler, Handle(h) PROVE Typed'
  <2>1. HandTyped'
    BY <1>5, HandleTyped
  <2>2. TaskTyped' /\ JobTyped'
    BY <1>5 DEF Typed, TaskTyped, JobTyped, aVars, Handle, Push, PushInsert, PushFails, PushCount,
         PushWindow, PushAck
  <2>3. hand[h] \in Handling
    BY DEF Typed, HandTyped
  <2>4. RowsTyped' /\ NetTyped'
    BY <1>5, <2>3 DEF Typed, RowsTyped, NetTyped, Handling, aVars, netVars, Handle, Push, PushInsert,
         PushFails, PushCount, PushWindow, PushAck
  <2> QED BY <2>1, <2>2, <2>4 DEF Typed
<1>6. CASE CrashA
  BY <1>6, IdleTyped DEF CrashA, bVars, Typed, TaskTyped, JobTyped, HandTyped, RowsTyped, NetTyped
<1>7. CASE CrashB
  BY <1>7, IdleTyped DEF CrashB, aVars, netVars, Typed, TaskTyped, JobTyped, HandTyped, RowsTyped,
       NetTyped
<1> QED BY <1>1, <1>2, <1>3, <1>4, <1>5, <1>6, <1>7 DEF Next

LEMMA RoutesKept ==
    ASSUME Inv, Next
    PROVE  Routes'
<1> USE IdleTyped DEF Inv, Routes, Typed, TaskTyped, JobTyped, HandTyped, RowsTyped, NetTyped, Coroutine,
        Job, Handling, Sealed, HubPc, HandPc, aVars, netVars, bVars
<1>0. /\ Org' = Org /\ Routed' = Routed
      /\ \A x : ByItsRoute(x) => ByItsRoute(x)'
  BY DirKept DEF ByItsRoute
<1> USE <1>0
<1>1. ASSUME NEW t \in Task, Send(t) \/ Run(t) PROVE Routes'
  <2>1. CASE \E m \in Msg : SendAsk(t, m)
    BY <2>1 DEF SendAsk, IdleTask
  <2>2. CASE SendInsert(t)
    BY <2>2, SendInsertForm DEF SendInsert
  <2>14. CASE SendLocal(t)
    BY <2>14 DEF SendLocal
  <2>3. CASE Forward(t)
    <3>1. \A u \in Task : task'[u].pc \in HubPc => task'[u] = task[u]
      BY <2>3, ForwardForm
    <3>2. \A p \in posts' : p.m \in Routed
      BY <2>3, ForwardForm
    <3> QED BY <2>3, <3>1, <3>2 DEF Forward
  <2>4. CASE ForwardAnswered(t)
    BY <2>4 DEF ForwardAnswered, Result
  <2>5. CASE ForwardFails(t)
    BY <2>5 DEF ForwardFails, Result, Abandon
  <2>6. CASE Mark(t)
    BY <2>6 DEF Mark, MarkRow, IdleTask
  <2>7. CASE OrgPending(t)
    BY <2>7 DEF OrgPending, To, MarkRow
  <2>8. CASE OrgNoKey(t)
    BY <2>8 DEF OrgNoKey, Result
  <2>9. CASE OrgNotSent(t)
    BY <2>9 DEF OrgNotSent, Result
  <2>10. CASE OrgSend(t)
    BY <2>10 DEF OrgSend
  <2>11. CASE OrgSent(t)
    BY <2>11 DEF OrgSent, To, MarkRow
  <2>12. CASE OrgHubAcked(t)
    BY <2>12 DEF OrgHubAcked, To, MarkRow
  <2>13. CASE OrgTimeout(t)
    BY <2>13 DEF OrgTimeout, Result
  <2> QED BY <1>1, <2>1, <2>2, <2>3, <2>4, <2>5, <2>6, <2>7, <2>8, <2>9, <2>10, <2>11, <2>12, <2>13, <2>14
         DEF Send, Run
<1>2. ASSUME NEW n, HubAck(n) \/ EndAck(n) PROVE Routes'
  <2>1. CASE HubAck(n)
    BY <2>1 DEF HubAck, HubAcked
  <2>2. CASE EndAck(n)
    <3>1. \A t \in Task : task'[t].pc \in HubPc => task[t].pc \in HubPc /\ task'[t].m = task[t].m
      BY <2>2, EndAckForm
    <3> QED BY <2>2, <3>1 DEF EndAck
  <2> QED BY <1>2, <2>1, <2>2
<1>3. CASE CronStep
  <2>1. CASE CronFetch
    BY <2>1 DEF CronFetch
  <2>2. CASE CronTake
    BY <2>2 DEF CronTake
  <2>3. CASE CronNoTarget
    BY <2>3 DEF CronNoTarget, MarkRow
  <2>4. CASE CronPost
    BY <2>4 DEF CronPost
  <2>5. CASE CronAnswered
    BY <2>5 DEF CronAnswered
  <2>6. CASE CronFails
    BY <2>6 DEF CronFails, Abandon
  <2>7. CASE CronMark
    BY <2>7 DEF CronMark, MarkRow
  <2> QED BY <1>3, <2>1, <2>2, <2>3, <2>4, <2>5, <2>6, <2>7 DEF CronStep
<1>4. ASSUME NEW p \in posts, Receive(p) PROVE Routes'
  <2>1. p.m \in Routed
    OBVIOUS
  <2>2. \A x \in inbox' : x \in inbox \/ x = OwnRow(p.m)
    BY <1>4, ReceiveForm
  <2>3. \A x \in inbox' : ByItsRoute(x)
    BY <2>1, <2>2, RowForms
  <2> QED BY <1>4, <2>3 DEF Receive
<1>5. ASSUME NEW h \in Handler, Handle(h) PROVE Routes'
  <2>1. CASE Push(h)
    BY <2>1 DEF Push, IdleHand
  <2>2. CASE PushInsert(h)
    <3>1. hand[h].m \in Org
      <4>1. [m |-> hand[h].m, n |-> hand[h].n] \in outbox
        BY <2>2 DEF PushInsert
      <4> QED BY <4>1
    <3>2. \A x \in inbox' : x \in inbox \/ x = MsgRow(hand[h].m)
      BY <2>2, PushInsertForm
    <3>3. \A x \in inbox' : ByItsRoute(x)
      BY <3>1, <3>2, RowForms
    <3> QED BY <2>2, <3>3 DEF PushInsert
  <2>3. CASE PushFails(h)
    BY <2>3 DEF PushFails, IdleHand
  <2>4. CASE PushCount(h)
    BY <2>4 DEF PushCount, EndOfRun
  <2>5. CASE PushWindow(h)
    BY <2>5 DEF PushWindow
  <2>6. CASE PushAck(h)
    BY <2>6 DEF PushAck, Wants, IdleHand
  <2> QED BY <1>5, <2>1, <2>2, <2>3, <2>4, <2>5, <2>6 DEF Handle
<1>6. CASE CrashA
  BY <1>6 DEF CrashA, IdleTask, IdleCron
<1>7. CASE CrashB
  BY <1>7 DEF CrashB, IdleHand
<1> QED BY <1>1, <1>2, <1>3, <1>4, <1>5, <1>6, <1>7 DEF Next

LEMMA SealedKept ==
    ASSUME Inv, Next
    PROVE  Sealed'
<1> USE IdleTyped DEF Inv, Sealed, Typed, TaskTyped, JobTyped, HandTyped, RowsTyped, NetTyped, Coroutine,
        Handling, SentPc, HandPc, aVars, netVars, bVars
<1>1. ASSUME NEW t \in Task, Send(t) \/ Run(t) PROVE Sealed'
  <2>1. CASE \E m \in Msg : SendAsk(t, m)
    BY <2>1 DEF SendAsk, IdleTask
  <2>2. CASE SendInsert(t)
    BY <2>2, SendInsertForm DEF SendInsert
  <2>14. CASE SendLocal(t)
    BY <2>14 DEF SendLocal
  <2>3. CASE Forward(t)
    <3>1. \A u \in Task : task'[u].pc \in SentPc => task'[u] = task[u]
      BY <2>3, ForwardForm
    <3> QED BY <2>3, <3>1 DEF Forward
  <2>4. CASE ForwardAnswered(t)
    BY <2>4 DEF ForwardAnswered, Result
  <2>5. CASE ForwardFails(t)
    BY <2>5 DEF ForwardFails, Result, Abandon
  <2>6. CASE Mark(t)
    BY <2>6 DEF Mark, MarkRow, IdleTask
  <2>7. CASE OrgPending(t)
    BY <2>7 DEF OrgPending, To, MarkRow
  <2>8. CASE OrgNoKey(t)
    BY <2>8 DEF OrgNoKey, Result
  <2>9. CASE OrgNotSent(t)
    <3>1. /\ \A e \in outbox' : e \in outbox \/ e = [m |-> task[t].m, n |-> seq + 1]
          /\ outbox \subseteq outbox' /\ seq' = seq + 1 /\ UNCHANGED hand
      BY <2>9 DEF OrgNotSent
    <3>2. \A u \in Task : task'[u].pc \in SentPc => task'[u] = task[u]
      BY <2>9 DEF OrgNotSent, Result
    <3>3. /\ \A e \in outbox' : e.n \in 1 .. seq'
          /\ \A e, f \in outbox' : e.n = f.n => e.m = f.m
      BY <3>1
    <3> QED BY <3>1, <3>2, <3>3
  <2>10. CASE OrgSend(t)
    BY <2>10 DEF OrgSend
  <2>11. CASE OrgSent(t)
    BY <2>11 DEF OrgSent, To, MarkRow
  <2>12. CASE OrgHubAcked(t)
    BY <2>12 DEF OrgHubAcked, To, MarkRow
  <2>13. CASE OrgTimeout(t)
    BY <2>13 DEF OrgTimeout, Result
  <2> QED BY <1>1, <2>1, <2>2, <2>3, <2>4, <2>5, <2>6, <2>7, <2>8, <2>9, <2>10, <2>11, <2>12, <2>13, <2>14
         DEF Send, Run
<1>2. ASSUME NEW n, HubAck(n) \/ EndAck(n) PROVE Sealed'
  <2>1. CASE HubAck(n)
    BY <2>1 DEF HubAck, HubAcked
  <2>2. CASE EndAck(n)
    BY <2>2, ZenonT(60) DEF EndAck, EndAcked, Wants
  <2> QED BY <1>2, <2>1, <2>2
<1>3. CASE CronStep
  <2>1. CASE CronFetch
    BY <2>1 DEF CronFetch
  <2>2. CASE CronTake
    BY <2>2 DEF CronTake
  <2>3. CASE CronNoTarget
    BY <2>3 DEF CronNoTarget, MarkRow
  <2>4. CASE CronPost
    BY <2>4 DEF CronPost
  <2>5. CASE CronAnswered
    BY <2>5 DEF CronAnswered
  <2>6. CASE CronFails
    BY <2>6 DEF CronFails, Abandon
  <2>7. CASE CronMark
    BY <2>7 DEF CronMark, MarkRow
  <2> QED BY <1>3, <2>1, <2>2, <2>3, <2>4, <2>5, <2>6, <2>7 DEF CronStep
<1>4. ASSUME NEW p \in posts, Receive(p) PROVE Sealed'
  BY <1>4 DEF Receive, Store
<1>5. ASSUME NEW h \in Handler, Handle(h) PROVE Sealed'
  <2>1. CASE Push(h)
    BY <2>1 DEF Push, IdleHand
  <2>2. CASE PushInsert(h)
    BY <2>2 DEF PushInsert, Store, OrgKey
  <2>3. CASE PushFails(h)
    BY <2>3 DEF PushFails, IdleHand
  <2>4. CASE PushCount(h)
    BY <2>4 DEF PushCount, EndOfRun
  <2>5. CASE PushWindow(h)
    BY <2>5 DEF PushWindow
  <2>6. CASE PushAck(h)
    BY <2>6 DEF PushAck, Wants, IdleHand
  <2> QED BY <1>5, <2>1, <2>2, <2>3, <2>4, <2>5, <2>6 DEF Handle
<1>6. CASE CrashA
  BY <1>6 DEF CrashA, IdleTask, IdleCron
<1>7. CASE CrashB
  BY <1>7 DEF CrashB, IdleHand
<1> QED BY <1>1, <1>2, <1>3, <1>4, <1>5, <1>6, <1>7 DEF Next

LEMMA CountedKept ==
    ASSUME Inv, Next
    PROVE  Counted'
<1> USE IdleTyped DEF Inv, Counted, Sealed, Typed, TaskTyped, JobTyped, HandTyped, RowsTyped, NetTyped,
        Coroutine, Handling, HandPc, aVars, netVars, bVars
<1>0. Held \subseteq Held'
  BY HeldKept
<1> USE <1>0
<1>1. ASSUME NEW t \in Task, Send(t) \/ Run(t) PROVE Counted'
  <2>1. CASE \E m \in Msg : SendAsk(t, m)
    BY <2>1 DEF SendAsk, IdleTask
  <2>2. CASE SendInsert(t)
    BY <2>2 DEF SendInsert
  <2>14. CASE SendLocal(t)
    BY <2>14 DEF SendLocal
  <2>3. CASE Forward(t)
    BY <2>3 DEF Forward, To, Result
  <2>4. CASE ForwardAnswered(t)
    BY <2>4 DEF ForwardAnswered, Result
  <2>5. CASE ForwardFails(t)
    BY <2>5 DEF ForwardFails, Result, Abandon
  <2>6. CASE Mark(t)
    BY <2>6 DEF Mark, MarkRow, IdleTask
  <2>7. CASE OrgPending(t)
    BY <2>7 DEF OrgPending, To, MarkRow
  <2>8. CASE OrgNoKey(t)
    BY <2>8 DEF OrgNoKey, Result
  <2>9. CASE OrgNotSent(t)
    BY <2>9 DEF OrgNotSent, Result
  <2>10. CASE OrgSend(t)
    BY <2>10 DEF OrgSend
  <2>11. CASE OrgSent(t)
    BY <2>11 DEF OrgSent, To, MarkRow
  <2>12. CASE OrgHubAcked(t)
    BY <2>12 DEF OrgHubAcked, To, MarkRow
  <2>13. CASE OrgTimeout(t)
    BY <2>13 DEF OrgTimeout, Result
  <2> QED BY <1>1, <2>1, <2>2, <2>3, <2>4, <2>5, <2>6, <2>7, <2>8, <2>9, <2>10, <2>11, <2>12, <2>13, <2>14
         DEF Send, Run
<1>2. ASSUME NEW n, HubAck(n) \/ EndAck(n) PROVE Counted'
  <2>1. CASE HubAck(n)
    BY <2>1 DEF HubAck, HubAcked
  <2>2. CASE EndAck(n)
    BY <2>2, ZenonT(60) DEF EndAck, EndAcked, Wants
  <2> QED BY <1>2, <2>1, <2>2
<1>3. CASE CronStep
  <2>1. CASE CronFetch
    BY <2>1 DEF CronFetch
  <2>2. CASE CronTake
    BY <2>2 DEF CronTake
  <2>3. CASE CronNoTarget
    BY <2>3 DEF CronNoTarget, MarkRow
  <2>4. CASE CronPost
    BY <2>4 DEF CronPost
  <2>5. CASE CronAnswered
    BY <2>5 DEF CronAnswered
  <2>6. CASE CronFails
    BY <2>6 DEF CronFails, Abandon
  <2>7. CASE CronMark
    BY <2>7 DEF CronMark, MarkRow
  <2> QED BY <1>3, <2>1, <2>2, <2>3, <2>4, <2>5, <2>6, <2>7 DEF CronStep
<1>4. ASSUME NEW p \in posts, Receive(p) PROVE Counted'
  BY <1>4 DEF Receive, Store
<1>5. ASSUME NEW h \in Handler, Handle(h) PROVE Counted'
  <2>1. CASE Push(h)
    BY <2>1 DEF Push, IdleHand
  <2>2. CASE PushInsert(h)
    BY <2>2, PushInsertForm, ZenonT(60) DEF PushInsert
  <2>3. CASE PushFails(h)
    BY <2>3 DEF PushFails, IdleHand
  <2>4. CASE PushCount(h)
    <3>1. PICK last \in 0 .. seq :
              /\ EndOfRun(last, got')
              /\ hand' = [hand EXCEPT ![h].pc = "window", ![h].last = lastc, ![h].next = last]
      BY <2>4 DEF PushCount
    <3>2. got' = got \cup {hand[h].n} /\ hand[h].n \in 1 .. seq /\ hand[h].m \in Held
      <4>1. [m |-> hand[h].m, n |-> hand[h].n] \in outbox
        BY <2>4 DEF PushCount
      <4> QED BY <2>4, <4>1 DEF PushCount
    <3>3. 1 .. last \subseteq got'
      BY <3>1, <3>2 DEF EndOfRun
    <3>4. \A e \in outbox : e.n \in got' \cup endAcks => e.m \in Held
      <4>1. [m |-> hand[h].m, n |-> hand[h].n] \in outbox
        BY <2>4 DEF PushCount
      <4>2. \A e \in outbox : e.n = hand[h].n => e.m = hand[h].m
        BY <4>1
      <4> QED BY <3>2, <4>2
    <3>5. \A k \in Handler : hand'[k].pc = "window" => 1 .. hand'[k].next \subseteq got'
      BY <3>1, <3>2, <3>3
    <3>6. \A k \in Handler : hand'[k].pc \in {"count", "window", "ack"} => hand'[k].m \in Held
      BY <3>1, <3>2
    <3> QED BY <2>4, <3>2, <3>4, <3>5, <3>6 DEF PushCount
  <2>5. CASE PushWindow(h)
    BY <2>5 DEF PushWindow
  <2>6. CASE PushAck(h)
    <3>1. endAcks' \subseteq endAcks \cup {hand[h].n}
      BY <2>6 DEF PushAck
    <3>2. [m |-> hand[h].m, n |-> hand[h].n] \in outbox /\ hand[h].m \in Held
      BY <2>6 DEF PushAck
    <3>3. hand[h].n \in 1 .. seq /\ \A e \in outbox : e.n = hand[h].n => e.m \in Held
      BY <3>2
    <3>4. \A e \in outbox : e.n \in got \cup endAcks' => e.m \in Held
      BY <3>1, <3>3
    <3> QED BY <2>6, <3>1, <3>3, <3>4, ZenonT(60) DEF PushAck, IdleHand
  <2> QED BY <1>5, <2>1, <2>2, <2>3, <2>4, <2>5, <2>6 DEF Handle
<1>6. CASE CrashA
  BY <1>6 DEF CrashA, IdleTask, IdleCron
<1>7. CASE CrashB
  BY <1>7 DEF CrashB, IdleHand
<1> QED BY <1>1, <1>2, <1>3, <1>4, <1>5, <1>6, <1>7 DEF Next

LEMMA WaitedKept ==
    ASSUME Inv, Next
    PROVE  Waited'
<1> USE IdleTyped DEF Inv, Waited, Sealed, Counted, Typed, TaskTyped, JobTyped, HandTyped, RowsTyped,
        NetTyped, Coroutine, Job, Handling, SentPc, HandPc, aVars, netVars, bVars
<1>0. Held \subseteq Held'
  BY HeldKept
<1> USE <1>0
<1>1. ASSUME NEW t \in Task, Send(t) \/ Run(t) PROVE Waited'
  <2>1. CASE \E m \in Msg : SendAsk(t, m)
    BY <2>1 DEF SendAsk, IdleTask
  <2>2. CASE SendInsert(t)
    <3>1. /\ \A u \in Task : u # t => task'[u] = task[u]
          /\ task[t].pc = "asked"
      BY <2>2, SendInsertForm
    <3>2. UNCHANGED <<posts, answers, cron>>
      BY <2>2 DEF SendInsert
    <3>3. t \notin answers /\ \A p \in posts : p.by # t
      BY <3>1
    <3>4. \A p \in posts : p.by \in Task => task'[p.by] = task[p.by]
      BY <3>1, <3>3
    <3>5. \A u \in Task : u \in answers => task'[u] = task[u]
      BY <3>1, <3>3
    <3>6. /\ \A p \in posts : p.by \in Task => /\ task'[p.by].pc = "posted" /\ task'[p.by].m = p.m
                                             /\ p.by \notin answers
          /\ \A u \in Task : u \in answers => task'[u].pc = "posted"
      BY <3>4, <3>5
    <3> QED BY <3>2, <3>6
  <2>14. CASE SendLocal(t)
    BY <2>14 DEF SendLocal
  <2>3. CASE Forward(t)
    <3>1. t \notin answers /\ UNCHANGED <<cron, answers>>
      BY <2>3, ForwardForm DEF Forward
    <3>2. \A p \in posts' : p.by \in Task => /\ task'[p.by].pc = "posted" /\ task'[p.by].m = p.m
                                           /\ p.by \notin answers
      BY <2>3, <3>1, ForwardForm
    <3>3. \A p \in posts' : p.by = "cron" => p \in posts
      BY <2>3, ForwardForm
    <3>4. \A u \in Task : u \in answers => task'[u].pc = "posted"
      BY <2>3, <3>1, ForwardForm
    <3> QED BY <3>1, <3>2, <3>3, <3>4
  <2>4. CASE ForwardAnswered(t)
    BY <2>4 DEF ForwardAnswered, Result
  <2>5. CASE ForwardFails(t)
    BY <2>5 DEF ForwardFails, Result, Abandon
  <2>6. CASE Mark(t)
    BY <2>6 DEF Mark, MarkRow, IdleTask
  <2>7. CASE OrgPending(t)
    BY <2>7 DEF OrgPending, To, MarkRow
  <2>8. CASE OrgNoKey(t)
    BY <2>8 DEF OrgNoKey, Result
  <2>9. CASE OrgNotSent(t)
    BY <2>9 DEF OrgNotSent, Result
  <2>10. CASE OrgSend(t)
    BY <2>10 DEF OrgSend
  <2>11. CASE OrgSent(t)
    BY <2>11 DEF OrgSent, To, MarkRow
  <2>12. CASE OrgHubAcked(t)
    BY <2>12 DEF OrgHubAcked, To, MarkRow
  <2>13. CASE OrgTimeout(t)
    BY <2>13 DEF OrgTimeout, Result
  <2> QED BY <1>1, <2>1, <2>2, <2>3, <2>4, <2>5, <2>6, <2>7, <2>8, <2>9, <2>10, <2>11, <2>12, <2>13, <2>14
         DEF Send, Run
<1>2. ASSUME NEW n, HubAck(n) \/ EndAck(n) PROVE Waited'
  <2>1. CASE HubAck(n)
    BY <2>1 DEF HubAck, HubAcked
  <2>2. CASE EndAck(n)
    <3>1. \A t \in Task : /\ task'[t].pc = "posted" <=> task[t].pc = "posted"
                          /\ task'[t].m = task[t].m
      BY <2>2, EndAckForm
    <3> QED BY <2>2, <3>1 DEF EndAck
  <2> QED BY <1>2, <2>1, <2>2
<1>3. CASE CronStep
  <2>1. CASE CronFetch
    BY <2>1, FetchForm DEF CronFetch
  <2>2. CASE CronTake
    BY <2>2, CronTakeForm
  <2>3. CASE CronNoTarget
    BY <2>3, TriedForm DEF CronNoTarget, MarkRow
  <2>4. CASE CronPost
    BY <2>4 DEF CronPost
  <2>5. CASE CronAnswered
    BY <2>5 DEF CronAnswered
  <2>6. CASE CronFails
    BY <2>6, TriedForm DEF CronFails, Abandon
  <2>7. CASE CronMark
    BY <2>7, TriedForm DEF CronMark, MarkRow
  <2> QED BY <1>3, <2>1, <2>2, <2>3, <2>4, <2>5, <2>6, <2>7 DEF CronStep
<1>4. ASSUME NEW p \in posts, Receive(p) PROVE Waited'
  <2>1. \A q \in posts' : q \in posts /\ q # p
    BY <1>4 DEF Receive
  <2>2. \A t \in Task : t \in answers' => task[t].pc = "posted"
    BY <1>4 DEF Receive
  <2>3. "cron" \in answers' => cron.pc = "posted"
    BY <1>4 DEF Receive
  <2>4. \A q \in posts' : q.by \in Task \cup {"cron"} => q.by \notin answers'
    <3>1. ASSUME NEW q \in posts', q.by = p.by, p.by # Nobody PROVE FALSE
      <4>1. /\ q \in [m : Msg, by : Task \cup {"cron", Nobody}]
            /\ p \in [m : Msg, by : Task \cup {"cron", Nobody}]
        BY <2>1
      <4>2. q.m = p.m
        BY <2>1, <3>1, <4>1
      <4> QED BY <2>1, <3>1, <4>1, <4>2, SMTT(20)
    <3> QED BY <1>4, <2>1, <3>1 DEF Receive
  <2> QED BY <1>4, <2>1, <2>2, <2>3, <2>4 DEF Receive
<1>5. ASSUME NEW h \in Handler, Handle(h) PROVE Waited'
  <2>1. CASE Push(h)
    BY <2>1 DEF Push, IdleHand
  <2>2. CASE PushInsert(h)
    BY <2>2 DEF PushInsert, Store, OrgKey
  <2>3. CASE PushFails(h)
    BY <2>3 DEF PushFails, IdleHand
  <2>4. CASE PushCount(h)
    BY <2>4 DEF PushCount, EndOfRun
  <2>5. CASE PushWindow(h)
    BY <2>5 DEF PushWindow
  <2>6. CASE PushAck(h)
    BY <2>6 DEF PushAck, Wants, IdleHand
  <2> QED BY <1>5, <2>1, <2>2, <2>3, <2>4, <2>5, <2>6 DEF Handle
<1>6. CASE CrashA
  BY <1>6 DEF CrashA, IdleTask, IdleCron
<1>7. CASE CrashB
  BY <1>7 DEF CrashB, IdleHand
<1> QED BY <1>1, <1>2, <1>3, <1>4, <1>5, <1>6, <1>7 DEF Next

\* Rows are never taken back.
LEMMA RowsStay ==
    ASSUME Typed, RowsBegun, Next, NEW m \in Msg, row[m] # "none"
    PROVE  row'[m] # "none"
<1>1. ASSUME NEW t \in Task, Send(t) \/ Run(t) PROVE row'[m] # "none"
  <2>1. CASE SendInsert(t) \/ SendLocal(t)
    BY <2>1, InsertForm DEF Typed, RowsTyped
  <2>2. CASE Mark(t) \/ OrgPending(t) \/ OrgSent(t) \/ OrgHubAcked(t)
    <3>1. PICK res \in Status : MarkRow(task[t].m, res) /\ res # "none"
      BY <2>2 DEF Mark, OrgPending, OrgSent, OrgHubAcked, RowsBegun, Typed, TaskTyped, Coroutine, Status
    <3> QED BY <3>1 DEF MarkRow, Typed, RowsTyped
  <2>3. CASE UNCHANGED row
    BY <2>3
  <2> QED BY <1>1, <2>1, <2>2, <2>3 DEF Send, Run, SendAsk, Forward, ForwardAnswered, ForwardFails,
          OrgNoKey, OrgNotSent, OrgSend, OrgTimeout
<1>2. CASE CronStep
  <2>1. CASE CronNoTarget \/ CronMark
    BY <2>1 DEF CronNoTarget, CronMark, MarkRow, Typed, RowsTyped
  <2>2. CASE UNCHANGED row
    BY <2>2
  <2> QED BY <1>2, <2>1, <2>2 DEF CronStep, CronFetch, CronTake, CronPost, CronAnswered, CronFails
<1>3. CASE UNCHANGED row
  BY <1>3
<1> QED BY <1>1, <1>2, <1>3 DEF Next, HubAck, EndAck, Receive, Handle, Push, PushInsert, PushFails,
        PushCount, PushWindow, PushAck, CrashA, CrashB, aVars

\* A coroutine changes nobody but itself.
LEMMA OthersStay ==
    ASSUME Typed, NEW t \in Task, Send(t) \/ Run(t), NEW u \in Task, u # t
    PROVE  task'[u] = task[u]
BY DEF Typed, TaskTyped, Send, Run, SendAsk, SendInsert, SendLocal, Forward, ForwardAnswered, ForwardFails, Mark,
       OrgPending, OrgNoKey, OrgNotSent, OrgSend, OrgSent, OrgHubAcked, OrgTimeout, To, Result

\* A coroutine that goes on keeps its message.
LEMMA MessageStays ==
    ASSUME Typed, NEW t \in Task, Run(t) \/ SendInsert(t), task'[t].pc # "idle"
    PROVE  task'[t].m = task[t].m /\ task[t].pc # "idle"
<1>1. task[t] \in Coroutine /\ task \in [Task -> Coroutine]
  BY DEF Typed, TaskTyped
<1>2. CASE Mark(t)
  BY <1>1, <1>2, IdleTyped DEF Mark
<1>3. ASSUME NEW pc, To(t, pc) PROVE task'[t].m = task[t].m
  BY <1>1, <1>3 DEF To, Coroutine
<1>4. ASSUME NEW res, Result(t, res) PROVE task'[t].m = task[t].m
  BY <1>1, <1>4 DEF Result, Coroutine
<1>5. CASE OrgSend(t)
  BY <1>1, <1>5 DEF OrgSend, Coroutine
<1>6. CASE SendInsert(t)
  BY <1>6, SendInsertForm
<1> QED BY <1>2, <1>3, <1>4, <1>5, <1>6 DEF Run, Forward, ForwardAnswered, ForwardFails, OrgPending,
        OrgNoKey, OrgNotSent, OrgSent, OrgHubAcked, OrgTimeout

LEMMA RowsBegunKept ==
    ASSUME Typed, RowsBegun, Next
    PROVE  RowsBegun'
<1> DEFINE Fine(u) == /\ task'[u].pc \notin {"idle", "asked"} => row'[task'[u].m] # "none"
                      /\ task'[u].pc = "mark" => task'[u].res # "none"
<1>0. \A m \in Msg : row[m] # "none" => row'[m] # "none"
  BY RowsStay
<1>1. ASSUME NEW u \in Task, task'[u] = task[u] PROVE Fine(u)
  BY <1>0, <1>1 DEF RowsBegun, Typed, TaskTyped
<1>2. ASSUME NEW t \in Task, Send(t) \/ Run(t) PROVE Fine(t)
  <2>1. task[t] \in Coroutine /\ task \in [Task -> Coroutine] /\ (task[t].pc # "idle" => task[t].m \in Msg)
    BY DEF Typed, TaskTyped
  <2>2. ASSUME NEW m \in Msg, SendAsk(t, m) PROVE Fine(t)
    <3>1. task' = [task EXCEPT ![t] = Asked(m)] /\ Asked(m).pc = "asked"
      BY <2>2 DEF SendAsk, Asked, IdleTask
    <3> QED BY <2>1, <3>1
  <2>3. CASE SendInsert(t)
    <3>1. task'[t].m = task[t].m /\ task'[t].pc # "mark"
      BY <2>3, SendInsertForm
    <3>2. row'[task[t].m] # "none"
      BY <2>3, InsertForm DEF Typed, RowsTyped
    <3> QED BY <3>1, <3>2
  <2>6. CASE SendLocal(t)
    BY <2>1, <2>6, IdleTyped DEF SendLocal
  <2>4. CASE Mark(t)
    BY <2>1, <2>4, IdleTyped DEF Mark
  <2>5. CASE Run(t) /\ ~Mark(t)
    <3>1. task[t].pc \notin {"idle", "asked"}
      BY <2>5 DEF Run, Forward, ForwardAnswered, ForwardFails, OrgPending, OrgNoKey, OrgNotSent, OrgSend,
           OrgSent, OrgHubAcked, OrgTimeout
    <3>2. row'[task[t].m] # "none"
      BY <1>0, <2>1, <3>1 DEF RowsBegun
    <3>3. task'[t].pc = "mark" => task'[t].res # "none"
      <4>1. ASSUME NEW pc \in TaskPc \ {"mark"}, To(t, pc) PROVE task'[t].pc # "mark"
        BY <2>1, <4>1 DEF To, Coroutine
      <4>2. ASSUME NEW res \in {"delivered", "failed"}, Result(t, res) PROVE task'[t].res # "none"
        BY <2>1, <4>2 DEF Result, Coroutine
      <4>3. CASE OrgSend(t)
        BY <2>1, <4>3 DEF OrgSend, Coroutine
      <4> QED BY <2>5, <4>1, <4>2, <4>3 DEF Run, Forward, ForwardAnswered, ForwardFails, OrgPending, OrgNoKey,
              OrgNotSent, OrgSent, OrgHubAcked, OrgTimeout, TaskPc
    <3> QED BY <2>5, <3>2, <3>3, MessageStays
  <2> QED BY <1>2, <2>2, <2>3, <2>4, <2>5, <2>6 DEF Send
<1>3. ASSUME NEW n, HubAck(n) \/ EndAck(n), NEW u \in Task PROVE Fine(u)
  <2>1. \/ task'[u] = task[u]
        \/ /\ task[u].pc \in {"hubwait", "endwait"} /\ task'[u].m = task[u].m
           /\ task'[u].pc = "mark" => task'[u].res # "none"
    <3>1. task[u] \in Coroutine
      BY DEF Typed, TaskTyped
    <3>2. task'[u] \in {HubAcked(u, n), EndAcked(u, n)}
      BY <1>3 DEF HubAck, EndAck
    <3>3. CASE task'[u] = HubAcked(u, n)
      BY <3>1, <3>3 DEF HubAcked, Coroutine
    <3>4. CASE task'[u] = EndAcked(u, n)
      BY <3>1, <3>4 DEF EndAcked, Coroutine
    <3> QED BY <3>2, <3>3, <3>4
  <2> QED BY <1>0, <1>1, <2>1 DEF RowsBegun, Typed, TaskTyped
<1>4. CASE CrashA
  BY <1>4, IdleTyped DEF CrashA, RowsBegun
<1>5. CASE UNCHANGED task
  BY <1>1, <1>5 DEF RowsBegun
<1>6. ASSUME NEW t \in Task, Send(t) \/ Run(t) PROVE RowsBegun'
  <2>1. \A u \in Task : Fine(u)
    BY <1>1, <1>2, <1>6, OthersStay
  <2> QED BY <2>1 DEF RowsBegun
<1>7. ASSUME NEW n, HubAck(n) \/ EndAck(n) PROVE RowsBegun'
  BY <1>3, <1>7 DEF RowsBegun
<1> HIDE DEF Fine
<1> QED BY <1>4, <1>5, <1>6, <1>7 DEF Next, CronStep, CronFetch, CronTake, CronNoTarget, CronPost,
        CronAnswered, CronFails, CronMark, Receive, Handle, Push, PushInsert, PushFails, PushCount,
        PushWindow, PushAck, CrashB, aVars

LEMMA AcksSentKept ==
    ASSUME Typed, Sealed, AcksSent, Next
    PROVE  AcksSent'
<1>1. outbox \subseteq outbox'
  BY DEF Next, Send, Run, CronStep, Handle, netVars, SendAsk, SendInsert, SendLocal, Forward, ForwardAnswered,
       ForwardFails, Mark, OrgPending, OrgNoKey, OrgNotSent, OrgSend, OrgSent, OrgHubAcked, OrgTimeout,
       HubAck, EndAck, CronFetch, CronTake, CronNoTarget, CronPost, CronAnswered, CronFails, CronMark,
       Receive, Push, PushInsert, PushFails, PushCount, PushWindow, PushAck, CrashA, CrashB
<1>2. ASSUME NEW t \in Task, OrgSend(t) PROVE AcksSent'
  <2>1. \E e \in outbox' : e.n = seq + 1
    <3>1. [m |-> task[t].m, n |-> seq + 1] \in outbox'
      BY <1>2 DEF OrgSend
    <3> QED BY <3>1
  <2> QED BY <1>1, <1>2, <2>1 DEF OrgSend, AcksSent
<1>3. ASSUME NEW h \in Handler, PushAck(h) PROVE AcksSent'
  <2>1. \E e \in outbox : e.n = hand[h].n
    BY <1>3 DEF PushAck, Sealed
  <2> QED BY <1>1, <1>3, <2>1 DEF PushAck, AcksSent
<1>4. CASE hubAcks' \subseteq hubAcks /\ endAcks' \subseteq endAcks
  BY <1>1, <1>4 DEF AcksSent
<1> QED BY <1>2, <1>3, <1>4 DEF Next, Send, Run, CronStep, Handle, netVars, SendAsk, SendInsert, SendLocal, Forward,
        ForwardAnswered, ForwardFails, Mark, OrgPending, OrgNoKey, OrgNotSent, OrgSent, OrgHubAcked,
        OrgTimeout, HubAck, EndAck, CronFetch, CronTake, CronNoTarget, CronPost, CronAnswered, CronFails,
        CronMark, Receive, Push, PushInsert, PushFails, PushCount, PushWindow, CrashA, CrashB

LEMMA JobCountsKept ==
    ASSUME Typed, JobCounts, Next
    PROVE  JobCounts'
<1> USE DEF JobCounts
<1>1. cron \in Job /\ (cron.pc \in {"route", "posted", "mark"} => cron.m \in Msg)
  BY DEF Typed, JobTyped
<1>2. ASSUME NEW m \in cron.todo, NEW n \in 0 .. MaxRounds, Tried(m, n)
      PROVE  JobCounts'
  <2>0. m \in Msg /\ cron.todo \subseteq Msg
    BY <1>1 DEF Job
  <2>1. cron'.todo \subseteq cron'.all /\ cron'.todo \subseteq cron.todo \ {m} /\ cron'.pc \in {"idle", "batch"}
    BY <1>2, <2>0, TriedForm
  <2>2. rounds' = [rounds EXCEPT ![m] = n] \/ (rounds' = Counts([rounds EXCEPT ![m] = n], cron.all) /\ cron'.todo = {})
    BY <1>2, <2>0, TriedForm
  <2>3. rounds' \in [Msg -> 0 .. MaxRounds]
    BY <2>2 DEF Counts
  <2>4. \A k \in cron'.todo : rounds'[k] < MaxRounds
    BY <2>0, <2>1, <2>2
  <2> QED BY <2>1, <2>3, <2>4
<1>3. CASE CronFetch
  <2>1. rounds' \in [Msg -> 0 .. MaxRounds]
    BY <1>3, FetchForm DEF Counts
  <2>2. /\ cron.todo \subseteq Msg
        /\ \A m \in Msg, M \in SUBSET Msg : rounds[m] < MaxRounds => Counts(rounds, M)[m] < MaxRounds
    BY <1>1 DEF Job, Counts
  <2>3. Oldest(Waiting) \in SUBSET Msg
    BY DEF Oldest, Waiting
  <2> QED BY <1>3, <2>1, <2>2, <2>3, FetchForm
<1>4. CASE CronTake
  <2>1. PICK m \in cron.todo : Tried(m, rounds[m] + 1) \/ (cron' = Taken(cron, m) /\ rounds' = rounds)
    BY <1>4 DEF CronTake, Taken
  <2>2. m \in Msg /\ rounds[m] + 1 \in 0 .. MaxRounds
    BY <1>1 DEF Job
  <2>3. CASE cron' = Taken(cron, m) /\ rounds' = rounds
    BY <1>1, <2>2, <2>3, TakenTyped
  <2> QED BY <1>2, <2>1, <2>2, <2>3
<1>5. CASE CronNoTarget \/ CronFails \/ CronMark
  <2>1. cron.m \in cron.todo /\ rounds[cron.m] + 1 \in 0 .. MaxRounds
    BY <1>1, <1>5 DEF CronNoTarget, CronFails, CronMark, Job
  <2>2. PICK n \in 0 .. MaxRounds : Tried(cron.m, n)
    BY <1>5, <2>1 DEF CronNoTarget, CronFails, CronMark
  <2> QED BY <1>2, <2>1, <2>2
<1>6. CASE CronPost \/ CronAnswered
  BY <1>1, <1>6 DEF CronPost, CronAnswered, Job
<1>8. CASE CrashA
  BY <1>8, IdleTyped DEF CrashA, IdleCron
<1>9. CASE UNCHANGED <<cron, rounds>>
  BY <1>9
<1> QED BY <1>3, <1>4, <1>5, <1>6, <1>8, <1>9 DEF Next, Send, Run, CronStep, Handle, aVars, SendAsk,
        SendInsert, SendLocal, Forward, ForwardAnswered, ForwardFails, Mark, OrgPending, OrgNoKey, OrgNotSent, OrgSend,
        OrgSent, OrgHubAcked, OrgTimeout, HubAck, EndAck, Receive, Push, PushInsert, PushFails, PushCount,
        PushWindow, PushAck, CrashB

LEMMA RecordedKept ==
    ASSUME Typed, RowsBegun, Recorded, Next
    PROVE  Recorded'
<1>0. \A m \in Msg : row[m] # "none" => row'[m] # "none"
  BY RowsStay
<1>1. /\ \A p \in posts' : p.m \in Msg /\ row'[p.m] # "none"
      /\ \A e \in outbox' : e.m \in Msg /\ row'[e.m] # "none"
  <2>1. /\ \A p \in posts : p.m \in Msg /\ row'[p.m] # "none"
        /\ \A e \in outbox : e.m \in Msg /\ row'[e.m] # "none"
    BY <1>0 DEF Recorded, Typed, NetTyped
  <2>2. ASSUME NEW t \in Task, Forward(t) \/ OrgSend(t) \/ OrgNotSent(t)
        PROVE  task[t].m \in Msg /\ row'[task[t].m] # "none"
    BY <1>0, <2>2 DEF Forward, OrgSend, OrgNotSent, RowsBegun, Typed, TaskTyped
  <2>3. ASSUME NEW t \in Task, Forward(t)
        PROVE  posts' \subseteq posts \cup {[m |-> task[t].m, by |-> t]} /\ outbox' = outbox
    BY <2>3 DEF Forward
  <2>4. ASSUME NEW t \in Task, OrgSend(t) \/ OrgNotSent(t)
        PROVE  posts' = posts /\ outbox' \subseteq outbox \cup {[m |-> task[t].m, n |-> seq + 1]}
    BY <2>4 DEF OrgSend, OrgNotSent
  <2>5. CASE CronPost
    <3>1. cron.m \in Msg /\ row'[cron.m] # "none"
      BY <1>0, <2>5 DEF CronPost, Recorded, Typed, JobTyped
    <3> QED BY <2>1, <2>5, <3>1 DEF CronPost
  <2>6. CASE /\ \A q \in posts' : \E p \in posts : q.m = p.m
             /\ outbox' = outbox
    BY <2>1, <2>6
  <2>7. ASSUME NEW by, posts' = Abandon(by), outbox' = outbox
        PROVE  \A q \in posts' : \E p \in posts : q.m = p.m
    BY <2>7 DEF Abandon, Typed, NetTyped
  <2>8. CASE CrashA
    BY <2>1, <2>8 DEF CrashA, Typed, NetTyped
  <2>9. ASSUME NEW t \in Task, ForwardFails(t) PROVE posts' = Abandon(t) /\ outbox' = outbox
    BY <2>9 DEF ForwardFails
  <2>10. CASE UNCHANGED <<posts, outbox>>
    BY <2>1, <2>10
  <2>11. CASE CronFails
    BY <2>6, <2>7, <2>11 DEF CronFails
  <2>12. ASSUME NEW p \in posts, Receive(p) PROVE posts' \subseteq posts /\ outbox' = outbox
    BY <2>12 DEF Receive
  <2>13. ASSUME NEW t \in Task, Forward(t) \/ OrgSend(t) \/ OrgNotSent(t) \/ ForwardFails(t)
         PROVE  /\ \A p \in posts' : p.m \in Msg /\ row'[p.m] # "none"
                /\ \A e \in outbox' : e.m \in Msg /\ row'[e.m] # "none"
    BY <2>1, <2>2, <2>3, <2>4, <2>6, <2>7, <2>9, <2>13
  <2>14. ASSUME NEW p \in posts, Receive(p)
         PROVE  /\ \A q \in posts' : q.m \in Msg /\ row'[q.m] # "none"
                /\ \A e \in outbox' : e.m \in Msg /\ row'[e.m] # "none"
    BY <2>1, <2>12, <2>14
  <2> QED BY <2>5, <2>8, <2>10, <2>11, <2>13, <2>14 DEF Next, Send, Run, CronStep, Handle, aVars, netVars,
          SendAsk, SendInsert, SendLocal, ForwardAnswered, Mark, OrgPending, OrgNoKey, OrgNotSent, OrgSent,
          OrgHubAcked, OrgTimeout, HubAck, EndAck, CronFetch, CronTake, CronNoTarget, CronAnswered,
          CronMark, Push, PushInsert, PushFails, PushCount, PushWindow, PushAck, CrashB
<1>2. /\ \A m \in cron'.todo : row'[m] # "none"
      /\ cron'.pc \in {"route", "posted", "mark"} => row'[cron'.m] # "none"
  <2>0. /\ cron \in Job /\ (cron.pc \in {"route", "posted", "mark"} => cron.m \in Msg)
        /\ \A m \in cron.todo : m \in Msg /\ row'[m] # "none"
        /\ cron.pc \in {"route", "posted", "mark"} => row'[cron.m] # "none"
    BY <1>0 DEF Recorded, Typed, JobTyped, Job
  <2>1. CASE CronFetch
    <3>1. \A m \in Waiting : row'[m] # "none"
      BY <1>0 DEF Waiting
    <3> QED BY <2>0, <2>1, <3>1, FetchForm
  <2>2. ASSUME NEW m \in Msg, NEW n, Tried(m, n)
        PROVE  cron'.pc \in {"idle", "batch"} /\ cron'.todo \subseteq cron.todo
    BY <2>2, TriedForm
  <2>3. CASE CronTake
    <3>1. PICK m \in cron.todo : Tried(m, rounds[m] + 1) \/ cron' = Taken(cron, m)
      BY <2>3 DEF CronTake, Taken
    <3>2. CASE cron' = Taken(cron, m)
      BY <2>0, <3>2, TakenTyped
    <3> QED BY <2>0, <2>2, <3>1, <3>2
  <2>4. CASE CronNoTarget \/ CronFails \/ CronMark
    <3>1. PICK n : Tried(cron.m, n)
      BY <2>4 DEF CronNoTarget, CronFails, CronMark
    <3> QED BY <2>0, <2>2, <2>4, <3>1 DEF CronNoTarget, CronFails, CronMark
  <2>5. CASE CronPost \/ CronAnswered
    BY <2>0, <2>5 DEF CronPost, CronAnswered, Job
  <2>6. CASE CrashA
    BY <2>6 DEF CrashA, IdleCron
  <2>7. CASE UNCHANGED cron
    BY <2>0, <2>7
  <2> QED BY <2>1, <2>3, <2>4, <2>5, <2>6, <2>7 DEF Next, Send, Run, CronStep, Handle, aVars, SendAsk,
          SendInsert, SendLocal, Forward, ForwardAnswered, ForwardFails, Mark, OrgPending, OrgNoKey, OrgNotSent,
          OrgSend, OrgSent, OrgHubAcked, OrgTimeout, HubAck, EndAck, Receive, Push, PushInsert,
          PushFails, PushCount, PushWindow, PushAck, CrashB
<1> QED BY <1>1, <1>2 DEF Recorded

\* The numbers that are still to be taken: one for each coroutine and message, until the
\* coroutine has sent it, or it turns out that another had begun.
Ahead(t, m) == row[m] = "none" \/ (task[t].pc \in {"asked", "pend", "seal"} /\ task[t].m = m)
Left        == {x \in Task \X Msg : Ahead(x[1], x[2])}
Bounded     == seq + Cardinality(Left) <= Cardinality(Task \X Msg)

LEMMA AheadKept ==
    ASSUME Typed, RowsBegun, Next, NEW u \in Task, NEW m \in Msg, Ahead(u, m)'
    PROVE  Ahead(u, m)
<1>1. SUFFICES ASSUME row[m] # "none", task'[u].pc \in {"asked", "pend", "seal"}, task'[u].m = m
               PROVE  task[u].pc \in {"asked", "pend", "seal"} /\ task[u].m = m
  BY RowsStay DEF Ahead
<1>2. task[u] \in Coroutine /\ task \in [Task -> Coroutine]
  BY DEF Typed, TaskTyped
<1>3. CASE task'[u] = task[u]
  BY <1>1, <1>3
<1>4. CASE Send(u) \/ Run(u)
  <2>1. ASSUME NEW k \in Msg, SendAsk(u, k) PROVE FALSE
    <3>1. task'[u] = Asked(k) /\ row[k] = "none"
      BY <1>2, <2>1 DEF SendAsk, Asked
    <3> QED BY <1>1, <3>1, AskedTyped
  <2>2. CASE SendInsert(u)
    BY <1>1, <2>2, SendInsertForm
  <2>5. ~SendLocal(u)
    BY <1>1, <1>2, IdleTyped DEF SendLocal
  <2>3. CASE OrgPending(u)
    BY <1>1, <2>3, MessageStays DEF OrgPending, Run
  <2>4. CASE Run(u) /\ ~OrgPending(u)
    <3>1. ASSUME NEW pc \in TaskPc \ {"asked", "pend", "seal"}, To(u, pc) PROVE FALSE
      BY <1>1, <1>2, <3>1 DEF To, Coroutine
    <3>2. ASSUME NEW res, Result(u, res) PROVE FALSE
      BY <1>1, <1>2, <3>2 DEF Result, Coroutine
    <3>3. ~OrgSend(u)
      BY <1>1, <1>2 DEF OrgSend, Coroutine
    <3>4. ~Mark(u)
      BY <1>1, <1>2, IdleTyped DEF Mark
    <3> QED BY <2>4, <3>1, <3>2, <3>3, <3>4 DEF Run, Forward, ForwardAnswered, ForwardFails, OrgNoKey,
            OrgNotSent, OrgSent, OrgHubAcked, OrgTimeout, TaskPc
  <2> QED BY <1>4, <2>1, <2>2, <2>3, <2>4, <2>5 DEF Send
<1>5. ASSUME NEW n, HubAck(n) \/ EndAck(n) PROVE task'[u] = task[u]
  <2>1. task'[u] \in {HubAcked(u, n), EndAcked(u, n)}
    BY <1>5 DEF HubAck, EndAck
  <2>2. CASE task'[u] = HubAcked(u, n)
    BY <1>1, <1>2, <2>2 DEF HubAcked, Coroutine
  <2>3. CASE task'[u] = EndAcked(u, n)
    BY <1>1, <1>2, <2>3 DEF EndAcked, Coroutine
  <2> QED BY <2>1, <2>2, <2>3
<1>6. ~CrashA
  BY <1>1, IdleTyped DEF CrashA
<1>7. ASSUME NEW t \in Task, t # u, Send(t) \/ Run(t) PROVE task'[u] = task[u]
  BY <1>7, OthersStay
<1> QED BY <1>3, <1>4, <1>5, <1>6, <1>7 DEF Next, CronStep, CronFetch, CronTake, CronNoTarget, CronPost,
        CronAnswered, CronFails, CronMark, Receive, Handle, Push, PushInsert, PushFails, PushCount,
        PushWindow, PushAck, CrashB, aVars

\* Whoever takes a number uses his turn up.
LEMMA TurnUsed ==
    ASSUME Typed, RowsBegun, NEW t \in Task, OrgSend(t) \/ OrgNotSent(t)
    PROVE  /\ seq' = seq + 1
           /\ \E m \in Msg : Ahead(t, m) /\ ~Ahead(t, m)'
<1>0. PICK m \in Msg : m = task[t].m
  BY DEF Typed, TaskTyped, OrgSend, OrgNotSent
<1>1. task[t] \in Coroutine /\ task \in [Task -> Coroutine]
  BY DEF Typed, TaskTyped, OrgSend, OrgNotSent
<1>2. seq' = seq + 1 /\ task[t].pc = "seal" /\ row[m] # "none" /\ row' = row
  BY <1>0 DEF OrgSend, OrgNotSent, RowsBegun
<1>3. task'[t].pc \in {"sent", "mark"}
  BY <1>1 DEF OrgSend, OrgNotSent, Result, Coroutine
<1>4. Ahead(t, m) /\ ~Ahead(t, m)'
  BY <1>0, <1>2, <1>3 DEF Ahead
<1> QED BY <1>2, <1>4

LEMMA BoundedKept ==
    ASSUME IsFiniteSet(Task \X Msg), Typed, RowsBegun, Bounded, Next
    PROVE  Bounded'
<1>0. /\ IsFiniteSet(Left) /\ Cardinality(Left) \in Nat /\ Cardinality(Task \X Msg) \in Nat
      /\ seq \in Nat
  BY FS_Subset, FS_CardinalityType DEF Left, Typed, RowsTyped
<1>1. Left' \subseteq Left
  BY AheadKept DEF Left
<1>2. ASSUME NEW t \in Task, OrgSend(t) \/ OrgNotSent(t) PROVE Bounded'
  <2>0. PICK m \in Msg : Ahead(t, m) /\ ~Ahead(t, m)'
    BY <1>2, TurnUsed
  <2> DEFINE x == <<t, m>>
  <2>1. x \in Left /\ x \notin Left' /\ seq' = seq + 1
    BY <1>2, <2>0, TurnUsed DEF Left
  <2>2. Left' \subseteq Left \ {x}
    BY <1>1, <2>1
  <2>3. IsFiniteSet(Left \ {x}) /\ Cardinality(Left \ {x}) = Cardinality(Left) - 1
    BY <1>0, <2>1, FS_RemoveElement
  <2>4. Cardinality(Left') <= Cardinality(Left) - 1 /\ Cardinality(Left') \in Nat
    BY <2>2, <2>3, FS_Subset, FS_CardinalityType
  <2> QED BY <1>0, <2>1, <2>4 DEF Bounded
<1>3. CASE UNCHANGED seq
  <2>1. Cardinality(Left') <= Cardinality(Left) /\ Cardinality(Left') \in Nat
    BY <1>0, <1>1, FS_Subset, FS_CardinalityType
  <2> QED BY <1>0, <1>3, <2>1 DEF Bounded
<1> QED BY <1>2, <1>3 DEF Next, Send, Run, CronStep, Handle, aVars, SendAsk, SendInsert, SendLocal, Forward,
        ForwardAnswered, ForwardFails, Mark, OrgPending, OrgNoKey, OrgSent, OrgHubAcked, OrgTimeout, HubAck,
        EndAck, CronFetch, CronTake, CronNoTarget, CronPost, CronAnswered, CronFails, CronMark, Receive, Push,
        PushInsert, PushFails, PushCount, PushWindow, PushAck, CrashA, CrashB

LEMMA AnsweredKept ==
    ASSUME Inv, NoRefusal, Next
    PROVE  Answered'
<1> USE IdleTyped DEF Inv, Answered, Waited, Sealed, Counted, Typed, TaskTyped, JobTyped, HandTyped, RowsTyped,
        NetTyped, Coroutine, Job, Handling, SentPc, HandPc, aVars, netVars, bVars
<1>0. Held \subseteq Held'
  BY HeldKept
<1> USE <1>0
<1>1. ASSUME NEW t \in Task, Send(t) \/ Run(t) PROVE Answered'
  <2>1. CASE \E m \in Msg : SendAsk(t, m)
    BY <2>1 DEF SendAsk, IdleTask
  <2>2. CASE SendInsert(t)
    <3>1. /\ \A u \in Task : u # t => task'[u] = task[u]
          /\ task[t].pc = "asked" /\ task'[t].pc \in {"route", "pend"}
      BY <2>2, SendInsertForm
    <3>2. \A m \in Msg : row'[m] = "delivered" => row[m] = "delivered"
      BY <2>2, InsertForm
    <3>3. \A u \in Task : u \in answers => task'[u].m \in Held'
      BY <3>1
    <3>4. \A u \in Task : task'[u].pc = "mark" /\ task'[u].res = "delivered" => task'[u].m \in Held'
      BY <3>1
    <3>5. UNCHANGED <<cron, answers>>
      BY <2>2 DEF SendInsert
    <3> QED BY <3>2, <3>3, <3>4, <3>5
  <2>14. CASE SendLocal(t)
    <3>1. /\ \A u \in Task : u # t => task'[u] = task[u]
          /\ task[t].pc = "asked" /\ task'[t].pc = "idle"
      BY <2>14 DEF SendLocal
    <3>2. \A m \in Msg : row'[m] = "delivered" => row[m] = "delivered"
      BY <2>14, InsertForm
    <3>3. \A u \in Task : u \in answers => task'[u].m \in Held'
      BY <3>1
    <3>4. \A u \in Task : task'[u].pc = "mark" /\ task'[u].res = "delivered" => task'[u].m \in Held'
      BY <3>1
    <3>5. UNCHANGED <<cron, answers>>
      BY <2>14 DEF SendLocal
    <3> QED BY <3>2, <3>3, <3>4, <3>5
  <2>3. CASE Forward(t)
    <3>1. t \notin answers /\ UNCHANGED <<row, cron, answers, inbox>>
      BY <2>3, ForwardForm DEF Forward
    <3>2. \A u \in Task : u \in answers => task'[u].m \in Held'
      <4>1. \A u \in Task : u \in answers => u # t /\ task[u].m \in Held
        BY <3>1
      <4>2. \A u \in Task : u # t => task'[u] = task[u]
        BY <2>3, ForwardForm
      <4> QED BY ONLY <1>0, <4>1, <4>2
    <3>3. \A u \in Task : task'[u].pc = "mark" /\ task'[u].res = "delivered" => task'[u].m \in Held'
      <4>1. \A u \in Task : task[u].pc = "mark" /\ task[u].res = "delivered" => task[u].m \in Held
        OBVIOUS
      <4>2. /\ task'[t].pc = "mark" => task'[t].res = "failed"
            /\ \A u \in Task : u # t => task'[u] = task[u]
        BY <2>3, ForwardForm
      <4> QED BY ONLY <1>0, <4>1, <4>2
    <3>4. /\ "cron" \in answers => cron.m \in Held'
          /\ cron.pc = "mark" => cron.m \in Held'
          /\ \A m \in Msg : row[m] = "delivered" => m \in Held'
      OBVIOUS
    <3> QED BY ONLY <3>1, <3>2, <3>3, <3>4 DEF Answered
  <2>4. CASE ForwardAnswered(t)
    BY <2>4 DEF ForwardAnswered, Result
  <2>5. CASE ForwardFails(t)
    BY <2>5 DEF ForwardFails, Result, Abandon
  <2>6. CASE Mark(t)
    BY <2>6 DEF Mark, MarkRow, IdleTask
  <2>7. CASE OrgPending(t)
    BY <2>7 DEF OrgPending, To, MarkRow
  <2>8. CASE OrgNoKey(t)
    BY <2>8 DEF OrgNoKey, Result
  <2>9. CASE OrgNotSent(t)
    BY <2>9 DEF OrgNotSent, Result
  <2>10. CASE OrgSend(t)
    BY <2>10 DEF OrgSend
  <2>11. CASE OrgSent(t)
    BY <2>11 DEF OrgSent, To, MarkRow
  <2>12. CASE OrgHubAcked(t)
    BY <2>12 DEF OrgHubAcked, To, MarkRow
  <2>13. CASE OrgTimeout(t)
    BY <2>13 DEF OrgTimeout, Result
  <2> QED BY <1>1, <2>1, <2>2, <2>3, <2>4, <2>5, <2>6, <2>7, <2>8, <2>9, <2>10, <2>11, <2>12, <2>13, <2>14
         DEF Send, Run
<1>2. ASSUME NEW n, HubAck(n) \/ EndAck(n) PROVE Answered'
  <2>1. CASE HubAck(n)
    BY <2>1 DEF HubAck, HubAcked
  <2>2. CASE EndAck(n)
    <3>1. n \in endAcks
      BY <2>2 DEF EndAck
    <3>2. ASSUME NEW u \in Task, task[u].pc = "endwait", task[u].n = n PROVE task[u].m \in Held
      <4>1. [m |-> task[u].m, n |-> n] \in outbox
        BY <3>2
      <4> QED BY <3>1, <4>1
    <3>3. \A t \in Task : /\ task'[t].pc = "posted" <=> task[t].pc = "posted"
                          /\ task'[t].m = task[t].m
                          /\ task'[t] = task[t] \/ task[t].m \in Held
      BY <2>2, <3>2, EndAckForm
    <3> QED BY <2>2, <3>3 DEF EndAck
  <2> QED BY <1>2, <2>1, <2>2
<1>3. CASE CronStep
  <2>1. CASE CronFetch
    BY <2>1, FetchForm DEF CronFetch
  <2>2. CASE CronTake
    BY <2>2, CronTakeForm
  <2>3. CASE CronNoTarget
    <3>1. /\ cron.pc = "route" /\ cron'.pc \in {"idle", "batch"}
          /\ row' = [row EXCEPT ![cron.m] = "failed"] /\ UNCHANGED <<task, answers>>
      BY <2>3, TriedForm DEF CronNoTarget, MarkRow
    <3>2. "cron" \notin answers
      BY <3>1
    <3>3. \A m \in Msg : row'[m] = "delivered" => row[m] = "delivered"
      BY <3>1
    <3> QED BY <3>1, <3>2, <3>3
  <2>4. CASE CronPost
    BY <2>4 DEF CronPost
  <2>5. CASE CronAnswered
    BY <2>5 DEF CronAnswered
  <2>6. CASE CronFails
    BY <2>6, TriedForm DEF CronFails, Abandon
  <2>7. CASE CronMark
    <3>1. /\ cron.pc = "mark" /\ cron'.pc \in {"idle", "batch"} /\ cron.m \in Msg
          /\ row' = [row EXCEPT ![cron.m] = "delivered"] /\ UNCHANGED <<task, answers>>
      BY <2>7, TriedForm DEF CronMark, MarkRow
    <3>2. "cron" \notin answers /\ cron.m \in Held
      BY <3>1
    <3>3. \A m \in Msg : row'[m] = "delivered" => m \in Held
      BY <3>1, <3>2
    <3> QED BY <3>1, <3>2, <3>3
  <2> QED BY <1>3, <2>1, <2>2, <2>3, <2>4, <2>5, <2>6, <2>7 DEF CronStep
<1>4. ASSUME NEW p \in posts, Receive(p) PROVE Answered'
  <2>1. p.m \in Held'
    BY <1>4, ReceiveForm
  <2>2. \A t \in Task : t \in answers' => task[t].m \in Held'
    BY <1>4, <2>1 DEF Receive
  <2>3. "cron" \in answers' => cron.m \in Held'
    BY <1>4, <2>1 DEF Receive
  <2> QED BY <1>4, <2>1, <2>2, <2>3 DEF Receive
<1>5. ASSUME NEW h \in Handler, Handle(h) PROVE Answered'
  <2>1. CASE Push(h)
    BY <2>1 DEF Push, IdleHand
  <2>2. CASE PushInsert(h)
    BY <2>2 DEF PushInsert, Store, OrgKey
  <2>3. CASE PushFails(h)
    BY <2>3 DEF PushFails, IdleHand
  <2>4. CASE PushCount(h)
    BY <2>4 DEF PushCount, EndOfRun
  <2>5. CASE PushWindow(h)
    BY <2>5 DEF PushWindow
  <2>6. CASE PushAck(h)
    BY <2>6 DEF PushAck, Wants, IdleHand
  <2> QED BY <1>5, <2>1, <2>2, <2>3, <2>4, <2>5, <2>6 DEF Handle
<1>6. CASE CrashA
  BY <1>6 DEF CrashA, IdleTask, IdleCron
<1>7. CASE CrashB
  BY <1>7 DEF CrashB, IdleHand
<1> QED BY <1>1, <1>2, <1>3, <1>4, <1>5, <1>6, <1>7 DEF Next

-----------------------------------------------------------------------------
(* The theorems. *)

LEMMA StutterInv ==
    ASSUME Inv, UNCHANGED vars
    PROVE  Inv'
<1>1. Typed' /\ Routes'
  BY DEF Inv, Typed, TaskTyped, JobTyped, HandTyped, RowsTyped, NetTyped, Routes, ByItsRoute, Org,
       Routed, vars, aVars, netVars, bVars
<1>2. Sealed' /\ Counted' /\ Waited'
  BY DEF Inv, Sealed, Counted, Waited, Held, vars, aVars, netVars, bVars
<1>3. NoRefusal => Answered'
  BY DEF Inv, Answered, Held, vars, aVars, netVars, bVars
<1> QED BY <1>1, <1>2, <1>3 DEF Inv

LEMMA NextInv == Inv /\ [Next]_vars => Inv'
<1>1. ASSUME Inv, Next PROVE Inv'
  <2>1. Typed' /\ Routes' /\ Sealed' /\ Counted' /\ Waited'
    BY <1>1, TypedKept, RoutesKept, SealedKept, CountedKept, WaitedKept DEF Inv
  <2>2. NoRefusal => Answered'
    BY <1>1, AnsweredKept
  <2> QED BY <2>1, <2>2 DEF Inv
<1> QED BY <1>1, StutterInv

\* In every run Inv holds.
LEMMA Always == Spec => []Inv
BY InitInv, NextInv, PTL DEF Spec

\* The numbers taken are as many as the sends: every step keeps the bound.
LEMMA BegunHolds == Spec => []Begun
<1>1. Init => Begun
  BY IdleTyped DEF Init, Begun, RowsBegun, AcksSent, JobCounts, Recorded, IdleCron
<1>2. Inv /\ Begun /\ [Next]_vars => Begun'
  <2>1. CASE UNCHANGED vars
    BY <2>1 DEF Begun, RowsBegun, AcksSent, JobCounts, Recorded, vars, aVars, netVars
  <2> QED BY <2>1, RowsBegunKept, AcksSentKept, JobCountsKept, RecordedKept DEF Begun, Inv
<1> QED BY <1>1, <1>2, Always, PTL DEF Spec

LEMMA BoundHolds == ASSUME IsFiniteSet(Task \X Msg) PROVE Spec => []Bounded
<1>1. Init => Bounded
  <2> SUFFICES ASSUME Init PROVE Bounded
    OBVIOUS
  <2>1. Left \subseteq Task \X Msg
    BY DEF Left
  <2> QED BY <2>1, FS_Subset, FS_CardinalityType DEF Init, Bounded
<1>2. Inv /\ Begun /\ Bounded /\ [Next]_vars => Bounded'
  <2>1. CASE UNCHANGED vars
    BY <2>1 DEF Bounded, Left, Ahead, vars, aVars
  <2> QED BY <2>1, BoundedKept DEF Begun, Inv
<1> QED BY <1>1, <1>2, Always, BegunHolds, PTL DEF Spec

\* The state stays what TypeOK says, and the sequence numbers stay below one for each
\* coroutine and message, however the retries, timeouts and crashes come.
THEOREM DeliveryTyped == ASSUME IsFiniteSet(Task \X Msg) PROVE Spec => []TypeOK
<1>1. Inv /\ Begun /\ Bounded => TypeOK
  <2> SUFFICES ASSUME Inv, Begun, Bounded PROVE TypeOK
    OBVIOUS
  <2>1. /\ \A t \in Task : task[t].pc \in TaskPc /\ task[t].m \in Msg \cup {Nobody} /\ task[t].res \in Status
        /\ dir \in [Msg -> Entry] /\ row \in [Msg -> Status] /\ older \subseteq Msg \X Msg
    BY DEF Inv, Typed, TaskTyped, RowsTyped, Coroutine
  <2>2. /\ cron.pc \in {"idle", "batch", "route", "posted", "mark"}
        /\ cron.all \subseteq Msg /\ cron.todo \subseteq cron.all
        /\ rounds \in [Msg -> 0 .. MaxRounds]
    BY DEF Inv, Typed, JobTyped, Job, Begun, JobCounts
  <2>3. seq \in Seqs
    <3>1. Cardinality(Left) \in Nat /\ Cardinality(Task \X Msg) \in Nat
      BY FS_Subset, FS_CardinalityType DEF Left
    <3> QED BY <3>1 DEF Bounded, Seqs, Inv, Typed, RowsTyped
  <2>4. lastc \in 0 .. seq /\ got \subseteq 1 .. seq
    <3>1. lastc > 0 => lastc \in 1 .. lastc
      BY DEF Inv, Typed, RowsTyped
    <3> QED BY <3>1 DEF Inv, Counted, Typed, RowsTyped
  <2>5. outbox \subseteq Envelopes /\ hubAcks \cup endAcks \subseteq {e.n : e \in outbox}
    <3>1. \A e \in outbox : e \in [m : Msg, n : Nat] /\ e.n \in 1 .. seq
      BY DEF Inv, Typed, NetTyped, Sealed
    <3>2. 1 .. seq \subseteq Seqs
      <4>1. Cardinality(Task \X Msg) \in Nat
        BY FS_CardinalityType
      <4> QED BY <2>3, <4>1 DEF Seqs
    <3> QED BY <3>1, <3>2 DEF Envelopes, Begun, AcksSent
  <2>6. /\ posts \subseteq [m : Msg, by : Task \cup {"cron", Nobody}]
        /\ answers \subseteq {p \in Task \cup {"cron"} :
                            IF p = "cron" THEN cron.pc = "posted" ELSE task[p].pc = "posted"}
    BY DEF Inv, Typed, NetTyped, Waited
  <2>7. \A h \in Handler : hand[h].pc \in {"idle", "insert", "count", "window", "ack"}
    BY DEF Inv, Typed, HandTyped, Handling, HandPc
  <2> QED BY <2>1, <2>2, <2>3, <2>4, <2>5, <2>6, <2>7 DEF TypeOK
<1> QED BY <1>1, Always, BegunHolds, BoundHolds, PTL

\* However often a message is sent, retried and pushed, and whoever crashes in between, it
\* is stored at B once at most; an addressee of another company that has a server_host as
\* well gets it twice at most, one copy by the Hub and one by the retry's POST.
THEOREM StoredOnce == Spec => []AtMostOnce
<1>1. Inv => AtMostOnce
  <2> SUFFICES ASSUME Inv, NEW x \in inbox, NEW y \in inbox, x.m = y.m, x # y
               PROVE  x.m \in Org \cap Routed /\ \A z \in inbox : z.m = x.m => z \in {x, y}
    BY DEF AtMostOnce
  <2>1. \A z \in inbox : ByItsRoute(z)
    BY DEF Inv, Routes
  <2> QED BY <2>1 DEF ByItsRoute
<1> QED BY <1>1, Always, PTL

\* As long as B refuses no request, what A calls delivered is in the addressee's inbox.
THEOREM DeliveredHolds == ASSUME NoRefusal PROVE Spec => []DeliveredIsReceived
<1>1. Inv => DeliveredIsReceived
  BY DEF Inv, Answered, Held, DeliveredIsReceived
<1> QED BY <1>1, Always, PTL

\* The window of B never passes a number that has not come, and what lies before its
\* end is in the inbox.
THEOREM WindowHolds == Spec => []WindowIsReceived
<1>1. Inv => WindowIsReceived
  <2> SUFFICES ASSUME Inv PROVE WindowIsReceived
    OBVIOUS
  <2>1. 1 .. lastc \subseteq got
    BY DEF Inv, Counted
  <2>2. ASSUME NEW e \in outbox, e.n <= lastc PROVE e.m \in Held
    <3>1. e.n \in 1 .. lastc
      BY <2>2 DEF Inv, Sealed, Typed, RowsTyped
    <3> QED BY <2>1, <3>1 DEF Inv, Counted
  <2> QED BY <2>1, <2>2 DEF WindowIsReceived, Held
<1> QED BY <1>1, Always, PTL
-----------------------------------------------------------------------------
(* The refinement of Mailbox. *)

\* Whoever writes a verdict has a row to write it to, and what is to be called delivered
\* is in the inbox.
LEMMA VerdictTickets ==
    ASSUME Typed, NEW m \in Msg, NEW res \in Status, row' = [row EXCEPT ![m] = res],
           row[m] # "none", res # "none", res = "delivered" => m \in Held,
           UNCHANGED <<inbox, Org, Routed>>
    PROVE  [Ticket!Next]_(Ticket!vars)
<1> DEFINE status == [k \in Msg |-> IF row[k] \in {"none", "delivered"} THEN row[k] ELSE "open"]
           copies == [k \in Msg |-> {x \in inbox : x.m = k}]
           now    == IF res = "delivered" THEN "delivered" ELSE "open"
<1>1. /\ row \in [Msg -> Status] /\ row' = [row EXCEPT ![m] = res]
      /\ copies' = copies
  BY DEF Typed, RowsTyped
<1>2. status' = [status EXCEPT ![m] = now]
  BY <1>1
<1>3. status[m] \in {"open", "delivered"}
  OBVIOUS
<1>4. CASE status[m] = now
  <2>1. status' = status
    BY <1>2, <1>4
  <2> QED BY <1>1, <2>1 DEF Ticket!vars
<1>5. CASE status[m] = "open" /\ now = "delivered"
  <2>1. copies[m] # {}
    BY <1>5 DEF Held
  <2>2. Ticket!Report(m)
    BY <1>1, <1>2, <1>5, <2>1 DEF Ticket!Report
  <2> QED BY <2>2 DEF Ticket!Next
<1>6. CASE status[m] = "delivered" /\ now = "open"
  <2>1. Ticket!Doubt(m)
    BY <1>1, <1>2, <1>6 DEF Ticket!Doubt
  <2> QED BY <2>1 DEF Ticket!Next
<1> QED BY <1>3, <1>4, <1>5, <1>6

\* What is stored has a row, and it is the only one of its message, or one of two.
LEMMA StoreTickets ==
    ASSUME NEW m \in Msg, NEW x, x.m = m, inbox' = inbox \cup {x}, AtMostOnce',
           row[m] # "none", UNCHANGED <<row, Org, Routed>>
    PROVE  [Ticket!Next]_(Ticket!vars)
<1> DEFINE status == [k \in Msg |-> IF row[k] \in {"none", "delivered"} THEN row[k] ELSE "open"]
           copies == [k \in Msg |-> {y \in inbox : y.m = k}]
<1>1. status' = status /\ status[m] # "none"
  OBVIOUS
<1>2. CASE x \in inbox
  <2>1. copies' = copies
    BY <1>2
  <2> QED BY <1>1, <2>1 DEF Ticket!vars
<1>3. CASE x \notin inbox
  <2>1. copies[m] = {} \/ (m \in Org \cap Routed /\ \A y, z \in copies[m] : y = z)
    <3>1. ASSUME NEW y \in inbox, y.m = m
          PROVE  m \in Org \cap Routed /\ \A z \in inbox : z.m = m => z = y
      <4>1. x \in inbox' /\ y \in inbox' /\ x # y /\ x.m = y.m
        BY <1>3, <3>1
      <4>2. x.m \in Org' \cap Routed' /\ \A z \in inbox' : z.m = x.m => z \in {x, y}
        BY <4>1 DEF AtMostOnce
      <4> QED BY <1>3, <4>2
    <3> QED BY <3>1
  <2>2. copies' = [copies EXCEPT ![m] = @ \cup {x}] /\ x \in copies'[m]
    OBVIOUS
  <2>3. Ticket!Store(m)
    BY <1>1, <2>1, <2>2 DEF Ticket!Store, Ticket!Room
  <2> QED BY <2>3 DEF Ticket!Next
<1> QED BY <1>2, <1>3

LEMMA InsertTickets ==
    ASSUME Typed, NEW t \in Task, SendInsert(t) \/ SendLocal(t), UNCHANGED <<Org, Routed>>
    PROVE  [Ticket!Next]_(Ticket!vars)
<1>0. PICK m \in Msg : m = task[t].m
  BY InsertForm
<1> DEFINE status == [k \in Msg |-> IF row[k] \in {"none", "delivered"} THEN row[k] ELSE "open"]
           copies == [k \in Msg |-> {x \in inbox : x.m = k}]
<1>1. copies' = copies /\ row \in [Msg -> Status]
  BY DEF SendInsert, SendLocal, bVars, Typed, RowsTyped
<1>2. CASE row[m] # "none"
  <2>1. status' = status
    BY <1>0, <1>2, InsertForm
  <2> QED BY <1>1, <2>1 DEF Ticket!vars
<1>3. CASE row[m] = "none"
  <2>1. PICK r \in {"cross_org", "pending", "local"} : row' = [row EXCEPT ![m] = r]
    BY <1>0, <1>3, InsertForm
  <2>2. status[m] = "none" /\ status' = [status EXCEPT ![m] = "open"]
    BY <1>1, <1>3, <2>1
  <2>3. Ticket!Accept(m)
    BY <1>1, <2>2 DEF Ticket!Accept
  <2> QED BY <1>1, <2>3 DEF Ticket!Next
<1> QED BY <1>2, <1>3

LEMMA StillTickets ==
    ASSUME UNCHANGED <<row, inbox, Org, Routed>>
    PROVE  [Ticket!Next]_(Ticket!vars)
BY DEF Ticket!vars

LEMMA NextTickets ==
    ASSUME Inv, Begun, NoRefusal, AtMostOnce', Next
    PROVE  [Ticket!Next]_(Ticket!vars)
<1> USE DEF Inv
<1>0. UNCHANGED <<Org, Routed>>
  BY DirKept
<1>1. ASSUME NEW t \in Task, Send(t) \/ Run(t) PROVE [Ticket!Next]_(Ticket!vars)
  <2>1. CASE SendInsert(t) \/ SendLocal(t)
    BY <1>0, <2>1, InsertTickets
  <2>2. CASE Mark(t) \/ OrgPending(t) \/ OrgSent(t) \/ OrgHubAcked(t)
    <3>1. PICK m \in Msg : m = task[t].m /\ row[m] # "none" /\ UNCHANGED inbox
      BY <2>2 DEF Mark, OrgPending, OrgSent, OrgHubAcked, bVars, Begun, RowsBegun, Typed, TaskTyped
    <3>2. PICK res \in Status : /\ row' = [row EXCEPT ![m] = res] /\ res # "none"
                                /\ res = "delivered" => m \in Held
      BY <2>2, <3>1 DEF MarkRow, Mark, OrgPending, OrgSent, OrgHubAcked, Begun, RowsBegun, Answered, Typed, TaskTyped,
           Coroutine, Status
    <3> QED BY <1>0, <3>1, <3>2, VerdictTickets
  <2>3. CASE UNCHANGED <<row, inbox>>
    BY <1>0, <2>3, StillTickets
  <2> QED BY <1>1, <2>1, <2>2, <2>3 DEF Send, Run, SendAsk, Forward, ForwardAnswered, ForwardFails,
          OrgNoKey, OrgNotSent, OrgSend, OrgTimeout, bVars
<1>2. CASE CronNoTarget \/ CronMark
  <2>1. PICK m \in Msg : m = cron.m /\ row[m] # "none" /\ UNCHANGED inbox
    BY <1>2 DEF CronNoTarget, CronMark, bVars, Begun, Recorded, Typed, JobTyped
  <2>2. PICK res \in {"failed", "delivered"} : /\ row' = [row EXCEPT ![m] = res]
                                               /\ res = "delivered" => m \in Held
    BY <1>2, <2>1 DEF MarkRow, CronNoTarget, CronMark, Answered
  <2> QED BY <1>0, <2>1, <2>2, VerdictTickets DEF Status
<1>3. ASSUME NEW p \in posts, Receive(p) PROVE [Ticket!Next]_(Ticket!vars)
  <2>1. p.m \in Msg /\ row[p.m] # "none" /\ UNCHANGED row
    BY <1>3 DEF Receive, aVars, Begun, Recorded, Typed, NetTyped
  <2>2. inbox' = inbox \cup {OwnRow(p.m)} \/ inbox' = inbox
    BY <1>3, ReceiveForm
  <2> QED BY <1>0, <2>1, <2>2, StillTickets, StoreTickets, RowForms
<1>4. ASSUME NEW h \in Handler, PushInsert(h) PROVE [Ticket!Next]_(Ticket!vars)
  <2>1. hand[h].m \in Msg /\ row[hand[h].m] # "none" /\ UNCHANGED row
    BY <1>4 DEF PushInsert, aVars, Begun, Recorded, Sealed, Typed, HandTyped
  <2>2. inbox' = inbox \cup {MsgRow(hand[h].m)}
    BY <1>4 DEF PushInsert, Store, OrgKey, MsgRow
  <2> QED BY <1>0, <2>1, <2>2, StoreTickets, RowForms
<1>5. CASE UNCHANGED <<row, inbox>>
  BY <1>0, <1>5, StillTickets
<1> QED BY <1>1, <1>2, <1>3, <1>4, <1>5 DEF Next, CronStep, CronFetch, CronTake, CronPost, CronAnswered,
        CronFails, HubAck, EndAck, Handle, Push, PushFails, PushCount, PushWindow, PushAck,
        CrashA, CrashB, aVars, bVars

\* As long as B refuses no request, the two bases keep the promise of Mailbox in every run,
\* whatever the directory says: nothing is stored that its sender has no row for, nothing
\* twice but what can be reached both ways, nothing stored is lost, and delivered is said
\* only of what is stored.
THEOREM MailboxRefined == ASSUME NoRefusal PROVE Spec => ImplementsMailbox
<1>1. Init => Ticket!Init
  BY DEF Init, Ticket!Init, Org
<1>2. Inv /\ Begun /\ AtMostOnce' /\ [Next]_vars => [Ticket!Next]_(Ticket!vars)
  <2>1. CASE UNCHANGED vars
    BY <2>1, StillTickets DEF vars, aVars, bVars, Org, Routed
  <2> QED BY <2>1, NextTickets
<1> QED BY <1>1, <1>2, Always, BegunHolds, StoredOnce, PTL DEF Spec, ImplementsMailbox, Ticket!Spec
=============================================================================
