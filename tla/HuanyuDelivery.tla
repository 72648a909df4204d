---------------------------- MODULE HuanyuDelivery ----------------------------
(***************************************************************************)
(* A message of an agent on base A to an agent on base B (huanyu/messaging.py, *)
(* cron.py, hub_client.py).                                                 *)
(*                                                                         *)
(* send_message inserts a row and starts a coroutine that sends it on its   *)
(* way: _async_forward POSTs it to B; to another company _send_cross_org    *)
(* hands a sealed envelope to the Hub and waits for the Hub's answer and for *)
(* B's.  Every half hour a job takes the rows that are pending or failed and *)
(* POSTs them again, whichever way they were sent first.                    *)
(*                                                                         *)
(* An action is one SQL statement, one frame sent or one frame handled.     *)
(* Frames overtake each other, and one that is lost is one that is never    *)
(* handled; either base may stop; the Hub keeps its envelopes and pushes     *)
(* each as often as it likes.  The sequence number of an envelope stands for *)
(* its nonce, too; acknowledgements are kept while somebody may want them.   *)
(***************************************************************************)
EXTENDS Naturals, FiniteSets

CONSTANTS
    Msg,          \* messages to other bases, told apart by their idempotency_key
    Entry,        \* what A's directory may come to say of an addressee: whether the agent is of
                  \* another company (org), whether its server_host leads to a base (routed)
    Task,         \* coroutines of send_message and what it starts
    Handler,      \* coroutines of handle_hub_envelope on B
    Nobody,       \* no message, no coroutine
    NoRefusal,    \* B refuses no request: the clocks are less than 5 s apart, the bases share
                  \* the key of peer_sig, the filter of nonces gives no false alarm
    Limit,        \* of get_pending_deliveries: the oldest rows are fetched
    MaxRounds,    \* _MAX_RETRY_ROUNDS
    MaxCrash      \* bound on the crashes of the two bases

ASSUME DeliveryAssumption ==
    /\ Entry \subseteq [org : BOOLEAN, routed : BOOLEAN]
    /\ Nobody \notin Msg \cup Task
    /\ "cron" \notin Task \cup {Nobody}
    /\ NoRefusal \in BOOLEAN
    /\ Limit \in Nat \ {0} /\ MaxRounds \in Nat \ {0} /\ MaxCrash \in Nat

VARIABLES
    dir,          \* A: Msg -> its addressee's entry in the directory, or what it says at
                  \* some time or other: each look-up may find less
    row,          \* A: Msg -> delivery_status of its row, "none" without one
    older,        \* A: pairs of messages, the row of the first was created before the second's
    task,         \* A: Task -> coroutine
    cron,         \* A: the retry job
    rounds,       \* A: _retry_rounds, in memory
    seq,          \* A: the company's sequence number in Redis
    posts,        \* POSTs under way to B: the message and who waits for the answer
    answers,      \* who gets the answer 200
    outbox,       \* the Hub: envelopes it has received
    hubAcks, endAcks,   \* acknowledgements under way to A
    inbox,        \* B: its rows, a message and the key it is stored under
    seen,         \* B: _envelope_nonce_lru, in memory
    got, lastc,   \* B: sequence numbers received and last_continuous, in Redis
    hand,         \* B: Handler -> coroutine
    crashes

aVars == <<row, task, cron, rounds, seq>>
netVars == <<posts, answers, outbox, hubAcks, endAcks>>
bVars == <<inbox, seen, got, lastc, hand>>
vars == <<aVars, netVars, bVars, crashes, dir, older>>

Org == {m \in Msg : dir[m].org}
Routed == {m \in Msg : dir[m].routed}

Status == {"none", "local", "cross_org", "pending", "sent", "hub_acked", "delivered", "failed"}

IdleTask == [pc |-> "idle", m |-> Nobody, n |-> 0, res |-> "none"]
IdleCron == [pc |-> "idle", all |-> {}, todo |-> {}, m |-> Nobody]
IdleHand == [pc |-> "idle", m |-> Nobody, n |-> 0, last |-> 0, next |-> 0]

TaskPc == {"idle", "asked", "route", "posted", "pend", "seal", "sent", "hubwait",
           "hubmark", "endwait", "mark"}

\* A coroutine takes at most one number for each message.
Seqs == 0..Cardinality(Task \X Msg)

Envelopes == [m : Msg, n : Seqs]

TypeOK ==
    /\ dir \in [Msg -> Entry]
    /\ row \in [Msg -> Status] /\ older \subseteq Msg \X Msg
    /\ \A t \in Task : task[t].pc \in TaskPc /\ task[t].m \in Msg \cup {Nobody} /\ task[t].res \in Status
    /\ cron.pc \in {"idle", "batch", "route", "posted", "mark"}
    /\ cron.all \subseteq Msg /\ cron.todo \subseteq cron.all
    /\ rounds \in [Msg -> 0..MaxRounds]
    /\ seq \in Seqs /\ lastc \in 0..seq /\ got \subseteq 1..seq
    /\ outbox \subseteq Envelopes /\ hubAcks \cup endAcks \subseteq {e.n : e \in outbox}
    /\ posts \subseteq [m : Msg, by : Task \cup {"cron", Nobody}]
    /\ answers \subseteq {p \in Task \cup {"cron"} : IF p = "cron" THEN cron.pc = "posted" ELSE task[p].pc = "posted"}
    /\ \A h \in Handler : hand[h].pc \in {"idle", "insert", "count", "window", "ack"}

Init ==
    /\ dir \in [Msg -> Entry]
    /\ row = [m \in Msg |-> "none"] /\ older = {} /\ task = [t \in Task |-> IdleTask]
    /\ cron = IdleCron /\ rounds = [m \in Msg |-> 0] /\ seq = 0
    /\ posts = {} /\ answers = {} /\ outbox = {} /\ hubAcks = {} /\ endAcks = {}
    /\ inbox = {} /\ seen = {} /\ got = {} /\ lastc = 0
    /\ hand = [h \in Handler |-> IdleHand]
    /\ crashes = 0

-----------------------------------------------------------------------------
(* A: send_message and the coroutine it starts. *)

To(t, pc) == task' = [task EXCEPT ![t].pc = pc]
Result(t, res) == task' = [task EXCEPT ![t].pc = "mark", ![t].n = 0, ![t].res = res]
\* mark_delivery_status, an UPDATE with no condition but the message
MarkRow(m, res) == row' = [row EXCEPT ![m] = res]

\* The key is not in the table yet.
SendAsk(t, m) ==
    /\ task[t].pc = "idle" /\ row[m] = "none"
    /\ task' = [task EXCEPT ![t] = [IdleTask EXCEPT !.pc = "asked", !.m = m]]
    /\ UNCHANGED <<row, cron, rounds, seq, netVars, bVars, crashes, dir, older>>

\* What the coroutine begins with: the Hub for an agent of another company, unless the
\* Hub is asked for the agent's company and does not answer.
Ways(m) == (IF m \in Org THEN {"pend"} ELSE {}) \cup (IF m \in Org \ Routed THEN {} ELSE {"route"})

\* A faulty variant: the row is written by whoever has sent the message.
SendInsertLate(t) ==
    /\ task[t].pc = "asked"
    /\ \E way \in Ways(task[t].m) : To(t, way)
    /\ UNCHANGED <<row, cron, rounds, seq, netVars, bVars, crashes, dir, older>>

\* INSERT ... ON CONFLICT DO NOTHING.
Insert(m, status) ==
    IF row[m] # "none" THEN UNCHANGED <<row, older>>
    ELSE /\ MarkRow(m, status)
         /\ older' = older \cup {<<k, m>> : k \in {k \in Msg : row[k] # "none"}}

\* Whoever finds the key taken after all goes on with the row that is there, and sends it
\* as well.
SendInsert(t) ==
    /\ task[t].pc = "asked"
    /\ \E way \in Ways(task[t].m) :
          /\ Insert(task[t].m, IF way = "pend" THEN "cross_org" ELSE "pending")
          /\ To(t, way)
    /\ UNCHANGED <<cron, rounds, seq, netVars, bVars, crashes, dir>>

\* Neither a server_host nor a company was found: the message is taken for one within the
\* base, and nobody sends it on.
SendLocal(t) ==
    /\ task[t].pc = "asked"
    /\ Insert(task[t].m, "local")
    /\ task' = [task EXCEPT ![t] = IdleTask]
    /\ UNCHANGED <<cron, rounds, seq, netVars, bVars, crashes, dir>>

\* _async_forward
Forward(t) ==
    LET m == task[t].m IN
    /\ task[t].pc = "route"
    /\ \/ m \in Routed /\ To(t, "posted") /\ posts' = posts \cup {[m |-> m, by |-> t]}
       \/ Result(t, "failed") /\ UNCHANGED posts
    /\ UNCHANGED <<row, cron, rounds, seq, answers, outbox, hubAcks, endAcks, bVars, crashes, dir, older>>

\* A faulty variant: the answer to a call that has timed out is kept for the next one.
AbandonNone(by) == posts
Abandon(by) == {IF p.by = by THEN [p EXCEPT !.by = Nobody] ELSE p : p \in posts}

ForwardAnswered(t) ==
    /\ task[t].pc = "posted" /\ t \in answers
    /\ answers' = answers \ {t}
    /\ Result(t, "delivered")
    /\ UNCHANGED <<row, cron, rounds, seq, posts, outbox, hubAcks, endAcks, bVars, crashes, dir, older>>

\* No answer in 10 s, or not 200.  The request may still arrive.
ForwardFails(t) ==
    /\ task[t].pc = "posted"
    /\ posts' = Abandon(t) /\ answers' = answers \ {t}
    /\ Result(t, "failed")
    /\ UNCHANGED <<row, cron, rounds, seq, outbox, hubAcks, endAcks, bVars, crashes, dir, older>>

Mark(t) ==
    /\ task[t].pc = "mark"
    /\ MarkRow(task[t].m, task[t].res)
    /\ task' = [task EXCEPT ![t] = IdleTask]
    /\ UNCHANGED <<cron, rounds, seq, netVars, bVars, crashes, dir, older>>

\* _send_cross_org
OrgPending(t) ==
    /\ task[t].pc = "pend"
    /\ MarkRow(task[t].m, "pending")
    /\ To(t, "seal")
    /\ UNCHANGED <<cron, rounds, seq, netVars, bVars, crashes, dir, older>>

\* The other company's key is not to be had.
OrgNoKey(t) ==
    /\ task[t].pc = "seal"
    /\ Result(t, "failed")
    /\ UNCHANGED <<row, cron, rounds, seq, netVars, bVars, crashes, dir, older>>

\* The number is taken before the frame is sent: one that is not sent leaves a gap.  A
\* frame that send_json gives up after 5 s may have left all the same.
OrgNotSent(t) ==
    /\ task[t].pc = "seal"
    /\ seq' = seq + 1
    /\ Result(t, "failed")
    /\ \/ UNCHANGED outbox
       \/ outbox' = outbox \cup {[m |-> task[t].m, n |-> seq + 1]}
    /\ UNCHANGED <<row, cron, rounds, posts, answers, hubAcks, endAcks, bVars, crashes, dir, older>>

OrgSend(t) ==
    /\ task[t].pc = "seal"
    /\ seq' = seq + 1
    /\ task' = [task EXCEPT ![t].pc = "sent", ![t].n = seq + 1]
    /\ outbox' = outbox \cup {[m |-> task[t].m, n |-> seq + 1]}
    /\ hubAcks' = hubAcks \cup {seq + 1}
    /\ UNCHANGED <<row, cron, rounds, posts, answers, endAcks, bVars, crashes, dir, older>>

\* The UPDATE, after which _wait_ack registers a waiter for the Hub's answer ...
OrgSent(t) ==
    /\ task[t].pc = "sent"
    /\ MarkRow(task[t].m, "sent")
    /\ To(t, "hubwait")
    /\ UNCHANGED <<cron, rounds, seq, netVars, bVars, crashes, dir, older>>

\* ... and, when that has come, one for B's.
OrgHubAcked(t) ==
    /\ task[t].pc = "hubmark"
    /\ MarkRow(task[t].m, "hub_acked")
    /\ To(t, "endwait")
    /\ UNCHANGED <<cron, rounds, seq, netVars, bVars, crashes, dir, older>>

OrgTimeout(t) ==
    /\ task[t].pc \in {"hubwait", "endwait"}
    /\ Result(t, "failed")
    /\ hubAcks' = hubAcks \ {task[t].n} /\ endAcks' = endAcks \ {task[t].n}
    /\ UNCHANGED <<row, cron, rounds, seq, posts, answers, outbox, bVars, crashes, dir, older>>

Wants(t, n) == task[t].n = n /\ task[t].pc \in {"sent", "hubwait", "hubmark", "endwait"}

\* A faulty variant: the Hub's word is taken for B's.
AtOnceDelivered(t, n) ==
    IF task[t].pc = "hubwait" /\ task[t].n = n
    THEN [task[t] EXCEPT !.pc = "mark", !.n = 0, !.res = "delivered"] ELSE task[t]
HubAcked(t, n) ==
    IF task[t].pc = "hubwait" /\ task[t].n = n
    THEN [task[t] EXCEPT !.pc = "hubmark"] ELSE task[t]

\* _resolve_ack: an answer nobody waits for is dropped.
HubAck(n) ==
    /\ n \in hubAcks
    /\ hubAcks' = hubAcks \ {n}
    /\ task' = [t \in Task |-> HubAcked(t, n)]
    /\ UNCHANGED <<row, cron, rounds, seq, posts, answers, outbox, endAcks, bVars, crashes, dir, older>>

EndAcked(t, n) ==
    IF task[t].pc = "endwait" /\ task[t].n = n
    THEN [task[t] EXCEPT !.pc = "mark", !.n = 0, !.res = "delivered"] ELSE task[t]

EndAck(n) ==
    /\ n \in endAcks
    /\ endAcks' = endAcks \ {n}
    /\ task' = [t \in Task |-> EndAcked(t, n)]
    /\ UNCHANGED <<row, cron, rounds, seq, posts, answers, outbox, hubAcks, bVars, crashes, dir, older>>

-----------------------------------------------------------------------------
(* A: _retry_pending_deliveries_job and retry_delivery. *)

\* A faulty variant: only what has failed is tried again, as in retry_cross_org_deliveries.
WaitingFailed == {m \in Msg : row[m] = "failed"}
Waiting == {m \in Msg : row[m] \in {"pending", "failed"}}
\* Those of M with fewer than Limit others of M before them.
Oldest(M) == {m \in M : Cardinality({k \in M : <<k, m>> \in older}) < Limit}

\* Counts of messages that were not in the batch are dropped.
Counts(r, M) == [m \in Msg |-> IF m \in M THEN r[m] ELSE 0]
\* The job goes on to the next message of the batch, or ends.
Goes(todo, r) ==
    IF todo = {} THEN cron' = IdleCron /\ rounds' = Counts(r, cron.all)
    ELSE cron' = [cron EXCEPT !.pc = "batch", !.todo = todo, !.m = Nobody] /\ rounds' = r
Tried(m, n) == Goes(cron.todo \ {m}, [rounds EXCEPT ![m] = n])

\* get_pending_deliveries.  Messages that failed MaxRounds times are passed over.
CronFetch ==
    LET all == Oldest(Waiting)
        todo == {m \in all : rounds[m] < MaxRounds} IN
    /\ cron.pc = "idle" /\ all # {}
    /\ IF todo = {} THEN cron' = cron /\ rounds' = Counts(rounds, all)
       ELSE cron' = [IdleCron EXCEPT !.pc = "batch", !.all = all, !.todo = todo] /\ UNCHANGED rounds
    /\ UNCHANGED <<row, task, seq, netVars, bVars, crashes, dir, older>>

\* The row is read again, and a message that is no longer waiting counts as a round.
CronTake ==
    /\ cron.pc = "batch"
    /\ \E m \in cron.todo :
          \/ m \notin Waiting /\ Tried(m, rounds[m] + 1)
          \/ m \in Waiting /\ cron' = [cron EXCEPT !.pc = "route", !.m = m] /\ UNCHANGED rounds
    /\ UNCHANGED <<row, task, seq, netVars, bVars, crashes, dir, older>>

\* No server_host, or no such base: for now, or at all.
CronNoTarget ==
    /\ cron.pc = "route"
    /\ MarkRow(cron.m, "failed")
    /\ Tried(cron.m, rounds[cron.m] + 1)
    /\ UNCHANGED <<task, seq, netVars, bVars, crashes, dir, older>>

CronPost ==
    /\ cron.pc = "route" /\ cron.m \in Routed
    /\ posts' = posts \cup {[m |-> cron.m, by |-> "cron"]}
    /\ cron' = [cron EXCEPT !.pc = "posted"]
    /\ UNCHANGED <<row, task, rounds, seq, answers, outbox, hubAcks, endAcks, bVars, crashes, dir, older>>

CronAnswered ==
    /\ cron.pc = "posted" /\ "cron" \in answers
    /\ answers' = answers \ {"cron"}
    /\ cron' = [cron EXCEPT !.pc = "mark"]
    /\ UNCHANGED <<row, task, rounds, seq, posts, outbox, hubAcks, endAcks, bVars, crashes, dir, older>>

\* The row stays as it is.
CronFails ==
    /\ cron.pc = "posted"
    /\ posts' = Abandon("cron") /\ answers' = answers \ {"cron"}
    /\ Tried(cron.m, rounds[cron.m] + 1)
    /\ UNCHANGED <<row, task, seq, outbox, hubAcks, endAcks, bVars, crashes, dir, older>>

CronMark ==
    /\ cron.pc = "mark"
    /\ MarkRow(cron.m, "delivered")
    /\ Tried(cron.m, 0)
    /\ UNCHANGED <<task, seq, netVars, bVars, crashes, dir, older>>

-----------------------------------------------------------------------------
(* B *)

\* A faulty variant: made of the nonce, as for an envelope without a msg_id.
OrgKeyOfEnvelope(e) == <<"org", e.n>>
\* The unique index on idempotency_key: the key of a row that came by POST is the
\* message's own, that of an envelope is made of its msg_id, the id of the row at A.
OrgKey(e) == <<"msg", e.m>>
Store(m, key) == inbox' = inbox \cup {[m |-> m, key |-> key]}

\* /peers/route.  A signature by another key, and a nonce that the filter takes for a known
\* one, that is not of these five minutes or more than 5 s ahead of B's clock, are refused,
\* and the refusal is answered with 200 as well.
Receive(p) ==
    /\ p \in posts
    /\ \/ Store(p.m, <<"own", p.m>>)
       \/ ~NoRefusal /\ UNCHANGED inbox
    /\ posts' = posts \ {p}
    /\ answers' = IF p.by = Nobody THEN answers ELSE answers \cup {p.by}
    /\ UNCHANGED <<aVars, outbox, hubAcks, endAcks, seen, got, lastc, hand, crashes, dir, older>>

\* handle_hub_envelope: the nonce is noted before anything is stored.
Push(h) ==
    /\ hand[h].pc = "idle"
    /\ \E e \in outbox :
          /\ e.n \notin seen
          /\ seen' = seen \cup {e.n}
          /\ hand' = [hand EXCEPT ![h] = [IdleHand EXCEPT !.pc = "insert", !.m = e.m, !.n = e.n]]
    /\ UNCHANGED <<aVars, netVars, inbox, got, lastc, crashes, dir, older>>

PushInsert(h) ==
    /\ hand[h].pc = "insert"
    /\ Store(hand[h].m, OrgKey([m |-> hand[h].m, n |-> hand[h].n]))
    /\ hand' = [hand EXCEPT ![h].pc = "count"]
    /\ UNCHANGED <<aVars, netVars, seen, got, lastc, crashes, dir, older>>

\* The INSERT fails, or the body cannot be opened: the envelope is given up.
PushFails(h) ==
    /\ hand[h].pc = "insert"
    /\ hand' = [hand EXCEPT ![h] = IdleHand]
    /\ UNCHANGED <<aVars, netVars, inbox, seen, got, lastc, crashes, dir, older>>

\* A faulty variant: the end is the highest number received.
EndIsHighest(last, G) == last \in G \cup {0} /\ \A i \in G : i <= last
\* An unbroken run of numbers in G after lastc.  It ends at the first number that is not
\* there, after _RECV_SCAN_MAX numbers, or where Redis fails.
EndOfRun(last, G) == last >= lastc /\ \A i \in (lastc + 1)..last : i \in G

\* _record_received_seq: the number is added, the window's end read and the numbers
\* after it looked up, ...
PushCount(h) ==
    /\ hand[h].pc = "count"
    /\ got' = got \cup {hand[h].n}
    /\ \E last \in 0..seq :
          /\ EndOfRun(last, got')
          /\ hand' = [hand EXCEPT ![h].pc = "window", ![h].last = lastc, ![h].next = last]
    /\ UNCHANGED <<aVars, netVars, inbox, seen, lastc, crashes, dir, older>>

\* ... and the new end is written, if it is beyond the one that was read.
PushWindow(h) ==
    /\ hand[h].pc = "window"
    /\ lastc' = IF hand[h].next > hand[h].last THEN hand[h].next ELSE lastc
    /\ hand' = [hand EXCEPT ![h].pc = "ack", ![h].last = 0, ![h].next = 0]
    /\ UNCHANGED <<aVars, netVars, inbox, seen, got, crashes, dir, older>>

PushAck(h) ==
    /\ hand[h].pc = "ack"
    /\ endAcks' = IF \E t \in Task : Wants(t, hand[h].n) THEN endAcks \cup {hand[h].n} ELSE endAcks
    /\ hand' = [hand EXCEPT ![h] = IdleHand]
    /\ UNCHANGED <<aVars, posts, answers, outbox, hubAcks, inbox, seen, got, lastc, crashes, dir, older>>

-----------------------------------------------------------------------------

CrashA ==
    /\ crashes < MaxCrash /\ crashes' = crashes + 1
    /\ task' = [t \in Task |-> IdleTask]
    /\ cron' = IdleCron /\ rounds' = [m \in Msg |-> 0]
    /\ posts' = {[p EXCEPT !.by = Nobody] : p \in posts}
    /\ answers' = {} /\ hubAcks' = {} /\ endAcks' = {}
    /\ UNCHANGED <<row, seq, outbox, bVars, dir, older>>

CrashB ==
    /\ crashes < MaxCrash /\ crashes' = crashes + 1
    /\ hand' = [h \in Handler |-> IdleHand]
    /\ seen' = {}
    /\ UNCHANGED <<aVars, netVars, inbox, got, lastc, dir, older>>

Send(t) ==
    \/ \E m \in Msg : SendAsk(t, m)
    \/ SendInsert(t) \/ SendLocal(t)

Run(t) ==
    \/ Forward(t) \/ ForwardAnswered(t) \/ ForwardFails(t) \/ Mark(t)
    \/ OrgPending(t) \/ OrgNoKey(t) \/ OrgNotSent(t) \/ OrgSend(t)
    \/ OrgSent(t) \/ OrgHubAcked(t) \/ OrgTimeout(t)

CronStep ==
    \/ CronFetch \/ CronTake \/ CronNoTarget \/ CronPost
    \/ CronAnswered \/ CronFails \/ CronMark

Handle(h) ==
    \/ Push(h) \/ PushInsert(h) \/ PushFails(h) \/ PushCount(h) \/ PushWindow(h) \/ PushAck(h)

Next ==
    \/ \E t \in Task : Send(t) \/ Run(t)
    \/ CronStep
    \/ \E n \in hubAcks : HubAck(n)
    \/ \E n \in endAcks : EndAck(n)
    \/ \E p \in posts : Receive(p)
    \/ \E h \in Handler : Handle(h)
    \/ CrashA \/ CrashB

Spec == Init /\ [][Next]_vars

\* Coroutines go on, and the job runs every half hour.  Nothing is assumed of the network:
\* a call to the other base ends by its timeout.
FairSpec ==
    /\ Spec
    /\ \A t \in Task : WF_vars(SendInsert(t) \/ SendLocal(t) \/ Run(t))
    /\ WF_vars(CronStep)

-----------------------------------------------------------------------------

\* However often a message is sent, retried and pushed, over whatever crash, its addressee
\* has it at most once (messaging.py:1340-1341); one of another company that can be reached
\* both by the Hub and by POST may have it twice and never a third time, for the two ways
\* store it under two keys (messaging.py:639, :1340) and the retry knows only the second.
AtMostOnce ==
    \A x, y \in inbox : x.m = y.m /\ x # y =>
        x.m \in Org \cap Routed /\ \A z \in inbox : z.m = x.m => z \in {x, y}

\* A message whose row says delivered is in the addressee's inbox: forwarding says so when
\* B has answered, _send_cross_org when B has acknowledged (messaging.py:200-205, :457).
DeliveredIsReceived == \A m \in Msg : row[m] = "delivered" => \E x \in inbox : x.m = m

\* The end of the window that B reports to the Hub after a reconnect never passes a number
\* that B has not received, whichever handlers count at the same time (messaging.py:531-534);
\* the Hub may forget what lies before it.
WindowIsReceived ==
    /\ 1..lastc \subseteq got
    /\ \A e \in outbox : e.n <= lastc => \E x \in inbox : x.m = e.m

\* Every run of the two bases is one of Mailbox, the abstract specification: a message is
\* stored once, or once for each way, and only when its sender has a row for it, and called
\* delivered only after.
Ticket == INSTANCE Mailbox WITH
            status <- [m \in Msg |-> IF row[m] \in {"none", "delivered"} THEN row[m] ELSE "open"],
            copies <- [m \in Msg |-> {x \in inbox : x.m = m}],
            double <- Org \cap Routed
ImplementsMailbox == Ticket!Spec

\* As many older rows wait as a batch holds.
Crowded(m) == Cardinality({k \in Waiting : <<k, m>> \in older}) >= Limit

\* An unfinished message to another base is sent again until it is delivered, has failed
\* MaxRounds times or is crowded out by older ones, also when its sender stopped in between
\* (cron.py:172-215).
KeptOnTrying ==
    \A m \in Msg : m \notin Org /\ row[m] \in {"pending", "failed"}
                       ~> row[m] = "delivered" \/ rounds[m] = MaxRounds \/ Crowded(m)

\* The same without the exception, which is what "all" in cron.py:174-175 says.  Rows that
\* stay failed fill the batch, and what comes after them is not tried until they are
\* deleted seven days later.
AllTried ==
    \A m \in Msg : m \notin Org /\ row[m] \in {"pending", "failed"}
                       ~> row[m] = "delivered" \/ rounds[m] = MaxRounds

\* Exactly once by either way, as messaging.py:639 says of a retry.
ExactlyOnce == \A x, y \in inbox : x.m = y.m => x = y

\* An acknowledgement from B that arrives before A gives up keeps the message from being
\* marked failed.  Said of _send_cross_org, "hub_client 收到 ack 时 resolve" (messaging.py:405)
\* and "任一步失败 → failed" (messaging.py:458).
AckCounts ==
    [][\A n \in endAcks, t \in Task :
          EndAck(n) /\ Wants(t, n) => task'[t].res = "delivered"]_vars
=============================================================================
