----------------------------- MODULE XiheRuntime -----------------------------
(***************************************************************************)
(* The skill runtime of xihe (xihe/agent_runtime.py): a table of child     *)
(* processes, launched on demand under one lock, watched for their exit,   *)
(* restarted after a back-off, stopped by an operator, by the licence       *)
(* sweep, by the idle scan, by the resource monitor or by a shutdown; and  *)
(* the HTTP execute call above it (osskill/execute_api.py), which finds or  *)
(* launches the child, sends it the message, and tries again.              *)
(*                                                                         *)
(* The runtime is one event loop: an action is the code between two awaits. *)
(* The lock is held across an await by a launch only, so "lock" is the     *)
(* child being launched; any other section under the lock is one step that *)
(* finds it free.  Time is abstracted: a sleep or a timeout ends at any     *)
(* moment.                                                                 *)
(***************************************************************************)
EXTENDS Naturals, FiniteSets

CONSTANTS
    Skill, Agent,
    Shared,         \* the agent name "__shared__" under which a singleton is kept
    Singleton,      \* config.singleton_skills
    Child, NoChild, \* ChildProcess objects; the name of none
    Call, Msg,      \* execute calls, and the messages (idempotency keys) they carry
    Target,         \* Target[m] = <<skill, agent>> the message is for
    MaxProcs, ResidentSlots, MaxRestarts, MaxAttempts,
    Ops             \* what the environment does: "admin", "crash", "monitor", "shutdown", "expire"

ASSUME RuntimeAssumption ==
    /\ Shared \notin Agent /\ NoChild \notin Child /\ IsFiniteSet(Child)
    /\ Skill # {} /\ Agent # {} /\ Msg # {}
    /\ Singleton \subseteq Skill
    /\ \A m \in Msg : Target[m] \in Skill \X Agent
    /\ MaxProcs \in Nat /\ ResidentSlots \in Nat /\ MaxRestarts \in Nat /\ MaxAttempts \in Nat \ {0}

VARIABLES
    child,      \* Child -> its record
    table,      \* _children: Key -> Child or NoChild
    lock,       \* _lock: the child whose launch holds it, or NoChild
    phase,      \* "running" (_running is set), "closing", "closed": the progress of shutdown
    closing,    \* children a shutdown took off the table and has not stopped yet
    snap,       \* the children the resource monitor listed and has not looked at yet
    call,       \* Call -> the state of an execute call
    inflight, done, failed   \* _IDEM_INFLIGHT, _IDEM_RESULTS, _IDEM_FAILURES: sets of messages

vars == <<child, table, lock, phase, closing, snap, call, inflight, done, failed>>
idem == <<inflight, done, failed>>

Lifecycle == {"resident", "on_demand"}
Key == Skill \X (Agent \cup {Shared})

\* _make_key(skill, agent), and the key launch_skill files a child under.
KeptKey(s, a) == IF s \in Singleton THEN <<s, Shared>> ELSE <<s, a>>
OwnKey(c) == <<child[c].skill, child[c].agent>>

NewChild(s, a, l) == [skill |-> s, agent |-> a, life |-> l, proc |-> "up", watch |-> "none",
                   restarts |-> 0, idle |-> FALSE, stop |-> FALSE]
NoCall == [pc |-> "idle", msg |-> CHOOSE m \in Msg : TRUE, child |-> NoChild, victim |-> NoChild, tries |-> 0]

TypeOK ==
    /\ child \in [Child -> [skill : Skill, agent : Agent, life : Lifecycle,
                            proc : {"up", "dead"}, watch : {"none", "wait", "backoff", "create", "spawn"},
                            restarts : 0..MaxRestarts, idle : BOOLEAN, stop : BOOLEAN]]
    /\ table \in [Key -> Child \cup {NoChild}]
    /\ lock \in Child \cup {NoChild}
    /\ phase \in {"running", "closing", "closed"}
    /\ closing \subseteq Child /\ snap \subseteq Child
    /\ call \in [Call -> [pc : {"idle", "begin", "launch", "starting", "ready", "waiting",
                                "lost", "timeout", "stopping", "retry"},
                          msg : Msg, child : Child \cup {NoChild}, victim : Child \cup {NoChild},
                          tries : 0..MaxAttempts]]
    /\ inflight \subseteq Msg /\ done \subseteq Msg /\ failed \subseteq Msg

Init ==
    /\ child = [c \in Child |-> [NewChild(CHOOSE s \in Skill : TRUE, CHOOSE a \in Agent : TRUE, "resident")
                                   EXCEPT !.proc = "dead"]]
    /\ table = [k \in Key |-> NoChild]
    /\ lock = NoChild
    /\ phase = "running"
    /\ closing = {} /\ snap = {}
    /\ call = [r \in Call |-> NoCall]
    /\ inflight = {} /\ done = {} /\ failed = {}

running == phase = "running"
Up(c) == child[c].proc = "up"
\* The process is up and its IPC server is the one calls are sent to.
Serving(c) == Up(c) /\ child[c].watch = "wait"
Tracked(c) == \E k \in Key : table[k] = c
TrackedSet == {c \in Child : Tracked(c)}
Residents == {c \in TrackedSet : child[c].life = "resident"}

\* A ChildProcess object nothing refers to any more.
Spare(c) ==
    /\ ~Tracked(c) /\ ~Up(c) /\ lock # c /\ c \notin closing \cup snap
    /\ child[c].watch = "none" /\ ~child[c].stop
    /\ \A r \in Call : c \notin {call[r].child, call[r].victim}
\* The object a launch makes: which of the spare names it gets is of no matter.
Fresh(c) == Spare(c) /\ c = CHOOSE d \in Child : Spare(d)

Drop(k) == [table EXCEPT ![k] = NoChild]

\* _stop_child up to its first await: nothing to do for a process that has exited.
Stopping(ch, c) == [ch EXCEPT ![c].stop = (ch[c].proc = "up")]

-----------------------------------------------------------------------------
(* launch_skill.  The limits and the existing entry are looked at under the lock, *)
(* which is then held until the process is ready; the entry is made at the end.   *)

\* Faulty variants: a limit compared one too late, and an entry replaced alive.
CanLaunchPast(s, a, l) ==
    /\ lock = NoChild
    /\ l = "resident" => Cardinality(Residents) <= ResidentSlots
    /\ Cardinality(TrackedSet) <= MaxProcs
    /\ table[KeptKey(s, a)] # NoChild => ~Up(table[KeptKey(s, a)])
CanLaunchOver(s, a, l) ==
    /\ lock = NoChild
    /\ l = "resident" => Cardinality(Residents \ {table[KeptKey(s, a)]}) < ResidentSlots
    /\ Cardinality(TrackedSet \ {table[KeptKey(s, a)]}) < MaxProcs

CanLaunch(s, a, l) ==
    /\ lock = NoChild
    /\ l = "resident" => Cardinality(Residents) < ResidentSlots
    /\ Cardinality(TrackedSet) < MaxProcs
    /\ table[KeptKey(s, a)] # NoChild => ~Up(table[KeptKey(s, a)])

LaunchBegin(c, s, a, l) ==
    /\ CanLaunch(s, a, l)
    /\ Fresh(c)
    /\ lock' = c
    /\ table' = Drop(KeptKey(s, a))
    /\ child' = [child EXCEPT ![c] = NewChild(s, a, l)]

AdminLaunch(c, s, a, l) ==
    /\ "admin" \in Ops
    /\ LaunchBegin(c, s, a, l)
    /\ UNCHANGED <<phase, closing, snap, call, idem>>

\* The end of _spawn: the exit of the process is watched from here on.  A faulty
\* variant that leaves this to somebody else.
Unwatched(c) == child
Watched(c) == [child EXCEPT ![c].watch = "wait"]

\* The process is ready: the entry is made.  The call that launched it pings it first;
\* one that launches for another try executes at once.
LaunchOk(c) ==
    /\ lock = c
    /\ lock' = NoChild
    /\ table' = [table EXCEPT ![KeptKey(child[c].skill, child[c].agent)] = c]
    /\ child' = Watched(c)
    /\ call' = [r \in Call |->
                  IF call[r].pc = "starting" /\ call[r].child = c
                  THEN [call[r] EXCEPT !.pc = IF call[r].tries = 0 THEN "ready" ELSE "waiting"]
                  ELSE call[r]]
    /\ UNCHANGED <<phase, closing, snap, idem>>

\* A try is over: another one after a back-off, or the call fails for good.  A faulty
\* variant does not count the tries.
AgainForever(r) == [call[r] EXCEPT !.pc = "retry", !.child = NoChild, !.victim = NoChild]
Again(r) == IF call[r].tries + 1 < MaxAttempts
            THEN [call[r] EXCEPT !.pc = "retry", !.child = NoChild, !.victim = NoChild, !.tries = @ + 1]
            ELSE NoCall
GivesUp(r) == call[r].tries + 1 >= MaxAttempts
Marked(M) == /\ inflight' = inflight \ M
             /\ failed' = failed \cup M
             /\ UNCHANGED done

\* Accept, handshake or ready line failed: the process is killed, the launch raises.
\* A call that has not executed yet returns 503 and marks nothing.
LaunchFail(c) ==
    /\ lock = c
    /\ lock' = NoChild
    /\ table' = Drop(KeptKey(child[c].skill, child[c].agent))
    /\ child' = [child EXCEPT ![c].proc = "dead"]
    /\ LET R == {r \in Call : call[r].pc = "starting" /\ call[r].child = c} IN
       /\ call' = [r \in Call |-> IF r \in R THEN NoCall ELSE call[r]]
       /\ Marked({call[r].msg : r \in {q \in R : call[q].tries > 0}})
    /\ UNCHANGED <<phase, closing, snap>>

-----------------------------------------------------------------------------
(* _watch_exit: started by every successful spawn. *)

ProcExit(c) ==
    /\ "crash" \in Ops
    /\ Up(c)
    /\ child' = [child EXCEPT ![c].proc = "dead"]
    /\ UNCHANGED <<table, lock, phase, closing, snap, call, idem>>

\* A faulty variant that counts the first crash for nothing.
MayRestartPast(c) == child[c].restarts <= MaxRestarts
MayRestart(c) == child[c].restarts < MaxRestarts

WatchExit(c) ==
    /\ child[c].watch = "wait" /\ ~Up(c)
    /\ running => lock = NoChild
    /\ LET k == OwnKey(c)
           mine == running /\ table[k] = c
           again == mine /\ MayRestart(c)
       IN /\ table' = IF mine /\ ~again THEN Drop(k) ELSE table
          /\ child' = [child EXCEPT ![c].watch = IF again THEN "backoff" ELSE "none",
                                    ![c].restarts = IF again THEN @ + 1 ELSE @]
    /\ UNCHANGED <<lock, phase, closing, snap, call, idem>>

\* After the back-off: still running, and the key still held by this child.
WatchWake(c) ==
    /\ child[c].watch = "backoff" /\ lock = NoChild
    /\ child' = [child EXCEPT ![c].watch =
                    IF running /\ table[OwnKey(c)] = c THEN "create" ELSE "none"]
    /\ UNCHANGED <<table, lock, phase, closing, snap, call, idem>>

\* _spawn, called without the lock: the process is created ...
WatchCreate(c) ==
    /\ child[c].watch = "create"
    /\ child' = [child EXCEPT ![c].watch = "spawn", ![c].proc = "up"]
    /\ UNCHANGED <<table, lock, phase, closing, snap, call, idem>>

\* ... and ready.  The old IPC server is closed, which fails the calls still waiting
\* on it; a new watcher is started.
WatchSpawned(c) ==
    /\ child[c].watch = "spawn"
    /\ child' = Watched(c)
    /\ call' = [r \in Call |-> IF call[r].pc = "waiting" /\ call[r].child = c
                               THEN [call[r] EXCEPT !.pc = "lost"] ELSE call[r]]
    /\ UNCHANGED <<table, lock, phase, closing, snap, idem>>

\* A restart that fails is logged; the entry stays and nobody watches it.
WatchFail(c) ==
    /\ child[c].watch \in {"create", "spawn"}
    /\ child' = [child EXCEPT ![c].watch = "none", ![c].proc = "dead"]
    /\ UNCHANGED <<table, lock, phase, closing, snap, call, idem>>

-----------------------------------------------------------------------------
(* Stopping: the entry goes first, under the lock; then on_unload is sent and the *)
(* process waited for, and killed if it does not exit.                            *)

\* stop_skill, called by the HTTP API and by the licence sweep.
AdminStop(s, a) ==
    /\ "admin" \in Ops
    /\ lock = NoChild
    /\ table[<<s, a>>] # NoChild
    /\ table' = Drop(<<s, a>>)
    /\ child' = Stopping(child, table[<<s, a>>])
    /\ UNCHANGED <<lock, phase, closing, snap, call, idem>>

StopEnd(c) ==
    /\ child[c].stop
    /\ child' = [child EXCEPT ![c].stop = FALSE, ![c].proc = "dead"]
    /\ UNCHANGED <<table, lock, phase, closing, snap, call, idem>>

\* The idle timer or the idle scan, once the timeout is over: _unload_one.
Unload(c) ==
    /\ lock = NoChild
    /\ child[c].idle
    /\ table[OwnKey(c)] = c
    /\ table' = Drop(OwnKey(c))
    /\ child' = Stopping(child, c)
    /\ UNCHANGED <<lock, phase, closing, snap, call, idem>>

\* _monitor_resources lists the children and then looks at one after the other,
\* awaiting its risk score.  A pause or a revocation drops whatever the key holds.
MonitorList ==
    /\ "monitor" \in Ops
    /\ running /\ lock = NoChild /\ snap = {}
    /\ snap' = {c \in TrackedSet : Up(c)}
    /\ UNCHANGED <<child, table, lock, phase, closing, call, idem>>

MonitorPass(c) ==
    /\ c \in snap
    /\ snap' = snap \ {c}
    /\ UNCHANGED <<child, table, lock, phase, closing, call, idem>>

MonitorStop(c) ==
    /\ c \in snap /\ lock = NoChild
    /\ snap' = snap \ {c}
    /\ table' = Drop(OwnKey(c))
    /\ child' = Stopping(child, c)
    /\ UNCHANGED <<lock, phase, closing, call, idem>>

\* shutdown: _running is cleared, the scans are cancelled, then the table is emptied
\* under the lock and its children are stopped one after the other.
ShutdownBegin ==
    /\ "shutdown" \in Ops
    /\ running
    /\ phase' = "closing"
    /\ snap' = {}
    /\ UNCHANGED <<child, table, lock, closing, call, idem>>

ShutdownClear ==
    /\ phase = "closing" /\ lock = NoChild
    /\ phase' = "closed"
    /\ closing' = TrackedSet
    /\ table' = [k \in Key |-> NoChild]
    /\ UNCHANGED <<child, lock, snap, call, idem>>

ShutdownStop(c) ==
    /\ c \in closing
    /\ closing' = closing \ {c}
    /\ child' = Stopping(child, c)
    /\ UNCHANGED <<table, lock, phase, snap, call, idem>>

-----------------------------------------------------------------------------
(* api_execute_skill.  A message that is in flight, done or recently failed is    *)
(* answered at once, as long as the entry is not older than its time to live;     *)
(* the mark of the first kind is set when the execution begins.                   *)

CallArrive(r, m) ==
    /\ call[r].pc = "idle"
    /\ "expire" \in Ops \/ m \notin inflight \cup done \cup failed
    /\ inflight' = inflight \ {m} /\ done' = done \ {m} /\ failed' = failed \ {m}
    /\ call' = [call EXCEPT ![r] = [NoCall EXCEPT !.pc = "begin", !.msg = m]]
    /\ UNCHANGED <<child, table, lock, phase, closing, snap>>

Want(r) == Target[call[r].msg]

\* SkillHandle.execute up to its first await: _mark_active, and the request is sent.
Execute(r, c) ==
    /\ call' = [call EXCEPT ![r].pc = "waiting", ![r].child = c]
    /\ child' = [child EXCEPT ![c].idle = FALSE]
    /\ inflight' = IF call[r].tries = 0 THEN inflight \cup {call[r].msg} ELSE inflight
    /\ UNCHANGED <<done, failed>>

\* get_handle finds a child, alive or not ...
CallFound(r) ==
    /\ call[r].pc \in {"begin", "retry"}
    /\ table[Want(r)] # NoChild
    /\ Execute(r, table[Want(r)])
    /\ UNCHANGED <<table, lock, phase, closing, snap>>

\* ... or none, and one is to be launched, once the lock is free.
CallMissing(r) ==
    /\ call[r].pc \in {"begin", "retry"}
    /\ table[Want(r)] = NoChild
    /\ call' = [call EXCEPT ![r].pc = "launch"]
    /\ UNCHANGED <<child, table, lock, phase, closing, snap, idem>>

\* The execute call launches with the default lifecycle, resident.
CallLaunch(r, c) ==
    /\ call[r].pc = "launch"
    /\ LaunchBegin(c, Want(r)[1], Want(r)[2], "resident")
    /\ call' = [call EXCEPT ![r].pc = "starting", ![r].child = c]
    /\ UNCHANGED <<phase, closing, snap, idem>>

\* launch_skill raises (limit, already running, licence, revoked), or the first ping
\* never answers: 503 before the first execution, the end of the retries after it.
CallRefused(r) ==
    /\ \/ call[r].pc = "launch" /\ lock = NoChild
       \/ call[r].pc = "ready"
    /\ call' = [call EXCEPT ![r] = NoCall]
    /\ Marked(IF call[r].tries > 0 THEN {call[r].msg} ELSE {})
    /\ UNCHANGED <<child, table, lock, phase, closing, snap>>

CallReady(r) ==
    /\ call[r].pc = "ready"
    /\ Execute(r, call[r].child)
    /\ UNCHANGED <<table, lock, phase, closing, snap>>

\* _mark_idle, for on_demand children.
Idle(ch, c) == [ch EXCEPT ![c].idle = (ch[c].life = "on_demand")]

CallOk(r) ==
    /\ call[r].pc = "waiting" /\ Serving(call[r].child)
    /\ call' = [call EXCEPT ![r] = NoCall]
    /\ child' = Idle(child, call[r].child)
    /\ done' = done \cup {call[r].msg}
    /\ inflight' = inflight \ {call[r].msg}
    /\ failed' = failed \ {call[r].msg}
    /\ UNCHANGED <<table, lock, phase, closing, snap>>

\* The skill raised (IPCError): not tried again.
CallError(r) ==
    /\ call[r].pc = "waiting" /\ Serving(call[r].child)
    /\ call' = [call EXCEPT ![r] = NoCall]
    /\ child' = Idle(child, call[r].child)
    /\ Marked({call[r].msg})
    /\ UNCHANGED <<table, lock, phase, closing, snap>>

\* The try is over with a transport error.
Over(r) ==
    /\ call' = [call EXCEPT ![r] = Again(r)]
    /\ child' = Idle(child, call[r].child)
    /\ Marked(IF GivesUp(r) THEN {call[r].msg} ELSE {})

\* The connection is lost (ConnectionError): the child is left to its watcher.
CallLost(r) ==
    /\ \/ call[r].pc = "lost"
       \/ call[r].pc = "waiting" /\ ~Up(call[r].child)
    /\ Over(r)
    /\ UNCHANGED <<table, lock, phase, closing, snap>>

\* No answer in time (ProcessError): an on_demand skill is stopped, by its name.
CallTimeout(r) ==
    /\ call[r].pc = "waiting"
    /\ child[call[r].child].life = "resident"
    /\ Over(r)
    /\ UNCHANGED <<table, lock, phase, closing, snap>>

CallTimeoutStop(r) ==
    /\ call[r].pc = "waiting"
    /\ child[call[r].child].life = "on_demand"
    /\ call' = [call EXCEPT ![r].pc = "timeout"]
    /\ UNCHANGED <<child, table, lock, phase, closing, snap, idem>>

CallStop(r) ==
    /\ call[r].pc = "timeout" /\ lock = NoChild
    /\ LET d == table[OwnKey(call[r].child)] IN
       IF d = NoChild THEN Over(r) /\ UNCHANGED table
       ELSE /\ table' = Drop(OwnKey(call[r].child))
            /\ child' = Stopping(child, d)
            /\ call' = [call EXCEPT ![r].pc = "stopping", ![r].victim = d]
            /\ UNCHANGED idem
    /\ UNCHANGED <<lock, phase, closing, snap>>

CallStopped(r) ==
    /\ call[r].pc = "stopping" /\ ~child[call[r].victim].stop
    /\ Over(r)
    /\ UNCHANGED <<table, lock, phase, closing, snap>>

-----------------------------------------------------------------------------

Watcher(c) == WatchExit(c) \/ WatchWake(c) \/ WatchCreate(c) \/ WatchSpawned(c) \/ WatchFail(c)
Launcher(c) == LaunchOk(c) \/ LaunchFail(c)
\* What a call does of itself: the wait for an answer is bounded by the IPC timeout.
CallStep(r) ==
    \/ CallFound(r) \/ CallMissing(r) \/ \E c \in Child : CallLaunch(r, c)
    \/ CallRefused(r) \/ CallReady(r) \/ CallOk(r) \/ CallError(r)
    \/ CallLost(r) \/ CallTimeout(r) \/ CallTimeoutStop(r) \/ CallStop(r) \/ CallStopped(r)
Monitor == MonitorList \/ \E c \in Child : MonitorPass(c) \/ MonitorStop(c)
Shutdown == ShutdownBegin \/ ShutdownClear \/ \E c \in Child : ShutdownStop(c)

Next ==
    \/ \E c \in Child, s \in Skill, a \in Agent, l \in Lifecycle : AdminLaunch(c, s, a, l)
    \/ \E s \in Skill, a \in Agent : AdminStop(s, a)
    \/ \E c \in Child : Launcher(c) \/ ProcExit(c) \/ Watcher(c) \/ StopEnd(c) \/ Unload(c)
    \/ Monitor \/ Shutdown
    \/ \E r \in Call : CallStep(r) \/ \E m \in Msg : CallArrive(r, m)

Spec == Init /\ [][Next]_vars

\* The event loop runs whatever is ready, and every wait it makes has a timeout.
FairSpec ==
    /\ Spec
    /\ WF_vars(\E c \in Child : Launcher(c))
    /\ \A c \in Child : WF_vars(StopEnd(c))
    /\ \A r \in Call : SF_vars(CallStep(r))

-----------------------------------------------------------------------------
(* Properties. *)

\* The limits hold over every interleaving, though a slot is taken at the end of a
\* launch and checked at its beginning.
SlotsHold == Cardinality(TrackedSet) <= MaxProcs /\ Cardinality(Residents) <= ResidentSlots

\* A tracked process that is up is watched; and as long as the runtime runs, the first
\* crash of a child is noticed.  (A restart that fails is not tried again, and the
\* watcher of a singleton looks for it under a key it is not kept under.)
CrashesAreSeen ==
    \A c \in TrackedSet :
        /\ Up(c) => child[c].watch \in {"wait", "spawn"}
        /\ running /\ ~Up(c) /\ child[c].restarts = 0 /\ child[c].skill \notin Singleton
              => child[c].watch = "wait"

\* A process that is up leaves the table only to be stopped.  (The resource monitor
\* alone may drop the entry of another child than the one it stops.)
RemovedIsStopped ==
    [][\A c \in Child :
          Up(c) /\ Tracked(c) /\ ~Tracked(c)' =>
             \/ child'[c].stop \/ c \in closing'
             \/ \E d \in snap \ snap' : OwnKey(d) = OwnKey(c)]_vars

\* Every execute call returns: limits, crashes, restarts, retries and stops of its
\* child may fail it, never keep it.
CallReturns == \A r \in Call : call[r].pc # "idle" ~> call[r].pc = "idle"

-----------------------------------------------------------------------------
(* What comments of the code say and the code does not do. *)

\* agent_runtime.py:1104-1106, the check after the back-off keeps a restart from making
\* a process that nobody tracks.
NoOrphan ==
    \A c \in Child : Up(c) /\ child[c].watch # "spawn" =>
        Tracked(c) \/ lock = c \/ child[c].stop \/ c \in closing

\* execute_api.py:489, one message is executed once: never by two calls at a time.
OneExecution ==
    \A r, q \in Call : r # q /\ call[r].msg = call[q].msg =>
        ~({call[r].pc, call[q].pc} \subseteq {"waiting", "lost", "timeout", "stopping"})

\* agent_runtime.py:172, idle_since is None while the child is in use.
InUseIsNotIdle ==
    \A r \in Call : call[r].pc = "waiting" => ~child[call[r].child].idle
=============================================================================
