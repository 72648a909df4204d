----------------------------- MODULE XiheProofs -----------------------------
(***************************************************************************)
(* Proofs about XiheRuntime, for any number of skills, agents, children and *)
(* calls: the types, the limits, that crashes are noticed and that a running *)
(* process leaves the table only to be stopped.                             *)
(***************************************************************************)
EXTENDS XiheRuntime, FiniteSetTheorems, TLAPS

USE RuntimeAssumption

WatchPc == {"none", "wait", "backoff", "create", "spawn"}
CallPc == {"idle", "begin", "launch", "starting", "ready", "waiting", "lost", "timeout", "stopping", "retry"}
ChildRec == [skill : Skill, agent : Agent, life : Lifecycle, proc : {"up", "dead"}, watch : WatchPc,
             restarts : 0 .. MaxRestarts, idle : BOOLEAN, stop : BOOLEAN]
CallRec == [pc : CallPc, msg : Msg, child : Child \cup {NoChild}, victim : Child \cup {NoChild},
            tries : 0 .. MaxAttempts]

ChildTyped == child \in [Child -> ChildRec]
TableTyped == /\ table \in [Key -> Child \cup {NoChild}] /\ lock \in Child \cup {NoChild}
              /\ phase \in {"running", "closing", "closed"}
              /\ closing \subseteq Child /\ snap \subseteq Child
\* A call that is about to use a child has one.
Busy == {"starting", "ready", "waiting", "lost", "timeout", "stopping"}
CallGood(x) == /\ x \in CallRec
               /\ x.pc \in Busy => x.child \in Child
               /\ x.pc = "stopping" => x.victim \in Child
CallTyped == call \in [Call -> CallRec] /\ \A r \in Call : CallGood(call[r])
IdemTyped == inflight \subseteq Msg /\ done \subseteq Msg /\ failed \subseteq Msg
Typed == ChildTyped /\ TableTyped /\ CallTyped /\ IdemTyped

\* A child is filed under its own key, and the key of the child being launched is free.
Home(c) == KeptKey(child[c].skill, child[c].agent)
Filed == /\ \A k \in Key : table[k] # NoChild => k = Home(table[k])
         /\ lock # NoChild => table[Home(lock)] = NoChild

\* The slot that a launch has checked stays free.
Free == /\ SlotsHold
        /\ lock # NoChild => /\ Cardinality(TrackedSet) < MaxProcs
                             /\ child[lock].life = "resident" => Cardinality(Residents) < ResidentSlots

\* A watcher that is past its first wait has counted a restart; before the restart the
\* process is not up.
Watching == /\ \A c \in Child : child[c].watch \in {"backoff", "create"} => ~Up(c)
            /\ \A c \in Child : child[c].watch \in {"backoff", "create", "spawn"} => child[c].restarts > 0
            /\ CrashesAreSeen

Inv == Typed /\ Filed /\ Free /\ Watching
-----------------------------------------------------------------------------
(* The ways a child is changed. *)

Kin(y, x) == y.skill = x.skill /\ y.agent = x.agent /\ y.life = x.life

Dies(x)              == [x EXCEPT !.proc = "dead"]
Watches(x, w)        == [x EXCEPT !.watch = w]
Exits(x, w, n)       == [x EXCEPT !.watch = w, !.restarts = n]
Spawns(x)            == [x EXCEPT !.watch = "spawn", !.proc = "up"]
Fails(x)             == [x EXCEPT !.watch = "none", !.proc = "dead"]
Stopped(x)           == [x EXCEPT !.stop = FALSE, !.proc = "dead"]
Stops(x, b)          == [x EXCEPT !.stop = b]
Idles(x, b)          == [x EXCEPT !.idle = b]

LEMMA DiesTyped ==
    ASSUME NEW x \in ChildRec
    PROVE  Dies(x) \in ChildRec /\ Kin(Dies(x), x)
BY DEF Dies, ChildRec, Kin

LEMMA WatchesTyped ==
    ASSUME NEW x \in ChildRec, NEW w \in WatchPc
    PROVE  Watches(x, w) \in ChildRec /\ Kin(Watches(x, w), x)
BY DEF Watches, ChildRec, Kin

LEMMA ExitsTyped ==
    ASSUME NEW x \in ChildRec, NEW w \in WatchPc, NEW n \in 0 .. MaxRestarts
    PROVE  Exits(x, w, n) \in ChildRec /\ Kin(Exits(x, w, n), x)
BY DEF Exits, ChildRec, Kin

LEMMA SpawnsTyped ==
    ASSUME NEW x \in ChildRec
    PROVE  Spawns(x) \in ChildRec /\ Kin(Spawns(x), x)
BY DEF Spawns, ChildRec, Kin, WatchPc

LEMMA FailsTyped ==
    ASSUME NEW x \in ChildRec
    PROVE  Fails(x) \in ChildRec /\ Kin(Fails(x), x)
BY DEF Fails, ChildRec, Kin, WatchPc

LEMMA StoppedTyped ==
    ASSUME NEW x \in ChildRec
    PROVE  Stopped(x) \in ChildRec /\ Kin(Stopped(x), x)
BY DEF Stopped, ChildRec, Kin

LEMMA StopsTyped ==
    ASSUME NEW x \in ChildRec, NEW b \in BOOLEAN
    PROVE  Stops(x, b) \in ChildRec /\ Kin(Stops(x, b), x)
BY DEF Stops, ChildRec, Kin

LEMMA IdlesTyped ==
    ASSUME NEW x \in ChildRec, NEW b \in BOOLEAN
    PROVE  Idles(x, b) \in ChildRec /\ Kin(Idles(x, b), x)
BY DEF Idles, ChildRec, Kin

LEMMA NewTyped ==
    ASSUME NEW s \in Skill, NEW a \in Agent, NEW l \in Lifecycle
    PROVE  LET x == NewChild(s, a, l) IN
           x \in ChildRec /\ x.skill = s /\ x.agent = a /\ x.life = l /\ x.watch = "none"
BY DEF NewChild, ChildRec, WatchPc

NamesKept == \A d \in Child : Kin(child'[d], child[d])

\* Nothing happens to a process or to a watcher.
Calm == \A d \in Child : /\ child'[d].proc = child[d].proc /\ child'[d].watch = child[d].watch
                         /\ child'[d].restarts = child[d].restarts

LEMMA ChildBecomes ==
    ASSUME ChildTyped, NEW c \in Child, NEW y \in ChildRec, Kin(y, child[c]),
           child' = [child EXCEPT ![c] = y]
    PROVE  ChildTyped' /\ NamesKept
BY DEF ChildTyped, NamesKept, Kin

LEMMA StopMild ==
    ASSUME Inv, NEW c \in Child, child' = Stopping(child, c)
    PROVE  ChildTyped' /\ NamesKept /\ Calm /\ (Up(c) => child'[c].stop)
<1>1. child' = [child EXCEPT ![c] = Stops(child[c], child[c].proc = "up")]
  BY DEF Stopping, Stops
<1>2. ChildTyped /\ child[c] \in ChildRec /\ (child[c].proc = "up") \in BOOLEAN
  BY DEF Inv, Typed, ChildTyped
<1>3. Calm /\ (Up(c) => child'[c].stop)
  BY <1>2 DEF Stopping, Calm, Up, ChildTyped, ChildRec
<1> QED BY <1>1, <1>2, <1>3, StopsTyped, ChildBecomes

LEMMA IdleMild ==
    ASSUME Inv, NEW c \in Child, NEW b \in BOOLEAN, child' = [child EXCEPT ![c].idle = b]
    PROVE  ChildTyped' /\ NamesKept /\ Calm
<1>1. child' = [child EXCEPT ![c] = Idles(child[c], b)]
  BY DEF Idles
<1>2. ChildTyped /\ child[c] \in ChildRec
  BY DEF Inv, Typed, ChildTyped
<1>3. Calm
  BY <1>2 DEF Calm, ChildTyped, ChildRec
<1> QED BY <1>1, <1>2, <1>3, IdlesTyped, ChildBecomes

LEMMA SameMild ==
    ASSUME Inv, UNCHANGED child
    PROVE  ChildTyped' /\ NamesKept /\ Calm
BY DEF Inv, Typed, ChildTyped, NamesKept, Kin, Calm

\* Launchers, watchers and exits change neither the name nor the lifecycle of a child.
LEMMA ChildMild ==
    ASSUME Inv, NEW c \in Child,
           LaunchOk(c) \/ LaunchFail(c) \/ ProcExit(c) \/ Watcher(c) \/ StopEnd(c)
    PROVE  ChildTyped' /\ NamesKept
<1>0. ChildTyped /\ child[c] \in ChildRec
  BY DEF Inv, Typed, ChildTyped
<1>1. CASE LaunchFail(c) \/ ProcExit(c)
  <2>1. child' = [child EXCEPT ![c] = Dies(child[c])]
    BY <1>1 DEF LaunchFail, ProcExit, Dies
  <2> QED BY <1>0, <2>1, DiesTyped, ChildBecomes
<1>2. ASSUME NEW w \in WatchPc, child' = [child EXCEPT ![c].watch = w]
      PROVE  ChildTyped' /\ NamesKept
  <2>1. child' = [child EXCEPT ![c] = Watches(child[c], w)]
    BY <1>2 DEF Watches
  <2> QED BY <1>0, <2>1, WatchesTyped, ChildBecomes
<1>3. CASE LaunchOk(c) \/ WatchSpawned(c)
  BY <1>2, <1>3 DEF LaunchOk, WatchSpawned, Watched, WatchPc
<1>4. CASE WatchExit(c)
  <2> DEFINE again == running /\ table[OwnKey(c)] = c /\ MayRestart(c)
             w == IF again THEN "backoff" ELSE "none"
             n == IF again THEN child[c].restarts + 1 ELSE child[c].restarts
  <2>1. child' = [child EXCEPT ![c] = Exits(child[c], w, n)]
    BY <1>4 DEF WatchExit, Exits
  <2>2. w \in WatchPc /\ n \in 0 .. MaxRestarts
    BY <1>0 DEF WatchPc, MayRestart, ChildRec
  <2> HIDE DEF w, n
  <2> QED BY <1>0, <2>1, <2>2, ExitsTyped, ChildBecomes
<1>5. CASE WatchWake(c)
  <2> DEFINE w == IF running /\ table[OwnKey(c)] = c THEN "create" ELSE "none"
  <2>1. child' = [child EXCEPT ![c].watch = w] /\ w \in WatchPc
    BY <1>5 DEF WatchWake, WatchPc
  <2> HIDE DEF w
  <2> QED BY <1>2, <2>1
<1>6. CASE WatchCreate(c)
  <2>1. child' = [child EXCEPT ![c] = Spawns(child[c])]
    BY <1>6 DEF WatchCreate, Spawns
  <2> QED BY <1>0, <2>1, SpawnsTyped, ChildBecomes
<1>7. CASE WatchFail(c)
  <2>1. child' = [child EXCEPT ![c] = Fails(child[c])]
    BY <1>7 DEF WatchFail, Fails
  <2> QED BY <1>0, <2>1, FailsTyped, ChildBecomes
<1>8. CASE StopEnd(c)
  <2>1. child' = [child EXCEPT ![c] = Stopped(child[c])]
    BY <1>8 DEF StopEnd, Stopped
  <2> QED BY <1>0, <2>1, StoppedTyped, ChildBecomes
<1> QED BY <1>1, <1>3, <1>4, <1>5, <1>6, <1>7, <1>8 DEF Watcher

\* Calls do not even change a process or a watcher, but for the child they launch.
LEMMA CallMild ==
    ASSUME Inv, NEW r \in Call,
           CallFound(r) \/ CallMissing(r) \/ CallRefused(r) \/ CallReady(r) \/ CallOk(r) \/ CallError(r)
           \/ CallLost(r) \/ CallTimeout(r) \/ CallTimeoutStop(r) \/ CallStop(r) \/ CallStopped(r)
    PROVE  ChildTyped' /\ NamesKept /\ Calm
<1>0. /\ table \in [Key -> Child \cup {NoChild}]
      /\ call[r] \in CallRec /\ Want(r) \in Key
      /\ call[r].pc \in Busy => call[r].child \in Child /\ OwnKey(call[r].child) \in Key
  <2>1. call[r] \in CallRec
    BY DEF Inv, Typed, CallTyped
  <2>2. Want(r) \in Key
    BY <2>1 DEF Want, Key, CallRec
  <2>3. ASSUME call[r].pc \in Busy PROVE call[r].child \in Child /\ OwnKey(call[r].child) \in Key
    BY <2>1, <2>3 DEF Inv, Typed, CallTyped, CallGood, ChildTyped, ChildRec, OwnKey, Key
  <2> QED BY <2>1, <2>2, <2>3 DEF Inv, Typed, TableTyped
<1>1. CASE CallFound(r) \/ CallReady(r)
  <2>1. PICK c \in Child : child' = [child EXCEPT ![c].idle = FALSE]
    BY <1>0, <1>1 DEF CallFound, CallReady, Execute, Busy
  <2> QED BY <2>1, IdleMild
<1>2. ASSUME call[r].pc \in Busy, child' = Idle(child, call[r].child) PROVE ChildTyped' /\ NamesKept /\ Calm
  <2> DEFINE c == call[r].child
             b == (child[c].life = "on_demand")
  <2>1. child' = [child EXCEPT ![c].idle = b] /\ b \in BOOLEAN /\ c \in Child
    BY <1>0, <1>2 DEF Idle
  <2> HIDE DEF b, c
  <2> QED BY <2>1, IdleMild
<1>3. CASE CallOk(r) \/ CallError(r) \/ CallLost(r) \/ CallTimeout(r) \/ CallStopped(r)
  BY <1>2, <1>3 DEF CallOk, CallError, CallLost, CallTimeout, CallStopped, Over, Busy
<1>4. CASE CallStop(r)
  <2> DEFINE d == table[OwnKey(call[r].child)]
  <2>1. call[r].pc \in Busy /\ d \in Child \cup {NoChild}
    BY <1>0, <1>4 DEF CallStop, Busy
  <2>2. CASE d = NoChild
    BY <1>2, <1>4, <2>1, <2>2 DEF CallStop, Over
  <2>3. CASE d # NoChild
    <3>1. d \in Child /\ child' = Stopping(child, d)
      BY <1>4, <2>1, <2>3 DEF CallStop
    <3> HIDE DEF d
    <3> QED BY <3>1, StopMild
  <2> QED BY <2>2, <2>3
<1>5. CASE CallMissing(r) \/ CallRefused(r) \/ CallTimeoutStop(r)
  BY <1>5, SameMild DEF CallMissing, CallRefused, CallTimeoutStop
<1> QED BY <1>1, <1>3, <1>4, <1>5

-----------------------------------------------------------------------------
(* The ways a call is changed. *)

Goes(x, pc)    == [x EXCEPT !.pc = pc]
Uses(x, pc, c) == [x EXCEPT !.pc = pc, !.child = c]
Waits(x, d)    == [x EXCEPT !.pc = "stopping", !.victim = d]
Retries(x)     == [x EXCEPT !.pc = "retry", !.child = NoChild, !.victim = NoChild, !.tries = @ + 1]
Arrives(m)     == [NoCall EXCEPT !.pc = "begin", !.msg = m]

LEMMA NoCallGood == CallGood(NoCall) /\ NoCall.pc = "idle"
<1>1. (CHOOSE m \in Msg : TRUE) \in Msg
  OBVIOUS
<1> QED BY <1>1 DEF NoCall, CallGood, CallRec, CallPc, Busy

LEMMA GoesGood ==
    ASSUME NEW x, CallGood(x), NEW pc \in CallPc \ {"stopping"}, pc \in Busy => x.child \in Child
    PROVE  CallGood(Goes(x, pc))
BY DEF Goes, CallGood, CallRec

LEMMA UsesGood ==
    ASSUME NEW x, CallGood(x), NEW pc \in CallPc \ {"stopping"}, NEW c \in Child
    PROVE  CallGood(Uses(x, pc, c))
BY DEF Uses, CallGood, CallRec

LEMMA WaitsGood ==
    ASSUME NEW x, CallGood(x), x.child \in Child, NEW d \in Child
    PROVE  CallGood(Waits(x, d))
BY DEF Waits, CallGood, CallRec, CallPc

LEMMA RetriesGood ==
    ASSUME NEW x, CallGood(x), x.tries + 1 < MaxAttempts
    PROVE  CallGood(Retries(x))
<1>1. /\ x \in CallRec /\ NoChild \in Child \cup {NoChild}
      /\ "retry" \in CallPc /\ "retry" \notin Busy /\ x.tries + 1 \in 0 .. MaxAttempts
  BY DEF CallGood, CallRec, CallPc, Busy
<1>2. Retries(x) \in CallRec /\ Retries(x).pc = "retry"
  BY <1>1 DEF Retries, CallRec
<1> QED BY <1>1, <1>2 DEF CallGood

LEMMA ArrivesGood ==
    ASSUME NEW m \in Msg
    PROVE  CallGood(Arrives(m))
BY NoCallGood DEF Arrives, CallGood, CallRec, CallPc, Busy

LEMMA AgainGood ==
    ASSUME NEW r \in Call, CallGood(call[r])
    PROVE  CallGood(Again(r))
<1>1. Again(r) = IF call[r].tries + 1 < MaxAttempts THEN Retries(call[r]) ELSE NoCall
  BY DEF Again, Retries
<1> QED BY <1>1, NoCallGood, RetriesGood

LEMMA CallBecomes ==
    ASSUME CallTyped, NEW r \in Call, NEW x, CallGood(x), call' = [call EXCEPT ![r] = x]
    PROVE  CallTyped'
BY DEF CallTyped, CallGood

\* An action that changes several calls changes each to a good one.
LEMMA CallsBecome ==
    ASSUME NEW f, call' = [r \in Call |-> f[r]], \A r \in Call : CallGood(f[r])
    PROVE  CallTyped'
BY DEF CallTyped, CallGood

LEMMA LauncherCalls ==
    ASSUME Inv, NEW c \in Child, Launcher(c) \/ WatchSpawned(c)
    PROVE  CallTyped'
<1>0. \A r \in Call : CallGood(call[r]) /\ call[r] \in CallRec
  BY DEF Inv, Typed, CallTyped
<1>1. CASE LaunchOk(c)
  <2> DEFINE pc(r) == IF call[r].tries = 0 THEN "ready" ELSE "waiting"
             f == [r \in Call |-> IF call[r].pc = "starting" /\ call[r].child = c
                                  THEN Goes(call[r], pc(r)) ELSE call[r]]
  <2>1. call' = [r \in Call |-> f[r]]
    BY <1>1 DEF LaunchOk, Goes
  <2>2. ASSUME NEW r \in Call PROVE CallGood(f[r])
    <3>1. pc(r) \in CallPc \ {"stopping"}
      BY DEF CallPc
    <3>2. f[r] = call[r] \/ (call[r].child = c /\ f[r] = Goes(call[r], pc(r)))
      OBVIOUS
    <3> HIDE DEF pc, f
    <3> QED BY <1>0, <3>1, <3>2, GoesGood
  <2> HIDE DEF f
  <2> QED BY <2>1, <2>2, CallsBecome
<1>2. CASE LaunchFail(c)
  <2> DEFINE R == {r \in Call : call[r].pc = "starting" /\ call[r].child = c}
             f == [r \in Call |-> IF r \in R THEN NoCall ELSE call[r]]
  <2>1. call' = [r \in Call |-> f[r]]
    BY <1>2 DEF LaunchFail
  <2>2. ASSUME NEW r \in Call PROVE CallGood(f[r])
    <3>1. f[r] = call[r] \/ f[r] = NoCall
      OBVIOUS
    <3> HIDE DEF f
    <3> QED BY <1>0, <3>1, NoCallGood
  <2> HIDE DEF f
  <2> QED BY <2>1, <2>2, CallsBecome
<1>3. CASE WatchSpawned(c)
  <2> DEFINE f == [r \in Call |-> IF call[r].pc = "waiting" /\ call[r].child = c
                                  THEN Goes(call[r], "lost") ELSE call[r]]
  <2>1. call' = [r \in Call |-> f[r]]
    BY <1>3 DEF WatchSpawned, Goes
  <2>2. ASSUME NEW r \in Call PROVE CallGood(f[r])
    <3>1. "lost" \in CallPc \ {"stopping"}
      BY DEF CallPc
    <3>2. f[r] = call[r] \/ (call[r].child = c /\ f[r] = Goes(call[r], "lost"))
      OBVIOUS
    <3> HIDE DEF f
    <3> QED BY <1>0, <3>1, <3>2, GoesGood
  <2> HIDE DEF f
  <2> QED BY <2>1, <2>2, CallsBecome
<1> QED BY <1>1, <1>2, <1>3 DEF Launcher

LEMMA CallStepCalls ==
    ASSUME Inv, NEW r \in Call, CallStep(r) \/ \E m \in Msg : CallArrive(r, m)
    PROVE  CallTyped'
<1>0. CallTyped /\ CallGood(call[r]) /\ (call[r].pc \in Busy => call[r].child \in Child)
  BY DEF Inv, Typed, CallTyped, CallGood
<1>1. ASSUME NEW c \in Child, NEW pc \in CallPc \ {"stopping"},
             call' = [call EXCEPT ![r].pc = pc, ![r].child = c]
      PROVE  CallTyped'
  <2>1. call' = [call EXCEPT ![r] = Uses(call[r], pc, c)]
    BY <1>1 DEF Uses
  <2> QED BY <1>0, <2>1, UsesGood, CallBecomes
<1>2. ASSUME NEW pc \in CallPc \ {"stopping"}, pc \in Busy => call[r].child \in Child,
             call' = [call EXCEPT ![r].pc = pc]
      PROVE  CallTyped'
  <2>1. call' = [call EXCEPT ![r] = Goes(call[r], pc)]
    BY <1>2 DEF Goes
  <2>2. CallGood(Goes(call[r], pc))
    BY <1>0, <1>2, GoesGood
  <2> QED BY <1>0, <2>1, <2>2, CallBecomes
<1>3. ASSUME Over(r) PROVE CallTyped'
  BY <1>0, <1>3, AgainGood, CallBecomes DEF Over
<1>4. table \in [Key -> Child \cup {NoChild}]
  BY DEF Inv, Typed, TableTyped
<1>5. "waiting" \in CallPc \ {"stopping"} /\ "starting" \in CallPc \ {"stopping"}
  BY DEF CallPc
<1>6. CASE CallFound(r)
  <2>1. Want(r) \in Key
    BY DEF Inv, Typed, CallTyped, CallRec, Want, Key
  <2>2. table[Want(r)] \in Child
    BY <1>4, <1>6, <2>1 DEF CallFound
  <2>3. call' = [call EXCEPT ![r].pc = "waiting", ![r].child = table[Want(r)]]
    BY <1>6 DEF CallFound, Execute
  <2> QED BY <1>1, <1>5, <2>2, <2>3
<1>7. CASE CallReady(r)
  <2>1. call[r].child \in Child
    BY <1>0, <1>7 DEF CallReady, Busy
  <2>2. call' = [call EXCEPT ![r].pc = "waiting", ![r].child = call[r].child]
    BY <1>7 DEF CallReady, Execute
  <2> QED BY <1>1, <1>5, <2>1, <2>2
<1>8. CASE CallMissing(r) \/ CallTimeoutStop(r)
  BY <1>0, <1>2, <1>8 DEF CallMissing, CallTimeoutStop, CallPc, Busy
<1>9. ASSUME NEW c \in Child, CallLaunch(r, c) PROVE CallTyped'
  <2>1. call' = [call EXCEPT ![r].pc = "starting", ![r].child = c]
    BY <1>9 DEF CallLaunch
  <2> QED BY <1>1, <1>5, <2>1
<1>10. CASE CallRefused(r) \/ CallOk(r) \/ CallError(r)
  BY <1>0, <1>10, NoCallGood, CallBecomes DEF CallRefused, CallOk, CallError
<1>11. CASE CallLost(r) \/ CallTimeout(r) \/ CallStopped(r)
  BY <1>3, <1>11 DEF CallLost, CallTimeout, CallStopped
<1>12. CASE CallStop(r)
  <2> DEFINE d == table[OwnKey(call[r].child)]
  <2>1. CASE d = NoChild
    BY <1>3, <1>12, <2>1 DEF CallStop
  <2>2. CASE d # NoChild
    <3>1. call[r].child \in Child
      BY <1>0, <1>12 DEF CallStop, Busy
    <3>2. OwnKey(call[r].child) \in Key
      BY <3>1 DEF Inv, Typed, ChildTyped, ChildRec, OwnKey, Key
    <3>3. d \in Child
      BY <1>4, <2>2, <3>2
    <3>4. call' = [call EXCEPT ![r] = Waits(call[r], d)]
      BY <1>12, <2>2 DEF CallStop, Waits
    <3> HIDE DEF d
    <3> QED BY <1>0, <3>1, <3>3, <3>4, WaitsGood, CallBecomes
  <2> QED BY <2>1, <2>2
<1>13. ASSUME NEW m \in Msg, CallArrive(r, m) PROVE CallTyped'
  <2>1. call' = [call EXCEPT ![r] = Arrives(m)]
    BY <1>13 DEF CallArrive, Arrives
  <2> QED BY <1>0, <2>1, ArrivesGood, CallBecomes
<1> QED BY <1>6, <1>7, <1>8, <1>9, <1>10, <1>11, <1>12, <1>13 DEF CallStep

-----------------------------------------------------------------------------
(* The table and the slots. *)

LEMMA FiniteTracked ==
    /\ IsFiniteSet(TrackedSet) /\ Cardinality(TrackedSet) \in Nat
    /\ IsFiniteSet(Residents) /\ Cardinality(Residents) \in Nat
<1>1. TrackedSet \in SUBSET Child /\ Residents \in SUBSET Child
  BY DEF TrackedSet, Residents
<1> QED BY <1>1, FS_Subset, FS_CardinalityType

LEMMA KeysHome ==
    ASSUME ChildTyped
    PROVE  \A c \in Child : Home(c) \in Key /\ OwnKey(c) \in Key
BY DEF ChildTyped, ChildRec, Home, KeptKey, OwnKey, Key

\* Fewer entries and the same lifecycles leave as many slots free.
LEMMA FewerTracked ==
    ASSUME TrackedSet' \subseteq TrackedSet, Residents' \subseteq Residents
    PROVE  /\ Cardinality(TrackedSet') \in Nat /\ Cardinality(Residents') \in Nat
           /\ Cardinality(TrackedSet') <= Cardinality(TrackedSet)
           /\ Cardinality(Residents') <= Cardinality(Residents)
<1>1. TrackedSet' \in SUBSET TrackedSet /\ Residents' \in SUBSET Residents
  OBVIOUS
<1>2. IsFiniteSet(TrackedSet') /\ IsFiniteSet(Residents')
  BY <1>1, FiniteTracked, FS_Subset
<1> QED BY <1>1, <1>2, FiniteTracked, FS_Subset, FS_CardinalityType

TableShrinks == /\ table' \in [Key -> Child \cup {NoChild}]
                /\ \A k \in Key : table'[k] \in {table[k], NoChild}

\* An action that starts no launch and ends none with success.
LEMMA Shrinks ==
    ASSUME Inv, ChildTyped', NamesKept, TableShrinks, lock' \in {lock, NoChild}
    PROVE  Filed' /\ Free'
<1>1. \A c \in Child : Home(c)' = Home(c) /\ child'[c].life = child[c].life
  BY DEF NamesKept, Kin, Home, KeptKey
<1>2. TrackedSet' \subseteq TrackedSet
  BY DEF TrackedSet, Tracked, TableShrinks
<1>3. Residents' \subseteq Residents
  BY <1>1, <1>2 DEF Residents, TrackedSet
<1>4. Filed'
  <2>1. ASSUME NEW k \in Key, table'[k] # NoChild
        PROVE  k = KeptKey(child'[table'[k]].skill, child'[table'[k]].agent)
    <3>1. table'[k] = table[k] /\ table[k] \in Child /\ k = Home(table[k])
      BY <2>1 DEF TableShrinks, Inv, Filed, Typed, TableTyped
    <3> QED BY <1>1, <3>1 DEF Home
  <2>2. ASSUME lock' # NoChild
        PROVE  table'[KeptKey(child'[lock'].skill, child'[lock'].agent)] = NoChild
    <3>1. lock' = lock /\ lock \in Child /\ table[Home(lock)] = NoChild /\ Home(lock) \in Key
      BY <2>2, KeysHome DEF Inv, Filed, Typed, TableTyped
    <3> QED BY <1>1, <3>1 DEF TableShrinks, Home
  <2> QED BY <2>1, <2>2 DEF Filed, Home
<1>5. Free'
  <2>1. /\ Cardinality(TrackedSet') <= Cardinality(TrackedSet)
        /\ Cardinality(Residents') <= Cardinality(Residents)
        /\ Cardinality(TrackedSet') \in Nat /\ Cardinality(Residents') \in Nat
        /\ Cardinality(TrackedSet) \in Nat /\ Cardinality(Residents) \in Nat
    BY <1>2, <1>3, FewerTracked, FiniteTracked
  <2>2. lock' # NoChild => lock' = lock /\ child'[lock].life = child[lock].life
    BY <1>1 DEF Inv, Typed, TableTyped
  <2> QED BY <2>1, <2>2 DEF Inv, Free, SlotsHold
<1> QED BY <1>4, <1>5

LEMMA LaunchKeeps ==
    ASSUME Inv, NEW c \in Child, NEW s \in Skill, NEW a \in Agent, NEW l \in Lifecycle,
           LaunchBegin(c, s, a, l)
    PROVE  /\ ChildTyped' /\ Filed' /\ Free' /\ TableShrinks /\ lock' \in Child
           /\ ~Tracked(c) /\ ~Up(c) /\ child[c].watch = "none" /\ child'[c].watch = "none"
           /\ \A d \in Child : d # c => child'[d] = child[d]
           /\ table[KeptKey(s, a)] # NoChild => ~Up(table[KeptKey(s, a)])
           /\ table' = Drop(KeptKey(s, a))
<1>0. /\ ChildTyped /\ table \in [Key -> Child \cup {NoChild}] /\ lock = NoChild
      /\ KeptKey(s, a) \in Key
  BY DEF Inv, Typed, TableTyped, LaunchBegin, CanLaunch, KeptKey, Key
<1>1. /\ ~Tracked(c) /\ ~Up(c) /\ child[c].watch = "none" /\ lock' = c
      /\ child' = [child EXCEPT ![c] = NewChild(s, a, l)]
      /\ table' = Drop(KeptKey(s, a))
      /\ table[KeptKey(s, a)] # NoChild => ~Up(table[KeptKey(s, a)])
  BY DEF LaunchBegin, Fresh, Spare, CanLaunch
<1>2. /\ child'[c] = NewChild(s, a, l) /\ NewChild(s, a, l) \in ChildRec
      /\ child'[c].skill = s /\ child'[c].agent = a /\ child'[c].life = l /\ child'[c].watch = "none"
      /\ \A d \in Child : d # c => child'[d] = child[d]
  BY <1>0, <1>1, NewTyped DEF ChildTyped
<1>3. ChildTyped'
  BY <1>0, <1>1, <1>2 DEF ChildTyped
<1>4. TableShrinks
  BY <1>0, <1>1 DEF TableShrinks, Drop
<1>5. TrackedSet' \subseteq TrackedSet /\ c \notin TrackedSet
  BY <1>1, <1>4 DEF TrackedSet, Tracked, TableShrinks
<1>6. Residents' \subseteq Residents
  BY <1>2, <1>5 DEF Residents, TrackedSet
<1>7. Free'
  <2>1. /\ Cardinality(TrackedSet) < MaxProcs
        /\ l = "resident" => Cardinality(Residents) < ResidentSlots
    BY DEF LaunchBegin, CanLaunch
  <2>2. /\ Cardinality(TrackedSet') <= Cardinality(TrackedSet)
        /\ Cardinality(Residents') <= Cardinality(Residents)
        /\ Cardinality(TrackedSet') \in Nat /\ Cardinality(Residents') \in Nat
        /\ Cardinality(TrackedSet) \in Nat /\ Cardinality(Residents) \in Nat
    BY <1>5, <1>6, FewerTracked, FiniteTracked
  <2> QED BY <1>1, <1>2, <2>1, <2>2 DEF Inv, Free, SlotsHold
<1>8. Filed'
  <2>1. ASSUME NEW k \in Key, table'[k] # NoChild
        PROVE  k = KeptKey(child'[table'[k]].skill, child'[table'[k]].agent)
    <3>1. table'[k] = table[k] /\ table[k] \in Child /\ table[k] # c
      BY <1>0, <1>1, <1>4, <2>1 DEF TableShrinks, Tracked
    <3> QED BY <1>2, <3>1 DEF Inv, Filed, Home
  <2>2. table'[KeptKey(s, a)] = NoChild
    BY <1>0, <1>1 DEF Drop
  <2> QED BY <1>1, <1>2, <2>1, <2>2 DEF Filed, Home
<1> QED BY <1>1, <1>2, <1>3, <1>4, <1>7, <1>8

LEMMA LaunchOkKeeps ==
    ASSUME Inv, NEW c \in Child, LaunchOk(c)
    PROVE  /\ Filed' /\ Free' /\ table' \in [Key -> Child \cup {NoChild}] /\ lock' = NoChild
           /\ \A k \in Key : table'[k] = table[k] \/ (table[k] = NoChild /\ table'[k] = c)
<1>0. /\ table \in [Key -> Child \cup {NoChild}] /\ lock = c /\ lock' = NoChild /\ c # NoChild
      /\ Home(c) \in Key /\ table[Home(c)] = NoChild
      /\ table' = [table EXCEPT ![Home(c)] = c]
  BY KeysHome DEF Inv, Typed, TableTyped, Filed, LaunchOk, Home
<1>1. NamesKept
  BY ChildMild
<1>2. \A d \in Child : Home(d)' = Home(d) /\ child'[d].life = child[d].life
  BY <1>1 DEF NamesKept, Kin, Home, KeptKey
<1>3. TrackedSet' \subseteq TrackedSet \cup {c}
  BY <1>0 DEF TrackedSet, Tracked
<1>4. Residents' \subseteq Residents \cup {d \in {c} : child[d].life = "resident"}
  BY <1>2, <1>3 DEF Residents, TrackedSet
<1>5. Filed'
  <2>1. ASSUME NEW k \in Key, table'[k] # NoChild
        PROVE  k = KeptKey(child'[table'[k]].skill, child'[table'[k]].agent)
    <3>1. CASE k = Home(c)
      BY <1>0, <1>2, <3>1 DEF Home
    <3>2. CASE k # Home(c)
      <4>1. table'[k] = table[k] /\ table[k] \in Child /\ k = Home(table[k])
        BY <1>0, <2>1, <3>2 DEF Inv, Filed
      <4> QED BY <1>2, <4>1 DEF Home
    <3> QED BY <3>1, <3>2
  <2> QED BY <1>0, <2>1 DEF Filed, Home
<1>6. Free'
  <2>1. Cardinality(TrackedSet) < MaxProcs /\ Cardinality(Residents) <= ResidentSlots
        /\ (child[c].life = "resident" => Cardinality(Residents) < ResidentSlots)
    BY <1>0 DEF Inv, Free, SlotsHold
  <2>2. /\ IsFiniteSet(TrackedSet \cup {c}) /\ IsFiniteSet(Residents \cup {c})
        /\ Cardinality(TrackedSet \cup {c}) <= Cardinality(TrackedSet) + 1
        /\ Cardinality(Residents \cup {c}) <= Cardinality(Residents) + 1
    <3>1. /\ Cardinality(TrackedSet \cup {c}) = IF c \in TrackedSet THEN Cardinality(TrackedSet)
                                              ELSE Cardinality(TrackedSet) + 1
          /\ IsFiniteSet(TrackedSet \cup {c})
      BY FiniteTracked, FS_AddElement
    <3>2. /\ Cardinality(Residents \cup {c}) = IF c \in Residents THEN Cardinality(Residents)
                                             ELSE Cardinality(Residents) + 1
          /\ IsFiniteSet(Residents \cup {c})
      BY FiniteTracked, FS_AddElement
    <3> QED BY <3>1, <3>2, FiniteTracked
  <2>3. TrackedSet' \in SUBSET (TrackedSet \cup {c})
    BY <1>3
  <2>4. /\ Cardinality(TrackedSet') <= Cardinality(TrackedSet \cup {c})
        /\ IsFiniteSet(TrackedSet')
    BY <2>2, <2>3, FS_Subset
  <2>5. /\ Cardinality(TrackedSet') \in Nat /\ Cardinality(TrackedSet \cup {c}) \in Nat
        /\ Cardinality(Residents \cup {c}) \in Nat
    BY <2>2, <2>4, FS_CardinalityType
  <2>6. Cardinality(TrackedSet') <= MaxProcs
    BY <2>1, <2>2, <2>4, <2>5, FiniteTracked
  <2>7. Cardinality(Residents') <= ResidentSlots
    <3>1. CASE child[c].life = "resident"
      <4>1. Residents' \in SUBSET (Residents \cup {c})
        BY <1>4
      <4>2. Cardinality(Residents') <= Cardinality(Residents \cup {c}) /\ IsFiniteSet(Residents')
        BY <2>2, <4>1, FS_Subset
      <4>3. Cardinality(Residents') \in Nat
        BY <4>2, FS_CardinalityType
      <4> QED BY <2>1, <2>2, <2>5, <3>1, <4>2, <4>3, FiniteTracked
    <3>2. CASE child[c].life # "resident"
      <4>1. Residents' \in SUBSET Residents
        BY <1>4, <3>2
      <4>2. Cardinality(Residents') <= Cardinality(Residents) /\ IsFiniteSet(Residents')
        BY <4>1, FiniteTracked, FS_Subset
      <4>3. Cardinality(Residents') \in Nat
        BY <4>2, FS_CardinalityType
      <4> QED BY <2>1, <4>2, <4>3, FiniteTracked
    <3> QED BY <3>1, <3>2
  <2> QED BY <1>0, <2>6, <2>7 DEF Free, SlotsHold
<1>7. /\ table' \in [Key -> Child \cup {NoChild}]
      /\ \A k \in Key : table'[k] = table[k] \/ (table[k] = NoChild /\ table'[k] = c)
  BY <1>0
<1> QED BY <1>0, <1>5, <1>6, <1>7

-----------------------------------------------------------------------------
(* Every step keeps the types, the keys and the slots. *)

\* The stops of operators, timers, the monitor and the shutdown.
StopStep == \/ \E s \in Skill, a \in Agent : AdminStop(s, a)
            \/ \E c \in Child : Unload(c) \/ MonitorPass(c) \/ MonitorStop(c) \/ ShutdownStop(c)
            \/ MonitorList \/ ShutdownBegin \/ ShutdownClear

LEMMA TableParts ==
    ASSUME Inv
    PROVE  /\ table \in [Key -> Child \cup {NoChild}] /\ lock \in Child \cup {NoChild}
           /\ phase \in {"running", "closing", "closed"} /\ closing \subseteq Child /\ snap \subseteq Child
BY DEF Inv, Typed, TableTyped

LEMMA StopStepKeeps ==
    ASSUME Inv, StopStep
    PROVE  /\ ChildTyped' /\ NamesKept /\ Calm /\ TableShrinks /\ lock' = lock
           /\ TableTyped' /\ CallTyped' /\ IdemTyped' /\ (running' => running)
<1>0. lock' = lock /\ UNCHANGED <<call, idem>> /\ (running' => running)
  BY DEF StopStep, AdminStop, Unload, MonitorPass, MonitorStop, ShutdownStop, MonitorList, ShutdownBegin,
       ShutdownClear, running
<1>1. ChildTyped' /\ NamesKept /\ Calm
  <2>1. ASSUME NEW s \in Skill, NEW a \in Agent, AdminStop(s, a) PROVE ChildTyped' /\ NamesKept /\ Calm
    <3>1. table[<<s, a>>] \in Child
      BY <2>1, TableParts DEF AdminStop, Key
    <3> QED BY <2>1, <3>1, StopMild DEF AdminStop
  <2>2. ASSUME NEW c \in Child, Unload(c) \/ MonitorStop(c) \/ ShutdownStop(c)
        PROVE  ChildTyped' /\ NamesKept /\ Calm
    BY <2>2, StopMild DEF Unload, MonitorStop, ShutdownStop
  <2>3. ASSUME UNCHANGED child PROVE ChildTyped' /\ NamesKept /\ Calm
    BY <2>3, SameMild
  <2> QED BY <2>1, <2>2, <2>3 DEF StopStep, MonitorPass, MonitorList, ShutdownBegin, ShutdownClear
<1>2. TableShrinks
  BY TableParts DEF TableShrinks, StopStep, AdminStop, Unload, MonitorPass, MonitorStop, ShutdownStop,
       MonitorList, ShutdownBegin, ShutdownClear, Drop
<1>3. TableTyped'
  <2>1. phase' \in {"running", "closing", "closed"} /\ closing' \subseteq Child /\ snap' \subseteq Child
    BY TableParts DEF TrackedSet, StopStep, AdminStop, Unload, MonitorPass, MonitorStop, ShutdownStop,
         MonitorList, ShutdownBegin, ShutdownClear
  <2> QED BY <1>0, <1>2, <2>1, TableParts DEF TableTyped, TableShrinks
<1>4. CallTyped' /\ IdemTyped'
  BY <1>0 DEF Inv, Typed, CallTyped, CallGood, IdemTyped, idem
<1> QED BY <1>0, <1>1, <1>2, <1>3, <1>4

\* A call that does not launch.
CallGoes(r) ==
    \/ CallFound(r) \/ CallMissing(r) \/ CallRefused(r) \/ CallReady(r) \/ CallOk(r) \/ CallError(r)
    \/ CallLost(r) \/ CallTimeout(r) \/ CallTimeoutStop(r) \/ CallStop(r) \/ CallStopped(r)
    \/ \E m \in Msg : CallArrive(r, m)

LEMMA CallGoesKeeps ==
    ASSUME Inv, NEW r \in Call, CallGoes(r)
    PROVE  /\ ChildTyped' /\ NamesKept /\ Calm /\ TableShrinks /\ lock' = lock
           /\ TableTyped' /\ CallTyped' /\ IdemTyped' /\ (running' => running)
<1>0. lock' = lock /\ UNCHANGED <<phase, closing, snap>>
  BY DEF CallGoes, CallFound, CallMissing, CallRefused, CallReady, CallOk, CallError, CallLost,
       CallTimeout, CallTimeoutStop, CallStop, CallStopped, CallArrive
<1>1. ChildTyped' /\ NamesKept /\ Calm
  BY CallMild, SameMild DEF CallGoes, CallArrive
<1>2. TableShrinks
  <2>1. CASE UNCHANGED table
    BY <2>1, TableParts DEF TableShrinks
  <2>2. CASE CallStop(r) /\ table' = Drop(OwnKey(call[r].child))
    BY <2>2, TableParts DEF TableShrinks, Drop
  <2> QED BY <2>1, <2>2 DEF CallGoes, CallFound, CallMissing, CallRefused, CallReady, CallOk, CallError,
          CallLost, CallTimeout, CallTimeoutStop, CallStop, CallStopped, CallArrive, Over
<1>3. TableTyped'
  BY <1>0, <1>2, TableParts DEF TableTyped, TableShrinks
<1>4. CallTyped'
  BY CallStepCalls DEF CallGoes, CallStep
<1>5. IdemTyped'
  <2>0. IdemTyped /\ call[r].msg \in Msg
    BY DEF Inv, Typed, CallTyped, CallRec
  <2>1. ASSUME NEW M \in SUBSET Msg, Marked(M) PROVE IdemTyped'
    BY <2>0, <2>1 DEF Marked, IdemTyped
  <2>2. ASSUME UNCHANGED idem PROVE IdemTyped'
    BY <2>0, <2>2 DEF IdemTyped, idem
  <2>3. CASE CallFound(r) \/ CallReady(r) \/ CallOk(r) \/ \E m \in Msg : CallArrive(r, m)
    BY <2>0, <2>3 DEF CallFound, CallReady, Execute, CallOk, CallArrive, IdemTyped
  <2>4. ASSUME Over(r) PROVE IdemTyped'
    BY <2>0, <2>1, <2>4 DEF Over
  <2>5. CASE CallRefused(r) \/ CallError(r)
    BY <2>0, <2>1, <2>5 DEF CallRefused, CallError
  <2>6. CASE CallLost(r) \/ CallTimeout(r) \/ CallStop(r) \/ CallStopped(r)
    BY <2>2, <2>4, <2>6 DEF CallLost, CallTimeout, CallStop, CallStopped
  <2>7. CASE CallMissing(r) \/ CallTimeoutStop(r)
    BY <2>2, <2>7 DEF CallMissing, CallTimeoutStop
  <2> QED BY <2>3, <2>5, <2>6, <2>7 DEF CallGoes
<1> QED BY <1>0, <1>1, <1>2, <1>3, <1>4, <1>5 DEF running

\* Launches that end without success, watchers, exits.
ProcStep(c) == LaunchFail(c) \/ ProcExit(c) \/ Watcher(c) \/ StopEnd(c)

LEMMA ProcStepKeeps ==
    ASSUME Inv, NEW c \in Child, ProcStep(c)
    PROVE  /\ ChildTyped' /\ NamesKept /\ TableShrinks /\ lock' \in {lock, NoChild}
           /\ TableTyped' /\ CallTyped' /\ IdemTyped' /\ UNCHANGED <<phase, closing, snap>>
<1>0. lock' \in {lock, NoChild} /\ UNCHANGED <<phase, closing, snap>>
  BY DEF ProcStep, LaunchFail, ProcExit, Watcher, WatchExit, WatchWake, WatchCreate, WatchSpawned,
       WatchFail, StopEnd
<1>1. ChildTyped' /\ NamesKept
  BY ChildMild DEF ProcStep
<1>2. TableShrinks
  BY TableParts DEF TableShrinks, ProcStep, LaunchFail, ProcExit, Watcher, WatchExit, WatchWake,
       WatchCreate, WatchSpawned, WatchFail, StopEnd, Drop
<1>3. TableTyped'
  BY <1>0, <1>2, TableParts DEF TableTyped, TableShrinks
<1>4. CallTyped'
  <2>1. CASE UNCHANGED call
    BY <2>1 DEF Inv, Typed, CallTyped, CallGood
  <2> QED BY <2>1, LauncherCalls DEF ProcStep, Launcher, ProcExit, Watcher, WatchExit, WatchWake,
          WatchCreate, WatchFail, StopEnd
<1>5. IdemTyped'
  <2>1. CASE LaunchFail(c)
    <3> DEFINE M == {call[r].msg : r \in {q \in {r \in Call : call[r].pc = "starting" /\ call[r].child = c}
                                            : call[q].tries > 0}}
    <3>1. M \subseteq Msg
      BY DEF Inv, Typed, CallTyped, CallRec
    <3>2. Marked(M)
      BY <2>1 DEF LaunchFail
    <3> HIDE DEF M
    <3> QED BY <3>1, <3>2 DEF Marked, IdemTyped, Inv, Typed
  <2>2. CASE UNCHANGED idem
    BY <2>2 DEF Inv, Typed, IdemTyped, idem
  <2> QED BY <2>1, <2>2 DEF ProcStep, ProcExit, Watcher, WatchExit, WatchWake, WatchCreate, WatchSpawned,
          WatchFail, StopEnd
<1> QED BY <1>0, <1>1, <1>2, <1>3, <1>4, <1>5

\* The beginning of a launch, by an operator or by a call.
LaunchStep(c, s, a, l) == /\ LaunchBegin(c, s, a, l)
                          /\ UNCHANGED <<phase, closing, snap, idem>>
                          /\ call' = call \/ \E r \in Call : CallLaunch(r, c)

LEMMA NextSteps ==
    ASSUME Inv, Next
    PROVE  \/ \E c \in Child, s \in Skill, a \in Agent, l \in Lifecycle : LaunchStep(c, s, a, l)
           \/ \E c \in Child : LaunchOk(c) \/ ProcStep(c)
           \/ StopStep \/ \E r \in Call : CallGoes(r)
<1>1. ASSUME NEW c \in Child, NEW s \in Skill, NEW a \in Agent, NEW l \in Lifecycle, AdminLaunch(c, s, a, l)
      PROVE  LaunchStep(c, s, a, l)
  BY <1>1 DEF AdminLaunch, LaunchStep
<1>2. ASSUME NEW r \in Call, NEW c \in Child, CallLaunch(r, c)
      PROVE  \E s \in Skill, a \in Agent, l \in Lifecycle : LaunchStep(c, s, a, l)
  <2>1. Want(r)[1] \in Skill /\ Want(r)[2] \in Agent
    BY DEF Inv, Typed, CallTyped, CallRec, Want
  <2>2. LaunchStep(c, Want(r)[1], Want(r)[2], "resident") /\ "resident" \in Lifecycle
    BY <1>2 DEF CallLaunch, LaunchStep, Lifecycle
  <2> QED BY <2>1, <2>2
<1>3. ASSUME NEW r \in Call, CallStep(r) \/ \E m \in Msg : CallArrive(r, m)
      PROVE  CallGoes(r) \/ \E c \in Child : CallLaunch(r, c)
  BY <1>3 DEF CallStep, CallGoes
<1> QED BY <1>1, <1>2, <1>3 DEF Next, Launcher, ProcStep, Monitor, Shutdown, StopStep

-----------------------------------------------------------------------------
(* The watchers. *)

\* A step that leaves the processes and the watchers alone, and tracks no new child.
LEMMA CalmWatching ==
    ASSUME Inv, NamesKept, Calm, TableShrinks, running' => running
    PROVE  Watching'
<1>1. TrackedSet' \subseteq TrackedSet
  BY DEF TrackedSet, Tracked, TableShrinks
<1>2. \A c \in Child : /\ child'[c].proc = child[c].proc /\ child'[c].watch = child[c].watch
                       /\ child'[c].restarts = child[c].restarts /\ child'[c].skill = child[c].skill
  BY DEF Calm, NamesKept, Kin
<1>3. TrackedSet \subseteq Child
  BY DEF TrackedSet
<1> QED BY <1>1, <1>2, <1>3 DEF Inv, Watching, CrashesAreSeen, Up

\* A step of one child's process or watcher: what is to be shown of that child.
Seen(c) == /\ child[c].watch \in {"backoff", "create"} => ~Up(c)
           /\ child[c].watch \in {"backoff", "create", "spawn"} => child[c].restarts > 0
           /\ Tracked(c) =>
                /\ Up(c) => child[c].watch \in {"wait", "spawn"}
                /\ running /\ ~Up(c) /\ child[c].restarts = 0 /\ child[c].skill \notin Singleton
                      => child[c].watch = "wait"

LEMMA SeenOfAll == Watching <=> \A c \in Child : Seen(c)
BY DEF Watching, CrashesAreSeen, Seen, TrackedSet

LEMMA OneSeen ==
    ASSUME Inv, NEW c \in Child, \A d \in Child : d # c => child'[d] = child[d],
           \A d \in Child : d # c /\ Tracked(d)' => Tracked(d), running' => running, Seen(c)'
    PROVE  Watching'
<1>1. ASSUME NEW d \in Child, d # c PROVE Seen(d)'
  <2>1. Seen(d) /\ child'[d] = child[d] /\ (Tracked(d)' => Tracked(d))
    BY <1>1, SeenOfAll DEF Inv
  <2> QED BY <2>1 DEF Seen, Up
<1>2. \A d \in Child : Seen(d)'
  BY <1>1
<1> QED BY <1>2 DEF Watching, CrashesAreSeen, Seen, TrackedSet

\* Only its own key tracks a child.
LEMMA TrackedAtHome ==
    ASSUME Inv, NEW c \in Child, Tracked(c)
    PROVE  table[Home(c)] = c /\ (child[c].skill \notin Singleton => OwnKey(c) = Home(c))
<1>1. c # NoChild
  OBVIOUS
<1> QED BY <1>1 DEF Inv, Filed, Tracked, Home, OwnKey, KeptKey

LEMMA ProcWatching ==
    ASSUME Inv, NEW c \in Child, ProcStep(c)
    PROVE  Watching'
<1>0. /\ child \in [Child -> ChildRec] /\ child[c] \in ChildRec /\ Seen(c)
      /\ TableShrinks /\ (running' => running)
  BY ProcStepKeeps, SeenOfAll DEF Inv, Typed, ChildTyped, running
<1>1. \A d \in Child : Tracked(d)' => Tracked(d)
  BY <1>0 DEF Tracked, TableShrinks
<1>2. \A d \in Child : d # c => child'[d] = child[d]
  BY <1>0 DEF ProcStep, LaunchFail, ProcExit, Watcher, WatchExit, WatchWake, WatchCreate, WatchSpawned,
       WatchFail, StopEnd, Watched
<1>3. Seen(c)'
  <2>1. CASE LaunchFail(c)
    <3>1. ~Tracked(c)
      BY <2>1, TrackedAtHome DEF LaunchFail, Inv, Filed
    <3>2. /\ child'[c].proc = "dead" /\ child'[c].watch = child[c].watch
          /\ child'[c].restarts = child[c].restarts
      BY <1>0, <2>1 DEF LaunchFail, ChildRec
    <3> QED BY <1>0, <1>1, <3>1, <3>2 DEF Seen, Up
  <2>2. CASE ProcExit(c) \/ StopEnd(c)
    <3>1. /\ child'[c].proc = "dead" /\ child'[c].watch = child[c].watch
          /\ child'[c].restarts = child[c].restarts /\ child'[c].skill = child[c].skill
      BY <1>0, <2>2 DEF ProcExit, StopEnd, ChildRec
    <3> QED BY <1>0, <1>1, <3>1 DEF Seen, Up
  <2>3. CASE WatchExit(c)
    <3> DEFINE again == running /\ table[OwnKey(c)] = c /\ MayRestart(c)
    <3>1. /\ child'[c].watch = IF again THEN "backoff" ELSE "none"
          /\ child'[c].restarts = IF again THEN child[c].restarts + 1 ELSE child[c].restarts
          /\ child'[c].skill = child[c].skill /\ child'[c].proc = child[c].proc /\ ~Up(c)
      BY <1>0, <2>3 DEF WatchExit, ChildRec
    <3>2. CASE again
      <4>1. child[c].restarts + 1 > 0
        BY <1>0 DEF ChildRec
      <4> QED BY <3>1, <3>2, <4>1 DEF Seen, Up
    <3>3. CASE ~again
      <4>1. ASSUME running, child[c].skill \notin Singleton PROVE ~Tracked(c)'
        <5>1. CASE table[OwnKey(c)] = c
          <6>1. table' = Drop(OwnKey(c)) /\ c # NoChild
            BY <2>3, <3>3, <4>1, <5>1 DEF WatchExit
          <6>2. \A k \in Key : table[k] = c => k = OwnKey(c)
            BY <4>1 DEF Inv, Filed, Home, KeptKey, OwnKey
          <6>3. \A k \in Key : table'[k] # c
            BY <6>1, <6>2, TableParts DEF Drop
          <6> QED BY <6>3 DEF Tracked
        <5>2. CASE table[OwnKey(c)] # c
          BY <1>1, <4>1, <5>2, TrackedAtHome
        <5> QED BY <5>1, <5>2
      <4> QED BY <1>0, <3>1, <3>3, <4>1 DEF Seen, Up
    <3> QED BY <3>2, <3>3
  <2>4. CASE WatchWake(c)
    <3>1. /\ child'[c].watch \in {"create", "none"} /\ child'[c].restarts = child[c].restarts
          /\ child'[c].proc = child[c].proc /\ child[c].watch = "backoff"
      BY <1>0, <2>4 DEF WatchWake, ChildRec
    <3>2. child[c].restarts \in Nat /\ child[c].restarts > 0 /\ ~Up(c)
      BY <1>0, <3>1 DEF Seen, ChildRec
    <3> QED BY <3>1, <3>2 DEF Seen, Up
  <2>5. CASE WatchCreate(c)
    <3>1. child'[c].watch = "spawn" /\ child'[c].proc = "up" /\ child'[c].restarts = child[c].restarts
      BY <1>0, <2>5 DEF WatchCreate, ChildRec
    <3> QED BY <1>0, <2>5, <3>1 DEF Seen, Up, WatchCreate
  <2>6. CASE WatchSpawned(c)
    <3>1. child'[c].watch = "wait"
      BY <1>0, <2>6 DEF WatchSpawned, Watched, ChildRec
    <3> QED BY <3>1 DEF Seen
  <2>7. CASE WatchFail(c)
    <3>1. child'[c].watch = "none" /\ child'[c].proc = "dead" /\ child'[c].restarts = child[c].restarts
      BY <1>0, <2>7 DEF WatchFail, ChildRec
    <3>2. child[c].restarts \in Nat /\ child[c].restarts > 0
      BY <1>0, <2>7 DEF Seen, WatchFail, ChildRec
    <3> QED BY <3>1, <3>2 DEF Seen, Up
  <2> QED BY <2>1, <2>2, <2>3, <2>4, <2>5, <2>6, <2>7 DEF ProcStep, Watcher
<1> QED BY <1>0, <1>1, <1>2, <1>3, OneSeen

LEMMA LaunchWatching ==
    ASSUME Inv, NEW c \in Child, NEW s \in Skill, NEW a \in Agent, NEW l \in Lifecycle,
           LaunchStep(c, s, a, l)
    PROVE  Watching'
<1>1. /\ TableShrinks /\ ~Tracked(c) /\ child'[c].watch = "none"
      /\ \A d \in Child : d # c => child'[d] = child[d]
  BY LaunchKeeps DEF LaunchStep
<1>2. \A d \in Child : Tracked(d)' => Tracked(d)
  BY <1>1 DEF Tracked, TableShrinks
<1>3. running' => running
  BY DEF LaunchStep, running
<1>4. Seen(c)'
  BY <1>1, <1>2 DEF Seen
<1> QED BY <1>1, <1>2, <1>3, <1>4, OneSeen

LEMMA LaunchOkWatching ==
    ASSUME Inv, NEW c \in Child, LaunchOk(c)
    PROVE  Watching'
<1>1. /\ child \in [Child -> ChildRec] /\ child' = [child EXCEPT ![c].watch = "wait"]
      /\ (running' => running)
  BY DEF Inv, Typed, ChildTyped, LaunchOk, Watched, running
<1>2. \A d \in Child : d # c => child'[d] = child[d]
  BY <1>1
<1>3. \A d \in Child : d # c /\ Tracked(d)' => Tracked(d)
  BY LaunchOkKeeps DEF Tracked
<1>4. child'[c].watch = "wait"
  BY <1>1 DEF ChildRec
<1>5. Seen(c)'
  BY <1>4 DEF Seen
<1> QED BY <1>1, <1>2, <1>3, <1>5, OneSeen

-----------------------------------------------------------------------------
(* The invariant. *)

LEMMA InitInv == Init => Inv
<1> SUFFICES ASSUME Init PROVE Inv
  OBVIOUS
<1> DEFINE s == CHOOSE x \in Skill : TRUE
           a == CHOOSE x \in Agent : TRUE
<1>1. s \in Skill /\ a \in Agent
  OBVIOUS
<1>2. \A c \in Child : child[c] = Dies(NewChild(s, a, "resident")) /\ child[c] \in ChildRec
                       /\ child[c].watch = "none" /\ ~Up(c)
  <2>1. NewChild(s, a, "resident") \in ChildRec /\ NewChild(s, a, "resident").watch = "none"
    BY <1>1, NewTyped DEF Lifecycle
  <2>2. Dies(NewChild(s, a, "resident")) \in ChildRec
    BY <2>1, DiesTyped
  <2>3. Dies(NewChild(s, a, "resident")).watch = "none" /\ Dies(NewChild(s, a, "resident")).proc = "dead"
    BY <2>1 DEF Dies, ChildRec
  <2>4. \A c \in Child : child[c] = Dies(NewChild(s, a, "resident"))
    BY DEF Init, Dies
  <2> QED BY <2>2, <2>3, <2>4 DEF Up
<1>3. Typed
  <2>1. ChildTyped
    BY <1>2 DEF Init, ChildTyped
  <2>2. TableTyped /\ IdemTyped
    BY DEF Init, TableTyped, IdemTyped
  <2>3. CallTyped
    BY NoCallGood DEF Init, CallTyped, CallGood
  <2> QED BY <2>1, <2>2, <2>3 DEF Typed
<1>4. /\ \A k \in Key : table[k] = NoChild
      /\ lock = NoChild
  BY DEF Init
<1>5. TrackedSet = {} /\ Residents = {}
  BY <1>4 DEF TrackedSet, Residents, Tracked
<1>6. Filed
  BY <1>4 DEF Filed
<1>7. Free
  BY <1>4, <1>5, FS_EmptySet DEF Free, SlotsHold
<1>8. Watching
  BY <1>2, <1>5 DEF Watching, CrashesAreSeen
<1> QED BY <1>3, <1>6, <1>7, <1>8 DEF Inv

LEMMA LaunchTyped ==
    ASSUME Inv, NEW c \in Child, NEW s \in Skill, NEW a \in Agent, NEW l \in Lifecycle,
           LaunchStep(c, s, a, l)
    PROVE  Typed'
<1>1. ChildTyped' /\ TableShrinks /\ lock' \in Child /\ UNCHANGED <<phase, closing, snap, idem>>
  BY LaunchKeeps DEF LaunchStep
<1>2. TableTyped'
  BY <1>1, TableParts DEF TableTyped, TableShrinks
<1>3. IdemTyped'
  BY <1>1 DEF Inv, Typed, IdemTyped, idem
<1>4. CallTyped'
  <2>1. CASE call' = call
    BY <2>1 DEF Inv, Typed, CallTyped, CallGood
  <2>2. CASE \E r \in Call : CallLaunch(r, c)
    BY <2>2, CallStepCalls DEF CallStep
  <2> QED BY <2>1, <2>2 DEF LaunchStep
<1> QED BY <1>1, <1>2, <1>3, <1>4 DEF Typed

LEMMA LaunchOkTyped ==
    ASSUME Inv, NEW c \in Child, LaunchOk(c)
    PROVE  Typed'
<1>1. ChildTyped'
  BY ChildMild
<1>2. CallTyped'
  BY LauncherCalls DEF Launcher
<1>3. TableTyped'
  BY LaunchOkKeeps, TableParts DEF LaunchOk, TableTyped
<1>4. IdemTyped'
  BY DEF LaunchOk, Inv, Typed, IdemTyped, idem
<1> QED BY <1>1, <1>2, <1>3, <1>4 DEF Typed

LEMMA NextInv == Inv /\ [Next]_vars => Inv'
<1> SUFFICES ASSUME Inv, [Next]_vars PROVE Inv'
  OBVIOUS
<1>1. ASSUME NEW c \in Child, NEW s \in Skill, NEW a \in Agent, NEW l \in Lifecycle, LaunchStep(c, s, a, l)
      PROVE  Inv'
  <2>1. Filed' /\ Free'
    BY <1>1, LaunchKeeps DEF LaunchStep
  <2> QED BY <1>1, <2>1, LaunchTyped, LaunchWatching DEF Inv
<1>2. ASSUME NEW c \in Child, LaunchOk(c) PROVE Inv'
  BY <1>2, LaunchOkTyped, LaunchOkKeeps, LaunchOkWatching DEF Inv
<1>3. ASSUME NEW c \in Child, ProcStep(c) PROVE Inv'
  BY <1>3, ProcStepKeeps, Shrinks, ProcWatching DEF Inv, Typed
<1>4. ASSUME StopStep PROVE Inv'
  BY <1>4, StopStepKeeps, Shrinks, CalmWatching DEF Inv, Typed
<1>5. ASSUME NEW r \in Call, CallGoes(r) PROVE Inv'
  BY <1>5, CallGoesKeeps, Shrinks, CalmWatching DEF Inv, Typed
<1>6. CASE UNCHANGED vars
  <2>1. ChildTyped' /\ NamesKept /\ Calm
    BY <1>6, SameMild DEF vars
  <2>2. TableShrinks /\ lock' = lock /\ (running' => running)
    BY <1>6, TableParts DEF vars, TableShrinks, running
  <2>3. Typed'
    BY <1>6 DEF vars, Inv, Typed, ChildTyped, TableTyped, CallTyped, CallGood, IdemTyped
  <2> QED BY <2>1, <2>2, <2>3, Shrinks, CalmWatching DEF Inv
<1> QED BY <1>1, <1>2, <1>3, <1>4, <1>5, <1>6, NextSteps

LEMMA Always == Spec => []Inv
BY InitInv, NextInv, PTL DEF Spec

-----------------------------------------------------------------------------
(* The theorems. *)

\* Every variable keeps its type: no call waits on a child that is not there, and no
\* restart or retry is counted past its limit.
THEOREM TypesHold == Spec => []TypeOK
<1>1. Inv => TypeOK
  BY DEF Inv, Typed, ChildTyped, TableTyped, CallTyped, IdemTyped, TypeOK, ChildRec, CallRec, WatchPc, CallPc
<1> QED BY <1>1, Always, PTL

\* launch_skill looks at the limits when it begins and takes its slot when it ends:
\* whatever is launched, stopped, restarted or swept away between, the limits hold.
THEOREM LimitsHold == Spec => []SlotsHold
<1>1. Inv => SlotsHold
  BY DEF Inv, Free
<1> QED BY <1>1, Always, PTL

\* _watch_exit: a tracked process that is up is watched, and the first crash of a child
\* is noticed by a watcher that will find it in the table.
THEOREM CrashesNoticed == Spec => []CrashesAreSeen
<1>1. Inv => CrashesAreSeen
  BY DEF Inv, Watching
<1> QED BY <1>1, Always, PTL

\* The entry that leaves the table is the one under the key that is dropped.
LEMMA DroppedIsHome ==
    ASSUME Inv, NEW c \in Child, NEW k \in Key, table' = Drop(k), Tracked(c), ~Tracked(c)'
    PROVE  k = Home(c) /\ table[k] = c
<1>1. table[Home(c)] = c /\ Home(c) \in Key
  BY TrackedAtHome, KeysHome DEF Inv, Typed
<1>2. k = Home(c)
  <2>1. ASSUME k # Home(c) PROVE FALSE
    <3>1. table'[Home(c)] = c
      BY <1>1, <2>1, TableParts DEF Drop
    <3> QED BY <1>1, <3>1 DEF Tracked
  <2> QED BY <2>1
<1> QED BY <1>1, <1>2

LEMMA StaysTracked ==
    ASSUME NEW c \in Child, UNCHANGED table
    PROVE  Tracked(c) => Tracked(c)'
BY DEF Tracked

Removed(c) == Up(c) /\ Tracked(c) /\ ~Tracked(c)'
WhyRemoved(c) == \/ child'[c].stop \/ c \in closing'
                 \/ \E d \in snap \ snap' : OwnKey(d) = OwnKey(c)

LEMMA OwnIsHome ==
    ASSUME Inv, NEW c \in Child, NEW d \in Child, OwnKey(d) = Home(c)
    PROVE  OwnKey(d) = OwnKey(c)
BY DEF Inv, Typed, ChildTyped, ChildRec, OwnKey, Home, KeptKey

LEMMA StopStepRemoves ==
    ASSUME Inv, StopStep, NEW c \in Child, Removed(c)
    PROVE  WhyRemoved(c)
<1>0. ChildTyped /\ c # NoChild
  BY DEF Inv, Typed
<1>1. ASSUME NEW s \in Skill, NEW a \in Agent, AdminStop(s, a) PROVE WhyRemoved(c)
  <2>1. <<s, a>> \in Key
    BY DEF Key
  <2>2. table[<<s, a>>] = c
    BY <1>1, <2>1, DroppedIsHome DEF AdminStop, Removed
  <2> QED BY <1>1, <2>2, StopMild DEF AdminStop, Removed, WhyRemoved
<1>2. ASSUME NEW d \in Child, Unload(d) PROVE WhyRemoved(c)
  <2>1. OwnKey(d) \in Key
    BY <1>0, KeysHome
  <2>2. table[OwnKey(d)] = c
    BY <1>2, <2>1, DroppedIsHome DEF Unload, Removed
  <2>3. d = c
    BY <1>2, <2>2 DEF Unload
  <2> QED BY <1>2, <2>3, StopMild DEF Unload, Removed, WhyRemoved
<1>3. ASSUME NEW d \in Child, MonitorStop(d) PROVE WhyRemoved(c)
  <2>1. OwnKey(d) \in Key
    BY <1>0, KeysHome
  <2>2. OwnKey(d) = Home(c)
    BY <1>3, <2>1, DroppedIsHome DEF MonitorStop, Removed
  <2>3. OwnKey(d) = OwnKey(c)
    BY <2>2, OwnIsHome
  <2>4. d \in snap \ snap'
    BY <1>3 DEF MonitorStop
  <2> QED BY <2>3, <2>4 DEF WhyRemoved
<1>4. CASE ShutdownClear
  BY <1>4 DEF ShutdownClear, TrackedSet, Removed, WhyRemoved
<1>5. ASSUME UNCHANGED table PROVE WhyRemoved(c)
  BY <1>5, StaysTracked DEF Removed
<1> QED BY <1>1, <1>2, <1>3, <1>4, <1>5 DEF StopStep, MonitorPass, ShutdownStop, MonitorList, ShutdownBegin

LEMMA CallGoesRemoves ==
    ASSUME Inv, NEW r \in Call, CallGoes(r), NEW c \in Child, Removed(c)
    PROVE  WhyRemoved(c)
<1>1. CASE CallStop(r)
  <2> DEFINE d == table[OwnKey(call[r].child)]
  <2>1. CASE d = NoChild
    <3>1. UNCHANGED table
      BY <1>1, <2>1 DEF CallStop
    <3> QED BY <3>1, StaysTracked DEF Removed
  <2>2. CASE d # NoChild
    <3>1. call[r].child \in Child /\ OwnKey(call[r].child) \in Key
      BY <1>1, KeysHome DEF Inv, Typed, CallTyped, CallGood, Busy, CallStop
    <3>2. table' = Drop(OwnKey(call[r].child)) /\ child' = Stopping(child, d)
      BY <1>1, <2>2 DEF CallStop
    <3>3. d = c
      BY <3>1, <3>2, DroppedIsHome DEF Removed
    <3> HIDE DEF d
    <3> QED BY <3>2, <3>3, StopMild DEF Removed, WhyRemoved
  <2> QED BY <2>1, <2>2
<1>2. CASE UNCHANGED table
  BY <1>2, StaysTracked DEF Removed
<1> QED BY <1>1, <1>2 DEF CallGoes, CallFound, CallMissing, CallRefused, CallReady, CallOk, CallError,
        CallLost, CallTimeout, CallTimeoutStop, CallStopped, CallArrive

LEMMA OthersRemove ==
    ASSUME Inv, NEW d \in Child, NEW c \in Child, Removed(c),
           \/ \E s \in Skill, a \in Agent, l \in Lifecycle : LaunchStep(d, s, a, l)
           \/ LaunchOk(d) \/ ProcStep(d)
    PROVE  FALSE
<1>0. ChildTyped /\ c # NoChild
  BY DEF Inv, Typed
<1>1. ASSUME NEW s \in Skill, NEW a \in Agent, NEW l \in Lifecycle, LaunchStep(d, s, a, l) PROVE FALSE
  <2>1. /\ table' = Drop(KeptKey(s, a)) /\ KeptKey(s, a) \in Key
        /\ table[KeptKey(s, a)] # NoChild => ~Up(table[KeptKey(s, a)])
    BY <1>1, LaunchKeeps DEF LaunchStep, KeptKey, Key
  <2>2. table[KeptKey(s, a)] = c
    BY <2>1, DroppedIsHome DEF Removed
  <2> QED BY <1>0, <2>1, <2>2 DEF Removed
<1>2. CASE LaunchOk(d)
  BY <1>0, <1>2, LaunchOkKeeps DEF Removed, Tracked
<1>3. CASE LaunchFail(d)
  <2>1. table' = Drop(Home(d)) /\ Home(d) \in Key /\ table[Home(d)] = NoChild
    BY <1>0, <1>3, KeysHome DEF LaunchFail, Home, Inv, Filed
  <2>2. table[Home(d)] = c
    BY <2>1, DroppedIsHome DEF Removed
  <2> QED BY <1>0, <2>1, <2>2
<1>4. CASE WatchExit(d)
  <2>1. CASE UNCHANGED table
    BY <2>1, StaysTracked DEF Removed
  <2>2. CASE table' = Drop(OwnKey(d)) /\ table[OwnKey(d)] = d
    <3>1. d = c
      BY <1>0, <2>2, KeysHome, DroppedIsHome DEF Removed
    <3> QED BY <1>4, <3>1 DEF WatchExit, Removed
  <2> QED BY <1>4, <2>1, <2>2 DEF WatchExit
<1>5. CASE UNCHANGED table
  BY <1>5, StaysTracked DEF Removed
<1> QED BY <1>1, <1>2, <1>3, <1>4, <1>5
        DEF ProcStep, ProcExit, Watcher, WatchWake, WatchCreate, WatchSpawned, WatchFail, StopEnd

\* A process that is up leaves the table only to be stopped: launches replace dead
\* entries alone, watchers drop dead children alone, and whoever drops an entry stops
\* the child it held.
THEOREM RemovalsStop == Spec => RemovedIsStopped
<1>1. ASSUME Inv, [Next]_vars, NEW c \in Child, Removed(c) PROVE WhyRemoved(c)
  <2>1. CASE UNCHANGED vars
    BY <1>1, <2>1, StaysTracked DEF vars, Removed
  <2>2. CASE Next
    BY <1>1, <2>2, NextSteps, StopStepRemoves, CallGoesRemoves, OthersRemove
  <2> QED BY <1>1, <2>1, <2>2
<1>2. Inv /\ [Next]_vars =>
         [\A c \in Child :
             Up(c) /\ Tracked(c) /\ ~Tracked(c)' =>
                \/ child'[c].stop \/ c \in closing'
                \/ \E d \in snap \ snap' : OwnKey(d) = OwnKey(c)]_vars
  BY <1>1 DEF Removed, WhyRemoved
<1> QED BY <1>2, Always, PTL DEF Spec, RemovedIsStopped
=============================================================================
