# A verification of the qingtian agent platform

qingtian is one FastAPI process (`qingtian/main.py`) that hosts a dozen modules for companies of AI
agents: a task engine, accounts, messaging between agents and between companies, supervised skill
processes, approvals, memory. Each module has a schema of one PostgreSQL database, an HTTP router and
background loops (`asyncio` tasks). There are few threads: what makes the code hard is that every
`await` lets the others run, that a statement outside `conn.transaction()` commits at once, and that
the process may stop between any two statements.

This directory holds TLA+ models of the parts whose mistakes cost most: the task engine **zhice**, the
accounts **siku**, the skill processes of **xihe**, the delivery of **huanyu**'s messages between bases,
and the audit chain of **zhenyue**; the TLC runs over them, and the proofs of their main properties.

## 1. Inventory

| Part | State | Operations | What is hard | Correct when |
|---|---|---|---|---|
| zhice engine: `status_machine.py`, `api.py`, `runner.py`, `dispatcher.py` | a row per task, a row per step: status, assigned agent, retries left, idempotency key, confirmation | create, next, assign, start, submit, reject, confirm, reverify, pause, resume, cancel; the ending of a task | calls of several agents and the creator interleave between statements; only some UPDATEs are guarded; two locks taken in opposite orders | one agent at a time holds a step and only it completes it; finished steps and tasks stay finished; dependencies hold; the retry budget holds; a task ends |
| zhice watchdog: `timeout_checker.py` | rows read by five SELECTs | time steps out, requeue, reclaim, time the task out | acts on rows it read earlier | it never takes work from an agent that is in time; an overdue task ends |
| zhice review: `multisig.py`, `checker.py` | a row per verification | claim, submit, count the votes | two reviewers finish at the same time | the votes decide, once |
| zhice reputation, policies, extraction, daemon | verifications; rules; none | grade an agent; CRUD; calls to an LLM; a client of the API | little shared state | - |
| siku accounts: `account_service.py`, `database.py` | balance, transactions with a hash chain, a unique key | recharge, deduct, verify_chain | lost updates, retries, one key for all agents | books balance, nothing is posted twice, no overdraft |
| siku finance agent: `finance_agent.py`, the IM decisions in `api.py` | status of a notice, order for a human | poll the inbox, believe or queue a notice, approve, reject | redelivery, a stop between credit and mark_read, poll and humans at once | a payment is credited at most once and never forgotten |
| siku annual fee: `api.py`, `annual_cron.py` | expiry and flag of an account | pay, expire | pays twice at once, cron against pay | validity is extended only for money |
| audit chains: zhenyue `audit_service.py`, siku `audit.py` | a chain of hashes each | append, verify, the daily cleanup (zhenyue) | chain forks; cleanup against writers; failure inside the caller's transaction | the chain verifies, and its failure hurts nobody |
| huanyu messaging: `messaging.py`, `cron.py`, `hub_client.py` | messages with delivery status, rounds of retry, sequence numbers per company, a window of received ones | send, forward, acknowledge, retry, mark read | loss, duplication, late results, a stop during a send | delivered once, in the end, and not marked failed afterwards |
| huanyu negotiation: `negotiation.py` | a negotiation replicated on two bases, agreements, orders | offer, counter, accept, expire, record | old messages, both sides act at once | both bases agree; at most one agreement; limits hold |
| huanyu agent processes: `agent_runtime.py` | process table and rows | start, stop; its monitor loop is never started | - | - |
| xihe skill runtime: `agent_runtime.py`, and the execute call of `osskill/execute_api.py` | table of child processes, pending requests, marks of messages | launch, execute, stop, unload, restart, idle stop, resource stop, shutdown | a lock released around slow work; timers; exit watchers | every process has one entry, every entry one process; nothing is stopped while it works |
| common bus: `bus.py` | state of each agent, buffers, queues for agents that are away | register, pause, publish, flush, daily read | state read before an await; full queues | a paused agent stays paused; no event is lost silently |
| zhenyue approvals: `approval_service.py` | a request with status, level, time of execution | decide, cancel, escalate, expire, execute | all of these at once, unguarded UPDATEs | executed at most once, only if approved, never if cancelled |
| zhenyue quarantine: `quarantine.py` | a record and a file | quarantine, restore, purge | record and file move in separate steps | a record names a file that is there |
| the others: yongheng, xixing, huichuan, osskill, product, gateway, builtin, SDK | caches, files, CRUD rows | storage, search, LLM jobs, installation | mostly I/O | - |

They interact through the database and through calls inside the process. The interaction that is
modelled here is siku with huanyu (a payment notice is a huanyu message, sent by `send_message`, read
by siku's poll and put aside by `mark_read`; agents and their companies are rows of huanyu's directory),
osskill with xihe (an execute call finds or launches a child process, and retries), and one base with
another, directly or through the Hub.
zhice's agents are clients of its HTTP calls; its watchdog shares the tables with them.

Every part is a component of `PROJECT.json`, with its status. What can go wrong, at its line, is in its
list of hazards, also for the parts that are not modelled yet.

## 2. The modules

| Module | Models |
|---|---|
| `ZhiceSteps` | the columns of a step, and each operation of `status_machine.py` as a guard on a row (`Can...`) and the row it leaves |
| `ZhiceEngine` | a task with its steps, the calls in flight, the watchdog; one action per statement; the properties |
| `ZhiceBudget` | the engine with a history variable: how often each step was begun |
| `ZhiceClaims` | what comments and documents say and the engine may not do |
| `MCZhiceEngine`, `MCZhiceBudget` | small values for TLC |
| `ZhiceTypeProofs`, `ZhiceSafetyProofs`, `ZhiceLifecycleProofs` | theorems about the rows' types; the outcome of a task, the owner of a step; the life of a step |
| `SikuLedger` | accounts, transactions, the row lock, the posting of `recharge` and `deduct` |
| `SikuFinance` | its callers: HTTP calls, poll, a human's decisions, annual fee, cron |
| `Payments`, `Bank`, `TaskLifecycle`, `Mailbox`, `AuditLog` | the abstract specifications: a payment somebody gives notice of, the accounts, a task and its steps, a message to another base, an audit log (section 5) |
| `SikuClaims` | what siku's comments say, stated as properties |
| `MCSikuFinance` | small values for TLC |
| `XiheRuntime` | child processes, their table, their watchers and everything that stops them; the execute calls above |
| `AuditChain` | a table of records chained by hashes, its writers and its cleanup; for zhenyue and for siku |
| `HuanyuDelivery` | a message on its way from base A to base B: both routes, the retry job, the receiver, crashes |
| `MCXiheRuntime`, `MCAuditChain`, `MCHuanyuDelivery` | small values for TLC |
| `SikuProofs`, `SikuRefinement`, `HuanyuProofs`, `XiheProofs`, `AuditProofs` | theorems |

### Statements, transactions and locks

A handler is cut where another one can run and see the difference: after each SQL statement outside a
transaction. The local variables that survive the cut are the fields of `req[r]` (zhice) and `call[p]`
(siku), with `pc` naming the next statement. A read that is followed by a guarded UPDATE with the same
guard (`Start`, `Reset`) is one action, because the UPDATE alone decides.

A transaction is a first action, after which the row is `Locked` (`Held`, `TaskLocked`) and others
still see the old one, actions that read under READ COMMITTED, and a commit that writes. `View(r)` is
what a transaction sees: everybody's committed rows and its own. A statement that needs a locked row
is not enabled until the lock is released. A cancel holds the task and wants the steps, a submit that
ends the task holds its step and wants the task: `DeadlockAbort` is PostgreSQL choosing either.

`Crash` loses all calls and scans and keeps the rows. `WdError` is a scan that an exception ends.

### zhice: state and actions

`task` is `tasks.status`; `steps[s]` keeps `status`, `assigned_agent`, `auto_retry`,
`idempotency_key` and `user_confirmed` of a step; `wd` is the scan under way.

| Action | Code |
|---|---|
| `NextRead`, `NextClaim` | `get_next_step`: the task's status is read, then one UPDATE takes the first claimable step, SKIP LOCKED |
| `Assign`, `Start` | `dispatcher.py` assign, the start of a step |
| `SubmitRead` | the read, the caller's identity and the key of a submit |
| `SubmitFailed`, `FailedKey`, `FailedRetry` | the agent reports failure |
| `SubmitBadSignature` | check results whose signature is wrong |
| `SubmitSchema`, `SchemaRetry`, `SchemaRefund`, `StoreKey` | only the schema is wrong: the retry is given back |
| `SubmitRejected`, `CheckRetry`, `CheckFail`, `StoreKey` | a check fails |
| `SubmitPassed`, `TryCount`, `TrySteps`, `TxCommit` | all is well: one transaction, which may end the task |
| `TryCount`, `TrySteps`, `TryFinish` | the same ending outside of a transaction, after a failure |
| `Reset`, `ConfirmRead/Write`, `ReverifyRead/Write`, `Pause`, `Resume`, `CancelBegin/Commit` | the creator |
| `WdScan`, `WdTimeout`, `WdRequeue` | scans 1 to 3 |
| `WdScanUnclaimed`, `WdReclaim` | scan 4 |
| `WdScanTask`, `WdExpire`, `WdExpireRead`, `WdExpireStep` | scan 5 |

What a check of the outputs says is abstracted to a `Verdict`, the acceptance of a whole task to a
Boolean. Time is abstracted: whatever may be late may be found late.

### siku: state and actions

`balance`, `txns` (in order of `txn_id`; `prev` stands for the hash of the row before), `inbox` (status
of a notice's message), `orders` and `payee` (`pending_recharges`), `todo` (the batch of the poll),
`expires`, `expired`, `active` (annual fee and agent status), `due` (rows of the cron), `year`.

| Action | Code |
|---|---|
| `RechargeCall`, `DeductCall` | the two HTTP calls |
| `BeginPosting` | SELECT ... FOR UPDATE in `recharge`, `deduct` |
| `Commit` | the rest of a posting: known key, cover, unique index, audit record, commit |
| `Send` | `send_message` of huanyu |
| `PollFetch`, `PollTake`, `PollRead` | `process_inbox`, a notice, `mark_read`; `PollSkip`, `PollQueue` and `PollBelieve` are the outcomes of `_process_incoming` |
| `Approve`, `Reject`, `Decide` | a human decides in an IM channel |
| `PayRead`, `CommitPay` | `annual_pay` |
| `CronSelect`, `CronMark`, `NewYear` | `annual_cron.py` and its clock |

A key is a tuple with the prefix the code puts before it; amounts are 1 and -1, since only the
comparison with the balance matters; a year stands for a date. `Escaped` are the notices whose voucher
number JSON has to escape: the trigger of `finance_audit` rejects their audit record.

### xihe: state and actions

The runtime is one event loop, so an action is the code between two awaits. `child[c]` is a
`ChildProcess`: skill, agent, lifecycle, whether its process is up, how far its watcher is, restarts,
idle mark, whether a stop of it is under way. `table` is `_children`; `lock` is `_lock`, which only a
launch holds over an await. `call[r]` is an execute call, `inflight`, `done` and `failed` are the marks
of its message.

| Action | Code |
|---|---|
| `AdminLaunch`, `CallLaunch`; `LaunchOk`, `LaunchFail` | `launch_skill` under the lock up to `_spawn`, and its end |
| `ProcExit`; `WatchExit`, `WatchWake`, `WatchCreate`, `WatchSpawned`, `WatchFail` | a process exits; `_watch_exit`: the entry, the back-off, the check after it, the restart |
| `AdminStop`, `StopEnd` | `stop_skill` (HTTP and licence sweep), the end of `_stop_child` |
| `Unload` | `_unload_one` of the idle timer and of the idle scan |
| `MonitorList`, `MonitorPass`, `MonitorStop` | `_monitor_resources`, one child after the other |
| `ShutdownBegin`, `ShutdownClear`, `ShutdownStop` | `shutdown` |
| `CallArrive` | `api_execute_skill` up to its licence check: the marks |
| `CallFound`, `CallMissing`, `CallRefused`, `CallReady` | `get_handle`, or a launch and the first ping |
| `CallOk`, `CallError`, `CallLost`, `CallTimeout`, `CallTimeoutStop`, `CallStop`, `CallStopped` | how `SkillHandle.execute` may end, and the retry |

A sleep or a timeout may end at any moment. A singleton is filed under the agent `Shared` and looked for
under its own, as in the code. `StopEnd` comes with or without the grace of `on_unload`: the idle timer
cancels itself in `_stop_child`, and so kills the process it meant to ask.

### Audit chains: state and actions

`rows` are the committed records; a hash is the sequence of all that went into it. `w[r]` is a writer's
transaction (`WriteStamp`, `WriteBegin` with the advisory lock, `WriteRead`, `WriteInsert`, `WriteCommit`,
`WriteAbort`), `clean` the cleanup's (`CleanCut` outside of it, `CleanDelete`, `CleanSelect`, one
`CleanRehash` per UPDATE of the loop, `CleanCommit`, `CleanAbort`), each statement seeing what is
committed when it begins. What the loop writes is seen by nobody before the commit: `clean.new`. With
`Locked` and `Cleaning` FALSE the module is siku's chain.

`now` is the clock. A writer takes the time (`at`) before it looks keys up and waits for the lock
(`audit_service.py:72`, `:84`), and the record gets it as its `created_at` (`made`) with an id drawn later: the
times of the records need not be in the order of their ids. `Age` moves the `horizon`, the newest time that is
past the retention period; `Old` are the ids of what is then expired. `CleanCut` takes the highest id among
those, and `CleanDelete` everything up to it, younger records with lower ids included, as the code does.

### Delivery: state and actions

`dir[m]` is what A's directory, its own or the Hub's, may come to say of the addressee of `m`: of another company
(`org`), with a `server_host` that leads to a base (`routed`), or both, as the registry that is pulled every five
minutes makes it (`peers.py:316-336`, `cron.py:131`); a look-up may always find less. `row[m]` is
`delivery_status` at A, `older` the order of `created_at` among the rows, `task[t]` a coroutine of `send_message` and what it starts, `cron`
the retry job, `rounds` its counts; `posts` and `answers` are HTTP requests and answers, `outbox` the
envelopes the Hub has and pushes as often as it likes, `hubAcks` and `endAcks` frames to A; `inbox`,
`seen`, `got` and `lastc` are B's rows, nonces, received numbers and the end of its window, `hand[h]` an
envelope being handled.

| Action | Code |
|---|---|
| `SendAsk`, `SendInsert`, `SendLocal` | `send_message`: is the key known, INSERT ... ON CONFLICT DO NOTHING; where neither a company nor a `server_host` is found, the Hub's answer failing to come included, the row is `local` and nobody sends it on. `Ways` are what the coroutine may begin with |
| `Forward`, `ForwardAnswered`, `ForwardFails`, `Mark` | `_async_forward`, `mark_delivery_status` |
| `OrgPending`, `OrgNoKey`, `OrgNotSent`, `OrgSend`, `OrgSent`, `OrgHubAcked`, `OrgTimeout`, `HubAck`, `EndAck` | `_send_cross_org`, its two waits and the frames that end them |
| `CronFetch`, `CronTake`, `CronNoTarget`, `CronPost`, `CronAnswered`, `CronFails`, `CronMark` | `_retry_pending_deliveries_job` with its batch of the `Oldest` waiting rows, `Limit` of them, and `retry_delivery` |
| `Receive` | `/peers/route` at B: `receive_peer_message` |
| `Push`, `PushInsert`, `PushFails`, `PushCount`, `PushWindow`, `PushAck` | `handle_hub_envelope` at B, with `_record_received_seq` |
| `CrashA`, `CrashB` | a stop: what is in memory is lost, rows and Redis are not |

A frame or request that is lost is one that is never handled. The SELECT and INSERT of
`insert_incoming_peer_message` are one action, since the unique index alone decides. The job passes over
messages at their limit of rounds and goes on to the next message, or ends, without an await, so these are part of
the action before (`Tried`, `Goes`). A frame that `send_json` gives up after its timeout may have left
(`OrgNotSent`). `Receive` may refuse a request, for the clocks, the key of `peer_sig` or a false alarm of the
filter of nonces, and answers 200 all the same. The run of numbers that `PushCount` finds may end early
(`EndOfRun`), as it does after 512 numbers or when Redis fails; `PushCount` is one action over three Redis
calls, the last of which only looks for numbers that never go away.

## 3. The runs

| Run | Instance | Shows |
|---|---|---|
| `engine_watchdog` | 2 steps, the second after the first and to be confirmed, 1 retry for the first; 2 agents, 1 key, 2 calls in flight; scans 1 to 3 and 5, confirm, pause, cancel, crash | types, `OwnerKnown`, `DependenciesHold`, `CompletedTaskIsDone`, `RetryNotOverdrawn`, `ExecutionsWithinBudget`, `DoneStepsStay`, `ImplementsLifecycle` (412,617 states) |
| `engine_all` | 1 step with every caller and action of the model | `OutcomeFinal`, `OnlyOwnerCompletes` (1,777,547) |
| `engine_liveness` | 1 step that is to be confirmed, 1 agent, 2 calls, bad signatures, confirm, cancel and watchdog, fair | `OverdueTaskEnds`, `CallsReturn`, `ScansEnd` (42,837) |
| `siku_payments` | 2 accounts, 2 notices, one payable to either account and one to none, 2 calls, the poll, all bank modes, deducts, rejects, crash | `TypeOK`, `ChainVerifies`, `ImplementsPayments`, `ImplementsBank` (78,165) |
| `siku_annual` | 1 account, 3 years, 2 calls with and without a request_id, recharges, cron, crash | `ExtensionIsPaid`, `ImplementsBank` (32,908) |
| `xihe` | 2 skills of 1 agent, one a singleton, 2 child objects, 1 call of up to 2 tries, 1 process and 1 resident slot, 1 restart; operator, crashes, monitor, shutdown, marks that expire | `TypeOK`, `SlotsHold`, `CrashesAreSeen`, `RemovedIsStopped`, `CallReturns` (535,289) |
| `audit` | 2 writers, 5 ids, 6 readings of the clock, the cleanup | `TypeOK`, `NoFork`, `OneBreak`, `CleanupHeals`, `ImplementsLog` (2,221,202) |
| `delivery` | 1 message by any route, both at once included, 2 coroutines at A, 2 handlers at B, the retry job, 1 crash of either base | `TypeOK`, `AtMostOnce`, `DeliveredIsReceived`, `WindowIsReceived`, `ImplementsMailbox` (2,232,619) |
| `delivery_retry` | 3 messages by POST, a batch of 1, 1 coroutine, 2 rounds, 1 crash, fair | `KeptOnTrying` (199,301) |
| `claim_reclaim`, `claim_unpaid`, `claim_orphan` | one or two steps, notices or children | counterexamples, section 6 |

Bounds. Two calls in flight are enough for every race of the code, since each is between two statements
of two handlers, or of a handler and the watchdog, which is a process of its own. Two steps are what a
dependency needs, and two agents a change of hands. One retry lets a step be retried once by either of
the two that compete for it. Two keys tell a repeated submit from a new one. In siku two notices are
needed for the order in the batch; three years for a payment, an expiry and a second payment. `Limit`
is 2 where the code has 50. In xihe two child objects are needed for one to replace another, and one slot
for the limit to be reached. Five ids let the cleanup run between and beside the records of two writers,
twice, and six readings of the clock let a writer give up after its own. In delivery two coroutines are the same
message sent twice, and two handlers count at once; `Limit` of the retry's batch is 1 where the code has 100, so
that two of three messages can be crowded out.
`MaxId`, `MaxTime`, `MaxYear`, `MaxCrash`, `MaxRounds`, `MaxAttempts` and `MaxRestarts` are the named bounds; the last
three are constants of the code. Nothing else is bounded: no cfg has a CONSTRAINT, and every passing run explores its whole state space.
Symmetry is used among agents, keys, calls, writers, coroutines and handlers, which occur nowhere by name in those instances, and not
in the runs with liveness.

Deadlock is not checked: a task that has ended has nothing left to do, and clients may stop calling.

Preconditions of the runs. `RetryNotOverdrawn`, `ExecutionsWithinBudget`, `DoneStepsStay`,
`DependenciesHold` and `ImplementsLifecycle` are checked without the creator's reset and reverification and without scan 4, and
`engine_watchdog` without schema failures: a reset gives new retries on purpose, a reverification
reopens a finished step on purpose, and scan 4 and the refund of a schema failure, together with the
watchdog's unguarded requeue, do overdraw the budget; `OwnerKnown` does not survive a reverification
that races the watchdog either. The hazards name these lines. `engine_all`, which has them all, checks what holds
nevertheless. `CompletedTaskIsDone` needs one thing more: a step with a retry has another that depends on
it, as step 1 of `engine_watchdog` has. A last step with a retry may be revived between the two SELECTs of
`try_complete_task`, and the task is completed over it; that is `CompletionOverTerminalSteps` of
`ZhiceClaims` (`runner.py:1971`).

`delivery` has every entry of the directory. Where an agent of another company has a `server_host` as well, the
retry job POSTs a message that went by the Hub, and B stores it under the message's own key beside
`msg:<id>`: `AtMostOnce` and `Mailbox` allow this second copy, and no third, and `ExactlyOnce` (section 6) is
what a comment says of it. The run assumes `NoRefusal`: B refuses a request whose nonce is more than 5 s ahead of
its clock, whose `peer_sig` is by another key, or whose nonce the filter takes for a known one, and
`api_federation.py:60-70` answers 200, so that A calls it delivered. `KeptOnTrying` excepts a message while it is
`Crowded`: as many older rows wait as a batch holds, failed ones among them, until they are deleted seven days
later (`cron.py:79-84`), which is not modelled. `AllTried` is the same without the exception. `ImplementsLog` says
that the log is cut up to an expired record and not that all it loses is expired; that would be `OnlyExpired`.
`xihe` excepts singletons from
`CrashesAreSeen` and the monitor from `RemovedIsStopped`: the hazards at `agent_runtime.py:467` and
`:1392` are those exceptions.

### Fairness

zhice (`Fairness` in `ZhiceEngine`): strong fairness for the next statement of each call and of the scan.
asyncio's ready queue is first in, first out, and PostgreSQL grants a row lock in the order of the
requests, so a statement that is enabled again and again is executed. The step of a scan to its fifth SELECT is
strongly fair as every round of `_scan` reaches it. Nothing is assumed of agents and creators: they may stop
calling for ever. A crash is excluded from the liveness
run, for a process that stops again and again ends no call.

xihe (`FairSpec`): a launch ends, as each of its waits has a timeout; a stop ends, since `_stop_child`
kills after 5 s; and a step of a call that is enabled again and again is taken, as `asyncio.Lock` is
first come, first served. Nothing is assumed of operators, processes, watchers or scans.

Delivery (`FairSpec`): coroutines go on, and the job runs every half hour. Nothing is assumed of the
network, the Hub or B: a request ends by its timeout.

## 4. Proofs

Every theorem holds for any number of what its module counts: agents, steps, calls and keys with any
dependencies and any choice of optional callers (`Ops`); accounts, notices and years; messages,
coroutines and handlers; skills, children and execute calls; writers and records. 8898 obligations,
checked by TLAPS with Z3, Zenon and LS4.

| Theorem | Says | Argument |
|---|---|---|
| `TypeInvariant`, `TypeCorrect` | the rows are well-typed, and every call that is about to address a row still names one | `TypeInv`: `TypeOK` with "a call at a statement on a step has a step, an agent, a key"; `TypeOK` alone is not inductive, for the registers decide what is written |
| `CancelExclusive`, `OutcomeIsFinal` | an outcome of a task is never overwritten | `CancelInv`: at most one cancel holds the task row, and while it does the task is not terminal. Every other UPDATE is guarded by `running` or `paused`; the cancel's commit is not, and needs this |
| `TransactionHolds`, `OwnerCompletes` | a step is completed only by the agent the row names at the commit | `TxInv`: while a passing submit is in its transaction its step is in_progress, names that agent, and no other is in a transaction on it; any action that writes the row needs it unlocked |
| `DoneStepsKept` | a done step stays done | `TurnInv`: of the calls that are about to retry a step and the watchdog that is about to requeue it, at most one may still do so, and the step is failed or rejected (timed out, for the watchdog) with a retry left. From it `Passes`: a row is left alone, or moves on, or is claimed, or is revived from a state that is not done |
| `DependenciesMet` | dependencies hold at every moment | `MetInv`: a step that has ever left pending has its dependencies done, revived or not, and done steps stay |
| `OwnersKnown` | a step an agent works on names it | `AllNamed`: every step that is not pending, skipped or cancelled names an agent, a failed, rejected or late one too, which a retry may set running. Only the unguarded UPDATE of `reverify` breaks it: it sets a step running that scan 4 has taken from its agent meanwhile |
| `RetriesPaid`, `ExecutionsBounded` | the retries are never overdrawn, and a step runs at most once more than it has | `PaidInv`: executions begun, retries left and an execution `Owed` (the step waits for one) are together at most the budget |
| `CompletedOverDone` | a completed task has only done steps | `EndInv`: a call that has counted every step terminal, or seen none put aside, still sees them so. A step with a retry is never terminal in the end while another waits for it, so nothing is revived after the count |
| `LifecycleRefined` | the engine implements `TaskLifecycle` | each case of `Passes` is an action of the step; `TxInv` for a completion; `EndInv` for the task that is completed; `CancelInv` for the outcome |
| `BooksHold`, `AccountsTyped`, `ChainHolds` | no balance is negative, the chain verifies, the account holds what its last transaction left | `Books`: types, "whoever holds an account row has read its present balance and is the only one who does", "an agent with transactions has a last one", `ChainVerifies` |
| `ExtensionsArePaid` | validity is extended only with a fee | from `Books` |
| `BankRefined` | the accounts implement `Bank` | `Books`: what a posting read under the row lock is still the balance when it writes, and the index refuses a key that is there |
| `PaymentsRefined` | `SikuFinance` implements `Payments` | `Inv`: `Books`, keys are unique, a call for a notice carries its key and account, what the poll has fetched is unread |
| `StoredOnce`, `DeliveredHolds`, `WindowHolds` | a message is stored once, or once for each of two ways; what is marked delivered has been received; the window passes no number that has not | `Typed`, `Routes` (which way a message goes, and which of two keys a row at B has), `Sealed` (a number belongs to one envelope), `Counted` (a number is counted after its message is stored), `Answered` (a request is the present one of whoever waits for it) |
| `DeliveryTyped` | every variable of the two bases keeps its type | `Bounded`: the numbers taken and the pairs of coroutine and message that may still take one (`Left`) are together at most all such pairs; `Begun`: whatever is under way, in a coroutine, a request, the Hub or the retry job, has a row at A |
| `MailboxRefined` | the two bases implement `Mailbox`, whatever the directory says | the invariants of `StoredOnce` and `DeliveredHolds`, and `Begun` |
| `TypesHold`, `LimitsHold`, `CrashesNoticed`, `RemovalsStop` | types; the limits on processes; a crash is noticed; a running process leaves the table only to be stopped | `Filed` (a child is filed under its own key only, and the key of the one being launched is free), `Free` (the slot a launch has checked stays free), `Watching` (a watcher past its first wait has counted a restart, and its process is down) |
| `AuditTyped`, `ChainNeverForks` | ids are unique, the lock is exact; the chain never forks | `InOrder` (with the lock, commits come in the order of ids), `CleanInv` (what a cleanup has not seen has a higher id than all it has), `FollowInv` (no record lies between a record and the id its hash was chained to) |
| `LogRefined` | the table implements `AuditLog`, whatever times the records have | `InOrder`, and `CutInv`: a cleanup holds a cut only at a record that has expired |
| `BreaksOnce`, `CleanupsHeal` | one break at most; a cleanup heals what it selected | `BreakInv`: all records but one are linked to the one before; of those the cleanup has not seen, that one is the first; a writer whose hash is stale has found neither |

Assumptions. The named ASSUMEs of the modules: sentinels are not elements, dependencies point backwards,
retries are natural numbers, and so on; TLC evaluates them in every run. That a client never chooses a
notice's key is in the model: `ClientKey` and `NoticeKey` are disjoint, as the code's prefix
`finance_agent:` keeps them, unless a client writes it. `PaymentsRefined` assumes `NoEscapes`, no notice in `Escaped`:
without it the refinement is false, which is the finding of `claim_unpaid`. The theorems of
`ZhiceLifecycleProofs` assume `Ordinary`: no reset, reverification or scan 4, and no refund for a wrong
schema, which each break one of them (section 3). `DependenciesMet`, `CompletedOverDone` and `LifecycleRefined`
also assume `HandedOut`, no manual assignment, which looks at the status of a step and not at its
dependencies (`dispatcher.py:216`), and the last two `Followed`, that each step with a retry has another that
depends on it. `OwnersKnown` assumes only `Unverified`, no reverification. `DeliveredHolds` and `MailboxRefined` assume `NoRefusal`, as
`delivery` does; `DeliveryTyped` that messages and coroutines are finitely many. `StoredOnce` and `BankRefined` assume nothing. Those of `AuditProofs` assume `Locked`, which
is zhenyue's chain; siku's, without the lock, forks. `XiheProofs` needs finitely many child objects.

Only model-checked: the liveness properties (`OverdueTaskEnds`, `CallsReturn`, `ScansEnd`, `CallReturns`,
`KeptOnTrying`), as liveness and ENABLED are beyond the prover.

## 5. The abstract specifications

Each is an INSTANCE in the module that implements it, a property of a run, and a theorem.

`Payments` has three variables, whether a notice has come in, the decision on it and the transactions
that credit it. It promises that a notice is credited at most once, that it is put aside only when it is credited or
waits for a human, and that it is approved only when credited. The mapping is the identity on `inbox`
and `orders`, and `credits[n]` is the set of the transactions with the notice's key. That set is what
the two lookups of the code disagree on: `recharge` looks a key up for the agent, the index for all.

`Bank` has the money of each account and the set of bookings. It books in one step what `SikuLedger` does
in two, a SELECT ... FOR UPDATE and the rest of the transaction; a key books once. The mapping takes the
balances as they are and forgets the order and the hashes of the transactions.

`TaskLifecycle` knows of a step whether it is pending, assigned, in progress, missed or closed, with whom it
is, and how often it may be tried again; calls, scans, keys, confirmations and pauses are gone. Failed,
rejected and timed out are all "missed": `Stage` maps them so. One transaction may move several steps, as the
end of a task does, so `Next` lets each step move or stay. A row whose step has been given up or closed keeps
its old agent in the code; `HolderOf` maps it to nobody.

`Mailbox` is a message with the sender's record and what the addressee has of it. Numbers, nonces, requests,
frames, the Hub and the retry job are gone. It allows one thing a reader may not expect, `Doubt`: a
coroutine that gives up late writes its verdict over "delivered" (`mark_delivery_status`, `messaging.py:858`, has no guard), after which the message
is tried again, and still stored once. And it knows messages whose addressee can be reached in two ways
(`double`, mapped to `Org \cap Routed`): two copies of these, and never a third.

`AuditLog` is a set of ids that grows at its end and is cut at its beginning, up to an id that has `expired`. The
hashes, the times and the horizon are gone; what is left is what a reader with a cursor relies on, and what fails for siku's chain, whose writers commit in any order.

## 6. Where code and comments disagree

| Run | What happens |
|---|---|
| `claim_reclaim` | scan 4 selects an assigned step; the agent starts it; the UPDATE of scan 4, guarded by nothing, sets it pending. `status_machine.py:3-5` says that every change is guarded so that only one of watchdog and agent can win |
| `claim_unpaid` | the audit record of an approved order fails on a backslash; the recharge is rolled back, the order approved. `api.py:96` says that a failed audit write does not matter |
| `claim_orphan` | a skill crashes; after its back-off the watcher checks under the lock that the entry is still its own and starts the process outside of it; a stop in between removes the entry and finds a dead process. The new process runs on and no entry names it. `agent_runtime.py:1104-1106` says that the check prevents exactly that |

More such sentences are stated beside the models, with the line they come from. No run checks them, so
they are a reviewer's list and no result:

- `ZhiceClaims`: `LateFailureOnlyAfterReject`, `AllTerminalEndsTask`, `CancelledTaskHasNoOpenStep`,
  `ExpiryClosesEveryStep`, `ResetCanRun`, `TaskFailsOverExhaustedStep`, `CompletionOverTerminalSteps`,
  `ConfirmedBeforeRun`, `ExhaustedStepIsTerminal`, `KeyAppliedOnce`;
- `SikuClaims`: `KeylessOncePerYear`, `NoticeHandled`, `RejectedNotCredited`;
- `XiheRuntime`: `OneExecution` (two calls with one message pass the marks before either has set its
  own), `InUseIsNotIdle` (one call's end starts the idle timer while another is being answered);
- `AuditChain`: `ChainHolds` (zhenyue's cleanup overlaps a writer; siku's writers overlap each other),
  `OnlyExpired` (`audit_service.py:255-256`: two writers take the time in one order and the lock in the other);
- `HuanyuDelivery`: `AckCounts` (an acknowledgement faster than the UPDATE before its waiter), `ExactlyOnce`
  (`messaging.py:639`: the retry of a message that went by the Hub is stored under another key), `AllTried`
  (`cron.py:174-175`: older rows that stay failed fill the batch).

## 7. Not modelled

- Within zhice: creation of a task by an LLM (the initial state is a created and started task),
  workflows, reviews by agents and people, issue reports, notifications, hooks after a step, the
  heartbeat. A notification that raises inside a handler ends it like a crash of that call.
- Within siku: invoices, the administrator's adjustment, the path of the finance agent that forwards a
  notice to another base, exports, chat formatting.
- Within xihe: priorities, cgroups, heartbeats, the calls a skill makes back to the base, what the risk
  score is made of, skills that run inside the process. `_spawn` is taken to raise only before there is a process
  (`WatchFail`).
- Within huanyu: broadcasts, local pushes, the queries of the inbox, the deletion of old messages (failed ones
  after seven days, `cron.py:79-84`), and two pieces of code that nothing calls: `retry_cross_org_deliveries`,
  and the monitor of agent processes in `agent_runtime.py`, whose `start` has no caller.
- Within the audit chains: signatures and the queries.
- zhenyue's `approve_and_execute`, `cancel`, `execute_scheduled`, `resolve` and `escalate` have no caller
  outside the tests; the calls that remain are single UPDATEs.
- The parts of the inventory listed as not modelled in `PROJECT.json`, each with its reason: no state
  of their own, pure I/O, or planned below.

## 8. Plan

In this order:

1. `HuanyuNegotiation`: two bases that replicate each negotiation over a network that delays,
   duplicates and reorders.
2. `ZhiceReview`: the manual review, composed with the engine's rows.
3. `CommonBus`: states, buffers, queues, the daily reader.
4. `ZhenyueQuarantine`, and `ZhiceTimers`, the engine with clocks.

Proofs to come: what of `DoneStepsStay` and `DependenciesHold` survives a reset and a manual assignment; the
invariants of each new module as it is checked.

### Further hazards

`PROJECT.json` lists the main hazards; these are further ones, at their lines under `src/qingtian/`.

- `zhice/status_machine.py:111`: The watchdog's timeout and the retry of a late, failing submit both apply to the same step: one of them must win, and only one retry be paid.
- `zhice/api.py:1475`: reverify writes in_progress with no guard on the status it read, so a step that is reset and claimed meanwhile, or a step of a completed task, is set running.
- `zhice/dispatcher.py:216`: assign checks the status alone: a step whose dependencies are open or that awaits its confirmation can be assigned and started.
- `zhice/api.py:869`: An agent's failure sets the step to failed before its retry is decided; a second call that counts terminal steps in between fails the whole task over a step that is then retried.
- `zhice/api.py:1355`: The creator may reset a failed step of a task that has failed because of it; the step is pending, and /next never hands it out, since the task is not running.
- `zhice/timeout_checker.py:275`: An overdue task times its assigned and running steps out, but step_timeout matches neither pending nor rejected ones, which stay open in a failed task.
- `zhice/api.py:444`: Cancelling a task passes every non-terminal step to step_cancel, which does not match rejected or timed_out.
- `zhice/timeout_checker.py:158`: Scan 3 judges a step by a heartbeat read before the loop; a heartbeat that arrives while earlier rows are handled does not save the step.
- `zhice/api.py:1297`: Two reviewers who answer the last two open reviews at once each still see the other's as pending, or both see none and both complete the step.
- `zhice/multisig.py:73`: A refused verification is stored as multisig_failed while the count of failures looks only at multisig_verified: a vote against never ends the verification.
- `zhice/multisig.py:98`: The verification is taken by a SELECT ... FOR UPDATE, whose lock ends with the statement unless the caller holds a transaction open.
- `zhice/api.py:823`: The idempotency key is compared when a submit begins and stored when it ends: two copies of one submit pass the comparison together (`KeyAppliedOnce`).
- `siku/api.py:1040`: One human approves an order while another rejects it: the order may end rejected with the money credited.
- `siku/annual_cron.py:34`: The expiry of an account is written without looking at expires_at again: an account paid for since the SELECT is expired and inactive for a year.
- `siku/models.py:26`: A deduct without a key posts the empty string, which the unique index takes for a key like any other: the second keyless deduct of the whole table fails.
- `common/bus.py:205`: The state of an agent is set to READY after an await: a pause that came meanwhile is overwritten.
- `common/bus.py:664`: A full queue of an agent that is away drops its oldest event, whose publisher was told that it will be delivered.
- `common/bus.py:680`: flush removes the queue before its events are delivered: a delivery that fails loses the rest.
- `zhenyue/quarantine.py:66`: The record is inserted before the file is moved: after a stop in between it names a file that is not there.
- `huanyu/negotiation.py:229`: The limit of counter-offers is checked on a row read before the UPDATE, which is not guarded by the status: a finished negotiation is reopened, or the limit exceeded.
- `huanyu/negotiation.py:479`: Only active negotiations expire; one with a counter-offer that nobody answers stays open for ever.
- `huanyu/negotiation.py:575`: An agreement that is recorded a second time, by a retry or by both sides, is a second agreement for one negotiation.
- `huanyu/messaging.py:1351`: Only failed messages are retried by retry_cross_org_deliveries, and nothing calls it.
- `huanyu/messaging.py:711`: Where neither the own directory nor the Hub knows a `server_host` or a company, the Hub being out of reach included, the message becomes `local` and is never sent on.
- `huanyu/messaging.py:439`: A sequence number is taken before the frame is sent, and counts all companies together: B's window stops at the first number that went elsewhere.
- `xihe/agent_runtime.py:955`: The idle timer cancels itself in `_stop_child`, so the process is killed without the 5 s it is given to end.
