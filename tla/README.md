# Paperclip control plane: TLA+ verification project

Paperclip is a control plane for teams of AI agents. A server keeps companies,
agents, tasks (*issues*) and their comments in PostgreSQL; *wakes* (a comment, a
timer, an approval) ask an agent to work on an issue; a wake becomes a *heartbeat
run*, which a controller process claims, hands to an adapter (a CLI agent, a remote
session) and finishes. The hard part is not any single statement but that requests,
the executor, the recovery passes and other processes all change the same few rows
in separate transactions, with crashes and lost replies in between. This directory
models that part in TLA+, checks it with TLC on small instances, and proves with TLAPS
what holds of six of its components for instances of every size.

`PROJECT.json` lists every component, run, mapped definition (with source lines),
hazard, finding and theorem. All paths below are relative to `src/`; `services` is
`server/src/services`, `modules` is `server/src/modules`.

## 1. The system

### 1.1 Components that carry the core logic

| Component (code) | State | Operations | Correct when |
|---|---|---|---|
| Issue execution: `services/heartbeat/queue.ts`, `modules/wake-queue` | `agent_wakeup_requests`, `heartbeat_runs`, `issues.execution_run_id` | enqueue, merge, defer, adopt, claim, release, drain, promote | no message is lost or given twice; one execution of the assignee at a time; every queued run can be claimed |
| Run dispatch: `modules/run-dispatch` | the same rows | staleness gate, promotion of due retries | a run that nobody wants any more does not start |
| Run execution: `services/heartbeat.ts`, `heartbeat/run-completion.ts`, `heartbeat/run-preparation.ts` | `activeRunExecutions` (memory), run rows | begin, checkout, terminal write, `finally` | memory and rows agree about who runs |
| Run control: `heartbeat/run-control.ts` | run rows | cancel, interrupt | an acknowledged stop is final |
| Recovery: `heartbeat/recovery.ts`, `heartbeat/retries.ts`, `services/recovery/service.ts` | run rows, locks | reap, schedule retry, sweep stale locks, resume stranded queues | a crash neither loses nor repeats work |
| Stranded work: `services/recovery/service.ts`, release in `modules/wake-queue` | the same rows, a recovery action | sweep, retry, wake, escalate | work that nobody continues gets one more run or a person |
| Agent start: `services/agent-start-lock.ts`, `heartbeat/queue.ts` | a promise per agent (memory), run rows | start the next queued runs of an agent, resume queued runs | slots are not exceeded, no run is claimed twice, no queue freezes |
| Budgets: `services/budgets.ts`, `budget-reservations.ts`, `run-cost-accounting.ts`, `usage-receipts.ts`, `budget-enforcement-worker.ts` | policies with generations, reservations, receipts, holds | admit, reserve, recheck, account, edit, enforce | no overbooking, all spend is accounted, a Stop wins and arrives |
| Queued comments: `modules/wake-queue/application/queued-comment-use-cases.ts` | envelope of a wake, context of its run | list, edit, delete, reorder | what the queue shows is what the run is given |
| Task routes: `server/src/routes/issues.ts` | issues, comments | POST/DELETE of a comment, PATCH of assignee and status | a request of several transactions leaves no half done state |
| Legacy controller lease: `services/legacy-controller-lease.ts` | boot id, expiry and stage in the run row; a local deadline | claim, renew, dispatch, revoke, settle | a controller that lost its lease does not work on; a retry is made only if no work began |
| Delivery coordinator: `services/delivery-work-coordinator.ts`, `services/work-scheduler.ts` | one worker per queue: deadline, dirty flag, hold | wake, sweep, reconcile, stop | no wake is lost; no idle sleep over unresolved work; quiet shutdown |
| Database work signals: `packages/db/src/work-signals.ts` | announced transactions | announce, settle, reconcile | every announced row is swept after it committed |
| Task admission: `services/task-admission.ts` | drain and standby | open, close | work stops and resumes with the admission |

The other components (execution control work, execution holds, credential
leases, issue trees, watchdogs, the native runtime, chat bridges, plugins,
environments, portability, the interfaces) are listed in
`PROJECT.json` with the reason why they are not modelled or when they are planned.

### 1.2 How they interact

    routes/issues --comment, PATCH--> issue row --wake--> wake-queue (enqueueWakeup)
        |                                                      | queued run / deferred wake
        | cancelRun                                            v
        +----------> run row <--- gate, claim --- heartbeat (controller process)
                        |                              | lease: claim, renew, settle
                        | release, drain, promote      v
                        +<--- finish / reap / cancel --- adapter execution

Transactions on one issue lock the issue row first, so each is atomic. Between them a
handler keeps what it has read in memory; the process may die there. Durable queues
of other kinds (stop requests, chat deliveries) share the delivery coordinator, which
learns of a row through in-process signals of the transaction that writes it. Every
wake and every finished run asks the start lock of the agent for the next claim; the
claim and the dispatch ask the budgets, and the enforcement worker, which the delivery
coordinator drives, fences runs and cancels them through run control. The recovery
passes look at what all of these have left behind.

### 1.3 What is hard here

- **Interleaving**: gate, claim, stamping and the start of the execution are four
  steps of one handler; a PATCH of an assignee is three transactions; wakes, stops,
  edits, drains and recovery come between them.
- **Two copies of the messages**: the ids in a wake's envelope and in its run's
  context change in different places (merge, adoption, promotion, edit, claim).
- **Crashes**: process memory (executions, pending releases, requests in progress) is
  lost, the rows are not; recovery has to infer what was going on.
- **Lost and late replies**: of a lease renewal, and of a `COMMIT`.
- **Timers**: late callbacks, deadlines measured from the wrong moment, retries that
  become due while another run executes.
- **Locks that may be passed**: the start lock of an agent is only a queue of promises
  with a time limit, and code under it can wait for itself.
- **Work owed**: an enforcement generation, a receipt, an escalation is recorded in one
  transaction and performed in a later one; what commits in between may be taken for
  done, or be done on stale grounds.
- **Liveness**: a deferred message waits for somebody's release; a wake that arrives
  during a sweep must cause another.

`PROJECT.json` lists each hazard at its line, with the properties that cover it.

## 2. Modules

### 2.1 `LegacyControllerLease`

One legacy run and the processes that may execute it or revoke its lease.

| TLA+ | Code |
|---|---|
| `row` | the run's status, `legacyControllerBootId`, expiry and execution stage |
| `watch[b]` | the watcher that `executeRun` starts in process `b`: armed deadline, aborted, adapter entered |
| `attempt[b][k]` | a call of `assertOwned` by the interval timer or by the dispatch |
| `revocation` | the answer of the last revocation: stage read, and when |
| `Claim`, `CommitRenewal`, `Revoke`, `FinishExecution` | the UPDATEs with their WHERE clauses |
| `BeginRenewal`, `RetryRenewal`, `AcceptRenewal`, `LoseLease`, `DeadlinePassed` | the watcher's loop, its timers and its abort |
| `EnterAdapter` | the adapter starts, after `assertOwned("dispatching")` has returned |

A renewal is two steps, its commit and its answer, so that either may be delayed or
lost. Time is discrete; a timer that is due fires within `Lateness`, and a database
statement takes as long as it likes.

### 2.2 `DeliveryCoordinator`

One queue of the coordinator with the transactions that write its rows. `tx` is what
the database server knows, `tracked` and `unsure` are what this process knows, `worker`
holds the variables of the closure `createWorker` (with the scheduler's `timer` next to the
worker's own `scheduledAt`), `admission` is what `canRun`/`canReconcile` answer. One
action is the code between two awaits: `Started`, `Resolve`, `Admit`, `Scan`,
`Deliver`, `AskPending`, `Answered`, `Rejects`, `Finally` are the parts of one sweep;
`Announce`, `ReplyKnown` and `ReplyError` are the signals. Other queues share
only the timer, which serves each queue's own deadline, so one queue is enough.

### 2.3 `DeliveryQueue`, refined by `DeliveryCoordinator`

`DeliveryQueue` says what a producer and the host of the instance may rely on, without
sweeps, timers or replies: a row is announced, its transaction ends, the process learns
of it later, a committed row is delivered once, the instance is busy as long as it
does not know an outcome, and nothing is delivered after stop has returned. Its liveness part,
`Progress`, holds while the admission is open: queued rows are delivered, outcomes are
learned, and the instance comes to rest. `DeliveryRefinement` gives the mapping:

| `DeliveryQueue` | `DeliveryCoordinator` |
|---|---|
| `row[i]` | `"delivered"` if the row is in `done`, else the state of its transaction on the server |
| `unknown` | `tracked` |
| `busy` | `worker.hold` |
| `service` | `worker.stopped`, `worker.closed` |
| `open` | `CanRun` |

`ImplementsQueue` is a property of the run `delivery`; the safety half is a theorem.
`Progress` is written with leads-to and not with `WF` of abstract actions, because TLC
cannot evaluate `ENABLED` through a mapping to record fields.

### 2.4 `IssueExecution`

One issue, its wakes and its runs, and one controller process.

| TLA+ | Code |
|---|---|
| `issue` | assignee, status, `executionRunId` (`exec`) |
| `comment[c]` | not written, live, deleted |
| `run[r]` | a `heartbeat_runs` row; `ctx` is the comment ids of its context, `of` its retried run |
| `wake[w]` | an `agent_wakeup_requests` row; `env` is its envelope `queuedCommentIds`, `msg` the comments whose request it records |
| `proc[r]` | how far the handler of run `r` has come in this process |
| `settle` | releases that a handler has still to perform |
| `mail`, `route` | requests between two of their transactions |

| Actions | Code |
|---|---|
| `PostComment`, `CommentWake`, `SystemWake` | POST of a comment, then `enqueueWakeup`: join, defer or start a run, with adoption of saved wakes |
| `Gate`, `Claim`, `StampClaim`, `ReleaseClaim`, `Begin`, `Checkout` | `cancelStaleQueuedRun`, `claimQueuedRun`, the statements after the claim, suppression, `executeRun`, checkout |
| `Finish`, `Cleanup`, `Release` | terminal write, `finally`, `releaseIssueExecutionAndPromote` with the drain, promotion and recovery run |
| `Stop`, `ReassignStop`, `ReassignCommit`, `ReassignWake`, `SetStatus`, `DeleteComment` | what people do |
| `Restart`, `Reap`, `ScheduleRetry`, `PromoteRetry`, `ResumeStranded`, `SweepStaleLock` | crash and recovery |

One action is one transaction with the issue row locked. Exception: the status writes
of a run and of its wake in `Finish` and `Reap` are adjacent statements and one action.
`Inputs` and `Facts` are constants that select what the environment of an instance
may do, so that each run stays exhaustive.

`run[r].of` is `retryOfRunId`, and `Counted`/`RetriesLeft` stand for the count of
failure retries that a chain of runs carries with it (two in the model). A run with a
successor is not retried again (`HasRetry`).

### 2.5 `StrandedWork`

Extends `IssueExecution` by the sweep over assigned issues and by the escalation that a
release may owe. `jobs` is what the handlers of the sweep and of the releases hold in
memory: the row of the issue they read, the run it is about, the next step, and whether the
row was written since (`moved`, which stands for the comparison of `updatedAt` and the
other columns). `board` is the recovery action that hands the issue to a person.

| Actions | Code |
|---|---|
| `Look`, `Decide` | `reconcileStrandedAssignedIssues`: the candidates, then the decision for one of them |
| `WakeAssignee`, `RetryLatest`, `Reread` | `enqueueInitialAssignedTodoDispatch`, `enqueueStrandedIssueRecovery`, the second look at the active path |
| `Escalate` | `escalateStrandedAssignedIssue` |
| `ReleaseOrEscalate`, `LoadRow` | `createReleaseIssueExecution` with `decideReleaseRecovery`, `loadStrandedEscalationRows` |
| `Crash` | the process dies: `Restart`, and all jobs are forgotten |

One pass runs at a time (`createTrackedSingleFlight`; the pass at startup is awaited before the timer
starts). A failure's kind (retryable, the same again, not retryable) is a choice of `Decide`.

### 2.6 `AgentStart`

The queued runs of one agent and the calls of `startNextQueuedRunForAgent` in one process.

| TLA+ | Code |
|---|---|
| `lock`, `prev`, `age` | the entry of `startLocksByAgent`, the promise a call waits for, `Date.now() - registeredAt` |
| `before` | history: which of the calls under way registered first |
| `slots`, `todo`, `got`, `rejected` | `availableSlots`, `prioritizedRuns`, `claimedRuns`, `rejectedClaims` |
| `child` | the call that a cancellation inside the call awaits |
| `gate[r]` | what the claim of the run finds: nothing, a delay, a hold, a refusal |
| `Register`, `Enter`, `ReleaseLock`, `Tick` | `withAgentStartLock`, `waitForAgentStartLock` and its timer |
| `Count` to `Return` | the steps of the function between its awaits |
| `StartCall`, `StartSweep`, `StartNested` | a wake or finished executor, the periodic pass, `cancelRunInternal` |

The order in which the queue is tried is arbitrary in the model, and everything that a claim
checks is the one value `gate[r]`. The transaction of the claim compares the status of the run
and nothing else, so that the number of slots is guarded by the lock alone.

### 2.7 `Budgets`

Runs, scopes (company, agent, project) and policies of one company. Every transaction of
`withAccountingTransaction` locks the company's row and is one action.

| TLA+ | Code |
|---|---|
| `status`, `stage`, `fence` | the run's row; how far its dispatch and provider have come; its Stop intent |
| `reservation[r]` | `budget_reservations` |
| `account`, `usage`, `ledger`, `disk` | `costAccountingPending`, `usageJson`, `cost_events`, the receipt in the spool directory |
| `limit`, `generation` | `budget_policies.amount`; `enforcementVersion`, `enforcementDeliveredVersion` |
| `budgetHeld` | the scopes that a budget has paused |
| `worker[p]` | what `deliverBudgetEnforcement` has read and has still to do |
| `Enqueue`, `Claim`, `Reserve`, `AdmitDispatch`, `HandOff`, `Undispatch` | the four places that ask the budget, from the wake to the adapter |
| `Checkpoint`, `FinalReceipt`, `PersistReceipt`, `AccountRunCost` | usage recorder and accounting |
| `UpsertPolicy`, `ReconcileScope` | an edit, and the periodic check |
| `Pick`, `Authorise`, `FenceScope`, `PickCommitted`, `StopRun`, `MarkDelivered`, `FailDelivery`, `Restart` | the enforcement worker, one step per await |

Money is counted in cents that a provider bills, over the lifetime of a policy. The runs of an
instance are finitely many (`ScopeAssumption`), as the rows of a database are; `Total` is then the
number of cents that the runs of a scope cost.

### 2.8 Instances

The `MC` modules instantiate the others for TLC. Definitions whose comment begins "Mutated
form of" are not used by any specification: each is a plausible bug, substituted for the
definition that it precedes to see that the properties notice it.

## 3. What is checked

| Run | Instance | Distinct states | Shows |
|---|---|---|---|
| `one_owner` | 1 agent, 2 comments, 3 rows; system wakes, stops, crashes | 555k | messages are kept, given once, and run one at a time; how a run ended stands |
| `queue_edits` | 1 agent, 2 comments, 3 rows; deletions, suppressed claims, all facts | 325k | wake, run and envelope stay consistent under edits |
| `handoff` | 2 agents, 1 comment, 3 rows; reassignment, system wakes, an agent that may be gone | 748k | saved messages follow the assignee, and what waits for the assignee is not dropped |
| `liveness` | 1 agent, 1 comment, 3 rows; status changes, system wakes | 117k | queued runs settle, saved messages reach a run |
| `stranded` | 1 agent, no comments, 3 rows; up to 3 crashes at any step | 182k | a failed run is retried once; work that nobody continues gets a run or is blocked |
| `lease` | 2 processes, lease 3, lateness 1, clock to 9 | 946k | a revoked controller stops, and `preparing` proves that no work began |
| `delivery` | 2 rows, at most 2 faults | 222k | no lost wake, hold, shutdown; liveness; the abstract queue is implemented |
| `budgets` | 2 runs, 1 policy of 2 cents, 1 edit, 1 fault | 352k | no overbooking, holds follow spend, a Stop wins over a dispatch and is delivered |
| `agent_start` | 2 runs, 1 slot, 3 calls (pass, wake, nested), 1 call that hangs or throws | 323k | the lock is exclusive until stale, slots are kept, no queue freezes |
| `merged_message`, `stop_owed`, `run_limit` | small | | disagreements with the documentation, section 6 |

**Bounds.** `MaxRows` bounds the runs and the wakes of an instance. Three rows hold the
longest chain that a single message can take without a retry (a run that executes, a
wake deferred behind it, the run that adopts or promotes it), and a run with the two retries
of its count. Two comments are needed to tell merging from replacing, two agents to tell
the assignee from a former one. In `stranded` a crash can cut short each of the three runs of
the longest chain; messages add nothing to the sweep, which reads runs and wakes only.
`Lease = 3` with `MaxTime = 9` allows a renewal, an expiry and two revocations in
sequence, and one tick of lateness is enough to overlap them; the theorems remove these
bounds. Two faults of the delivery queue allow a lost reply together with a failing
sweep, or a drain during either; two rows allow an announcement during the sweep of
another row. In `budgets` the policy starts at its highest amount, which both runs together
can exceed; an edit lowers or removes it, and one fault is a failed Stop or a restart of the worker. That a
policy is made while runs are under way (the insert in `UpsertPolicy`) is left to the theorems, and to
`stop_owed`, which starts from any amount; from `limit[p] \in {0, MaxLimit}` the same properties hold too
(889k states). Several policies and scopes are covered by the theorems. In
`agent_start` one run may be held and the other be delayed or refused; three calls are
a holder, a waiter and the nested call of either, one tick makes a lock stale.

**Deadlock** is not checked: an instance ends when its rows, its clock or its faults
are used up, when the issue has nothing to do, or when the worker has been stopped;
the program then waits for input. That nothing waits without reason is a matter of the
liveness properties.

**Symmetry** (agents, comments) is used in safety runs only.

**Fairness.** Weak fairness is assumed of code that runs without anybody's help, never of
people, wakes or restarts, and no strong fairness is used.

- `IssueExecution`: the handlers of a run (gate, claim, begin, finish, cleanup, release), which
  are one promise chain, and the periodic passes (reaping, due retries, stranded queues, stale
  locks). `Finish` is fair: an adapter ends by itself or by its timeout (one configured without
  a timeout and never stopped could keep the issue for ever; the properties are not about it).
- `StrandedWork`: in addition the sweep as a whole, which is periodic, and the escalation of a
  release. Which branch a decision takes is not fair: `StrandedWorkContinues` holds whatever kind
  of failure is diagnosed. It excludes the bound of the instance (no row left for a retry
  that is still due).
- `DeliveryCoordinator`: timers fire, promises settle, and a transaction ends and its reply, or
  an error, arrives. Nothing makes a drain or a standby end: the liveness properties say
  `<>[]CanRun => ...`.
- `Budgets`: the worker and each of its Stops, which the delivery coordinator repeats as long
  as work is pending. Receipts, settlements and edits are not fair.
- `AgentStart`: each call that does not hang, the timer, the periodic pass, the end of an
  executor and the reaping of its row. A call that hangs never goes on; the lock becomes stale instead. Only
  calls of wakes and executors may hang: the periodic pass that hung would end the passes.

## 4. What is proved

Proofs are in the modules named `...Proofs`, and hold for every value of the constants under
the assumptions of their modules.

**Lease.** `Spec => []TypeOK`, `[]RevokedControllerStops`, `[]DeadlineCoveredByLease`,
`[]PreparingProvesNoWork`, and `StageFrozenByRevocation`. None of the properties is
inductive: that a deadline is covered depends on where the answer still under way was
started. The invariant `IInv` adds `OneController` (a process that neither holds the
row nor was revoked has never been involved), `Past` (no attempt starts in the future),
`Covered` (what is trusted, *or will be once an answer arrives*, ends before the expiry
in the row, or, after a revocation, before the revocation) and `Dispatched` (the adapter
is entered, or is about to be, only after the row says `dispatching`). One lemma per
conjunct, one step per action.

**Delivery.** `Spec => []TypeOK`, `[]WorkIsScheduled`, `[]DeadlineArmed`,
`[]HoldWhileUnresolved`, `NothingAfterStop`, `NoTaskAfterStop`. `WorkIsScheduled` speaks
of the time between sweeps only; `Remembered` says where a notification is kept while
the sweep goes on (in `dirty`, in the answer of `hasPending`, in a deadline, or in a
transaction whose reply is still to come), and `Armed`, `Announced` and `Closed` are
what it needs. Lemmas on the worker's operators come first (`ScheduledEffect`,
`WokenEffect`, `HeldEffect`, `SettledEffect`, `StartedEffect`), then one lemma per action.

**Refinement.** `Refinement`: `Spec => Queue!SafeSpec`, every behaviour of the coordinator is
one of `DeliveryQueue`. Each action maps to one abstract step or to none. Beside `IInv` this
needs `Fresh`: a batch is read from rows that wait, and nobody else delivers them before the
sweep does. `HoldWhileUnresolved` is what makes the learning of one outcome leave `busy` alone.

**Budgets.** `[]TypeOK`, `[]SpendIsAccounted`, `[]StopIsFinal`, `[]HoldTracksSpend` and
`[]NoOverbooking`, for any number of runs, scopes and policies, and any amounts. `IInv` adds, for
each run, `Begun` (how stage, status and reservation fit together), `Covered` (work is reserved and
owed to the accounting) and `Billed` (what is in the ledger is what the receipts say). `Books`
adds `Tracked` (the account of a run follows its reservation), `HoldRight` (the two halves of
`HoldTracksSpend`, for each scope) and `WithinLimit`: the spend of the runs of a scope, each capped at
its reservation, fits into every limit that no edit has cut. A run that costs more than it reserved
does not enter `WithinLimit` with the excess, which is why it survives the checkpoints that break
`NoOverbooking`'s conclusion. Sums over runs need no induction over data here: the model counts a
cost as a set of cents (`Cents`, one pair per run and cent), so that the lemmas about totals
(`SameTotal`, `LowerTotal`, `OneMoreTotal`) are facts of the cardinality of finite sets.

**Agent start.** `[]TypeOK`, `[]ExclusiveUnlessStale`, `[]SlotsRespected`, `[]OneClaimer`, for any
runs, calls, slots and staleness. The lock's part of the invariant: `Ordered` (an older call is
at least as old), `Chained` (a call waits for the one registered just before it), `Fenced` (whoever
need not wait has only stale calls before it) and `LastIsLock` (the entry is the call registered last).
Then `Claimed` (what a call has claimed was queued, and no other call has it) and `Seated` (while the
lock was never passed, the claims still open of the call inside fit beside the occupied slots), which
uses cardinalities of finite sets.

**Issue execution.** `IssueExecutionProofs` proves, for any agents, comments, number of rows, and any
set of inputs and facts, `[]TypeOK`, `[]QueuedRunClaimable` and `[]EnvelopeInContext`. `IInv` is
`Typed /\ Sound(run, wake) /\ Driven`. `Sound` has four parts: `OwnWake` (a run that waits has a queued
wake that points back, and no two runs share a wake), `OwnRun` (a wake has a run as soon as it is no longer saved, and only a merged or
adopted one has the run of another wake), `Enclosed` (an envelope is part of its run's context) and
`Chained` (a run that continues another does so after its end, and the rows are used in order). `Driven` ties the handlers to the rows. `Sound` is an operator
on the two tables, so that a lemma about a step of the tables (`Turn`, a new wake with its run, a
wake that is drained or promoted) serves every handler that makes that step. From the same
invariant follows `OutcomesStand` (`OutcomeStands`): a run that ended is never written again. It has one
lemma per group of actions (`OperateStay`, `RecoveryStay`, `ExecuteStay`), combined in `NextStay`.

`MessageProofs` follows the messages:

- `GivenOnce` (`[]NoDuplicateDelivery`), without a hypothesis. `SingleInv`: a comment
  is in the request that brings it, or in one saved wake and no run, or in runs of which each later one
  continues an earlier one that has it.
- `SavedFollowsOwner` (`DeferredFollowsOwner`), an action property, without a hypothesis.
- `NoMessageLost` (`[]MessagesKept`), for instances without `"reassign"`. `KeptInv`: each live message
  without an answer is *held by the row that records its request*, or by the run of that row.
  `MessagesKept` only says that some row holds it, which is not inductive. `Sole`: every row is of one
  agent. With `"reassign"` it is false (TLC: 7 steps, the observation on reassignment in section 6).
- `OwnersMessagesStay` (`OwnersMessagesKept`), an action property, for instances in which no pause hold is
  active (`"held"` is no fact): what reassignment leaves of `MessagesKept`. A comment that is saved for the
  agent who has the issue, or that its queued run will be given, is dropped by no step, whichever late
  release, drain or claim performs it. `KeptByWake` and `KeptByRun` say when a message has kept its place,
  and one lemma per group of actions shows that it does. With a pause hold it is false (TLC: 11 steps,
  also in section 6).
- `OwnerRunsAlone` (`[]OneRunOfOwner`), for instances in which nobody changes the assignee or sets a status
  that clears the lock (`Quiet`). `Locked`: a run that runs has the lock. With status changes it is false (8 steps).

The hypotheses are about the constant `Inputs`, that is, about what people do in an instance. Stops, crashes,
system wakes, suppression and all facts about agents are allowed by all of them, deletions too.

**Stranded work.** `StrandedWorkProofs` proves `[]SweepTypeOK` and `[]OneRetry` for any number of rows and
crashes. `SInv` is `IInv`, `OneRetry` and `Orderly` (one pass of the sweep; the run it will retry has ended). `OneRetry`
follows because every step that makes a retry reads `HasRetry` in its own transaction, which is
what two handlers that find the same failure rely on: nothing that they remember is needed, except that the
run has ended, and an ended run stays ended (`NextStay`). A recovery run that a release queues
starts a new count, and is not a retry in this sense.

**Only model-checked.** Liveness (`QueuedRunSettles`, `SavedMessageDelivered`, `StrandedWorkContinues`, `StopIsDelivered`,
`CommittedDelivered`, `HoldReleased`, and the liveness half of `ImplementsQueue`): the prover does not treat fairness and
`ENABLED`. Every safety invariant and action property of a passing run is a theorem, some of them under the hypotheses above.
Induction over data and recursive operators are out of the prover's reach as well; no module uses them.

## 5. Not modelled

In `IssueExecution`:

- the checkout lock `checkoutRunId`; execution holds and runs that need reconciliation, hence adapters
  that may have started work before a crash; conversation tasks and adapters that resume a conversation;
  a comment that supersedes a scheduled retry; delegation and mentions; throttles and dependency checks;
  durable chat receipts; native runs and case handoffs; the interrupts of a queue and its reordering; a
  second controller process.
- A *failed result* may schedule a bounded retry before the release (`heartbeat/run-completion.ts:917-952`:
  exhausted turns, a transient provider error, a continuation whose infrastructure failed). The model's
  `Finish` goes straight to the release, and a run is retried by the reaper or by the sweep only.
- The reaper retries a lost run only if the run qualifies (`heartbeat/recovery.ts:2459-2465`: its first loss,
  and a tracked process, or no dispatch yet). The model's lost run always qualifies, as one that
  crashed before the provider began, until its count is spent.
- Whether an ended run has cleaned up is asked of the memory of the process (`proc`); the code asks the
  database in addition (`hasPendingRunCleanup`, `heartbeat/queue.ts:1229`, `modules/wake-queue/adapters/postgres.ts:1099`),
  which matters to runs of another process.
- A message counts as given when the run that has it started: what a crashed run did with it is not known.

In `StrandedWork`: reviews, monitors, task watchdogs, budgets, quota waits, conversations, disposition
repair, a todo handed back by a successful run, and the continuation after a successful run
(`reconcileLegacyContinuation`).

In `LegacyControllerLease`: clocks that differ in rate. The watcher starts with the claim; the code reads
the row once more in between (`heartbeat.ts:1905`) and compares the database's expiry with its own clock for the
first deadline (`legacy-controller-lease.ts:167`), so that the two clocks are taken to agree, and the read to
be answered before the lease expires. A timer is due when the lease it guards ends, also if it is armed later than that.

In `DeliveryCoordinator`: savepoints (they settle with their transaction) and the generation counter of the
idle hold. In `AgentStart`: the order of the queue, suppression of scheduling, the worktree cutoff, and a
second server process.

In `Budgets`: the rollover of a month, warnings and incidents, work without a price, manual pauses,
browser runs, the reuse of a reservation by native recovery, and a crash of the executor. A Stop that finds its
run ended waits for the proof that its provider process ended too (`heartbeat/run-control.ts:1208-1214`) and fails
until then; the model has the failures (`FailDelivery`, bounded) and takes it that the proof arrives.

The repository is a product of 12,500 files, most of them user interface, provider protocols, adapters,
migrations and tests. The models cover the components whose correctness depends on the order of
concurrent steps; components left out are listed in `PROJECT.json` with the reason.

## 6. Findings

Three runs state what the repository says of the program and find a behaviour of the code
that does otherwise. The counterexamples are short, and each is confirmed in the source.

1. `merged_message`: a comment that is merged into a queued run whose wake has an envelope is
   put into the run's context only (`modules/wake-queue/adapters/postgres.ts:949`). The claim
   takes the envelope as authoritative and overwrites the context
   (`services/heartbeat/queue.ts:1420`), so the comment is in no run.
   `MessagesKept`, checked in the passing runs, is about comments that have a row of their own.
2. `stop_owed`: an overspend that commits after the enforcement worker decided that a policy does
   not block, and before it marks its generation delivered, does not raise that generation
   (`services/budgets.ts:317`) and is marked with it (`:1046`). The work goes on until a later
   receipt or edit. That a Stop which *was* committed arrives is checked in `budgets`.
3. `run_limit`: a claim cancels a held run under the start lock (`services/heartbeat/queue.ts:1038`),
   and cancelling awaits a start of the same agent, that is the lock. After 30 seconds the lock is passed,
   and two calls claim from the same count of free slots. `agent_start` shows that the queue goes on.

Observations made with the models that no run states:

- *Escalation race.* The escalation of a release reads the issue after the release has committed
  (`services/heartbeat.ts:1113`) and compares that row with itself (`services/recovery/service.ts:4027`). A
  wake in between leaves a live run under an issue set to `blocked`. With `Inputs = {"system"}` TLC finds it
  in `StrandedWork` in 17 steps as a violation of "an escalated issue has no active run". The sweep's
  second look (`:5700`) has the same gap, and its branch for an agent that cannot be invoked (`:4701`)
  precedes the look at the active path.
- *Deferred system wakes.* A deferred wake without comments whose drain was cut short is not
  revisited by `resumeQueuedRuns` (`services/heartbeat/queue.ts:1824`), and keeps the sweep away
  (`hasActiveExecutionPath`). `StrandedWorkContinues` excludes deferred wakes.
- *Recovery beside a retry.* A release that comes late may queue a recovery run for a run that the
  sweep has retried already (`modules/wake-queue/adapters/postgres.ts:680` does not look for a successor).
  `OneRetry` counts scheduled retries.
- *Reassignment.* A comment posted while the assignee changes may be cancelled as belonging to the
  former assignee (`modules/wake-queue/application/use-cases.ts:213`), and a reassignment between gate and
  claim lets a run of the former assignee start (`services/heartbeat/queue.ts:1180`).
- *Pause hold.* When a reassignment wakes the new assignee, its system wake is merged into a wake that is saved
  for that assignee already, which is a comment's wake no longer (`ReassignWake`); a drain under a pause hold
  cancels saved wakes other than those of comments (`modules/wake-queue/application/use-cases.ts:300`), and the comment with it. With `"held"` among the
  facts of `handoff`, TLC violates `OwnersMessagesKept` in 11 steps.
- *Status change.* A change of the status clears `executionRunId` although a claimed run has not begun
  (`services/issues.ts:11149`); the next wake starts another run beside it.

## 7. Plan

Done: the lease, the delivery coordinator with its abstract queue, the starts of an agent, the
budgets, issue execution and the stranded-work sweep, each checked, and each with proofs of its
safety properties. Next:

1. `MessageDelivery` (a message is posted, given at most once, or withdrawn), refined by
   `IssueExecution`; `SingleInv` and `KeptInv` are the invariants that the step from one to the other needs.
2. The bounded retry of a failed result, execution holds and reconciliation, the run-now interrupt and the
   reordering of the queue.
3. `ExecutionControlWork`: durable stop requests with deadlines, a client of `DeliveryQueue`;
   the active-run watchdog; issue tree holds.

## 8. Running it

    tlc -workers 2 -config one_owner.cfg MCIssueExecution
    tlc -workers 2 -config stranded.cfg MCStrandedWork
    tlc -workers 2 -config MCLegacyControllerLease.cfg MCLegacyControllerLease
    tlapm DeliveryRefinementProofs.tla

Each run's configuration is named in `PROJECT.json`.
