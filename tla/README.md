# Verification of the delivery core

TLA+ models, TLC runs and TLAPS proofs for the part of the platform that decides
whether software is delivered once, by the right roles and within its budget: the
joint delivery of a Requirement over several repositories and its removal, the
persistent work queue, the worker leases, the role-by-role delivery of a Task, and the
console process whose dispatcher thread starts all of it. Paths below are relative to
`src/src/ai_software_engineer/`.

## The system

A user's requirement enters through the Web Console as a typed intent, which is
stored as a durable *operation* and executed by one dispatcher thread. The Manager
prepares it, has it specified (Product), approved by a human, designed and planned,
and dispatches one *Task* per repository. A Task is delivered serially,
Coder, then QA, then Reviewer, by `RetryingOrchestrator`; each role Run is one
*work item* of a MySQL queue, claimed under a lease by `QueuedDeliverySupervisor`.
Failures that need a decision park the work item until an engineer resolves it.
When all Tasks of a requirement are done, a joint acceptance follows.

| component | state it keeps | operations | hard because |
|---|---|---|---|
| work queue (`work_queue/mysql.py`, `models.py`) | item rows, claim rows, accepted artifacts, events | enqueue, claim, start, renew, complete, wait, retry, make_ready, reclaim_expired | many processes, leases, clocks read before the lock |
| dispatcher (`work_queue/dispatcher.py`) | none | tick: reclaim, scan, match, claim | acts on unlocked reads |
| worker lease and supervisor (`work_queue/worker.py`) | local deadline, lost flag, heartbeat thread | start, heartbeat, check, accept, finish, wait | heartbeat races with the main thread; a late owner |
| role queue (`work_queue/execution_store.py`) | admissions, steps, accepted artifacts, dispositions | admit, accept_artifact, finish, resolve_wait, settlements, close_cancelled_task | several tables and the Task in one transaction |
| scheduler (`scheduling/portfolio.py`) | none | match | independence over the whole history |
| Task snapshot (`domain/task.py`, `store/mysql_repository.py`, `orchestration/state_machine.py`) | status, attempts, retry failures, events | create, append_event, record_attempt, record_retry_failure | two writes that belong together are two transactions |
| orchestrator (`orchestration/retry.py`, `runner.py`, `steps.py`) | volatile pass | one pass up to the next role boundary | crash between any two writes; recovery decides from what is stored |
| artifacts (`artifacts/`) | sealed artifacts with lineage | put, latest_accepted_artifact | order must be unique |
| cancellation (`multi_directory/cancellation.py`, `deletion.py`) | receipts | receipt, Task events, queue closing, CLOSED checkpoint | several writes against a live queue |
| retirement and deletion (`multi_directory/retirement.py`, `purge.py`) | retirement.json, sealed plan, identity marker | retire, replace, seal, destroy, publish | destroys its own lock file and journal; every stop must be repeatable |
| web console (`web_console/core.py`, `store.py`) | operations, dispatcher thread | submit, claim, finish, interrupt, drain, resume | threads, shutdown races, crash with a running operation |
| index worker (`knowledge/index.py`) | worker thread, stop event, failure flag | start, tick, stop, close, resume | a resumption meets a thread that is leaving |
| shutdown coordination (`web_console/service_lifecycle.py`, `shutdown.py`, `host.py`) | write gate, sticky failure, request files | begin, await, cancel over all parts | READY is a conjunction of answers given at different times |
| service pause (`service_pause.py`) | request, deadline, stop receipts | request, check, stop, cancel | a pause races with an invocation |
| execution baseline (`work_queue/baseline.py`, `manager/execution_baseline.py`) | pause records | pause, resume, bind | a second stop protocol over the queue |
| continuation (`orchestration/continuation*.py`) | captures | capture, replay | partial work after an interruption |
| recovery (`recovery/`) | plans, approvals, successor Tasks | prepare, approve, resume | must not run while the old owner lives |
| joint delivery (`multi_directory/service.py`, `store.py`, `models.py`) | append-only checkpoints of a Requirement | create, reply, approve, resume, recheck, recover, upgrade, close, restart | the service and the journal judge a checkpoint by different code; a command may end between any two saves |
| Manager, Product, Planner, Designer | sealed records | propose, approve, dispatch | versioned approvals |
| agents, git, knowledge, read side, redaction | provider sessions, worktrees, index, projections | — | input and output; not modelled |

What makes each part correct: the queue must never let two owners publish for one
step, lose work, exceed an agent's capacity or give one agent two roles of a Task;
the delivery must reach a status only on the evidence for it, charge attempts
exactly once through crashes, produce each output once, and always be either
running, finished or decidable; the console must run each accepted operation at
most once and must not report a safe stop while something is still active. A
Requirement must never reach a checkpoint no command can continue, must engineer only
what a person approved, must pay for every model call before it, and must be closed,
replaced or destroyed only as a whole and only when that decision is durable.

## Modules

### WorkQueue

State: the three queue tables (`items`, `claims`, `accepted`), the COMPLETED event
(`completion`), the host's `clock`, and per process the main thread (`proc`) and the
heartbeat thread (`beat`). Every queue method is one SQL transaction under one
authority lock and so one action. The clock such a method compares with is read by
its *caller*: `Tick`, `StartReadClock`, `BeatReadClock`, `FinishRead` and
`ReleaseRead` read it, and `ReclaimExpired`, `Scan`, `Claim`, `Start`, `Renew`,
`Finish` and `ReleaseToStatus` use it later. `AcceptArtifact` needs no lifecycle
lock and runs beside the heartbeat. `RecoveryReclaim` is the reclaim of the recovery
commands; `MakeReady`, `ResolveWait`, `SettleWait` and `CloseCancelled` are the
signals from outside. `Crash` loses a process's memory at any point, `Abandon` is an
exception that leaves the loop.

Abstractions: WAITING_HUMAN and WAITING_DEPENDENCY are one status; a lease id is
the record it is a digest of; tokens are the owning process; `match` may return any
acceptable agent; each lease takes one unit of capacity.

### TaskRepository and TaskDelivery

`TaskRepository` is the contract of the Task snapshot: status edges, attempts,
transient failures, and the frozen limits. It is abstract: `RepositorySpec` says
what any reader may rely on.

`TaskDelivery` is the orchestrator and its supervisor: durable `events`, `arts`,
`step` and `admitted`, and the volatile `pass`. Each durable write is one action and
`Crash` may come between any two. `Begin` starts a pass (the probe before admission
or the owner of the step), `Validate`, `Plan`, `Continue`, `RecoverOutput` and
`Verdict` are the branches of `_run_task` in its order, `Run` consumes the permit,
`NextStep` is `RoleRunPending` followed by the publication of the next step,
`Succeed`, `FailTransient` and `Fail` are the outcomes of a Run. A QA report is stored
before its criteria are compared with the Task's, so `Succeed` may also lead to
`RejectReport`; a pass that stops in between never comes back to that comparison.
`SettleStoppedBudget`, `SettleUninvokedRoute`, `Cancel` and `CloseCancelled` end a Task
from outside. That only one pass owns a step is what WorkQueue shows; here a step has
one pass.

`resolve_wait` has four kinds of effect. `Resume` dispatches the same item again: it stands
for the decisions that replay or continue without a new attempt, and is closed to a
rejected report. `ResumeStatic` (STATIC_QA_MISSING_ENTRY) does so for a QA item without
output, which then verifies statically. `Retry` closes the item and publishes one with a
new attempt. `RetryRejectedQA` (RETRY_REJECTED_STATIC_QA_OUTPUT) closes a QA item whose
stored report was rejected, retires the report and publishes an item with the *same*
role, attempt and revision. `step.item` numbers the published items, so that the two are
told apart, and `static` says whether the item had exactly one static decision; a
replacement is SPENT from the start, because that decision was about another item. A
RETIRED artifact is the report that `rejected_static_qa_artifact_ids` takes out of the
accepted ones. The code also asks that the item's other decisions were resumptions
without an invocation; the model admits any `Resume`, which only adds behaviours.

The code's branches for missing evidence (PLATFORM_BUG) and its repair of an
attempt counter behind its events are not actions: that they cannot be reached is
stated as `CheckpointEvidence` and `AttemptsReservedFirst`.

### ProjectConsole

The fields of `ProjectConsole` are the record `con`, the durable operation store is
`ops`, and every dispatcher thread that is alive is an entry of `th`. What the code
does under `_lifecycle` is one action; the wake event is set and cleared outside it
(`SubmitWake`, `ClearWake`), and between two holdings of the lock anything may
happen. `CheckStop`, `ClaimNext`, `Finish`, `Release`, `Poll` and `Die` are the steps
of `_run` and `run_once` in order. A write of the store that raises may have been
stored (`SubmitRaises`, `ClaimRaises`, `FinishRaises`, `StartRefused`), since the record is linked
before its directory is synchronised. `AwaitLoop`, `AwaitJoined` and `AwaitWakes` are
`await_shutdown`, `CancelShutdown` and `CancelRefused` the two ends of
`cancel_shutdown`. A thread is alive until `Exit`, after its last use of the lock.
`Crash` replaces the process and keeps the store.

`SubmitRaises` is the same for a submission: the operation is QUEUED, the caller gets an
exception and the wake event is not set. A dispatcher that sleeps at that moment learns
of the operation only from its timeout, of at most five seconds, which is what
`QueuedIsClaimed` needs; `NoLostSignal` excepts exactly these operations, by the history
variable `silent`, which is emptied when the sleep ends.

Abstractions: the summaries of a refusal are one flag; the service pause is a
reason for an operation to fail; any queued operation may be the first, because
`requested_at` is wall-clock time; `run_once` is called by the dispatcher only, as
in the repository outside its tests.

### KnowledgeIndexWorker

The worker's thread (`wt`), its event, failure flag and thread field, and the one
caller at a time that the coordinator is for it (`ctl`). `close` is four steps,
because it reads the thread, joins it, reads the failure and reads `is_alive`
without holding the lock.

### RequirementLifecycle and JointDelivery

`RequirementLifecycle` is what the console, the portfolio and people rely on: one
approval that never changes, a plan, repositories that stay delivered, and DONE only
with exactly the planned repositories. `JointDelivery` implements it (`LifecycleSpec`;
`Phase` maps the thirteen stages).

`cp` is the current checkpoint. `ValidChain` and `ValidSuccessor` are the journal's
rules, and `Save` applies them to every checkpoint the service builds: a refused one
raises and ends the command, and `refused` remembers it. Commands hold the journal's
lock, so `run` is one command; `Look` and `Resolve` need no lock. `Reply`, `Approve`,
`Close`, `Restart`, `RecheckDesign`, `RecoverDesign`, `UpgradePlanning` and `Resume`
are the commands, `RetryUsedUp` to `ResumeAdvances` the branches of `resume` in its
order, the rest the stages of `_advance_stages`, with `Advise` and `AdviseRetry` for
the Manager's coordination. `Charge`, `Invoke` and the outcomes are separate, and
`Interrupt` (an exception or a crash) may come between any two saves.

Abstractions: a specification, design or plan is a version number or a model value
with the directories it changes; a digest comparison is equality of those; the native
delivery of a directory ends in any state; the transient and the capacity-timeout
counters are one; gaps are numbers and one may be raised again while unanswered. A
resolution is checked against the checkpoint and recorded later without the lock, so
`Resolve` may come any time after the wait began. `ValidSuccessor` leaves out two rules of
the journal that the service's checkpoints meet by how they are built: the binding of the
Manager's coordination to the checkpoint it was asked about (`store.py:187`,
`models.py:515`), and that a plan keeps the Requirement's execution window
(`models.py:511`); the model's checkpoint has neither.

### RequirementRemoval

Several actors run commands on the Requirements of one Project; `lock` is the flock of
the lock file in a Requirement's directory and `purging` the deletion lock. A
checkpoint is its number and coarse phase (JointDelivery moves it on; here any step of
that lifecycle), and a Requirement's Tasks are taken together. `Close`, `CloseSettles`,
`CloseSaves` are the three writes of a closing; `Replace`, `Intake`, `Prepare`,
`ReplaceRetires` an edit; `DeleteBegins` to `RetireDeleted` and `PurgeStarts` to
`PurgeEnds` a deletion up to the marker that stays. `Crash` may come between any two of
them and releases the locks. `EntryValid` and `Readable` are the validation of
retirement.json on which every command of the Project depends. Unlinking the lock file
frees its name, not its holder: the next command makes a new file. `calm` bounds crashes
and other commands for the liveness property only.

Two places are coarser than the code. `Prepare` withdraws a failed preparation at its first
checkpoint, while the service retires whatever checkpoint is current, which may be a
second, BLOCKED one; the retirement binds the current checkpoint in both. `Deletable`
admits every phase before the approval, while `_require_deletable` also looks at which
records a draft has; the model's deletions include the code's.

## Runs

| run | shows | bounds |
|---|---|---|
| WorkQueueSerial | OneOpenStep, RoleIndependence | three steps of one Task, two agents, two processes, one generation |
| WorkQueueCapacity | LiveCapacity, LocalDeadlineConservative | two Tasks, one agent of capacity 1, two processes, clock to 2 |
| WorkQueueLive | ClaimAgreement, CompletionReceiptsExact, ClosedIsFinal, ExpiredLeaseSettles | one step, two processes, two generations, TTL 1, clock to 2: an owner can be late by a whole lease; fairness |
| TaskDelivery | CheckpointEvidence, WorkBudgetRespected, AttemptsReservedFirst, OneOutputPerAttempt, WaitsDecidable, AdoptedHasStep, RetiredReportUnused, StepsAdvance, and that TaskDelivery implements RepositorySpec; DeliverySettles | three work attempts, two transient failures of the Coder and one of each other role, engineering policy, fairness |
| TaskDeliveryRecovery | CandidateCheckpointedOnce is violated | see Findings |
| ProjectConsole | what READY, a refusal, a sleeping thread and an execution imply about the threads and the store; QueuedIsClaimed, DrainCompletes | two operations, two threads, one restart, fairness |
| IndexWorker | OneTicker, ClosedMeansStopped, StopEnds | three threads, fairness |
| IndexWorkerResume | TickLoopNeverLost is violated | see Findings |
| JointDelivery | NoSaveRefused, ApprovedWhatWasShown, WaitsAreAnswered, LifecycleSpec | one or two directories, a simple and a complex design, two attempts and one transient failure per stage, one gap, one reset, one coordination round, three (four) integrations |
| JointDeliveryLive | CallsArePaidFor, CommandEnds | the same with one attempt for product and design, and a transient failure of the Planner that is retried; fairness |
| RequirementRemoval | DestroyedAsDecided, NoTaskAdrift, RetiredIsFrozen, DeletionCompletes | one Requirement found in any phase, two actors, three checkpoints, fairness |
| RequirementReplace | ReplacedHasSuccessor, OneWriter | two Requirements, one of them a draft, two actors, two checkpoints |

`MaxClock` stops the clock and `MaxSeq` stops claiming at a generation; both bound
the model only, and a state at the bound is why the queue runs do not check
deadlock. Processes and agents are interchangeable (SYMMETRY) in the safety runs,
and not in the liveness runs. Three work attempts are the code's default and the
smallest number with which a second rejection happens before the last attempt; two
transient failures are the smallest number with which one is retried. The Coder's are
enough, because the model treats the roles alike in this; the theorems are for any limits. In the console
two threads are enough for one that leaves and one that replaces it, two operations for
one that waits or was left behind while the other runs, and `MaxCrash` = 1 for
operations left by an earlier host; more of any only repeats these. In JointDelivery
two attempts let a product be shown twice, a design be made again after a recheck and a
plan after a failed integration; a second gap or reset adds only longer histories of the
same kind, except for the claims under Findings that need them. The integration limits
are the code's own. In RequirementRemoval a second actor is the other holder of every
lock; three checkpoints are one found, one work or close, one restart.

The type invariants are not spent a run on: they are proved (`TypeCorrect`,
`JointTypeCorrect`), or are parts of the inductive invariants below.

Fairness. `WorkQueue!FairSpec`: a supervisor is called again until its Task is
settled (`run` loops and the console dispatches again), the heartbeat is a timer,
and a role Run ends because every invocation has a time limit. Crashes may go on for
ever in both models, so the fairness of what a crash interrupts is strong: a process
is not stopped at the same point of every try. The main thread also competes with
the heartbeat for the lifecycle lock. Time and external signals are not fair.
`TaskDelivery!FairSpec` is strong fairness of a pass at each of its points, for the
same reason; decisions, crashes and cancellations are not fair. (Excluding crashes by
`<>[][~Crash]_vars` instead would be vacuous: a tick that finds nothing to do has the
same effect as a crash.) `ProjectConsole!FairSpec`: threads run, an execution ends
(invocations are limited in time and a drain requests a pause of the running one),
timed waits end, the server's lifespan calls `start` once and drains when it fails;
crashes are bounded there. `KnowledgeIndexWorker!FairSpec`: threads run, a tick ends,
and a call that has begun goes on. `JointDelivery!FairSpec`: the thread of a command is
not stopped for ever; what people do and interruptions are not fair, and `CommandEnds`
holds although each outcome of a model is a free choice. `RequirementRemoval!FairSpec`: crashes and other commands
are finitely many (`CalmsDown`), a running command goes on, and the person repeats a
deletion whose plan is still there; the strong fairness of that repetition is what the
documented advice to retry amounts to.

## Findings

* `TaskDeliveryRecovery`: `_recoverable_candidate` recognises a stored but not yet
  checkpointed candidate after a rejection only by its having a predecessor. A
  second candidate that is itself rejected looks the same, so the next Coder pass
  sends the rejected candidate to QA again without running the Coder, and the rework
  attempt is spent.

* `IndexWorkerResume`: the `finally` clause of `_run` hands a resumed loop to a
  successor, "never lose the tick loop", but the thread is alive for a moment after
  it. A resumption in that moment finds it alive and starts no other.

The window is short. ProjectConsole does not have it: it clears `_thread` under the lock
and judges threads and failure together.

The following claims are definitions of the modules that TLC refutes when they are
added to a configuration; they have no run of their own.

* `KnowledgeIndexWorker!FailedTickNotClosed`: `close` reads the failure flag and then
  `is_alive`. After a join that timed out, a tick that raises between the two reads ends
  its thread and `close` returns True: the coordinator goes on to READY, which the
  comment in `_run` (`knowledge/index.py:506`) excludes.
* `JointDelivery!RestartContinues`: `restart_requirement` saves "continue delivery from
  the retained checkpoint" and moves any closed Requirement to BLOCKED. One that was
  closed as a draft has no plan, and `resume` then refuses it for good.
* `JointDelivery!ResetsAuthorised` (with `MaxResets` = 2): `recover_design` accepts any
  approved Design wait of the history, the same one again after every exhausted budget.
* `JointDelivery!ApprovedRetryRuns` (with all limits 3): the fourth integration is
  approved when the plan budget is used up, so the plan it needs cannot be made.
* `RequirementRemoval!PendingDeleteRetryable`: "An interrupted cleanup can be retried"
  (`docs/user/team-console.md`). A stop between the sealed plan and the retirement leaves
  the Requirement alive; when it goes on, the plan binds an old checkpoint and every later
  deletion is refused as stale.
* `RequirementRemoval!PurgedIsGone`: `JointJournal.lock` looks for the purge completion
  and then makes the directory. A command that looked before the marker was published
  makes it again afterwards, and `purged_entry` then rejects retirement.json for every
  Requirement of the Project. The same happens, until the deletion is repeated, to all
  commands of the Project while a purge is interrupted halfway.

Seen while modelling and left as remarks: a recheck keeps a human planning upgrade that
binds the old design, which no later decision accepts; a close that stops between its
receipt and its checkpoint, followed by a resume, leaves a receipt that makes every later
closing and deletion fail; the preparation an edit withdraws can be deleted physically
only while it has one checkpoint; a reply when the product budget is exhausted discards
the proposal and cannot make another.

## Proofs

Every safety property that a run checks is also a theorem, and so are both refinements:
the run shows it on a small instance, the theorem for every value of the constants that
the assumptions of the module admit (`QueueConstants`, `PolicyConstants` and
`EngineeringAssumption`, `ConsoleConstants`, `WorkerConstants`, `JointConstants`,
`RemovalConstants`). They say only that functions have their types, that the null values
are no members, and what the code's own configuration enforces: budgets and capacities are
positive, retry limits are 1 to 100 (`RetryLimit`, `domain/retry_policy.py`), a
Requirement's directories are finitely many, and a journal holds at least the two
checkpoints of an edited draft. Theorems are stated for `Spec`, without fairness; each
`FairSpec` is `Spec` with fairness added, so they hold there as well. RequirementRemoval
bounds crashes by an extra action in `FairSpec` and its theorems name both.

* `WorkQueueProofs`: `TypeCorrect` and `ClaimAgreementHolds`. `ClaimAgreement` is
  not inductive: that a finishing worker releases the claim of *its* item needs to
  know whose lease a process holds. `TableInv` adds `HolderInv` (a process in an
  executing state remembers a lease it claimed itself, of the item it works on, and
  only a running process has a heartbeat in flight) and `ClaimBound`. One lemma per
  action; `Withdraw` is the common argument for every transaction that takes claims
  away, `HolderFrame` for the processes that do not move.
* `WorkQueueCapacityProofs`: `LiveCapacityHolds`. Real-time capacity is not
  inductive, because a heartbeat in flight may revive a lease that a dispatcher
  already ignores: it reads its clock before it waits for the lock, so a lease that
  expired meanwhile and was not reclaimed is extended. `CapacityInv` counts the leases that are live *or* that a
  heartbeat in flight may still renew (`PotentialCapacity`), and says that what a
  dispatcher between its reclaim and its claim ignores as expired can no longer be
  renewed (`IgnoredIsDead`): its reclaim withdrew every lease with a deadline up to
  its clock.
* `WorkQueueHistoryProofs`: OneOpenStep, ClosedIsFinal, RoleIndependence,
  LocalDeadlineConservative, CompletionReceiptsExact. They rest on `TableInv` and on what
  one step may do to the rows (`RowStep`) and to the claims (`ClaimStep`), so that each
  property is argued once over those few shapes and not over every action. `DeadlineInv`
  states the deadline for every process that holds a lease, in a renewal too;
  `ReceiptInv` adds the receipts a finishing process read before its transaction.
* `TaskDeliveryProofs`: the work budget is counted by the cardinality of the recorded
  failures (`BudgetInv`), for the abstract repository alone and for the delivery.
  `CoreInv` relates the snapshot, the events, the open step and the running pass, and
  gives the refinement of `RepositorySpec`, AttemptsReservedFirst and AdoptedHasStep. `DeepInv` is about the artifacts: which output of an attempt is stored
  and not yet checkpointed (`OutputInv`), what a report or review is about (`ReportInv`,
  `LineageInv`), what a pass about to recover a candidate relies on (`CandidateInv`), that
  nothing stands on a retired report and that only a replaced, SPENT step has one in its
  attempt (`RetiredInv`), and that a pass that goes on after its Run at the same boundary has the
  Run's output (`ConsumedInv`). CheckpointEvidence is not inductive without them, because
  an event is written from an artifact that an earlier, interrupted pass stored. `Advances`
  gives StepsAdvance: a pass publishes a step only for a role without a standing output in
  the attempt, so a new step is `Later`, except after `RetryRejectedQA`.
* `ProjectConsoleProofs`: `CoreInv` counts the busy thread and ties it to the store's
  RUNNING record, and gives OneDispatcher and ExclusiveExecution; `ReadyInv` adds what a
  refusal and READY imply; `SignalInv` says what a thread that has passed its test of the
  stop event, or sleeps, may still rely on while the wake event is clear, since the event
  is set and cleared outside the lock.
* `KnowledgeIndexWorkerProofs`: OneTicker and ClosedMeansStopped from `OnlyCurrent`
  (every thread that loops or has yet to decide about a successor is the one `_thread`
  names) and `CloseInv` (from the first step of `close` to a resumption no successor
  appears).
* `JointDeliveryProofs`: NoSaveRefused, CallsArePaidFor, ApprovedWhatWasShown,
  WaitsAreAnswered, TypeOK and the refinement of RequirementLifecycle. `Good` is what holds of every
  checkpoint: the journal's own `ValidChain`, and what its validators cannot see: the
  records each stage relies on (`StageFacts`), that a gap can be taken up again at its
  stage and that a wait in Design has an attempt left (`WaitFacts`; otherwise a reset of
  the Design budget could step over it), that children are of the design, and that an
  integration or its approved repetition leaves nothing to deliver (`WorkFacts`;
  otherwise a plan made after a failed integration could drop a delivered directory).
  `RunInv` says what a command has reached, `AuditInv` that a charged call is not yet
  made. One lemma per action shows that its checkpoint `Follows` the current one; the
  journal then accepts it (`Saved`). IsRecheck compares with the largest limits a policy
  may have, which is why `RetryLimit` is an assumption.
* `RequirementRemovalProofs`: OneWriter, DestroyedAsDecided, NoTaskAdrift,
  ReplacedHasSuccessor and RetiredIsFrozen, by rely and guarantee. `RemovalInv` is an
  invariant of each actor (which lock it holds, what its deletion has sealed, which
  fences it has passed) and of each Requirement's rows; `Guarantee` bounds what a step
  does to the rows of any Requirement, and `OthersKept` shows that this is all the other
  actors rely on, so no pair of actions is compared.

Only model-checked: liveness (ExpiredLeaseSettles, DeliverySettles, QueuedIsClaimed,
DrainCompletes, StopEnds, CommandEnds, DeletionCompletes), because fairness and ENABLED are
outside the prover; and the claims under Findings, which do not hold. The models use no
RECURSIVE operator and no proof needs an induction over data: the first undelivered unit of
a plan and the newest artifact of a kind are found by well-founded minimality.

## Not modelled

External capacity facts, exact completion replay, the file lock of
`WorkerExecutionGuard` and the immutable step records of the queue; in the
delivery, the rejection of a Coder's candidate already stored (the decision
RETRY_REJECTED_CODER_OUTPUT appears only as a `Retry`, without the exclusion of that
candidate), the interruption
control, the transition gate, execution baselines, the content of knowledge gaps, and
Tasks without a retry policy; in the console, the removal of a deleted requirement's
operations and the recorded model calls. In the joint delivery, the correction of an
unstarted design (`unstarted_design_rejection`: no journal this code writes reaches it),
the limit of forty dialogue turns, attachments, verification recovery and the approvals a
resume hands through to a child; a pause is not refunded, as in the code. In the removal,
which rows, refs and files a plan lists, and the release of worktrees. The admission of a
Run against a pause request is ordered by one lock and has no model. Components marked not_modelled in PROJECT.json are
out of scope so far, or pure input and output.

## Plan

1. Compose WorkQueue and TaskDelivery (`QueuedDelivery`): the pass runs under a
   lease that may be lost, and TaskDelivery's one-pass assumption becomes a
   refinement.
2. Compose ProjectConsole, KnowledgeIndexWorker and the write gate under the shutdown
   coordinator and the host's requests; the service pause and the execution baseline
   pause over the queue.
3. Recovery of a blocked Task by a successor, and the native Manager delivery of one
   directory as the abstract child of JointDelivery.
4. The model router as a pure function against a reference definition.
5. Theorems about the compositions of items 1 and 2: that the queue's lease gives
   TaskDelivery its one pass (from `ClaimAgreementHolds`, `LocalDeadlineHolds` and
   `DeliveryImplementsRepository`), and that READY of the coordinator means that every part
   has stopped.
