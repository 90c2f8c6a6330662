---------------------------- MODULE TaskDelivery ----------------------------
(***************************************************************************)
(* The serial delivery of one Task: RetryingOrchestrator driven role by    *)
(* role through the work queue by QueuedDeliverySupervisor.  A pass loads  *)
(* the durable Task, events and artifacts, makes at most one role Run (the *)
(* one its claimed step permits) and ends at the next role boundary, which *)
(* it publishes as the next step.                                          *)
(*                                                                         *)
(* The repository, the artifact store and the queue are separate           *)
(* transactions, so every durable write is one action and the process may  *)
(* stop between any two of them.  The lease protocol that makes one pass   *)
(* own its step is the subject of WorkQueue.                               *)
(***************************************************************************)
EXTENDS TaskRepository, Sequences, FiniteSetsExt

CONSTANTS
    Engineering \* BOOLEAN: the Task carries an engineering_policy

ASSUME EngineeringAssumption == Engineering \in BOOLEAN

VARIABLES
    events,     \* the Task's state events; its revision is their number
    arts,       \* accepted artifacts in publication order
    step,       \* the open queued step: its boundary and what it waits for
    admitted,   \* the Task entered the role queue
    pass        \* volatile: the running orchestration pass

deliveryVars == <<status, attempts, failures, events, arts, step, admitted, pass>>

-----------------------------------------------------------------------------
(* Types                                                                   *)

\* target: the artifact a report verifies, or the progress a candidate
\* consumed; supersedes: the earlier artifact it replaces (0 for neither).
\* A Review's APPROVE and REJECT are PASS and FAIL.  A RETIRED artifact is a
\* QA report that a consumed decision excludes from the Task's artifacts.
Artifact == [kind : {"PLAN", "PROGRESS", "IMPLEMENTATION", "QA", "REVIEW", "RETIRED"},
             target : Nat, supersedes : Nat, attempt : Nat,
             verdict : {"NONE", "PASS", "FAIL", "INCONCLUSIVE"}]

StateEvent == [from : TaskStatus, to : TaskStatus, attempt : Nat, arts : SUBSET Nat]

RoleRunBoundary == [role : DeliveryRole, attempt : Nat, revision : Nat]

NoBoundary == [role |-> "NONE", attempt |-> 0, revision |-> 0]

\* item numbers the published work items.  rejected: the item waits because its
\* stored QA report does not cover the Task's criteria.  static counts the
\* STATIC_QA_MISSING_ENTRY decisions about the item as far as they matter: one
\* lets a rejected report be replaced, more, or a replacement, never do.
QueuedStep == [item : Nat, boundary : RoleRunBoundary \cup {NoBoundary},
               waiting : BOOLEAN, rejected : BOOLEAN,
               static : {"NONE", "DECIDED", "SPENT"}]

NoStep == [item |-> 0, boundary |-> NoBoundary, waiting |-> FALSE,
           rejected |-> FALSE, static |-> "NONE"]

\* The next READY item, for boundary b.
Published(b) == [item |-> step.item + 1, boundary |-> b, waiting |-> FALSE,
                 rejected |-> FALSE, static |-> "NONE"]

\* permit, consumed and recover are BoundedRunControl._permit, _consumed and
\* recover_candidate.  pc: "off" no pass; "loop" the orchestrator reads the
\* Task; "run" a role executes; "published" its output is stored; "rejected" its
\* stored QA report fails the check of the criteria; "route" the rework attempt
\* is reserved; "block" the Task is to be blocked.
PassPC == {"off", "loop", "run", "published", "rejected", "route", "block"}
NoPass == [pc |-> "off", permit |-> NoBoundary, consumed |-> FALSE, recover |-> FALSE]

TypeOK ==
    /\ status \in TaskStatus
    /\ attempts \in 0 .. MaxAttempts
    /\ failures \subseteq [role : DeliveryRole, attempt : Nat]
    /\ events \in Seq(StateEvent)
    /\ arts \in Seq(Artifact)
    /\ step \in QueuedStep
    /\ admitted \in BOOLEAN
    /\ pass \in [pc : PassPC,
                 permit : RoleRunBoundary \cup {NoBoundary},
                 consumed : BOOLEAN, recover : BOOLEAN]

Init ==
    /\ RepositoryInit
    /\ events = <<>>
    /\ arts = <<>>
    /\ step = NoStep
    /\ admitted = FALSE
    /\ pass = NoPass

-----------------------------------------------------------------------------
(* Reading the durable state                                               *)

\* Mutant: reports retired by a decision still count.
LatestStored(k) ==
    Max({0} \cup {i \in DOMAIN arts : arts[i].kind \in {k} \cup
                                      (IF k = "QA" THEN {"RETIRED"} ELSE {})})

\* Index of the last accepted artifact of kind k, 0 when there is none.
Latest(k) == Max({0} \cup {i \in DOMAIN arts : arts[i].kind = k})

\* The progress checkpoint no later candidate has consumed.
ActiveProgress ==
    IF Latest("PROGRESS") > Latest("IMPLEMENTATION") THEN Latest("PROGRESS") ELSE 0

Checkpointed == UNION {events[i].arts : i \in DOMAIN events}

\* _latest_transition_attempt(events, QUEUED)
QueuedAttempt ==
    Max({0} \cup {events[i].attempt : i \in {j \in DOMAIN events : events[j].to = "QUEUED"}})

Revision == Len(events)

Boundary(role) == [role |-> role, attempt |-> attempts, revision |-> Revision]

\* Mutant: a stored candidate is never recovered.
NeverRecoverable == FALSE

\* A candidate persisted by a pass that stopped before its QA event: decided
\* from the last event and the candidate's lineage.
RecoverableCandidate ==
    LET impl == Latest("IMPLEMENTATION")
        last == events[Revision]
    IN  /\ status = "IMPLEMENTING"
        /\ impl # 0
        /\ CASE last.from = "PLANNING" -> arts[impl].supersedes = 0
             [] last.from = "QUEUED" -> arts[impl].target \in last.arts
             [] last.from \in {"QA", "REVIEW"} -> arts[impl].supersedes # 0

\* Mutant: any report of the kind counts as current.
AnyReport(k, i) == Latest(k) # 0

\* The report of kind k is about artifact i and belongs to the verification
\* step of the current attempt (QueuedVerificationReservation.is_current).
CurrentReport(k, i) ==
    /\ Latest(k) # 0
    /\ arts[Latest(k)].target = i
    /\ arts[Latest(k)].attempt = attempts

CurrentQA == CurrentReport("QA", Latest("IMPLEMENTATION"))

CurrentReview ==
    /\ CurrentReport("REVIEW", Latest("QA"))
    /\ arts[Latest("QA")].target = Latest("IMPLEMENTATION")

\* Mutant: a pass does not look at the transient allowance when it starts.
NeverExhausted == FALSE

TransientExhausted ==
    \E role \in DeliveryRole :
        status = StatusOf(role) /\ Cardinality(TransientFailures(role)) >= Limit[role]

-----------------------------------------------------------------------------
(* Durable writes                                                          *)

Transition(to, ids) ==
    /\ status' = to
    /\ events' = Append(events, [from |-> status, to |-> to, attempt |-> attempts,
                                 arts |-> ids])
    /\ UNCHANGED <<attempts, failures, arts, step, admitted>>

ReserveAttempt ==
    /\ attempts' = attempts + 1
    /\ UNCHANGED <<status, failures, events, arts, step, admitted>>

Publish(a) ==
    /\ arts' = Append(arts, a)
    /\ UNCHANGED <<status, attempts, failures, events, step, admitted>>

\* Mutant: the next attempt is charged when the wait begins.
WaitCharged ==
    /\ step' = [step EXCEPT !.waiting = TRUE, !.rejected = (pass.pc = "rejected")]
    /\ attempts' = attempts + 1
    /\ UNCHANGED <<status, failures, events, arts, admitted>>

\* wait_for_delivery: the step is parked until an engineering decision.
Wait ==
    /\ step' = [step EXCEPT !.waiting = TRUE, !.rejected = (pass.pc = "rejected")]
    /\ UNCHANGED <<status, attempts, failures, events, arts, admitted>>

Goto(pc) == pass' = [pass EXCEPT !.pc = pc]
EndPass == pass' = NoPass

-----------------------------------------------------------------------------
(* A pass                                                                  *)

\* The probe before admission, or the pass that owns the queued step.
Begin ==
    /\ pass.pc = "off"
    /\ IF admitted THEN step # NoStep /\ ~step.waiting ELSE status \notin Terminal
    /\ pass' = [pc |-> IF TransientExhausted THEN "block" ELSE "loop",
                permit |-> step.boundary, consumed |-> FALSE,
                recover |-> RecoverableCandidate]
    /\ UNCHANGED <<status, attempts, failures, events, arts, step, admitted>>

\* Mutant: the PLANNING event is written before the attempt is reserved.
ValidateUnreserved ==
    /\ pass.pc = "loop"
    /\ status = "NEW"
    /\ Transition("PLANNING", {})
    /\ UNCHANGED pass

\* NEW: reserve attempt 1, then the PLANNING event.
Validate ==
    /\ pass.pc = "loop"
    /\ status = "NEW"
    /\ \/ attempts = 0 /\ ReserveAttempt
       \/ attempts # 0 /\ Transition("PLANNING", {})
    /\ UNCHANGED pass

\* PLANNING: the deterministic Planner publishes the plan, or fails.  A failure
\* an engineer may decide about ends the pass, since the probe holds no lease to
\* wait with; without a policy, or for a policy violation, it blocks the Task.
Plan ==
    /\ pass.pc = "loop"
    /\ status = "PLANNING"
    /\ \/ /\ Latest("PLAN") = 0
          /\ Publish([kind |-> "PLAN", target |-> 0, supersedes |-> 0,
                      attempt |-> attempts, verdict |-> "NONE"])
          /\ UNCHANGED pass
       \/ /\ Latest("PLAN") = 0
          /\ Engineering
          /\ EndPass
          /\ UNCHANGED <<status, attempts, failures, events, arts, step, admitted>>
       \/ /\ Latest("PLAN") = 0
          /\ Transition("BLOCKED", {})
          /\ EndPass
       \/ /\ Latest("PLAN") # 0
          /\ Transition("IMPLEMENTING", {Latest("PLAN")})
          /\ UNCHANGED pass

\* CONTINUE_REQUIRED -> QUEUED -> IMPLEMENTING with the next attempt, which a
\* stopped pass may already have reserved.
Continue ==
    /\ pass.pc = "loop"
    /\ \/ /\ status = "CONTINUE_REQUIRED"
          /\ Transition(IF WorkBudgetExhausted THEN "BLOCKED" ELSE "QUEUED",
                        {ActiveProgress})
       \/ /\ status = "QUEUED"
          /\ \/ attempts <= QueuedAttempt /\ ReserveAttempt
             \/ attempts > QueuedAttempt /\ Transition("IMPLEMENTING", {ActiveProgress})
    /\ UNCHANGED pass

ProgressPending == ActiveProgress # 0 /\ ActiveProgress \notin Checkpointed

\* IMPLEMENTING: output of a stopped pass is checkpointed without a Run.
RecoverOutput ==
    /\ pass.pc = "loop"
    /\ status = "IMPLEMENTING"
    /\ \/ /\ ProgressPending
          /\ Transition("CONTINUE_REQUIRED", {ActiveProgress})
          /\ UNCHANGED pass
       \/ /\ ~ProgressPending
          /\ pass.recover
          /\ Transition("QA", {Latest("IMPLEMENTATION")})
          /\ pass' = [pass EXCEPT !.recover = FALSE]

\* The orchestrator needs a Run of this role now.
NeedsRun(role) ==
    /\ pass.pc = "loop"
    /\ status = StatusOf(role)
    /\ CASE role = "CODER" -> ~ProgressPending /\ ~pass.recover
         [] role = "QA" -> ~CurrentQA
         [] role = "REVIEWER" -> ~CurrentReview

\* before_run: the permit is exactly this boundary and is not used yet.
Permitted(role) == ~pass.consumed /\ pass.permit = Boundary(role)

Run(role) ==
    /\ NeedsRun(role)
    /\ Permitted(role)
    /\ pass' = [pass EXCEPT !.pc = "run", !.consumed = TRUE]
    /\ UNCHANGED <<status, attempts, failures, events, arts, step, admitted>>

\* Mutant: the step is closed without its successor.
NextStepLost(role) ==
    /\ NeedsRun(role)
    /\ ~Permitted(role)
    /\ step' = IF admitted THEN NoStep ELSE Published(Boundary(role))
    /\ admitted' = TRUE
    /\ EndPass
    /\ UNCHANGED <<status, attempts, failures, events, arts>>

\* RoleRunPending ends the pass: the step is closed and the next published.
NextStep(role) ==
    /\ NeedsRun(role)
    /\ ~Permitted(role)
    /\ step' = Published(Boundary(role))
    /\ admitted' = TRUE
    /\ EndPass
    /\ UNCHANGED <<status, attempts, failures, events, arts>>

-----------------------------------------------------------------------------
(* Outcomes of a Run                                                       *)

Running(role) == pass.pc = "run" /\ pass.permit.role = role

\* What each role may publish.  A report supersedes the earlier report about
\* the same candidate, a candidate the earlier candidate.
Output(role) ==
    LET impl == Latest("IMPLEMENTATION")
        SameCandidate(r) ==
            r # 0 /\ IF arts[r].kind = "QA" THEN arts[r].target = impl
                                            ELSE arts[arts[r].target].target = impl
        Previous(k) == IF SameCandidate(Latest(k)) THEN Latest(k) ELSE 0
    IN  CASE role = "CODER" ->
               {[kind |-> "PROGRESS", target |-> 0, supersedes |-> ActiveProgress,
                 attempt |-> attempts, verdict |-> "NONE"],
                [kind |-> "IMPLEMENTATION", target |-> ActiveProgress,
                 supersedes |-> impl, attempt |-> attempts, verdict |-> "NONE"]}
          [] role = "QA" ->
               {[kind |-> "QA", target |-> impl, supersedes |-> Previous("QA"),
                 attempt |-> attempts, verdict |-> v]
                : v \in {"PASS", "FAIL", "INCONCLUSIVE"}}
          [] role = "REVIEWER" ->
               {[kind |-> "REVIEW", target |-> Latest("QA"),
                 supersedes |-> Previous("REVIEW"), attempt |-> attempts, verdict |-> v]
                : v \in {"PASS", "FAIL"}}

\* The output is stored before it is checked: a QA report may leave criteria out.
Succeed(role) ==
    /\ Running(role)
    /\ \E a \in Output(role) : Publish(a)
    /\ \/ role = "CODER" /\ Goto("published")
       \/ role # "CODER" /\ Goto("loop")
       \/ role = "QA" /\ Goto("rejected")

\* The Coder's event follows its artifact in a transaction of its own.
Checkpoint ==
    /\ pass.pc = "published"
    /\ LET last == Len(arts)
       IN  Transition(IF arts[last].kind = "PROGRESS" THEN "CONTINUE_REQUIRED" ELSE "QA",
                      {last})
    /\ Goto("loop")

\* A transient failure is recorded; unless it used up the role's allowance the
\* next attempt is reserved in the same transaction and the role goes on.
FailTransient(role) ==
    /\ Running(role)
    /\ WithRetryFailure(role)
    /\ Goto(IF ReservesNext(role) THEN "loop" ELSE "block")
    /\ UNCHANGED <<status, events, arts, step, admitted>>

\* Failure classes a Run may end with.  EXECUTION_UNCERTAIN stands for the
\* failures that wait whatever the policy (service pause, uncertain processes,
\* unavailable environment, knowledge preparation).
FailureClass == {"EXECUTION_UNCERTAIN", "POLICY_VIOLATION", "INVALID_OUTPUT",
                 "NONTRANSIENT_INFRA", "TRANSIENT_INFRA", "CONTEXT_CAPACITY",
                 "PLATFORM_BUG"}

\* DeliveryFailureFacts.budget_available
BudgetAvailable(class, role) ==
    /\ attempts < MaxAttempts
    /\ IF class = "TRANSIENT_INFRA"
       THEN Cardinality(TransientFailures(role)) < Limit[role]
       ELSE ~WorkBudgetExhausted

\* The failure parks the step; any other ends the Task.
Waits(class, role) ==
    \/ class = "EXECUTION_UNCERTAIN"
    \/ Engineering /\ class \in {"CONTEXT_CAPACITY", "PLATFORM_BUG",
                                 "VERIFICATION_INCONCLUSIVE"}
    \/ /\ Engineering
       /\ class \in {"INVALID_OUTPUT", "NONTRANSIENT_INFRA", "TRANSIENT_INFRA"}
       /\ BudgetAvailable(class, role)

Settle(class, role) ==
    \/ Waits(class, role) /\ Wait /\ EndPass
    \/ /\ ~Waits(class, role)
       /\ Transition(IF class = "PLATFORM_BUG" THEN "FAILED" ELSE "BLOCKED", {})
       /\ Goto("loop")

Fail(role, class) == Running(role) /\ Settle(class, role)

\* _validate_criteria raises: the stored report is a contract violation.  A pass
\* that stops before this never comes back to it.
RejectReport ==
    /\ pass.pc = "rejected"
    /\ Settle("PLATFORM_BUG", "QA")

\* The role's transient allowance is used up, so no failure control waits.
Block ==
    /\ pass.pc = "block"
    /\ Transition("BLOCKED", {})
    /\ Goto("loop")

-----------------------------------------------------------------------------
(* Verdicts                                                                *)

\* A current report of kind k that passed moves the Task forward.
Accept(k, current, to, ids) ==
    /\ pass.pc = "loop"
    /\ current
    /\ arts[Latest(k)].verdict = "PASS"
    /\ Transition(to, ids)
    /\ UNCHANGED pass

\* Findings: rework with a new attempt while the work budget lasts.  The
\* attempt and the event are two transactions.
Reject(k, current) ==
    /\ pass.pc = "loop"
    /\ current
    /\ arts[Latest(k)].verdict = "FAIL"
    /\ \/ WorkBudgetExhausted /\ Transition("BLOCKED", {Latest(k)}) /\ UNCHANGED pass
       \/ ~WorkBudgetExhausted /\ ReserveAttempt /\ Goto("route")

RouteToCoder ==
    /\ pass.pc = "route"
    /\ Transition("IMPLEMENTING",
                  {IF status = "QA" THEN Latest("QA") ELSE Latest("REVIEW")})
    /\ Goto("loop")

\* QA could not verify in its environment.
Inconclusive ==
    /\ pass.pc = "loop"
    /\ status = "QA"
    /\ CurrentQA
    /\ arts[Latest("QA")].verdict = "INCONCLUSIVE"
    /\ Settle("VERIFICATION_INCONCLUSIVE", "QA")

Verdict ==
    \/ Accept("QA", status = "QA" /\ CurrentQA, "REVIEW", {Latest("QA")})
    \/ Reject("QA", status = "QA" /\ CurrentQA)
    \/ Inconclusive
    \/ Accept("REVIEW", status = "REVIEW" /\ CurrentReview, "DONE",
              {Latest(k) : k \in {"PLAN", "IMPLEMENTATION", "QA", "REVIEW"}})
    \/ Reject("REVIEW", status = "REVIEW" /\ CurrentReview)
    \/ RouteToCoder

\* Mutant: the pass of a terminal Task ends without closing its step.
CloseForgotten ==
    /\ pass.pc = "loop"
    /\ status \in Terminal
    /\ EndPass
    /\ UNCHANGED <<status, attempts, failures, events, arts, step, admitted>>

\* A terminal Task closes its step; there is no successor.
Close ==
    /\ pass.pc = "loop"
    /\ status \in Terminal
    /\ step' = NoStep
    /\ EndPass
    /\ UNCHANGED <<status, attempts, failures, events, arts, admitted>>

\* The process stops, or an exception leaves the pass; the lease expires and
\* the step is dispatched again.
Crash ==
    /\ pass.pc # "off"
    /\ EndPass
    /\ UNCHANGED <<status, attempts, failures, events, arts, step, admitted>>

-----------------------------------------------------------------------------
(* Engineering decisions about a waiting step: resolve_wait                *)

\* The decision is bound to a live Task at the step's own revision.
Resolvable ==
    /\ step.waiting
    /\ status \notin Terminal
    /\ step.boundary.revision = Revision

\* The same item is dispatched again as a new generation.  A rejected report is
\* neither replayed (RESULT_REPLAY_REJECTED_CLASSIFICATIONS) nor uninvoked.
Resume ==
    /\ Resolvable
    /\ ~step.rejected
    /\ step' = [step EXCEPT !.waiting = FALSE]
    /\ UNCHANGED <<status, attempts, failures, events, arts, admitted, pass>>

\* STATIC_QA_MISSING_ENTRY: QA had no entry to run and accepted no output; the
\* same item verifies statically.
ResumeStatic ==
    /\ Resolvable
    /\ step.boundary = Boundary("QA")
    /\ ~CurrentQA
    /\ step' = [step EXCEPT !.waiting = FALSE,
                            !.static = IF @ = "NONE" THEN "DECIDED" ELSE "SPENT"]
    /\ UNCHANGED <<status, attempts, failures, events, arts, admitted, pass>>

\* A rejected report that a static verification produced and no event names.
ReportReplaceable ==
    /\ step.rejected
    /\ step.boundary = Boundary("QA")
    /\ CurrentQA
    /\ arts[Latest("QA")].verdict = "FAIL"
    /\ Latest("QA") \notin Checkpointed

\* The report is retired, the item closed, and one with the same role, attempt
\* and revision published in its place.
Replace ==
    /\ arts' = [arts EXCEPT ![Latest("QA")].kind = "RETIRED"]
    /\ step' = [Published(step.boundary) EXCEPT !.static = "SPENT"]
    /\ UNCHANGED <<status, attempts, failures, events, admitted, pass>>

\* Mutant: the replacement's own report may be replaced again.
RetryRejectedAgain ==
    /\ Resolvable
    /\ ReportReplaceable
    /\ step.static # "NONE"
    /\ Replace

\* RETRY_REJECTED_STATIC_QA_OUTPUT: QA runs again without a new attempt, once.
RetryRejectedQA ==
    /\ Resolvable
    /\ ReportReplaceable
    /\ step.static = "DECIDED"
    /\ Replace

\* Mutant: the retry does not ask for remaining ordinary work.
RetryUnbounded ==
    /\ Resolvable
    /\ attempts < MaxAttempts
    /\ attempts' = attempts + 1
    /\ step' = Published([step.boundary EXCEPT !.attempt = attempts + 1])
    /\ UNCHANGED <<status, failures, events, arts, admitted, pass>>

\* A retry of the role with a newly reserved attempt, paid from the ordinary
\* work budget or from the role's transient allowance.
Retry ==
    LET role == step.boundary.role IN
    /\ Resolvable
    /\ \/ /\ attempts < MaxAttempts
          /\ ~WorkBudgetExhausted
          /\ attempts' = attempts + 1
          /\ UNCHANGED failures
       \/ /\ FailureRecordable(role)
          /\ ReservesNext(role)
          /\ WithRetryFailure(role)
    /\ step' = Published([step.boundary EXCEPT !.attempt = attempts + 1])
    /\ UNCHANGED <<status, events, arts, admitted, pass>>

-----------------------------------------------------------------------------
(* Endings decided outside a pass                                          *)

\* The step's own Run accepted no output.
Unpublished ==
    \A i \in DOMAIN arts :
        arts[i].kind \in {"PROGRESS", "IMPLEMENTATION"} => arts[i].attempt # attempts

\* One transaction ends the Task and closes its Coder step.
SettleStep ==
    /\ step.boundary = Boundary("CODER")
    /\ status = "IMPLEMENTING"
    /\ pass.pc = "off"
    /\ Unpublished
    /\ status' = "BLOCKED"
    /\ events' = Append(events, [from |-> status, to |-> "BLOCKED",
                                 attempt |-> attempts, arts |-> {}])
    /\ step' = NoStep
    /\ UNCHANGED <<attempts, failures, arts, admitted, pass>>

\* settle_stopped_budget: the stopped Run of a waiting step spent the budget.
SettleStoppedBudget == step.waiting /\ WorkBudgetExhausted /\ SettleStep

\* settle_uninvoked_route_claim: a reclaimed step that never invoked its model.
SettleUninvokedRoute == ~step.waiting /\ SettleStep

\* RequirementCancellation: first the event (NEW has no BLOCKED edge and may
\* have no attempt yet), then, in close_cancelled_task, the queue.
Cancel ==
    LET to == IF status = "NEW" THEN "FAILED" ELSE "BLOCKED" IN
    /\ pass.pc = "off"
    /\ status \notin Terminal
    /\ status' = to
    /\ events' = Append(events, [from |-> status, to |-> to,
                                 attempt |-> Max({1, attempts}), arts |-> {}])
    /\ UNCHANGED <<attempts, failures, arts, step, admitted, pass>>

CloseCancelled ==
    /\ pass.pc = "off"
    /\ status \in Terminal
    /\ step # NoStep
    /\ step' = NoStep
    /\ UNCHANGED <<status, attempts, failures, events, arts, admitted, pass>>

\* A finished delivery is asked for again: the terminal result is returned.
Finished ==
    /\ status \in Terminal
    /\ step = NoStep
    /\ UNCHANGED deliveryVars

-----------------------------------------------------------------------------

Pass ==
    \/ Begin \/ Validate \/ Plan \/ Continue \/ RecoverOutput
    \/ \E role \in DeliveryRole :
        \/ Run(role) \/ NextStep(role) \/ Succeed(role) \/ FailTransient(role)
        \/ \E class \in FailureClass : Fail(role, class)
    \/ Checkpoint \/ RejectReport \/ Block \/ Verdict \/ Close

Next ==
    \/ Pass \/ Crash \/ Resume \/ ResumeStatic \/ RetryRejectedQA \/ Retry
    \/ SettleStoppedBudget \/ SettleUninvokedRoute \/ Cancel \/ CloseCancelled
    \/ Finished

Spec == Init /\ [][Next]_deliveryVars

\* The supervisor is called again until the delivery is settled, and a role
\* Run ends: every invocation has a time limit.  The fairness is strong at
\* each point of a pass: no point is interrupted in every try.
FairSpec ==
    Spec /\ \A pc \in PassPC : SF_deliveryVars(pass.pc = pc /\ Pass)

-----------------------------------------------------------------------------
(* Safety                                                                  *)

\* The artifacts each checkpoint relies on exist and say what the status
\* claims, through every crash: a Task under review has a passing QA report
\* about its newest candidate, a DONE Task also an approving Review of that
\* report.  (_run_task reports a PLATFORM_BUG where this fails.)
CheckpointEvidence ==
    LET impl == Latest("IMPLEMENTATION")
        qa == Latest("QA")
        review == Latest("REVIEW")
    IN  /\ status \in {"CONTINUE_REQUIRED", "QUEUED"} => ActiveProgress # 0
        /\ status \in {"QA", "REVIEW", "DONE"} => Latest("PLAN") # 0 /\ impl # 0
        /\ status \in {"REVIEW", "DONE"} =>
              qa # 0 /\ arts[qa].target = impl /\ arts[qa].verdict = "PASS"
        /\ status = "DONE" =>
              review # 0 /\ arts[review].target = qa /\ arts[review].verdict = "PASS"

\* No event claims an attempt that was not reserved before it, and attempts of
\* successive events never go back, so the recovered_attempt repair at the
\* start of a pass never has anything to do.  (route_transition_claim refuses a
\* history that breaks this.)  Only cancelling a NEW Task is exempt.
AttemptsReservedFirst ==
    /\ \A i \in DOMAIN events :
        \/ events[i].attempt \in 1 .. attempts
        \/ events[i].from = "NEW" /\ events[i].to = "FAILED"
    /\ \A i, j \in DOMAIN events : i < j => events[i].attempt <= events[j].attempt

\* However often a pass is stopped and started again, a role has at most one
\* output per reserved attempt: a stored output is never produced twice.  The one
\* exception is a rejected QA report, which a decision may retire and have
\* replaced: an attempt has at most one retired report beside the one that stands.
OneOutputPerAttempt ==
    LET Producer(i) == CASE arts[i].kind \in {"PROGRESS", "IMPLEMENTATION"} -> "CODER"
                         [] OTHER -> arts[i].kind
    IN  \A i, j \in DOMAIN arts :
            Producer(i) = Producer(j) /\ arts[i].attempt = arts[j].attempt => i = j

\* A step that waits for an engineering decision stays decidable until the Task
\* is cancelled: nothing else moved the Task past the role, attempt and revision
\* the decision is bound to.
WaitsDecidable ==
    step.waiting /\ status \notin Terminal =>
        /\ status = StatusOf(step.boundary.role)
        /\ step.boundary = Boundary(step.boundary.role)
        /\ pass.pc = "off"

\* An adopted Task that is not terminal always has a queued step ("nonterminal
\* adopted Task has no queued step" is QueueCorruption), not ahead of the Task.
AdoptedHasStep ==
    /\ admitted /\ status \notin Terminal => step # NoStep
    /\ step # NoStep => /\ step.boundary.revision <= Revision
                        /\ step.boundary.attempt <= attempts

\* A report retired by a decision has no part in the Task any more: no event
\* names it, and no report, Review or candidate refers to it or supersedes it.
RetiredReportUnused ==
    \A i \in DOMAIN arts : arts[i].kind = "RETIRED" =>
        /\ i \notin Checkpointed
        /\ \A j \in DOMAIN arts : i \notin {arts[j].target, arts[j].supersedes}

\* Boundary c comes after b: revision and attempt only grow, and one of them does.
Later(c, b) ==
    /\ c.revision >= b.revision /\ c.attempt >= b.attempt
    /\ c.revision > b.revision \/ c.attempt > b.attempt

\* A queued item keeps its identity (role, attempt, revision) while it is open,
\* and a published item never reuses the identity of an earlier one, with one
\* exception: a QA item whose report was rejected after a static verification is
\* replaced under its own identity, and a replacement is never replaced.
\* (_enqueue_locked refuses any other item with the identity of an earlier one.)
StepsAdvance ==
    [][step # NoStep /\ step' # NoStep =>
        IF step'.item = step.item
        THEN step'.boundary = step.boundary /\ (step.static = "SPENT" => step'.static = "SPENT")
        ELSE \/ Later(step'.boundary, step.boundary)
             \/ /\ step'.boundary = step.boundary /\ step.boundary.role = "QA"
                /\ step.rejected /\ step.static # "SPENT" /\ step'.static = "SPENT"
      ]_deliveryVars

\* _recoverable_candidate: "a candidate persisted immediately before its QA
\* checkpoint event", so no candidate is checkpointed for QA twice.
CandidateCheckpointedOnce ==
    \A i, j \in DOMAIN events :
        events[i].to = "QA" /\ events[j].to = "QA" /\ events[i].arts = events[j].arts
            => i = j

(* Liveness                                                                *)

\* However often passes are stopped, the delivery always settles again: the
\* Task ends with its step closed, or its step waits for a decision.  Under an
\* engineering policy a failed plan keeps its Task, and only the next delivery
\* call asks for it again.
DeliverySettles ==
    []<>(\/ step.waiting
         \/ status \in Terminal /\ step = NoStep
         \/ Engineering /\ status = "PLANNING" /\ pass.pc = "off")
=============================================================================
