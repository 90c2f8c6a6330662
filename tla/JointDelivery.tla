--------------------------- MODULE JointDelivery ---------------------------
(***************************************************************************)
(* One Requirement that spans several code directories: the append-only    *)
(* journal of its checkpoints and the JointDeliveryService whose commands  *)
(* append to it.                                                           *)
(*                                                                         *)
(* A command holds the journal's lock from start to end, so commands do    *)
(* not interleave with each other; people read the checkpoint and resolve  *)
(* knowledge gaps meanwhile.  A command appends several checkpoints and    *)
(* may end between any two of them by an exception or a crash, and the     *)
(* next one starts from the last checkpoint.  `run' is what such an end    *)
(* loses; everything else is durable.  Digests that bind a record to the   *)
(* one it was made from are version numbers, and a checkpoint's own digest *)
(* is human.shown: what a person looked at is still the current one.       *)
(***************************************************************************)
EXTENDS Integers, Sequences, FiniteSets

CONSTANTS
    Unit,           \* code directories
    Design,         \* technical designs the Designer may return
    NoDesign,       \* design is None
    Complex,        \* the designs the planning gate classifies as COMPLEX
    Writes,         \* [Design -> SUBSET Unit]: JointTechnicalDesign.units
    Limit,          \* [ModelStage -> RetryLimit]: max_attempts
    MaxTransient,   \* [ModelStage -> RetryLimit]: max_transient_failures, max_capacity_timeouts
    MaxRounds,      \* max_coordination_rounds
    MaxGaps,        \* bound: knowledge gaps raised
    MaxResets       \* bound: Design budgets reset

ModelStage == {"product", "design", "plan"}

\* What the retry policies admit; _validate_recheck relies on its upper bound.
RetryLimit == 1 .. 100

ASSUME JointConstants ==
    /\ IsFiniteSet(Unit)
    /\ NoDesign \notin Design
    /\ Complex \subseteq Design
    /\ Writes \in [Design -> (SUBSET Unit) \ {{}}]
    /\ Limit \in [ModelStage -> RetryLimit]
    /\ MaxTransient \in [ModelStage -> RetryLimit]
    /\ {MaxRounds, MaxGaps, MaxResets} \subseteq Nat

VARIABLES
    scope,      \* the code directories the Requirement selected: immutable
    cp,         \* the current checkpoint of the journal
    run,        \* the command that holds the lock
    human,      \* what a person last looked at
    know,       \* knowledge gaps raised, waited on, waited on in Design, and resolved
    receipt,    \* a CLOSE_REQUIREMENT cancellation receipt exists
    audit,      \* history: invocations since the budget was reset, less the refunded
                \* ones, and the resets of the Design budget
    refused     \* history: the journal refused a checkpoint of the service

vars == <<scope, cp, run, human, know, receipt, audit, refused>>

-----------------------------------------------------------------------------
(* Types                                                                   *)

JointStage == {"PREPARING", "READY_FOR_DISCUSSION", "PRODUCT_DISCOVERY",
               "WAITING_PRODUCT_REPLY", "WAITING_PRODUCT_APPROVAL", "DESIGNING",
               "PLANNING", "DELIVERING", "INTEGRATING", "DONE", "CLOSED",
               "WAITING_HUMAN", "BLOCKED"}

Drafting == {"READY_FOR_DISCUSSION", "PRODUCT_DISCOVERY", "WAITING_PRODUCT_REPLY",
             "WAITING_PRODUCT_APPROVAL"}

\* none: not delivered yet; waiting: any native stage that is neither terminal nor
\* failed; repeated: blocked with the facts repeated_child_failure looks for.
ChildState == {"none", "waiting", "blocked", "repeated", "done"}

Counter == ModelStage \cup {"integration"}

NoPlan == [order |-> <<>>, id |-> 0, revised |-> FALSE]
NoEvidence == [result |-> "none", plan |-> 0]
NoDecision == <<>>

\* resume: in resume(); stage: at the head of _advance_stages; charged, call: before
\* and in a call of a model or of the backend; gap: a gap was raised; stopped: a
\* child that is not done was saved; diagnose: the Manager coordinates.
CommandPC == {"idle", "resume", "stage", "charged", "call", "gap", "stopped", "diagnose"}

Idle == [pc |-> "idle", err |-> "none", rounds |-> 0, gap |-> 0]

SelectedWrites(d) == Writes[d] \cap scope

FirstCheckpoint ==
    [stage |-> "PREPARING", wait |-> "none", gap |-> 0, rechecks |-> {},
     prepared |-> {}, conflict |-> FALSE, spec |-> 0, approval |-> 0,
     design |-> NoDesign, plan |-> NoPlan, decision |-> NoDecision,
     upgrade |-> NoDesign, feedback |-> FALSE, children |-> [u \in Unit |-> "none"],
     integration |-> NoEvidence, retry |-> FALSE, single |-> FALSE,
     attempts |-> [k \in Counter |-> 0], transient |-> [k \in ModelStage |-> 0]]

TypeOK ==
    /\ scope \in (SUBSET Unit) \ {{}}
    /\ cp.stage \in JointStage /\ cp.wait \in JointStage \cup {"none"}
    /\ cp.gap \in 0 .. MaxGaps /\ cp.rechecks \subseteq 1 .. MaxGaps
    /\ cp.prepared \subseteq scope
    /\ cp.spec \in 0 .. Limit["product"] /\ cp.approval \in 0 .. Limit["product"]
    /\ {cp.design, cp.upgrade} \subseteq Design \cup {NoDesign}
    /\ cp.decision \in {NoDecision} \cup (Design \X BOOLEAN)
    /\ cp.plan.order \in Seq(scope) /\ cp.plan.id \in 0 .. Limit["plan"]
    /\ cp.children \in [Unit -> ChildState]
    /\ cp.integration.result \in {"none", "failed", "passed"}
    /\ cp.attempts \in [Counter -> Nat] /\ cp.transient \in [ModelStage -> Nat]
    /\ {cp.conflict, cp.feedback, cp.plan.revised, cp.retry, cp.single, receipt, refused}
            \subseteq BOOLEAN
    /\ run \in [pc : CommandPC, err : {"none", "retryable", "fatal"},
                rounds : 0 .. MaxRounds, gap : 0 .. MaxGaps]
    /\ human \in [shown : BOOLEAN, looked : 0 .. Limit["product"]]
    /\ know \in [raised : 0 .. MaxGaps, waits : SUBSET (1 .. MaxGaps),
                 designWaits : SUBSET (1 .. MaxGaps), resolved : SUBSET (1 .. MaxGaps)]
    /\ audit \in [calls : [Counter -> Int], resets : 0 .. MaxResets]

Init ==
    /\ scope \in (SUBSET Unit) \ {{}}
    /\ \E d \in Design : SelectedWrites(d) # {}
    /\ cp = FirstCheckpoint
    /\ run = [Idle EXCEPT !.pc = "stage"]
    /\ human = [shown |-> FALSE, looked |-> 0]
    /\ know = [raised |-> 0, waits |-> {}, designWaits |-> {}, resolved |-> {}]
    /\ receipt = FALSE
    /\ audit = [calls |-> [k \in Counter |-> 0], resets |-> 0]
    /\ refused = FALSE

-----------------------------------------------------------------------------
(* What the journal accepts                                                *)

Children(c) == {u \in Unit : c.children[u] # "none"}
AllDone(c) == \A u \in Children(c) : c.children[u] = "done"
PlanUnits(c) == {c.plan.order[i] : i \in DOMAIN c.plan.order}
Failing(c) == c.integration.result = "failed"

\* joint_planning_decision: the upgrade a human made must bind this very design.
DecisionComputable(c) == c.upgrade \in {NoDesign, c.design}
PlanningDecision(c) == <<c.design, c.upgrade # NoDesign>>
IsComplex(c) ==
    Cardinality(scope) > 1 \/ c.design \in Complex \/ c.upgrade # NoDesign

\* DONE in JointCheckpoint.validate_chain.
DoneIsEvidenced(c) ==
    IF c.single
    THEN Cardinality(scope) = 1 /\ Children(c) = scope /\ AllDone(c)
    ELSE /\ c.plan # NoPlan
         /\ Children(c) = PlanUnits(c) /\ AllDone(c)
         /\ c.integration = [result |-> "passed", plan |-> c.plan.id]

\* JointCheckpoint.validate_chain.
ValidChain(c) ==
    /\ c.retry => AllDone(c) /\ c.attempts["integration"] \in 3 .. 4
    /\ c.approval # 0 => c.spec = c.approval
    /\ c.rechecks # {} => c.approval # 0
    /\ c.design # NoDesign => c.approval # 0
    /\ c.plan # NoPlan => c.design # NoDesign /\ PlanUnits(c) = SelectedWrites(c.design)
    /\ c.decision # NoDecision => c.design # NoDesign /\ c.decision = PlanningDecision(c)
    /\ c.plan # NoPlan /\ c.feedback => c.plan.revised
    /\ c.stage = "DONE" => DoneIsEvidenced(c)

\* design_recheck_available, for the budget limits it is given.
RecheckAvailable(c, limit, transient) ==
    /\ c.stage = "WAITING_HUMAN" /\ c.wait \in {"DESIGNING", "PLANNING"}
    /\ c.gap # 0 /\ c.gap \notin c.rechecks
    /\ c.approval # 0 /\ Children(c) = {} /\ c.plan = NoPlan
    /\ c.attempts["design"] < limit /\ c.transient["design"] < transient

\* _validate_recheck: a recheck hands the wait over with no budget changed.
IsRecheck(p, n) ==
    /\ n.rechecks # p.rechecks
    /\ n.rechecks = p.rechecks \cup {p.gap}
    /\ RecheckAvailable(p, 100, 100)
    /\ n.stage = "DESIGNING" /\ n.design = NoDesign /\ n.plan = NoPlan
    /\ n.decision = NoDecision /\ ~n.feedback /\ n.gap = 0 /\ n.wait = "none"
    /\ n.attempts = p.attempts /\ n.children = p.children
    /\ n.prepared = p.prepared

\* The approval of one more integration run binds the failed one before it.
IsRetryApproval(p, n) ==
    /\ ~p.retry /\ n.retry
    /\ p.attempts["integration"] = 3 /\ Failing(p)
    /\ p.stage \in {"BLOCKED", "PLANNING"}
    /\ <<n.children, n.attempts, n.plan, n.integration, n.stage>>
         = <<p.children, p.attempts, p.plan, p.integration, p.stage>>

\* _validate_successor, without the hash chain that append itself maintains.
ValidSuccessor(p, n) ==
    /\ p.stage # "DONE"
    /\ p.approval # 0 => n.spec = p.spec /\ n.approval = p.approval
    /\ n.retry # p.retry => IsRetryApproval(p, n)
    /\ n.rechecks # p.rechecks => IsRecheck(p, n)
    /\ p.design # NoDesign /\ n.design # p.design => IsRecheck(p, n)
    /\ p.upgrade # NoDesign => n.upgrade = p.upgrade
    /\ p.decision # NoDecision /\ n.decision # p.decision =>
          \/ IsRecheck(p, n)
          \/ /\ p.upgrade = NoDesign /\ n.upgrade # NoDesign
             /\ p.stage = "PLANNING" /\ p.plan = NoPlan
             /\ n.decision # NoDecision /\ n.decision[1] = p.decision[1]
    /\ p.retry => n.attempts["integration"] >= p.attempts["integration"]
    /\ p.single => n.single
    /\ p.plan # NoPlan /\ n.plan # p.plan =>
          /\ p.stage = "BLOCKED" /\ p.integration # NoEvidence
          /\ n.stage = "PLANNING" /\ n.plan = NoPlan /\ n.integration = p.integration

Admitted(c) == ValidChain(c) /\ ValidSuccessor(cp, c)

\* _save: append checkpoint c and go on as r.  A refused one ends the command.
Save(c, r) ==
    LET admitted == Admitted(c) IN
    /\ cp' = IF admitted THEN c ELSE cp
    /\ run' = IF admitted THEN r ELSE Idle
    /\ refused' = (refused \/ ~admitted)
    /\ human' = [human EXCEPT !.shown = FALSE]

Goto(pc) == [run EXCEPT !.pc = pc]
At(pc) == run.pc = pc

-----------------------------------------------------------------------------
(* The gates of the stages                                                 *)

\* repeated_child_failure
RepeatedChildFailure(c) ==
    c.stage = "BLOCKED" /\ c.plan # NoPlan /\ \E u \in Unit : c.children[u] = "repeated"

\* StageWorkflowProof._failure_facts
FailureFacts(c) ==
    \/ c.stage = "PLANNING" /\ c.feedback
    \/ RepeatedChildFailure(c)
    \/ /\ c.stage = "BLOCKED" /\ c.plan # NoPlan
       /\ c.integration = [result |-> "failed", plan |-> c.plan.id]

\* StageWorkflowProof._validate_recovery of a blocked checkpoint.
RecoveryGate(c) ==
    /\ c.stage = "BLOCKED" /\ c.plan # NoPlan
    /\ FailureFacts(c) \/ ~AllDone(c)

\* stage_budget
BudgetLeft(k) == cp.attempts[k] < Limit[k] /\ cp.transient[k] < MaxTransient[k]

\* The counter of the stage that calls a model.
CounterOf(stage) == CASE stage = "PRODUCT_DISCOVERY" -> "product"
                      [] stage = "DESIGNING" -> "design"
                      [] stage = "PLANNING" -> "plan"
                      [] stage = "INTEGRATING" -> "integration"
                      [] OTHER -> "none"

ModelStageActive == CounterOf(cp.stage) \in ModelStage

\* resume: the three integration runs are used up.
IntegrationUsedUp ==
    cp.stage \in {"BLOCKED", "PLANNING"} /\ cp.attempts["integration"] >= 3 /\ Failing(cp)

\* _complete_single_repository
SingleComplete ==
    /\ cp.stage \in {"PLANNING", "DELIVERING", "INTEGRATING", "BLOCKED"}
    /\ Cardinality(scope) = 1
    /\ Children(cp) # {} /\ AllDone(cp)

-----------------------------------------------------------------------------
(* People                                                                  *)

\* status: the checkpoint is displayed; a later display replaces one made while a
\* command was saving.
Look ==
    /\ At("idle") /\ ~human.shown
    /\ human' = [shown |-> TRUE, looked |-> IF cp.approval = 0 THEN cp.spec ELSE 0]
    /\ UNCHANGED <<scope, cp, run, know, receipt, audit, refused>>

\* approve_resolution: the current checkpoint waits for this gap.  The resolution is
\* recorded without the lock, so the checkpoint may have moved on since it was read.
Resolve(g) ==
    /\ g \in know.waits \ know.resolved
    /\ know' = [know EXCEPT !.resolved = @ \cup {g}]
    /\ UNCHANGED <<scope, cp, run, human, receipt, audit, refused>>

\* A command gets the lock and its expected checkpoint is the current one.
Command == At("idle") /\ human.shown

Reply ==
    /\ Command
    /\ cp.stage \in {"READY_FOR_DISCUSSION", "WAITING_PRODUCT_REPLY",
                     "WAITING_PRODUCT_APPROVAL"}
    /\ Save([cp EXCEPT !.stage = "PRODUCT_DISCOVERY", !.spec = 0],
            Goto("stage"))
    /\ UNCHANGED <<scope, know, receipt, audit>>

\* Mutant: the approval does not compare the expected checkpoint.
ApproveUnseen ==
    /\ At("idle")
    /\ cp.stage = "WAITING_PRODUCT_APPROVAL" /\ cp.spec # 0
    /\ Save([cp EXCEPT !.stage = "DESIGNING", !.approval = cp.spec], Goto("stage"))
    /\ UNCHANGED <<scope, know, receipt, audit>>

Approve ==
    /\ Command
    /\ cp.stage = "WAITING_PRODUCT_APPROVAL" /\ cp.spec # 0
    /\ Save([cp EXCEPT !.stage = "DESIGNING", !.approval = cp.spec], Goto("stage"))
    /\ UNCHANGED <<scope, know, receipt, audit>>

\* The draft of a Requirement, a stop, or a verified wait of the engineering is
\* withdrawn.  The receipt is published when there are native Tasks to cancel.
Close ==
    /\ Command
    /\ \/ /\ cp.stage \in Drafting \cup {"BLOCKED"}
          /\ receipt' \in {b \in BOOLEAN :
                /\ b => Children(cp) # {}
                /\ (\E u \in Unit : cp.children[u] \in {"repeated", "done"}) => b}
       \/ /\ cp.stage = "DELIVERING" /\ \E u \in Unit : cp.children[u] = "waiting"
          /\ receipt' = TRUE
    /\ Save([cp EXCEPT !.stage = "CLOSED"], Idle)
    /\ UNCHANGED <<scope, know, audit>>

Restart ==
    /\ Command
    /\ cp.stage = "CLOSED" /\ ~receipt
    /\ Save([cp EXCEPT !.stage = "BLOCKED"], Idle)
    /\ UNCHANGED <<scope, know, receipt, audit>>

\* Mutant: the decision of the planning gate outlives the design it was made for.
RecheckKeepsDecision ==
    /\ Command
    /\ RecheckAvailable(cp, Limit["design"], MaxTransient["design"])
    /\ cp.gap \notin know.resolved
    /\ Save([cp EXCEPT !.stage = "DESIGNING", !.gap = 0, !.wait = "none",
                       !.rechecks = @ \cup {cp.gap}, !.design = NoDesign,
                       !.plan = NoPlan, !.feedback = FALSE],
            Idle)
    /\ UNCHANGED <<scope, know, receipt, audit>>

\* Design investigates the gap again although nobody answered it.
RecheckDesign ==
    /\ Command
    /\ RecheckAvailable(cp, Limit["design"], MaxTransient["design"])
    /\ cp.gap \notin know.resolved
    /\ Save([cp EXCEPT !.stage = "DESIGNING", !.gap = 0, !.wait = "none",
                       !.rechecks = @ \cup {cp.gap}, !.design = NoDesign,
                       !.plan = NoPlan, !.decision = NoDecision, !.feedback = FALSE],
            Idle)
    /\ UNCHANGED <<scope, know, receipt, audit>>

\* The work budget of Design is reset after an approved wait of its history.
RecoverDesign ==
    /\ Command
    /\ cp.stage \in {"DESIGNING", "WAITING_HUMAN"}
    /\ cp.design = NoDesign /\ cp.plan = NoPlan
    /\ cp.attempts["design"] >= Limit["design"] /\ cp.transient["design"] < MaxTransient["design"]
    /\ know.designWaits \cap know.resolved # {}
    /\ audit.resets < MaxResets
    /\ Save([cp EXCEPT !.stage = "DESIGNING", !.wait = "none", !.gap = 0,
                       !.attempts["design"] = 0],
            Goto("stage"))
    /\ audit' = [calls |-> [audit.calls EXCEPT !["design"] = 0],
                 resets |-> audit.resets + 1]
    /\ UNCHANGED <<scope, know, receipt>>

UpgradePlanning ==
    /\ Command
    /\ cp.stage = "PLANNING" /\ cp.plan = NoPlan
    /\ cp.upgrade = NoDesign
    /\ Save([cp EXCEPT !.upgrade = cp.design, !.decision = <<cp.design, TRUE>>], Idle)
    /\ UNCHANGED <<scope, know, receipt, audit>>

-----------------------------------------------------------------------------
(* resume                                                                  *)

Resume ==
    /\ At("idle")
    /\ run' = Goto("resume")
    /\ UNCHANGED <<scope, cp, human, know, receipt, audit, refused>>

CompleteSingle ==
    /\ At("resume") \/ At("stage")
    /\ SingleComplete
    /\ Save([cp EXCEPT !.stage = "DONE", !.single = TRUE], Idle)
    /\ UNCHANGED <<scope, know, receipt, audit>>

\* The approved integration run is used up as well.
RetryUsedUp ==
    /\ At("resume") /\ ~SingleComplete
    /\ IntegrationUsedUp /\ cp.retry /\ cp.attempts["integration"] >= 4
    /\ Save([cp EXCEPT !.stage = "BLOCKED"], Idle)
    /\ UNCHANGED <<scope, know, receipt, audit>>

\* The proposal binds the displayed checkpoint and its completed children.
ApproveRetry ==
    /\ At("resume") /\ ~SingleComplete
    /\ IntegrationUsedUp /\ ~cp.retry
    /\ cp.attempts["integration"] = 3 /\ Children(cp) # {} /\ AllDone(cp)
    /\ human.shown
    /\ Save([cp EXCEPT !.retry = TRUE], Goto("resume"))
    /\ UNCHANGED <<scope, know, receipt, audit>>

\* Only the children that are not done are delivered again.
RecoverChildren ==
    /\ At("resume") /\ ~SingleComplete /\ ~IntegrationUsedUp
    /\ cp.integration = NoEvidence /\ RecoveryGate(cp)
    /\ Save([cp EXCEPT !.stage = "DELIVERING"], Goto("stage"))
    /\ UNCHANGED <<scope, know, receipt, audit>>

\* A failed integration is planned again; its evidence is retained.
Replan ==
    /\ At("resume") /\ ~SingleComplete
    /\ IntegrationUsedUp => cp.retry /\ cp.attempts["integration"] < 4
    /\ cp.stage = "BLOCKED" /\ Failing(cp) /\ FailureFacts(cp)
    /\ Save([cp EXCEPT !.stage = "PLANNING", !.feedback = TRUE, !.plan = NoPlan],
            Goto("stage"))
    /\ UNCHANGED <<scope, know, receipt, audit>>

\* The proposal is returned, or the recovery gate refuses: nothing is saved.
ResumeRefused ==
    /\ At("resume") /\ ~SingleComplete
    /\ \/ IntegrationUsedUp /\ ~cp.retry
       \/ ~IntegrationUsedUp /\ cp.stage = "BLOCKED" /\ ~RecoveryGate(cp)
    /\ run' = Idle
    /\ UNCHANGED <<scope, cp, human, know, receipt, audit, refused>>

\* Nothing is to be recovered.
ResumeAdvances ==
    /\ At("resume") /\ ~SingleComplete
    /\ cp.stage # "BLOCKED"
    /\ IntegrationUsedUp => cp.retry /\ cp.attempts["integration"] < 4
    /\ run' = Goto("stage")
    /\ UNCHANGED <<scope, cp, human, know, receipt, audit, refused>>

-----------------------------------------------------------------------------
(* _advance_stages: waits, preparation and the calls of models             *)

\* Nothing to do for the platform, or the gap is not resolved.
StageWaits ==
    /\ At("stage")
    /\ \/ cp.stage \in (Drafting \ {"PRODUCT_DISCOVERY"}) \cup {"DONE", "CLOSED"}
       \/ cp.stage = "WAITING_HUMAN" /\ (cp.gap = 0 \/ cp.gap \notin know.resolved)
    /\ run' = Idle
    /\ UNCHANGED <<scope, cp, human, know, receipt, audit, refused>>

\* Mutant: a wait ends without a resolution of its gap.
GapForgotten ==
    /\ At("stage")
    /\ cp.stage = "WAITING_HUMAN" /\ cp.gap # 0
    /\ Save([cp EXCEPT !.stage = cp.wait, !.wait = "none", !.gap = 0], Goto("stage"))
    /\ UNCHANGED <<scope, know, receipt, audit>>

GapResolved ==
    /\ At("stage")
    /\ cp.stage = "WAITING_HUMAN" /\ cp.gap # 0 /\ cp.gap \in know.resolved
    /\ Save([cp EXCEPT !.stage = cp.wait, !.wait = "none", !.gap = 0], Goto("stage"))
    /\ UNCHANGED <<scope, know, receipt, audit>>

PrepareUnit(u) ==
    /\ At("stage") /\ cp.stage = "PREPARING"
    /\ u \in scope \ cp.prepared
    /\ \/ \E conflict \in BOOLEAN :
            Save([cp EXCEPT !.prepared = @ \cup {u}, !.conflict = @ \/ conflict],
                 Goto("stage"))
       \/ Save([cp EXCEPT !.stage = "BLOCKED"], Goto("diagnose"))
    /\ UNCHANGED <<scope, know, receipt, audit>>

\* An intake that describes the Requirement goes to the Product Agent at once.
Prepared(described) ==
    /\ At("stage") /\ cp.stage = "PREPARING"
    /\ cp.prepared = scope
    /\ IF cp.conflict THEN Save([cp EXCEPT !.stage = "WAITING_HUMAN"], Idle)
       ELSE IF described
            THEN Save([cp EXCEPT !.stage = "PRODUCT_DISCOVERY"], Goto("stage"))
            ELSE Save([cp EXCEPT !.stage = "READY_FOR_DISCUSSION"], Idle)
    /\ UNCHANGED <<scope, know, receipt, audit>>

\* The planning gate fixes its decision before a plan is made.
Decide ==
    /\ At("stage") /\ cp.stage = "PLANNING" /\ ~SingleComplete
    /\ cp.decision = NoDecision /\ DecisionComputable(cp)
    /\ Save([cp EXCEPT !.decision = PlanningDecision(cp)], Goto("stage"))
    /\ UNCHANGED <<scope, know, receipt, audit>>

GateDecided == cp.stage = "PLANNING" =>
    cp.decision # NoDecision /\ DecisionComputable(cp) /\ cp.decision = PlanningDecision(cp)

\* A call of a model is due: not for a plan that needs no Planner.
CallDue ==
    /\ At("stage") /\ ModelStageActive /\ ~SingleComplete
    /\ GateDecided
    /\ cp.stage = "PLANNING" => IsComplex(cp)

\* Mutant: the call starts before its attempt is saved.
CallUncharged(k) == run' = Goto("charged") /\ UNCHANGED <<cp, human, refused>>

\* _attempt: the attempt is saved before the call it pays for.
Attempt(k) == Save([cp EXCEPT !.attempts[k] = @ + 1], Goto("charged"))

Charge ==
    /\ CallDue
    /\ BudgetLeft(CounterOf(cp.stage))
    /\ Attempt(CounterOf(cp.stage))
    /\ UNCHANGED <<scope, know, receipt, audit>>

\* The budget is exhausted, or the upgrade binds another design.
CallRefused ==
    /\ At("stage") /\ ModelStageActive /\ ~SingleComplete
    /\ \/ CallDue /\ ~BudgetLeft(CounterOf(cp.stage))
       \/ cp.stage = "PLANNING" /\ ~DecisionComputable(cp)
    /\ run' = Idle
    /\ UNCHANGED <<scope, cp, human, know, receipt, audit, refused>>

\* The model or the integration commands start.
Invoke ==
    /\ At("charged")
    /\ run' = Goto("call")
    /\ audit' = [audit EXCEPT !.calls[CounterOf(cp.stage)] = @ + 1]
    /\ UNCHANGED <<scope, cp, human, know, receipt, refused>>

Calling == At("call") /\ ModelStageActive

Refunded == [cp EXCEPT !.attempts[CounterOf(cp.stage)] = @ - 1]

\* A gap that is raised now, or one of this Requirement that still is unanswered.
OpenGap(g) ==
    \/ g = know.raised + 1 /\ g <= MaxGaps
    \/ g \in (1 .. know.raised) \ (know.resolved \cup cp.rechecks)

\* _stage_output: the unfinished producer gets its attempt back.
GapRefund == Refunded

RaiseGap(g) ==
    /\ Calling
    /\ OpenGap(g)
    /\ Save(GapRefund, [run EXCEPT !.pc = "gap", !.gap = g])
    /\ know' = [know EXCEPT !.raised = IF g > @ THEN g ELSE @]
    /\ audit' = [audit EXCEPT !.calls[CounterOf(cp.stage)] = @ - 1]
    /\ UNCHANGED <<scope, receipt>>

\* _advance_once turns a gap into a wait of the stage it was raised in.
WaitForGap ==
    /\ At("gap")
    /\ Save([cp EXCEPT !.stage = "WAITING_HUMAN", !.wait = cp.stage, !.gap = run.gap], Idle)
    /\ know' = [know EXCEPT !.waits = @ \cup {run.gap}, !.designWaits =
                    IF cp.stage = "DESIGNING" THEN @ \cup {run.gap} ELSE @]
    /\ UNCHANGED <<scope, receipt, audit>>

\* A transient failure or an expandable timeout has a budget of its own.
CallFailsTransiently ==
    /\ Calling
    /\ Save([Refunded EXCEPT !.transient[CounterOf(cp.stage)] = @ + 1],
            [run EXCEPT !.pc = "diagnose", !.err = "retryable"])
    /\ UNCHANGED <<scope, know, receipt, audit>>

\* Output that fails its schema, a context that is too large: the attempt is spent.
CallFails ==
    /\ At("call") /\ cp.stage # "INTEGRATING"
    /\ run' = [run EXCEPT !.pc = "diagnose", !.err = "fatal"]
    /\ UNCHANGED <<scope, cp, human, know, receipt, audit, refused>>

\* A service pause leaves the stage; only the text of the next action is saved.
Pause ==
    /\ CallDue \/ At("call") \/ (At("stage") /\ cp.stage = "INTEGRATING")
    /\ Save(cp, Idle)
    /\ UNCHANGED <<scope, know, receipt, audit>>

-----------------------------------------------------------------------------
(* _advance_stages: what the models return                                 *)

ProductClarifies ==
    /\ Calling /\ cp.stage = "PRODUCT_DISCOVERY"
    /\ Save([cp EXCEPT !.stage = "WAITING_PRODUCT_REPLY"], Idle)
    /\ UNCHANGED <<scope, know, receipt, audit>>

ProductProposes ==
    /\ Calling /\ cp.stage = "PRODUCT_DISCOVERY"
    /\ Save([cp EXCEPT !.stage = "WAITING_PRODUCT_APPROVAL",
                       !.spec = cp.attempts["product"]],
            Idle)
    /\ UNCHANGED <<scope, know, receipt, audit>>

\* A design that is not ready goes back as feedback within the budget.
DesignRejected ==
    /\ Calling /\ cp.stage = "DESIGNING"
    /\ Save(cp, Goto("stage"))
    /\ UNCHANGED <<scope, know, receipt, audit>>

DesignAccepted(d) ==
    /\ Calling /\ cp.stage = "DESIGNING"
    /\ SelectedWrites(d) # {}
    /\ Save([cp EXCEPT !.stage = "PLANNING", !.design = d], Goto("stage"))
    /\ UNCHANGED <<scope, know, receipt, audit>>

\* The Planner answered, or the gate lets the fast plan do.
PlanAtHand ==
    \/ Calling /\ cp.stage = "PLANNING"
    \/ At("stage") /\ cp.stage = "PLANNING" /\ ~SingleComplete /\ GateDecided /\ ~IsComplex(cp)

\* A correctable plan is asked for again while the budget lasts.
PlanRejected(correctable) ==
    /\ PlanAtHand
    /\ Save([cp EXCEPT !.feedback = TRUE],
            IF correctable /\ IsComplex(cp) /\ cp.attempts["plan"] < Limit["plan"]
            THEN Goto("stage") ELSE Idle)
    /\ UNCHANGED <<scope, know, receipt, audit>>

\* The units of the design in any order the Planner found dependency-first.
Orders(units) == {s \in [1 .. Cardinality(units) -> units] :
                     \A i, j \in DOMAIN s : s[i] = s[j] => i = j}

PlanAccepted(order) ==
    /\ PlanAtHand
    /\ order \in Orders(SelectedWrites(cp.design))
    /\ Save([cp EXCEPT !.stage = "DELIVERING", !.integration = NoEvidence,
                       !.plan = [order |-> order, id |-> cp.attempts["plan"],
                                 revised |-> cp.feedback]],
            Goto("stage"))
    /\ UNCHANGED <<scope, know, receipt, audit>>

-----------------------------------------------------------------------------
(* _advance_stages: the repositories one after the other, then together    *)

\* Mutant: a repository whose delivery is complete is visited again.
EveryUnit == PlanUnits(cp)

\* A completed child is skipped.
UnitsToDeliver == {u \in PlanUnits(cp) : cp.children[u] # "done"}

NextUnit == cp.plan.order[CHOOSE i \in DOMAIN cp.plan.order :
                             /\ cp.plan.order[i] \in UnitsToDeliver
                             /\ \A j \in 1 .. i - 1 : cp.plan.order[j] \notin UnitsToDeliver]

StartDelivery ==
    /\ At("stage") /\ cp.stage = "DELIVERING" /\ ~SingleComplete
    /\ UnitsToDeliver # {}
    /\ run' = Goto("call")
    /\ UNCHANGED <<scope, cp, human, know, receipt, audit, refused>>

\* backend.deliver returns the native delivery of the unit.
ChildReturned(state) ==
    /\ At("call") /\ cp.stage = "DELIVERING"
    /\ Save([cp EXCEPT !.children[NextUnit] = state],
            Goto(IF state = "done" THEN "stage" ELSE "stopped"))
    /\ UNCHANGED <<scope, know, receipt, audit>>

\* ... or raises ChildKnowledgeGapRaised, which saves the child first.
ChildGap(g) ==
    /\ At("call") /\ cp.stage = "DELIVERING"
    /\ OpenGap(g)
    /\ Save([cp EXCEPT !.children[NextUnit] = "waiting"],
            [run EXCEPT !.pc = "gap", !.gap = g])
    /\ know' = [know EXCEPT !.raised = IF g > @ THEN g ELSE @]
    /\ UNCHANGED <<scope, receipt, audit>>

\* Mutant: a waiting child is delivered again at once.
ChildPolled ==
    /\ At("stopped")
    /\ IF cp.children[NextUnit] \in {"blocked", "repeated"}
       THEN Save([cp EXCEPT !.stage = "BLOCKED"], Goto("diagnose"))
       ELSE Save(cp, Goto("stage"))
    /\ UNCHANGED <<scope, know, receipt, audit>>

\* The child that is not done stops the joint delivery or leaves it waiting.
ChildStops ==
    /\ At("stopped")
    /\ IF cp.children[NextUnit] \in {"blocked", "repeated"}
       THEN Save([cp EXCEPT !.stage = "BLOCKED"], Goto("diagnose"))
       ELSE Save(cp, Idle)
    /\ UNCHANGED <<scope, know, receipt, audit>>

StartIntegration ==
    /\ At("stage") /\ cp.stage = "DELIVERING" /\ ~SingleComplete
    /\ UnitsToDeliver = {}
    /\ Save([cp EXCEPT !.stage = "INTEGRATING"], Goto("stage"))
    /\ UNCHANGED <<scope, know, receipt, audit>>

IntegrationLimit == IF cp.retry THEN 4 ELSE 3

ChargeIntegration ==
    /\ At("stage") /\ cp.stage = "INTEGRATING" /\ ~SingleComplete
    /\ cp.attempts["integration"] < IntegrationLimit
    /\ Attempt("integration")
    /\ UNCHANGED <<scope, know, receipt, audit>>

IntegrationBlocked ==
    /\ At("stage") /\ cp.stage = "INTEGRATING" /\ ~SingleComplete
    /\ cp.attempts["integration"] >= IntegrationLimit
    /\ Save([cp EXCEPT !.stage = "BLOCKED"], Goto("diagnose"))
    /\ UNCHANGED <<scope, know, receipt, audit>>

Integrated(result) ==
    /\ At("call") /\ cp.stage = "INTEGRATING"
    /\ LET done == [cp EXCEPT !.integration = [result |-> result, plan |-> cp.plan.id]]
       IN IF result = "passed" THEN Save([done EXCEPT !.stage = "DONE"], Idle)
                               ELSE Save([done EXCEPT !.stage = "BLOCKED"], Goto("diagnose"))
    /\ UNCHANGED <<scope, know, receipt, audit>>

-----------------------------------------------------------------------------
(* _advance_active: the Manager coordinates a blocked or failed stage      *)

\* The advice, or that there is none, is saved and the command ends.
Advise ==
    /\ At("diagnose")
    /\ Save(cp, Idle)
    /\ UNCHANGED <<scope, know, receipt, audit>>

\* allowed_coordination_actions offers RETRY_STAGE for a retryable failure.
RetryAllowed == run.err = "retryable" /\ BudgetLeft(CounterOf(cp.stage))

AdviseRetry ==
    /\ At("diagnose")
    /\ RetryAllowed
    /\ Save(cp, IF run.rounds = MaxRounds THEN Idle
                ELSE [run EXCEPT !.pc = "stage", !.err = "none", !.rounds = @ + 1])
    /\ UNCHANGED <<scope, know, receipt, audit>>

\* An exception that nothing above names, or the end of the process.
Interrupt ==
    /\ ~At("idle")
    /\ run' = Idle
    /\ UNCHANGED <<scope, cp, human, know, receipt, audit, refused>>

-----------------------------------------------------------------------------
(* The specification                                                       *)

HumanNext ==
    \/ Look
    \/ \E g \in 1 .. know.raised : Resolve(g)
    \/ Reply \/ Approve \/ Close \/ Restart \/ RecheckDesign \/ RecoverDesign
    \/ UpgradePlanning \/ Resume

\* The steps of the command that holds the lock.
CommandNext ==
    \/ CompleteSingle \/ RetryUsedUp \/ ApproveRetry \/ RecoverChildren \/ Replan
    \/ ResumeRefused \/ ResumeAdvances
    \/ StageWaits \/ GapResolved \/ Decide \/ Charge \/ CallRefused \/ Invoke
    \/ \E u \in Unit : PrepareUnit(u)
    \/ \E described \in BOOLEAN : Prepared(described)
    \/ \E g \in 1 .. MaxGaps : RaiseGap(g) \/ ChildGap(g)
    \/ WaitForGap \/ CallFailsTransiently \/ CallFails \/ Pause
    \/ ProductClarifies \/ ProductProposes \/ DesignRejected
    \/ \E d \in Design : DesignAccepted(d)
    \/ \E correctable \in BOOLEAN : PlanRejected(correctable)
    \/ \E n \in 1 .. Cardinality(Unit) : \E order \in [1 .. n -> Unit] : PlanAccepted(order)
    \/ StartDelivery \/ ChildStops
    \/ \E state \in ChildState \ {"none"} : ChildReturned(state)
    \/ StartIntegration \/ ChargeIntegration \/ IntegrationBlocked
    \/ \E result \in {"passed", "failed"} : Integrated(result)
    \/ Advise \/ AdviseRetry

Next == HumanNext \/ CommandNext \/ Interrupt

Spec == Init /\ [][Next]_vars

\* A thread that runs a command is not stopped for ever.
FairSpec == Spec /\ WF_vars(CommandNext)

-----------------------------------------------------------------------------
(* Properties                                                              *)

\* The service and the journal's validators agree: whatever commands, failures and
\* interruptions came before, no checkpoint the service builds is refused by
\* validate_chain or _validate_successor, which would leave the Requirement with a
\* command that can never succeed.
NoSaveRefused == ~refused

\* The product that is approved is the one the person was shown: no revision slips
\* in between the display and the approval (_expected).
ApprovedWhatWasShown ==
    [][cp'.approval # cp.approval => cp'.approval = human.looked]_vars

\* Every start of a model or of the integration commands was paid for by an attempt
\* that is durable before it, through failures, refunds, pauses and crashes, and the
\* limits of the policy hold; the integration runs at most three times, and a fourth
\* time with the approval.
CallsArePaidFor ==
    /\ \A k \in ModelStage :
          /\ audit.calls[k] <= cp.attempts[k] + cp.transient[k]
          /\ cp.attempts[k] <= Limit[k] /\ cp.transient[k] <= MaxTransient[k]
    /\ audit.calls["integration"] <= IntegrationLimit

\* A wait for knowledge ends only when a person resolved that very gap or Design took
\* it back for another investigation: no recovery, restart or retry steps over it.
WaitsAreAnswered ==
    [][cp.gap # 0 /\ cp'.gap # cp.gap => cp.gap \in know.resolved \cup cp'.rechecks]_vars

\* A command ends: correction loops, coordination rounds and the repositories of a
\* plan are finite, so nobody waits for the journal's lock for ever.
CommandEnds == ~At("idle") ~> At("idle")

\* The coarse life of a Requirement that other parts rely on.
Phase(c) ==
    CASE c.stage \in Drafting \cup {"PREPARING"} -> "draft"
      [] c.stage = "WAITING_HUMAN" ->
            IF c.wait \in {"none", "PRODUCT_DISCOVERY"} THEN "draft" ELSE "engineering"
      [] c.stage = "BLOCKED" -> "stopped"
      [] c.stage = "CLOSED" -> "closed"
      [] c.stage = "DONE" -> "done"
      [] OTHER -> "engineering"

Lifecycle == INSTANCE RequirementLifecycle
    WITH phase <- Phase(cp), approved <- cp.approval, planned <- PlanUnits(cp),
         delivered <- {u \in Unit : cp.children[u] = "done"}

\* Every command, failure and interruption keeps the promises of the lifecycle:
\* nothing is engineered without an approval, an approval never changes, a delivered
\* repository is never delivered again, and done means all of the plan.
LifecycleSpec == Lifecycle!Spec

-----------------------------------------------------------------------------
(* Claims of the repository that the code does not keep                    *)

\* RestartRequirement reopens "at its retained delivery checkpoint" and saves
\* "continue delivery from the retained checkpoint": resume must accept it.
RestartContinues ==
    [][Restart /\ cp'.stage = "BLOCKED" => RecoveryGate(cp')]_vars

\* recover_design: an approved Design wait "prevents a generic budget reset from
\* becoming an unbounded retry", so one wait authorises one reset.
ResetsAuthorised ==
    audit.resets <= Cardinality(know.designWaits \cap know.resolved)

\* IntegrationRetryProposal is "one additional integration execution": once it is
\* approved, the plan it needs can still be made.
ApprovedRetryRuns ==
    cp.retry /\ cp.stage = "PLANNING" /\ cp.attempts["integration"] = 3 => BudgetLeft("plan")
=============================================================================
