------------------------ MODULE JointDeliveryProofs ------------------------
(***************************************************************************)
(* The service and the journal of a joint delivery agree: for any number   *)
(* of directories, designs, gaps and retries no checkpoint the service     *)
(* builds is refused, every call is paid for, an approval is of what was   *)
(* shown, a wait for knowledge is answered, and the whole implements the   *)
(* life of a Requirement.                                                  *)
(*                                                                         *)
(* Good is what holds of every checkpoint of the journal.  It contains the *)
(* journal's own ValidChain and what the validators cannot see: which      *)
(* records a stage has, that only the directories of the design have       *)
(* children, and that a Requirement which was integrated once has no       *)
(* delivery left to do.                                                    *)
(***************************************************************************)
EXTENDS JointDelivery, FiniteSetTheorems, TLAPS

Delivered(c) == {u \in Unit : c.children[u] = "done"}
Undelivered(c) == {u \in PlanUnits(c) : c.children[u] # "done"}

\* Every directory that the design changes is delivered.
Complete(c) ==
    c.design # NoDesign /\ \A u \in SelectedWrites(c.design) : c.children[u] = "done"

Plans == [order : Seq(scope), id : 0 .. Limit["plan"], revised : BOOLEAN]

Checkpoint ==
    [stage : JointStage, wait : JointStage \cup {"none"}, gap : 0 .. MaxGaps,
     rechecks : SUBSET (1 .. MaxGaps), prepared : SUBSET scope, conflict : BOOLEAN,
     spec : 0 .. Limit["product"], approval : 0 .. Limit["product"],
     design : Design \cup {NoDesign}, plan : Plans,
     decision : {NoDecision} \cup (Design \X BOOLEAN), upgrade : Design \cup {NoDesign},
     feedback : BOOLEAN, children : [Unit -> ChildState],
     integration : [result : {"none", "failed", "passed"}, plan : Nat],
     retry : BOOLEAN, single : BOOLEAN,
     attempts : [Counter -> Nat], transient : [ModelStage -> Nat]]

-----------------------------------------------------------------------------
(* The inductive invariant                                                 *)

\* The records that stage s relies on.
StageFacts(c, s) ==
    /\ s \in Drafting \cup {"PREPARING"} => c.approval = 0
    /\ s \in {"DESIGNING", "PLANNING", "DELIVERING", "INTEGRATING"} => c.approval # 0
    /\ s = "DESIGNING" => c.design = NoDesign
    /\ s = "PLANNING" => c.design # NoDesign /\ c.plan = NoPlan
    /\ s \in {"DELIVERING", "INTEGRATING"} => c.plan # NoPlan
    /\ s = "INTEGRATING" => Complete(c) /\ Cardinality(scope) # 1

\* A wait for knowledge can be taken up at its stage, and a wait in Design left an
\* attempt of the budget, so that a reset of the budget cannot step over it.
WaitFacts(c) ==
    /\ c.gap = 0 => c.wait = "none" /\ (c.stage = "WAITING_HUMAN" => c.approval = 0)
    /\ c.gap # 0 =>
          /\ c.stage = "WAITING_HUMAN"
          /\ c.wait \in {"PRODUCT_DISCOVERY", "DESIGNING", "PLANNING", "DELIVERING"}
          /\ StageFacts(c, c.wait)
          /\ c.wait = "DESIGNING" => c.attempts["design"] < Limit["design"]

\* Children are of the design; a plan is taken back only after an integration; an
\* integration, or the approval of one more, leaves nothing to deliver.
WorkFacts(c) ==
    /\ c.design # NoDesign => SelectedWrites(c.design) # {}
    /\ Children(c) # {} => c.design # NoDesign /\ Children(c) \subseteq SelectedWrites(c.design)
    /\ c.retry => Complete(c)
    /\ c.integration # NoEvidence => Complete(c) /\ Cardinality(scope) # 1
    /\ c.plan = NoPlan /\ Children(c) # {} => c.integration # NoEvidence
    /\ c.single => c.stage = "DONE"

BudgetFacts(c) ==
    /\ \A k \in ModelStage :
          c.attempts[k] <= Limit[k] /\ c.transient[k] <= MaxTransient[k]
    /\ c.attempts["integration"] <= IF c.retry THEN 4 ELSE 3

Good(c) ==
    /\ c \in Checkpoint
    /\ ValidChain(c)
    /\ StageFacts(c, c.stage)
    /\ WaitFacts(c)
    /\ WorkFacts(c)
    /\ BudgetFacts(c)

\* What command r has reached on checkpoint c.
RunInv(c, r) ==
    /\ r \in [pc : CommandPC, err : {"none", "retryable", "fatal"},
              rounds : 0 .. MaxRounds, gap : 0 .. MaxGaps]
    /\ r.pc \in {"charged", "call"} =>
          \/ /\ CounterOf(c.stage) \in ModelStage
             /\ c.attempts[CounterOf(c.stage)] > 0
             /\ c.transient[CounterOf(c.stage)] < MaxTransient[CounterOf(c.stage)]
          \/ c.stage = "INTEGRATING"
          \/ r.pc = "call" /\ c.stage = "DELIVERING" /\ Undelivered(c) # {}
    /\ r.pc = "gap" =>
          /\ r.gap # 0
          /\ c.stage \in {"PRODUCT_DISCOVERY", "DESIGNING", "PLANNING", "DELIVERING"}
          /\ c.stage = "DESIGNING" => c.attempts["design"] < Limit["design"]
    /\ r.pc = "stopped" => c.stage = "DELIVERING"
    /\ r.pc = "diagnose" =>
          c.stage \in {"PRODUCT_DISCOVERY", "DESIGNING", "PLANNING", "DELIVERING", "BLOCKED"}

\* The attempts that pay for the calls of a counter.
Paid(c, k) == IF k = "integration" THEN c.attempts[k] ELSE c.attempts[k] + c.transient[k]

\* A charged call is not made yet.
AuditInv(c, r, a) ==
    /\ a \in [calls : [Counter -> Int], resets : 0 .. MaxResets]
    /\ \A k \in Counter : a.calls[k] <= Paid(c, k)
    /\ r.pc = "charged" => a.calls[CounterOf(c.stage)] + 1 <= Paid(c, CounterOf(c.stage))

KnowInv(c, k) ==
    /\ k \in [raised : 0 .. MaxGaps, waits : SUBSET (1 .. MaxGaps),
              designWaits : SUBSET (1 .. MaxGaps), resolved : SUBSET (1 .. MaxGaps)]
    /\ k.designWaits # {} => c.approval # 0

HumanInv(c, h) ==
    /\ h \in [shown : BOOLEAN, looked : 0 .. Limit["product"]]
    /\ h.shown => h.looked = IF c.approval = 0 THEN c.spec ELSE 0

JointInv ==
    /\ scope \in (SUBSET Unit) \ {{}}
    /\ receipt \in BOOLEAN
    /\ refused = FALSE
    /\ Good(cp)
    /\ RunInv(cp, run)
    /\ AuditInv(cp, run, audit)
    /\ KnowInv(cp, know)
    /\ HumanInv(cp, human)
-----------------------------------------------------------------------------
(* What a step does to the checkpoint                                      *)

\* The life of the Requirement from checkpoint p to checkpoint n.
Moves(p, n) ==
    \/ Phase(n) = Phase(p)
    \/ Phase(p) \in {"draft", "engineering"} /\ Phase(n) = "stopped"
    \/ Phase(p) \in {"draft", "engineering", "stopped"} /\ Phase(n) = "closed"
    \/ Phase(p) = "closed" /\ Phase(n) = "stopped"
    \/ Phase(p) = "stopped" /\ p.approval # 0 /\ Phase(n) = "engineering"
    \/ /\ Phase(p) \in {"engineering", "stopped"} /\ p.approval # 0
       /\ PlanUnits(p) # {} /\ Delivered(p) = PlanUnits(p) /\ Phase(n) = "done"

Lives(p, n) ==
    \/ /\ Moves(p, n) /\ n.approval = p.approval
       /\ PlanUnits(n) = PlanUnits(p) /\ Delivered(n) = Delivered(p)
    \/ /\ Phase(p) = "draft" /\ Phase(n) = "engineering"
       /\ p.approval = 0 /\ n.approval \in Nat \ {0}
       /\ PlanUnits(n) = PlanUnits(p) /\ Delivered(n) = Delivered(p)
    \/ /\ Phase(p) = "engineering" /\ Phase(n) = "engineering" /\ n.approval = p.approval
       /\ PlanUnits(p) = {} /\ PlanUnits(n) \in (SUBSET Unit) \ {{}}
       /\ Delivered(p) \subseteq PlanUnits(n) /\ Delivered(n) = Delivered(p)
    \/ /\ Phase(p) = "engineering" /\ Phase(n) = "engineering" /\ n.approval = p.approval
       /\ PlanUnits(n) = PlanUnits(p)
       /\ \E u \in PlanUnits(p) \ Delivered(p) : Delivered(n) = Delivered(p) \cup {u}
    \/ /\ Phase(p) = "stopped" /\ Phase(n) = "engineering"
       /\ p.approval # 0 /\ n.approval = p.approval
       /\ PlanUnits(n) = {} /\ Delivered(n) = Delivered(p)

\* The product approved is the one shown; a wait that ends was answered.
Shown(n) == n.approval # cp.approval => n.approval = human.looked
Answered(n) == cp.gap # 0 /\ n.gap # cp.gap => cp.gap \in know.resolved \cup n.rechecks

\* Checkpoint c may follow the current one.
Follows(c) ==
    Good(c) /\ ValidSuccessor(cp, c) /\ Lives(cp, c) /\ Shown(c) /\ Answered(c)

StepOK == JointInv' /\ Lives(cp, cp') /\ Shown(cp') /\ Answered(cp')

\* What checkpoint c has in common with the current one.
SameSetup(c) == c.prepared = cp.prepared /\ c.conflict = cp.conflict
SameProduct(c) == c.spec = cp.spec /\ c.approval = cp.approval
SameDesign(c) == c.design = cp.design /\ c.decision = cp.decision /\ c.upgrade = cp.upgrade
SamePlan(c) == c.plan = cp.plan /\ c.feedback = cp.feedback
SameWork(c) ==
    /\ c.children = cp.children /\ c.integration = cp.integration
    /\ c.retry = cp.retry /\ c.single = cp.single
SameBudget(c) == c.attempts = cp.attempts /\ c.transient = cp.transient
SameWait(c) == c.wait = cp.wait /\ c.gap = cp.gap /\ c.rechecks = cp.rechecks

\* The counters of a checkpoint are numbers.
LEMMA CheckpointNumbers ==
  ASSUME NEW c \in Checkpoint
  PROVE  /\ \A k \in Counter : c.attempts[k] \in Nat
         /\ \A k \in ModelStage : c.transient[k] \in Nat
         /\ c.attempts["integration"] \in Nat /\ c.attempts["design"] \in Nat
         /\ \A k \in Counter : Paid(c, k) \in Nat
  <1>1. c.attempts \in [Counter -> Nat] /\ c.transient \in [ModelStage -> Nat]
    BY DEF Checkpoint
  <1> QED  BY <1>1 DEF Counter, ModelStage, Paid

\* A good checkpoint stays good: the scope never changes.
LEMMA GoodKept ==
  ASSUME NEW c, Good(c), cp' = c, scope' = scope
  PROVE  Good(cp)'
  BY DEF Good, Checkpoint, Plans, ValidChain, AllDone, Children, PlanUnits, SelectedWrites,
         PlanningDecision, DoneIsEvidenced, StageFacts, WaitFacts, WorkFacts, BudgetFacts,
         Complete

\* A checkpoint that may follow is admitted by the journal, and nothing else changes.
LEMMA Saved ==
  ASSUME JointInv, NEW c, NEW r, Save(c, r), scope' = scope, Follows(c), RunInv(c, r),
         AuditInv(c, r, audit'), KnowInv(c, know'), receipt' \in BOOLEAN
  PROVE  StepOK
  <1>1. Admitted(c)
    BY DEF Admitted, Follows, Good
  <1>2. cp' = c /\ run' = r /\ refused' = FALSE /\ human' = [human EXCEPT !.shown = FALSE]
    BY <1>1 DEF Save, JointInv
  <1>3. Good(cp)'
    BY <1>2, GoodKept DEF Follows
  <1>4. HumanInv(c, human')
    BY <1>2 DEF JointInv, HumanInv
  <1>5. scope' \in (SUBSET Unit) \ {{}}
    BY DEF JointInv
  <1>6. JointInv'
    BY <1>2, <1>3, <1>4, <1>5 DEF JointInv
  <1> QED  BY <1>2, <1>6 DEF StepOK, Follows, Shown, Answered

\* A step that saves nothing.
LEMMA Stays ==
  ASSUME JointInv, UNCHANGED <<scope, cp, receipt, refused>>, RunInv(cp, run'),
         AuditInv(cp, run', audit'), KnowInv(cp, know'), HumanInv(cp, human')
  PROVE  StepOK
  <1>1. Good(cp)'
    <2>1. PICK c : c = cp
      OBVIOUS
    <2> QED  BY <2>1, GoodKept DEF JointInv
  <1>2. JointInv'
    BY <1>1 DEF JointInv
  <1> QED  BY <1>2 DEF StepOK, Lives, Moves, Shown, Answered

\* A checkpoint that keeps the design, the plan and the work: the stage, its wait, the
\* counters and a product that is not approved may be new.
LEMMA RecordsKept ==
  ASSUME JointInv, NEW c \in Checkpoint, c.approval = cp.approval,
         cp.approval # 0 => c.spec = cp.spec, SameDesign(c), SamePlan(c), SameWork(c),
         c.rechecks = cp.rechecks, cp.stage # "DONE", c.stage # "DONE",
         StageFacts(cp, c.stage), WaitFacts(c), BudgetFacts(c),
         cp.attempts["integration"] <= c.attempts["integration"]
  PROVE  Good(c) /\ ValidSuccessor(cp, c)
  <1>1. Good(cp)
    BY DEF JointInv
  <1>2. c.attempts["integration"] \in Nat /\ cp.attempts["integration"] \in Nat
    BY <1>1, CheckpointNumbers DEF Good
  <1>3. ValidChain(c)
    BY <1>1, <1>2 DEF Good, BudgetFacts, ValidChain, SameDesign, SamePlan, SameWork,
       AllDone, Children, PlanUnits, SelectedWrites, PlanningDecision
  <1>4. StageFacts(c, c.stage)
    BY DEF StageFacts, SameDesign, SamePlan, SameWork, Complete
  <1>5. WorkFacts(c)
    BY <1>1 DEF Good, WorkFacts, SameDesign, SamePlan, SameWork, Complete, Children
  <1>6. ValidSuccessor(cp, c)
    BY <1>2 DEF ValidSuccessor, SameDesign, SamePlan, SameWork
  <1> QED  BY <1>3, <1>4, <1>5, <1>6 DEF Good

\* A checkpoint of which only the stage is new.
LEMMA StageMove ==
  ASSUME JointInv, NEW s \in JointStage, NEW c, c = [cp EXCEPT !.stage = s],
         cp.gap = 0, cp.stage # "DONE", s # "DONE", StageFacts(cp, s),
         s = "WAITING_HUMAN" => cp.approval = 0
  PROVE  /\ Good(c) /\ ValidSuccessor(cp, c) /\ c.stage = s
         /\ SameSetup(c) /\ SameProduct(c) /\ SameDesign(c) /\ SamePlan(c) /\ SameWork(c)
         /\ SameBudget(c) /\ SameWait(c)
  <1>1. Good(cp) /\ cp \in Checkpoint
    BY DEF JointInv, Good
  <1>2. /\ c \in Checkpoint /\ c.stage = s
        /\ SameSetup(c) /\ SameProduct(c) /\ SameDesign(c) /\ SamePlan(c) /\ SameWork(c)
        /\ SameBudget(c) /\ SameWait(c)
    BY <1>1 DEF Checkpoint, SameSetup, SameProduct, SameDesign, SamePlan, SameWork,
                SameBudget, SameWait
  <1>3. WaitFacts(c)
    BY <1>1, <1>2 DEF Good, WaitFacts, SameWait, SameProduct
  <1>4. BudgetFacts(c)
    BY <1>1, <1>2 DEF Good, BudgetFacts, SameBudget, SameWork
  <1>5. cp.attempts["integration"] <= c.attempts["integration"]
    BY <1>1, <1>2, CheckpointNumbers DEF SameBudget
  <1> QED  BY <1>2, <1>3, <1>4, <1>5, RecordsKept DEF SameProduct, SameWait

\* A checkpoint of which only the counters are new.
LEMMA BudgetMove ==
  ASSUME JointInv, NEW c \in Checkpoint, c.stage = cp.stage,
         SameSetup(c), SameProduct(c), SameDesign(c), SamePlan(c), SameWork(c), SameWait(c),
         cp.stage \notin {"DONE", "WAITING_HUMAN"}, BudgetFacts(c),
         cp.attempts["integration"] <= c.attempts["integration"]
  PROVE  Follows(c)
  <1>1. Good(cp)
    BY DEF JointInv
  <1>2. cp.gap = 0 /\ StageFacts(cp, cp.stage)
    BY <1>1 DEF Good, WaitFacts
  <1>3. WaitFacts(c)
    BY <1>1, <1>2 DEF Good, WaitFacts, SameWait
  <1>4. Good(c) /\ ValidSuccessor(cp, c)
    BY <1>2, <1>3, RecordsKept DEF SameProduct, SameWait
  <1>5. Phase(c) = Phase(cp)
    BY DEF Phase, SameWait
  <1>6. Lives(cp, c)
    BY <1>5 DEF Lives, Moves, SameProduct, SamePlan, SameWork, PlanUnits, Delivered
  <1> QED  BY <1>2, <1>4, <1>6 DEF Follows, Shown, Answered, SameProduct

\* The phases of the stages.
LEMMA PhaseIs ==
  ASSUME NEW c, c.stage \in JointStage
  PROVE  /\ c.stage \in Drafting \cup {"PREPARING"} => Phase(c) = "draft"
         /\ c.stage \in {"DESIGNING", "PLANNING", "DELIVERING", "INTEGRATING"} =>
               Phase(c) = "engineering"
         /\ c.stage = "BLOCKED" => Phase(c) = "stopped"
         /\ c.stage = "CLOSED" => Phase(c) = "closed"
         /\ c.stage = "DONE" => Phase(c) = "done"
         /\ c.stage = "WAITING_HUMAN" =>
               Phase(c) = IF c.wait \in {"none", "PRODUCT_DISCOVERY"}
                          THEN "draft" ELSE "engineering"
  BY DEF Phase, Drafting, JointStage

\* A step that keeps the approval, the plan and the children.
LEMMA LifeKept ==
  ASSUME NEW c, c.approval = cp.approval, c.plan = cp.plan, c.children = cp.children,
         Moves(cp, c)
  PROVE  Lives(cp, c) /\ Shown(c)
  BY DEF Lives, Shown, PlanUnits, Delivered

CommandRun == [pc : CommandPC, err : {"none", "retryable", "fatal"},
               rounds : 0 .. MaxRounds, gap : 0 .. MaxGaps]

\* The commands a step goes on as.
LEMMA RunTypes ==
  ASSUME JointInv
  PROVE  /\ run \in CommandRun
         /\ Idle \in CommandRun /\ Idle.pc = "idle"
         /\ \A pc \in CommandPC : Goto(pc) \in CommandRun /\ Goto(pc).pc = pc
  BY JointConstants DEF JointInv, RunInv, CommandRun, Idle, CommandPC, Goto

\* A command that is between two stages, or ended, relies on nothing.
LEMMA Resting ==
  ASSUME NEW c, NEW r \in CommandRun, r.pc \in {"idle", "resume", "stage"}
  PROVE  RunInv(c, r) /\ r.pc # "charged"
  BY DEF RunInv, CommandRun

\* A saved step that starts no call.
LEMMA SavedQuietly ==
  ASSUME JointInv, NEW c, NEW r, Save(c, r), UNCHANGED <<scope, know, audit>>,
         receipt' \in BOOLEAN, Follows(c), RunInv(c, r), r.pc # "charged",
         \A k \in Counter : Paid(cp, k) <= Paid(c, k)
  PROVE  StepOK
  <1>1. cp \in Checkpoint /\ c \in Checkpoint
    BY DEF JointInv, Follows, Good
  <1>2. \A k \in Counter : Paid(cp, k) \in Nat /\ Paid(c, k) \in Nat
    BY <1>1, CheckpointNumbers
  <1>3. AuditInv(c, r, audit)
    <2>1. audit \in [calls : [Counter -> Int], resets : 0 .. MaxResets]
      BY DEF JointInv, AuditInv
    <2>2. \A k \in Counter : audit.calls[k] \in Int /\ audit.calls[k] <= Paid(cp, k)
      BY <2>1 DEF JointInv, AuditInv
    <2>3. \A k \in Counter : audit.calls[k] <= Paid(c, k)
      BY <1>2, <2>2
    <2> QED  BY <2>1, <2>3 DEF AuditInv
  <1>4. KnowInv(c, know)
    BY DEF JointInv, KnowInv, Follows, ValidSuccessor
  <1> QED  BY <1>3, <1>4, Saved

\* ... and spends nothing.
LEMMA SavedFree ==
  ASSUME JointInv, NEW c, NEW r, Save(c, r), UNCHANGED <<scope, know, audit>>,
         receipt' \in BOOLEAN, Follows(c), RunInv(c, r), r.pc # "charged", SameBudget(c)
  PROVE  StepOK
  <1>1. cp \in Checkpoint
    BY DEF JointInv, Good
  <1>2. \A k \in Counter : Paid(c, k) = Paid(cp, k) /\ Paid(cp, k) \in Nat
    BY <1>1, CheckpointNumbers DEF Paid, SameBudget
  <1> QED  BY <1>2, SavedQuietly

-----------------------------------------------------------------------------
(* The steps that save nothing or the same records again                   *)

\* A checkpoint of the journal, and what its wait implies.
LEMMA Current ==
  ASSUME JointInv
  PROVE  /\ Good(cp) /\ cp \in Checkpoint /\ ValidChain(cp) /\ StageFacts(cp, cp.stage)
         /\ WaitFacts(cp) /\ WorkFacts(cp) /\ BudgetFacts(cp)
         /\ cp.stage \in JointStage
         /\ cp.stage # "WAITING_HUMAN" => cp.gap = 0
  <1>1. Good(cp) /\ cp \in Checkpoint /\ ValidChain(cp) /\ StageFacts(cp, cp.stage)
        /\ WaitFacts(cp) /\ WorkFacts(cp) /\ BudgetFacts(cp)
    BY DEF JointInv, Good
  <1> QED  BY <1>1 DEF Checkpoint, WaitFacts

\* The text of the next action is saved.
LEMMA SaveSame ==
  ASSUME JointInv, NEW r, Save(cp, r), UNCHANGED <<scope, know, audit, receipt>>,
         RunInv(cp, r), r.pc # "charged", cp.stage # "DONE"
  PROVE  StepOK
  <1>1. PICK c : c = cp
    OBVIOUS
  <1>2. Good(c) /\ cp.attempts["integration"] \in Nat
    BY <1>1, Current, CheckpointNumbers
  <1>3. ValidSuccessor(cp, c)
    BY <1>1, <1>2 DEF ValidSuccessor
  <1>4. Follows(c)
    BY <1>1, <1>2, <1>3 DEF Follows, Lives, Moves, Shown, Answered
  <1>5. receipt' \in BOOLEAN
    BY DEF JointInv
  <1>6. SameBudget(c)
    BY <1>1 DEF SameBudget
  <1> QED  BY <1>1, <1>4, <1>5, <1>6, SavedFree

\* The command moves on without saving and without a new call.
LEMMA RunOnly ==
  ASSUME JointInv, UNCHANGED <<scope, cp, human, know, receipt, audit, refused>>,
         RunInv(cp, run'), run'.pc # "charged"
  PROVE  StepOK
  <1>1. AuditInv(cp, run', audit)
    BY DEF JointInv, AuditInv
  <1> QED  BY <1>1, Stays DEF JointInv

\* Idle and the heads of resume and of _advance_stages are reached without a save.
LEMMA RunRests ==
  ASSUME JointInv, UNCHANGED <<scope, cp, human, know, receipt, audit, refused>>,
         run' \in CommandRun, run'.pc \in {"idle", "resume", "stage"}
  PROVE  StepOK
  <1>1. PICK r : r = run'
    OBVIOUS
  <1>2. RunInv(cp, r)
    BY <1>1, Resting
  <1> QED  BY <1>1, <1>2, RunOnly

\* status
LEMMA LookOK == ASSUME JointInv, Look PROVE StepOK
  <1>1. HumanInv(cp, human')
    <2>1. cp.spec \in 0 .. Limit["product"] /\ Limit["product"] \in Nat
      BY Current, JointConstants DEF Checkpoint, ModelStage, RetryLimit
    <2>2. human' = [shown |-> TRUE, looked |-> IF cp.approval = 0 THEN cp.spec ELSE 0]
      BY DEF Look
    <2> QED  BY <2>1, <2>2 DEF HumanInv
  <1>2. RunInv(cp, run') /\ AuditInv(cp, run', audit') /\ KnowInv(cp, know')
    BY DEF Look, JointInv
  <1> QED  BY <1>1, <1>2, Stays DEF Look

\* approve_resolution
LEMMA ResolveOK == ASSUME JointInv, NEW g, Resolve(g) PROVE StepOK
  <1>1. KnowInv(cp, know')
    BY DEF Resolve, JointInv, KnowInv
  <1>2. RunInv(cp, run') /\ AuditInv(cp, run', audit') /\ HumanInv(cp, human')
    BY DEF Resolve, JointInv
  <1> QED  BY <1>1, <1>2, Stays DEF Resolve

\* The steps to idle, resume and stage.
LEMMA RestsOK ==
  ASSUME JointInv,
         Resume \/ ResumeRefused \/ ResumeAdvances \/ StageWaits \/ CallRefused \/ Interrupt
  PROVE  StepOK
  <1>1. /\ UNCHANGED <<scope, cp, human, know, receipt, audit, refused>>
        /\ run' \in {Idle, Goto("resume"), Goto("stage")}
    BY DEF Resume, ResumeRefused, ResumeAdvances, StageWaits, CallRefused, Interrupt
  <1>2. run' \in CommandRun /\ run'.pc \in {"idle", "resume", "stage"}
    BY <1>1, RunTypes DEF CommandPC
  <1> QED  BY <1>1, <1>2, RunRests

\* The counters of the stages.
LEMMA CounterIs ==
  ASSUME NEW s \in JointStage
  PROVE  /\ CounterOf(s) = "product" <=> s = "PRODUCT_DISCOVERY"
         /\ CounterOf(s) = "design" <=> s = "DESIGNING"
         /\ CounterOf(s) = "plan" <=> s = "PLANNING"
         /\ CounterOf(s) = "integration" <=> s = "INTEGRATING"
         /\ CounterOf(s) \in ModelStage <=>
               s \in {"PRODUCT_DISCOVERY", "DESIGNING", "PLANNING"}
         /\ CounterOf(s) \in Counter <=>
               s \in {"PRODUCT_DISCOVERY", "DESIGNING", "PLANNING", "INTEGRATING"}
  BY DEF CounterOf, JointStage, ModelStage, Counter

\* The model or the integration commands start: the charge is spent.
LEMMA InvokeOK == ASSUME JointInv, Invoke PROVE StepOK
  <1> DEFINE k == CounterOf(cp.stage)
  <1>1. run.pc = "charged" /\ run' = Goto("call")
        /\ audit' = [audit EXCEPT !.calls[k] = @ + 1]
        /\ UNCHANGED <<scope, cp, human, know, receipt, refused>>
    BY DEF Invoke, At
  <1>2. k \in Counter
    BY <1>1, Current, CounterIs DEF JointInv, RunInv, Counter
  <1>3. run' \in CommandRun /\ run'.pc = "call"
    BY <1>1, RunTypes DEF CommandPC
  <1>4. RunInv(cp, run')
    <2>1. RunInv(cp, run)
      BY DEF JointInv
    <2> QED  BY <1>1, <1>3, <2>1 DEF RunInv, CommandRun
  <1>5. AuditInv(cp, run', audit')
    <2> HIDE DEF k
    <2>1. /\ audit \in [calls : [Counter -> Int], resets : 0 .. MaxResets]
          /\ \A l \in Counter : audit.calls[l] <= Paid(cp, l)
          /\ audit.calls[k] + 1 <= Paid(cp, k)
      BY <1>1 DEF JointInv, AuditInv, k
    <2>2. audit' \in [calls : [Counter -> Int], resets : 0 .. MaxResets]
      BY <1>1, <1>2, <2>1
    <2>3. \A l \in Counter : audit'.calls[l] <= Paid(cp, l)
      BY <1>1, <1>2, <2>1
    <2> QED  BY <2>2, <2>3, <1>3 DEF AuditInv
  <1>6. KnowInv(cp, know') /\ HumanInv(cp, human')
    BY <1>1 DEF JointInv
  <1> QED  BY <1>1, <1>4, <1>5, <1>6, Stays

\* An attempt that is spent for nothing.
LEMMA CallFailsOK == ASSUME JointInv, CallFails PROVE StepOK
  <1>1. /\ run.pc = "call" /\ cp.stage # "INTEGRATING"
        /\ run' = [run EXCEPT !.pc = "diagnose", !.err = "fatal"]
        /\ UNCHANGED <<scope, cp, human, know, receipt, audit, refused>>
    BY DEF CallFails, At
  <1>2. run' \in CommandRun /\ run'.pc = "diagnose"
    BY <1>1, RunTypes DEF CommandRun, CommandPC
  <1>3. cp.stage \in {"PRODUCT_DISCOVERY", "DESIGNING", "PLANNING", "DELIVERING"}
    BY <1>1, Current, CounterIs DEF JointInv, RunInv
  <1>4. RunInv(cp, run')
    BY <1>2, <1>3 DEF RunInv, CommandRun
  <1> QED  BY <1>1, <1>2, <1>4, RunOnly

\* The native delivery of a directory starts.
LEMMA StartDeliveryOK == ASSUME JointInv, StartDelivery PROVE StepOK
  <1>1. /\ cp.stage = "DELIVERING" /\ Undelivered(cp) # {} /\ run' = Goto("call")
        /\ UNCHANGED <<scope, cp, human, know, receipt, audit, refused>>
    BY DEF StartDelivery, UnitsToDeliver, Undelivered
  <1>2. run' \in CommandRun /\ run'.pc = "call"
    BY <1>1, RunTypes DEF CommandPC
  <1>3. RunInv(cp, run')
    BY <1>1, <1>2 DEF RunInv, CommandRun
  <1> QED  BY <1>1, <1>2, <1>3, RunOnly

\* The steps that save the checkpoint with another text only.
LEMMA SameOK ==
  ASSUME JointInv, Pause \/ DesignRejected \/ Advise \/ AdviseRetry
  PROVE  StepOK
  <1>1. PICK r : /\ r \in CommandRun /\ r.pc \in {"idle", "stage"}
                 /\ Save(cp, r) /\ UNCHANGED <<scope, know, audit, receipt>>
    <2>1. CASE Pause
      BY <2>1, RunTypes DEF Pause
    <2>2. CASE DesignRejected
      BY <2>2, RunTypes DEF DesignRejected, CommandPC
    <2>3. CASE Advise
      BY <2>3, RunTypes DEF Advise
    <2>4. CASE AdviseRetry
      <3>1. /\ run \in CommandRun /\ Idle \in CommandRun /\ Idle.pc = "idle"
            /\ MaxRounds \in Nat
        BY RunTypes, JointConstants
      <3>2. PICK r : r = IF run.rounds = MaxRounds THEN Idle
                         ELSE [run EXCEPT !.pc = "stage", !.err = "none", !.rounds = @ + 1]
        OBVIOUS
      <3>a. run.rounds # MaxRounds => run.rounds + 1 \in 0 .. MaxRounds
        BY <3>1 DEF CommandRun
      <3>3. r \in CommandRun /\ r.pc \in {"idle", "stage"}
        <4>1. CASE run.rounds = MaxRounds
          BY <4>1, <3>1, <3>2
        <4>2. CASE run.rounds # MaxRounds
          BY <4>2, <3>1, <3>2, <3>a DEF CommandRun, CommandPC
        <4> QED  BY <4>1, <4>2
      <3> QED  BY <2>4, <3>2, <3>3 DEF AdviseRetry
    <2> QED  BY <2>1, <2>2, <2>3, <2>4
  <1>2. cp.stage # "DONE"
    <2>1. \/ run.pc \in {"call", "diagnose"}
          \/ CounterOf(cp.stage) \in ModelStage \/ cp.stage = "INTEGRATING"
      BY DEF Pause, CallDue, DesignRejected, Advise, AdviseRetry, At, Calling,
             ModelStageActive
    <2> QED  BY <2>1, Current, CounterIs DEF JointInv, RunInv
  <1>3. RunInv(cp, r) /\ r.pc # "charged"
    BY <1>1, Resting
  <1> QED  BY <1>1, <1>2, <1>3, SaveSame

-----------------------------------------------------------------------------
(* The steps that move the stage                                           *)

EngineeringStage == {"DESIGNING", "PLANNING", "DELIVERING", "INTEGRATING"}

\* The moves between stages that are moves of the lifecycle.
StageMoves(s) ==
    \/ /\ cp.stage \in Drafting \cup {"PREPARING"}
       /\ s \in Drafting \cup {"WAITING_HUMAN", "BLOCKED", "CLOSED"}
    \/ cp.stage \in EngineeringStage /\ s \in EngineeringStage \cup {"BLOCKED", "CLOSED"}
    \/ cp.stage = "BLOCKED" /\ s \in {"BLOCKED", "CLOSED"}
    \/ cp.stage = "BLOCKED" /\ cp.approval # 0 /\ s \in EngineeringStage
    \/ cp.stage = "CLOSED" /\ s = "BLOCKED"

\* A step that changes the stage only.
LEMMA StageStep ==
  ASSUME JointInv, NEW s \in JointStage, NEW r \in CommandRun,
         Save([cp EXCEPT !.stage = s], r), UNCHANGED <<scope, know, audit>>,
         receipt' \in BOOLEAN, StageMoves(s), StageFacts(cp, s),
         \/ r.pc \in {"idle", "resume", "stage"}
         \/ r.pc = "diagnose" /\ s = "BLOCKED"
  PROVE  StepOK
  <1>1. PICK c : c = [cp EXCEPT !.stage = s]
    OBVIOUS
  <1>2. /\ cp.stage \notin {"DONE", "WAITING_HUMAN"} /\ s # "DONE"
        /\ s = "WAITING_HUMAN" => cp.stage \in Drafting \cup {"PREPARING"}
    BY DEF StageMoves, Drafting, EngineeringStage
  <1>3. cp.gap = 0 /\ (s = "WAITING_HUMAN" => cp.approval = 0)
    BY <1>2, Current DEF StageFacts
  <1>4. /\ Good(c) /\ ValidSuccessor(cp, c) /\ c.stage = s
        /\ SameSetup(c) /\ SameProduct(c) /\ SameDesign(c) /\ SamePlan(c) /\ SameWork(c)
        /\ SameBudget(c) /\ SameWait(c)
    BY <1>1, <1>2, <1>3, StageMove
  <1>5. Moves(cp, c)
    <2>1. cp.wait = "none" /\ c.wait = "none"
      BY <1>3, <1>4, Current DEF WaitFacts, SameWait
    <2>2. /\ cp.stage \in Drafting \cup {"PREPARING"} => Phase(cp) = "draft"
          /\ cp.stage \in EngineeringStage => Phase(cp) = "engineering"
          /\ cp.stage = "BLOCKED" => Phase(cp) = "stopped"
          /\ cp.stage = "CLOSED" => Phase(cp) = "closed"
      BY Current, PhaseIs DEF EngineeringStage
    <2>3. /\ s \in Drafting \cup {"WAITING_HUMAN"} => Phase(c) = "draft"
          /\ s \in EngineeringStage => Phase(c) = "engineering"
          /\ s = "BLOCKED" => Phase(c) = "stopped"
          /\ s = "CLOSED" => Phase(c) = "closed"
      BY <1>4, <2>1, PhaseIs DEF EngineeringStage
    <2> QED  BY <2>2, <2>3 DEF Moves, StageMoves
  <1>6. Lives(cp, c) /\ Shown(c)
    BY <1>4, <1>5, LifeKept DEF SameProduct, SamePlan, SameWork
  <1>7. Follows(c)
    BY <1>3, <1>4, <1>6 DEF Follows, Answered
  <1>8. RunInv(c, r) /\ r.pc # "charged"
    <2>1. CASE r.pc \in {"idle", "resume", "stage"}
      BY <2>1, Resting
    <2>2. CASE r.pc = "diagnose" /\ s = "BLOCKED"
      BY <2>2, <1>4 DEF RunInv, CommandRun
    <2> QED  BY <2>1, <2>2
  <1> QED  BY <1>1, <1>4, <1>7, <1>8, SavedFree

\* Nothing is needed to stop or to close.
LEMMA StopFacts == \A s \in {"BLOCKED", "CLOSED", "WAITING_HUMAN"} : StageFacts(cp, s)
  BY DEF StageFacts, Drafting

\* Closing and restarting.
LEMMA CloseOK == ASSUME JointInv, Close \/ Restart PROVE StepOK
  <1>1. CASE Close
    <2>1. PICK r : r = Idle
      OBVIOUS
    <2>2. r \in CommandRun /\ r.pc = "idle"
      BY <2>1, RunTypes
    <2>3. Save([cp EXCEPT !.stage = "CLOSED"], r) /\ UNCHANGED <<scope, know, audit>>
      BY <1>1, <2>1 DEF Close
    <2>4. receipt' \in BOOLEAN
      BY <1>1 DEF Close
    <2>5. StageMoves("CLOSED") /\ StageFacts(cp, "CLOSED") /\ "CLOSED" \in JointStage
      BY <1>1, StopFacts DEF Close, StageMoves, Drafting, EngineeringStage, JointStage
    <2> QED  BY <2>2, <2>3, <2>4, <2>5, StageStep
  <1>2. CASE Restart
    <2>1. PICK r : r = Idle
      OBVIOUS
    <2>2. r \in CommandRun /\ r.pc = "idle"
      BY <2>1, RunTypes
    <2>3. Save([cp EXCEPT !.stage = "BLOCKED"], r) /\ UNCHANGED <<scope, know, audit>>
      BY <1>2, <2>1 DEF Restart
    <2>4. receipt' \in BOOLEAN
      BY <1>2 DEF Restart, JointInv
    <2>5. StageMoves("BLOCKED") /\ StageFacts(cp, "BLOCKED") /\ "BLOCKED" \in JointStage
      BY <1>2, StopFacts DEF Restart, StageMoves, JointStage
    <2> QED  BY <2>2, <2>3, <2>4, <2>5, StageStep
  <1> QED  BY <1>1, <1>2

\* A plan that was accepted is of the directories of the design.
LEMMA PlannedUnits ==
  ASSUME JointInv, cp.plan # NoPlan
  PROVE  /\ cp.design # NoDesign /\ cp.design \in Design /\ cp.approval # 0
         /\ PlanUnits(cp) = SelectedWrites(cp.design) /\ PlanUnits(cp) # {}
         /\ SelectedWrites(cp.design) \subseteq scope
  <1>1. cp.design # NoDesign /\ PlanUnits(cp) = SelectedWrites(cp.design) /\ cp.approval # 0
    BY Current DEF ValidChain
  <1>2. cp.design \in Design
    BY <1>1, Current DEF Checkpoint
  <1>3. SelectedWrites(cp.design) # {} /\ SelectedWrites(cp.design) \subseteq scope
    BY <1>1, Current DEF WorkFacts, SelectedWrites
  <1> QED  BY <1>1, <1>2, <1>3

\* The steps that stop the joint delivery.
LEMMA BlocksOK ==
  ASSUME JointInv, NEW r \in CommandRun, r.pc \in {"idle", "diagnose"},
         cp.stage \in EngineeringStage \cup {"BLOCKED", "PREPARING"},
         Save([cp EXCEPT !.stage = "BLOCKED"], r),
         UNCHANGED <<scope, know, receipt, audit>>
  PROVE  StepOK
  <1>1. receipt' \in BOOLEAN
    BY DEF JointInv
  <1>2. StageMoves("BLOCKED") /\ StageFacts(cp, "BLOCKED") /\ "BLOCKED" \in JointStage
    BY StopFacts DEF StageMoves, JointStage
  <1> QED  BY <1>1, <1>2, StageStep

\* The approved integration run is used up.
LEMMA RetryUsedUpOK == ASSUME JointInv, RetryUsedUp PROVE StepOK
  <1>1. PICK r : r = Idle
    OBVIOUS
  <1>2. r \in CommandRun /\ r.pc = "idle"
    BY <1>1, RunTypes
  <1> QED  BY <1>1, <1>2, BlocksOK DEF RetryUsedUp, IntegrationUsedUp, EngineeringStage

\* The integration budget is used up.
LEMMA IntegrationBlockedOK == ASSUME JointInv, IntegrationBlocked PROVE StepOK
  <1>1. PICK r : r = Goto("diagnose")
    OBVIOUS
  <1>2. r \in CommandRun /\ r.pc = "diagnose"
    BY <1>1, RunTypes DEF CommandPC
  <1> QED  BY <1>1, <1>2, BlocksOK DEF IntegrationBlocked, EngineeringStage

\* A child stops the delivery or leaves it waiting.
LEMMA ChildStopsOK == ASSUME JointInv, ChildStops PROVE StepOK
  <1>0. cp.stage = "DELIVERING" /\ UNCHANGED <<scope, know, receipt, audit>>
    BY DEF ChildStops, JointInv, RunInv, At
  <1>1. PICK r : r = Goto("diagnose")
    OBVIOUS
  <1>2. r \in CommandRun /\ r.pc = "diagnose"
    BY <1>1, RunTypes DEF CommandPC
  <1>3. PICK i : i = Idle
    OBVIOUS
  <1>4. i \in CommandRun /\ i.pc = "idle"
    BY <1>3, RunTypes
  <1>5. CASE Save([cp EXCEPT !.stage = "BLOCKED"], r)
    BY <1>0, <1>2, <1>5, BlocksOK DEF EngineeringStage
  <1>6. CASE Save(cp, i)
    BY <1>0, <1>4, <1>6, Resting, SaveSame
  <1> QED  BY <1>1, <1>3, <1>5, <1>6 DEF ChildStops

\* Children that are not done are delivered again.
LEMMA RecoverChildrenOK == ASSUME JointInv, RecoverChildren PROVE StepOK
  <1>1. PICK r : r = Goto("stage")
    OBVIOUS
  <1>2. r \in CommandRun /\ r.pc = "stage"
    BY <1>1, RunTypes DEF CommandPC
  <1>3. /\ cp.stage = "BLOCKED" /\ cp.plan # NoPlan
        /\ Save([cp EXCEPT !.stage = "DELIVERING"], r)
        /\ UNCHANGED <<scope, know, receipt, audit>>
    BY <1>1 DEF RecoverChildren, RecoveryGate
  <1>4. cp.approval # 0
    BY <1>3, PlannedUnits
  <1>5. StageMoves("DELIVERING") /\ StageFacts(cp, "DELIVERING") /\ "DELIVERING" \in JointStage
    BY <1>3, <1>4 DEF StageMoves, StageFacts, Drafting, EngineeringStage, JointStage
  <1>6. receipt' \in BOOLEAN
    BY <1>3 DEF JointInv
  <1> QED  BY <1>2, <1>3, <1>5, <1>6, StageStep

\* The intake is prepared: the draft may be discussed, or its conflicts decided.
LEMMA PreparedOK == ASSUME JointInv, NEW described, Prepared(described) PROVE StepOK
  <1>1. PICK r : r = Goto("stage")
    OBVIOUS
  <1>2. PICK i : i = Idle
    OBVIOUS
  <1>3. r \in CommandRun /\ r.pc = "stage" /\ i \in CommandRun /\ i.pc = "idle"
    BY <1>1, <1>2, RunTypes DEF CommandPC
  <1>4. cp.stage = "PREPARING" /\ UNCHANGED <<scope, know, audit>> /\ receipt' \in BOOLEAN
    BY DEF Prepared, JointInv
  <1>5. PICK s \in {"WAITING_HUMAN", "PRODUCT_DISCOVERY", "READY_FOR_DISCUSSION"} :
          \/ Save([cp EXCEPT !.stage = s], r)
          \/ Save([cp EXCEPT !.stage = s], i)
    BY <1>1, <1>2 DEF Prepared
  <1>6. StageMoves(s) /\ StageFacts(cp, s) /\ s \in JointStage
    BY <1>4, Current DEF StageMoves, StageFacts, Drafting, JointStage
  <1> QED  BY <1>3, <1>4, <1>5, <1>6, StageStep

\* The Product Agent asks back.
LEMMA ProductClarifiesOK == ASSUME JointInv, ProductClarifies PROVE StepOK
  <1>1. PICK r : r = Idle
    OBVIOUS
  <1>2. r \in CommandRun /\ r.pc = "idle"
    BY <1>1, RunTypes
  <1>3. /\ cp.stage = "PRODUCT_DISCOVERY" /\ Save([cp EXCEPT !.stage = "WAITING_PRODUCT_REPLY"], r)
        /\ UNCHANGED <<scope, know, audit>> /\ receipt' \in BOOLEAN
    BY <1>1 DEF ProductClarifies, JointInv
  <1>4. /\ StageMoves("WAITING_PRODUCT_REPLY") /\ StageFacts(cp, "WAITING_PRODUCT_REPLY")
        /\ "WAITING_PRODUCT_REPLY" \in JointStage
    BY <1>3, Current DEF StageMoves, StageFacts, Drafting, JointStage
  <1> QED  BY <1>2, <1>3, <1>4, StageStep

\* All directories of the plan are delivered and there is more than one to integrate.
LEMMA StartIntegrationOK == ASSUME JointInv, StartIntegration PROVE StepOK
  <1>1. PICK r : r = Goto("stage")
    OBVIOUS
  <1>2. r \in CommandRun /\ r.pc = "stage"
    BY <1>1, RunTypes DEF CommandPC
  <1>3. /\ cp.stage = "DELIVERING" /\ ~SingleComplete /\ UnitsToDeliver = {}
        /\ Save([cp EXCEPT !.stage = "INTEGRATING"], r)
        /\ UNCHANGED <<scope, know, audit>> /\ receipt' \in BOOLEAN
    BY <1>1 DEF StartIntegration, JointInv
  <1>4. cp.plan # NoPlan /\ cp.approval # 0
    BY <1>3, Current DEF StageFacts
  <1>5. Complete(cp)
    BY <1>3, <1>4, PlannedUnits DEF Complete, UnitsToDeliver
  <1>6. Children(cp) # {} /\ AllDone(cp)
    <2>1. \A u \in SelectedWrites(cp.design) : cp.children[u] = "done" /\ u \in Unit
      BY <1>5, <1>4, PlannedUnits DEF Complete, JointInv
    <2>2. Children(cp) # {}
      BY <2>1, <1>4, PlannedUnits DEF Children
    <2>3. Children(cp) \subseteq SelectedWrites(cp.design)
      BY <2>2, Current DEF WorkFacts
    <2> QED  BY <2>1, <2>2, <2>3 DEF AllDone
  <1>7. Cardinality(scope) # 1
    BY <1>3, <1>6 DEF SingleComplete
  <1>8. StageMoves("INTEGRATING") /\ StageFacts(cp, "INTEGRATING") /\ "INTEGRATING" \in JointStage
    BY <1>3, <1>4, <1>5, <1>7 DEF StageMoves, StageFacts, Drafting, EngineeringStage, JointStage
  <1> QED  BY <1>2, <1>3, <1>8, StageStep

-----------------------------------------------------------------------------
(* The budgets                                                             *)

\* An attempt is saved before the call it pays for.
LEMMA ChargeStep ==
  ASSUME JointInv, NEW k \in Counter, k = CounterOf(cp.stage), Attempt(k),
         UNCHANGED <<scope, know, receipt, audit>>,
         k \in ModelStage => BudgetLeft(k),
         k = "integration" => cp.attempts[k] < IntegrationLimit
  PROVE  StepOK
  <1>1. PICK c : c = [cp EXCEPT !.attempts[k] = @ + 1]
    OBVIOUS
  <1>2. PICK r : r = Goto("charged")
    OBVIOUS
  <1>3. r \in CommandRun /\ r.pc = "charged"
    BY <1>2, RunTypes DEF CommandPC
  <1>4. Save(c, r)
    BY <1>1, <1>2 DEF Attempt
  <1>5. cp.attempts \in [Counter -> Nat] /\ cp \in Checkpoint
    BY Current DEF Checkpoint
  <1>6. /\ c \in Checkpoint /\ c.stage = cp.stage
        /\ c.attempts = [cp.attempts EXCEPT ![k] = @ + 1] /\ c.transient = cp.transient
        /\ SameSetup(c) /\ SameProduct(c) /\ SameDesign(c) /\ SamePlan(c) /\ SameWork(c)
        /\ SameWait(c)
    BY <1>1, <1>5 DEF Checkpoint, SameSetup, SameProduct, SameDesign, SamePlan, SameWork,
                      SameWait
  <1>7. /\ c.attempts[k] = cp.attempts[k] + 1
        /\ \A l \in Counter \ {k} : c.attempts[l] = cp.attempts[l]
        /\ \A l \in Counter : cp.attempts[l] \in Nat
    BY <1>5, <1>6
  <1>8. cp.stage \in {"PRODUCT_DISCOVERY", "DESIGNING", "PLANNING", "INTEGRATING"}
    BY Current, CounterIs
  <1>9. BudgetFacts(c)
    <2>1. \A l \in ModelStage : c.transient[l] <= MaxTransient[l]
      BY <1>6, Current DEF BudgetFacts
    <2>2. \A l \in ModelStage : c.attempts[l] <= Limit[l]
      BY <1>7, Current, JointConstants DEF BudgetFacts, BudgetLeft, Counter, RetryLimit
    <2>3. c.attempts["integration"] <= IF c.retry THEN 4 ELSE 3
      BY <1>6, <1>7, Current DEF BudgetFacts, IntegrationLimit, Counter, SameWork
    <2> QED  BY <2>1, <2>2, <2>3 DEF BudgetFacts
  <1>10. cp.attempts["integration"] <= c.attempts["integration"]
    BY <1>7 DEF Counter
  <1>11. Follows(c)
    BY <1>6, <1>8, <1>9, <1>10, BudgetMove
  <1>12. RunInv(c, r)
    <2>1. k \in ModelStage \/ cp.stage = "INTEGRATING"
      BY Current, CounterIs DEF Counter
    <2>2. k \in ModelStage => c.attempts[k] > 0 /\ c.transient[k] < MaxTransient[k]
      BY <1>6, <1>7 DEF BudgetLeft
    <2> QED  BY <1>3, <1>6, <2>1, <2>2 DEF RunInv, CommandRun
  <1>13. AuditInv(c, r, audit)
    <2>1. /\ audit \in [calls : [Counter -> Int], resets : 0 .. MaxResets]
          /\ \A l \in Counter : audit.calls[l] \in Int /\ audit.calls[l] <= Paid(cp, l)
      BY DEF JointInv, AuditInv
    <2>2. \A l \in Counter : Paid(cp, l) \in Nat
      BY <1>5, CheckpointNumbers
    <2>a. \A l \in ModelStage : cp.transient[l] \in Nat
      BY <1>5, CheckpointNumbers
    <2>3. Paid(c, k) = Paid(cp, k) + 1
      <3>1. CASE k = "integration"
        BY <3>1, <1>7 DEF Paid
      <3>2. CASE k # "integration"
        <4>1. k \in ModelStage
          BY <3>2 DEF Counter
        <4> QED  BY <3>2, <4>1, <1>6, <1>7, <2>a DEF Paid
      <3> QED  BY <3>1, <3>2
    <2>4. \A l \in Counter \ {k} : Paid(c, l) = Paid(cp, l)
      BY <1>6, <1>7 DEF Paid
    <2>5. \A l \in Counter : audit.calls[l] <= Paid(c, l)
      BY <2>1, <2>2, <2>3, <2>4
    <2>6. audit.calls[k] + 1 <= Paid(c, k)
      BY <2>1, <2>2, <2>3
    <2> QED  BY <1>6, <2>1, <2>5, <2>6 DEF AuditInv
  <1>14. KnowInv(c, know) /\ receipt' \in BOOLEAN
    BY <1>6 DEF JointInv, KnowInv, SameProduct
  <1> QED  BY <1>4, <1>11, <1>12, <1>13, <1>14, Saved

\* _attempt of a model stage and of the integration.
LEMMA ChargeOK == ASSUME JointInv, Charge \/ ChargeIntegration PROVE StepOK
  <1>1. CASE Charge
    <2>1. PICK k : k = CounterOf(cp.stage)
      OBVIOUS
    <2>2. k \in ModelStage /\ k \in Counter /\ k # "integration"
      BY <1>1, <2>1 DEF Charge, CallDue, ModelStageActive, Counter, ModelStage
    <2> QED  BY <1>1, <2>1, <2>2, ChargeStep DEF Charge
  <1>2. CASE ChargeIntegration
    <2>1. "integration" \in Counter /\ "integration" \notin ModelStage
      BY DEF Counter, ModelStage
    <2>2. CounterOf(cp.stage) = "integration"
      BY <1>2, Current, CounterIs DEF ChargeIntegration
    <2> QED  BY <1>2, <2>1, <2>2, ChargeStep DEF ChargeIntegration
  <1> QED  BY <1>1, <1>2

\* In a call of a model the attempt is charged and the transient budget is not spent.
LEMMA CallingFacts ==
  ASSUME JointInv, Calling, NEW k, k = CounterOf(cp.stage)
  PROVE  /\ k \in ModelStage /\ k \in Counter /\ k # "integration"
         /\ cp.attempts[k] \in Nat /\ cp.attempts[k] > 0
         /\ cp.transient[k] \in Nat /\ cp.transient[k] < MaxTransient[k]
         /\ cp.stage \in {"PRODUCT_DISCOVERY", "DESIGNING", "PLANNING"}
  <1>1. k \in ModelStage /\ cp.stage \in {"PRODUCT_DISCOVERY", "DESIGNING", "PLANNING"}
    BY Current, CounterIs DEF Calling, ModelStageActive
  <1>2. k \in Counter /\ k # "integration"
    BY <1>1 DEF Counter, ModelStage
  <1>3. cp.attempts[k] > 0 /\ cp.transient[k] < MaxTransient[k]
    BY <1>1 DEF JointInv, RunInv, Calling, At
  <1> QED  BY <1>1, <1>2, <1>3, Current, CheckpointNumbers

\* A checkpoint that gives the attempt back and may count a transient failure.
LEMMA RefundStep ==
  ASSUME JointInv, Calling, NEW k, k = CounterOf(cp.stage), NEW c \in Checkpoint, c.stage = cp.stage,
         SameSetup(c), SameProduct(c), SameDesign(c), SamePlan(c), SameWork(c), SameWait(c),
         c.attempts[k] = cp.attempts[k] - 1,
         c.transient[k] \in {cp.transient[k], cp.transient[k] + 1},
         \A l \in Counter \ {k} : c.attempts[l] = cp.attempts[l],
         \A l \in ModelStage \ {k} : c.transient[l] = cp.transient[l]
  PROVE  /\ Follows(c)
         /\ \A l \in Counter \ {k} : Paid(c, l) = Paid(cp, l)
         /\ Paid(c, k) = IF c.transient[k] = cp.transient[k]
                         THEN Paid(cp, k) - 1 ELSE Paid(cp, k)
  <1>1. /\ k \in ModelStage /\ k \in Counter /\ k # "integration"
        /\ cp.attempts[k] \in Nat /\ cp.attempts[k] > 0
        /\ cp.transient[k] \in Nat /\ cp.transient[k] < MaxTransient[k]
        /\ cp.stage \in {"PRODUCT_DISCOVERY", "DESIGNING", "PLANNING"}
    BY CallingFacts
  <1>7. BudgetFacts(c)
    <2>1. \A l \in ModelStage : Limit[l] \in Nat /\ MaxTransient[l] \in Nat /\ l \in Counter
      BY JointConstants DEF RetryLimit, Counter
    <2>2. \A l \in ModelStage : c.attempts[l] <= Limit[l]
      BY <1>1, <2>1, Current DEF BudgetFacts
    <2>3. \A l \in ModelStage : c.transient[l] <= MaxTransient[l]
      BY <1>1, <2>1, Current DEF BudgetFacts
    <2>4. c.attempts["integration"] <= IF c.retry THEN 4 ELSE 3
      BY <1>1, Current DEF BudgetFacts, Counter, SameWork
    <2> QED  BY <2>2, <2>3, <2>4 DEF BudgetFacts
  <1>8. cp.attempts["integration"] <= c.attempts["integration"]
    BY <1>1, Current, CheckpointNumbers DEF Counter
  <1>9. Follows(c)
    BY <1>1, <1>7, <1>8, BudgetMove
  <1>10. Paid(c, k) = IF c.transient[k] = cp.transient[k]
                      THEN Paid(cp, k) - 1 ELSE Paid(cp, k)
    BY <1>1 DEF Paid
  <1>11. \A l \in Counter \ {k} : Paid(c, l) = Paid(cp, l)
    BY DEF Paid, Counter
  <1> QED  BY <1>9, <1>10, <1>11

\* A transient failure moves the charge to the budget of such failures.
LEMMA CallFailsTransientlyOK == ASSUME JointInv, CallFailsTransiently PROVE StepOK
  <1>1. PICK k : k = CounterOf(cp.stage)
    OBVIOUS
  <1>2. PICK c : c = [[cp EXCEPT !.attempts[k] = @ - 1] EXCEPT !.transient[k] = @ + 1]
    OBVIOUS
  <1>3. PICK r : r = [run EXCEPT !.pc = "diagnose", !.err = "retryable"]
    OBVIOUS
  <1>4. r \in CommandRun /\ r.pc = "diagnose"
    BY <1>3, RunTypes DEF CommandPC, CommandRun
  <1>5. Calling /\ Save(c, r) /\ UNCHANGED <<scope, know, audit>> /\ receipt' \in BOOLEAN
    BY <1>1, <1>2, <1>3 DEF CallFailsTransiently, Refunded, JointInv
  <1>a. /\ k \in ModelStage /\ k \in Counter
        /\ cp.attempts[k] \in Nat /\ cp.attempts[k] > 0 /\ cp.transient[k] \in Nat
    BY <1>1, <1>5, CallingFacts
  <1>b. /\ cp \in Checkpoint /\ cp.attempts \in [Counter -> Nat]
        /\ cp.transient \in [ModelStage -> Nat]
    BY Current DEF Checkpoint
  <1>c. PICK A, T : /\ A = [cp.attempts EXCEPT ![k] = @ - 1]
                    /\ T = [cp.transient EXCEPT ![k] = @ + 1]
    OBVIOUS
  <1>d. A \in [Counter -> Nat] /\ T \in [ModelStage -> Nat]
    BY <1>a, <1>b, <1>c
  <1>e. /\ c \in Checkpoint /\ c.stage = cp.stage /\ c.attempts = A /\ c.transient = T
        /\ SameSetup(c) /\ SameProduct(c) /\ SameDesign(c) /\ SamePlan(c) /\ SameWork(c)
        /\ SameWait(c)
    BY <1>2, <1>b, <1>c, <1>d DEF Checkpoint, SameSetup, SameProduct, SameDesign, SamePlan,
       SameWork, SameWait
  <1>f. /\ c.attempts[k] = cp.attempts[k] - 1 /\ c.transient[k] = cp.transient[k] + 1
        /\ \A l \in Counter \ {k} : c.attempts[l] = cp.attempts[l]
        /\ \A l \in ModelStage \ {k} : c.transient[l] = cp.transient[l]
    BY <1>a, <1>b, <1>c, <1>e
  <1>6. /\ Follows(c)
        /\ \A l \in Counter \ {k} : Paid(c, l) = Paid(cp, l)
        /\ Paid(c, k) = Paid(cp, k)
    <2>1. c.transient[k] # cp.transient[k]
      BY <1>a, <1>f
    <2> QED  BY <1>1, <1>5, <1>e, <1>f, <2>1, RefundStep
  <1>7. \A l \in Counter : Paid(cp, l) \in Nat
    BY Current, CheckpointNumbers
  <1>8. k \in Counter /\ cp.stage \in {"PRODUCT_DISCOVERY", "DESIGNING", "PLANNING"}
    BY <1>1, <1>5, CallingFacts
  <1>9. \A l \in Counter : Paid(cp, l) <= Paid(c, l)
    BY <1>6, <1>7, <1>8
  <1>10. RunInv(c, r)
    BY <1>4, <1>e, <1>8 DEF RunInv, CommandRun
  <1> QED  BY <1>4, <1>5, <1>6, <1>9, <1>10, SavedQuietly

\* The numbers of the gaps that may be raised.
LEMMA GapNumbers ==
  ASSUME JointInv, NEW g \in 1 .. MaxGaps,
         know' = [know EXCEPT !.raised = IF g > @ THEN g ELSE @]
  PROVE  \A c : KnowInv(c, know) => KnowInv(c, know')
  <1>1. PICK k : k = know'
    OBVIOUS
  <1>2. /\ know.raised \in 0 .. MaxGaps /\ MaxGaps \in Nat
        /\ know \in [raised : 0 .. MaxGaps, waits : SUBSET (1 .. MaxGaps),
                     designWaits : SUBSET (1 .. MaxGaps), resolved : SUBSET (1 .. MaxGaps)]
    BY JointConstants DEF JointInv, KnowInv
  <1>3. (IF g > know.raised THEN g ELSE know.raised) \in 0 .. MaxGaps
    BY <1>2
  <1> QED  BY <1>2, <1>3 DEF KnowInv

\* A producer that raised a gap gets its attempt back.
LEMMA RaiseGapOK == ASSUME JointInv, NEW g \in 1 .. MaxGaps, RaiseGap(g) PROVE StepOK
  <1>1. PICK k : k = CounterOf(cp.stage)
    OBVIOUS
  <1>2. PICK c : c = [cp EXCEPT !.attempts[k] = @ - 1]
    OBVIOUS
  <1>3. PICK r : r = [run EXCEPT !.pc = "gap", !.gap = g]
    OBVIOUS
  <1>4. r \in CommandRun /\ r.pc = "gap" /\ r.gap = g /\ g # 0
    <2>1. g \in 0 .. MaxGaps /\ g # 0
      BY JointConstants
    <2> QED  BY <1>3, <2>1, RunTypes DEF CommandPC, CommandRun
  <1>a. Calling /\ cp \in Checkpoint /\ cp.transient \in [ModelStage -> Nat]
    BY Current DEF RaiseGap, Checkpoint
  <1>8. /\ k \in ModelStage /\ k \in Counter /\ k # "integration"
        /\ cp.attempts[k] \in Nat /\ cp.attempts[k] > 0
        /\ cp.stage \in {"PRODUCT_DISCOVERY", "DESIGNING", "PLANNING"}
    BY <1>1, <1>a, CallingFacts
  <1>5. /\ Save(c, r) /\ scope' = scope /\ receipt' \in BOOLEAN
        /\ audit' = [audit EXCEPT !.calls[k] = @ - 1]
        /\ know' = [know EXCEPT !.raised = IF g > @ THEN g ELSE @]
    BY <1>1, <1>2, <1>3 DEF RaiseGap, GapRefund, Refunded, JointInv
  <1>c. PICK A : A = [cp.attempts EXCEPT ![k] = @ - 1]
    OBVIOUS
  <1>d. A \in [Counter -> Nat]
    BY <1>a, <1>8, <1>c DEF Checkpoint
  <1>e. /\ c \in Checkpoint /\ c.stage = cp.stage /\ c.attempts = A
        /\ c.transient = cp.transient
        /\ SameSetup(c) /\ SameProduct(c) /\ SameDesign(c) /\ SamePlan(c) /\ SameWork(c)
        /\ SameWait(c)
    BY <1>2, <1>a, <1>c, <1>d DEF Checkpoint, SameSetup, SameProduct, SameDesign, SamePlan,
       SameWork, SameWait
  <1>f. /\ c.attempts[k] = cp.attempts[k] - 1 /\ c.transient[k] = cp.transient[k]
        /\ \A l \in Counter \ {k} : c.attempts[l] = cp.attempts[l]
        /\ \A l \in ModelStage \ {k} : c.transient[l] = cp.transient[l]
    <2>1. cp.attempts \in [Counter -> Nat] /\ cp.transient[k] \in Nat
      BY <1>a, <1>8 DEF Checkpoint
    <2> QED  BY <1>8, <1>c, <1>e, <2>1
  <1>6. /\ Follows(c)
        /\ \A l \in Counter \ {k} : Paid(c, l) = Paid(cp, l)
        /\ Paid(c, k) = Paid(cp, k) - 1
    BY <1>1, <1>a, <1>e, <1>f, RefundStep
  <1>7. \A l \in Counter : Paid(cp, l) \in Nat
    BY Current, CheckpointNumbers
  <1>9. AuditInv(c, r, audit')
    <2>1. /\ audit \in [calls : [Counter -> Int], resets : 0 .. MaxResets]
          /\ \A l \in Counter : audit.calls[l] \in Int /\ audit.calls[l] <= Paid(cp, l)
      BY DEF JointInv, AuditInv
    <2>2. /\ audit' \in [calls : [Counter -> Int], resets : 0 .. MaxResets]
          /\ audit'.calls[k] = audit.calls[k] - 1
          /\ \A l \in Counter \ {k} : audit'.calls[l] = audit.calls[l]
      BY <1>5, <1>8, <2>1
    <2>3. \A l \in Counter : audit'.calls[l] <= Paid(c, l)
      BY <1>6, <1>7, <1>8, <2>1, <2>2
    <2> QED  BY <1>4, <2>2, <2>3 DEF AuditInv
  <1>10. KnowInv(c, know')
    <2>1. KnowInv(c, know)
      BY <1>e DEF JointInv, KnowInv, SameProduct
    <2> QED  BY <2>1, <1>5, GapNumbers
  <1>11. RunInv(c, r)
    <2>1. cp.stage = "DESIGNING" => c.attempts["design"] < Limit["design"]
      <3>1. Limit["design"] \in Nat
        BY JointConstants DEF ModelStage, RetryLimit
      <3>2. cp.stage = "DESIGNING" => k = "design" /\ cp.attempts["design"] <= Limit["design"]
        BY <1>1, Current, CounterIs DEF BudgetFacts, ModelStage
      <3> QED  BY <3>1, <3>2, <1>f, <1>8
    <2> QED  BY <1>4, <1>e, <1>8, <2>1 DEF RunInv, CommandRun
  <1> QED  BY <1>5, <1>6, <1>9, <1>10, <1>11, Saved

-----------------------------------------------------------------------------
(* Waits, preparation and the product                                      *)

\* A step that keeps the design, the plan, the work and the approval.
LEMMA RecordsStep ==
  ASSUME JointInv, NEW c \in Checkpoint, NEW r \in CommandRun, Save(c, r),
         UNCHANGED <<scope, know, audit, receipt>>,
         c.approval = cp.approval, cp.approval # 0 => c.spec = cp.spec,
         SameDesign(c), SamePlan(c), SameWork(c), SameBudget(c),
         c.rechecks = cp.rechecks, cp.stage # "DONE", c.stage # "DONE",
         StageFacts(cp, c.stage), WaitFacts(c), Answered(c),
         Phase(c) = Phase(cp), r.pc \in {"idle", "stage"}
  PROVE  StepOK
  <1>1. BudgetFacts(c)
    BY Current DEF BudgetFacts, SameBudget, SameWork
  <1>2. cp.attempts["integration"] <= c.attempts["integration"]
    BY Current, CheckpointNumbers DEF SameBudget
  <1>3. Good(c) /\ ValidSuccessor(cp, c)
    BY <1>1, <1>2, RecordsKept
  <1>4. Lives(cp, c) /\ Shown(c)
    BY LifeKept DEF Moves, SamePlan, SameWork
  <1>5. Follows(c)
    BY <1>3, <1>4 DEF Follows
  <1>6. RunInv(c, r) /\ r.pc # "charged" /\ receipt' \in BOOLEAN
    BY Resting DEF JointInv
  <1> QED  BY <1>5, <1>6, SavedFree

\* A resolved wait goes on at its stage.
LEMMA GapResolvedOK == ASSUME JointInv, GapResolved PROVE StepOK
  <1>1. PICK r : r = Goto("stage")
    OBVIOUS
  <1>2. r \in CommandRun /\ r.pc = "stage"
    BY <1>1, RunTypes DEF CommandPC
  <1>3. PICK c : c = [cp EXCEPT !.stage = cp.wait, !.wait = "none", !.gap = 0]
    OBVIOUS
  <1>4. /\ cp.stage = "WAITING_HUMAN" /\ cp.gap # 0 /\ cp.gap \in know.resolved
        /\ Save(c, r) /\ UNCHANGED <<scope, know, audit, receipt>>
    BY <1>1, <1>3 DEF GapResolved
  <1>5. /\ cp.wait \in {"PRODUCT_DISCOVERY", "DESIGNING", "PLANNING", "DELIVERING"}
        /\ StageFacts(cp, cp.wait) /\ cp \in Checkpoint
    BY <1>4, Current DEF WaitFacts
  <1>6. /\ c \in Checkpoint /\ c.stage = cp.wait /\ c.wait = "none" /\ c.gap = 0
        /\ c.rechecks = cp.rechecks
        /\ SameProduct(c) /\ SameDesign(c) /\ SamePlan(c) /\ SameWork(c) /\ SameBudget(c)
    <2>1. 0 \in 0 .. MaxGaps /\ cp.wait \in JointStage
      BY <1>5, JointConstants DEF JointStage
    <2> QED  BY <1>3, <1>5, <2>1 DEF Checkpoint, SameProduct, SameDesign, SamePlan, SameWork,
                SameBudget
  <1>7. WaitFacts(c) /\ Answered(c)
    BY <1>4, <1>5, <1>6 DEF WaitFacts, Answered
  <1>8. Phase(c) = Phase(cp)
    BY <1>4, <1>5, <1>6, Current, PhaseIs DEF Drafting, JointStage
  <1> QED  BY <1>2, <1>4, <1>5, <1>6, <1>7, <1>8, RecordsStep DEF SameProduct

\* A raised gap becomes a wait of its stage.
LEMMA WaitForGapOK == ASSUME JointInv, WaitForGap PROVE StepOK
  <1>1. PICK r : r = Idle
    OBVIOUS
  <1>2. r \in CommandRun /\ r.pc = "idle"
    BY <1>1, RunTypes
  <1>3. PICK c : c = [cp EXCEPT !.stage = "WAITING_HUMAN", !.wait = cp.stage, !.gap = run.gap]
    OBVIOUS
  <1>4. /\ run.pc = "gap" /\ Save(c, r) /\ UNCHANGED <<scope, audit, receipt>>
        /\ know' = [know EXCEPT !.waits = @ \cup {run.gap}, !.designWaits =
                       IF cp.stage = "DESIGNING" THEN @ \cup {run.gap} ELSE @]
    BY <1>1, <1>3 DEF WaitForGap, At
  <1>5. /\ run.gap \in 1 .. MaxGaps /\ run.gap \in 0 .. MaxGaps /\ run.gap # 0
        /\ cp.stage \in {"PRODUCT_DISCOVERY", "DESIGNING", "PLANNING", "DELIVERING"}
        /\ cp.stage = "DESIGNING" => cp.attempts["design"] < Limit["design"]
    BY <1>4, RunTypes, JointConstants DEF JointInv, RunInv, CommandRun
  <1>6. /\ c \in Checkpoint /\ c.stage = "WAITING_HUMAN" /\ c.wait = cp.stage
        /\ c.gap = run.gap /\ c.rechecks = cp.rechecks
        /\ SameProduct(c) /\ SameDesign(c) /\ SamePlan(c) /\ SameWork(c) /\ SameBudget(c)
    BY <1>3, <1>5, Current DEF Checkpoint, JointStage, SameProduct, SameDesign, SamePlan,
       SameWork, SameBudget
  <1>7. WaitFacts(c) /\ Answered(c)
    <2>1. cp.gap = 0 /\ StageFacts(cp, cp.stage)
      BY <1>5, Current
    <2>2. StageFacts(c, cp.stage)
      BY <1>6, <2>1 DEF StageFacts, Complete, SameProduct, SameDesign, SamePlan, SameWork
    <2> QED  BY <1>5, <1>6, <2>1, <2>2 DEF WaitFacts, Answered, SameBudget
  <1>8. Phase(c) = Phase(cp)
    BY <1>5, <1>6, Current, PhaseIs DEF Drafting, JointStage
  <1>9. BudgetFacts(c)
    BY <1>6, Current DEF BudgetFacts, SameBudget, SameWork
  <1>10. cp.attempts["integration"] <= c.attempts["integration"]
    BY <1>6, Current, CheckpointNumbers DEF SameBudget
  <1>11. Good(c) /\ ValidSuccessor(cp, c)
    <2>1. StageFacts(cp, c.stage)
      BY <1>6, StopFacts
    <2> QED  BY <1>5, <1>6, <1>7, <1>9, <1>10, <2>1, RecordsKept DEF SameProduct
  <1>12. Lives(cp, c) /\ Shown(c)
    BY <1>6, <1>8, LifeKept DEF Moves, SameProduct, SamePlan, SameWork
  <1>13. Follows(c)
    BY <1>7, <1>11, <1>12 DEF Follows
  <1>14. RunInv(c, r) /\ receipt' \in BOOLEAN
    BY <1>2, <1>4, Resting DEF JointInv
  <1>15. AuditInv(c, r, audit')
    <2>1. \A k \in Counter : Paid(c, k) = Paid(cp, k)
      BY <1>6 DEF Paid, SameBudget
    <2> QED  BY <1>2, <1>4, <2>1 DEF JointInv, AuditInv
  <1>16. KnowInv(c, know')
    <2>1. know \in [raised : 0 .. MaxGaps, waits : SUBSET (1 .. MaxGaps),
              designWaits : SUBSET (1 .. MaxGaps), resolved : SUBSET (1 .. MaxGaps)]
      BY DEF JointInv, KnowInv
    <2>2. know' \in [raised : 0 .. MaxGaps, waits : SUBSET (1 .. MaxGaps),
              designWaits : SUBSET (1 .. MaxGaps), resolved : SUBSET (1 .. MaxGaps)]
      BY <1>4, <1>5, <2>1
    <2>3. know'.designWaits # {} => cp.approval # 0
      <3>1. CASE cp.stage = "DESIGNING"
        BY <3>1, Current DEF StageFacts
      <3>2. CASE cp.stage # "DESIGNING"
        BY <3>2, <1>4, <2>1 DEF JointInv, KnowInv
      <3> QED  BY <3>1, <3>2
    <2> QED  BY <1>6, <2>2, <2>3 DEF KnowInv, SameProduct
  <1> QED  BY <1>4, <1>13, <1>14, <1>15, <1>16, Saved

\* A directory is prepared, or cannot be.
LEMMA PrepareUnitOK == ASSUME JointInv, NEW u, PrepareUnit(u) PROVE StepOK
  <1>1. PICK r : r = Goto("stage")
    OBVIOUS
  <1>2. PICK b : b = Goto("diagnose")
    OBVIOUS
  <1>3. r \in CommandRun /\ r.pc = "stage" /\ b \in CommandRun /\ b.pc = "diagnose"
    BY <1>1, <1>2, RunTypes DEF CommandPC
  <1>4. /\ cp.stage = "PREPARING" /\ u \in scope \ cp.prepared
        /\ UNCHANGED <<scope, know, receipt, audit>>
    BY DEF PrepareUnit
  <1>5. CASE Save([cp EXCEPT !.stage = "BLOCKED"], b)
    BY <1>3, <1>4, <1>5, BlocksOK
  <1>6. ASSUME NEW conflict \in BOOLEAN,
               Save([cp EXCEPT !.prepared = @ \cup {u}, !.conflict = @ \/ conflict], r)
        PROVE  StepOK
    <2>1. PICK c : c = [cp EXCEPT !.prepared = @ \cup {u}, !.conflict = @ \/ conflict]
      OBVIOUS
    <2>2. cp.prepared \cup {u} \in SUBSET scope /\ (cp.conflict \/ conflict) \in BOOLEAN
      BY <1>4, Current DEF Checkpoint
    <2>3. /\ c \in Checkpoint /\ c.stage = cp.stage /\ SameWait(c)
          /\ SameProduct(c) /\ SameDesign(c) /\ SamePlan(c) /\ SameWork(c) /\ SameBudget(c)
      BY <2>1, <2>2, Current DEF Checkpoint, SameProduct, SameDesign, SamePlan,
         SameWork, SameBudget, SameWait
    <2>4. WaitFacts(c) /\ Answered(c)
      BY <1>4, <2>3, Current DEF WaitFacts, Answered, SameWait
    <2>5. Phase(c) = Phase(cp)
      BY <2>3 DEF Phase, SameWait
    <2>6. Save(c, r)
      BY <1>6, <2>1
    <2> QED  BY <1>3, <1>4, <2>3, <2>4, <2>5, <2>6, Current, RecordsStep
             DEF SameProduct, SameWait
  <1> QED  BY <1>1, <1>2, <1>5, <1>6 DEF PrepareUnit

\* A reply reopens the discussion; a proposal ends it.
LEMMA DiscussOK == ASSUME JointInv, Reply \/ ProductProposes PROVE StepOK
  <1>1. PICK r \in CommandRun, s \in {"PRODUCT_DISCOVERY", "WAITING_PRODUCT_APPROVAL"},
             v \in 0 .. Limit["product"] :
          /\ Save([cp EXCEPT !.stage = s, !.spec = v], r) /\ r.pc \in {"idle", "stage"}
          /\ cp.stage \in Drafting /\ UNCHANGED <<scope, know, audit, receipt>>
    <2>a. Limit["product"] \in Nat
      BY JointConstants DEF ModelStage, RetryLimit
    <2>1. CASE Reply
      <3>1. PICK r : r = Goto("stage")
        OBVIOUS
      <3>2. r \in CommandRun /\ r.pc = "stage"
        BY <3>1, RunTypes DEF CommandPC
      <3>3. 0 \in 0 .. Limit["product"]
        BY <2>a
      <3> QED  BY <2>1, <3>1, <3>2, <3>3 DEF Reply, Drafting
    <2>2. CASE ProductProposes
      <3>1. PICK r : r = Idle
        OBVIOUS
      <3>2. r \in CommandRun /\ r.pc = "idle"
        BY <3>1, RunTypes
      <3>3. cp.attempts["product"] \in 0 .. Limit["product"]
        BY <2>a, Current, CheckpointNumbers DEF BudgetFacts, ModelStage, Counter
      <3> QED  BY <2>2, <3>1, <3>2, <3>3 DEF ProductProposes, Drafting
    <2> QED  BY <2>1, <2>2
  <1>2. PICK c : c = [cp EXCEPT !.stage = s, !.spec = v]
    OBVIOUS
  <1>3. /\ c \in Checkpoint /\ c.stage = s /\ SameWait(c) /\ c.approval = cp.approval
        /\ SameDesign(c) /\ SamePlan(c) /\ SameWork(c) /\ SameBudget(c)
    BY <1>2, Current DEF Checkpoint, JointStage, SameDesign, SamePlan, SameWork, SameBudget,
       SameWait
  <1>4. cp.approval = 0 /\ cp.gap = 0 /\ cp.stage # "DONE"
    BY <1>1, Current DEF StageFacts, Drafting
  <1>5. StageFacts(cp, s) /\ s \in Drafting
    BY <1>4 DEF StageFacts, Drafting
  <1>6. WaitFacts(c) /\ Answered(c)
    BY <1>3, <1>4, Current DEF WaitFacts, Answered, SameWait
  <1>7. Phase(c) = Phase(cp)
    <2>1. c.stage \in JointStage
      BY <1>3 DEF Checkpoint
    <2>2. Phase(c) = "draft"
      BY <1>3, <1>5, <2>1, PhaseIs
    <2>3. Phase(cp) = "draft"
      BY <1>1, Current, PhaseIs
    <2> QED  BY <2>2, <2>3
  <1> QED  BY <1>1, <1>2, <1>3, <1>4, <1>5, <1>6, <1>7, RecordsStep DEF SameWait

\* An approval of the product that was shown starts the engineering.
LEMMA ApproveOK == ASSUME JointInv, Approve PROVE StepOK
  <1>1. PICK r : r = Goto("stage")
    OBVIOUS
  <1>2. r \in CommandRun /\ r.pc = "stage"
    BY <1>1, RunTypes DEF CommandPC
  <1>3. PICK c : c = [cp EXCEPT !.stage = "DESIGNING", !.approval = cp.spec]
    OBVIOUS
  <1>4. /\ cp.stage = "WAITING_PRODUCT_APPROVAL" /\ cp.spec # 0 /\ human.shown
        /\ Save(c, r) /\ UNCHANGED <<scope, know, audit, receipt>>
    BY <1>1, <1>3 DEF Approve, Command
  <1>5. cp.approval = 0 /\ cp.gap = 0
    BY <1>4, Current DEF StageFacts, Drafting
  <1>6. /\ c \in Checkpoint /\ c.stage = "DESIGNING" /\ SameWait(c)
        /\ c.approval = cp.spec /\ c.spec = cp.spec
        /\ SameDesign(c) /\ SamePlan(c) /\ SameWork(c) /\ SameBudget(c)
    BY <1>3, Current DEF Checkpoint, JointStage, SameDesign, SamePlan, SameWork, SameBudget,
       SameWait
  <1>7. /\ cp.design = NoDesign /\ cp.plan = NoPlan /\ cp.decision = NoDecision
        /\ cp.rechecks = {} /\ Children(cp) = {}
        /\ ~cp.retry /\ cp.integration = NoEvidence /\ ~cp.single
    BY <1>4, <1>5, Current DEF ValidChain, WorkFacts, Complete
  <1>8. Good(c)
    <2>1. ValidChain(c)
      BY <1>6, <1>7, Current DEF ValidChain, SameDesign, SamePlan, SameWork, SameWait
    <2>2. StageFacts(c, c.stage)
      BY <1>4, <1>6, <1>7 DEF StageFacts, SameDesign, Drafting
    <2>3. WaitFacts(c)
      BY <1>5, <1>6, Current DEF WaitFacts, SameWait
    <2>4. WorkFacts(c)
      BY <1>6, <1>7 DEF WorkFacts, SameDesign, SamePlan, SameWork, Children
    <2>5. BudgetFacts(c)
      BY <1>6, Current DEF BudgetFacts, SameBudget, SameWork
    <2> QED  BY <1>6, <2>1, <2>2, <2>3, <2>4, <2>5 DEF Good
  <1>9. ValidSuccessor(cp, c)
    BY <1>4, <1>5, <1>6, <1>7 DEF ValidSuccessor, SameDesign, SamePlan, SameWork, SameWait
  <1>10. Lives(cp, c)
    <2>1. Phase(cp) = "draft" /\ Phase(c) = "engineering"
      BY <1>4, <1>6, Current, PhaseIs DEF Drafting, JointStage
    <2>2. cp.spec \in Nat \ {0}
      BY <1>4, Current, JointConstants DEF Checkpoint, ModelStage, RetryLimit
    <2> QED  BY <1>5, <1>6, <2>1, <2>2 DEF Lives, SamePlan, SameWork, PlanUnits, Delivered
  <1>11. Shown(c) /\ Answered(c)
    BY <1>4, <1>5, <1>6 DEF JointInv, HumanInv, Shown, Answered
  <1>12. Follows(c)
    BY <1>8, <1>9, <1>10, <1>11 DEF Follows
  <1>13. RunInv(c, r) /\ r.pc # "charged" /\ receipt' \in BOOLEAN
    BY <1>2, <1>4, Resting DEF JointInv
  <1> QED  BY <1>4, <1>6, <1>12, <1>13, SavedFree

-----------------------------------------------------------------------------
(* The design and the plan                                                 *)

\* A saved step that starts no call and spends nothing, with the parts of Follows.
LEMMA SavedParts ==
  ASSUME JointInv, NEW c \in Checkpoint, NEW r \in CommandRun, Save(c, r),
         UNCHANGED <<scope, know, audit, receipt>>, SameBudget(c),
         ValidChain(c), StageFacts(c, c.stage), WaitFacts(c), WorkFacts(c), cp.retry => c.retry,
         ValidSuccessor(cp, c), Lives(cp, c), Shown(c), Answered(c), RunInv(c, r),
         r.pc # "charged"
  PROVE  StepOK
  <1>1. cp.attempts["integration"] \in Nat /\ {cp.retry, c.retry} \subseteq BOOLEAN
    BY Current, CheckpointNumbers DEF Checkpoint
  <1>2. BudgetFacts(c)
    BY <1>1, Current DEF BudgetFacts, SameBudget
  <1>3. Follows(c) /\ receipt' \in BOOLEAN
    BY <1>2 DEF Follows, Good, JointInv
  <1> QED  BY <1>3, SavedFree

\* Without a design nothing was planned, delivered or integrated.
LEMMA Undesigned ==
  ASSUME JointInv, cp.design = NoDesign
  PROVE  /\ cp.plan = NoPlan /\ cp.decision = NoDecision /\ Children(cp) = {}
         /\ cp.retry = FALSE /\ cp.integration = NoEvidence
  BY Current DEF ValidChain, WorkFacts, Complete, Checkpoint

\* A Requirement that is not DONE was not completed alone.
LEMMA NotSingle == ASSUME JointInv, cp.stage # "DONE" PROVE cp.single = FALSE
  BY Current DEF WorkFacts, Checkpoint

\* The reset of the Design budget steps over no wait.
LEMMA RecoverDesignOK == ASSUME JointInv, RecoverDesign PROVE StepOK
  <1>1. PICK r : r = Goto("stage")
    OBVIOUS
  <1>2. r \in CommandRun /\ r.pc = "stage"
    BY <1>1, RunTypes DEF CommandPC
  <1>3. PICK c : c = [cp EXCEPT !.stage = "DESIGNING", !.wait = "none", !.gap = 0,
                                !.attempts["design"] = 0]
    OBVIOUS
  <1>4. /\ cp.stage \in {"DESIGNING", "WAITING_HUMAN"}
        /\ cp.design = NoDesign /\ cp.plan = NoPlan /\ cp.attempts["design"] >= Limit["design"]
        /\ know.designWaits # {} /\ audit.resets < MaxResets /\ Save(c, r)
        /\ audit' = [calls |-> [audit.calls EXCEPT !["design"] = 0],
                     resets |-> audit.resets + 1]
        /\ UNCHANGED <<scope, know, receipt>>
    BY <1>1, <1>3 DEF RecoverDesign
  <1>5. cp.approval # 0
    BY <1>4 DEF JointInv, KnowInv
  <1>6. Limit["design"] \in Nat /\ cp.attempts["design"] \in Nat
    BY Current, CheckpointNumbers, JointConstants DEF ModelStage, RetryLimit
  <1>7. cp.stage = "DESIGNING" /\ cp.gap = 0 /\ cp.wait = "none"
    <2>1. cp.gap = 0
      <3> SUFFICES ASSUME cp.gap # 0 PROVE FALSE
        OBVIOUS
      <3>1. /\ cp.wait \in {"PRODUCT_DISCOVERY", "DESIGNING", "PLANNING", "DELIVERING"}
            /\ StageFacts(cp, cp.wait)
            /\ cp.wait = "DESIGNING" => cp.attempts["design"] < Limit["design"]
        BY Current DEF WaitFacts
      <3> QED  BY <1>4, <1>5, <1>6, <3>1 DEF StageFacts, Drafting
    <2> QED  BY <1>4, <1>5, <2>1, Current DEF WaitFacts
  <1>8. PICK A : A = [cp.attempts EXCEPT !["design"] = 0]
    OBVIOUS
  <1>9. cp \in Checkpoint /\ cp.attempts \in [Counter -> Nat] /\ "design" \in Counter
    BY Current DEF Checkpoint, Counter, ModelStage
  <1>10. A \in [Counter -> Nat] /\ 0 \in 0 .. MaxGaps
    BY <1>8, <1>9, JointConstants
  <1>11. /\ c \in Checkpoint /\ c.stage = cp.stage /\ c.attempts = A
         /\ c.transient = cp.transient
         /\ SameSetup(c) /\ SameProduct(c) /\ SameDesign(c) /\ SamePlan(c) /\ SameWork(c)
         /\ SameWait(c)
    <2>1. PICK e : e = [cp EXCEPT !.stage = "DESIGNING", !.wait = "none", !.gap = 0]
      OBVIOUS
    <2>2. /\ e \in Checkpoint /\ e.stage = "DESIGNING" /\ e.attempts = cp.attempts
          /\ e.transient = cp.transient
          /\ SameSetup(e) /\ SameProduct(e) /\ SameDesign(e) /\ SamePlan(e) /\ SameWork(e)
          /\ SameWait(e)
      <3>1. e = cp
        BY <2>1, <1>7, <1>9 DEF Checkpoint
      <3> QED  BY <3>1, <1>7, <1>9 DEF SameSetup, SameProduct, SameDesign, SamePlan, SameWork,
                  SameWait
    <2>3. c = [e EXCEPT !.attempts["design"] = 0]
      BY <1>3, <2>1
    <2>4. c = [e EXCEPT !.attempts = A]
      BY <1>8, <2>2, <2>3
    <2> QED  BY <1>7, <1>10, <2>2, <2>4 DEF Checkpoint, SameSetup, SameProduct, SameDesign,
                SamePlan, SameWork, SameWait
  <1>12. /\ c.attempts["design"] = 0
         /\ \A l \in Counter \ {"design"} : c.attempts[l] = cp.attempts[l]
    BY <1>8, <1>9, <1>11
  <1>13. BudgetFacts(c)
    <2>1. \A l \in ModelStage : l \in Counter /\ Limit[l] \in Nat
      BY JointConstants DEF Counter, RetryLimit
    <2>2. \A l \in ModelStage : c.attempts[l] <= Limit[l]
      BY <1>12, <2>1, Current DEF BudgetFacts
    <2>3. c.attempts["integration"] <= IF c.retry THEN 4 ELSE 3
      BY <1>11, <1>12, Current DEF BudgetFacts, Counter, SameWork
    <2> QED  BY <1>11, <2>2, <2>3, Current DEF BudgetFacts
  <1>14. cp.attempts["integration"] <= c.attempts["integration"]
    BY <1>12, Current, CheckpointNumbers DEF Counter
  <1>15. Follows(c)
    BY <1>7, <1>11, <1>13, <1>14, BudgetMove
  <1>16. AuditInv(c, r, audit')
    <2>1. /\ audit.calls \in [Counter -> Int] /\ audit.resets \in 0 .. MaxResets
          /\ \A l \in Counter : audit.calls[l] <= Paid(cp, l)
      BY DEF JointInv, AuditInv
    <2>2. /\ audit'.calls \in [Counter -> Int] /\ audit'.resets \in 0 .. MaxResets
          /\ audit'.calls["design"] = 0
          /\ \A l \in Counter \ {"design"} : audit'.calls[l] = audit.calls[l]
      BY <1>4, <1>9, <2>1, JointConstants
    <2>a. audit' \in [calls : [Counter -> Int], resets : 0 .. MaxResets]
      BY <1>4, <2>2
    <2>3. \A l \in Counter \ {"design"} : Paid(c, l) = Paid(cp, l)
      BY <1>11, <1>12 DEF Paid
    <2>4. Paid(c, "design") \in Nat
      BY <1>9, <1>11, CheckpointNumbers
    <2>5. \A l \in Counter : audit'.calls[l] <= Paid(c, l)
      BY <2>1, <2>2, <2>3, <2>4
    <2> QED  BY <1>2, <2>a, <2>5 DEF AuditInv
  <1>17. KnowInv(c, know') /\ receipt' \in BOOLEAN
    BY <1>4, <1>11 DEF JointInv, KnowInv, SameProduct
  <1>18. RunInv(c, r)
    BY <1>2, Resting
  <1> QED  BY <1>4, <1>15, <1>16, <1>17, <1>18, Saved

\* Design takes an unanswered gap back: the journal sees the recheck it expects.
LEMMA RecheckDesignOK == ASSUME JointInv, RecheckDesign PROVE StepOK
  <1>1. PICK r : r = Idle
    OBVIOUS
  <1>2. r \in CommandRun /\ r.pc = "idle"
    BY <1>1, RunTypes
  <1>3. PICK c : c = [cp EXCEPT !.stage = "DESIGNING", !.gap = 0, !.wait = "none",
                         !.rechecks = @ \cup {cp.gap}, !.design = NoDesign,
                         !.plan = NoPlan, !.decision = NoDecision, !.feedback = FALSE]
    OBVIOUS
  <1>4. /\ RecheckAvailable(cp, Limit["design"], MaxTransient["design"])
        /\ Save(c, r) /\ UNCHANGED <<scope, know, audit, receipt>>
    BY <1>1, <1>3 DEF RecheckDesign
  <1>5. /\ cp.stage = "WAITING_HUMAN" /\ cp.wait \in {"DESIGNING", "PLANNING"}
        /\ cp.gap # 0 /\ cp.gap \notin cp.rechecks /\ cp.approval # 0 /\ Children(cp) = {}
        /\ cp.plan = NoPlan
        /\ cp.attempts["design"] < Limit["design"]
        /\ cp.transient["design"] < MaxTransient["design"]
    BY <1>4 DEF RecheckAvailable
  <1>6. RecheckAvailable(cp, 100, 100)
    <2>1. /\ Limit["design"] \in 1 .. 100 /\ MaxTransient["design"] \in 1 .. 100
          /\ "design" \in ModelStage
      BY JointConstants DEF ModelStage, RetryLimit
    <2>2. cp.attempts["design"] \in Nat /\ cp.transient["design"] \in Nat
      BY <2>1, Current, CheckpointNumbers
    <2> QED  BY <1>5, <2>1, <2>2 DEF RecheckAvailable
  <1>7. cp.retry = FALSE /\ cp.integration = NoEvidence /\ cp.single = FALSE
    <2>1. ~Complete(cp)
      <3> SUFFICES ASSUME Complete(cp) PROVE FALSE
        OBVIOUS
      <3>1. SelectedWrites(cp.design) # {} /\ SelectedWrites(cp.design) \subseteq Unit
        BY Current DEF Complete, WorkFacts, SelectedWrites, JointInv
      <3> QED  BY <1>5, <3>1 DEF Complete, Children
    <2> QED  BY <1>5, <2>1, Current, NotSingle DEF WorkFacts, Checkpoint
  <1>8. /\ c \in Checkpoint /\ c.stage = "DESIGNING" /\ c.gap = 0 /\ c.wait = "none"
        /\ c.rechecks = cp.rechecks \cup {cp.gap} /\ c.design = NoDesign /\ c.plan = NoPlan
        /\ c.decision = NoDecision /\ c.feedback = FALSE /\ c.upgrade = cp.upgrade
        /\ SameSetup(c) /\ SameProduct(c) /\ SameWork(c) /\ SameBudget(c)
    <2>1. 0 \in 0 .. MaxGaps /\ cp.rechecks \cup {cp.gap} \in SUBSET (1 .. MaxGaps)
      BY <1>5, Current, JointConstants DEF Checkpoint
    <2>2. NoPlan \in Plans
      <3>1. <<>> \in Seq(scope)
        OBVIOUS
      <3>2. 0 \in 0 .. Limit["plan"]
        BY JointConstants DEF ModelStage, RetryLimit
      <3> QED  BY <3>1, <3>2 DEF NoPlan, Plans
    <2> QED  BY <1>3, <2>1, <2>2, Current DEF Checkpoint, JointStage, SameSetup, SameProduct,
                SameWork, SameBudget
  <1>9. IsRecheck(cp, c)
    BY <1>5, <1>6, <1>8 DEF IsRecheck, SameBudget, SameWork, SameSetup
  <1>10. ValidChain(c)
    BY <1>5, <1>7, <1>8, Current DEF ValidChain, SameProduct, SameWork
  <1>11. StageFacts(c, c.stage) /\ WaitFacts(c)
    BY <1>5, <1>8 DEF StageFacts, WaitFacts, SameProduct, Drafting
  <1>12. WorkFacts(c)
    BY <1>5, <1>7, <1>8 DEF WorkFacts, SameWork, Children
  <1>13. ValidSuccessor(cp, c)
    <2>1. cp.attempts["integration"] \in Nat
      BY Current, CheckpointNumbers
    <2> QED  BY <1>5, <1>7, <1>8, <1>9, <2>1 DEF ValidSuccessor, SameProduct, SameWork, SameBudget
  <1>14. Lives(cp, c)
    <2>1. Phase(cp) = "engineering" /\ Phase(c) = "engineering"
      BY <1>5, <1>8, Current, PhaseIs DEF JointStage
    <2> QED  BY <1>5, <1>8, <2>1 DEF Lives, Moves, SameProduct, SameWork, PlanUnits, Delivered
  <1>15. Shown(c) /\ Answered(c)
    BY <1>8 DEF Shown, Answered, SameProduct
  <1>16. RunInv(c, r) /\ r.pc # "charged"
    BY <1>2, Resting
  <1> QED  BY <1>2, <1>4, <1>7, <1>8, <1>10, <1>11, <1>12, <1>13, <1>14, <1>15, <1>16, SavedParts
           DEF SameWork

\* The planning gate decides, a person upgrades its decision, a plan is rejected: the
\* stage, the plan and the work stay.
LEMMA PlanningStep ==
  ASSUME JointInv, NEW c \in Checkpoint, NEW r \in CommandRun, Save(c, r),
         UNCHANGED <<scope, know, audit, receipt>>, cp.stage = "PLANNING",
         c.stage = cp.stage, c.design = cp.design, c.plan = cp.plan,
         SameProduct(c), SameWork(c), SameBudget(c), SameWait(c),
         c.decision = NoDecision \/ c.decision = PlanningDecision(c),
         c.upgrade = cp.upgrade \/ (cp.upgrade = NoDesign /\ c.upgrade # NoDesign),
         \/ c.decision = cp.decision
         \/ cp.decision = NoDecision
         \/ /\ cp.upgrade = NoDesign /\ c.upgrade # NoDesign /\ c.decision # NoDecision
            /\ c.decision[1] = cp.decision[1],
         r.pc \in {"idle", "stage"}
  PROVE  StepOK
  <1>1. /\ cp.gap = 0 /\ cp.design # NoDesign /\ cp.plan = NoPlan /\ cp.approval # 0
        /\ cp.attempts["integration"] \in Nat
    BY Current, CheckpointNumbers DEF StageFacts
  <1>2. ValidChain(c)
    BY <1>1, Current DEF ValidChain, SameProduct, SameWork, SameBudget, SameWait, AllDone,
       Children
  <1>3. StageFacts(c, c.stage)
    BY <1>1, Current DEF StageFacts, SameProduct, Drafting
  <1>4. WaitFacts(c)
    BY <1>1, Current DEF WaitFacts, SameWait
  <1>5. WorkFacts(c)
    BY Current DEF WorkFacts, SameWork, Complete, Children
  <1>6. ValidSuccessor(cp, c)
    BY <1>1 DEF ValidSuccessor, SameProduct, SameWork, SameBudget, SameWait
  <1>7. Phase(c) = Phase(cp)
    BY DEF Phase, SameWait
  <1>8. Lives(cp, c) /\ Shown(c)
    BY <1>7, LifeKept DEF Moves, SameProduct, SameWork
  <1>9. Answered(c)
    BY <1>1 DEF Answered
  <1>10. RunInv(c, r) /\ r.pc # "charged"
    BY Resting
  <1>11. c.retry = cp.retry /\ cp.retry \in BOOLEAN
    BY Current DEF SameWork, Checkpoint
  <1> QED  BY <1>2, <1>3, <1>4, <1>5, <1>6, <1>8, <1>9, <1>10, <1>11, SavedParts

\* The gate decides, for the design and the upgrade at hand.
LEMMA DecideOK == ASSUME JointInv, Decide PROVE StepOK
  <1>1. PICK r : r = Goto("stage")
    OBVIOUS
  <1>2. r \in CommandRun /\ r.pc = "stage"
    BY <1>1, RunTypes DEF CommandPC
  <1>3. PICK d : d = PlanningDecision(cp)
    OBVIOUS
  <1>4. PICK c : c = [cp EXCEPT !.decision = d]
    OBVIOUS
  <1>5. /\ cp.stage = "PLANNING" /\ cp.decision = NoDecision
        /\ Save(c, r) /\ UNCHANGED <<scope, know, audit, receipt>>
    BY <1>1, <1>3, <1>4 DEF Decide
  <1>6. d \in {NoDecision} \cup (Design \X BOOLEAN)
    BY <1>3, <1>5, Current DEF StageFacts, Checkpoint, PlanningDecision
  <1>7. /\ c \in Checkpoint /\ c.stage = cp.stage /\ c.design = cp.design /\ c.plan = cp.plan
        /\ SameProduct(c) /\ SameWork(c) /\ SameBudget(c) /\ SameWait(c)
        /\ c.decision = d /\ c.upgrade = cp.upgrade
    BY <1>4, <1>6, Current DEF Checkpoint, SameProduct, SameWork, SameBudget, SameWait
  <1>8. c.decision = PlanningDecision(c)
    BY <1>3, <1>7 DEF PlanningDecision
  <1> QED  BY <1>2, <1>5, <1>7, <1>8, PlanningStep

\* A person upgrades the decision, for the design at hand.
LEMMA UpgradePlanningOK == ASSUME JointInv, UpgradePlanning PROVE StepOK
  <1>1. PICK r : r = Idle
    OBVIOUS
  <1>2. r \in CommandRun /\ r.pc = "idle"
    BY <1>1, RunTypes
  <1>3. PICK d : d = <<cp.design, TRUE>>
    OBVIOUS
  <1>4. PICK c : c = [cp EXCEPT !.upgrade = cp.design, !.decision = d]
    OBVIOUS
  <1>5. /\ cp.stage = "PLANNING" /\ cp.upgrade = NoDesign
        /\ Save(c, r) /\ UNCHANGED <<scope, know, audit, receipt>>
    BY <1>1, <1>3, <1>4 DEF UpgradePlanning
  <1>6. cp.design # NoDesign /\ cp.design \in Design
    BY <1>5, Current DEF StageFacts, Checkpoint
  <1>7. /\ d \in {NoDecision} \cup (Design \X BOOLEAN) /\ d # NoDecision
        /\ d[1] = cp.design
    BY <1>3, <1>6 DEF NoDecision
  <1>8. /\ c \in Checkpoint /\ c.stage = cp.stage /\ c.design = cp.design /\ c.plan = cp.plan
        /\ SameProduct(c) /\ SameWork(c) /\ SameBudget(c) /\ SameWait(c)
        /\ c.decision = d /\ c.upgrade = cp.design
    BY <1>4, <1>6, <1>7, Current DEF Checkpoint, SameProduct, SameWork, SameBudget, SameWait
  <1>9. c.decision = PlanningDecision(c)
    BY <1>3, <1>6, <1>8 DEF PlanningDecision
  <1>10. cp.decision = NoDecision \/ cp.decision[1] = cp.design
    BY Current DEF ValidChain, PlanningDecision
  <1> QED  BY <1>2, <1>5, <1>6, <1>7, <1>8, <1>9, <1>10, PlanningStep

\* A plan that is rejected leaves the feedback for the next one.
LEMMA PlanRejectedOK == ASSUME JointInv, NEW correctable, PlanRejected(correctable) PROVE StepOK
  <1>1. PICK r : r = IF correctable /\ IsComplex(cp) /\ cp.attempts["plan"] < Limit["plan"]
                     THEN Goto("stage") ELSE Idle
    OBVIOUS
  <1>2. r \in CommandRun /\ r.pc \in {"idle", "stage"}
    BY <1>1, RunTypes DEF CommandPC
  <1>3. PICK c : c = [cp EXCEPT !.feedback = TRUE]
    OBVIOUS
  <1>4. cp.stage = "PLANNING" /\ Save(c, r) /\ UNCHANGED <<scope, know, audit, receipt>>
    BY <1>1, <1>3 DEF PlanRejected, PlanAtHand
  <1>5. /\ c \in Checkpoint /\ c.stage = cp.stage /\ c.design = cp.design /\ c.plan = cp.plan
        /\ SameProduct(c) /\ SameWork(c) /\ SameBudget(c) /\ SameWait(c)
        /\ c.decision = cp.decision /\ c.upgrade = cp.upgrade
    BY <1>3, Current DEF Checkpoint, SameProduct, SameWork, SameBudget, SameWait
  <1>6. c.decision = NoDecision \/ c.decision = PlanningDecision(c)
    BY <1>5, Current DEF ValidChain, PlanningDecision
  <1> QED  BY <1>2, <1>4, <1>5, <1>6, PlanningStep

\* A design is accepted: nothing was planned or delivered before it.
LEMMA DesignAcceptedOK == ASSUME JointInv, NEW d \in Design, DesignAccepted(d) PROVE StepOK
  <1>1. PICK r : r = Goto("stage")
    OBVIOUS
  <1>2. r \in CommandRun /\ r.pc = "stage"
    BY <1>1, RunTypes DEF CommandPC
  <1>3. PICK c : c = [cp EXCEPT !.stage = "PLANNING", !.design = d]
    OBVIOUS
  <1>4. /\ cp.stage = "DESIGNING" /\ SelectedWrites(d) # {}
        /\ Save(c, r) /\ UNCHANGED <<scope, know, audit, receipt>>
    BY <1>1, <1>3 DEF DesignAccepted
  <1>5. /\ c \in Checkpoint /\ c.stage = "PLANNING" /\ c.design = d
        /\ c.decision = cp.decision /\ c.upgrade = cp.upgrade
        /\ SameProduct(c) /\ SamePlan(c) /\ SameWork(c) /\ SameBudget(c) /\ SameWait(c)
    BY <1>3, Current DEF Checkpoint, JointStage, SameProduct, SamePlan, SameWork, SameBudget,
       SameWait
  <1>6. cp.approval # 0 /\ cp.design = NoDesign /\ cp.gap = 0 /\ cp.single = FALSE
    BY <1>4, Current, NotSingle DEF StageFacts
  <1>7. /\ cp.plan = NoPlan /\ cp.decision = NoDecision /\ Children(cp) = {}
        /\ cp.retry = FALSE /\ cp.integration = NoEvidence
    BY <1>6, Undesigned
  <1>8. d # NoDesign
    BY JointConstants
  <1>9. ValidChain(c)
    BY <1>5, <1>6, <1>7, Current DEF ValidChain, SameProduct, SamePlan, SameWork, SameWait
  <1>10. StageFacts(c, c.stage) /\ WaitFacts(c)
    BY <1>5, <1>6, <1>7, <1>8, Current DEF StageFacts, WaitFacts, SameProduct, SamePlan,
       SameWait, Drafting
  <1>11. WorkFacts(c)
    BY <1>4, <1>5, <1>6, <1>7 DEF WorkFacts, SameWork, Children
  <1>12. ValidSuccessor(cp, c)
    BY <1>4, <1>5, <1>6, <1>7 DEF ValidSuccessor, SameProduct, SamePlan, SameWork, SameWait
  <1>13. Lives(cp, c) /\ Shown(c) /\ Answered(c)
    <2>1. Phase(cp) = "engineering" /\ Phase(c) = "engineering"
      BY <1>4, <1>5, Current, PhaseIs DEF JointStage
    <2> QED  BY <1>5, <1>6, <2>1, LifeKept DEF Moves, Answered, SameProduct, SamePlan, SameWork
  <1>14. RunInv(c, r) /\ r.pc # "charged"
    BY <1>2, Resting
  <1> QED  BY <1>2, <1>4, <1>5, <1>7, <1>9, <1>10, <1>11, <1>12, <1>13, <1>14, SavedParts

\* An order of a plan names every directory of the design, and is not empty.
LEMMA OrderCovers ==
  ASSUME NEW S, IsFiniteSet(S), S # {}, NEW o \in Orders(S)
  PROVE  o \in Seq(S) /\ o # <<>> /\ {o[i] : i \in DOMAIN o} = S
  <1>1. PICK n : n = Cardinality(S)
    OBVIOUS
  <1>2. n \in Nat /\ n # 0
    BY <1>1, FS_CardinalityType, FS_EmptySet
  <1>3. o \in [1 .. n -> S] /\ \A i, j \in DOMAIN o : o[i] = o[j] => i = j
    BY <1>1 DEF Orders
  <1>4. o \in Injection(1 .. n, S)
    BY <1>3 DEF Injection, IsInjective
  <1>5. Cardinality(1 .. n) = n
    BY <1>2, FS_Interval
  <1>6. o \in Surjection(1 .. n, S)
    BY <1>1, <1>4, <1>5, FS_Injection
  <1>7. \A t \in S : \E i \in 1 .. n : o[i] = t
    BY <1>6 DEF Surjection
  <1>8. DOMAIN o = 1 .. n
    BY <1>3
  <1>9. {o[i] : i \in DOMAIN o} = S
    BY <1>3, <1>7, <1>8
  <1>10. o \in Seq(S)
    BY <1>2, <1>3
  <1>11. o # <<>>
    BY <1>2, <1>8
  <1> QED  BY <1>9, <1>10, <1>11

\* A plan is accepted: it covers what was delivered under the plan before it.
LEMMA PlanAcceptedOK == ASSUME JointInv, NEW order, PlanAccepted(order) PROVE StepOK
  <1>1. PICK r : r = Goto("stage")
    OBVIOUS
  <1>2. r \in CommandRun /\ r.pc = "stage"
    BY <1>1, RunTypes DEF CommandPC
  <1>3. PICK q : q = [order |-> order, id |-> cp.attempts["plan"], revised |-> cp.feedback]
    OBVIOUS
  <1>4. PICK c : c = [cp EXCEPT !.stage = "DELIVERING", !.integration = NoEvidence, !.plan = q]
    OBVIOUS
  <1>5. /\ cp.stage = "PLANNING" /\ order \in Orders(SelectedWrites(cp.design))
        /\ Save(c, r) /\ UNCHANGED <<scope, know, audit, receipt>>
    BY <1>1, <1>3, <1>4 DEF PlanAccepted, PlanAtHand
  <1>6. /\ cp.approval # 0 /\ cp.design # NoDesign /\ cp.plan = NoPlan /\ cp.gap = 0
        /\ cp.single = FALSE /\ SelectedWrites(cp.design) # {}
    BY <1>5, Current, NotSingle DEF StageFacts, WorkFacts
  <1>7. /\ SelectedWrites(cp.design) \subseteq scope /\ SelectedWrites(cp.design) \subseteq Unit
        /\ IsFiniteSet(SelectedWrites(cp.design))
    BY FS_Subset, JointConstants DEF SelectedWrites, JointInv
  <1>8. /\ order \in Seq(SelectedWrites(cp.design)) /\ order # <<>>
        /\ {order[i] : i \in DOMAIN order} = SelectedWrites(cp.design)
    BY <1>5, <1>6, <1>7, OrderCovers
  <1>9. q \in Plans /\ q # NoPlan
    <2>1. order \in Seq(scope)
      BY <1>7, <1>8
    <2>2. Limit["plan"] \in Nat /\ "plan" \in ModelStage /\ "plan" \in Counter
      BY JointConstants DEF ModelStage, RetryLimit, Counter
    <2>3. cp.attempts["plan"] \in 0 .. Limit["plan"]
      BY <2>2, Current, CheckpointNumbers DEF BudgetFacts
    <2>4. cp.feedback \in BOOLEAN
      BY Current DEF Checkpoint
    <2> QED  BY <1>3, <1>8, <2>1, <2>3, <2>4 DEF Plans, NoPlan
  <1>10. NoEvidence \in [result : {"none", "failed", "passed"}, plan : Nat]
    BY DEF NoEvidence
  <1>11. /\ c \in Checkpoint /\ c.stage = "DELIVERING" /\ c.plan = q
         /\ c.integration = NoEvidence /\ c.feedback = cp.feedback /\ c.children = cp.children
         /\ c.retry = cp.retry /\ c.single = cp.single
         /\ SameProduct(c) /\ SameDesign(c) /\ SameBudget(c) /\ SameWait(c)
    BY <1>4, <1>9, <1>10, Current DEF Checkpoint, JointStage, SameProduct, SameDesign,
       SameBudget, SameWait
  <1>12. PlanUnits(c) = SelectedWrites(cp.design) /\ q.revised = cp.feedback
    BY <1>3, <1>8, <1>11 DEF PlanUnits
  <1>13. ValidChain(c)
    BY <1>6, <1>11, <1>12, Current DEF ValidChain, SameProduct, SameDesign, SameBudget, SameWait,
       PlanningDecision, AllDone, Children
  <1>14. StageFacts(c, c.stage) /\ WaitFacts(c)
    BY <1>6, <1>9, <1>11, Current DEF StageFacts, WaitFacts, SameProduct, SameWait, Drafting
  <1>15. WorkFacts(c)
    BY <1>6, <1>9, <1>11, Current DEF WorkFacts, SameDesign, Complete, Children
  <1>16. ValidSuccessor(cp, c)
    <2>1. cp.attempts["integration"] \in Nat
      BY Current, CheckpointNumbers
    <2> QED  BY <1>5, <1>6, <1>11, <2>1 DEF ValidSuccessor, SameProduct, SameDesign, SameBudget,
                SameWait
  <1>17. Lives(cp, c)
    <2>1. Phase(cp) = "engineering" /\ Phase(c) = "engineering"
      BY <1>5, <1>11, Current, PhaseIs DEF JointStage
    <2>2. PlanUnits(cp) = {}
      BY <1>6 DEF PlanUnits, NoPlan
    <2>3. Delivered(cp) \subseteq SelectedWrites(cp.design)
      <3>1. Delivered(cp) \subseteq Children(cp)
        BY DEF Delivered, Children
      <3> QED  BY <3>1, Current DEF WorkFacts
    <2> QED  BY <1>6, <1>7, <1>11, <1>12, <2>1, <2>2, <2>3 DEF Lives, SameProduct, Delivered
  <1>18. Shown(c) /\ Answered(c)
    BY <1>6, <1>11 DEF Shown, Answered, SameProduct
  <1>19. RunInv(c, r) /\ r.pc # "charged"
    BY <1>2, Resting
  <1> QED  BY <1>2, <1>5, <1>11, <1>13, <1>14, <1>15, <1>16, <1>17, <1>18, <1>19, SavedParts

\* A failed integration is planned again.
LEMMA ReplanOK == ASSUME JointInv, Replan PROVE StepOK
  <1>1. PICK r : r = Goto("stage")
    OBVIOUS
  <1>2. r \in CommandRun /\ r.pc = "stage"
    BY <1>1, RunTypes DEF CommandPC
  <1>3. PICK c : c = [cp EXCEPT !.stage = "PLANNING", !.feedback = TRUE, !.plan = NoPlan]
    OBVIOUS
  <1>4. /\ cp.stage = "BLOCKED" /\ Failing(cp) /\ FailureFacts(cp)
        /\ Save(c, r) /\ UNCHANGED <<scope, know, audit, receipt>>
    BY <1>1, <1>3 DEF Replan
  <1>5. cp.plan # NoPlan /\ cp.gap = 0 /\ cp.single = FALSE /\ cp.integration # NoEvidence
    <2>1. cp.integration # NoEvidence
      BY <1>4 DEF Failing, NoEvidence
    <2>2. cp.plan # NoPlan
      BY <1>4 DEF FailureFacts, RepeatedChildFailure
    <2>3. cp.gap = 0 /\ cp.single = FALSE
      BY <1>4, Current, NotSingle
    <2> QED  BY <2>1, <2>2, <2>3
  <1>6. cp.design # NoDesign /\ cp.approval # 0
    BY <1>5, PlannedUnits
  <1>7. NoPlan \in Plans
    <2>1. <<>> \in Seq(scope)
      OBVIOUS
    <2>2. 0 \in 0 .. Limit["plan"]
      BY JointConstants DEF ModelStage, RetryLimit
    <2> QED  BY <2>1, <2>2 DEF NoPlan, Plans
  <1>8. /\ c \in Checkpoint /\ c.stage = "PLANNING" /\ c.plan = NoPlan /\ c.feedback = TRUE
        /\ SameProduct(c) /\ SameDesign(c) /\ SameWork(c) /\ SameBudget(c) /\ SameWait(c)
    BY <1>3, <1>7, Current DEF Checkpoint, JointStage, SameProduct, SameDesign, SameWork,
       SameBudget, SameWait
  <1>9. ValidChain(c)
    BY <1>6, <1>8, Current DEF ValidChain, SameProduct, SameDesign, SameWork, SameBudget,
       SameWait, PlanningDecision, AllDone, Children
  <1>10. StageFacts(c, c.stage) /\ WaitFacts(c)
    BY <1>5, <1>6, <1>8, Current DEF StageFacts, WaitFacts, SameProduct, SameDesign, SameWait,
       Drafting
  <1>11. WorkFacts(c)
    BY <1>5, <1>6, <1>8, Current DEF WorkFacts, SameDesign, SameWork, Complete, Children
  <1>12. ValidSuccessor(cp, c)
    <2>1. cp.attempts["integration"] \in Nat
      BY Current, CheckpointNumbers
    <2> QED  BY <1>4, <1>5, <1>8, <2>1 DEF ValidSuccessor, SameProduct, SameDesign, SameWork,
                SameBudget, SameWait
  <1>13. Lives(cp, c)
    <2>1. Phase(cp) = "stopped" /\ Phase(c) = "engineering"
      BY <1>4, <1>8, Current, PhaseIs DEF JointStage
    <2>2. PlanUnits(c) = {}
      BY <1>8 DEF PlanUnits, NoPlan
    <2> QED  BY <1>6, <1>8, <2>1, <2>2 DEF Lives, SameProduct, SameWork, Delivered
  <1>14. Shown(c) /\ Answered(c)
    BY <1>5, <1>8 DEF Shown, Answered, SameProduct
  <1>15. RunInv(c, r) /\ r.pc # "charged"
    BY <1>2, Resting
  <1>16. cp.retry => c.retry
    BY <1>8 DEF SameWork
  <1> QED  BY <1>2, <1>4, <1>8, <1>9, <1>10, <1>11, <1>12, <1>13, <1>14, <1>15, <1>16, SavedParts

-----------------------------------------------------------------------------
(* The delivery of the directories and the integration                     *)

\* A Requirement of one directory whose delivery is complete was planned.
LEMMA SingleFacts ==
  ASSUME JointInv, SingleComplete
  PROVE  /\ cp.plan # NoPlan /\ Children(cp) = scope /\ PlanUnits(cp) = scope
         /\ Delivered(cp) = scope
  <1>1. /\ Cardinality(scope) = 1 /\ Children(cp) # {} /\ AllDone(cp)
    BY DEF SingleComplete
  <1>2. cp.plan # NoPlan
    BY <1>1, Current DEF WorkFacts
  <1>3. /\ PlanUnits(cp) = SelectedWrites(cp.design) /\ SelectedWrites(cp.design) \subseteq scope
        /\ Children(cp) \subseteq SelectedWrites(cp.design)
    BY <1>1, <1>2, PlannedUnits, Current DEF WorkFacts
  <1>4. PICK x : scope = {x}
    <2>1. IsFiniteSet(scope)
      BY FS_Subset, JointConstants DEF JointInv
    <2> QED  BY <1>1, <2>1, FS_Singleton
  <1>5. Children(cp) = scope /\ SelectedWrites(cp.design) = scope
    BY <1>1, <1>3, <1>4
  <1>6. Delivered(cp) = Children(cp)
    BY <1>1 DEF Delivered, Children, AllDone
  <1> QED  BY <1>2, <1>3, <1>5, <1>6

\* The only directory is delivered: nothing is left to integrate.
LEMMA CompleteSingleOK == ASSUME JointInv, CompleteSingle PROVE StepOK
  <1>1. PICK r : r = Idle
    OBVIOUS
  <1>2. r \in CommandRun /\ r.pc = "idle"
    BY <1>1, RunTypes
  <1>3. PICK c : c = [cp EXCEPT !.stage = "DONE", !.single = TRUE]
    OBVIOUS
  <1>4. /\ SingleComplete /\ Save(c, r) /\ UNCHANGED <<scope, know, audit, receipt>>
        /\ cp.stage \in EngineeringStage \cup {"BLOCKED"}
        /\ Cardinality(scope) = 1 /\ AllDone(cp)
    BY <1>1, <1>3 DEF CompleteSingle, SingleComplete, EngineeringStage
  <1>5. /\ cp.plan # NoPlan /\ Children(cp) = scope /\ PlanUnits(cp) = scope
        /\ Delivered(cp) = scope
    BY <1>4, SingleFacts
  <1>6. cp.approval # 0
    BY <1>5, PlannedUnits
  <1>7. /\ c \in Checkpoint /\ c.stage = "DONE" /\ c.single = TRUE
        /\ c.children = cp.children /\ c.integration = cp.integration /\ c.retry = cp.retry
        /\ SameProduct(c) /\ SameDesign(c) /\ SamePlan(c) /\ SameBudget(c) /\ SameWait(c)
    BY <1>3, Current DEF Checkpoint, JointStage, SameProduct, SameDesign, SamePlan, SameBudget,
       SameWait
  <1>8. DoneIsEvidenced(c)
    BY <1>4, <1>5, <1>7 DEF DoneIsEvidenced, AllDone, Children
  <1>9. ValidChain(c)
    BY <1>7, <1>8, Current DEF ValidChain, SameProduct, SameDesign, SamePlan, SameBudget,
       SameWait, PlanningDecision, AllDone, Children, PlanUnits
  <1>10. cp.gap = 0
    BY <1>4, Current DEF EngineeringStage
  <1>11. StageFacts(c, c.stage) /\ WaitFacts(c)
    BY <1>7, <1>10, Current DEF StageFacts, WaitFacts, SameWait, Drafting
  <1>12. WorkFacts(c)
    BY <1>7, Current DEF WorkFacts, SameDesign, SamePlan, Complete, Children
  <1>13. ValidSuccessor(cp, c)
    <2>1. cp.attempts["integration"] \in Nat
      BY Current, CheckpointNumbers
    <2> QED  BY <1>4, <1>7, <2>1 DEF ValidSuccessor, SameProduct, SameDesign, SamePlan,
                SameBudget, SameWait, EngineeringStage
  <1>14. Lives(cp, c)
    <2>1. Phase(cp) \in {"engineering", "stopped"} /\ Phase(c) = "done"
      BY <1>4, <1>7, Current, PhaseIs DEF JointStage, EngineeringStage
    <2>2. scope # {}
      BY DEF JointInv
    <2>3. Moves(cp, c)
      BY <1>5, <1>6, <2>1, <2>2 DEF Moves
    <2> QED  BY <1>7, <2>3, LifeKept DEF SameProduct, SamePlan
  <1>15. Shown(c) /\ Answered(c)
    BY <1>7, <1>10 DEF Shown, Answered, SameProduct
  <1>16. RunInv(c, r) /\ r.pc # "charged"
    BY <1>2, Resting
  <1> QED  BY <1>2, <1>4, <1>7, <1>9, <1>11, <1>12, <1>13, <1>14, <1>15, <1>16, SavedParts

\* One more integration run is approved for the failed one.
LEMMA ApproveRetryOK == ASSUME JointInv, ApproveRetry PROVE StepOK
  <1>1. PICK r : r = Goto("resume")
    OBVIOUS
  <1>2. r \in CommandRun /\ r.pc = "resume"
    BY <1>1, RunTypes DEF CommandPC
  <1>3. PICK c : c = [cp EXCEPT !.retry = TRUE]
    OBVIOUS
  <1>4. /\ cp.stage \in {"BLOCKED", "PLANNING"} /\ Failing(cp) /\ ~cp.retry
        /\ cp.attempts["integration"] = 3 /\ AllDone(cp)
        /\ Save(c, r) /\ UNCHANGED <<scope, know, audit, receipt>>
    BY <1>1, <1>3 DEF ApproveRetry, IntegrationUsedUp
  <1>5. cp.gap = 0 /\ cp.single = FALSE /\ Complete(cp)
    <2>1. cp.integration # NoEvidence
      BY <1>4 DEF Failing, NoEvidence
    <2> QED  BY <1>4, <2>1, Current, NotSingle DEF WorkFacts
  <1>6. /\ c \in Checkpoint /\ c.stage = cp.stage /\ c.retry = TRUE
        /\ c.children = cp.children /\ c.integration = cp.integration /\ c.single = cp.single
        /\ SameProduct(c) /\ SameDesign(c) /\ SamePlan(c) /\ SameBudget(c) /\ SameWait(c)
    BY <1>3, Current DEF Checkpoint, SameProduct, SameDesign, SamePlan, SameBudget, SameWait
  <1>7. ValidChain(c)
    BY <1>4, <1>6, Current DEF ValidChain, SameProduct, SameDesign, SamePlan, SameBudget,
       SameWait, PlanningDecision, AllDone, Children, PlanUnits
  <1>8. StageFacts(c, c.stage) /\ WaitFacts(c)
    BY <1>4, <1>5, <1>6, Current DEF StageFacts, WaitFacts, SameProduct, SameDesign, SamePlan,
       SameWait, Drafting
  <1>9. WorkFacts(c)
    BY <1>5, <1>6, Current DEF WorkFacts, SameDesign, SamePlan, Complete, Children
  <1>10. IsRetryApproval(cp, c)
    BY <1>4, <1>6 DEF IsRetryApproval, SamePlan, SameBudget
  <1>11. ValidSuccessor(cp, c)
    BY <1>4, <1>6, <1>10 DEF ValidSuccessor, SameProduct, SameDesign, SamePlan, SameBudget,
       SameWait
  <1>12. Lives(cp, c) /\ Shown(c) /\ Answered(c)
    <2>1. Phase(c) = Phase(cp)
      BY <1>6 DEF Phase, SameWait
    <2> QED  BY <1>5, <1>6, <2>1, LifeKept DEF Moves, Answered, SameProduct, SamePlan
  <1>13. RunInv(c, r) /\ r.pc # "charged"
    BY <1>2, Resting
  <1> QED  BY <1>2, <1>4, <1>6, <1>7, <1>8, <1>9, <1>11, <1>12, <1>13, SavedParts

\* The next unit is the first of the plan that is not delivered.
LEMMA NextUnitIs ==
  ASSUME JointInv, Undelivered(cp) # {}
  PROVE  NextUnit \in Undelivered(cp)
  <1> DEFINE o == cp.plan.order
             I == {i \in DOMAIN o : o[i] \in UnitsToDeliver}
             R == {ss \in Nat \X Nat : ss[1] < ss[2]}
  <1>1. o \in Seq(scope) /\ Len(o) \in Nat /\ DOMAIN o = 1 .. Len(o)
    BY Current DEF Checkpoint, Plans
  <1>2. I \subseteq Nat /\ I # {}
    <2>1. PICK u \in PlanUnits(cp) : cp.children[u] # "done"
      BY DEF Undelivered
    <2>2. u \in UnitsToDeliver
      BY <2>1 DEF UnitsToDeliver
    <2>3. PICK i \in DOMAIN o : u = o[i]
      BY <2>1 DEF PlanUnits
    <2> QED  BY <1>1, <2>2, <2>3
  <1>3. IsWellFoundedOn(R, Nat)
    BY NatLessThanWellFounded, Zenon DEF OpToRel
  <1>4. PICK m \in I : \A y \in I : <<y, m>> \notin R
    <2> HIDE DEF I, R
    <2> QED  BY <1>2, <1>3, WFMin
  <1>5. \A y \in I : ~(y < m)
    BY <1>2, <1>4
  <1>6. \A j \in 1 .. m - 1 : o[j] \notin UnitsToDeliver
    <2> SUFFICES ASSUME NEW j \in 1 .. m - 1, o[j] \in UnitsToDeliver PROVE FALSE
      OBVIOUS
    <2>1. m \in 1 .. Len(o)
      BY <1>1, <1>4
    <2>2. j \in DOMAIN o /\ j < m
      BY <1>1, <2>1
    <2> QED  BY <1>5, <2>2
  <1>7. \E i \in DOMAIN o : /\ o[i] \in UnitsToDeliver
                            /\ \A j \in 1 .. i - 1 : o[j] \notin UnitsToDeliver
    BY <1>4, <1>6
  <1>8. NextUnit \in UnitsToDeliver
    BY <1>7 DEF NextUnit
  <1> QED  BY <1>8 DEF UnitsToDeliver, Undelivered

\* The native delivery of the next unit is recorded: nothing was integrated or approved
\* for one more integration before it.
LEMMA ChildStep ==
  ASSUME JointInv, run.pc = "call", cp.stage = "DELIVERING", NEW state \in ChildState \ {"none"},
         NEW c, c = [cp EXCEPT !.children[NextUnit] = state]
  PROVE  Follows(c) /\ SameBudget(c) /\ SameProduct(c) /\ c.stage = "DELIVERING"
  <1>1. Undelivered(cp) # {}
    BY Current, CounterIs DEF JointInv, RunInv
  <1>2. PICK u : u = NextUnit
    OBVIOUS
  <1>3. u \in PlanUnits(cp) /\ cp.children[u] # "done"
    BY <1>1, <1>2, NextUnitIs DEF Undelivered
  <1>4. /\ cp.plan # NoPlan /\ cp.approval # 0 /\ cp.gap = 0 /\ cp.single = FALSE
    BY Current, NotSingle DEF StageFacts
  <1>5. /\ cp.design # NoDesign /\ PlanUnits(cp) = SelectedWrites(cp.design)
        /\ SelectedWrites(cp.design) \subseteq scope /\ scope \subseteq Unit
    BY <1>4, PlannedUnits DEF JointInv
  <1>6. cp.retry = FALSE /\ cp.integration = NoEvidence
    <2>1. ~Complete(cp)
      BY <1>3, <1>5 DEF Complete
    <2> QED  BY <2>1, Current DEF WorkFacts, Checkpoint
  <1>7. PICK K : K = [cp.children EXCEPT ![u] = state]
    OBVIOUS
  <1>8. u \in Unit /\ cp.children \in [Unit -> ChildState]
    BY <1>3, <1>5, Current DEF Checkpoint
  <1>9. /\ K \in [Unit -> ChildState] /\ K[u] = state
        /\ \A v \in Unit \ {u} : K[v] = cp.children[v]
    BY <1>7, <1>8
  <1>10. c = [cp EXCEPT !.children = K]
    BY <1>2, <1>7
  <1>11. /\ c \in Checkpoint /\ c.stage = cp.stage /\ c.children = K
         /\ c.integration = cp.integration /\ c.retry = cp.retry /\ c.single = cp.single
         /\ SameProduct(c) /\ SameDesign(c) /\ SamePlan(c) /\ SameBudget(c) /\ SameWait(c)
    BY <1>9, <1>10, Current DEF Checkpoint, SameProduct, SameDesign, SamePlan, SameBudget,
       SameWait
  <1>12. ValidChain(c)
    BY <1>6, <1>11, Current DEF ValidChain, SameProduct, SameDesign, SamePlan, SameBudget,
       SameWait, PlanningDecision, PlanUnits
  <1>13. StageFacts(c, c.stage) /\ WaitFacts(c)
    BY <1>4, <1>11, Current DEF StageFacts, WaitFacts, SameProduct, SamePlan, SameWait, Drafting
  <1>14. WorkFacts(c)
    <2>1. Children(c) \subseteq Children(cp) \cup {u}
      BY <1>9, <1>11 DEF Children
    <2>2. Children(c) \subseteq SelectedWrites(cp.design)
      BY <2>1, <1>3, <1>5, Current DEF WorkFacts
    <2> QED  BY <1>4, <1>5, <1>6, <1>11, <2>2, Current DEF WorkFacts, SameDesign, SamePlan
  <1>15. BudgetFacts(c)
    BY <1>11, Current DEF BudgetFacts, SameBudget
  <1>16. ValidSuccessor(cp, c)
    BY <1>6, <1>11 DEF ValidSuccessor, SameProduct, SameDesign, SamePlan, SameBudget, SameWait
  <1>17. Lives(cp, c)
    <2>1. Phase(cp) = "engineering" /\ Phase(c) = "engineering"
      BY <1>11, Current, PhaseIs
    <2>2. PlanUnits(c) = PlanUnits(cp) /\ c.approval = cp.approval
      BY <1>11 DEF PlanUnits, SamePlan, SameProduct
    <2>3. CASE state = "done"
      <3>1. Delivered(c) = Delivered(cp) \cup {u} /\ u \notin Delivered(cp)
        BY <1>3, <1>8, <1>9, <1>11, <2>3 DEF Delivered
      <3> QED  BY <1>3, <2>1, <2>2, <3>1 DEF Lives
    <2>4. CASE state # "done"
      <3>1. Delivered(c) = Delivered(cp)
        BY <1>3, <1>9, <1>11, <2>4 DEF Delivered
      <3> QED  BY <2>1, <2>2, <3>1 DEF Lives, Moves
    <2> QED  BY <2>3, <2>4
  <1>18. Shown(c) /\ Answered(c)
    BY <1>4, <1>11 DEF Shown, Answered, SameProduct
  <1> QED  BY <1>11, <1>12, <1>13, <1>14, <1>15, <1>16, <1>17, <1>18 DEF Follows, Good

\* backend.deliver returned.
LEMMA ChildReturnedOK ==
  ASSUME JointInv, NEW state \in ChildState \ {"none"}, ChildReturned(state)
  PROVE  StepOK
  <1>1. PICK r : r = Goto(IF state = "done" THEN "stage" ELSE "stopped")
    OBVIOUS
  <1>2. r \in CommandRun /\ r.pc \in {"stage", "stopped"}
    BY <1>1, RunTypes DEF CommandPC
  <1>3. PICK c : c = [cp EXCEPT !.children[NextUnit] = state]
    OBVIOUS
  <1>4. /\ run.pc = "call" /\ cp.stage = "DELIVERING"
        /\ Save(c, r) /\ UNCHANGED <<scope, know, audit, receipt>>
    BY <1>1, <1>3 DEF ChildReturned, At
  <1>5. Follows(c) /\ SameBudget(c) /\ c.stage = "DELIVERING"
    BY <1>3, <1>4, ChildStep
  <1>6. RunInv(c, r) /\ r.pc # "charged" /\ receipt' \in BOOLEAN
    BY <1>2, <1>4, <1>5 DEF RunInv, CommandRun, JointInv
  <1> QED  BY <1>4, <1>5, <1>6, SavedFree

\* A native delivery raised a gap: its child is saved first.
LEMMA ChildGapOK == ASSUME JointInv, NEW g \in 1 .. MaxGaps, ChildGap(g) PROVE StepOK
  <1>1. PICK r : r = [run EXCEPT !.pc = "gap", !.gap = g]
    OBVIOUS
  <1>2. r \in CommandRun /\ r.pc = "gap" /\ r.gap = g /\ g # 0
    <2>1. g \in 0 .. MaxGaps /\ g # 0
      BY JointConstants
    <2> QED  BY <1>1, <2>1, RunTypes DEF CommandPC, CommandRun
  <1>3. PICK c : c = [cp EXCEPT !.children[NextUnit] = "waiting"]
    OBVIOUS
  <1>4. /\ run.pc = "call" /\ cp.stage = "DELIVERING"
        /\ Save(c, r) /\ UNCHANGED <<scope, audit, receipt>>
        /\ know' = [know EXCEPT !.raised = IF g > @ THEN g ELSE @]
    BY <1>1, <1>3 DEF ChildGap, At
  <1>5. Follows(c) /\ SameBudget(c) /\ SameProduct(c) /\ c.stage = "DELIVERING"
    <2>1. "waiting" \in ChildState \ {"none"}
      BY DEF ChildState
    <2> QED  BY <1>3, <1>4, <2>1, ChildStep
  <1>6. RunInv(c, r) /\ receipt' \in BOOLEAN
    BY <1>2, <1>4, <1>5 DEF RunInv, CommandRun, JointInv
  <1>7. AuditInv(c, r, audit')
    <2>1. \A k \in Counter : Paid(c, k) = Paid(cp, k)
      BY <1>5 DEF Paid, SameBudget
    <2> QED  BY <1>2, <1>4, <2>1 DEF JointInv, AuditInv
  <1>8. KnowInv(c, know')
    <2>1. KnowInv(c, know)
      BY <1>5 DEF JointInv, KnowInv, SameProduct
    <2> QED  BY <2>1, <1>4, GapNumbers
  <1> QED  BY <1>4, <1>5, <1>6, <1>7, <1>8, Saved

\* The integration commands returned: all of the plan is delivered.
LEMMA IntegratedOK ==
  ASSUME JointInv, NEW result \in {"passed", "failed"}, Integrated(result)
  PROVE  StepOK
  <1>1. PICK r : r = IF result = "passed" THEN Idle ELSE Goto("diagnose")
    OBVIOUS
  <1>2. r \in CommandRun /\ r.pc = IF result = "passed" THEN "idle" ELSE "diagnose"
    BY <1>1, RunTypes DEF CommandPC
  <1>3. PICK s : s = IF result = "passed" THEN "DONE" ELSE "BLOCKED"
    OBVIOUS
  <1>4. PICK e : e = [result |-> result, plan |-> cp.plan.id]
    OBVIOUS
  <1>5. PICK c : c = [cp EXCEPT !.integration = e, !.stage = s]
    OBVIOUS
  <1>6. cp.stage = "INTEGRATING" /\ UNCHANGED <<scope, know, audit, receipt>>
    BY DEF Integrated
  <1>7. Save(c, r)
    <2>1. CASE result = "passed"
      <3>1. Save([[cp EXCEPT !.integration = e] EXCEPT !.stage = "DONE"], Idle)
        BY <2>1, <1>4 DEF Integrated
      <3> QED  BY <2>1, <3>1, <1>1, <1>3, <1>5
    <2>2. CASE result # "passed"
      <3>1. Save([[cp EXCEPT !.integration = e] EXCEPT !.stage = "BLOCKED"], Goto("diagnose"))
        BY <2>2, <1>4 DEF Integrated
      <3> QED  BY <2>2, <3>1, <1>1, <1>3, <1>5
    <2> QED  BY <2>1, <2>2
  <1>8. /\ cp.plan # NoPlan /\ Complete(cp) /\ Cardinality(scope) # 1 /\ cp.gap = 0
        /\ cp.single = FALSE
    BY <1>6, Current, NotSingle DEF StageFacts
  <1>9. /\ cp.design # NoDesign /\ PlanUnits(cp) = SelectedWrites(cp.design) /\ cp.approval # 0
        /\ SelectedWrites(cp.design) \subseteq scope /\ scope \subseteq Unit
        /\ PlanUnits(cp) # {}
    BY <1>8, PlannedUnits DEF JointInv
  <1>10. /\ Children(cp) = PlanUnits(cp) /\ AllDone(cp) /\ Delivered(cp) = PlanUnits(cp)
    <2>1. \A u \in SelectedWrites(cp.design) : u \in Unit /\ cp.children[u] = "done"
      BY <1>8, <1>9 DEF Complete
    <2>2. Children(cp) \subseteq SelectedWrites(cp.design)
      BY Current DEF WorkFacts
    <2>3. Children(cp) = SelectedWrites(cp.design)
      BY <2>1, <2>2 DEF Children
    <2>4. AllDone(cp)
      BY <2>1, <2>3 DEF AllDone
    <2>5. Delivered(cp) = Children(cp)
      BY <2>4 DEF Delivered, Children, AllDone
    <2> QED  BY <1>9, <2>3, <2>4, <2>5
  <1>11. e \in [result : {"none", "failed", "passed"}, plan : Nat] /\ s \in JointStage
    <2>1. cp.plan \in Plans /\ Limit["plan"] \in Nat
      BY Current, JointConstants DEF Checkpoint, ModelStage, RetryLimit
    <2>2. cp.plan.id \in Nat
      BY <2>1 DEF Plans
    <2> QED  BY <1>3, <1>4, <2>2 DEF JointStage
  <1>12. /\ c \in Checkpoint /\ c.stage = s /\ c.integration = e
         /\ c.children = cp.children /\ c.retry = cp.retry /\ c.single = cp.single
         /\ SameProduct(c) /\ SameDesign(c) /\ SamePlan(c) /\ SameBudget(c) /\ SameWait(c)
    BY <1>5, <1>11, Current DEF Checkpoint, SameProduct, SameDesign, SamePlan, SameBudget,
       SameWait
  <1>13. s = "DONE" => DoneIsEvidenced(c)
    BY <1>3, <1>4, <1>8, <1>10, <1>12 DEF DoneIsEvidenced, SamePlan, AllDone, Children, PlanUnits
  <1>14. ValidChain(c)
    BY <1>12, <1>13, Current DEF ValidChain, SameProduct, SameDesign, SamePlan, SameBudget,
       SameWait, PlanningDecision, AllDone, Children, PlanUnits
  <1>15. StageFacts(c, c.stage) /\ WaitFacts(c)
    BY <1>3, <1>8, <1>12, Current DEF StageFacts, WaitFacts, SameWait, Drafting
  <1>16. WorkFacts(c)
    BY <1>8, <1>12, Current DEF WorkFacts, SameDesign, SamePlan, Complete, Children
  <1>17. ValidSuccessor(cp, c)
    <2>1. cp.attempts["integration"] \in Nat
      BY Current, CheckpointNumbers
    <2> QED  BY <1>6, <1>12, <2>1 DEF ValidSuccessor, SameProduct, SameDesign, SamePlan,
                SameBudget, SameWait
  <1>18. Lives(cp, c) /\ Shown(c)
    <2>1. /\ Phase(cp) = "engineering"
          /\ Phase(c) = IF result = "passed" THEN "done" ELSE "stopped"
      BY <1>3, <1>6, <1>11, <1>12, Current, PhaseIs
    <2>2. Moves(cp, c)
      BY <1>9, <1>10, <2>1 DEF Moves
    <2> QED  BY <1>12, <2>2, LifeKept DEF SameProduct, SamePlan
  <1>19. Answered(c)
    BY <1>8 DEF Answered
  <1>20. RunInv(c, r) /\ r.pc # "charged"
    <2>1. CASE result = "passed"
      BY <1>2, <2>1, Resting
    <2>2. CASE result # "passed"
      BY <1>2, <1>3, <1>12, <2>2 DEF RunInv, CommandRun
    <2> QED  BY <2>1, <2>2
  <1> QED  BY <1>2, <1>6, <1>7, <1>12, <1>14, <1>15, <1>16, <1>17, <1>18, <1>19, <1>20, SavedParts

-----------------------------------------------------------------------------
(* The specification                                                       *)

\* The first checkpoint, and the command that prepares the Requirement.
LEMMA InitOK == ASSUME Init PROVE JointInv
  <1>1. /\ scope \in (SUBSET Unit) \ {{}} /\ cp = FirstCheckpoint
        /\ run = [Idle EXCEPT !.pc = "stage"]
        /\ human = [shown |-> FALSE, looked |-> 0]
        /\ know = [raised |-> 0, waits |-> {}, designWaits |-> {}, resolved |-> {}]
        /\ receipt = FALSE /\ refused = FALSE
        /\ audit = [calls |-> [k \in Counter |-> 0], resets |-> 0]
    BY DEF Init
  <1>2. /\ {MaxRounds, MaxGaps, MaxResets} \subseteq Nat
        /\ \A k \in ModelStage : Limit[k] \in Nat /\ MaxTransient[k] \in Nat
        /\ Limit["product"] \in Nat /\ Limit["plan"] \in Nat
    BY JointConstants DEF ModelStage, RetryLimit
  <1>3. NoPlan \in Plans
    <2>1. <<>> \in Seq(scope)
      OBVIOUS
    <2> QED  BY <1>2, <2>1 DEF NoPlan, Plans
  <1>4. cp \in Checkpoint
    <2>1. NoEvidence \in [result : {"none", "failed", "passed"}, plan : Nat]
      BY DEF NoEvidence
    <2>2. [u \in Unit |-> "none"] \in [Unit -> ChildState]
      BY DEF ChildState
    <2>3. [k \in Counter |-> 0] \in [Counter -> Nat] /\ [k \in ModelStage |-> 0] \in [ModelStage -> Nat]
      OBVIOUS
    <2>4. 0 \in 0 .. MaxGaps /\ 0 \in 0 .. Limit["product"]
      BY <1>2
    <2>5. "PREPARING" \in JointStage
      BY DEF JointStage
    <2> QED  BY <1>1, <1>3, <2>1, <2>2, <2>3, <2>4, <2>5 DEF FirstCheckpoint, Checkpoint
  <1>5. /\ cp.stage = "PREPARING" /\ cp.wait = "none" /\ cp.gap = 0 /\ cp.rechecks = {}
        /\ cp.spec = 0 /\ cp.approval = 0 /\ cp.design = NoDesign /\ cp.plan = NoPlan
        /\ cp.decision = NoDecision /\ cp.children = [u \in Unit |-> "none"]
        /\ cp.integration = NoEvidence /\ cp.retry = FALSE /\ cp.single = FALSE
        /\ cp.attempts = [k \in Counter |-> 0] /\ cp.transient = [k \in ModelStage |-> 0]
    BY <1>1 DEF FirstCheckpoint
  <1>6. Children(cp) = {}
    BY <1>5 DEF Children
  <1>7. \A k \in Counter : cp.attempts[k] = 0
    BY <1>5
  <1>8. \A k \in ModelStage : cp.transient[k] = 0
    BY <1>5
  <1>9. cp.attempts["integration"] = 0
    BY <1>7 DEF Counter
  <1>10. ValidChain(cp) /\ StageFacts(cp, cp.stage) /\ WaitFacts(cp) /\ WorkFacts(cp)
    BY <1>5, <1>6 DEF ValidChain, StageFacts, WaitFacts, WorkFacts, Drafting
  <1>11. BudgetFacts(cp)
    BY <1>2, <1>5, <1>7, <1>8, <1>9 DEF BudgetFacts, Counter
  <1>12. Good(cp)
    BY <1>4, <1>10, <1>11 DEF Good
  <1>13. RunInv(cp, run)
    <2>1. run \in CommandRun /\ run.pc = "stage"
      BY <1>1, <1>2 DEF Idle, CommandRun, CommandPC
    <2> QED  BY <2>1, Resting
  <1>14. AuditInv(cp, run, audit)
    <2>1. audit \in [calls : [Counter -> Int], resets : 0 .. MaxResets]
      BY <1>1, <1>2
    <2>2. \A k \in Counter : audit.calls[k] = 0 /\ Paid(cp, k) \in Nat
      BY <1>1, <1>4, CheckpointNumbers
    <2>3. run.pc # "charged"
      BY <1>1 DEF Idle
    <2> QED  BY <2>1, <2>2, <2>3 DEF AuditInv
  <1>15. KnowInv(cp, know)
    BY <1>1, <1>2 DEF KnowInv
  <1>16. HumanInv(cp, human)
    BY <1>1, <1>2 DEF HumanInv
  <1> QED  BY <1>1, <1>12, <1>13, <1>14, <1>15, <1>16 DEF JointInv

\* Every step keeps the invariant and does to the checkpoint what it may.
LEMMA NextOK == ASSUME JointInv, [Next]_vars PROVE StepOK
  <1>1. CASE UNCHANGED vars
    BY <1>1, Stays DEF JointInv, vars
  <1>2. CASE HumanNext
    <2>1. CASE Look
      BY <2>1, LookOK
    <2>2. CASE \E g \in 1 .. know.raised : Resolve(g)
      BY <2>2, ResolveOK
    <2>3. CASE Reply
      BY <2>3, DiscussOK
    <2>4. CASE Approve
      BY <2>4, ApproveOK
    <2>5. CASE Close \/ Restart
      BY <2>5, CloseOK
    <2>6. CASE RecheckDesign
      BY <2>6, RecheckDesignOK
    <2>7. CASE RecoverDesign
      BY <2>7, RecoverDesignOK
    <2>8. CASE UpgradePlanning
      BY <2>8, UpgradePlanningOK
    <2>9. CASE Resume
      BY <2>9, RestsOK
    <2> QED  BY <1>2, <2>1, <2>2, <2>3, <2>4, <2>5, <2>6, <2>7, <2>8, <2>9 DEF HumanNext
  <1>3. CASE CommandNext
    <2>1. CASE CompleteSingle
      BY <2>1, CompleteSingleOK
    <2>2. CASE RetryUsedUp
      BY <2>2, RetryUsedUpOK
    <2>3. CASE ApproveRetry
      BY <2>3, ApproveRetryOK
    <2>4. CASE RecoverChildren
      BY <2>4, RecoverChildrenOK
    <2>5. CASE Replan
      BY <2>5, ReplanOK
    <2>6. CASE ResumeRefused \/ ResumeAdvances \/ StageWaits \/ CallRefused
      BY <2>6, RestsOK
    <2>7. CASE GapResolved
      BY <2>7, GapResolvedOK
    <2>8. CASE Decide
      BY <2>8, DecideOK
    <2>9. CASE Charge \/ ChargeIntegration
      BY <2>9, ChargeOK
    <2>10. CASE Invoke
      BY <2>10, InvokeOK
    <2>11. CASE \E u \in Unit : PrepareUnit(u)
      BY <2>11, PrepareUnitOK
    <2>12. CASE \E described \in BOOLEAN : Prepared(described)
      BY <2>12, PreparedOK
    <2>13. CASE \E g \in 1 .. MaxGaps : RaiseGap(g) \/ ChildGap(g)
      BY <2>13, RaiseGapOK, ChildGapOK
    <2>14. CASE WaitForGap
      BY <2>14, WaitForGapOK
    <2>15. CASE CallFailsTransiently
      BY <2>15, CallFailsTransientlyOK
    <2>16. CASE CallFails
      BY <2>16, CallFailsOK
    <2>17. CASE Pause \/ DesignRejected \/ Advise \/ AdviseRetry
      BY <2>17, SameOK
    <2>18. CASE ProductClarifies
      BY <2>18, ProductClarifiesOK
    <2>19. CASE ProductProposes
      BY <2>19, DiscussOK
    <2>20. CASE \E d \in Design : DesignAccepted(d)
      BY <2>20, DesignAcceptedOK
    <2>21. CASE \E correctable \in BOOLEAN : PlanRejected(correctable)
      BY <2>21, PlanRejectedOK
    <2>22. CASE \E n \in 1 .. Cardinality(Unit) : \E order \in [1 .. n -> Unit] :
                   PlanAccepted(order)
      BY <2>22, PlanAcceptedOK
    <2>23. CASE StartDelivery
      BY <2>23, StartDeliveryOK
    <2>24. CASE ChildStops
      BY <2>24, ChildStopsOK
    <2>25. CASE \E state \in ChildState \ {"none"} : ChildReturned(state)
      BY <2>25, ChildReturnedOK
    <2>26. CASE StartIntegration
      BY <2>26, StartIntegrationOK
    <2>27. CASE IntegrationBlocked
      BY <2>27, IntegrationBlockedOK
    <2>28. CASE \E result \in {"passed", "failed"} : Integrated(result)
      BY <2>28, IntegratedOK
    <2> QED  BY <1>3, <2>1, <2>2, <2>3, <2>4, <2>5, <2>6, <2>7, <2>8, <2>9, <2>10, <2>11, <2>12,
                <2>13, <2>14, <2>15, <2>16, <2>17, <2>18, <2>19, <2>20, <2>21, <2>22, <2>23,
                <2>24, <2>25, <2>26, <2>27, <2>28 DEF CommandNext
  <1>4. CASE Interrupt
    BY <1>4, RestsOK
  <1> QED  BY <1>1, <1>2, <1>3, <1>4 DEF Next

\* Every state of the journal, its command and the people around it is good.
THEOREM JointCorrect == Spec => []JointInv
  <1>1. Init => JointInv
    BY InitOK
  <1>2. JointInv /\ [Next]_vars => JointInv'
    BY NextOK DEF StepOK
  <1> QED  BY <1>1, <1>2, PTL DEF Spec

\* TypeOK: no sequence of commands, failures and interruptions takes a variable out of
\* its type; the counters stay within their budgets.
THEOREM JointTypeCorrect == Spec => []TypeOK
  <1>1. JointInv => TypeOK
    <2> SUFFICES ASSUME JointInv PROVE TypeOK
      OBVIOUS
    <2>1. /\ cp.stage \in JointStage /\ cp.wait \in JointStage \cup {"none"}
          /\ cp.gap \in 0 .. MaxGaps /\ cp.rechecks \subseteq 1 .. MaxGaps
          /\ cp.prepared \subseteq scope
          /\ cp.spec \in 0 .. Limit["product"] /\ cp.approval \in 0 .. Limit["product"]
          /\ {cp.design, cp.upgrade} \subseteq Design \cup {NoDesign}
          /\ cp.decision \in {NoDecision} \cup (Design \X BOOLEAN)
      BY Current DEF Checkpoint
    <2>2. cp.plan \in Plans /\ cp.children \in [Unit -> ChildState]
          /\ cp.integration.result \in {"none", "failed", "passed"}
          /\ cp.attempts \in [Counter -> Nat] /\ cp.transient \in [ModelStage -> Nat]
          /\ {cp.conflict, cp.feedback, cp.retry, cp.single} \subseteq BOOLEAN
      BY Current DEF Checkpoint
    <2>3. cp.plan.order \in Seq(scope) /\ cp.plan.id \in 0 .. Limit["plan"]
          /\ cp.plan.revised \in BOOLEAN
      BY <2>2 DEF Plans
    <2>4. {receipt, refused} \subseteq BOOLEAN /\ scope \in (SUBSET Unit) \ {{}}
      BY DEF JointInv
    <2>5. {cp.conflict, cp.feedback, cp.plan.revised, cp.retry, cp.single, receipt, refused}
            \subseteq BOOLEAN
      BY <2>2, <2>3, <2>4
    <2>6. run \in CommandRun
      BY RunTypes
    <2>7. /\ human \in [shown : BOOLEAN, looked : 0 .. Limit["product"]]
          /\ know \in [raised : 0 .. MaxGaps, waits : SUBSET (1 .. MaxGaps),
                       designWaits : SUBSET (1 .. MaxGaps), resolved : SUBSET (1 .. MaxGaps)]
          /\ audit \in [calls : [Counter -> Int], resets : 0 .. MaxResets]
      BY DEF JointInv, HumanInv, KnowInv, AuditInv
    <2> QED  BY <2>1, <2>2, <2>3, <2>4, <2>5, <2>6, <2>7 DEF TypeOK, CommandRun
  <1> QED  BY <1>1, JointCorrect, PTL

\* The journal refuses no checkpoint that the service builds.
THEOREM NoSaveRefusedHolds == Spec => []NoSaveRefused
  <1>1. JointInv => NoSaveRefused
    BY DEF JointInv, NoSaveRefused
  <1> QED  BY <1>1, JointCorrect, PTL

\* Every call of a model and of the integration commands was paid for before it
\* started, and the limits of the policy hold.
THEOREM CallsArePaidForHolds == Spec => []CallsArePaidFor
  <1>1. JointInv => CallsArePaidFor
    <2> SUFFICES ASSUME JointInv PROVE CallsArePaidFor
      OBVIOUS
    <2>1. \A k \in Counter : audit.calls[k] \in Int /\ audit.calls[k] <= Paid(cp, k)
      BY DEF JointInv, AuditInv
    <2>2. \A k \in ModelStage : k \in Counter /\ k # "integration"
      BY DEF ModelStage, Counter
    <2>3. \A k \in ModelStage : audit.calls[k] <= cp.attempts[k] + cp.transient[k]
      BY <2>1, <2>2 DEF Paid
    <2>4. audit.calls["integration"] \in Int
          /\ audit.calls["integration"] <= cp.attempts["integration"]
      BY <2>1 DEF Paid, Counter
    <2>5. cp.attempts["integration"] \in Nat
          /\ cp.attempts["integration"] <= IntegrationLimit
      BY Current, CheckpointNumbers DEF BudgetFacts, IntegrationLimit
    <2>6. audit.calls["integration"] <= IntegrationLimit
      BY <2>4, <2>5 DEF IntegrationLimit
    <2> QED  BY <2>3, <2>6, Current DEF CallsArePaidFor, BudgetFacts
  <1> QED  BY <1>1, JointCorrect, PTL

\* The product that is approved is the one that was shown.
THEOREM ApprovedWhatWasShownHolds == Spec => ApprovedWhatWasShown
  <1>1. JointInv /\ [Next]_vars =>
          [cp'.approval # cp.approval => cp'.approval = human.looked]_vars
    BY NextOK DEF StepOK, Shown
  <1> QED  BY <1>1, JointCorrect, PTL DEF Spec, ApprovedWhatWasShown

\* A wait for knowledge ends only when it was resolved or taken back by Design.
THEOREM WaitsAreAnsweredHolds == Spec => WaitsAreAnswered
  <1>1. JointInv /\ [Next]_vars =>
          [cp.gap # 0 /\ cp'.gap # cp.gap => cp.gap \in know.resolved \cup cp'.rechecks]_vars
    BY NextOK DEF StepOK, Answered
  <1> QED  BY <1>1, JointCorrect, PTL DEF Spec, WaitsAreAnswered

\* A joint delivery implements the life of a Requirement: nothing is engineered without
\* an approval, the approval never changes, what is delivered stays delivered, and done
\* means that exactly the planned directories were delivered.
THEOREM JointImplementsLifecycle == Spec => LifecycleSpec
  <1>1. Init => Lifecycle!Init
    <2> SUFFICES ASSUME Init PROVE Lifecycle!Init
      OBVIOUS
    <2>1. /\ cp.stage = "PREPARING" /\ cp.approval = 0 /\ cp.plan = NoPlan
          /\ cp.children = [u \in Unit |-> "none"]
      BY DEF Init, FirstCheckpoint
    <2>2. Phase(cp) = "draft"
      BY <2>1 DEF Phase
    <2>3. PlanUnits(cp) = {}
      BY <2>1 DEF PlanUnits, NoPlan
    <2> QED  BY <2>1, <2>2, <2>3 DEF Lifecycle!Init
  <1>2. JointInv /\ [Next]_vars => [Lifecycle!Next]_(Lifecycle!lifecycleVars)
    <2> SUFFICES ASSUME JointInv, [Next]_vars
                 PROVE  [Lifecycle!Next]_(Lifecycle!lifecycleVars)
      OBVIOUS
    <2>1. Lives(cp, cp')
      BY NextOK DEF StepOK
    <2>2. PlanUnits(cp') = PlanUnits(cp)' /\ Phase(cp') = Phase(cp)'
      BY DEF PlanUnits, Phase
    <2> QED  BY <2>1, <2>2 DEF Lives, Moves, Delivered, Lifecycle!Next, Lifecycle!lifecycleVars,
                Lifecycle!Approve, Lifecycle!Plan, Lifecycle!Deliver, Lifecycle!Stop,
                Lifecycle!Continue, Lifecycle!Complete, Lifecycle!Close, Lifecycle!Restart
  <1> QED  BY <1>1, <1>2, JointCorrect, PTL DEF Spec, LifecycleSpec, Lifecycle!Spec
=============================================================================
