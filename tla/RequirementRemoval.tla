------------------------- MODULE RequirementRemoval -------------------------
(***************************************************************************)
(* How Requirements of a Project are closed, replaced and physically       *)
(* deleted while other commands run: RequirementRetirementStore,           *)
(* RequirementPurger, the cancellation receipt and the guard that stops    *)
(* engineering, driven by JointDeliveryService.                            *)
(*                                                                         *)
(* Commands are run by several processes.  One takes the file lock of a    *)
(* Requirement's directory without waiting, and may be interrupted between *)
(* any two of its writes; all of the state but `actor' and the two locks   *)
(* is on disk or in MySQL.  A checkpoint is its sequence number and its    *)
(* coarse phase; what moves it on is JointDelivery, here any step of the   *)
(* lifecycle.  A Requirement's Tasks and queue items are taken together.   *)
(***************************************************************************)
EXTENDS Naturals, FiniteSets

CONSTANTS
    Requirement,    \* delivery ids of one Project
    Started,        \* the ones that exist before the behaviour begins
    StartPhase,     \* the phases they are found in
    Actor,          \* processes and threads that run commands
    None,           \* no actor, no Requirement
    MaxSeq          \* bound: checkpoints of a journal

ASSUME RemovalConstants ==
    /\ Started \subseteq Requirement
    /\ StartPhase \subseteq {"preparing", "ready", "draft", "engineering", "stopped", "done"}
    /\ None \notin Requirement \cup Actor
    /\ MaxSeq \in Nat \ {0, 1}   \* an edited draft has two checkpoints

VARIABLES
    journal,    \* the directory of a Requirement and the checkpoints in it
    tasks,      \* its native Tasks, their queue items and rows
    receipt,    \* its cancellation receipt
    plan,       \* checkpoint its sealed purge plan binds, 0 without one
    retired,    \* its entry in retirement.json
    purged,     \* checkpoint its purge completion binds, 0 without one
    lock,       \* holder of the lock file in the directory
    purging,    \* holder of the deletion lock
    actor,      \* the command each actor runs
    calm        \* the last crash has happened and the last other command was given

vars == <<journal, tasks, receipt, plan, retired, purged, lock, purging, actor, calm>>

-----------------------------------------------------------------------------
(* Types                                                                   *)

\* preparing; ready: READY_FOR_DISCUSSION; draft: the Product dialogue; engineering:
\* from the approval on; stopped: BLOCKED.
Phase == {"preparing", "ready", "draft", "engineering", "stopped", "closed", "done"}

\* open: some Task or queue item is not terminal; leased: and a worker holds it.
TaskState == {"none", "open", "leased", "settled", "purged"}

PC == {"idle", "begin", "pending", "probe", "locked", "working", "cancel", "settle",
       "close", "intake", "prepare", "replace", "protect", "deleteSettle", "seal",
       "retire", "purge", "rows", "records", "unlink", "rmdir", "publish", "unplan"}

Cmd == {"none", "create", "work", "close", "restart", "replace", "delete", "revoke"}

NoReceipt == [action |-> "none", seq |-> 0]
NotRetired == [reason |-> "none", seq |-> 0, by |-> None]
NoJournal == [dir |-> FALSE, lockfile |-> FALSE, records |-> "none", seq |-> 0,
              phase |-> "preparing", closed |-> {}]
Idle == [pc |-> "idle", cmd |-> "none", req |-> None, by |-> None, expect |-> 0]

TypeOK ==
    /\ journal \in [Requirement ->
            [dir : BOOLEAN, lockfile : BOOLEAN, records : {"none", "whole", "partial"},
             seq : 0 .. MaxSeq, phase : Phase, closed : SUBSET (1 .. MaxSeq)]]
    /\ tasks \in [Requirement -> TaskState]
    /\ receipt \in [Requirement ->
            [action : {"none", "close", "delete"}, seq : 0 .. MaxSeq]]
    /\ plan \in [Requirement -> 0 .. MaxSeq] /\ purged \in [Requirement -> 0 .. MaxSeq]
    /\ retired \in [Requirement -> [reason : {"none", "deleted", "replaced"},
                                    seq : 0 .. MaxSeq, by : Requirement \cup {None}]]
    /\ lock \in [Requirement -> Actor \cup {None}]
    /\ purging \in [Requirement -> Actor \cup {None}]
    /\ actor \in [Actor -> [pc : PC, cmd : Cmd, req : Requirement \cup {None},
                            by : Requirement \cup {None}, expect : 0 .. MaxSeq]]
    /\ calm \in BOOLEAN
    /\ \A r \in Requirement : journal[r].lockfile \/ journal[r].records # "none" =>
                                journal[r].dir

\* A journal as earlier commands left it: its last checkpoint is number 1.
Left(phase) == [dir |-> TRUE, lockfile |-> TRUE, records |-> "whole", seq |-> 1,
                phase |-> phase, closed |-> {}]

LeftTasks(phase) == CASE phase \in {"engineering", "stopped"} -> {"none", "open", "settled"}
                      [] phase = "done" -> {"settled"}
                      [] OTHER -> {"none"}

Init ==
    /\ journal \in {j \in [Requirement -> {NoJournal} \cup {Left(p) : p \in StartPhase}] :
                      \A r \in Requirement : j[r].dir <=> r \in Started}
    /\ tasks \in {t \in [Requirement -> TaskState] :
                    \A r \in Requirement : t[r] \in LeftTasks(journal[r].phase)}
    /\ receipt = [r \in Requirement |-> NoReceipt]
    /\ plan = [r \in Requirement |-> 0]
    /\ retired = [r \in Requirement |-> NotRetired]
    /\ purged = [r \in Requirement |-> 0]
    /\ lock = [r \in Requirement |-> None]
    /\ purging = [r \in Requirement |-> None]
    /\ actor = [a \in Actor |-> Idle]
    /\ calm = FALSE

-----------------------------------------------------------------------------
(* Locks and the steps of a command                                        *)

Req(a) == actor[a].req
At(a, pc) == actor[a].pc = pc
Runs(a, cmd, pc) == actor[a].cmd = cmd /\ actor[a].pc = pc

Goto(a, pc) == actor' = [actor EXCEPT ![a].pc = pc]

\* The command returns, raises or dies; the system releases its locks.
End(a) ==
    /\ actor' = [actor EXCEPT ![a] = Idle]
    /\ lock' = [r \in Requirement |-> IF lock[r] = a THEN None ELSE lock[r]]
    /\ purging' = [r \in Requirement |-> IF purging[r] = a THEN None ELSE purging[r]]

UnchangedLocks == UNCHANGED <<lock, purging>>
UnchangedDisk == UNCHANGED <<journal, tasks, receipt, plan, retired, purged>>

\* JointJournal.current raises when checkpoints are missing.
Recorded(r) == journal[r].records = "whole"

\* purged_entry, _validate_retirement_entry and _validate_retirement_replacement of
\* one entry of retirement.json.
EntryValid(r) ==
    /\ IF purged[r] # 0
       THEN purged[r] = retired[r].seq /\ retired[r].reason = "deleted" /\ ~journal[r].dir
       ELSE Recorded(r) /\ journal[r].seq = retired[r].seq
    /\ retired[r].by # None =>
          \/ retired[retired[r].by].reason # "none" /\ purged[retired[r].by] # 0
          \/ Recorded(retired[r].by)

\* retired_delivery_ids validates every entry of the Project.
Readable == \A r \in Requirement : retired[r] # NotRetired => EntryValid(r)

\* _current
Current(r) == retired[r] = NotRetired /\ Recorded(r) /\ Readable

\* append: the journal still ends with the checkpoint the command read.
Append(a, phase) ==
    LET r == Req(a) n == journal[r].seq + 1 IN
    /\ n <= MaxSeq
    /\ purged[r] = 0
    /\ journal' = [journal EXCEPT
          ![r].dir = TRUE, ![r].records = "whole", ![r].seq = n, ![r].phase = phase,
          ![r].closed = IF phase = "closed" THEN @ \cup {n} ELSE @]

\* What a person may have on display when the command is given.
Displayed(r) == {journal[r].seq, plan[r], purged[r]} \ {0}

Begin(a, cmd, r, e) ==
    /\ At(a, "idle")
    /\ calm => cmd = "delete"
    /\ cmd \in {"close", "restart", "delete"} => e \in Displayed(r)
    /\ cmd \in {"create", "work"} => e = 0
    /\ cmd = "create" => Readable /\ retired[r] = NotRetired
    /\ cmd # "delete" => purged[r] = 0
    /\ actor' = [actor EXCEPT ![a] = [pc |-> IF cmd = "delete" THEN "begin" ELSE "probe",
                                      cmd |-> cmd, req |-> r, by |-> None, expect |-> e]]
    /\ UnchangedDisk /\ UnchangedLocks

\* update_requirement: r2 is the identity of the edited draft.
BeginReplace(a, r, r2) ==
    /\ At(a, "idle")
    /\ ~calm /\ r # r2 /\ journal[r].seq # 0 /\ purged[r] = 0
    /\ actor' = [actor EXCEPT ![a] = [pc |-> "probe", cmd |-> "replace", req |-> r,
                                      by |-> r2, expect |-> journal[r].seq]]
    /\ UnchangedDisk /\ UnchangedLocks

\* Mutant: the lock file is opened and not locked.
AcquireShared(a) ==
    /\ At(a, "probe")
    /\ journal' = [journal EXCEPT ![Req(a)].dir = TRUE, ![Req(a)].lockfile = TRUE]
    /\ Goto(a, "locked") /\ lock' = [lock EXCEPT ![Req(a)] = a] /\ UNCHANGED purging
    /\ UNCHANGED <<tasks, receipt, plan, retired, purged>>

\* JointJournal.lock, after it found no purge completion: the directory and the lock
\* file are made if they do not exist.
Acquire(a) ==
    /\ At(a, "probe")
    /\ journal' = [journal EXCEPT ![Req(a)].dir = TRUE, ![Req(a)].lockfile = TRUE]
    /\ IF lock[Req(a)] = None
       THEN Goto(a, "locked") /\ lock' = [lock EXCEPT ![Req(a)] = a] /\ UNCHANGED purging
       ELSE End(a)
    /\ UNCHANGED <<tasks, receipt, plan, retired, purged>>

\* A check of the command fails and it raises.
Refuse(a) == End(a) /\ UnchangedDisk

Crash(a) ==
    /\ ~At(a, "idle") /\ ~calm
    /\ End(a)
    /\ UnchangedDisk

-----------------------------------------------------------------------------
(* The engineering of a Requirement                                        *)

\* Close and delete hold the process locks of the Tasks from their check on.
Fenced(r) == \E a \in Actor :
    /\ Req(a) = r
    /\ actor[a].pc \in {"settle", "close", "deleteSettle", "seal", "retire", "rows"}

\* Mutant: a worker does not take the process lock of the Task.
WorkerClaimsUnfenced(r) ==
    /\ tasks[r] = "open"
    /\ tasks' = [tasks EXCEPT ![r] = "leased"]
    /\ UNCHANGED <<journal, receipt, plan, retired, purged, lock, purging, actor>>

WorkerClaims(r) ==
    /\ tasks[r] = "open" /\ ~Fenced(r)
    /\ tasks' = [tasks EXCEPT ![r] = "leased"]
    /\ UNCHANGED <<journal, receipt, plan, retired, purged, lock, purging, actor>>

WorkerLeaves(r) ==
    /\ tasks[r] = "leased"
    /\ \E s \in {"open", "settled"} : tasks' = [tasks EXCEPT ![r] = s]
    /\ UNCHANGED <<journal, receipt, plan, retired, purged, lock, purging, actor>>

\* _intake of a new Requirement, or of one that exists.
Create(a) ==
    /\ Runs(a, "create", "locked")
    /\ IF retired[Req(a)] # NotRetired \/ ~Readable \/ journal[Req(a)].records = "partial"
       THEN Refuse(a)
       ELSE /\ IF journal[Req(a)].records = "none" THEN Append(a, "preparing")
                                                   ELSE UNCHANGED journal
            /\ Goto(a, "working")
            /\ UnchangedLocks /\ UNCHANGED <<tasks, receipt, plan, retired, purged>>

\* Mutant: the checkpoint is read without a look at retirement.json.
WorkRetired(a) ==
    /\ Runs(a, "work", "locked")
    /\ IF Recorded(Req(a)) THEN Goto(a, "working") /\ UnchangedDisk /\ UnchangedLocks
                           ELSE Refuse(a)

\* resume, reply, approve: the checkpoint is read after the lock is taken.
Work(a) ==
    /\ Runs(a, "work", "locked")
    /\ IF Current(Req(a)) THEN Goto(a, "working") /\ UnchangedDisk /\ UnchangedLocks
                          ELSE Refuse(a)

Successors(phase) ==
    CASE phase = "preparing" -> {"ready", "draft", "stopped"}
      [] phase \in {"ready", "draft"} -> {"draft", "engineering"}
      [] phase = "engineering" -> {"engineering", "stopped", "done"}
      [] phase = "stopped" -> {"engineering"}
      [] OTHER -> {}

\* One checkpoint of _advance; engineering makes Tasks and is done without open ones.
Advance(a, phase) ==
    /\ At(a, "working")
    /\ phase \in Successors(journal[Req(a)].phase)
    /\ Append(a, phase)
    /\ \/ UNCHANGED tasks
       \/ /\ journal[Req(a)].phase = "engineering" /\ tasks[Req(a)] \in {"none", "settled"}
          /\ tasks' = [tasks EXCEPT ![Req(a)] = "open"]
    /\ phase = "done" => tasks'[Req(a)] = "settled"
    /\ UNCHANGED <<receipt, plan, retired, purged, lock, purging, actor>>

Return(a) ==
    /\ At(a, "working")
    /\ End(a)
    /\ UnchangedDisk

-----------------------------------------------------------------------------
(* Cancellation                                                            *)

\* find, _require_scope and put: the receipt is made once and binds a checkpoint.
ReceiptFor(r, action) ==
    IF receipt[r] = NoReceipt THEN [action |-> action, seq |-> journal[r].seq]
                              ELSE receipt[r]

ReceiptFits(r, action) ==
    ReceiptFor(r, action) = [action |-> action, seq |-> journal[r].seq]

\* _require_cancellation_history: a close left its CLOSED checkpoint behind.
CancellationHistory(r) ==
    receipt[r].action = "close" => receipt[r].seq + 1 \in journal[r].closed

CloseAllowed(r) ==
    \/ journal[r].phase \in {"ready", "draft", "stopped"}
    \/ journal[r].phase = "engineering" /\ tasks[r] = "open"

\* close_requirement: the guard, and the receipt before anything is cancelled.
Close(a) ==
    LET r == Req(a) IN
    /\ Runs(a, "close", "locked")
    /\ IF /\ Current(r) /\ journal[r].seq = actor[a].expect
          /\ CloseAllowed(r) /\ tasks[r] # "leased"
          /\ tasks[r] # "none" => ReceiptFits(r, "close")
       THEN /\ receipt' = IF tasks[r] = "none" THEN receipt
                          ELSE [receipt EXCEPT ![r] = ReceiptFor(r, "close")]
            /\ Goto(a, IF tasks[r] = "none" THEN "close" ELSE "settle")
            /\ UnchangedLocks /\ UNCHANGED <<journal, tasks, plan, retired, purged>>
       ELSE Refuse(a)

\* The terminal event of every Task and close_cancelled_task.
Settled(a) == tasks' = [tasks EXCEPT ![Req(a)] = "settled"]

CloseSettles(a) ==
    /\ At(a, "settle")
    /\ Settled(a)
    /\ Goto(a, "close")
    /\ UnchangedLocks /\ UNCHANGED <<journal, receipt, plan, retired, purged>>

CloseSaves(a) ==
    /\ At(a, "close")
    /\ Append(a, "closed")
    /\ End(a)
    /\ UNCHANGED <<tasks, receipt, plan, retired, purged>>

Restart(a) ==
    LET r == Req(a) IN
    /\ Runs(a, "restart", "locked")
    /\ IF /\ Current(r) /\ journal[r].seq = actor[a].expect
          /\ journal[r].phase = "closed" /\ receipt[r].action # "close"
       THEN Append(a, "stopped") /\ End(a) /\ UNCHANGED <<tasks, receipt, plan, retired, purged>>
       ELSE Refuse(a)

-----------------------------------------------------------------------------
(* update_requirement: a new draft, then the retirement of the old one     *)

Retire(r, reason, by) ==
    retired' = [retired EXCEPT ![r] = [reason |-> reason, seq |-> journal[r].seq, by |-> by]]

\* Mutant: the displayed draft is retired before the edited one exists.
ReplaceFirst(a) ==
    /\ Runs(a, "replace", "locked")
    /\ IF /\ Current(Req(a)) /\ journal[Req(a)].seq = actor[a].expect
          /\ journal[Req(a)].phase = "ready"
          /\ retired[actor[a].by] = NotRetired /\ purged[actor[a].by] = 0
       THEN /\ Goto(a, "intake") /\ Retire(Req(a), "replaced", actor[a].by)
            /\ UnchangedLocks /\ UNCHANGED <<journal, tasks, receipt, plan, purged>>
       ELSE Refuse(a)

Replace(a) ==
    /\ Runs(a, "replace", "locked")
    /\ IF /\ Current(Req(a)) /\ journal[Req(a)].seq = actor[a].expect
          /\ journal[Req(a)].phase = "ready"
          /\ retired[actor[a].by] = NotRetired /\ purged[actor[a].by] = 0
       THEN Goto(a, "intake") /\ UnchangedDisk /\ UnchangedLocks
       ELSE Refuse(a)

\* _intake(require_editable_result): the other journal is locked as well.
Intake(a) ==
    LET r2 == actor[a].by IN
    /\ At(a, "intake")
    /\ IF lock[r2] # None \/ retired[r2] # NotRetired \/ ~Readable
             \/ (Recorded(r2) /\ journal[r2].phase # "ready")
       THEN /\ End(a)
            /\ journal' = [journal EXCEPT ![r2].dir = TRUE, ![r2].lockfile = TRUE]
            /\ UNCHANGED <<tasks, receipt, plan, retired, purged>>
       ELSE /\ journal' = [journal EXCEPT ![r2] =
                  IF Recorded(r2) THEN [@ EXCEPT !.lockfile = TRUE]
                  ELSE [NoJournal EXCEPT !.dir = TRUE, !.lockfile = TRUE,
                                         !.records = "whole", !.seq = 1]]
            /\ Goto(a, IF Recorded(r2) THEN "replace" ELSE "prepare")
            /\ lock' = [lock EXCEPT ![r2] = a] /\ UNCHANGED purging
            /\ UNCHANGED <<tasks, receipt, plan, retired, purged>>

\* The preparation of the new draft succeeds, or the draft is withdrawn.
Prepare(a) ==
    LET r2 == actor[a].by IN
    /\ At(a, "prepare")
    /\ \/ /\ journal' = [journal EXCEPT ![r2].seq = 2, ![r2].phase = "ready"]
          /\ Goto(a, "replace") /\ UnchangedLocks /\ UNCHANGED retired
       \/ Retire(r2, "deleted", None) /\ End(a) /\ UNCHANGED journal
    /\ UNCHANGED <<tasks, receipt, plan, purged>>

ReplaceRetires(a) ==
    /\ At(a, "replace")
    /\ Retire(Req(a), "replaced", actor[a].by)
    /\ End(a)
    /\ UNCHANGED <<journal, tasks, receipt, plan, purged>>

-----------------------------------------------------------------------------
(* delete_requirement                                                      *)

\* _require_deletable, and the preparation an edit left behind.
Deletable(r) ==
    \/ journal[r].phase \in {"ready", "draft", "stopped", "closed", "done"}
    \/ /\ journal[r].phase = "preparing" /\ journal[r].seq = 1
       /\ retired[r].seq = 1

\* The completion exists: a plan the publication left over is removed.
DeleteAgain(a) ==
    LET r == Req(a) IN
    /\ At(a, "begin") /\ purged[r] # 0
    /\ plan' = IF /\ retired[r].reason = "deleted" /\ ~journal[r].dir
                  /\ purged[r] = actor[a].expect /\ purging[r] = None
               THEN [plan EXCEPT ![r] = 0] ELSE plan
    /\ End(a)
    /\ UNCHANGED <<journal, tasks, receipt, retired, purged>>

DeleteBegins(a) ==
    /\ At(a, "begin") /\ purged[Req(a)] = 0
    /\ Goto(a, "pending")
    /\ UnchangedDisk /\ UnchangedLocks

\* Mutant: a retired Requirement counts as deleted and its plan is not executed again.
DeletePendingOnce(a) ==
    LET r == Req(a) IN
    /\ At(a, "pending")
    /\ IF purged[r] # 0 \/ retired[r] # NotRetired \/ plan[r] \notin {0, actor[a].expect}
       THEN Refuse(a)
       ELSE /\ actor' = [actor EXCEPT ![a].pc = "probe",
                                      ![a].cmd = IF plan[r] = 0 THEN "delete" ELSE "revoke"]
            /\ UnchangedDisk /\ UnchangedLocks

\* A sealed plan is executed again, once the retirement is known to be durable.
DeletePending(a) ==
    LET r == Req(a) IN
    /\ At(a, "pending")
    /\ IF plan[r] = 0
       THEN IF purged[r] # 0 THEN Refuse(a)
            ELSE Goto(a, "probe") /\ UnchangedDisk /\ UnchangedLocks
       ELSE IF plan[r] # actor[a].expect THEN Refuse(a)
       ELSE IF retired[r] = NotRetired
            THEN /\ actor' = [actor EXCEPT ![a].pc = "probe", ![a].cmd = "revoke"]
                 /\ UnchangedDisk /\ UnchangedLocks
       ELSE IF retired[r].reason = "deleted" /\ retired[r].seq = plan[r]
            THEN Goto(a, "purge") /\ UnchangedDisk /\ UnchangedLocks
       ELSE Refuse(a)

Revoke(a) ==
    LET r == Req(a) IN
    /\ Runs(a, "revoke", "locked")
    /\ IF Recorded(r) /\ journal[r].seq = actor[a].expect /\ Deletable(r)
       THEN /\ Retire(r, "deleted", None)
            /\ lock' = [lock EXCEPT ![r] = None] /\ UNCHANGED purging
            /\ Goto(a, "purge")
            /\ UNCHANGED <<journal, tasks, receipt, plan, purged>>
       ELSE Refuse(a)

\* The checks of the displayed checkpoint and of its engineering; the receipt of the
\* cancellation comes before it.
DeleteChecks(a) ==
    LET r == Req(a) IN
    /\ Runs(a, "delete", "locked")
    /\ IF /\ Recorded(r) /\ journal[r].seq = actor[a].expect
          /\ retired[r].reason # "replaced" /\ Deletable(r)
          /\ \/ tasks[r] = "none"
             \/ tasks[r] = "open" /\ ReceiptFits(r, "delete")
             \/ tasks[r] = "settled" /\ CancellationHistory(r)
       THEN /\ receipt' = IF tasks[r] = "open"
                          THEN [receipt EXCEPT ![r] = ReceiptFor(r, "delete")] ELSE receipt
            /\ Goto(a, IF tasks[r] = "open" THEN "deleteSettle" ELSE "seal")
            /\ UnchangedLocks /\ UNCHANGED <<journal, tasks, plan, retired, purged>>
       ELSE Refuse(a)

DeleteSettles(a) ==
    /\ At(a, "deleteSettle")
    /\ Settled(a)
    /\ Goto(a, "seal")
    /\ UnchangedLocks /\ UNCHANGED <<journal, receipt, plan, retired, purged>>

\* prepare: the inventory of what will be destroyed is published first.
Seal(a) ==
    LET r == Req(a) IN
    /\ At(a, "seal")
    /\ IF plan[r] \in {0, journal[r].seq}
       THEN /\ plan' = [plan EXCEPT ![r] = journal[r].seq]
            /\ Goto(a, "retire")
            /\ UnchangedLocks /\ UNCHANGED <<journal, tasks, receipt, retired, purged>>
       ELSE Refuse(a)

\* Mutant: the purge starts before the retirement is durable.
RetireLater(a) ==
    /\ At(a, "retire")
    /\ Goto(a, "purge")
    /\ UnchangedDisk /\ UnchangedLocks

RetireDeleted(a) ==
    LET r == Req(a) IN
    /\ At(a, "retire")
    /\ IF retired[r] = NotRetired \/ retired[r].seq = journal[r].seq
       THEN /\ Retire(r, "deleted", None)
            /\ Goto(a, "purge")
            /\ UnchangedLocks /\ UNCHANGED <<journal, tasks, receipt, plan, purged>>
       ELSE Refuse(a)

-----------------------------------------------------------------------------
(* RequirementPurger.execute                                               *)

PurgeStarts(a) ==
    LET r == Req(a) IN
    /\ At(a, "purge")
    /\ IF purging[r] = None /\ plan[r] = actor[a].expect
       THEN /\ purging' = [purging EXCEPT ![r] = a] /\ UNCHANGED lock
            /\ Goto(a, "rows")
            /\ UnchangedDisk
       ELSE Refuse(a)

\* One transaction, after the rows and files were compared with the plan.
PurgeRows(a) ==
    /\ At(a, "rows")
    /\ tasks' = [tasks EXCEPT ![Req(a)] = IF @ = "none" THEN "none" ELSE "purged"]
    /\ Goto(a, "records")
    /\ UnchangedLocks /\ UNCHANGED <<journal, receipt, plan, retired, purged>>

\* The parent journal is unlinked last, its first checkpoint first ...
PurgeRecords(a) ==
    /\ At(a, "records")
    /\ journal' = [journal EXCEPT ![Req(a)].records = IF @ = "whole" THEN "partial" ELSE @]
    /\ Goto(a, "unlink")
    /\ UnchangedLocks /\ UNCHANGED <<tasks, receipt, plan, retired, purged>>

\* ... its receipt and its lock file, which the next command makes again, at the end.
PurgeUnlinks(a) ==
    LET r == Req(a) IN
    /\ At(a, "unlink")
    /\ journal' = [journal EXCEPT ![r] = [NoJournal EXCEPT !.dir = TRUE]]
    /\ receipt' = [receipt EXCEPT ![r] = NoReceipt]
    /\ lock' = [lock EXCEPT ![r] = None] /\ UNCHANGED purging
    /\ Goto(a, "rmdir")
    /\ UNCHANGED <<tasks, plan, retired, purged>>

PurgeRmdir(a) ==
    /\ At(a, "rmdir") /\ ~journal[Req(a)].lockfile
    /\ journal' = [journal EXCEPT ![Req(a)] = NoJournal]
    /\ Goto(a, "publish")
    /\ UnchangedLocks /\ UNCHANGED <<tasks, receipt, plan, retired, purged>>

\* A file that is not sealed makes rmdir fail.
RmdirFails(a) ==
    /\ At(a, "rmdir") /\ journal[Req(a)].lockfile
    /\ Refuse(a)

PurgePublishes(a) ==
    /\ At(a, "publish")
    /\ purged' = [purged EXCEPT ![Req(a)] = plan[Req(a)]]
    /\ Goto(a, "unplan")
    /\ UnchangedLocks /\ UNCHANGED <<journal, tasks, receipt, plan, retired>>

PurgeEnds(a) ==
    /\ At(a, "unplan")
    /\ plan' = [plan EXCEPT ![Req(a)] = 0]
    /\ End(a)
    /\ UNCHANGED <<journal, tasks, receipt, retired, purged>>

-----------------------------------------------------------------------------
(* The specification                                                       *)

PurgeStep(a) ==
    \/ PurgeStarts(a) \/ PurgeRows(a) \/ PurgeRecords(a) \/ PurgeUnlinks(a) \/ PurgeRmdir(a)
    \/ PurgePublishes(a) \/ PurgeEnds(a)

DeleteStep(a) ==
    \/ DeleteAgain(a) \/ DeleteBegins(a) \/ DeletePending(a) \/ Revoke(a) \/ DeleteChecks(a)
    \/ DeleteSettles(a) \/ Seal(a) \/ RetireDeleted(a) \/ RmdirFails(a)

CommandStep(a) ==
    \/ Acquire(a) \/ Create(a) \/ Work(a) \/ Return(a)
    \/ Close(a) \/ CloseSettles(a) \/ CloseSaves(a) \/ Restart(a)
    \/ Replace(a) \/ Intake(a) \/ Prepare(a) \/ ReplaceRetires(a)

Next ==
    /\ UNCHANGED calm
    /\ \/ \E a \in Actor :
             \/ \E r \in Requirement, e \in 0 .. MaxSeq,
                   cmd \in {"create", "work", "close", "restart", "delete"} :
                      Begin(a, cmd, r, e)
             \/ \E r, r2 \in Requirement : BeginReplace(a, r, r2)
             \/ \E phase \in Phase : Advance(a, phase)
             \/ CommandStep(a) \/ DeleteStep(a) \/ PurgeStep(a) \/ Crash(a)
       \/ \E r \in Requirement : WorkerClaims(r) \/ WorkerLeaves(r)

Spec == Init /\ [][Next]_vars

CalmsDown ==
    /\ ~calm /\ calm' = TRUE
    /\ UnchangedDisk /\ UnchangedLocks /\ UNCHANGED actor

\* There are finitely many crashes and other commands, a running command goes on, and
\* a person repeats a deletion that did not complete.
FairSpec ==
    /\ Init /\ [][Next \/ CalmsDown]_vars
    /\ WF_vars(CalmsDown)
    /\ \A a \in Actor :
          WF_vars(UNCHANGED calm /\ (CommandStep(a) \/ DeleteStep(a) \/ PurgeStep(a)))
    /\ \A r \in Requirement :
          SF_vars(UNCHANGED calm /\ plan[r] # 0
                  /\ \E a \in Actor : Begin(a, "delete", r, plan[r]))

-----------------------------------------------------------------------------
(* Properties                                                              *)

\* Nothing is appended to the journal of a Requirement that was deleted or replaced,
\* although the purge unlinks the lock file a command may hold and the next one makes
\* a new one.
RetiredIsFrozen ==
    [][\A r \in Requirement :
          retired[r] # NotRetired => journal'[r].seq <= journal[r].seq]_vars

\* The purge destroys rows and checkpoints only of the Requirement, and of the very
\* checkpoint, whose deletion is durable: an interruption never leaves a half
\* destroyed Requirement that could go on.
DestroyedAsDecided ==
    \A r \in Requirement :
        tasks[r] = "purged" \/ journal[r].records = "partial" \/ purged[r] # 0 =>
            /\ retired[r].reason = "deleted"
            /\ retired[r].seq \in {plan[r], purged[r]}

\* Close and delete never leave engineering behind: a closed or retired Requirement
\* has no open Task, and no Task is settled or destroyed while a worker holds it.
NoTaskAdrift ==
    /\ \A r \in Requirement :
          (Recorded(r) /\ journal[r].phase = "closed") \/ retired[r] # NotRetired =>
              tasks[r] \notin {"open", "leased"}
    /\ \A a \in Actor :
          /\ actor[a].pc \in {"settle", "deleteSettle"} => tasks[Req(a)] # "leased"
          /\ actor[a].pc \in {"close", "seal", "retire", "rows"} =>
                tasks[Req(a)] \notin {"open", "leased"}

\* A draft that was replaced has a successor: an edit that fails or is interrupted
\* loses neither of the two.
ReplacedHasSuccessor ==
    \A r \in Requirement :
        retired[r].reason = "replaced" =>
            Recorded(retired[r].by) \/ retired[retired[r].by] # NotRetired

\* The steps of a command that follow from a checkpoint it read.
Writing == {"working", "settle", "close", "intake", "prepare", "replace", "deleteSettle",
            "seal", "retire"}

\* The Requirements whose checkpoint a's command acts on: an edit makes the new
\* draft while it holds the displayed one.
WritesTo(a) ==
    {Req(a)} \cup (IF actor[a].pc \in {"prepare", "replace"} THEN {actor[a].by} ELSE {})

\* At most one command acts on the checkpoint of a Requirement.
OneWriter ==
    \A a, b \in Actor :
        a # b /\ {actor[a].pc, actor[b].pc} \subseteq Writing =>
            WritesTo(a) \cap WritesTo(b) = {}

\* A deletion that became durable and is repeated after every interruption ends: the
\* identity marker is published and the data is gone.
DeletionCompletes ==
    \A r \in Requirement :
        retired[r].reason = "deleted" /\ plan[r] # 0 ~> purged[r] # 0

-----------------------------------------------------------------------------
(* Claims of the repository that the code does not keep                    *)

\* "An interrupted cleanup can be retried with the same deletion": a sealed plan that
\* is not retired yet still binds the current checkpoint.
PendingDeleteRetryable ==
    \A r \in Requirement :
        plan[r] # 0 /\ retired[r] = NotRetired => journal[r].seq = plan[r]

\* purged_entry: a purged Requirement has no directory, or no command of the Project
\* is accepted any more.
PurgedIsGone == \A r \in Requirement : purged[r] # 0 => ~journal[r].dir
=============================================================================
