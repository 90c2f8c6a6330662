--------------------------- MODULE TaskRepository ---------------------------
(***************************************************************************)
(* What the Task snapshot promises to every reader: the status only moves  *)
(* along LEGAL_TRANSITIONS, execution attempts are reserved one by one up  *)
(* to the frozen limit, transient failures are facts about a reserved      *)
(* attempt of the active role, and a terminal Task never changes again.    *)
(***************************************************************************)
EXTENDS Naturals, FiniteSets

CONSTANTS
    MaxWork,    \* DeliveryRetryPolicy.max_work_attempts
    Limit       \* [DeliveryRole -> Nat]: transient_limit(role)

DeliveryRole == {"CODER", "QA", "REVIEWER"}

ASSUME PolicyConstants ==
    /\ MaxWork \in Nat \ {0}
    /\ Limit \in [DeliveryRole -> Nat \ {0}]

VARIABLES
    status,     \* Task.status
    attempts,   \* Task.attempts
    failures    \* Task.retry_failures: [role, attempt]

repositoryVars == <<status, attempts, failures>>

TaskStatus == {"NEW", "PLANNING", "IMPLEMENTING", "CONTINUE_REQUIRED", "QUEUED",
               "QA", "REVIEW", "DONE", "BLOCKED", "FAILED"}

Terminal == {"DONE", "BLOCKED", "FAILED"}

\* The status edges build_event and append_event accept.
LegalTransitions ==
    {<<"NEW", "PLANNING">>, <<"PLANNING", "IMPLEMENTING">>,
     <<"IMPLEMENTING", "CONTINUE_REQUIRED">>, <<"IMPLEMENTING", "QA">>,
     <<"CONTINUE_REQUIRED", "QUEUED">>, <<"QUEUED", "IMPLEMENTING">>,
     <<"QA", "REVIEW">>, <<"QA", "IMPLEMENTING">>,
     <<"REVIEW", "DONE">>, <<"REVIEW", "IMPLEMENTING">>}
    \cup ((TaskStatus \ (Terminal \cup {"NEW"})) \X {"BLOCKED"})
    \cup ((TaskStatus \ Terminal) \X {"FAILED"})

\* execution_limit, frozen as Task.max_attempts.
MaxAttempts == MaxWork + Limit["CODER"] + Limit["QA"] + Limit["REVIEWER"]

\* The status in which a role executes.
StatusOf(role) == CASE role = "CODER" -> "IMPLEMENTING"
                    [] role = "QA" -> "QA"
                    [] role = "REVIEWER" -> "REVIEW"

TransientFailures(role) == {f \in failures : f.role = role}

\* Task.work_attempt: attempts that no earlier transient failure paid for.
WorkAttempt == attempts - Cardinality({f \in failures : f.attempt < attempts})

WorkBudgetExhausted == WorkAttempt >= MaxWork

\* Task.with_retry_failure accepts a failure of the role's active attempt.
FailureRecordable(role) ==
    /\ status = StatusOf(role)
    /\ \A f \in failures : f.attempt # attempts
    /\ Cardinality(TransientFailures(role)) < Limit[role]

\* It reserves the next attempt, unless the role's allowance is now used up.
ReservesNext(role) ==
    /\ Cardinality(TransientFailures(role)) + 1 < Limit[role]
    /\ attempts < MaxAttempts

WithRetryFailure(role) ==
    /\ failures' = failures \cup {[role |-> role, attempt |-> attempts]}
    /\ attempts' = IF ReservesNext(role) THEN attempts + 1 ELSE attempts

-----------------------------------------------------------------------------

RepositoryInit ==
    /\ status = "NEW"
    /\ attempts = 0
    /\ failures = {}

AppendEvent(to) ==
    /\ <<status, to>> \in LegalTransitions
    /\ status' = to
    /\ UNCHANGED <<attempts, failures>>

\* One ordinary work attempt is reserved, within both budgets.
RecordAttempt ==
    /\ status \notin Terminal
    /\ attempts < MaxAttempts
    /\ ~WorkBudgetExhausted
    /\ attempts' = attempts + 1
    /\ UNCHANGED <<status, failures>>

RecordRetryFailure(role) ==
    /\ FailureRecordable(role)
    /\ WithRetryFailure(role)
    /\ UNCHANGED status

RepositoryNext ==
    \/ \E to \in TaskStatus : AppendEvent(to)
    \/ RecordAttempt
    \/ \E role \in DeliveryRole : RecordRetryFailure(role)

RepositorySpec == RepositoryInit /\ [][RepositoryNext]_repositoryVars

-----------------------------------------------------------------------------

\* Ordinary work never exceeds max_work_attempts, although transient failures
\* of three roles reserve attempts from the same counter.
WorkBudgetRespected == WorkAttempt <= MaxWork
=============================================================================
